----------------------------- MODULE Breakpoints -----------------------------
(***************************************************************************)
(* The walk over the breakpoints at an instruction, breakpoint.c.  A        *)
(* breakpoint's handler may add and remove breakpoints, its own among them, *)
(* return from the routine it stands for, and read memory; with a           *)
(* watchpoint set, reading memory walks another list with the same pointer. *)
(***************************************************************************)
EXTENDS Integers, Sequences, SequencesExt

CONSTANTS
    Bps, Pcs,
    Address,  \* where each breakpoint is
    NoBp

ASSUME BreakpointsAssumption == Address \in [Bps -> Pcs] /\ NoBp \notin Bps

VARIABLES
    instruction_list,
    watched,  \* wp_read_list is not empty
    walk,     \* "idle", "walking" or, in a handler, "handling"
    iter, iter_next,
    pc, cur_pc,
    due,      \* the breakpoints at cur_pc since the pass began, and not removed
    called,   \* those whose handlers it has called
    nested    \* memory was read in this pass, past a watchpoint

bpVars == <<instruction_list, watched, walk, iter, iter_next, pc, cur_pc, due, called, nested>>

-----------------------------------------------------------------------------
First(list) == IF list = <<>> THEN NoBp ELSE Head(list)

After(list, b) ==
    LET later == {i \in 2..Len(list) : list[i - 1] = b}
    IN  IF later = {} THEN NoBp ELSE list[CHOOSE i \in later : TRUE]

\* bp_add
BpAdd(b) ==
    /\ walk # "walking"
    /\ ~Contains(instruction_list, b)
    /\ instruction_list' = <<b>> \o instruction_list
    /\ UNCHANGED <<watched, walk, iter, iter_next, pc, cur_pc, due, called, nested>>

\* (Slip: the walk is left with a breakpoint that has gone.)
BpRemoveUnderfoot(b) ==
    /\ walk # "walking"
    /\ Contains(instruction_list, b)
    /\ instruction_list' = RemoveFirst(instruction_list, b)
    /\ due' = due \ {b}
    /\ UNCHANGED <<watched, walk, iter, iter_next, pc, cur_pc, called, nested>>

\* bp_remove
BpRemove(b) ==
    /\ walk # "walking"
    /\ Contains(instruction_list, b)
    /\ iter_next' = IF iter_next = b THEN After(instruction_list, b) ELSE iter_next
    /\ instruction_list' = RemoveFirst(instruction_list, b)
    /\ due' = due \ {b}
    /\ UNCHANGED <<watched, walk, iter, pc, cur_pc, called, nested>>

\* bp_wp_add_range and bp_wp_remove_range, by the debugger, between instructions.
Watch ==
    /\ walk = "idle"
    /\ watched' = ~watched
    /\ UNCHANGED <<instruction_list, walk, iter, iter_next, pc, cur_pc, due, called, nested>>

-----------------------------------------------------------------------------
\* One pass of bp_hook begins.
Pass(p) ==
    /\ walk' = "walking"
    /\ cur_pc' = p
    /\ iter' = First(instruction_list)
    /\ due' = {b \in ToSet(instruction_list) : Address[b] = p}
    /\ called' = {} /\ nested' = FALSE

\* The CPU comes to an instruction; the hook is off when the list is empty.
BpInstructionHook(p) ==
    /\ walk = "idle" /\ instruction_list # <<>>
    /\ pc' = p
    /\ Pass(p)
    /\ UNCHANGED <<instruction_list, watched, iter_next>>

BpHook ==
    /\ walk = "walking" /\ iter # NoBp
    /\ iter_next' = After(instruction_list, iter)
    /\ \/ /\ Address[iter] = cur_pc
          /\ walk' = "handling" /\ called' = called \union {iter}
          /\ UNCHANGED iter
       \/ /\ Address[iter] # cur_pc
          /\ iter' = iter_next'
          /\ UNCHANGED <<walk, called>>
    /\ UNCHANGED <<instruction_list, watched, pc, cur_pc, due, nested>>

\* The handler returns from the routine (op_rts), or sets the PC itself.
HandlerJumps(p) ==
    /\ walk = "handling" /\ pc' = p
    /\ UNCHANGED <<instruction_list, watched, walk, iter, iter_next, cur_pc, due, called, nested>>

\* The handler reads memory, as op_rts does: bp_wp_read_hook walks its own list,
\* and leaves iter_next at the end of it.
HandlerReads ==
    /\ walk = "handling" /\ watched
    /\ iter_next' = NoBp /\ nested' = TRUE
    /\ UNCHANGED <<instruction_list, watched, walk, iter, pc, cur_pc, due, called>>

HandlerEnds ==
    /\ walk = "handling"
    /\ walk' = "walking" /\ iter' = iter_next
    /\ UNCHANGED <<instruction_list, watched, iter_next, pc, cur_pc, due, called, nested>>

\* The end of a pass: where the PC has moved, there is another.
PassEnds ==
    /\ walk = "walking" /\ iter = NoBp
    /\ iter_next' = NoBp
    /\ \/ pc # cur_pc /\ Pass(pc)
       \/ /\ pc = cur_pc /\ walk' = "idle"
          /\ UNCHANGED <<iter, cur_pc, due, called, nested>>
    /\ UNCHANGED <<instruction_list, watched, pc>>

BpInit ==
    /\ instruction_list = <<>> /\ watched = FALSE
    /\ walk = "idle" /\ iter = NoBp /\ iter_next = NoBp
    /\ pc \in Pcs /\ cur_pc = pc
    /\ due = {} /\ called = {} /\ nested = FALSE

BpNext ==
    \/ \E b \in Bps : BpAdd(b) \/ BpRemove(b)
    \/ \E p \in Pcs : BpInstructionHook(p) \/ HandlerJumps(p)
    \/ Watch \/ BpHook \/ HandlerReads \/ HandlerEnds \/ PassEnds

BpSpec == BpInit /\ [][BpNext]_bpVars

-----------------------------------------------------------------------------
BpOK ==
    /\ instruction_list \in Seq(Bps)
    /\ watched \in BOOLEAN /\ nested \in BOOLEAN
    /\ walk \in {"idle", "walking", "handling"}
    /\ iter \in Bps \union {NoBp} /\ iter_next \in Bps \union {NoBp}
    /\ pc \in Pcs /\ cur_pc \in Pcs
    /\ due \subseteq Bps /\ called \subseteq Bps

\* However the handlers change the list under the walk, it never comes to a
\* breakpoint that has been removed, whose list entry is freed; and at the end of
\* a pass every breakpoint that was at the address throughout has been called.
\* But the walk shares iter_next with the one a watchpoint starts (breakpoint.c:
\* 212-223): a handler that reads memory then hides the breakpoints after it.
BreakpointsHeard ==
    /\ BpOK
    /\ {iter_next} \ {NoBp} \subseteq ToSet(instruction_list)
    /\ walk = "walking" => {iter} \ {NoBp} \subseteq ToSet(instruction_list)
    /\ walk = "walking" /\ iter = NoBp /\ ~nested => due \subseteq called
=============================================================================

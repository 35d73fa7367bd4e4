---------------------------------- MODULE Gdb ----------------------------------
(***************************************************************************)
(* The GDB target, gdb.c: two threads share a run state.  The emulation    *)
(* thread asks before each slice of machine time whether to run it (the    *)
(* slice is dragon_run, dragon.c, and holds the mutex throughout); the     *)
(* socket thread takes packets from a debugger and stops, continues and    *)
(* steps the machine.  A third party is the debugger itself, which may     *)
(* break in, detach or vanish.                                             *)
(*                                                                         *)
(* The socket thread holds the mutex only for a few assignments, so those  *)
(* are one step, and the mutex is held or not held by the emulation        *)
(* thread.  The condition variable is the set of threads waiting on it;    *)
(* wake-ups without a signal are left out.  What a packet asks of the      *)
(* machine's registers, memory and breakpoints is a "query".               *)
(***************************************************************************)
EXTENDS Integers, Sequences

CONSTANTS
    Early,     \* may it ask while the machine runs?
    MaxWire,   \* packets under way, in both directions
    Endings    \* how it may vanish: "reset", "fin"

ASSUME GdbAssumption ==
    /\ Early \in BOOLEAN
    /\ MaxWire \in Nat \ {0} /\ Endings \subseteq {"reset", "fin"}

VARIABLES
    run,       \* run_state
    held,      \* run_state_mt, by the emulation thread
    waiting,   \* on run_state_cv
    emu, sock, \* where the two threads are
    cmd,       \* in_packet
    armed,     \* the machine has breakpoints
    wire,      \* to the target
    replies,   \* to the debugger
    client     \* what the debugger is doing

target == <<run, held, waiting, emu, armed>>
vars == <<run, held, waiting, emu, sock, cmd, armed, wire, replies, client>>

Requests == {"query", "continue", "step", "detach"}

\* The states of the emulation thread in which instructions are executed.
Executing == {"running", "single_step"}

Connected == sock \notin {"accept", "closing"} /\ client \notin {"reset", "fin"}
Reply(x) == replies' = IF Connected THEN Append(replies, x) ELSE replies

-----------------------------------------------------------------------------
(* The emulation thread: dragon_run, and the functions it calls.           *)

\* (Slip: a stopped machine does not wait.)
LockUnwaited ==
    /\ emu = "idle" /\ ~held
    /\ emu' = run /\ held' = TRUE
    /\ UNCHANGED <<run, waiting, sock, cmd, armed, wire, replies, client>>

\* gdb_run_lock: the mutex is kept, unless the machine is stopped.
Lock ==
    /\ emu = "idle" /\ ~held
    /\ IF run = "stopped"
         THEN emu' = "waiting" /\ waiting' = waiting \union {"emu"} /\ UNCHANGED held
         ELSE emu' = run /\ held' = TRUE /\ UNCHANGED waiting
    /\ UNCHANGED <<run, sock, cmd, armed, wire, replies, client>>

\* After 20 ms the wait is over, whatever the run state has become.
TimesOut ==
    /\ emu = "waiting" /\ "emu" \in waiting
    /\ emu' = "timed out" /\ waiting' = waiting \ {"emu"}
    /\ UNCHANGED <<run, held, sock, cmd, armed, wire, replies, client>>

GivesUp ==
    /\ emu = "timed out" /\ ~held
    /\ emu' = "idle"
    /\ UNCHANGED <<run, held, waiting, sock, cmd, armed, wire, replies, client>>

WakePending == emu = "waiting" /\ "emu" \notin waiting

\* Woken, it has the mutex back.  If the machine has been stopped once more in
\* the meantime dragon_run returns at once, and does not unlock.
Wakes ==
    /\ WakePending /\ ~held
    /\ held' = TRUE
    /\ emu' = IF run = "stopped" THEN "idle" ELSE run
    /\ UNCHANGED <<run, waiting, sock, cmd, armed, wire, replies, client>>

SliceEnds ==
    /\ emu = "running"
    /\ emu' = "idle" /\ held' = FALSE
    /\ UNCHANGED <<run, waiting, sock, cmd, armed, wire, replies, client>>

\* A breakpoint or watchpoint ends the slice: gdb_stop, which writes the run state
\* first and the reply after it.
Traps ==
    /\ emu = "running" /\ armed
    /\ run' = "stopped" /\ emu' = "trapped"
    /\ UNCHANGED <<held, waiting, sock, cmd, armed, wire, replies, client>>

ReportTrap ==
    /\ emu = "trapped"
    /\ Reply("stop")
    /\ emu' = "idle" /\ held' = FALSE
    /\ UNCHANGED <<run, waiting, sock, cmd, armed, wire, client>>

\* (Slip: gdb_single_step leaves the run state.)
StepsOn ==
    /\ emu = "single_step"
    /\ emu' = "stepped"
    /\ UNCHANGED <<run, held, waiting, sock, cmd, armed, wire, replies, client>>

\* One instruction, then gdb_single_step.
Steps ==
    /\ emu = "single_step"
    /\ run' = "stopped" /\ emu' = "stepped"
    /\ UNCHANGED <<held, waiting, sock, cmd, armed, wire, replies, client>>

\* (Slip: the socket thread is not signalled.)
ReportStepQuietly ==
    /\ emu = "stepped"
    /\ Reply("stop")
    /\ emu' = "idle" /\ held' = FALSE
    /\ UNCHANGED <<run, waiting, sock, cmd, armed, wire, client>>

ReportStep ==
    /\ emu = "stepped"
    /\ Reply("stop")
    /\ waiting' = waiting \ {"sock"}
    /\ emu' = "idle" /\ held' = FALSE
    /\ UNCHANGED <<run, sock, cmd, armed, wire, client>>

Emu ==
    \/ Lock \/ TimesOut \/ GivesUp \/ Wakes
    \/ SliceEnds \/ Traps \/ ReportTrap \/ Steps \/ ReportStep

-----------------------------------------------------------------------------
(* The socket thread, handle_tcp_sock.                                     *)

\* (Slip: a machine that is stopped is stopped again.)
InterruptAny(ack) ==
    /\ ~held
    /\ run' = "stopped"
    /\ IF ack THEN Reply("stop") ELSE UNCHANGED replies

\* gdb_machine_signal.
Interrupt(ack) ==
    /\ ~held
    /\ run' = IF run = "running" THEN "stopped" ELSE run
    /\ IF run = "running" /\ ack THEN Reply("stop") ELSE UNCHANGED replies

\* gdb_continue.
Continue ==
    /\ ~held
    /\ IF run = "stopped"
         THEN run' = "running" /\ waiting' = waiting \ {"emu"}
         ELSE UNCHANGED <<run, waiting>>

Attaches ==
    /\ sock = "attach" /\ Interrupt(FALSE)
    /\ sock' = "read"
    /\ UNCHANGED <<held, waiting, emu, cmd, armed, wire, client>>

\* read_packet.  At the end of the stream it reads on and on: there is no action
\* for that.
Reads ==
    /\ sock = "read" /\ wire # <<>>
    /\ wire' = Tail(wire)
    /\ IF Head(wire) = "break" THEN sock' = "break" /\ UNCHANGED cmd
                               ELSE sock' = "check" /\ cmd' = Head(wire)
    /\ UNCHANGED <<target, replies, client>>

LosesClient ==
    /\ sock = "read" /\ client = "reset"
    /\ sock' = "closing"
    /\ UNCHANGED <<target, cmd, wire, replies, client>>

Breaks ==
    /\ sock = "break" /\ Interrupt(TRUE)
    /\ sock' = "read"
    /\ UNCHANGED <<held, waiting, emu, cmd, armed, wire, client>>

\* (Slip: a packet is handled whatever the machine does.)
ChecksNothing ==
    /\ sock = "check"
    /\ sock' = cmd
    /\ UNCHANGED <<target, cmd, wire, replies, client>>

\* The run state is read without the mutex; a packet that comes while the machine
\* is not stopped is refused.
Checks ==
    /\ sock = "check"
    /\ sock' = IF run = "stopped" THEN cmd ELSE "read"
    /\ UNCHANGED <<target, cmd, wire, replies, client>>

\* The query may have been for a breakpoint to be set or removed: the
\* debugger waits for the answer to that.
Answers ==
    /\ sock = "query"
    /\ Reply("answer")
    /\ armed' \in IF client = "asking" THEN BOOLEAN ELSE {armed}
    /\ sock' = "read"
    /\ UNCHANGED <<run, held, waiting, emu, cmd, wire, client>>

Continues ==
    /\ sock = "continue" /\ Continue
    /\ sock' = "read"
    /\ UNCHANGED <<held, emu, cmd, armed, wire, replies, client>>

\* gdb_machine_single_step: the state is changed without a signal, and the
\* emulation thread finds it so when its wait is over.
BeginsStep ==
    /\ sock = "step" /\ ~held
    /\ IF run = "stopped"
         THEN /\ run' = "single_step" /\ waiting' = waiting \union {"sock"}
              /\ sock' = "step wait"
         ELSE sock' = "read" /\ UNCHANGED <<run, waiting>>
    /\ UNCHANGED <<held, emu, cmd, armed, wire, replies, client>>

EndsStep ==
    /\ sock = "step wait" /\ "sock" \notin waiting /\ ~held
    /\ sock' = "read"
    /\ UNCHANGED <<target, cmd, wire, replies, client>>

Detaches ==
    /\ sock = "detach"
    /\ Reply("answer")
    /\ sock' = "closing"
    /\ UNCHANGED <<target, cmd, wire, client>>

\* (Slip: the machine is left as it is.)
ClosesOnly ==
    /\ sock = "closing"
    /\ sock' = "accept" /\ wire' = <<>>
    /\ client' = IF client \in {"reset", "fin"} THEN "out" ELSE client
    /\ UNCHANGED <<target, cmd, replies>>

Closes ==
    /\ sock = "closing" /\ Continue
    /\ sock' = "accept" /\ wire' = <<>>
    /\ client' = IF client \in {"reset", "fin"} THEN "out" ELSE client
    /\ UNCHANGED <<held, emu, cmd, armed, replies>>

Sock ==
    \/ Attaches \/ Reads \/ LosesClient \/ Breaks \/ Checks \/ Answers
    \/ Continues \/ BeginsStep \/ EndsStep \/ Detaches \/ Closes

-----------------------------------------------------------------------------
(* The debugger.  It removes its breakpoints before it goes, or dies.      *)

Connects ==
    /\ client = "out" /\ sock = "accept"
    /\ client' = "ready" /\ sock' = "attach" /\ replies' = <<>>
    /\ UNCHANGED <<target, cmd, wire>>

Sends(x) == Len(wire) + Len(replies) < MaxWire /\ wire' = Append(wire, x)

Requires(x) ==
    /\ client = "ready" /\ Sends(x)
    /\ x = "detach" => ~armed
    /\ client' = CASE x = "query" -> "asking" [] x = "detach" -> "leaving" [] OTHER -> "resumed"
    /\ UNCHANGED <<target, sock, cmd, replies>>

\* "send ^C first", says the target of this.
AsksEarly ==
    /\ Early /\ client \in {"resumed", "broken"} /\ Sends("query")
    /\ UNCHANGED <<target, sock, cmd, replies, client>>

BreaksIn ==
    /\ client = "resumed" /\ Sends("break")
    /\ client' = "broken"
    /\ UNCHANGED <<target, sock, cmd, replies>>

Receives ==
    /\ replies # <<>> /\ replies' = Tail(replies)
    /\ client' = CASE Head(replies) = "stop" /\ client \in {"resumed", "broken"} -> "ready"
                   [] Head(replies) = "answer" /\ client = "asking" -> "ready"
                   [] Head(replies) = "answer" /\ client = "leaving" -> "out"
                   [] OTHER -> client
    /\ UNCHANGED <<target, sock, cmd, wire>>

\* Its process ends: what it has sent arrives first, or is lost with a reset.
Vanishes(how) ==
    /\ client \notin {"out", "reset", "fin"} /\ ~armed
    /\ client' = IF sock = "accept" THEN "out" ELSE how
    /\ replies' = <<>>
    /\ wire' = IF how = "reset" THEN <<>> ELSE wire
    /\ UNCHANGED <<target, sock, cmd>>

Debugger ==
    \/ Connects \/ \E x \in Requests : Requires(x)
    \/ AsksEarly \/ BreaksIn \/ Receives
    \/ \E how \in Endings : Vanishes(how)

-----------------------------------------------------------------------------
Init ==
    /\ run = "running" /\ held = FALSE /\ waiting = {}
    /\ emu = "idle" /\ sock = "accept" /\ cmd = "query" /\ armed = FALSE
    /\ wire = <<>> /\ replies = <<>> /\ client = "out"

Next == Emu \/ Sock \/ Debugger

Spec == Init /\ [][Next]_vars

\* The emulation thread never blocks for good.  The socket thread competes with it
\* for the mutex: between two slices the emulation thread sleeps until the next is
\* due, and so the socket thread gets its turn again and again, and one day takes it.
Fairness == WF_vars(Emu) /\ SF_vars(Sock) /\ WF_vars(Receives)

FairSpec == Spec /\ Fairness

-----------------------------------------------------------------------------
TypeOK ==
    /\ run \in {"running", "stopped", "single_step"}
    /\ held \in BOOLEAN /\ waiting \subseteq {"emu", "sock"}
    /\ emu \in Executing \union {"idle", "waiting", "timed out", "trapped", "stepped"}
    /\ sock \in Requests \union
          {"accept", "attach", "read", "break", "check", "step wait", "closing"}
    /\ cmd \in Requests /\ armed \in BOOLEAN
    /\ wire \in Seq(Requests \union {"break"}) /\ replies \in Seq({"stop", "answer"})
    /\ client \in {"out", "ready", "asking", "resumed", "broken", "leaving", "reset", "fin"}

\* Registers and memory are read and written only while no instruction is being
\* executed, although the run state was read without the mutex (gdb.c:412) and a
\* packet may come at any time.
HandledWhileStopped == sock \in Requests => emu \notin Executing

\* A debugger that is not waiting for the machine finds it standing still: from
\* the stop reply to the next continue or step not one instruction is executed.
StandsStill ==
    client \in {"ready", "asking"} /\ sock # "attach" => emu \notin Executing

\* One stop reply for one resumption, however a breakpoint, the end of a step and
\* a BREAK from the debugger race: another would be taken for the reply to a later
\* packet.
NoStrayReply ==
    [][Len(replies') > Len(replies) /\ replies'[Len(replies')] = "stop"
       => /\ client \in {"resumed", "broken"}
          /\ \A i \in DOMAIN replies : replies[i] # "stop"]_vars

\* "Lock the run_state mutex and return true if ready to run" (gdb.c:275): a
\* thread that was not told to run the machine has not got the mutex.
ReturnsUnlocked == emu = "idle" => ~held

\* As long as the mutex is given back, a debugger that has broken in, or whose step
\* is under way, gets its reply.
Reported ==
    []ReturnsUnlocked =>
        (client = "broken" \/ "sock" \in waiting ~> client \notin {"resumed", "broken"})

\* And a debugger that detaches, or is cut off, leaves a machine that runs, unless
\* the next one is already there.
LeftRunning ==
    []ReturnsUnlocked =>
        (client \in {"leaving", "reset"} /\ sock # "accept"
            ~> emu = "running" \/ sock = "attach")
================================================================================

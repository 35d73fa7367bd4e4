------------------------------ MODULE EventsAbs ------------------------------
(***************************************************************************)
(* What the emulator's event scheduler promises its callers, with neither  *)
(* a linked list nor a 32-bit clock.  A pending event has a count of ticks *)
(* left before it falls due, negative once it is overdue.  Of the events   *)
(* of a list, the one that falls due first runs first, and of those that   *)
(* fall due together the one that was queued first (events.h:66-67).       *)
(***************************************************************************)
EXTENDS Integers, FiniteSets

CONSTANTS Lists, Ev, Home, Dts, RunDts, DrainLists

VARIABLES
    pending,    \* the events waiting to run
    left,       \* ticks before each pending event is due, 0 for the others
    before,     \* <<e, f>>: e and f wait on one list, e since before f
    phase,      \* "idle", "run" or "delegate"
    active,     \* the list being run
    timed,      \* FALSE while everything queued is being run regardless of time
    rem         \* ticks the run under way has still to cover

vars == <<pending, left, before, phase, active, timed, rem>>

Waiting(l) == {e \in pending : Home[e] = l}

\* f is to run after e.
RunsAfter(e, f) == left[e] < left[f] \/ (left[e] = left[f] /\ <<e, f>> \in before)

First(l, e) == e \in Waiting(l) /\ \A f \in Waiting(l) \ {e} : RunsAfter(e, f)

Forget(e) == {p \in before : p[1] # e /\ p[2] # e}

\* Time moves by d ticks with the events of P still pending.
Shift(P, d) == left' = [e \in Ev |-> IF e \in P THEN left[e] - d ELSE 0]

Init ==
    /\ pending = {} /\ left = [e \in Ev |-> 0] /\ before = {}
    /\ phase = "idle" /\ active \in Lists /\ timed = TRUE /\ rem = 0

Schedule(e, d) ==
    /\ phase # "run"
    /\ pending' = pending \union {e}
    /\ left' = [left EXCEPT ![e] = d]
    /\ before' = Forget(e) \union {<<f, e>> : f \in Waiting(Home[e]) \ {e}}
    /\ UNCHANGED <<phase, active, timed, rem>>

Cancel(e) ==
    /\ phase # "run"
    /\ pending' = pending \ {e}
    /\ left' = [left EXCEPT ![e] = 0]
    /\ before' = Forget(e)
    /\ UNCHANGED <<phase, active, timed, rem>>

Begin(l, d) ==
    /\ phase = "idle"
    /\ phase' = "run" /\ active' = l /\ timed' = TRUE /\ rem' = d
    /\ UNCHANGED <<pending, left, before>>

BeginDrain(l) ==
    /\ phase = "idle"
    /\ phase' = "run" /\ active' = l /\ timed' = FALSE /\ rem' = 0
    /\ UNCHANGED <<pending, left, before>>

Fire(e) ==
    /\ phase = "run"
    /\ First(active, e)
    /\ timed => left[e] <= rem
    /\ pending' = pending \ {e}
    /\ before' = Forget(e)
    /\ Shift(pending', left[e])
    /\ rem' = IF timed THEN rem - left[e] ELSE 0
    /\ phase' = "delegate"
    /\ UNCHANGED <<active, timed>>

Return ==
    /\ phase = "delegate"
    /\ phase' = "run"
    /\ UNCHANGED <<pending, left, before, active, timed, rem>>

\* A timed run ends only when nothing more on its list is due by its end; a
\* drain only when nothing at all is left on the list.
Finish ==
    /\ phase = "run"
    /\ \A e \in Waiting(active) : timed /\ left[e] > rem
    /\ phase' = "idle"
    /\ Shift(pending, rem)
    /\ rem' = 0 /\ timed' = TRUE
    /\ UNCHANGED <<pending, before, active>>

Next ==
    \/ \E e \in Ev : Cancel(e) \/ Fire(e) \/ \E d \in Dts : Schedule(e, d)
    \/ \E l \in Lists : \E d \in RunDts[l] : Begin(l, d)
    \/ \E l \in DrainLists : BeginDrain(l)
    \/ Return \/ Finish

Spec == Init /\ [][Next]_vars
=============================================================================

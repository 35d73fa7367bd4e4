-------------------------------- MODULE Events --------------------------------
(***************************************************************************)
(* The event scheduler of the emulator, events.h and events.c: lists of    *)
(* events sorted by the tick at which they are due, a 32-bit tick counter  *)
(* shared by all lists, and the loops that run a list.  Everything that    *)
(* happens "later" in the emulated machine goes through it.                *)
(*                                                                         *)
(* The counter wraps, so "earlier" is the sign of a wrapped difference and *)
(* means something only between ticks less than half the range apart.      *)
(* Near states that as the contract of the callers; the code never checks  *)
(* it.                                                                     *)
(***************************************************************************)
EXTENDS Integers, FiniteSets, SequencesExt

CONSTANTS
    Lists,      \* the event lists: the machine's and the user interface's
    Ev,         \* the events
    Home,       \* Home[e]: the list event e was created for
    Half,       \* half the number of values of an event_ticks, 2^31 in the code
    Dts,        \* the delays callers queue events with
    RunDts,     \* RunDts[l]: the ticks one run of list l covers
    DrainLists  \* the lists also run to exhaustion, whatever the time

ASSUME ListsAssumption ==
    /\ Home \in [Ev -> Lists] /\ DrainLists \subseteq Lists
ASSUME HalfAssumption == Half \in Nat \ {0}
ASSUME DtsAssumption ==
    /\ Dts \subseteq 0..(Half - 1)
    /\ RunDts \in [Lists -> SUBSET (0..(Half - 1))]

VARIABLES
    cur,        \* event_current_tick
    list,       \* list[l]: the events linked on l, head first
    at,         \* at[e]: at_tick
    queued,     \* queued[e]
    before,     \* history: <<e, f>> when e was put on their list before f
    phase,      \* "idle", "run" (in the loop) or "delegate" (called from it)
    active,     \* the list being run
    timed,      \* FALSE in the loop that ignores the time
    target      \* to_time of the run under way

vars == <<cur, list, at, queued, before, phase, active, timed, target>>

-----------------------------------------------------------------------------
(* Tick arithmetic: two ticks, or a tick and a delay, below twice Half.    *)

Ticks == 0..(2 * Half - 1)

\* (Slip, for the mutant runs: a sum that is not reduced to 32 bits.)
WrapAddWide(t, d) == t + d

WrapAdd(t, d) == IF t + d >= 2 * Half THEN t + d - 2 * Half ELSE t + d

\* event_tick_delta: the difference reinterpreted as a signed integer.
TickDelta(t0, t1) ==
    LET d == t0 - t1
    IN  IF d >= Half THEN d - 2 * Half ELSE IF d < -Half THEN d + 2 * Half ELSE d

QueuedSet == {e \in Ev : queued[e]}

\* Ticks from now to the tick an event is due, and to the end of the run.
Left(e) == TickDelta(at[e], cur)
Rem == IF phase # "idle" /\ timed THEN TickDelta(target, cur) ELSE 0

Within(a, b) == a - b < Half /\ b - a < Half

\* The contract of the callers: the tick d from now is less than half the range
\* from every other queued event and from the end of the run under way.
Near(d, others) == (\A f \in others : Within(d, Left(f))) /\ Within(d, Rem)

-----------------------------------------------------------------------------
Init ==
    /\ cur \in Ticks
    /\ list = [l \in Lists |-> <<>>]
    /\ at = [e \in Ev |-> cur]
    /\ queued = [e \in Ev |-> FALSE]
    /\ before = {}
    /\ phase = "idle" /\ active \in Lists /\ timed = TRUE /\ target = cur

\* (Slip: only the head of the list is ever unlinked.)
UnlinkHead(s, e) == IF Head(s) = e THEN Tail(s) ELSE s

\* event_dequeue's unlinking of e, and the place event_queue finds for a tick t:
\* before the first event that is due strictly later.
Unlink(s, e) == RemoveAt(s, CHOOSE i \in DOMAIN s : s[i] = e)

\* (Slip: in front of the events due at the same tick.)
IsSlotFirst(s, i, t) ==
    /\ \A j \in 1..(i - 1) : TickDelta(t, at[s[j]]) > 0
    /\ i <= Len(s) => TickDelta(t, at[s[i]]) <= 0

IsSlot(s, i, t) ==
    /\ \A j \in 1..(i - 1) : TickDelta(t, at[s[j]]) >= 0
    /\ i <= Len(s) => TickDelta(t, at[s[i]]) < 0

Forget(e) == {p \in before : p[1] # e /\ p[2] # e}

\* event_queue_dt, from code outside any run or from a delegate: an event that is
\* queued already is taken off the list first.
QueueDt(e, d) ==
    /\ phase # "run"
    /\ Near(d, QueuedSet \ {e})
    /\ at' = [at EXCEPT ![e] = WrapAdd(cur, d)]
    /\ queued' = [queued EXCEPT ![e] = TRUE]
    /\ LET l == Home[e]
           s == IF queued[e] THEN Unlink(list[l], e) ELSE list[l]
       IN  \E i \in 1..(Len(s) + 1) :
              /\ IsSlot(s, i, at'[e])
              /\ list' = [list EXCEPT ![l] = InsertAt(s, i, e)]
    /\ before' = Forget(e) \union
                 {<<f, e>> : f \in {g \in QueuedSet \ {e} : Home[g] = Home[e]}}
    /\ UNCHANGED <<cur, phase, active, timed, target>>

Dequeue(e) ==
    /\ phase # "run"
    /\ queued[e]
    /\ queued' = [queued EXCEPT ![e] = FALSE]
    /\ list' = [list EXCEPT ![Home[e]] = Unlink(@, e)]
    /\ before' = Forget(e)
    /\ UNCHANGED <<cur, at, phase, active, timed, target>>

\* event_run_queue is called: to_time is fixed.
RunQueue(l, d) ==
    /\ phase = "idle"
    /\ Near(d, QueuedSet)
    /\ phase' = "run" /\ active' = l /\ timed' = TRUE
    /\ target' = WrapAdd(cur, d)
    /\ UNCHANGED <<cur, list, at, queued, before>>

\* The WebAssembly start-up loop, which dispatches "without checking against
\* scheduled time".
DrainQueue(l) ==
    /\ phase = "idle"
    /\ phase' = "run" /\ active' = l /\ timed' = FALSE
    /\ UNCHANGED <<cur, list, at, queued, before, target>>

\* (Slip: an event due at the end is not due.)
PendingStrict == list[active] # <<>> /\ (timed => TickDelta(target, at[Head(list[active])]) > 0)

Pending == list[active] # <<>> /\ (timed => TickDelta(target, at[Head(list[active])]) >= 0)

\* (Slip: the delegate sees the end time of the run instead of its own tick.)
DispatchNextAtTarget ==
    /\ phase = "run" /\ Pending
    /\ LET e == Head(list[active])
       IN  /\ list' = [list EXCEPT ![active] = Tail(@)]
           /\ queued' = [queued EXCEPT ![e] = FALSE]
           /\ before' = Forget(e)
    /\ cur' = IF timed THEN target ELSE cur
    /\ phase' = "delegate"
    /\ UNCHANGED <<at, active, timed, target>>

\* event_dispatch_next: the clock takes the tick of the event, and its delegate
\* is called.
DispatchNext ==
    /\ phase = "run" /\ Pending
    /\ LET e == Head(list[active])
       IN  /\ list' = [list EXCEPT ![active] = Tail(@)]
           /\ queued' = [queued EXCEPT ![e] = FALSE]
           /\ cur' = at[e]
           /\ before' = Forget(e)
    /\ phase' = "delegate"
    /\ UNCHANGED <<at, active, timed, target>>

DelegateReturns ==
    /\ phase = "delegate"
    /\ phase' = "run"
    /\ UNCHANGED <<cur, list, at, queued, before, active, timed, target>>

\* (Slip: the clock stays at the last event dispatched.)
RunEndsAtLast ==
    /\ phase = "run" /\ ~Pending
    /\ phase' = "idle" /\ timed' = TRUE
    /\ UNCHANGED <<cur, list, at, queued, before, active, target>>

RunEnds ==
    /\ phase = "run" /\ ~Pending
    /\ phase' = "idle" /\ timed' = TRUE
    /\ cur' = IF timed THEN target ELSE cur
    /\ UNCHANGED <<list, at, queued, before, active, target>>

Next ==
    \/ \E e \in Ev : Dequeue(e) \/ \E d \in Dts : QueueDt(e, d)
    \/ \E l \in Lists : \E d \in RunDts[l] : RunQueue(l, d)
    \/ \E l \in DrainLists : DrainQueue(l)
    \/ DispatchNext \/ DelegateReturns \/ RunEnds

Spec == Init /\ [][Next]_vars

\* The emulation thread runs both lists again and again (xroar.c:1590), a run goes
\* on until it is done, and a delegate returns.
Fairness ==
    /\ \A l \in Lists : SF_vars(\E d \in RunDts[l] : RunQueue(l, d))
    /\ WF_vars(DispatchNext) /\ WF_vars(DelegateReturns) /\ WF_vars(RunEnds)

FairSpec == Spec /\ Fairness

-----------------------------------------------------------------------------
TypeOK ==
    /\ cur \in Ticks /\ target \in Ticks
    /\ list \in [Lists -> Seq(Ev)]
    /\ at \in [Ev -> Ticks]
    /\ queued \in [Ev -> BOOLEAN]
    /\ before \in SUBSET (Ev \X Ev)
    /\ phase \in {"idle", "run", "delegate"}
    /\ active \in Lists /\ timed \in BOOLEAN

\* A list links each event once, only its own events, and exactly those whose
\* queued flag is set: event_dequeue trusts the flag and then searches the list,
\* event_queue trusts it not to link an event twice (events.c:61-103).
LinkedIffQueued ==
    /\ \A l \in Lists : \A i, j \in DOMAIN list[l] : list[l][i] = list[l][j] => i = j
    /\ \A l \in Lists : \A i \in DOMAIN list[l] : queued[list[l][i]] /\ Home[list[l][i]] = l
    /\ \A e \in QueuedSet : \E i \in DOMAIN list[Home[e]] : list[Home[e]][i] = e

\* Whatever mixture of queueing, requeueing and running went before, and wherever
\* the counter wrapped, a list is in order of true due time, and events due at
\* the same tick are in the order they were queued (events.h:66-67).
Ordered ==
    \A l \in Lists : \A i, j \in DOMAIN list[l] : i < j =>
        LET e == list[l][i]
            f == list[l][j]
        IN  Left(e) < Left(f) \/ (Left(e) = Left(f) /\ <<e, f>> \in before)

\* All the ticks the scheduler compares lie within half the counter's range: what
\* the callers' contract must keep true when a dispatch or the end of a run moves
\* the clock, backwards too when a list is run late (event_tick_delta's premise).
Window ==
    /\ \A e \in QueuedSet : Within(Left(e), 0) /\ Within(Left(e), Rem)
    /\ \A e, f \in QueuedSet : Within(Left(e), Left(f))
    /\ Rem \in 0..(Half - 1)

\* When event_run_queue returns, no event of its list was left behind due: it
\* only ever looked at the head (event_pending, events.h:110-130).
NoneLeftBehind ==
    [][phase = "run" /\ phase' = "idle" /\ timed =>
          \A e \in QueuedSet : Home[e] = active => TickDelta(at[e], cur') > 0]_vars

\* The list-based scheduler implements the promise (events.h:66-67 and the
\* meaning of at_tick, events.h:27-28).
Abs == INSTANCE EventsAbs WITH
    pending <- QueuedSet,
    left <- [e \in Ev |-> IF queued[e] THEN Left(e) ELSE 0],
    rem <- Rem

Implements == Abs!Spec

QueuedAgain(e) == \E d \in Dts : QueueDt(e, d)

\* An event does not stay queued for ever without running or being queued again:
\* if each delegate asks for a tick still to come, the main loop reaches it.
QueuedRuns ==
    \A e \in Ev : <>[]queued[e] => []<><<QueuedAgain(e)>>_vars
=============================================================================

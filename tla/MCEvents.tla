------------------------------- MODULE MCEvents -------------------------------
(* Small instances of the scheduler.  The counter has 2 * Half values, so a
   handful of dispatches wraps it; the user-interface list is run with no time of
   its own, as xroar_run does, and so is always late. *)
EXTENDS Events

CONSTANTS machine, ui, m1, m2, u1

MCLists == {machine, ui}
MCEv == {m1, m2, u1}
MCHome == (m1 :> machine) @@ (m2 :> machine) @@ (u1 :> ui)
MCRunDts == (machine :> {1, 2}) @@ (ui :> {0})
MCRunDtsLive == (machine :> {1}) @@ (ui :> {0})
MCDrainLists == {ui}
===============================================================================

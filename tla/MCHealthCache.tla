----------------------------- MODULE MCHealthCache -----------------------------
(* Calls of two endpoints against two refreshes of the configuration and a   *)
(* clock that passes every age class: fresh, stale, too old.                 *)
EXTENDS HealthCache, TLC
CONSTANTS ready, report
MCReaders == {ready, report}
MCKind == ready :> "ready" @@ report :> "report"

\* Bound: the rank loop, which leaves the cache alone, and the /ready call are
\* met one at a time, and the rank loop with one refresh of the configuration.
VARIABLE met
MCInit == Init /\ met \in {"rank", "ready"}
MCNext ==
  /\ Next /\ UNCHANGED met
  /\ met = "rank" => reader'[ready].pc = "idle" /\ generation' < 2
  /\ met = "ready" => round'["rank"].pc = "idle"
MCSpec == MCInit /\ [][MCNext]_<<vars, met>> /\ Fairness
=============================================================================

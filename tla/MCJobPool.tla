----------------------------- MODULE MCJobPool -----------------------------
(* Fault budgets and symmetry for model-checking JobPool. *)
EXTENDS JobPool, TLC

\* A behaviour with at most n faults of each of these kinds and no other.
Budget(n, kinds) == [k \in FaultKinds |-> IF k \in kinds THEN n ELSE 0]

OneDeath == Budget(1, {"death"})
TwoDeaths == Budget(2, {"death"})
OneLapse == Budget(1, {"lapse"})
DeathAndGateway == Budget(1, {"death", "gateway"})
DeathAndStall == Budget(1, {"death", "stall"})
DeathsAndBlip == [TwoDeaths EXCEPT !["workerblip"] = 1]
FaultyReaps == [DeathAndGateway EXCEPT !["reapblip"] = 2]

Symmetry == Permutations(Workers) \cup Permutations(Gateways)
              \cup Permutations(Jobs)
=============================================================================

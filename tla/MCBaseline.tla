----------------------------- MODULE MCBaseline -----------------------------
(***************************************************************************)
(* One or two hosts whose packet and byte rates move together or apart.    *)
(***************************************************************************)
EXTENDS Baseline

CONSTANTS a, b

OneHost == {a}
TwoHosts == {a, b}
BothMetrics == {"packets", "bytes"}
Rate(p, q) == [m \in BothMetrics |-> IF m = "packets" THEN p ELSE q]
MixedRates == {Rate(1, 1), Rate(7, 1), Rate(16, 5), Rate(16, 16)}
SteadyAndBurst == {Rate(1, 1), Rate(20, 30)}
OneEach == [m \in BothMetrics |-> 1]
=============================================================================

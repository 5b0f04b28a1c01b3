----------------------------- MODULE MCPipeline -----------------------------
(***************************************************************************)
(* Small instances of the live pipeline for TLC.                           *)
(***************************************************************************)
EXTENDS Pipeline, TLC

CONSTANTS w1, w2

OneWorker == {w1}
TwoWorkers == {w1, w2}
WorkerSymmetry == Permutations(TwoWorkers)
=============================================================================

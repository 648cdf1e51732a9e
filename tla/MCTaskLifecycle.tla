--------------------------- MODULE MCTaskLifecycle ---------------------------
(* A small instance of TaskLifecycle for TLC: a higher-order wrapper and the  *)
(* child that runs for it, and three handlers.                                *)
EXTENDS TaskLifecycle, TLC

CONSTANTS w, c, r1, r2, r3

Pair        == {w, c}
PairParent  == (w :> NoTask) @@ (c :> w)
ThreeRuns == {r1, r2, r3}
RunSymmetry == Permutations(Runs)
=============================================================================

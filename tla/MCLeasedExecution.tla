------------------------- MODULE MCLeasedExecution --------------------------
(***************************************************************************)
(* Instances of LeasedExecution for TLC.                                   *)
(***************************************************************************)
EXTENDS LeasedExecution, TLC

CONSTANTS r1, w1, w2, p1, c1

OneRun == {r1}
TwoRunners == {w1, w2}
OneReplica == {p1}
OneCancellation == {c1}
Windows == {6}

RunnerSymmetry == Permutations(TwoRunners)
=============================================================================

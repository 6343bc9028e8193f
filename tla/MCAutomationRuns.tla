-------------------------- MODULE MCAutomationRuns --------------------------
(***************************************************************************)
(* Instances of AutomationRuns for TLC.                                    *)
(***************************************************************************)
EXTENDS AutomationRuns, TLC

CONSTANTS r1, r2, w1, w2, p1, p2, c1

OneRun == {r1}
TwoRuns == {r1, r2}
OneRunner == {w1}
TwoRunners == {w1, w2}
OneReplica == {p1}
TwoReplicas == {p1, p2}
NoCancellation == {}
OneCancellation == {c1}
Windows == {3}

RunnersAndReplicas == Permutations(TwoRunners) \cup Permutations(TwoReplicas)
=============================================================================

------------------------ MODULE MCAutomationSchedule ------------------------
(***************************************************************************)
(* Instances of AutomationSchedule for TLC.                                *)
(***************************************************************************)
EXTENDS AutomationSchedule, TLC

CONSTANTS p1, p2, c1, c2

ThreeRuns == 1 .. 3
FourRuns == 1 .. 4
OneReplica == {p1}
TwoReplicas == {p1, p2}
NoRequest == {}
OneRequest == {c1}
TwoRequests == {c1, c2}

Nobody == {}
Everything == {"run", "set", "update"}
Manual == {"run"}

Daily == {{1, 2, 3}}
\* Of the second schedule only the later occurrence is left.
Short == {{1, 2}, {2}}

Desktops == {FALSE}
BothKinds == BOOLEAN

Identities == Permutations(TwoRequests)
=============================================================================

---------------------------- MODULE MCCloudRuns -----------------------------
(***************************************************************************)
(* Instances of CloudRuns for TLC.                                         *)
(***************************************************************************)
EXTENDS CloudRuns, TLC

CONSTANTS p1, p2, c1

TwoProcesses == {p1, p2}
FirstRun == {1}
OneCancellation == {c1}
NoWindow == {}
=============================================================================

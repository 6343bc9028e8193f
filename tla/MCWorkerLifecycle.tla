-------------------------- MODULE MCWorkerLifecycle --------------------------
(***************************************************************************)
(* Instances of WorkerLifecycle for TLC.                                   *)
(***************************************************************************)
EXTENDS WorkerLifecycle

CONSTANTS p1, p2

TwoReplicas == {p1, p2}
=============================================================================

-------------------------- MODULE MCDesktopRunner ---------------------------
(***************************************************************************)
(* Instances of DesktopRunner for TLC.                                     *)
(***************************************************************************)
EXTENDS DesktopRunner

CONSTANTS a, b

TwoCredentials == {a, b}
=============================================================================

----------------------------- MODULE MCFullRun -----------------------------
(***************************************************************************)
(* Instances of FullRun for TLC.                                            *)
(***************************************************************************)
EXTENDS FullRun

CONSTANTS i1, i2

=============================================================================

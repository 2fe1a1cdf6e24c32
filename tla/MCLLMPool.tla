----------------------------- MODULE MCLLMPool -----------------------------
(***************************************************************************)
(* Instances of LLMPool for TLC.                                            *)
(***************************************************************************)
EXTENDS LLMPool

CONSTANTS c1, c2

=============================================================================

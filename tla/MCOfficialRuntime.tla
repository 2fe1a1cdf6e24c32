-------------------------- MODULE MCOfficialRuntime --------------------------
(***************************************************************************)
(* Instances of OfficialRuntime for TLC: two instances that share an image. *)
(***************************************************************************)
EXTENDS OfficialRuntime, TLC

CONSTANTS w1, w2, h1, h2, h3, a1, a2, g1

TwoInstances == [i \in 1 .. 2 |-> g1]

Symmetric == Permutations({w1, w2}) \cup Permutations({h1, h2, h3})

=============================================================================

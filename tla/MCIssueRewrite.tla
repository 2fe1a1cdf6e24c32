--------------------------- MODULE MCIssueRewrite ---------------------------
(***************************************************************************)
(* Instances of IssueRewrite for TLC.                                       *)
(***************************************************************************)
EXTENDS IssueRewrite, TLC

CONSTANTS i1, i2, x, y

Symmetric == Permutations({i1, i2}) \cup Permutations({x, y})

=============================================================================

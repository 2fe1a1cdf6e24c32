------------------------ MODULE MCCondaEnvironments ------------------------
(* A generation and an evaluation, or two generations, of issues of two    *)
(* dependency contracts; a canonical template, an environment of the older *)
(* naming, and the clone a killed generation left.                         *)
EXTENDS CondaEnvironments

CONSTANTS w1, w2, canonical, legacy, leftover, c1, c2, i1, i2, i3

MCCanonical == [c \in Contracts |-> IF c = c1 THEN {canonical} ELSE {}]

Generates(contract, issue, requested, seeds) ==
    [evaluates |-> FALSE, contract |-> contract, issue |-> issue,
     requested |-> requested, seeds |-> seeds, records |-> <<>>]
Evaluates(contract, issue, requested, seeds, records) ==
    [evaluates |-> TRUE, contract |-> contract, issue |-> issue,
     requested |-> requested, seeds |-> seeds, records |-> records]

Pair(j1, j2) == [w \in Workers |-> IF w = w1 THEN j1 ELSE j2]

(* Two issues of one template; the older environment wanted under both     *)
(* contracts; an evaluation beside a generation, and beside another.       *)
MCJobs == {
    Pair(Generates(c1, i1, canonical, <<legacy>>),
         Generates(c1, i2, canonical, <<legacy>>)),
    Pair(Generates(c1, i1, canonical, <<legacy>>),
         Generates(c2, i3, legacy, <<>>)),
    Pair(Evaluates(c1, i1, canonical, <<legacy>>, <<canonical, leftover>>),
         Generates(c1, i2, canonical, <<legacy>>)),
    Pair(Evaluates(c1, i1, canonical, <<legacy>>, <<legacy>>),
         Evaluates(c2, i3, legacy, <<>>, <<legacy>>))}

There(e, id) == [env |-> e, claim |-> id]
Gone == There(Absent, None)

MCBeginnings == {[t \in Templates |->
    CASE t = canonical -> b [] t = legacy -> l [] t = leftover -> x] :
      b \in {Gone, There(Whole(c1), c1)},
      l \in {Gone} \cup {There(Whole(p), None) : p \in {c1, c2, "other"}},
      x \in {There([pins |-> c1, dirty |-> TRUE], "runtime")}}
=============================================================================

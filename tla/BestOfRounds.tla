---------------------------- MODULE BestOfRounds ----------------------------
(***************************************************************************)
(* What a seed's repair loop promises: rounds are tried one by one, the     *)
(* best of those tried is always at hand, and what is published in the end  *)
(* is the best of all of them, once and for good, or a failure that speaks  *)
(* of none.                                                                 *)
(***************************************************************************)
CONSTANTS
    Above(_, _),    \* strict order of the keys
    None,           \* nothing yet
    Failed          \* published instead of an entry

VARIABLES
    tried,          \* the entries of all rounds; an entry has a key
    kept,           \* the entry to publish
    published       \* the published entry, or Failed

bvars == <<tried, kept, published>>

Best(e, S) == e \in S /\ \A x \in S : ~Above(x.key, e.key)

BestInit == tried = {} /\ kept = None /\ published = None

Try ==
    /\ published = None
    /\ \E e \in tried' : tried' = tried \cup {e}
    /\ Best(kept', tried')
    /\ UNCHANGED published

Publish ==
    /\ published = None
    /\ Best(kept, tried)
    /\ published' = kept
    /\ UNCHANGED <<tried, kept>>

Fail ==
    /\ published = None
    /\ published' = Failed
    /\ UNCHANGED <<tried, kept>>

BestNext == Try \/ Publish \/ Fail

BestSpec == BestInit /\ [][BestNext]_bvars
=============================================================================

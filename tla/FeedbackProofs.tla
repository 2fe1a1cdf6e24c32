---------------------------- MODULE FeedbackProofs ----------------------------
(***************************************************************************)
(* Proofs about the feedback loop.  About RepairLoop, for any target,       *)
(* candidates, outcomes and opinions, and any number of rounds and faults:  *)
(*   - LoopTypeCorrect: the type invariant;                                 *)
(*   - EvidenceIsOfTheCandidate: the execution in hand is a run of the      *)
(*     candidate in hand, reused and restored ones included;                *)
(*   - PublicationIsWhole: what is published speaks of one candidate;       *)
(*   - TheBestIsPublished: the loop implements BestOfRounds.                *)
(* About SeedController, for any targets and any number of revisions and    *)
(* failures:                                                                *)
(*   - ControllerTypeCorrect: the type invariant;                           *)
(*   - ExportsAreOfThisRun: what is exported is one seed's of this run;     *)
(*   - FallbackIsTheLastResort: the direct route runs when the other one    *)
(*     accepted nothing, and a test it accepted is exported.                *)
(***************************************************************************)
EXTENDS RepairLoop, SeedController, FiniteSetTheorems, WellFoundedInduction, TLAPS

-----------------------------------------------------------------------------
\* The order of the keys.

\* The order of the natural numbers as a relation.
Before == OpToRel(<, Nat)

\* A set of natural numbers has a least one.
LEMMA LeastOfNat ==
    ASSUME NEW K \in SUBSET Nat, K # {}
    PROVE  \E k \in K : \A j \in K : k <= j
<1>1. IsWellFoundedOn(Before, Nat)
  BY NatLessThanWellFounded DEF Before
<1>2. PICK k \in K : \A j \in K : <<j, k>> \notin Before
  BY <1>1, WFMin
<1>3. Before = {ss \in Nat \X Nat : ss[1] < ss[2]}
  BY Zenon DEF Before, OpToRel
<1>4. ASSUME NEW j \in K
      PROVE  k <= j
  <2>1. k \in Nat /\ j \in Nat
    OBVIOUS
  <2>2. <<j, k>> \in Nat \X Nat /\ <<j, k>>[1] = j /\ <<j, k>>[2] = k
    BY <2>1
  <2>3. ~ (j < k)
    BY <1>2, <1>3, <2>2, Zenon
  <2> QED
    BY <2>1, <2>3
<1> QED
  BY <1>4

Key == [1 .. 11 -> Int]

\* A rank key is a tuple of eleven integers.
LEMMA RankKeyIs ==
    ASSUME NEW t, NEW c \in Codes, NEW e, NEW v, NEW n \in Nat
    PROVE  /\ RankKey(t, c, e, v, n) \in Key
           /\ Len(RankKey(t, c, e, v, n)) = 11
           /\ RankKey(t, c, e, v, n)[1] = Bit(HardEligible(t, c, e, v))
           /\ RankKey(t, c, e, v, n)[2] = Bit(Accepts(v))
           /\ RankKey(t, c, e, v, n)[11] = -n
<1>1. c.shape \in Int /\ -c.size \in Int /\ -n \in Int
  BY VerdictAssumption
<1>2. \A b : Bit(b) \in Int
  BY DEF Bit
<1> QED
  BY <1>1, <1>2 DEF RankKey, Key

\* What being above means for two rank keys.
LEMMA AboveIs ==
    ASSUME NEW k \in Key, NEW l \in Key, Len(k) = 11, Len(l) = 11
    PROVE  Above(k, l) <=>
             \E i \in 1 .. 11 : k[i] > l[i] /\ \A j \in 1 .. i - 1 : k[j] = l[j]
<1>1. DOMAIN k \cap DOMAIN l = 1 .. 11
  BY DEF Key
<1> QED
  BY <1>1 DEF Above

\* No key is above itself.
LEMMA AboveIrreflexive ==
    ASSUME NEW k \in Key, Len(k) = 11
    PROVE  ~Above(k, k)
<1>1. \A i \in 1 .. 11 : ~(k[i] > k[i])
  BY DEF Key
<1> QED
  BY <1>1, AboveIs, Zenon

\* A key above one that is above a third is above the third.
LEMMA AboveTransitive ==
    ASSUME NEW k \in Key, NEW l \in Key, NEW m \in Key,
           Len(k) = 11, Len(l) = 11, Len(m) = 11, Above(k, l), Above(l, m)
    PROVE  Above(k, m)
<1>1. PICK i \in 1 .. 11 : k[i] > l[i] /\ \A j \in 1 .. i - 1 : k[j] = l[j]
  BY AboveIs, Zenon
<1>2. PICK n \in 1 .. 11 : l[n] > m[n] /\ \A j \in 1 .. n - 1 : l[j] = m[j]
  BY AboveIs, Zenon
<1>3. \A j \in 1 .. 11 : k[j] \in Int /\ l[j] \in Int /\ m[j] \in Int
  BY DEF Key
<1>4. CASE i <= n
  <2>1. k[i] > m[i]
    BY <1>1, <1>2, <1>3, <1>4
  <2>2. \A j \in 1 .. i - 1 : k[j] = m[j]
    BY <1>1, <1>2, <1>4
  <2> QED
    BY <2>1, <2>2, AboveIs, Zenon
<1>5. CASE n < i
  <2>1. k[n] > m[n]
    BY <1>1, <1>2, <1>3, <1>5
  <2>2. \A j \in 1 .. n - 1 : k[j] = m[j]
    BY <1>1, <1>2, <1>5
  <2> QED
    BY <2>1, <2>2, AboveIs, Zenon
<1> QED
  BY <1>4, <1>5

\* Every rank key is above the empty one.
LEMMA AboveNone ==
    ASSUME NEW k, Len(k) = 11
    PROVE  Above(k, <<>>)
  BY DEF Above

-----------------------------------------------------------------------------
\* What the executor and the verifier say of a candidate's run.

\* The executions a candidate may have under a target.
RunsOf(t, c) == {Executed(t, c, o) : o \in Outcomes} \cup {StaticFailure(c)}

Decisions == {"accept", "reject", "repair_setup", "repair_trigger", "repair_oracle"}

\* A run that ends well is never read as a failure of the code.
LEMMA ClassifyOfZero ==
    ASSUME NEW t, NEW o, o.rc = 0
    PROVE  Classify(t, o) \in {"TIMEOUT", "COLLECT_ERROR", "PASS"}
<1> DEFINE rules == StatusRules(t, o)
           K == {i \in 1 .. 12 : rules[i][1]}
           first == CHOOSE i \in DOMAIN rules :
                       rules[i][1] /\ \A j \in 1 .. i - 1 : ~rules[j][1]
<1>1. DOMAIN rules = 1 .. 12
  BY DEF StatusRules
<1>2. rules[3][1] /\ rules[1][2] = "TIMEOUT" /\ rules[2][2] = "COLLECT_ERROR"
      /\ rules[3][2] = "PASS"
  BY DEF StatusRules
<1>3. Classify(t, o) = rules[first][2]
  BY DEF Classify
<1> HIDE DEF rules
<1>4. \E i \in DOMAIN rules : rules[i][1] /\ \A j \in 1 .. i - 1 : ~rules[j][1]
  BY <1>1, <1>2
<1>5. first \in 1 .. 12 /\ \A j \in 1 .. first - 1 : ~rules[j][1]
  BY <1>1, <1>4
<1> HIDE DEF first
<1>6. first \in 1 .. 3
  BY <1>2, <1>5
<1> QED
  BY <1>2, <1>3, <1>6

\* Every execution of a candidate is of its text, and one that ends well has a
\* status that says so.
LEMMA RunIs ==
    ASSUME NEW t, NEW c, NEW e \in RunsOf(t, c)
    PROVE  /\ e.of = c.text
           /\ e.out.rc = 0 => e.status \in NotExecutable \cup {"PASS"}
<1>1. CASE e = StaticFailure(c)
  BY <1>1 DEF StaticFailure
<1>2. ASSUME NEW o \in Outcomes, e = Executed(t, c, o)
      PROVE  /\ e.of = c.text
             /\ e.out.rc = 0 => e.status \in NotExecutable \cup {"PASS"}
  <2>1. e.of = c.text /\ e.out = o /\ e.status = Classify(t, o)
    BY <1>2 DEF Executed
  <2>2. o.rc = 0 => Classify(t, o) \in {"TIMEOUT", "COLLECT_ERROR", "PASS"}
    BY ClassifyOfZero
  <2> QED
    BY <2>1, <2>2 DEF NotExecutable
<1> QED
  BY <1>1, <1>2 DEF RunsOf

\* An accepted verdict is of a run that fails by itself, and its gate was passed
\* with every fact it asks for.
LEMMA VerdictIs ==
    ASSUME NEW c, NEW e, NEW v \in Verdicts(Target, c, e, Opinions)
    PROVE  /\ v.decision \in Decisions
           /\ Accepts(v) => Failing(e) /\ v.hit /\ v.grounded /\ v.falsifiable
<1>1. CASE Mechanical(Target, e)
  <2>1. v = Forced(e)
    BY <1>1 DEF Verdicts
  <2>2. v.decision \in {"reject", "repair_setup", "repair_oracle"}
    BY <2>1 DEF Forced, Blank
  <2> QED
    BY <2>2 DEF Decisions, Accepts
<1>2. CASE ~Mechanical(Target, e)
  <2>1. PICK p \in Opinions : v = Judged(Target, c, e, p)
    BY <1>2 DEF Verdicts
  <2> DEFINE hit == /\ p.hit \/ TargetException(Target, c, e) \/ DeclaredWitness(Target, e, p)
                    /\ ~SymptomMismatch(Target, c, e)
             gate == Gate(Target, c, e, p, hit)
  <2>2. /\ v.decision = gate[1] /\ v.hit = hit /\ v.grounded = p.evidence
        /\ v.falsifiable = (Falsifiable(Target, c) \/ p.falsifiable)
    BY <2>1 DEF Judged
  <2> HIDE DEF hit
  <2>3. gate[1] \in Decisions
    BY DEF Gate, Decisions
  <2>4. ASSUME gate[1] = "accept"
        PROVE  Failing(e) /\ hit /\ p.evidence /\ (Falsifiable(Target, c) \/ p.falsifiable)
    BY <2>4 DEF Gate
  <2> HIDE DEF gate
  <2> QED
    BY <2>2, <2>3, <2>4 DEF Accepts
<1> QED
  BY <1>1, <1>2

\* The status of a summary tells an accepted verdict from all others.
LEMMA FinalStatusIs ==
    ASSUME NEW t, NEW c, NEW e \in RunsOf(t, c), NEW v
    PROVE  /\ FinalStatus(e, v) \in SummaryStatuses \ {"ERROR"}
           /\ Accepts(v) <=> FinalStatus(e, v) = "ISSUE_ALIGNED_FAIL"
<1>1. CASE Accepts(v)
  BY <1>1 DEF FinalStatus, SummaryStatuses, NotExecutable
<1>2. CASE ~Accepts(v)
  <2>1. e.status \in NotExecutable \/ Failing(e) \/ e.status = "PASS"
    BY RunIs DEF Failing
  <2> QED
    BY <1>2, <2>1 DEF FinalStatus, SummaryStatuses, NotExecutable
<1> QED
  BY <1>1, <1>2

\* A verdict's repair stage has a depth.
LEMMA DepthIs ==
    ASSUME NEW e, NEW v, v.decision \in Decisions
    PROVE  Depth(v, e) \in -2 .. 3
<1>1. Stage(v, e) \in {"TERMINAL", "SETUP", "TRIGGER", "ORACLE", "SEARCH_ACCEPTED"}
  BY DEF Stage, Accepts, Decisions
<1> QED
  BY <1>1 DEF Depth

-----------------------------------------------------------------------------
\* The invariant.

\* The step a pipeline is at, paused or not.
Where == IF pc = "paused" THEN stopped ELSE pc

\* The steps before a round's verdict.
Unjudged == {"adapt", "run", "judge"}

Phases ==
    /\ pc \in Steps \cup {"paused", "done"}
    /\ IF pc = "paused" THEN stopped \in Steps \ {"conclude"} ELSE stopped = None
    /\ round \in 0 .. Rounds - 1
    /\ Where = "plan" => round + 1 < Rounds

\* The worktree and the execution in hand are of the candidate in hand, and the
\* run that may be reused is one of some candidate.
InHand ==
    /\ Where \in {"run", "judge", "plan"} => cand \in Codes /\ file = cand.text
    /\ Where \in {"judge", "plan"} => exec \in RunsOf(Target, cand)
    /\ Where = "plan" => /\ verdict \in Verdicts(Target, cand, exec, Opinions)
                         /\ depth = Depth(verdict, exec)
    /\ kept # None => \E c \in Codes, o \in Outcomes : kept = Executed(Target, c, o)

\* b is what a round left: a candidate, a run of it and a verdict on that run.
IsEntry(b) ==
    /\ b.cand \in Codes
    /\ b.exec \in RunsOf(Target, b.cand)
    /\ b.verdict \in Verdicts(Target, b.cand, b.exec, Opinions)
    /\ b.round \in Nat
    /\ b.key = RankKey(Target, b.cand, b.exec, b.verdict, b.round)

\* b is one of the checkpoints S, and none of them is above it.
IsBest(b, S) ==
    /\ IsEntry(b)
    /\ [key |-> b.key, text |-> b.cand.text] \in S
    /\ \A x \in S : ~Above(x.key, b.key)

BestKept ==
    /\ (best = NoBest /\ checkpoints = {}) \/ IsBest(best, checkpoints)
    /\ Where \in {"plan", "conclude"} => checkpoints # {}

\* The checkpoints of rounds 0 to n.
Ranked(S, n) ==
    \A x \in S : /\ x.key \in Key /\ Len(x.key) = 11
                 /\ x.key[1] \in {0, 1} /\ x.key[2] \in {0, 1}
                 /\ -n <= x.key[11]

\* A round leaves one checkpoint, and none before its verdict.
OnePerRound(S) == \A x, y \in S : x.key[11] = y.key[11] => x = y
NoneYet(S, n)  == \A x \in S : -n < x.key[11]

\* Only the last round's verdict may have been to accept.
AcceptedLast(S, n) == \A x \in S : x.key[2] = 1 => x.key[11] = -n
NoneAccepted(S)    == \A x \in S : x.key[2] = 0

History ==
    /\ Ranked(checkpoints, round) /\ OnePerRound(checkpoints)
    /\ Where \in Unjudged => NoneYet(checkpoints, round)
    /\ AcceptedLast(checkpoints, round)
    /\ Where \in Unjudged \cup {"plan"} => NoneAccepted(checkpoints)

\* What a regular end leaves.
Written ==
    pc = "done" /\ summary # "ERROR" =>
        /\ IsBest(best, checkpoints)
        /\ exec = best.exec /\ verdict = best.verdict
        /\ file = best.cand.text /\ test = best.cand.text
        /\ ranking = Selected /\ summary = SelectedStatus

\* The rest of the type invariant.
Counted ==
    /\ keep \in BOOLEAN /\ depth \in -2 .. 3 /\ delta \in Deltas \cup {None}
    /\ summary \in SummaryStatuses \cup {None, "PAUSED_API"}
    /\ IsFiniteSet(checkpoints)
    /\ Cardinality(checkpoints) <= IF Where \in Unjudged THEN round ELSE round + 1
    /\ faults \in 0 .. MaxFaults

LoopInv == Phases /\ InHand /\ BestKept /\ History /\ Written /\ Counted

-----------------------------------------------------------------------------
\* What a verdict adds.

\* An entry's key is a rank key and tells its verdict and its round.
LEMMA EntryKey ==
    ASSUME NEW b, IsEntry(b)
    PROVE  /\ b.key \in Key /\ Len(b.key) = 11
           /\ b.key[1] \in {0, 1} /\ b.key[2] \in {0, 1}
           /\ b.key[2] = 1 <=> Accepts(b.verdict)
           /\ b.key[11] = -b.round
<1>1. b.cand \in Codes /\ b.round \in Nat
  BY DEF IsEntry
<1>2. b.key = RankKey(Target, b.cand, b.exec, b.verdict, b.round)
  BY DEF IsEntry
<1>3. \A x : Bit(x) \in {0, 1} /\ (Bit(x) = 1 <=> x)
  BY DEF Bit
<1>4. b.key[1] = Bit(HardEligible(Target, b.cand, b.exec, b.verdict))
      /\ b.key[2] = Bit(Accepts(b.verdict)) /\ b.key[11] = -b.round
      /\ b.key \in Key /\ Len(b.key) = 11
  BY <1>1, <1>2, RankKeyIs
<1> QED
  BY <1>3, <1>4

\* A round's entry is one.
LEMMA EntryIs ==
    ASSUME cand \in Codes, exec \in RunsOf(Target, cand), round \in Nat,
           NEW v \in Verdicts(Target, cand, exec, Opinions)
    PROVE  /\ IsEntry(Entry(v))
           /\ Entry(v).round = round /\ Entry(v).cand = cand
           /\ Entry(v).exec = exec /\ Entry(v).verdict = v
  BY DEF IsEntry, Entry

\* The better of the best and a new entry is the best of all.
LEMMA BestOfMore ==
    ASSUME NEW e, IsEntry(e), NEW b, NEW S, NEW n,
           (b = NoBest /\ S = {}) \/ IsBest(b, S), Ranked(S, n)
    PROVE  IsBest(IF Above(e.key, b.key) THEN e ELSE b,
                  S \cup {[key |-> e.key, text |-> e.cand.text]})
<1> DEFINE x == [key |-> e.key, text |-> e.cand.text]
           T == S \cup {x}
<1>1. x.key = e.key /\ x \in T
  OBVIOUS
<1>2. e.key \in Key /\ Len(e.key) = 11
  BY EntryKey
<1>3. ~Above(e.key, e.key)
  BY <1>2, AboveIrreflexive
<1>4. CASE b = NoBest /\ S = {}
  <2>1. Above(e.key, b.key)
    BY <1>2, <1>4, AboveNone DEF NoBest
  <2>2. IsBest(e, T)
    <3>1. \A y \in T : y = x
      BY <1>4
    <3> HIDE DEF x, T
    <3>2. \A y \in T : ~Above(y.key, e.key)
      BY <1>1, <1>3, <3>1
    <3> QED
      BY <1>1, <3>2 DEF IsBest, x
  <2> QED
    BY <2>1, <2>2
<1>5. CASE IsBest(b, S)
  <2>1. IsEntry(b) /\ [key |-> b.key, text |-> b.cand.text] \in S
    BY <1>5 DEF IsBest
  <2>2. b.key \in Key /\ Len(b.key) = 11
    BY <2>1, EntryKey
  <2>3. \A y \in S : ~Above(y.key, b.key) /\ y.key \in Key /\ Len(y.key) = 11
    BY <1>5 DEF IsBest, Ranked
  <2>4. CASE Above(e.key, b.key)
    <3>1. \A y \in S : ~Above(y.key, e.key)
      BY <1>2, <2>2, <2>3, <2>4, AboveTransitive
    <3>2. \A y \in T : ~Above(y.key, e.key)
      BY <1>1, <1>3, <3>1
    <3>3. IsBest(e, T)
      BY <1>1, <3>2 DEF IsBest
    <3> QED
      BY <2>4, <3>3
  <2>5. CASE ~Above(e.key, b.key)
    <3>1. \A y \in T : ~Above(y.key, b.key)
      BY <1>1, <2>3, <2>5
    <3>2. IsBest(b, T)
      BY <2>1, <3>1 DEF IsBest
    <3> QED
      BY <2>5, <3>2
  <2> QED
    BY <2>4, <2>5
<1> QED
  BY <1>4, <1>5

\* The first verdict of a round continues the history of the rounds.
LEMMA HistoryGrows ==
    ASSUME NEW e, IsEntry(e), NEW S, Ranked(S, e.round), OnePerRound(S),
           NoneYet(S, e.round), NoneAccepted(S)
    PROVE  LET T == S \cup {[key |-> e.key, text |-> e.cand.text]}
           IN  /\ Ranked(T, e.round) /\ OnePerRound(T) /\ AcceptedLast(T, e.round)
               /\ ~Accepts(e.verdict) => NoneAccepted(T)
<1> DEFINE x == [key |-> e.key, text |-> e.cand.text]
           T == S \cup {x}
<1>1. e.round \in Nat
  BY DEF IsEntry
<1>2. /\ x.key \in Key /\ Len(x.key) = 11
      /\ x.key[1] \in {0, 1} /\ x.key[2] \in {0, 1}
      /\ x.key[2] = 1 <=> Accepts(e.verdict)
      /\ x.key[11] = -e.round
  BY EntryKey
<1> HIDE DEF x
<1>3. \A y \in S : y.key[11] \in Int /\ y.key[11] # x.key[11] /\ y.key[2] = 0
  BY <1>1, <1>2 DEF Ranked, Key, NoneYet, NoneAccepted
<1>4. Ranked(T, e.round)
  BY <1>1, <1>2 DEF Ranked
<1>5. OnePerRound(T)
  BY <1>3 DEF OnePerRound
<1>6. AcceptedLast(T, e.round)
  BY <1>2, <1>3 DEF AcceptedLast
<1>7. ~Accepts(e.verdict) => NoneAccepted(T)
  BY <1>2, <1>3 DEF NoneAccepted
<1> QED
  BY <1>4, <1>5, <1>6, <1>7 DEF x

\* A new round has no checkpoint yet.
LEMMA HistoryOfNext ==
    ASSUME NEW S, NEW n \in Nat, Ranked(S, n), NoneAccepted(S)
    PROVE  Ranked(S, n + 1) /\ NoneYet(S, n + 1) /\ AcceptedLast(S, n + 1)
<1>1. \A x \in S : x.key[11] \in Int
  BY DEF Ranked, Key
<1> QED
  BY <1>1 DEF Ranked, NoneYet, AcceptedLast, NoneAccepted

-----------------------------------------------------------------------------
\* Each step keeps the invariant.

LEMMA LoopInvAtFirst == Init => LoopInv
<1> SUFFICES ASSUME Init PROVE LoopInv
  OBVIOUS
<1>1. Phases
  BY LoopAssumption DEF Init, Phases, Where, Steps
<1>2. InHand
  BY DEF Init, InHand, Where
<1>3. BestKept
  BY DEF Init, BestKept, Where
<1>4. History
  BY DEF Init, History, Ranked, OnePerRound, NoneYet, AcceptedLast, NoneAccepted
<1>5. Written
  BY DEF Init, Written
<1>6. Counted
  <2>1. IsFiniteSet({}) /\ Cardinality({}) = 0
    BY FS_EmptySet
  <2>2. keep = FALSE /\ depth = -2 /\ delta = None /\ summary = None /\ checkpoints = {}
        /\ faults = 0 /\ round = 0 /\ Where \in Unjudged
    BY DEF Init, Unset, Where, Unjudged
  <2>3. MaxFaults \in Nat
    BY LoopAssumption
  <2>4. IsFiniteSet(checkpoints) /\ Cardinality(checkpoints) <= round
    BY <2>1, <2>2
  <2>5. depth \in -2 .. 3 /\ faults \in 0 .. MaxFaults
    BY <2>2, <2>3
  <2>6. keep \in BOOLEAN
    BY <2>2
  <2>7. delta \in Deltas \cup {None} /\ summary \in SummaryStatuses \cup {None, "PAUSED_API"}
    BY <2>2
  <2> QED
    BY <2>2, <2>4, <2>5, <2>6, <2>7 DEF Counted
<1> QED
  BY <1>1, <1>2, <1>3, <1>4, <1>5, <1>6 DEF LoopInv

LEMMA AdaptKeeps == LoopInv /\ Adapt => LoopInv'
<1> SUFFICES ASSUME LoopInv, Adapt PROVE LoopInv'
  OBVIOUS
<1> USE DEF LoopInv
<1>1. pc = "adapt" /\ pc' = "run" /\ stopped' = stopped /\ Where = "adapt" /\ Where' = "run"
  BY DEF Adapt, Where
<1>2. /\ round' = round /\ checkpoints' = checkpoints /\ best' = best /\ kept' = kept
      /\ keep' = keep /\ depth' = depth /\ summary' = summary /\ faults' = faults
      /\ delta' \in Deltas
      /\ cand' \in Codes /\ file' = cand'.text
  BY DEF Adapt, Place, disk
<1>3. Phases'
  BY <1>1, <1>2 DEF Phases, Steps
<1>4. InHand'
  BY <1>1, <1>2 DEF InHand
<1>5. BestKept'
  BY <1>1, <1>2 DEF BestKept
<1>6. History'
  BY <1>1, <1>2 DEF History, Unjudged
<1>7. Written'
  BY <1>1 DEF Written
<1>8. Counted'
  BY <1>1, <1>2 DEF Counted, Unjudged
<1> QED
  BY <1>3, <1>4, <1>5, <1>6, <1>7, <1>8

\* A run that is reused is of the same text, and so a run of this candidate.
LEMMA ExecuteKeeps == LoopInv /\ Execute => LoopInv'
<1> SUFFICES ASSUME LoopInv, Execute PROVE LoopInv'
  OBVIOUS
<1> USE DEF LoopInv
<1>1. pc = "run" /\ pc' = "judge" /\ stopped' = stopped /\ Where = "run" /\ Where' = "judge"
  BY DEF Execute, Where
<1>2. /\ round' = round /\ checkpoints' = checkpoints /\ best' = best /\ keep' = FALSE
      /\ depth' = depth /\ summary' = summary /\ faults' = faults /\ delta' = delta
      /\ cand' = cand /\ file' = file
  BY DEF Execute, disk
<1>3. cand \in Codes /\ file = cand.text
  BY <1>1 DEF InHand
<1>4. exec' \in RunsOf(Target, cand)
      /\ (kept' # None => \E c \in Codes, o \in Outcomes : kept' = Executed(Target, c, o))
  <2>1. CASE ~cand.sound
    <3>1. exec' = StaticFailure(cand) /\ kept' = kept
      BY <2>1 DEF Execute
    <3> QED
      BY <3>1 DEF InHand, RunsOf
  <2>2. CASE cand.sound /\ Reuse
    <3>1. exec' = kept /\ kept' = kept /\ kept # None /\ kept.of = cand.text
      BY <2>2 DEF Execute, Reuse
    <3>2. PICK c \in Codes, o \in Outcomes : kept = Executed(Target, c, o)
      BY <3>1 DEF InHand
    <3>3. kept = Executed(Target, cand, o)
      BY <3>1, <3>2 DEF Executed
    <3> QED
      BY <3>1, <3>2, <3>3 DEF RunsOf
  <2>3. CASE cand.sound /\ ~Reuse
    <3>1. PICK o \in Outcomes : exec' = Executed(Target, cand, o)
      BY <2>3 DEF Execute
    <3>2. kept' = exec'
      BY <2>3 DEF Execute
    <3> QED
      BY <1>3, <3>1, <3>2 DEF RunsOf
  <2> QED
    BY <2>1, <2>2, <2>3
<1>5. Phases'
  BY <1>1, <1>2 DEF Phases, Steps
<1>6. InHand'
  BY <1>1, <1>2, <1>3, <1>4 DEF InHand
<1>7. BestKept'
  BY <1>1, <1>2 DEF BestKept
<1>8. History'
  BY <1>1, <1>2 DEF History, Unjudged
<1>9. Written'
  BY <1>1 DEF Written
<1>10. Counted'
  BY <1>1, <1>2 DEF Counted, Unjudged
<1> QED
  BY <1>5, <1>6, <1>7, <1>8, <1>9, <1>10

\* A verdict adds a checkpoint and leaves in hand the round it is of, or the
\* best of the earlier ones.
LEMMA JudgeKeeps == LoopInv /\ Judge => LoopInv'
<1> SUFFICES ASSUME LoopInv, Judge PROVE LoopInv'
  OBVIOUS
<1> USE DEF LoopInv
<1>1. pc = "judge" /\ pc' \in {"plan", "conclude"} /\ stopped' = stopped
      /\ Where = "judge" /\ Where' = pc'
  BY DEF Judge, Where
<1>2. /\ round' = round /\ kept' = kept /\ keep' = keep /\ summary' = summary
      /\ faults' = faults /\ delta' = delta
  BY DEF Judge, disk
<1>3. cand \in Codes /\ file = cand.text /\ exec \in RunsOf(Target, cand) /\ round \in Nat
  BY <1>1 DEF InHand, Phases
<1>4. PICK v \in Verdicts(Target, cand, exec, Opinions) :
         /\ checkpoints' = checkpoints \cup {[key |-> Entry(v).key, text |-> cand.text]}
         /\ KeepBest(Entry(v))
         /\ IF Regressed(v) /\ best'.round < round
            THEN Restore(best')
            ELSE /\ verdict' = v
                 /\ depth' = Depth(v, exec)
                 /\ UNCHANGED <<cand, file, exec>>
  BY DEF Judge
<1> DEFINE e == Entry(v)
<1>5. IsEntry(e) /\ e.round = round /\ e.cand = cand /\ e.exec = exec /\ e.verdict = v
  BY <1>3, EntryIs
<1> HIDE DEF e
<1>6. checkpoints' = checkpoints \cup {[key |-> e.key, text |-> e.cand.text]}
  BY <1>4, <1>5 DEF e
<1>7. best' = IF Above(e.key, best.key) THEN e ELSE best
  BY <1>4 DEF e, KeepBest
<1>8. IsBest(best', checkpoints')
  <2>1. (best = NoBest /\ checkpoints = {}) \/ IsBest(best, checkpoints)
    BY DEF BestKept
  <2>2. Ranked(checkpoints, round)
    BY DEF History
  <2> QED
    BY <1>5, <1>6, <1>7, <2>1, <2>2, BestOfMore
<1>9. /\ Ranked(checkpoints', round) /\ OnePerRound(checkpoints')
      /\ AcceptedLast(checkpoints', round)
      /\ ~Accepts(v) => NoneAccepted(checkpoints')
  <2>1. /\ Ranked(checkpoints, e.round) /\ OnePerRound(checkpoints)
        /\ NoneYet(checkpoints, e.round) /\ NoneAccepted(checkpoints)
    BY <1>1, <1>5 DEF History, Unjudged
  <2> QED
    BY <1>5, <1>6, <2>1, HistoryGrows
<1>10. IsEntry(best')
  BY <1>8 DEF IsBest
<1>11. /\ cand' \in Codes /\ file' = cand'.text /\ exec' \in RunsOf(Target, cand')
       /\ verdict' \in Verdicts(Target, cand', exec', Opinions)
       /\ depth' = Depth(verdict', exec')
       /\ Accepts(v) => Accepts(verdict')
  <2>1. CASE Regressed(v) /\ best'.round < round
    <3>1. /\ cand' = best'.cand /\ file' = best'.cand.text /\ exec' = best'.exec
          /\ verdict' = best'.verdict /\ depth' = Depth(best'.verdict, best'.exec)
      BY <1>4, <2>1 DEF Restore, Place
    <3>2. ~Accepts(v)
      BY <2>1 DEF Regressed
    <3> QED
      BY <1>10, <3>1, <3>2 DEF IsEntry
  <2>2. CASE ~(Regressed(v) /\ best'.round < round)
    BY <1>3, <1>4, <2>2
  <2> QED
    BY <2>1, <2>2
<1>12. pc' = "plan" => ~Accepts(v) /\ round + 1 < Rounds
  <2>1. pc' = IF Accepts(verdict') \/ OutOfRounds THEN "conclude" ELSE "plan"
    BY DEF Judge
  <2>2. round + 1 \in Int /\ Rounds \in Int
    BY <1>3, LoopAssumption
  <2> QED
    BY <1>11, <2>1, <2>2 DEF OutOfRounds
<1>13. Phases'
  BY <1>1, <1>2, <1>12 DEF Phases, Steps
<1>14. InHand'
  BY <1>1, <1>2, <1>11 DEF InHand
<1>15. BestKept'
  BY <1>6, <1>8 DEF BestKept
<1>16. History'
  BY <1>1, <1>2, <1>9, <1>12 DEF History, Unjudged
<1>17. Written'
  BY <1>1 DEF Written
<1>18. Counted'
  <2>1. IsFiniteSet(checkpoints') /\ Cardinality(checkpoints') <= round + 1
    <3>1. IsFiniteSet(checkpoints) /\ Cardinality(checkpoints) <= round
      BY <1>1 DEF Counted, Unjudged
    <3>2. Cardinality(checkpoints) \in Nat
      BY <3>1, FS_CardinalityType
    <3>3. /\ IsFiniteSet(checkpoints')
          /\ \/ Cardinality(checkpoints') = Cardinality(checkpoints)
             \/ Cardinality(checkpoints') = Cardinality(checkpoints) + 1
      BY <1>6, <3>1, FS_AddElement
    <3> QED
      BY <1>3, <3>1, <3>2, <3>3
  <2>2. depth' \in -2 .. 3
    BY <1>11, VerdictIs, DepthIs
  <2> QED
    BY <1>1, <1>2, <2>1, <2>2 DEF Counted, Unjudged
<1> QED
  BY <1>13, <1>14, <1>15, <1>16, <1>17, <1>18

\* Giving up leaves everything to the conclusion.
LEMMA GiveUpKeeps == LoopInv /\ GiveUp => LoopInv'
<1> SUFFICES ASSUME LoopInv, GiveUp PROVE LoopInv'
  OBVIOUS
<1> USE DEF LoopInv
<1>1. pc = "plan" /\ pc' = "conclude" /\ stopped' = stopped
      /\ Where = "plan" /\ Where' = "conclude"
  BY DEF GiveUp, Where
<1>2. /\ round' = round /\ file' = file /\ cand' = cand /\ exec' = exec /\ kept' = kept
      /\ keep' = keep /\ verdict' = verdict /\ depth' = depth /\ delta' = delta
      /\ checkpoints' = checkpoints /\ best' = best /\ summary' = summary
      /\ faults' = faults
  BY DEF GiveUp, work, disk
<1>3. Phases'
  BY <1>1, <1>2 DEF Phases, Steps
<1>4. InHand'
  BY <1>1, <1>2 DEF InHand
<1>5. BestKept'
  BY <1>1, <1>2 DEF BestKept
<1>6. History'
  BY <1>1, <1>2 DEF History, Unjudged
<1>7. Written'
  BY <1>1 DEF Written
<1>8. Counted'
  BY <1>1, <1>2 DEF Counted, Unjudged
<1> QED
  BY <1>3, <1>4, <1>5, <1>6, <1>7, <1>8

\* The next round, with the same candidate or a changed one.
LEMMA NextRoundKeeps == LoopInv /\ (Again \/ Mutate) => LoopInv'
<1> SUFFICES ASSUME LoopInv, Again \/ Mutate PROVE LoopInv'
  OBVIOUS
<1> USE DEF LoopInv
<1>1. pc = "plan" /\ pc' = "run" /\ stopped' = stopped /\ Where = "plan" /\ Where' = "run"
  BY DEF Again, Mutate, Where
<1>2. /\ round' = round + 1 /\ checkpoints' = checkpoints /\ best' = best
      /\ kept' = kept /\ depth' = depth /\ summary' = summary /\ faults' = faults
  BY DEF Again, Mutate, NextRound, disk
<1>3. round \in Nat /\ round + 1 \in 0 .. Rounds - 1
  BY <1>1, LoopAssumption DEF Phases
<1>4. cand' \in Codes /\ file' = cand'.text
  <2>1. CASE Again
    BY <1>1, <2>1 DEF Again, InHand
  <2>2. CASE Mutate
    BY <2>2 DEF Mutate, Place
  <2> QED
    BY <2>1, <2>2
<1>5. keep' \in BOOLEAN /\ delta' \in Deltas
  <2>1. CASE Again
    BY <2>1 DEF Again
  <2>2. CASE Mutate
    BY <2>2 DEF Mutate, Deltas, Counted
  <2> QED
    BY <2>1, <2>2
<1>6. Phases'
  BY <1>1, <1>2, <1>3 DEF Phases, Steps
<1>7. InHand'
  BY <1>1, <1>2, <1>4 DEF InHand
<1>8. BestKept'
  BY <1>1, <1>2 DEF BestKept
<1>9. History'
  <2>1. Ranked(checkpoints, round) /\ OnePerRound(checkpoints) /\ NoneAccepted(checkpoints)
    BY <1>1 DEF History
  <2>2. /\ Ranked(checkpoints, round + 1) /\ NoneYet(checkpoints, round + 1)
        /\ AcceptedLast(checkpoints, round + 1)
    BY <1>3, <2>1, HistoryOfNext
  <2> QED
    BY <1>2, <2>1, <2>2 DEF History
<1>10. Written'
  BY <1>1 DEF Written
<1>11. Counted'
  BY <1>1, <1>2, <1>5 DEF Counted, Unjudged
<1> QED
  BY <1>6, <1>7, <1>8, <1>9, <1>10, <1>11

\* The conclusion publishes the best round.
LEMMA ConcludeKeeps == LoopInv /\ Conclude => LoopInv'
<1> SUFFICES ASSUME LoopInv, Conclude PROVE LoopInv'
  OBVIOUS
<1> USE DEF LoopInv
<1>1. pc = "conclude" /\ pc' = "done" /\ stopped' = stopped
      /\ Where = "conclude" /\ Where' = "done"
  BY DEF Conclude, Where
<1>2. /\ round' = round /\ kept' = kept /\ keep' = keep /\ depth' = depth
      /\ delta' = delta /\ checkpoints' = checkpoints /\ best' = best /\ faults' = faults
  BY DEF Conclude
<1>3. /\ file' = best.cand.text /\ test' = best.cand.text
      /\ exec' = best.exec /\ verdict' = best.verdict
      /\ ranking' = Selected /\ summary' = SelectedStatus
  BY DEF Conclude, Place
<1>4. IsBest(best, checkpoints)
  BY <1>1 DEF BestKept
<1>5. Phases'
  BY <1>1, <1>2 DEF Phases, Steps
<1>6. InHand'
  BY <1>1, <1>2 DEF InHand
<1>7. BestKept'
  BY <1>1, <1>2 DEF BestKept
<1>8. History'
  BY <1>1, <1>2 DEF History, Unjudged
<1>9. Written'
  BY <1>2, <1>3, <1>4 DEF Written, Selected, SelectedStatus
<1>10. Counted'
  <2>1. summary' \in SummaryStatuses
    BY <1>3, <1>4, FinalStatusIs DEF IsBest, IsEntry, SelectedStatus
  <2> QED
    BY <1>1, <1>2, <2>1 DEF Counted, Unjudged
<1> QED
  BY <1>5, <1>6, <1>7, <1>8, <1>9, <1>10

\* A pause and the resume after it keep the step and all that was worked out.
LEMMA PauseKeeps == LoopInv /\ (Pause \/ Resume) => LoopInv'
<1> SUFFICES ASSUME LoopInv, Pause \/ Resume PROVE LoopInv'
  OBVIOUS
<1> USE DEF LoopInv
<1>1. /\ round' = round /\ file' = file /\ cand' = cand /\ exec' = exec /\ kept' = kept
      /\ keep' = keep /\ verdict' = verdict /\ depth' = depth /\ delta' = delta
      /\ checkpoints' = checkpoints /\ best' = best
  BY DEF Pause, Resume, work
<1>2. Where' = Where /\ pc' # "done"
  <2>1. CASE Pause
    BY <2>1 DEF Pause, Where, Steps
  <2>2. CASE Resume
    BY <2>2 DEF Resume, Where, Phases, Steps
  <2> QED
    BY <2>1, <2>2
<1>3. Phases'
  <2>1. CASE Pause
    BY <1>1, <1>2, <2>1 DEF Pause, Phases
  <2>2. CASE Resume
    BY <1>1, <1>2, <2>2 DEF Resume, Phases, Steps
  <2> QED
    BY <2>1, <2>2
<1>4. InHand'
  BY <1>1, <1>2 DEF InHand
<1>5. BestKept'
  BY <1>1, <1>2 DEF BestKept
<1>6. History'
  BY <1>1, <1>2 DEF History
<1>7. Written'
  BY <1>2 DEF Written
<1>8. Counted'
  <2>1. summary' \in {summary, "PAUSED_API"}
    BY DEF Pause, Resume, disk
  <2>2. faults' \in 0 .. MaxFaults
    BY LoopAssumption DEF Counted, Pause, Resume, Fault
  <2> QED
    BY <1>1, <1>2, <2>1, <2>2 DEF Counted
<1> QED
  BY <1>3, <1>4, <1>5, <1>6, <1>7, <1>8

\* A failure ends the pipeline as it is.
LEMMA BreakKeeps == LoopInv /\ Break => LoopInv'
<1> SUFFICES ASSUME LoopInv, Break PROVE LoopInv'
  OBVIOUS
<1> USE DEF LoopInv
<1>1. pc \in Steps /\ pc' = "done" /\ stopped' = stopped /\ summary' = "ERROR"
      /\ Where = pc /\ Where' = "done"
  BY DEF Break, Where, Steps
<1>2. /\ round' = round /\ kept' = kept /\ keep' = keep /\ depth' = depth
      /\ delta' = delta /\ checkpoints' = checkpoints /\ best' = best
  BY DEF Break, work
<1>3. Phases'
  BY <1>1, <1>2 DEF Phases, Steps
<1>4. InHand'
  BY <1>1, <1>2 DEF InHand
<1>5. BestKept'
  BY <1>1, <1>2 DEF BestKept
<1>6. History'
  BY <1>1, <1>2 DEF History, Unjudged
<1>7. Written'
  BY <1>1 DEF Written
<1>8. Counted'
  <2>1. faults' \in 0 .. MaxFaults
    BY LoopAssumption DEF Counted, Break, Fault
  <2>2. IsFiniteSet(checkpoints) /\ Cardinality(checkpoints) <= round + 1
    <3>1. Cardinality(checkpoints) \in Nat
      BY FS_CardinalityType DEF Counted
    <3> QED
      BY <3>1 DEF Counted, Phases
  <2> QED
    BY <1>1, <1>2, <2>1, <2>2 DEF Counted, Unjudged, SummaryStatuses
<1> QED
  BY <1>3, <1>4, <1>5, <1>6, <1>7, <1>8

LEMMA LoopInvStays == LoopInv /\ [Next]_vars => LoopInv'
<1> SUFFICES ASSUME LoopInv, [Next]_vars PROVE LoopInv'
  OBVIOUS
<1>1. CASE Adapt
  BY <1>1, AdaptKeeps
<1>2. CASE Execute
  BY <1>2, ExecuteKeeps
<1>3. CASE Judge
  BY <1>3, JudgeKeeps
<1>4. CASE GiveUp
  BY <1>4, GiveUpKeeps
<1>5. CASE Again \/ Mutate
  BY <1>5, NextRoundKeeps
<1>6. CASE Conclude
  BY <1>6, ConcludeKeeps
<1>7. CASE Pause \/ Resume
  BY <1>7, PauseKeeps
<1>8. CASE Break
  BY <1>8, BreakKeeps
<1>9. CASE UNCHANGED vars
  <2>1. /\ pc' = pc /\ stopped' = stopped /\ round' = round /\ file' = file
        /\ cand' = cand /\ exec' = exec /\ kept' = kept /\ keep' = keep
        /\ verdict' = verdict /\ depth' = depth /\ delta' = delta
        /\ checkpoints' = checkpoints /\ best' = best /\ summary' = summary
        /\ ranking' = ranking /\ test' = test /\ faults' = faults
    BY <1>9 DEF vars, work, disk
  <2>2. Where' = Where
    BY <2>1 DEF Where
  <2>3. Phases' /\ InHand' /\ BestKept'
    BY <2>1, <2>2 DEF LoopInv, Phases, InHand, BestKept
  <2>4. History' /\ Written'
    BY <2>1, <2>2 DEF LoopInv, History, Written, Selected, SelectedStatus
  <2>5. Counted'
    BY <2>1, <2>2 DEF LoopInv, Counted
  <2> QED
    BY <2>3, <2>4, <2>5 DEF LoopInv
<1> QED
  BY <1>1, <1>2, <1>3, <1>4, <1>5, <1>6, <1>7, <1>8, <1>9 DEF Next, Work

LEMMA LoopInvAlways == Spec => []LoopInv
<1>1. Init => LoopInv
  BY LoopInvAtFirst
<1>2. LoopInv /\ [Next]_vars => LoopInv'
  BY LoopInvStays
<1> QED
  BY <1>1, <1>2, PTL DEF Spec

-----------------------------------------------------------------------------
\* The results.

\* The loop's variables have the values they are meant to have, and there is at
\* most one checkpoint per round begun (run_instance_pipeline).
THEOREM LoopTypeCorrect == Spec => []LoopTypeOK
<1>1. LoopInv => LoopTypeOK
  <2> SUFFICES ASSUME LoopInv PROVE LoopTypeOK
    OBVIOUS
  <2>1. pc \in Steps \cup {"paused", "done"} /\ round \in 0 .. Rounds - 1
    BY DEF LoopInv, Phases
  <2>2. stopped \in (Steps \ {"conclude"}) \cup {None}
    BY DEF LoopInv, Phases
  <2>3. Cardinality(checkpoints) <= round + 1
    <3>1. Cardinality(checkpoints) \in Nat
      BY FS_CardinalityType DEF LoopInv, Counted
    <3> QED
      BY <2>1, <3>1 DEF LoopInv, Counted
  <2> QED
    BY <2>1, <2>2, <2>3 DEF LoopInv, Counted, LoopTypeOK
<1> QED
  BY <1>1, LoopInvAlways, PTL

\* When a verdict is sought or used, the worktree holds the candidate in hand and
\* the execution in hand is a run of it, whether it was run, reused for a KEEP or
\* restored by a step back, and through pauses (_execute_or_reuse_keep,
\* _restore_repair_state).
THEOREM EvidenceIsOfTheCandidate == Spec => []EvidenceMatches
<1>1. LoopInv => EvidenceMatches
  <2> SUFFICES ASSUME LoopInv PROVE EvidenceMatches
    OBVIOUS
  <2>1. ASSUME pc \in {"judge", "plan"}
        PROVE  file = cand.text /\ exec.of = cand.text
    <3>1. file = cand.text /\ exec \in RunsOf(Target, cand)
      BY <2>1 DEF LoopInv, InHand, Where
    <3> QED
      BY <3>1, RunIs
  <2>2. ASSUME pc = "plan"
        PROVE  /\ verdict \in Verdicts(Target, cand, exec, Opinions)
               /\ depth = Depth(verdict, exec)
    BY <2>2 DEF LoopInv, InHand, Where
  <2> QED
    BY <2>1, <2>2 DEF EvidenceMatches
<1> QED
  BY <1>1, LoopInvAlways, PTL

\* A checkpoint above which there is none hides no accepted one, unless its oracle
\* is sounder and its round earlier.
LEMMA AcceptedHidden ==
    ASSUME NEW b, NEW S, IsBest(b, S), b.key[2] = 0, NEW n \in Nat,
           Ranked(S, n), OnePerRound(S), AcceptedLast(S, n),
           NEW x \in S, x.key[2] = 1
    PROVE  x.key[1] = 0 /\ b.key[1] = 1 /\ x.key[11] < b.key[11]
<1> DEFINE own == [key |-> b.key, text |-> b.cand.text]
<1>1. own \in S /\ own.key = b.key
  BY DEF IsBest
<1> HIDE DEF own
<1>2. /\ x.key \in Key /\ Len(x.key) = 11 /\ x.key[1] \in {0, 1}
      /\ b.key \in Key /\ Len(b.key) = 11 /\ b.key[1] \in {0, 1}
  BY <1>1 DEF Ranked
<1>3. ~Above(x.key, b.key)
  BY DEF IsBest
<1>4. x.key[1] = 0 /\ b.key[1] = 1
  <2>1. ~(x.key[1] > b.key[1])
    <3>1. ASSUME x.key[1] > b.key[1] PROVE FALSE
      <4>1. \A j \in 1 .. 1 - 1 : x.key[j] = b.key[j]
        OBVIOUS
      <4>2. 1 \in 1 .. 11
        OBVIOUS
      <4> QED
        BY <1>2, <1>3, <3>1, <4>1, <4>2, AboveIs, Zenon
    <3> QED
      BY <3>1
  <2>2. x.key[1] # b.key[1]
    <3>1. ASSUME x.key[1] = b.key[1] PROVE FALSE
      <4>1. x.key[2] > b.key[2]
        OBVIOUS
      <4>2. \A j \in 1 .. 2 - 1 : x.key[j] = b.key[j]
        BY <3>1
      <4>3. 2 \in 1 .. 11
        OBVIOUS
      <4> QED
        BY <1>2, <1>3, <4>1, <4>2, <4>3, AboveIs, Zenon
    <3> QED
      BY <3>1
  <2> QED
    BY <1>2, <2>1, <2>2
<1>5. x.key[11] < b.key[11]
  <2>1. x.key[11] = -n /\ -n <= b.key[11] /\ b.key[11] \in Int
    BY <1>1, <1>2 DEF AcceptedLast, Ranked, Key
  <2>2. x.key[11] # b.key[11]
    BY <1>1 DEF OnePerRound
  <2> QED
    BY <2>1, <2>2
<1> QED
  BY <1>4, <1>5

\* summary.json, candidate_ranking.json, final_test.py and the worktree of a
\* pipeline that ends regularly speak of one candidate; an aligned failure is
\* claimed for an accepted run that fails by itself, and an accepted round is
\* passed over only for one with a sounder oracle.
THEOREM PublicationIsWhole == Spec => []PublishedWhole
<1>1. LoopInv => PublishedWhole
  <2> SUFFICES ASSUME LoopInv, pc = "done", summary # "ERROR"
               PROVE  /\ test = ranking.text /\ file = test /\ exec.of = test
                      /\ (summary = "ISSUE_ALIGNED_FAIL") = (ranking.key[2] = 1)
                      /\ summary = "ISSUE_ALIGNED_FAIL" =>
                            Failing(exec) /\ verdict.hit /\ verdict.grounded /\ verdict.falsifiable
                      /\ summary # "ISSUE_ALIGNED_FAIL" =>
                            \A x \in checkpoints :
                               x.key[2] = 1 =>
                                  x.key[1] = 0 /\ ranking.key[1] = 1 /\ x.key[11] < ranking.key[11]
    BY DEF PublishedWhole
  <2>1. /\ IsBest(best, checkpoints)
        /\ exec = best.exec /\ verdict = best.verdict
        /\ file = best.cand.text /\ test = best.cand.text
        /\ ranking = Selected /\ summary = SelectedStatus
    BY DEF LoopInv, Written
  <2>2. IsEntry(best)
    BY <2>1 DEF IsBest
  <2>3. ranking.text = best.cand.text /\ ranking.key = best.key
    BY <2>1, <2>2 DEF Selected, Checkpoint, IsEntry
  <2>4. /\ exec \in RunsOf(Target, best.cand)
        /\ verdict \in Verdicts(Target, best.cand, exec, Opinions)
    BY <2>1, <2>2 DEF IsEntry
  <2>5. exec.of = test
    BY <2>1, <2>4, RunIs
  <2>6. Accepts(verdict) <=> summary = "ISSUE_ALIGNED_FAIL"
    BY <2>1, <2>4, FinalStatusIs DEF SelectedStatus
  <2>7. (Accepts(verdict) <=> best.key[2] = 1) /\ best.key[2] \in {0, 1}
    BY <2>1, <2>2, EntryKey
  <2>8. Accepts(verdict) =>
           Failing(exec) /\ verdict.hit /\ verdict.grounded /\ verdict.falsifiable
    BY <2>4, VerdictIs
  <2>9. ASSUME summary # "ISSUE_ALIGNED_FAIL", NEW x \in checkpoints, x.key[2] = 1
        PROVE  x.key[1] = 0 /\ best.key[1] = 1 /\ x.key[11] < best.key[11]
    <3>1. best.key[2] = 0
      BY <2>6, <2>7, <2>9
    <3>2. /\ Ranked(checkpoints, round) /\ OnePerRound(checkpoints)
          /\ AcceptedLast(checkpoints, round) /\ round \in Nat
      BY DEF LoopInv, History, Phases
    <3> QED
      BY <2>1, <2>9, <3>1, <3>2, AcceptedHidden
  <2> QED
    BY <2>1, <2>3, <2>5, <2>6, <2>7, <2>8, <2>9
<1> QED
  BY <1>1, LoopInvAlways, PTL

-----------------------------------------------------------------------------
\* The refinement.

\* The entry to publish, as BestOfRounds sees it.
KeptEntry(b)  == [key |-> b.key, text |-> b.cand.text]
PromiseKept   == IF best = NoBest THEN None ELSE KeptEntry(best)
PromisePublic == IF pc # "done" THEN None
                 ELSE IF summary = "ERROR" THEN Failed
                 ELSE [key |-> ranking.key, text |-> test]

\* A best checkpoint is what BestOfRounds asks for.
LEMMA BestIs ==
    ASSUME NEW b, NEW S, IsBest(b, S)
    PROVE  b # NoBest /\ Promise!Best(KeptEntry(b), S)
<1>1. b.key \in Key /\ Len(b.key) = 11
  BY EntryKey DEF IsBest
<1>2. Len(NoBest.key) # 11
  BY DEF NoBest
<1>3. b # NoBest
  BY <1>1, <1>2, Zenon
<1>4. KeptEntry(b) \in S /\ KeptEntry(b).key = b.key
  BY DEF IsBest, KeptEntry
<1>5. \A x \in S : ~Above(x.key, KeptEntry(b).key)
  BY <1>4 DEF IsBest
<1> QED
  BY <1>3, <1>4, <1>5 DEF Promise!Best

\* Steps that neither judge nor end leave what BestOfRounds speaks of alone.
LEMMA OthersStutter ==
    ASSUME checkpoints' = checkpoints, best' = best, pc # "done", pc' # "done"
    PROVE  UNCHANGED Promise!bvars
  BY DEF Promise!bvars

\* A verdict tries an entry and keeps the best.
LEMMA JudgeTries ==
    ASSUME LoopInv, LoopInv', Judge
    PROVE  Promise!Try
<1>1. pc = "judge" /\ pc' \in {"plan", "conclude"}
  BY DEF Judge
<1>2. \E x \in checkpoints' : checkpoints' = checkpoints \cup {x}
  BY DEF Judge
<1>3. IsBest(best', checkpoints')
  <2>1. Where' = pc'
    BY <1>1 DEF Where
  <2>2. BestKept'
    BY DEF LoopInv
  <2>3. checkpoints' # {}
    BY <1>2
  <2> QED
    BY <2>2, <2>3 DEF BestKept
<1>4. best' # NoBest /\ Promise!Best(KeptEntry(best'), checkpoints')
  BY <1>3, BestIs
<1>5. PromiseKept' = KeptEntry(best')
  BY <1>4 DEF PromiseKept, KeptEntry, NoBest
<1>6. PromisePublic = None /\ PromisePublic' = None
  BY <1>1 DEF PromisePublic
<1>7. Promise!Best(PromiseKept', checkpoints')
  BY <1>4, <1>5
<1> QED
  BY <1>2, <1>6, <1>7 DEF Promise!Try, PromiseKept, PromisePublic, KeptEntry, Promise!Best

\* The conclusion publishes what is kept.
LEMMA ConcludePublishes ==
    ASSUME LoopInv, LoopInv', Conclude
    PROVE  Promise!Publish
<1>1. pc = "conclude" /\ pc' = "done" /\ best' = best /\ checkpoints' = checkpoints
  BY DEF Conclude
<1>2. IsBest(best, checkpoints)
  BY <1>1 DEF LoopInv, BestKept, Where
<1>3. best # NoBest /\ Promise!Best(KeptEntry(best), checkpoints)
  BY <1>2, BestIs
<1>4. PromiseKept = KeptEntry(best) /\ PromiseKept' = PromiseKept
  BY <1>1, <1>3 DEF PromiseKept, KeptEntry, NoBest
<1>5. PromisePublic = None
  BY <1>1 DEF PromisePublic
<1>6. PromisePublic' = PromiseKept
  <2>1. /\ ranking' = Selected /\ test' = best.cand.text /\ summary' = SelectedStatus
    BY DEF Conclude
  <2>2. IsEntry(best)
    BY <1>2 DEF IsBest
  <2>3. summary' # "ERROR"
    BY <2>1, <2>2, FinalStatusIs DEF IsEntry, SelectedStatus
  <2>4. ranking'.key = best.key
    BY <2>1, <2>2 DEF Selected, Checkpoint, IsEntry
  <2> QED
    BY <1>1, <1>4, <2>1, <2>3, <2>4 DEF PromisePublic, KeptEntry
<1>7. Promise!Best(PromiseKept, checkpoints)
  BY <1>3, <1>4
<1> QED
  BY <1>1, <1>4, <1>5, <1>6, <1>7 DEF Promise!Publish, PromiseKept, PromisePublic, KeptEntry

\* A failure publishes no entry.
LEMMA BreakFails ==
    ASSUME Break
    PROVE  Promise!Fail
<1>1. /\ pc # "done" /\ pc' = "done" /\ summary' = "ERROR"
      /\ best' = best /\ checkpoints' = checkpoints
  BY DEF Break, work, Steps
<1> QED
  BY <1>1 DEF Promise!Fail

\* What a pipeline publishes is the best of the rounds it judged, once, or a
\* failure that speaks of none (candidate_ranking.json, final_test.py).
THEOREM TheBestIsPublished == Spec => ImplementsBestOfRounds
<1>1. Init => Promise!BestInit
  BY DEF Init, Promise!BestInit
<1>2. LoopInv /\ LoopInv' /\ [Next]_vars => [Promise!BestNext]_(Promise!bvars)
  <2> SUFFICES ASSUME LoopInv, LoopInv', [Next]_vars
               PROVE  Promise!BestNext \/ UNCHANGED Promise!bvars
    OBVIOUS
  <2>1. CASE Judge
    BY <2>1, JudgeTries DEF Promise!BestNext
  <2>2. CASE Conclude
    BY <2>2, ConcludePublishes DEF Promise!BestNext
  <2>3. CASE Break
    BY <2>3, BreakFails DEF Promise!BestNext
  <2>4. CASE Adapt \/ Execute
    <3>1. checkpoints' = checkpoints /\ best' = best /\ pc # "done" /\ pc' # "done"
      BY <2>4 DEF Adapt, Execute
    <3> QED
      BY <3>1, OthersStutter
  <2>5. CASE GiveUp \/ Again \/ Mutate
    <3>1. checkpoints' = checkpoints /\ best' = best /\ pc # "done" /\ pc' # "done"
      BY <2>5 DEF GiveUp, Again, Mutate, work
    <3> QED
      BY <3>1, OthersStutter
  <2>6. CASE Pause \/ Resume
    <3>1. checkpoints' = checkpoints /\ best' = best /\ pc # "done"
      BY <2>6 DEF Pause, Resume, work, Steps
    <3>2. pc' # "done"
      BY <2>6 DEF Pause, Resume, LoopInv, Phases, Steps
    <3> QED
      BY <3>1, <3>2, OthersStutter
  <2>7. CASE UNCHANGED vars
    <3>1. /\ pc' = pc /\ checkpoints' = checkpoints /\ best' = best
          /\ summary' = summary /\ ranking' = ranking /\ test' = test
      BY <2>7 DEF vars, work, disk
    <3> QED
      BY <3>1 DEF Promise!bvars, NoBest, Failed
  <2> QED
    BY <2>1, <2>2, <2>3, <2>4, <2>5, <2>6, <2>7 DEF Next, Work
<1> QED
  BY <1>1, <1>2, LoopInvAlways, PTL DEF Spec, ImplementsBestOfRounds, Promise!BestSpec


-----------------------------------------------------------------------------
\* The controller: which attempt is chosen.

\* What KeyOf may be: a rank key, or nothing.
Keys == {k \in Key : Len(k) = 11} \cup {<<>>}

\* The rankings the pipelines of a route can publish, and what they are like.
Rankings == UNION {{r.ranking : r \in Results[route]} : route \in Routes}

\* What a pipeline publishes is about one candidate, a run of it and a verdict.
LEMMA ResultOf ==
    ASSUME NEW route \in Routes, NEW r \in Results[route]
    PROVE  \E c \in Codes : \E e \in RunsOf(TargetOf[route], c) :
           \E v \in Verdicts(TargetOf[route], c, e, Opinions) :
              r = [status |-> FinalStatus(e, v),
                   ranking |-> Checkpoint(TargetOf[route], c, e, v, 0)]
  BY DEF Results, RunsOf

\* It has a status, and a ranking.
LEMMA ResultIs ==
    ASSUME NEW route \in Routes, NEW r \in Results[route]
    PROVE  /\ r.status \in SummaryStatuses \ {"ERROR"}
           /\ r.ranking \in Rankings
<1> DEFINE t == TargetOf[route]
<1>1. PICK c \in Codes : \E e \in RunsOf(t, c) : \E v \in Verdicts(t, c, e, Opinions) :
         r = [status |-> FinalStatus(e, v), ranking |-> Checkpoint(t, c, e, v, 0)]
  BY ResultOf
<1>2. PICK e \in RunsOf(t, c) : \E v \in Verdicts(t, c, e, Opinions) :
         r = [status |-> FinalStatus(e, v), ranking |-> Checkpoint(t, c, e, v, 0)]
  BY <1>1
<1>3. PICK v : r.status = FinalStatus(e, v)
  BY <1>2
<1>4. r.status \in SummaryStatuses \ {"ERROR"}
  BY <1>3, FinalStatusIs
<1> QED
  BY <1>4 DEF Rankings

\* A ranking is something, and has a rank key.
LEMMA RankingIs ==
    ASSUME NEW x \in Rankings
    PROVE  /\ x # None
           /\ x.key \in Key /\ Len(x.key) = 11
<1>1. PICK route \in Routes : \E r \in Results[route] : x = r.ranking
  BY DEF Rankings
<1>2. PICK r \in Results[route] : x = r.ranking
  BY <1>1
<1>3. x # None
  BY <1>2, NothingAssumption
<1> DEFINE t == TargetOf[route]
<1>4. PICK c \in Codes : \E e \in RunsOf(t, c) : \E v \in Verdicts(t, c, e, Opinions) :
         r = [status |-> FinalStatus(e, v), ranking |-> Checkpoint(t, c, e, v, 0)]
  BY ResultOf
<1>5. PICK e, v : r.ranking = Checkpoint(t, c, e, v, 0)
  BY <1>4
<1>6. x.key = RankKey(t, c, e, v, 0)
  BY <1>2, <1>5 DEF Checkpoint
<1> QED
  BY <1>3, <1>6, RankKeyIs

\* No key is below nothing, and nothing is above no key.
LEMMA AboveNothing ==
    ASSUME NEW k \in Keys
    PROVE  ~Above(<<>>, k) /\ (k # <<>> => Above(k, <<>>))
<1>1. Len(<<>>) = 0 /\ DOMAIN <<>> = {}
  OBVIOUS
<1>2. ~Above(<<>>, k)
  BY <1>1 DEF Above
<1>3. k # <<>> => Above(k, <<>>)
  BY <1>1 DEF Above, Keys
<1> QED
  BY <1>2, <1>3

\* Keys are in one order.
LEMMA AboveChains ==
    ASSUME NEW k \in Keys, NEW l \in Keys, NEW m \in Keys, Above(k, l), Above(l, m)
    PROVE  Above(k, m)
<1>1. k # <<>> /\ l # <<>>
  BY AboveNothing
<1>2. CASE m = <<>>
  BY <1>1, <1>2, AboveNothing
<1>3. CASE m # <<>>
  BY <1>1, <1>3, AboveTransitive DEF Keys
<1> QED
  BY <1>2, <1>3

\* No key is above itself.
LEMMA AboveNotSame ==
    ASSUME NEW k \in Keys
    PROVE  ~Above(k, k)
  BY AboveNothing, AboveIrreflexive DEF Keys

\* Of two keys one is above the other: the first place they differ in says which.
LEMMA AboveTotal ==
    ASSUME NEW k \in Keys, NEW l \in Keys, k # l
    PROVE  Above(k, l) \/ Above(l, k)
<1>1. CASE k = <<>> \/ l = <<>>
  BY <1>1, AboveNothing
<1>2. CASE k # <<>> /\ l # <<>>
  <2>1. k \in Key /\ l \in Key /\ Len(k) = 11 /\ Len(l) = 11
    BY <1>2 DEF Keys
  <2> DEFINE D == {i \in 1 .. 11 : k[i] # l[i]}
  <2>2. D # {} /\ D \in SUBSET Nat
    BY <2>1 DEF Key
  <2>3. PICK i \in D : \A j \in D : i <= j
    BY <2>2, LeastOfNat
  <2>4. i \in 1 .. 11 /\ \A j \in 1 .. i - 1 : k[j] = l[j]
    BY <2>3
  <2>5. k[i] > l[i] \/ l[i] > k[i]
    BY <2>1, <2>3 DEF Key
  <2>6. (k[i] > l[i] => Above(k, l)) /\ (l[i] > k[i] => Above(l, k))
    BY <2>1, <2>4, AboveIs, Zenon
  <2> QED
    BY <2>5, <2>6
<1> QED
  BY <1>1, <1>2

-----------------------------------------------------------------------------
\* One attempt per seed.
Attempts == [seed : Seeds, status : SummaryStatuses, ranking : Rankings \cup {None}]
OnePerSeed(S) == S \subseteq Attempts /\ \A a, b \in S : a.seed = b.seed => a = b

\* What the order of the selection compares.
LEMMA AttemptIs ==
    ASSUME NEW S, OnePerSeed(S), NEW a \in S
    PROVE  a.seed \in Nat /\ Hard(a) \in Int /\ Consensus(a, S) \in Int /\ KeyOf(a) \in Keys
<1>1. a.seed \in Seeds /\ a.ranking \in Rankings \cup {None} /\ Seeds \subseteq Nat
  BY ControllerAssumption DEF OnePerSeed, Attempts, Seeds
<1>2. IsFiniteSet(S)
  <2> DEFINE f == [x \in S |-> x.seed]
  <2>1. f \in Injection(S, Seeds)
    <3>1. \A x \in S : x.seed \in Seeds
      BY DEF OnePerSeed, Attempts
    <3>2. \A x, y \in S : x.seed = y.seed => x = y
      BY DEF OnePerSeed
    <3> QED
      BY <3>1, <3>2 DEF Injection, IsInjective
  <2>2. IsFiniteSet(Seeds)
    BY ControllerAssumption, FS_Interval DEF Seeds
  <2> QED
    BY <2>1, <2>2, FS_Injection
<1>3. Consensus(a, S) \in Int
  <2> DEFINE T == {b \in S : b.ranking # None /\ b.ranking.sign = a.ranking.sign}
  <2>1. Cardinality(T) \in Nat
    BY <1>2, FS_Subset, FS_CardinalityType
  <2> QED
    BY <2>1 DEF Consensus
<1>4. CASE a.ranking = None
  <2>1. Hard(a) = 0 /\ KeyOf(a) = <<>>
    BY <1>4 DEF Hard, KeyOf
  <2>2. KeyOf(a) \in Keys
    BY <2>1, Zenon DEF Keys
  <2>3. Hard(a) \in Int
    BY <2>1
  <2> QED
    BY <1>1, <1>3, <2>2, <2>3
<1>5. CASE a.ranking # None
  <2>1. a.ranking.key \in Key /\ Len(a.ranking.key) = 11
    BY <1>1, <1>5, RankingIs
  <2>2. a.ranking.key[1] \in Int
    BY <2>1 DEF Key
  <2> QED
    BY <1>1, <1>3, <1>5, <2>1, <2>2 DEF Hard, KeyOf, Keys
<1> QED
  BY <1>4, <1>5

\* The order of the selection is one: of two attempts one is preferred, and what
\* is preferred to a preferred one is preferred.
LEMMA PreferredTotal ==
    ASSUME NEW S, OnePerSeed(S), NEW a \in S, NEW b \in S, a # b
    PROVE  Preferred(a, b, S) \/ Preferred(b, a, S)
<1>1. a.seed # b.seed
  BY DEF OnePerSeed
<1>2. /\ a.seed \in Nat /\ Hard(a) \in Int /\ Consensus(a, S) \in Int /\ KeyOf(a) \in Keys
      /\ b.seed \in Nat /\ Hard(b) \in Int /\ Consensus(b, S) \in Int /\ KeyOf(b) \in Keys
  BY AttemptIs
<1>3. KeyOf(a) # KeyOf(b) => Above(KeyOf(a), KeyOf(b)) \/ Above(KeyOf(b), KeyOf(a))
  BY <1>2, AboveTotal
<1> QED
  BY <1>1, <1>2, <1>3 DEF Preferred

LEMMA PreferredChains ==
    ASSUME NEW S, OnePerSeed(S), NEW a \in S, NEW b \in S, NEW c \in S,
           Preferred(a, b, S), Preferred(b, c, S)
    PROVE  Preferred(a, c, S)
<1>1. /\ a.seed \in Nat /\ Hard(a) \in Int /\ Consensus(a, S) \in Int /\ KeyOf(a) \in Keys
      /\ b.seed \in Nat /\ Hard(b) \in Int /\ Consensus(b, S) \in Int /\ KeyOf(b) \in Keys
      /\ c.seed \in Nat /\ Hard(c) \in Int /\ Consensus(c, S) \in Int /\ KeyOf(c) \in Keys
  BY AttemptIs
<1>2. Above(KeyOf(a), KeyOf(b)) /\ Above(KeyOf(b), KeyOf(c)) => Above(KeyOf(a), KeyOf(c))
  BY <1>1, AboveChains
<1> QED
  BY <1>1, <1>2 DEF Preferred

\* The attempts of the seeds up to n, and whether one of them is preferred to
\* the others.
UpTo(S, n)    == {a \in S : a.seed <= n}
HasBest(S, T) == \E a \in T : \A b \in T \ {a} : Preferred(a, b, S)

\* One more attempt, and there is still a best.
LEMMA BestWithOneMore ==
    ASSUME NEW S, OnePerSeed(S), NEW T \in SUBSET S, T = {} \/ HasBest(S, T),
           NEW x \in S
    PROVE  HasBest(S, T \cup {x})
<1>1. CASE T = {}
  BY <1>1 DEF HasBest
<1>2. CASE T # {}
  <2>1. PICK a \in T : \A b \in T \ {a} : Preferred(a, b, S)
    BY <1>2 DEF HasBest
  <2>2. a \in S /\ \A b \in T : b \in S
    OBVIOUS
  <2>3. CASE x = a \/ Preferred(a, x, S)
    BY <2>1, <2>3 DEF HasBest
  <2>4. CASE x # a /\ ~Preferred(a, x, S)
    <3>1. Preferred(x, a, S)
      BY <2>2, <2>4, PreferredTotal
    <3>2. \A b \in T : Preferred(x, b, S)
      BY <2>1, <2>2, <3>1, PreferredChains
    <3> QED
      BY <3>2 DEF HasBest
  <2> QED
    BY <2>3, <2>4
<1> QED
  BY <1>1, <1>2

\* Some attempt is preferred to all others, and it is the one that is chosen.
LEMMA ChosenIs ==
    ASSUME NEW S, OnePerSeed(S), S # {}
    PROVE  Chosen(S) \in S
<1> DEFINE K == {n \in Nat : UpTo(S, n) # {} /\ ~HasBest(S, UpTo(S, n))}
<1>1. \A a \in S : a.seed \in Nat
  BY AttemptIs
<1>2. ASSUME NEW n \in Nat
      PROVE  \/ UpTo(S, n) = {a \in S : a.seed < n}
             \/ \E x \in S : UpTo(S, n) = {a \in S : a.seed < n} \cup {x}
  <2>1. CASE \E x \in S : x.seed = n
    <3>1. PICK x \in S : x.seed = n
      BY <2>1
    <3>2. \A a \in S : a.seed = n => a = x
      BY <3>1 DEF OnePerSeed
    <3>3. UpTo(S, n) = {a \in S : a.seed < n} \cup {x}
      BY <1>1, <3>1, <3>2 DEF UpTo
    <3> QED
      BY <3>3
  <2>2. CASE ~ \E x \in S : x.seed = n
    BY <1>1, <2>2 DEF UpTo
  <2> QED
    BY <2>1, <2>2
<1>3. ASSUME K # {}
      PROVE  FALSE
  <2>1. PICK n \in K : \A j \in K : n <= j
    BY <1>3, LeastOfNat
  <2> DEFINE T == {a \in S : a.seed < n}
  <2>2. T = {} \/ HasBest(S, T)
    <3>1. CASE n = 0
      BY <1>1, <3>1
    <3>2. CASE n # 0
      <4>1. n - 1 \in Nat /\ n - 1 \notin K
        BY <2>1, <3>2
      <4>2. T = UpTo(S, n - 1)
        BY <1>1, <4>1 DEF UpTo
      <4> QED
        BY <4>1, <4>2
    <3> QED
      BY <3>1, <3>2
  <2>3. UpTo(S, n) = T \/ HasBest(S, UpTo(S, n))
    BY <1>2, <2>1, <2>2, BestWithOneMore
  <2> QED
    BY <2>1, <2>2, <2>3
<1>4. UpTo(S, NumSeeds) = S /\ NumSeeds \in Nat
  BY ControllerAssumption DEF UpTo, OnePerSeed, Attempts, Seeds
<1>5. HasBest(S, S)
  BY <1>3, <1>4
<1> QED
  BY <1>5 DEF HasBest, Chosen

-----------------------------------------------------------------------------
\* The controller's invariant.

Tests == [run : 1 .. MaxRuns, route : Routes, seed : Seeds]
Files == [status : SummaryStatuses \cup {None, "PAUSED_API"}, run : 0 .. MaxRuns,
          ranking : Rankings \cup {None}, test : Tests \cup {None}]

\* Whose turn it is, or will be when a paused run is resumed.
Turn == IF phase = "paused" THEN halted ELSE phase

ControllerTypes ==
    /\ phase \in ControllerSteps \cup {"paused", "done"}
    /\ phase = "paused" => halted \in Routes
    /\ run \in 1 .. MaxRuns /\ seed \in Seeds /\ failures \in 0 .. MaxFailures
    /\ dirs \in [Routes \X Seeds -> Files] /\ \A i \in Routes \X Seeds : dirs[i].run <= run
    /\ out \in [Routes -> Files] /\ \A r \in Routes : out[r].run <= run
    /\ attempts = [r \in Routes |-> attempts[r]]
    /\ \A r \in Routes : OnePerSeed(attempts[r])

\* The seeds of a route have their turns in order, and the direct route comes
\* after the target-guided one.
Turns ==
    /\ Turn = "prepare" => attempts["target"] = {}
    /\ Turn \in {"prepare", "target"} => attempts["direct"] = {}
    /\ Turn \in Routes => \A a \in attempts[Turn] : a.seed < seed
    /\ Turn \in {"direct", "select_direct", "select_target"} => attempts["target"] # {}
    /\ Turn = "select_direct" => attempts["direct"] # {}

\* A directory that a pipeline of run n filled itself.
Whole(d, n, r, s) ==
    d.run = n /\ d.ranking \in Rankings /\ d.test = [run |-> n, route |-> r, seed |-> s]

\* An attempt is what its directory says, and one without an error filled it.
FromTheirFiles ==
    \A r \in Routes : \A a \in attempts[r] :
        /\ dirs[<<r, a.seed>>].status = a.status /\ dirs[<<r, a.seed>>].run = run
        /\ a.status # "ERROR" => Whole(dirs[<<r, a.seed>>], run, r, a.seed)

\* The direct route runs for want of an accepted attempt.
Justified ==
    Turn = "direct" \/ attempts["direct"] # {} => ~AcceptedAttempt("target")

\* What the direct route exported is the directory of one of its seeds.
OfOneSeed ==
    Turn \in {"select_target", "done"} /\ attempts["direct"] # {} =>
        \/ out["direct"].status = "ERROR"
        \/ \E s \in Seeds : /\ out["direct"] = dirs[<<"direct", s>>]
                            /\ Whole(out["direct"], run, "direct", s)

\* So is what the controller exported.
Settled ==
    Ended => \E r \in Routes, s \in Seeds :
        /\ Exported = dirs[<<r, s>>] /\ Whole(Exported, run, r, s)
        /\ attempts["direct"] # {} /\ out["direct"].status = "ISSUE_ALIGNED_FAIL"
              => r = "direct"

ControllerInv == ControllerTypes /\ Turns /\ FromTheirFiles /\ Justified /\ OfOneSeed /\ Settled

LEMMA ConstantsOfController ==
    /\ NumSeeds \in Nat \ {0} /\ MaxRuns \in Nat \ {0} /\ MaxFailures \in Nat
    /\ 0 \in Seeds /\ Seeds \subseteq Nat
    /\ "target" \in Routes /\ "direct" \in Routes /\ Routes = {"target", "direct"}
  BY ControllerAssumption DEF Seeds, Routes

\* A copy of files has their status, and is they when they are whole.
LEMMA CopiedIs ==
    ASSUME NEW from \in Files, NEW to \in Files
    PROVE  /\ Copied(from, to) \in Files
           /\ Copied(from, to).status = from.status /\ Copied(from, to).run = from.run
           /\ \A n \in 1 .. MaxRuns, r \in Routes, s \in Seeds :
                 Whole(from, n, r, s) => Copied(from, to) = from
<1> DEFINE nowRanking == IF from.ranking = None THEN to.ranking ELSE from.ranking
           nowTest    == IF from.test = None THEN to.test ELSE from.test
<1>1. Copied(from, to) = [status |-> from.status, run |-> from.run,
                          ranking |-> nowRanking, test |-> nowTest]
  BY DEF Copied
<1>2. nowRanking \in Rankings \cup {None} /\ nowTest \in Tests \cup {None}
  BY DEF Files
<1>3. from.status \in SummaryStatuses \cup {None, "PAUSED_API"} /\ from.run \in 0 .. MaxRuns
  BY DEF Files
<1>4. ASSUME NEW n \in 1 .. MaxRuns, NEW r \in Routes, NEW s \in Seeds, Whole(from, n, r, s)
      PROVE  Copied(from, to) = from
  <2>1. from.ranking # None
    BY <1>4, RankingIs DEF Whole
  <2>2. [run |-> n, route |-> r, seed |-> s] \in Tests
    BY DEF Tests
  <2>3. from.test # None
    BY <1>4, <2>2, NothingAssumption DEF Whole, Tests
  <2>4. nowRanking = from.ranking /\ nowTest = from.test
    BY <2>1, <2>3
  <2> HIDE DEF nowRanking, nowTest
  <2>5. from = [status |-> from.status, run |-> from.run,
                ranking |-> from.ranking, test |-> from.test]
    BY DEF Files
  <2> QED
    BY <1>1, <2>4, <2>5
<1> HIDE DEF nowRanking, nowTest
<1> QED
  BY <1>1, <1>2, <1>3, <1>4 DEF Files

\* The attempt that is chosen is one, and its directory is whole or in error.
LEMMA ChosenFiles ==
    ASSUME ControllerInv, NEW r \in Routes, attempts[r] # {}
    PROVE  LET s == Chosen(attempts[r]).seed  d == dirs[<<r, s>>]
           IN  /\ s \in Seeds /\ d \in Files /\ d.run = run
               /\ d.status = "ERROR" \/ Whole(d, run, r, s)
<1> DEFINE a == Chosen(attempts[r])
<1>1. a \in attempts[r]
  BY ChosenIs DEF ControllerInv, ControllerTypes
<1> HIDE DEF a
<1>2. a.seed \in Seeds
  BY <1>1 DEF ControllerInv, ControllerTypes, OnePerSeed, Attempts
<1>3. dirs[<<r, a.seed>>] \in Files
  BY <1>2 DEF ControllerInv, ControllerTypes
<1>4. /\ dirs[<<r, a.seed>>].run = run
      /\ dirs[<<r, a.seed>>].status = "ERROR" \/ Whole(dirs[<<r, a.seed>>], run, r, a.seed)
  BY <1>1 DEF ControllerInv, FromTheirFiles
<1> QED
  BY <1>2, <1>3, <1>4 DEF a

-----------------------------------------------------------------------------
\* It holds at first, and every step keeps it.
LEMMA ControllerInvAtFirst == ControllerInit => ControllerInv
<1> SUFFICES ASSUME ControllerInit
             PROVE  ControllerInv
  OBVIOUS
<1> USE ConstantsOfController
<1>1. phase = "prepare" /\ run = 1 /\ seed = 0 /\ failures = 0 /\ Turn = "prepare"
  BY DEF ControllerInit, Turn
<1>2. Empty \in Files /\ Empty.run = 0
  BY DEF Empty, Files
<1>3. \A r \in Routes : attempts[r] = {} /\ OnePerSeed(attempts[r])
  BY DEF ControllerInit, OnePerSeed
<1>4. ControllerTypes
  <2>1. dirs \in [Routes \X Seeds -> Files] /\ \A i \in Routes \X Seeds : dirs[i] = Empty
    BY <1>2 DEF ControllerInit
  <2>2. out \in [Routes -> Files] /\ \A r \in Routes : out[r] = Empty
    BY <1>2 DEF ControllerInit
  <2>3. attempts = [r \in Routes |-> attempts[r]]
    BY DEF ControllerInit
  <2> QED
    BY <1>1, <1>2, <1>3, <2>1, <2>2, <2>3 DEF ControllerTypes, ControllerSteps
<1> QED
  BY <1>1, <1>3, <1>4 DEF ControllerInv, Turns, FromTheirFiles, Justified, OfOneSeed, Settled, Ended

\* The steps that leave directories, attempts and run alone, and the results of
\* both routes: only the turn changes.
LEMMA TurnPasses ==
    ASSUME ControllerInv, UNCHANGED <<run, dirs, attempts, out>>,
           ControllerTypes', Turns',
           Turn' = "direct" => ~AcceptedAttempt("target"),
           Turn' \in {"select_target", "done"} => Turn' = Turn,
           phase' = "done" => phase = "done"
    PROVE  ControllerInv'
<1>1. FromTheirFiles'
  BY DEF ControllerInv, FromTheirFiles
<1>2. AcceptedAttempt("target")' <=> AcceptedAttempt("target")
  BY DEF AcceptedAttempt
<1>3. Justified'
  BY <1>2 DEF ControllerInv, Justified
<1>4. OfOneSeed'
  BY DEF ControllerInv, OfOneSeed
<1>5. Settled'
  BY DEF ControllerInv, Settled, Ended, Exported
<1> QED
  BY <1>1, <1>3, <1>4, <1>5 DEF ControllerInv

LEMMA PrepareKeeps == ControllerInv /\ Prepare => ControllerInv'
<1> SUFFICES ASSUME ControllerInv, Prepare
             PROVE  ControllerInv'
  OBVIOUS
<1> USE ConstantsOfController
<1>1. /\ phase = "prepare" /\ phase' = "target" /\ seed' = 0
      /\ UNCHANGED <<run, dirs, attempts, out, halted, failures>>
  BY DEF Prepare
<1>2. Turn = "prepare" /\ Turn' = "target"
  BY <1>1 DEF Turn
<1>3. ControllerTypes'
  BY <1>1 DEF ControllerInv, ControllerTypes, ControllerSteps
<1>4. Turns'
  BY <1>1, <1>2 DEF ControllerInv, Turns
<1> QED
  BY <1>1, <1>2, <1>3, <1>4, TurnPasses

LEMMA FallbackKeeps == ControllerInv /\ Fallback => ControllerInv'
<1> SUFFICES ASSUME ControllerInv, Fallback
             PROVE  ControllerInv'
  OBVIOUS
<1> USE ConstantsOfController
<1>1. /\ phase = "select_target" /\ phase' = "direct" /\ seed' = 0
      /\ attempts["direct"] = {} /\ ~AcceptedAttempt("target")
      /\ UNCHANGED <<run, dirs, attempts, out, halted, failures>>
  BY DEF Fallback
<1>2. Turn = "select_target" /\ Turn' = "direct"
  BY <1>1 DEF Turn
<1>3. ControllerTypes'
  BY <1>1 DEF ControllerInv, ControllerTypes, ControllerSteps
<1>4. Turns'
  BY <1>1, <1>2 DEF ControllerInv, Turns
<1> QED
  BY <1>1, <1>2, <1>3, <1>4, TurnPasses

LEMMA ResumeRunKeeps == ControllerInv /\ ResumeRun => ControllerInv'
<1> SUFFICES ASSUME ControllerInv, ResumeRun
             PROVE  ControllerInv'
  OBVIOUS
<1> USE ConstantsOfController
<1>1. /\ phase = "paused" /\ phase' = halted
      /\ UNCHANGED <<run, seed, dirs, attempts, out, failures>>
  BY DEF ResumeRun
<1>2. halted \in Routes
  BY <1>1 DEF ControllerInv, ControllerTypes
<1>3. Turn = halted /\ Turn' = halted
  BY <1>1, <1>2 DEF Turn
<1>4. ControllerTypes'
  BY <1>1, <1>2 DEF ControllerInv, ControllerTypes, ControllerSteps
<1>5. Turns'
  BY <1>1, <1>3 DEF ControllerInv, Turns
<1>6. Turn' = "direct" => ~AcceptedAttempt("target")
  BY <1>3 DEF ControllerInv, Justified
<1> QED
  BY <1>1, <1>2, <1>3, <1>4, <1>5, <1>6, TurnPasses

\* Files with another status are files.
LEMMA StatedIs ==
    ASSUME ControllerInv, NEW d \in Files, NEW x \in SummaryStatuses \cup {None, "PAUSED_API"}
    PROVE  /\ Stated(d, x) \in Files
           /\ Stated(d, x).status = x /\ Stated(d, x).run = run
<1>1. run \in 0 .. MaxRuns
  BY ConstantsOfController DEF ControllerInv, ControllerTypes
<1>2. Stated(d, x) \in Files
  BY <1>1 DEF Files, Stated
<1>3. Stated(d, x).status = x /\ Stated(d, x).run = run
  BY DEF Files, Stated
<1> QED
  BY <1>2, <1>3

\* A pause and a preparation that fails write a status, and nothing is read.
LEMMA StatusWritten ==
    ASSUME ControllerInv, NEW x \in SummaryStatuses \cup {None, "PAUSED_API"},
           out' = [out EXCEPT !["target"] = Stated(@, x)]
    PROVE  /\ out' \in [Routes -> Files]
           /\ out'["direct"] = out["direct"]
           /\ \A r \in Routes : out'[r].run <= run
<1> USE ConstantsOfController
<1>1. out \in [Routes -> Files] /\ run \in 1 .. MaxRuns /\ \A r \in Routes : out[r].run <= run
  BY DEF ControllerInv, ControllerTypes
<1> DEFINE f == Stated(out["target"], x)
<1>2. f \in Files /\ f.run = run
  BY <1>1, StatedIs
<1>3. out' = [out EXCEPT !["target"] = f]
  OBVIOUS
<1> HIDE DEF f
<1>4. out'["target"] = f /\ out'["direct"] = out["direct"] /\ out' \in [Routes -> Files]
  BY <1>1, <1>2, <1>3
<1>5. run <= run
  BY <1>1
<1> QED
  BY <1>1, <1>2, <1>4, <1>5

LEMMA PauseRunKeeps == ControllerInv /\ PauseRun => ControllerInv'
<1> SUFFICES ASSUME ControllerInv, PauseRun
             PROVE  ControllerInv'
  OBVIOUS
<1> USE ConstantsOfController
<1>1. /\ phase \in Routes /\ phase' = "paused" /\ halted' = phase
      /\ failures' \in 0 .. MaxFailures
      /\ out' = [out EXCEPT !["target"] = Stated(@, "PAUSED_API")]
      /\ UNCHANGED <<run, seed, dirs, attempts>>
  BY DEF PauseRun, Failure, ControllerInv, ControllerTypes
<1>2. Turn = phase /\ Turn' = phase /\ phase # "paused"
  BY <1>1 DEF Turn
<1>3. ControllerTypes'
  BY <1>1, StatusWritten DEF ControllerInv, ControllerTypes
<1>4. Turns'
  BY <1>1, <1>2 DEF ControllerInv, Turns
<1>5. FromTheirFiles'
  BY <1>1 DEF ControllerInv, FromTheirFiles
<1>6. AcceptedAttempt("target")' <=> AcceptedAttempt("target")
  BY <1>1 DEF AcceptedAttempt
<1>7. Justified'
  BY <1>1, <1>2, <1>6 DEF ControllerInv, Justified
<1>8. OfOneSeed' /\ Settled'
  BY <1>1, <1>2 DEF OfOneSeed, Settled, Ended
<1> QED
  BY <1>3, <1>4, <1>5, <1>7, <1>8 DEF ControllerInv

LEMMA PrepareFailsKeeps == ControllerInv /\ PrepareFails => ControllerInv'
<1> SUFFICES ASSUME ControllerInv, PrepareFails
             PROVE  ControllerInv'
  OBVIOUS
<1> USE ConstantsOfController
<1>1. /\ phase = "prepare" /\ phase' = "done" /\ failures' \in 0 .. MaxFailures
      /\ out' = [out EXCEPT !["target"] = Stated(@, "SETUP_ERROR")]
      /\ UNCHANGED <<run, seed, dirs, attempts, halted>>
  BY DEF PrepareFails, Failure, ControllerInv, ControllerTypes
<1>2. Turn = "prepare" /\ Turn' = "done"
  BY <1>1 DEF Turn
<1>3. attempts["target"] = {} /\ attempts["direct"] = {}
  BY <1>2 DEF ControllerInv, Turns
<1>4. ControllerTypes'
  <2>1. "SETUP_ERROR" \in SummaryStatuses
    BY DEF SummaryStatuses, NotExecutable
  <2> QED
    BY <1>1, <2>1, StatusWritten DEF ControllerInv, ControllerTypes
<1>5. Turns'
  BY <1>2 DEF Turns
<1>6. FromTheirFiles'
  BY <1>1 DEF ControllerInv, FromTheirFiles
<1>7. Justified' /\ OfOneSeed' /\ Settled'
  BY <1>1, <1>2, <1>3 DEF Justified, OfOneSeed, Settled, Ended
<1> QED
  BY <1>4, <1>5, <1>6, <1>7 DEF ControllerInv

LEMMA UpgradeKeeps == ControllerInv /\ Upgrade => ControllerInv'
<1> SUFFICES ASSUME ControllerInv, Upgrade
             PROVE  ControllerInv'
  OBVIOUS
<1> USE ConstantsOfController
<1>1. /\ phase' = "prepare" /\ seed' = 0 /\ run' = run + 1 /\ run < MaxRuns
      /\ attempts' = [r \in Routes |-> {}]
      /\ UNCHANGED <<dirs, out, failures>>
  BY DEF Upgrade
<1>2. Turn' = "prepare"
  BY <1>1 DEF Turn
<1>3. \A r \in Routes : attempts'[r] = {} /\ OnePerSeed(attempts'[r])
  BY <1>1 DEF OnePerSeed
<1>4. ControllerTypes'
  <2>1. run' \in 1 .. MaxRuns /\ run \in Nat /\ run <= run'
    BY <1>1 DEF ControllerInv, ControllerTypes
  <2>2. dirs' \in [Routes \X Seeds -> Files] /\ \A i \in Routes \X Seeds : dirs'[i].run <= run'
    <3>1. \A i \in Routes \X Seeds : dirs[i].run <= run /\ dirs[i].run \in Int
      BY DEF ControllerInv, ControllerTypes, Files
    <3> QED
      BY <1>1, <2>1, <3>1 DEF ControllerInv, ControllerTypes
  <2>3. out' \in [Routes -> Files] /\ \A r \in Routes : out'[r].run <= run'
    <3>1. \A r \in Routes : out[r].run <= run /\ out[r].run \in Int
      BY DEF ControllerInv, ControllerTypes, Files
    <3> QED
      BY <1>1, <2>1, <3>1 DEF ControllerInv, ControllerTypes
  <2>4. attempts' = [r \in Routes |-> attempts'[r]]
    BY <1>1
  <2>5. failures' \in 0 .. MaxFailures
    BY <1>1 DEF ControllerInv, ControllerTypes
  <2> QED
    BY <1>1, <1>3, <2>1, <2>2, <2>3, <2>4, <2>5 DEF ControllerTypes, ControllerSteps
<1>5. Turns'
  BY <1>2, <1>3 DEF Turns
<1>6. FromTheirFiles'
  BY <1>3 DEF FromTheirFiles
<1>7. Justified' /\ OfOneSeed' /\ Settled'
  BY <1>1, <1>2, <1>3 DEF Justified, OfOneSeed, Settled, Ended
<1> QED
  BY <1>4, <1>5, <1>6, <1>7 DEF ControllerInv

\* Every route has a selection of its own.
LEMMA SelectingIs ==
    ASSUME NEW r \in Routes
    PROVE  \/ r = "target" /\ Selecting[r] = "select_target"
           \/ r = "direct" /\ Selecting[r] = "select_direct"
<1>1. r = "target" \/ r = "direct"
  BY DEF Routes
<1>2. Selecting["target"] = "select_target" /\ Selecting["direct"] = "select_direct"
  BY DEF Selecting
<1> QED
  BY <1>1, <1>2

\* A seed's pipeline returned, well or not.
LEMMA ReturnedKeeps ==
    ASSUME ControllerInv, NEW route \in Routes, NEW d \in Files, Returned(route, d),
           d.status \in SummaryStatuses, d.run = run,
           d.status # "ERROR" => Whole(d, run, route, seed),
           UNCHANGED <<run, out, halted>>, failures' \in 0 .. MaxFailures
    PROVE  ControllerInv'
<1> USE ConstantsOfController
<1> DEFINE a == [seed |-> seed, status |-> d.status, ranking |-> d.ranking]
           at == <<route, seed>>
<1>1. /\ phase = route
      /\ dirs' = [dirs EXCEPT ![at] = d]
      /\ attempts' = [attempts EXCEPT ![route] = @ \cup {a}]
      /\ \/ LastSeed(route) /\ phase' = Selecting[route] /\ seed' = seed
         \/ ~LastSeed(route) /\ phase' = phase /\ seed' = seed + 1
  BY DEF Returned
<1>2. at \in Routes \X Seeds /\ seed \in Seeds
  BY DEF ControllerInv, ControllerTypes
<1>3. a \in Attempts /\ a.seed = seed /\ a.status = d.status
  BY <1>2 DEF Attempts, Files
<1> HIDE DEF a
<1>4. Turn = route /\ \A x \in attempts[route] : x.seed < seed
  BY <1>1 DEF Turn, ControllerInv, Turns, Routes
<1>5. /\ dirs' \in [Routes \X Seeds -> Files] /\ dirs'[at] = d
      /\ \A i \in Routes \X Seeds : i # at => dirs'[i] = dirs[i]
  BY <1>1, <1>2 DEF ControllerInv, ControllerTypes
<1>6. /\ attempts' = [r \in Routes |-> attempts'[r]]
      /\ attempts'[route] = attempts[route] \cup {a}
      /\ \A r \in Routes : r # route => attempts'[r] = attempts[r]
  <2>1. attempts = [r \in Routes |-> attempts[r]]
    BY DEF ControllerInv, ControllerTypes
  <2> QED
    BY <1>1, <2>1
<1>7. \A r \in Routes : \A x \in attempts[r] : <<r, x.seed>> \in Routes \X Seeds /\ <<r, x.seed>> # at
                          /\ x.seed \in Nat
  <2> TAKE r \in Routes
  <2> TAKE x \in attempts[r]
  <2>1. x.seed \in Seeds /\ x.seed \in Nat
    BY DEF ControllerInv, ControllerTypes, OnePerSeed, Attempts
  <2>2. r = route => x.seed < seed
    BY <1>4
  <2> QED
    BY <1>2, <2>1, <2>2
<1>8. /\ Turn' = phase'
      /\ \/ phase' = route /\ seed' = seed + 1 /\ ~LastSeed(route)
         \/ route = "target" /\ phase' = "select_target" /\ seed' = seed
         \/ route = "direct" /\ phase' = "select_direct" /\ seed' = seed
  <2>1. phase' = route \/ phase' = Selecting[route]
    BY <1>1
  <2>2. phase' # "paused"
    BY <2>1, SelectingIs
  <2> QED
    BY <1>1, <2>2, SelectingIs DEF Turn
<1>9. ControllerTypes'
  <2>1. \A r \in Routes : OnePerSeed(attempts'[r])
    <3> TAKE r \in Routes
    <3>1. OnePerSeed(attempts[r])
      BY DEF ControllerInv, ControllerTypes
    <3>2. CASE r # route
      BY <1>6, <3>1, <3>2
    <3>3. CASE r = route
      <4>1. \A x \in attempts[r] : x.seed # a.seed
        BY <1>2, <1>3, <1>4, <1>7, <3>3
      <4> QED
        BY <1>3, <1>6, <3>1, <3>3, <4>1 DEF OnePerSeed
    <3> QED
      BY <3>2, <3>3
  <2>2. \A i \in Routes \X Seeds : dirs'[i].run <= run
    <3>1. \A i \in Routes \X Seeds : dirs[i].run <= run
      BY DEF ControllerInv, ControllerTypes
    <3>2. run \in Nat
      BY DEF ControllerInv, ControllerTypes
    <3> QED
      BY <1>5, <3>1, <3>2
  <2>3. seed' \in Seeds
    <3>1. seed \in 0 .. NumSeeds - 1 /\ NumSeeds \in Nat
      BY <1>2 DEF Seeds
    <3>2. seed # NumSeeds - 1 => seed + 1 \in 0 .. NumSeeds - 1
      BY <3>1
    <3> QED
      BY <1>2, <1>8, <3>2 DEF Seeds, LastSeed
  <2>4. run \in 1 .. MaxRuns /\ out \in [Routes -> Files] /\ \A r \in Routes : out[r].run <= run
    BY DEF ControllerInv, ControllerTypes
  <2>5. phase' \in ControllerSteps /\ phase' # "paused"
    BY <1>8 DEF ControllerSteps, Routes
  <2> QED
    BY <1>5, <1>6, <2>1, <2>2, <2>3, <2>4, <2>5 DEF ControllerTypes
<1>10. Turns'
  <2>1. ASSUME NEW r \in Routes, Turn' = r
        PROVE  \A x \in attempts'[r] : x.seed < seed'
    <3>1. r = route /\ seed' = seed + 1
      BY <1>8, <2>1 DEF Routes
    <3>2. seed \in Nat
      BY <1>2
    <3>3. ASSUME NEW x \in attempts[route]
          PROVE  x.seed < seed'
      <4>1. x.seed \in Nat /\ x.seed < seed
        BY <1>4, <1>7
      <4> QED
        BY <3>1, <3>2, <4>1
    <3>4. a.seed < seed'
      BY <1>3, <3>1, <3>2
    <3> QED
      BY <1>6, <3>1, <3>3, <3>4
  <2>2. Turn' = "target" \/ Turn' = "prepare" => attempts'["direct"] = {}
    BY <1>4, <1>6, <1>8 DEF ControllerInv, Turns, Routes
  <2>3. Turn' \in {"direct", "select_direct", "select_target"} => attempts'["target"] # {}
    BY <1>4, <1>6, <1>8 DEF ControllerInv, Turns, Routes
  <2>4. Turn' = "select_direct" => attempts'["direct"] # {}
    BY <1>6, <1>8 DEF Routes
  <2>5. Turn' # "prepare"
    BY <1>8 DEF Routes
  <2> QED
    BY <2>1, <2>2, <2>3, <2>4, <2>5 DEF Turns
<1>11. FromTheirFiles'
  <2> SUFFICES ASSUME NEW r \in Routes, NEW x \in attempts'[r]
               PROVE  /\ dirs'[<<r, x.seed>>].status = x.status /\ dirs'[<<r, x.seed>>].run = run
                      /\ x.status # "ERROR" => Whole(dirs'[<<r, x.seed>>], run, r, x.seed)
    BY DEF FromTheirFiles
  <2>1. CASE x \in attempts[r]
    BY <1>5, <1>7, <2>1 DEF ControllerInv, FromTheirFiles
  <2>2. CASE x \notin attempts[r]
    BY <1>3, <1>5, <1>6, <2>2
  <2> QED
    BY <2>1, <2>2
<1>12. Justified'
  <2>1. CASE route = "target"
    <3>1. attempts'["direct"] = {} /\ Turn' # "direct"
      BY <1>4, <1>6, <1>8, <2>1 DEF ControllerInv, Turns, Routes
    <3> QED
      BY <3>1 DEF Justified
  <2>2. CASE route = "direct"
    <3>1. ~AcceptedAttempt("target") /\ attempts'["target"] = attempts["target"]
      BY <1>4, <1>6, <2>2 DEF ControllerInv, Justified
    <3>2. \A x \in attempts["target"] : dirs'[<<"target", x.seed>>] = dirs[<<"target", x.seed>>]
      BY <1>5, <1>7, <2>2
    <3>3. ~AcceptedAttempt("target")'
      BY <3>1, <3>2 DEF AcceptedAttempt
    <3> QED
      BY <3>3 DEF Justified
  <2> QED
    BY <2>1, <2>2 DEF Routes
<1>13. OfOneSeed'
  <2>1. Turn' = "select_target" => attempts'["direct"] = {}
    BY <1>4, <1>6, <1>8 DEF ControllerInv, Turns, Routes
  <2>2. Turn' # "done"
    BY <1>8 DEF Routes
  <2> QED
    BY <2>1, <2>2 DEF OfOneSeed
<1>14. Settled'
  <2>1. phase' # "done"
    BY <1>8 DEF Routes
  <2> QED
    BY <2>1 DEF Settled, Ended
<1> QED
  BY <1>9, <1>10, <1>11, <1>12, <1>13, <1>14 DEF ControllerInv

LEMMA SeedEndsKeeps ==
    ASSUME ControllerInv, NEW route \in Routes, SeedEnds(route)
    PROVE  ControllerInv'
<1> USE ConstantsOfController
<1>1. PICK r \in Results[route] :
         Returned(route, [status |-> r.status, run |-> run, ranking |-> r.ranking,
                          test |-> Test(route)])
  BY DEF SeedEnds
<1> DEFINE d == [status |-> r.status, run |-> run, ranking |-> r.ranking, test |-> Test(route)]
<1>2. r.status \in SummaryStatuses /\ r.ranking \in Rankings
  BY ResultIs
<1>3. run \in 1 .. MaxRuns /\ run \in 0 .. MaxRuns /\ seed \in Seeds /\ failures \in 0 .. MaxFailures
  BY DEF ControllerInv, ControllerTypes
<1>4. Test(route) \in Tests
  BY <1>3 DEF Test, Tests
<1>5. d \in Files /\ d.status = r.status /\ d.run = run
  BY <1>2, <1>3, <1>4 DEF Files
<1>6. Whole(d, run, route, seed)
  BY <1>2 DEF Whole, Test
<1>7. UNCHANGED <<run, out, halted>> /\ failures' \in 0 .. MaxFailures
  BY <1>3 DEF SeedEnds
<1>8. Returned(route, d)
  BY <1>1
<1> HIDE DEF d
<1> QED
  BY <1>2, <1>5, <1>6, <1>7, <1>8, ReturnedKeeps

LEMMA SeedFailsKeeps ==
    ASSUME ControllerInv, NEW route \in Routes, SeedFails(route)
    PROVE  ControllerInv'
<1> USE ConstantsOfController
<1> DEFINE old == dirs[<<route, seed>>]
<1>2. run \in 1 .. MaxRuns /\ seed \in Seeds /\ old \in Files
  BY DEF ControllerInv, ControllerTypes
<1>3. Test(route) \in Tests
  BY <1>2 DEF Test, Tests
<1>4. ASSUME NEW r \in Results[route], NEW f \in {old.test, Test(route)}
      PROVE  [old EXCEPT !.ranking = r.ranking, !.test = f] \in Files
  <2>1. r.ranking \in Rankings
    BY ResultIs
  <2>2. f \in Tests \cup {None}
    BY <1>2, <1>3 DEF Files
  <2> HIDE DEF old
  <2> QED
    BY <1>2, <2>1, <2>2 DEF Files
<1>5. PICK d \in Files : Returned(route, Stated(d, "ERROR"))
  <2>1. \/ Returned(route, Stated(old, "ERROR"))
        \/ \E r \in Results[route] : \E f \in {old.test, Test(route)} :
              Returned(route, Stated([old EXCEPT !.ranking = r.ranking, !.test = f], "ERROR"))
    BY DEF SeedFails
  <2> HIDE DEF old
  <2> QED
    BY <1>2, <1>4, <2>1
<1>6. "ERROR" \in SummaryStatuses
  BY DEF SummaryStatuses
<1>7. /\ Stated(d, "ERROR") \in Files
      /\ Stated(d, "ERROR").status = "ERROR" /\ Stated(d, "ERROR").run = run
  BY <1>5, <1>6, StatedIs
<1>8. UNCHANGED <<run, out, halted>> /\ failures' \in 0 .. MaxFailures
  <2>1. failures \in 0 .. MaxFailures
    BY DEF ControllerInv, ControllerTypes
  <2>2. Failure /\ UNCHANGED <<run, out, halted>>
    BY DEF SeedFails
  <2> QED
    BY <2>1, <2>2 DEF Failure
<1> QED
  BY <1>5, <1>6, <1>7, <1>8, ReturnedKeeps

\* The direct route exports, regularly or not.
LEMMA DirectExported ==
    ASSUME ControllerInv, phase = "select_direct", phase' = "select_target",
           NEW f \in Files, f.run = run, out' = [out EXCEPT !["direct"] = f],
           \/ f.status = "ERROR"
           \/ \E s \in Seeds : f = dirs[<<"direct", s>>] /\ Whole(f, run, "direct", s),
           UNCHANGED <<run, seed, dirs, attempts, halted>>, failures' \in 0 .. MaxFailures
    PROVE  ControllerInv'
<1> USE ConstantsOfController
<1>1. Turn = "select_direct" /\ Turn' = "select_target"
  BY DEF Turn
<1>2. out \in [Routes -> Files] /\ run \in 1 .. MaxRuns /\ \A r \in Routes : out[r].run <= run
  BY DEF ControllerInv, ControllerTypes
<1>3. out' \in [Routes -> Files] /\ out'["direct"] = f /\ out'["target"] = out["target"]
  BY <1>2
<1>4. \A r \in Routes : out'[r].run <= run
  <2>1. f.run <= run
    <3>1. run \in Int
      BY <1>2
    <3> QED
      BY <3>1
  <2> QED
    BY <1>2, <1>3, <2>1
<1>5. ControllerTypes'
  BY <1>3, <1>4 DEF ControllerInv, ControllerTypes, ControllerSteps
<1>6. Turns'
  BY <1>1 DEF ControllerInv, Turns, Routes
<1>7. FromTheirFiles'
  BY DEF ControllerInv, FromTheirFiles
<1>8. AcceptedAttempt("target")' <=> AcceptedAttempt("target")
  BY DEF AcceptedAttempt
<1>9. Justified'
  BY <1>1, <1>8 DEF ControllerInv, Justified
<1>10. OfOneSeed'
  BY <1>3 DEF OfOneSeed
<1>11. Settled'
  BY DEF Settled, Ended
<1> QED
  BY <1>5, <1>6, <1>7, <1>9, <1>10, <1>11 DEF ControllerInv

LEMMA SelectDirectKeeps == ControllerInv /\ SelectDirect => ControllerInv'
<1> SUFFICES ASSUME ControllerInv, SelectDirect
             PROVE  ControllerInv'
  OBVIOUS
<1> USE ConstantsOfController
<1> DEFINE s == Chosen(attempts["direct"]).seed
           d == dirs[<<"direct", s>>]
           f == Copied(d, out["direct"])
<1>1. /\ phase = "select_direct" /\ phase' = "select_target"
      /\ out' = [out EXCEPT !["direct"] = f]
      /\ UNCHANGED <<run, seed, dirs, attempts, halted, failures>>
  BY DEF SelectDirect
<1>2. attempts["direct"] # {}
  BY <1>1 DEF ControllerInv, Turns, Turn
<1>3. s \in Seeds /\ d \in Files /\ (d.status = "ERROR" \/ Whole(d, run, "direct", s))
  BY <1>2, ChosenFiles
<1>4. out["direct"] \in Files /\ run \in 1 .. MaxRuns /\ failures \in 0 .. MaxFailures
  BY DEF ControllerInv, ControllerTypes
<1>5. d.run = run
  BY <1>2, ChosenFiles
<1> HIDE DEF s, d
<1>6. f \in Files /\ f.status = d.status /\ f.run = run
      /\ (Whole(d, run, "direct", s) => f = d)
  BY <1>3, <1>4, <1>5, CopiedIs
<1> HIDE DEF f
<1>7. \/ f.status = "ERROR"
      \/ f = dirs[<<"direct", s>>] /\ Whole(f, run, "direct", s)
  BY <1>3, <1>6 DEF d
<1> QED
  BY <1>1, <1>3, <1>4, <1>6, <1>7, DirectExported

\* The controller exports, regularly or not.
LEMMA TargetExported ==
    ASSUME ControllerInv, phase = "select_target", phase' = "done",
           NEW f \in Files, f.run = run, out' = [out EXCEPT !["target"] = f],
           \/ f.status = "ERROR"
           \/ \E r \in Routes, s \in Seeds :
                 /\ f = dirs[<<r, s>>] /\ Whole(f, run, r, s)
                 /\ attempts["direct"] # {} /\ out["direct"].status = "ISSUE_ALIGNED_FAIL"
                       => r = "direct",
           UNCHANGED <<run, seed, dirs, attempts, halted>>, failures' \in 0 .. MaxFailures
    PROVE  ControllerInv'
<1> USE ConstantsOfController
<1>1. Turn = "select_target" /\ Turn' = "done"
  BY DEF Turn
<1>2. out \in [Routes -> Files] /\ run \in 1 .. MaxRuns /\ \A r \in Routes : out[r].run <= run
  BY DEF ControllerInv, ControllerTypes
<1>3. out' \in [Routes -> Files] /\ out'["target"] = f /\ out'["direct"] = out["direct"]
  BY <1>2
<1>4. \A r \in Routes : out'[r].run <= run
  <2>1. f.run <= run
    <3>1. run \in Int
      BY <1>2
    <3> QED
      BY <3>1
  <2> QED
    BY <1>2, <1>3, <2>1
<1>5. ControllerTypes'
  BY <1>3, <1>4 DEF ControllerInv, ControllerTypes, ControllerSteps
<1>6. Turns'
  BY <1>1 DEF ControllerInv, Turns, Routes
<1>7. FromTheirFiles'
  BY DEF ControllerInv, FromTheirFiles
<1>8. AcceptedAttempt("target")' <=> AcceptedAttempt("target")
  BY DEF AcceptedAttempt
<1>9. Justified'
  BY <1>1, <1>8 DEF ControllerInv, Justified
<1>10. OfOneSeed'
  BY <1>1, <1>3 DEF ControllerInv, OfOneSeed
<1>11. Settled'
  BY <1>3 DEF Settled, Ended, Exported
<1> QED
  BY <1>5, <1>6, <1>7, <1>9, <1>10, <1>11 DEF ControllerInv

LEMMA SelectKeeps == ControllerInv /\ Select => ControllerInv'
<1> SUFFICES ASSUME ControllerInv, Select
             PROVE  ControllerInv'
  OBVIOUS
<1> USE ConstantsOfController
<1> DEFINE s == Chosen(attempts["target"]).seed
           d == dirs[<<"target", s>>]
           f == Copied(IF FallbackUsed THEN out["direct"] ELSE d, out["target"])
           Good(x) == \E r \in Routes, n \in Seeds :
                         /\ x = dirs[<<r, n>>] /\ Whole(x, run, r, n)
                         /\ attempts["direct"] # {} /\ out["direct"].status = "ISSUE_ALIGNED_FAIL"
                               => r = "direct"
<1>1. /\ phase = "select_target" /\ phase' = "done"
      /\ out' = [out EXCEPT !["target"] = f]
      /\ UNCHANGED <<run, seed, dirs, attempts, halted, failures>>
  BY DEF Select
<1>2. Turn = "select_target" /\ attempts["target"] # {}
  BY <1>1 DEF ControllerInv, Turns, Turn
<1>3. s \in Seeds /\ d \in Files /\ (d.status = "ERROR" \/ Whole(d, run, "target", s))
  BY <1>2, ChosenFiles
<1>4. out["direct"] \in Files /\ out["target"] \in Files /\ run \in 1 .. MaxRuns
      /\ failures \in 0 .. MaxFailures
  BY DEF ControllerInv, ControllerTypes
<1>5. d.run = run
  BY <1>2, ChosenFiles
<1>6. ASSUME attempts["direct"] # {}, out["direct"].status = "ISSUE_ALIGNED_FAIL"
      PROVE  /\ FallbackUsed
             /\ \E n \in Seeds : /\ out["direct"] = dirs[<<"direct", n>>]
                                 /\ Whole(out["direct"], run, "direct", n)
  <2>1. PICK n \in Seeds : out["direct"] = dirs[<<"direct", n>>]
                           /\ Whole(out["direct"], run, "direct", n)
    BY <1>2, <1>6 DEF ControllerInv, OfOneSeed
  <2>2. [run |-> run, route |-> "direct", seed |-> n] \in Tests
    BY <1>4 DEF Tests
  <2>3. out["direct"].test # None /\ out["direct"].run = run
    BY <2>1, <2>2, NothingAssumption DEF Whole, Tests
  <2> QED
    BY <1>6, <2>1, <2>3 DEF FallbackUsed
<1> HIDE DEF s, d
<1>7. CASE FallbackUsed
  <2>1. attempts["direct"] # {} /\ out["direct"].status = "ISSUE_ALIGNED_FAIL"
    BY <1>7 DEF FallbackUsed
  <2>2. PICK n \in Seeds : out["direct"] = dirs[<<"direct", n>>]
                           /\ Whole(out["direct"], run, "direct", n)
    BY <1>6, <2>1
  <2>3. f \in Files /\ f = out["direct"]
    BY <1>4, <1>7, <2>2, CopiedIs
  <2>4. f.run = run
    BY <2>2, <2>3 DEF Whole
  <2> HIDE DEF f
  <2>5. Good(f)
    BY <2>2, <2>3
  <2> QED
    BY <1>1, <1>4, <2>3, <2>4, <2>5, TargetExported
<1>8. CASE ~FallbackUsed
  <2>1. f \in Files /\ f.status = d.status /\ f.run = run
        /\ (Whole(d, run, "target", s) => f = d)
    BY <1>3, <1>4, <1>5, <1>8, CopiedIs
  <2> HIDE DEF f
  <2>2. f.status = "ERROR" \/ Good(f)
    BY <1>3, <1>6, <1>8, <2>1 DEF d
  <2> QED
    BY <1>1, <1>4, <2>1, <2>2, TargetExported
<1> QED
  BY <1>7, <1>8

LEMMA SelectFailsKeeps ==
    ASSUME ControllerInv, NEW route \in Routes, SelectFails(route)
    PROVE  ControllerInv'
<1> USE ConstantsOfController
<1> DEFINE d == dirs[<<route, Chosen(attempts[route]).seed>>]
<1>1. PICK x \in {out[route], Copied(d, out[route])} :
         out' = [out EXCEPT ![route] = Stated(x, "ERROR")]
  BY DEF SelectFails
<1>2. /\ phase = Selecting[route] /\ UNCHANGED <<run, seed, dirs, attempts, halted>>
      /\ phase' = IF route = "direct" THEN "select_target" ELSE "done"
      /\ failures' \in 0 .. MaxFailures
  <2>1. failures \in 0 .. MaxFailures
    BY DEF ControllerInv, ControllerTypes
  <2>2. Failure
    BY DEF SelectFails
  <2>3. failures' \in 0 .. MaxFailures
    BY <2>1, <2>2 DEF Failure
  <2> QED
    BY <2>3 DEF SelectFails
<1>3. attempts[route] # {}
  <2>1. Turn = Selecting[route]
    BY <1>2, SelectingIs DEF Turn
  <2> QED
    BY <2>1, SelectingIs DEF ControllerInv, Turns
<1>4. d \in Files /\ out[route] \in Files
  BY <1>3, ChosenFiles DEF ControllerInv, ControllerTypes
<1> HIDE DEF d
<1>5. x \in Files
  BY <1>4, CopiedIs
<1>6. "ERROR" \in SummaryStatuses
  BY DEF SummaryStatuses
<1> DEFINE f == Stated(x, "ERROR")
<1>7. f \in Files /\ f.status = "ERROR" /\ f.run = run
  BY <1>5, <1>6, StatedIs
<1>8. out' = [out EXCEPT ![route] = f]
  BY <1>1
<1> HIDE DEF f
<1>9. CASE route = "direct"
  BY <1>2, <1>7, <1>8, <1>9, SelectingIs, DirectExported
<1>10. CASE route = "target"
  BY <1>2, <1>7, <1>8, <1>10, SelectingIs, TargetExported
<1> QED
  BY <1>9, <1>10 DEF Routes

LEMMA ControllerInvStays == ControllerInv /\ [ControllerNext]_controllerVars => ControllerInv'
<1> SUFFICES ASSUME ControllerInv, [ControllerNext]_controllerVars
             PROVE  ControllerInv'
  OBVIOUS
<1>1. CASE Prepare
  BY <1>1, PrepareKeeps
<1>2. CASE Fallback
  BY <1>2, FallbackKeeps
<1>3. CASE SelectDirect
  BY <1>3, SelectDirectKeeps
<1>4. CASE Select
  BY <1>4, SelectKeeps
<1>5. ASSUME NEW route \in Routes, SeedEnds(route)
      PROVE  ControllerInv'
  BY <1>5, SeedEndsKeeps
<1>6. CASE PrepareFails
  BY <1>6, PrepareFailsKeeps
<1>7. CASE PauseRun
  BY <1>7, PauseRunKeeps
<1>8. CASE ResumeRun
  BY <1>8, ResumeRunKeeps
<1>9. CASE Upgrade
  BY <1>9, UpgradeKeeps
<1>10. ASSUME NEW route \in Routes, SeedFails(route)
       PROVE  ControllerInv'
  BY <1>10, SeedFailsKeeps
<1>11. ASSUME NEW route \in Routes, SelectFails(route)
       PROVE  ControllerInv'
  BY <1>11, SelectFailsKeeps
<1>12. CASE UNCHANGED controllerVars
  <2>1. UNCHANGED <<phase, run, seed, dirs, attempts, out, halted, failures>>
    BY <1>12 DEF controllerVars
  <2>2. Turn' = Turn
    BY <2>1 DEF Turn
  <2>3. ControllerTypes'
    BY <2>1 DEF ControllerInv, ControllerTypes
  <2>4. Turns'
    BY <2>1, <2>2 DEF ControllerInv, Turns
  <2>5. Turn = "direct" => ~AcceptedAttempt("target")
    BY DEF ControllerInv, Justified
  <2> QED
    BY <2>1, <2>2, <2>3, <2>4, <2>5, TurnPasses
<1> QED
  BY <1>1, <1>2, <1>3, <1>4, <1>5, <1>6, <1>7, <1>8, <1>9, <1>10, <1>11, <1>12
     DEF ControllerNext, Controller

LEMMA ControllerInvAlways == ControllerSpec => []ControllerInv
  BY ControllerInvAtFirst, ControllerInvStays, PTL DEF ControllerSpec

\* The controller's variables have the values they are meant to have, and no
\* route has two attempts of one seed.
THEOREM ControllerTypeCorrect == ControllerSpec => []ControllerTypeOK
<1>1. ControllerInv => ControllerTypeOK
  <2> SUFFICES ASSUME ControllerInv
               PROVE  ControllerTypeOK
    OBVIOUS
  <2>1. /\ phase \in ControllerSteps \cup {"paused", "done"}
        /\ run \in 1 .. MaxRuns /\ seed \in Seeds /\ failures \in 0 .. MaxFailures
    BY DEF ControllerInv, ControllerTypes
  <2>2. \A r \in Routes : \A a, b \in attempts[r] : a.seed = b.seed => a = b
    BY DEF ControllerInv, ControllerTypes, OnePerSeed
  <2>3. ASSUME NEW d \in {dirs[i] : i \in Routes \X Seeds} \cup {out[r] : r \in Routes}
        PROVE  d.status \in SummaryStatuses \cup {None, "PAUSED_API"} /\ d.run <= run
    <3>1. d \in Files /\ d.run <= run
      BY DEF ControllerInv, ControllerTypes
    <3> QED
      BY <3>1 DEF Files
  <2> QED
    BY <2>1, <2>2, <2>3 DEF ControllerTypeOK
<1> QED
  BY <1>1, ControllerInvAlways, PTL

\* What an instance reports without an error is the status, the ranking and the
\* test of one seed whose pipeline ran in this run, although every directory may
\* hold files of an earlier revision (run_instance_pipeline, _copy_if_exists).
THEOREM ExportsAreOfThisRun == ControllerSpec => []ExportOfThisRun
<1>1. ControllerInv => ExportOfThisRun
  <2> SUFFICES ASSUME ControllerInv, Ended
               PROVE  /\ Exported.run = run /\ Exported.test.run = run
                      /\ Exported = dirs[<<Exported.test.route, Exported.test.seed>>]
    BY DEF ExportOfThisRun
  <2>1. PICK r \in Routes, s \in Seeds :
           Exported = dirs[<<r, s>>] /\ Whole(Exported, run, r, s)
    BY DEF ControllerInv, Settled
  <2>2. Exported.run = run /\ Exported.test = [run |-> run, route |-> r, seed |-> s]
    BY <2>1 DEF Whole
  <2> HIDE DEF Exported
  <2>3. Exported.test.run = run /\ Exported.test.route = r /\ Exported.test.seed = s
    BY <2>2
  <2> QED
    BY <2>1, <2>2, <2>3
<1> QED
  BY <1>1, ControllerInvAlways, PTL

\* The direct route runs only when no target-guided seed was accepted, and a test
\* it accepted is then the one exported (_should_run_direct_fallback).
THEOREM FallbackIsTheLastResort == ControllerSpec => []FallbackExhaustive
<1>1. ControllerInv => FallbackExhaustive
  <2> SUFFICES ASSUME ControllerInv
               PROVE  FallbackExhaustive
    OBVIOUS
  <2>1. attempts["direct"] # {} => ~AcceptedAttempt("target")
    BY DEF ControllerInv, Justified
  <2>2. ASSUME Ended, attempts["direct"] # {}, out["direct"].status = "ISSUE_ALIGNED_FAIL"
        PROVE  Exported.test.route = "direct"
    <3>1. PICK s \in Seeds : Whole(Exported, run, "direct", s)
      BY <2>2 DEF ControllerInv, Settled
    <3>2. Exported.test = [run |-> run, route |-> "direct", seed |-> s]
      BY <3>1 DEF Whole
    <3> QED
      BY <3>2
  <2> QED
    BY <2>1, <2>2 DEF FallbackExhaustive
<1> QED
  BY <1>1, ControllerInvAlways, PTL
=============================================================================

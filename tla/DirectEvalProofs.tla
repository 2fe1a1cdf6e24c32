------------------------- MODULE DirectEvalProofs -------------------------
(***************************************************************************)
(* Proofs about DirectEval, for any instances, repositories, environments,  *)
(* golden patches, workers, calls, happenings and bounds:                   *)
(*   - EvalTypeCorrect: the type invariant;                                 *)
(*   - ResultsSurvive: resuming loses no result;                            *)
(*   - VerdictsAreSound: every verdict is of two runs that saw what they    *)
(*     should;                                                              *)
(*   - ValidIsHealthy: valid metrics are of an invocation whose environment *)
(*     errors stayed below the threshold;                                   *)
(*   - FreshIsItsOwn: an invocation that did not resume reports itself.     *)
(***************************************************************************)
EXTENDS DirectEval, FiniteSetTheorems, WellFoundedInduction, TLAPS

-----------------------------------------------------------------------------
\* One evaluation.

\* The order of the natural numbers as a relation.
Before == OpToRel(<, Nat)

\* A set of natural numbers has a least one.
LEMMA LeastOfNat ==
    ASSUME NEW K \in SUBSET Nat, K # {}
    PROVE  \E k \in K : \A j \in K : k <= j
<1>1. IsWellFoundedOn(Before, Nat)
  BY NatLessThanWellFounded DEF Before
<1>2. PICK k \in K : \A j \in K : <<j, k>> \notin Before
  BY <1>1, WFMin
<1>3. Before = {ss \in Nat \X Nat : ss[1] < ss[2]}
  BY Zenon DEF Before, OpToRel
<1>4. ASSUME NEW j \in K
      PROVE  k <= j
  <2>1. k \in Nat /\ j \in Nat
    OBVIOUS
  <2>2. <<j, k>> \in Nat \X Nat /\ <<j, k>>[1] = j /\ <<j, k>>[2] = k
    BY <2>1
  <2>3. ~ (j < k)
    BY <1>2, <1>3, <2>2, Zenon
  <2> QED
    BY <2>1, <2>3
<1> QED
  BY <1>4

\* An evaluation's status is that of the first of its rules that holds.
LEMMA StatusIs ==
    ASSUME NEW c, NEW p, NEW h, NEW t
    PROVE  \E k \in 1 .. 13 :
              /\ Status(c, p, h, t) = StatusRules(c, p, h, t)[k][2]
              /\ StatusRules(c, p, h, t)[k][1]
              /\ \A j \in 1 .. k - 1 : ~StatusRules(c, p, h, t)[j][1]
<1> DEFINE rules == StatusRules(c, p, h, t)
           K == {k \in 1 .. 13 : rules[k][1]}
           first == CHOOSE i \in DOMAIN rules :
                       rules[i][1] /\ \A j \in 1 .. i - 1 : ~rules[j][1]
<1>1. DOMAIN rules = 1 .. 13 /\ rules[13][1]
  BY DEF StatusRules
<1>2. Status(c, p, h, t) = rules[first][2]
  BY DEF Status
<1> HIDE DEF rules
<1>3. PICK k \in K : \A j \in K : k <= j
  <2>1. K \in SUBSET Nat /\ K # {}
    BY <1>1
  <2> HIDE DEF K
  <2> QED
    BY <2>1, LeastOfNat
<1>4. \A j \in 1 .. k - 1 : ~rules[j][1]
  BY <1>3
<1>5. /\ first \in DOMAIN rules /\ rules[first][1]
      /\ \A j \in 1 .. first - 1 : ~rules[j][1]
  BY <1>1, <1>3, <1>4
<1> HIDE DEF first
<1> QED
  BY <1>1, <1>2, <1>5 DEF rules

\* A verdict is reached only when the golden patch applied.
LEMMA VerdictMeansPatched ==
    ASSUME NEW c, NEW p, NEW h, NEW t
    PROVE  /\ Status(c, p, h, t) \in Statuses
           /\ Status(c, p, h, t) \in Verdict => IsPatched(c, p, h, t)
<1> DEFINE rules == StatusRules(c, p, h, t)
<1>1. PICK k \in 1 .. 13 : /\ Status(c, p, h, t) = rules[k][2]
                           /\ \A j \in 1 .. k - 1 : ~rules[j][1]
  BY StatusIs
<1>2. \A j \in 1 .. 13 : rules[j][2] \in Statuses /\ (j < 11 => rules[j][2] \notin Verdict)
  <2>1. /\ rules[1][2] = "MISSING_GENERATION" /\ rules[2][2] = "ENV_INCOMPLETE"
        /\ rules[3][2] = "BUGGY_SETUP_ERROR" /\ rules[4][2] = "TDD_COVERAGE_TOOL_ERROR"
        /\ rules[5][2] = "TDD_OPTIONAL_RUNTIME_ERROR"
        /\ rules[6][2] = "BUGGY_RUNTIME_ENV_ERROR" /\ rules[7][2] = "PATCH_APPLY_ERROR"
        /\ rules[8][2] = "FIXED_SETUP_ERROR" /\ rules[9][2] = "PATCH_REAPPLY_ERROR"
        /\ rules[10][2] = "FIXED_RUNTIME_ENV_ERROR" /\ rules[11][2] = "BUGGY_PASS"
        /\ rules[12][2] = "FIXED_FAIL" /\ rules[13][2] = "F2P_SUCCESS"
    BY DEF StatusRules
  <2> HIDE DEF rules
  <2>2. \A j \in 1 .. 13 : j \in {1, 2, 3, 4, 5, 6, 7, 8, 9, 10} \/ j \in {11, 12, 13}
    OBVIOUS
  <2>3. \A j \in {1, 2, 3, 4, 5, 6, 7, 8, 9, 10} :
           rules[j][2] \in Statuses /\ rules[j][2] \notin Verdict
    BY <2>1 DEF Verdict, Statuses, EnvErrors
  <2>4. \A j \in {11, 12, 13} : rules[j][2] \in Statuses /\ ~(j < 11)
    BY <2>1 DEF Verdict, Statuses
  <2> QED
    BY <2>2, <2>3, <2>4
<1>3. rules[7][1] = ~IsPatched(c, p, h, t)
  BY DEF StatusRules
<1> HIDE DEF rules
<1>4. ASSUME Status(c, p, h, t) \in Verdict
      PROVE  IsPatched(c, p, h, t)
  <2>1. k \in 11 .. 13
    BY <1>1, <1>2, <1>4
  <2>2. ~rules[7][1]
    BY <1>1, <2>1
  <2> QED
    BY <1>3, <2>2
<1> QED
  BY <1>1, <1>2, <1>4

\* A checkout in which no golden file is left over is one the golden patch p may
\* have been applied to before, or one without the files it creates.
Clear(p, t) == "new" \in t => p.creates

\* Whatever an evaluation does, its checkout stays clear.
LEMMA StaysClear ==
    ASSUME NEW c, NEW p, NEW h, NEW t, Clear(p, t)
    PROVE  /\ Clear(p, Cleaned(c, t)) /\ Clear(p, Reset(t)) /\ Clear(p, Bare(t))
           /\ Clear(p, Viewed(c, t)) /\ Clear(p, GoldTree(t)) /\ Clear(p, BuggyTree(c, t))
           /\ Clear(p, Patched(p, t))
<1>1. Clear(p, Cleaned(c, t)) /\ Clear(p, Reset(t)) /\ Clear(p, Bare(t))
  BY DEF Clear, Cleaned, Reset, Bare
<1>2. Clear(p, Viewed(c, t)) /\ Clear(p, GoldTree(t))
  BY <1>1 DEF Clear, Viewed, GoldTree
<1>3. Clear(p, BuggyTree(c, t))
  BY <1>1 DEF Clear, BuggyTree
<1>4. Clear(p, Patched(p, t))
  BY DEF Clear, Patched
<1> QED
  BY <1>1, <1>2, <1>3, <1>4

\* The checkout the golden patch is applied to, before and after a rebuild, has
\* nothing of the golden tests or of an earlier patch.
LEMMA PatchTreeIs ==
    ASSUME NEW c, NEW p, NEW h, NEW t, Clear(p, t)
    PROVE  /\ "gold" \notin PatchTree(c, p, h, t)
           /\ "gold" \notin RebuiltTree(c, p, h, t)
           /\ Clear(p, PatchTree(c, p, h, t)) /\ Clear(p, RebuiltTree(c, p, h, t))
           /\ c.where # "generated" =>
                 /\ "goldnew" \notin PatchTree(c, p, h, t)
                 /\ "goldnew" \notin RebuiltTree(c, p, h, t)
<1> DEFINE first == FirstTry(c, t)
           tree0 == PatchTree(c, p, h, t)
           tree1 == RebuiltTree(c, p, h, t)
<1>1. "gold" \notin first /\ Clear(p, first)
  <2>1. "gold" \notin first
    BY DEF FirstTry, Reset, Untracked
  <2>2. Clear(p, first)
    BY StaysClear DEF FirstTry
  <2> QED
    BY <2>1, <2>2
<1>2. c.where # "generated" => "goldnew" \notin first
  BY DEF FirstTry, Reset, Viewed, Bare, BuggyTree, Cleaned
<1>3. tree0 \in {first, Cleaned(c, first)}
  BY DEF PatchTree
<1> HIDE DEF first
<1>4. /\ "gold" \notin tree0 /\ Clear(p, tree0)
      /\ c.where # "generated" => "goldnew" \notin tree0
  <2>1. CASE tree0 = first
    BY <1>1, <1>2, <2>1
  <2>2. CASE tree0 = Cleaned(c, first)
    <3>1. Clear(p, Cleaned(c, first))
      BY <1>1, StaysClear
    <3>2. "gold" \notin Cleaned(c, first)
      BY DEF Cleaned, Reset, Untracked
    <3>3. c.where # "generated" => "goldnew" \notin Cleaned(c, first)
      BY DEF Cleaned
    <3> QED
      BY <2>2, <3>1, <3>2, <3>3
  <2> QED
    BY <1>3, <2>1, <2>2
<1>5. tree1 = Reset(Patched(p, tree0) \cup {"test", "built"})
  BY DEF RebuiltTree
<1> HIDE DEF tree0
<1>6. "gold" \notin tree1 /\ Clear(p, tree1)
  <2>1. "gold" \notin tree1
    BY <1>5 DEF Reset, Untracked
  <2>2. Clear(p, tree1)
    BY <1>4, <1>5 DEF Reset, Patched, Clear
  <2> QED
    BY <2>1, <2>2
<1>7. c.where # "generated" => "goldnew" \notin tree1
  BY <1>4, <1>5 DEF Reset, Patched
<1> QED
  BY <1>4, <1>6, <1>7 DEF tree0

\* The checkout of the fixed run.
LEMMA FixedTreeIs ==
    ASSUME NEW c, NEW p, NEW h, NEW t, Clear(p, t)
    PROVE  /\ "gold" \notin FixedTree(c, p, h, t)
           /\ Clear(p, FixedTree(c, p, h, t))
           /\ Patched(p, {"test"}) \subseteq FixedTree(c, p, h, t)
           /\ c.where # "generated" => "goldnew" \notin FixedTree(c, p, h, t)
<1>1. PICK s \in {PatchTree(c, p, h, t), RebuiltTree(c, p, h, t)} :
         FixedTree(c, p, h, t) = Patched(p, s) \cup {"test"}
  BY DEF FixedTree
<1>2. /\ "gold" \notin s /\ Clear(p, s)
      /\ c.where # "generated" => "goldnew" \notin s
  BY <1>1, PatchTreeIs
<1> QED
  BY <1>1, <1>2 DEF Patched, Clear

\* An evaluation that starts in a clear checkout and applies the golden patch is
\* sound: files that an earlier one left would be in the patch's way.
LEMMA PatchedIsSound ==
    ASSUME NEW c, NEW p, NEW h, NEW t, Clear(p, t), IsPatched(c, p, h, t)
    PROVE  Sound(c, p, h, t)
<1>1. "new" \notin BuggyTree(c, t)
  <2>1. SUFFICES ASSUME "new" \in BuggyTree(c, t) PROVE FALSE
    OBVIOUS
  <2>2. p.creates
    BY <2>1, StaysClear DEF Clear
  <2>3. c.where = "generated"
    BY <2>1 DEF BuggyTree, Cleaned
  <2>4. "new" \in FirstTry(c, t)
    BY <2>1 DEF FirstTry, Viewed, Bare, Reset, Untracked
  <2>5. "new" \in PatchTree(c, p, h, t)
    BY <2>3, <2>4 DEF PatchTree, Cleaned, Reset, Untracked
  <2> QED
    BY <2>2, <2>5 DEF IsPatched, Applies
<1>2. "patch" \notin BuggyTree(c, t) /\ "gold" \notin BuggyTree(c, t)
  BY DEF BuggyTree, Cleaned, Reset, Untracked
<1>3. c.where # "generated" => "goldnew" \notin BuggyTree(c, t)
  BY DEF BuggyTree, Cleaned
<1>4. BuggyTree(c, t) \cap {"patch", "new", "gold"} = {}
  BY <1>1, <1>2
<1> QED
  BY <1>3, <1>4, FixedTreeIs DEF Sound

\* What an evaluation stores is a sound entry.
LEMMA ResultIs ==
    ASSUME NEW c, NEW p, NEW h, NEW t, Clear(p, t)
    PROVE  Result(c, p, h, t) \in Entries /\ Result(c, p, h, t).sound
<1> DEFINE status == Status(c, p, h, t)
           sound == status \in Verdict => Sound(c, p, h, t)
           patches == /\ status \notin {"PATCH_APPLY_ERROR", "PATCH_REAPPLY_ERROR"}
                      /\ status \in Verdict => ReferencesApply(c, p, h, t)
<1>1. status \in Statuses /\ sound
  BY VerdictMeansPatched, PatchedIsSound
<1>2. (status \in EnvErrors) \in BOOLEAN /\ sound \in BOOLEAN /\ patches \in BOOLEAN
  OBVIOUS
<1>3. Result(c, p, h, t) = [status |-> status, env |-> status \in EnvErrors,
                            sound |-> sound, run |-> 0, patches |-> patches]
  BY DEF Result
<1> HIDE DEF status, sound, patches
<1> QED
  BY <1>1, <1>2, <1>3 DEF Entries

LEMMA FailedIs == Failed \in Entries /\ Failed.sound
  BY DEF Failed, Entries, Statuses

\* What an evaluation leaves in its checkout, ended or not, is clear.
LEMMA LeavesClear ==
    ASSUME NEW c, NEW p, NEW h, NEW t, Clear(p, t)
    PROVE  /\ \A s : Clear(p, Left(c, p, h, t, s))
           /\ \A x \in Midway(c, p, h, t) : Clear(p, x) /\ Clear(p, Cleaned(c, x))
<1>1. /\ Clear(p, BuggyTree(c, t)) /\ Clear(p, FixedTree(c, p, h, t))
      /\ Clear(p, PatchTree(c, p, h, t)) /\ Clear(p, RebuiltTree(c, p, h, t))
  BY StaysClear, PatchTreeIs, FixedTreeIs
<1>2. \A x : Clear(p, x) => /\ Clear(p, Cleaned(c, x)) /\ Clear(p, GoldTree(x))
                           /\ Clear(p, Viewed(c, x))
  BY StaysClear
<1>3. ASSUME NEW s
      PROVE  Clear(p, Left(c, p, h, t, s))
  <2>1. Left(c, p, h, t, s) \in
           {t, Cleaned(c, t), Cleaned(c, BuggyTree(c, t)), Cleaned(c, PatchTree(c, p, h, t)),
            Cleaned(c, RebuiltTree(c, p, h, t)), Cleaned(c, Viewed(c, FixedTree(c, p, h, t)))}
    BY DEF Left
  <2> QED
    BY <1>1, <1>2, <2>1
<1>4. ASSUME NEW x \in Midway(c, p, h, t)
      PROVE  Clear(p, x)
  <2>1. x \in {t, BuggyTree(c, t), GoldTree(BuggyTree(c, t)),
               GoldTree(FixedTree(c, p, h, t)), FixedTree(c, p, h, t)}
    BY DEF Midway
  <2> QED
    BY <1>1, <1>2, <2>1
<1> QED
  BY <1>2, <1>3, <1>4

-----------------------------------------------------------------------------
\* The values of the variables, and the checkouts.

Points == {"idle", "load", "next", "evaluating", "saving", "ended", "raised"}
Busy   == {"running", "publishing"}

\* f holds a result of instance i.
Of(f, i) == f # None /\ f[i] # None

Types ==
    /\ run \in Nat
    /\ phase \in {"idle", "running", "publishing", "succeeded", "failed"}
    /\ phase \in Busy => call \in Calls
    /\ pc \in [Workers -> Points]
    /\ queue \in [Workers -> Seq(Instances)]
    /\ memory \in [Workers -> Files]
    /\ file \in [Workers -> Files \cup {None}]
    /\ \A w \in Workers : pc[w] \in {"evaluating", "saving"} => queue[w] # << >>

\* Workers are at work only while the evaluator runs, and remember nothing
\* before they have loaded.
Quiet ==
    /\ phase \notin Busy => \A w \in Workers : pc[w] = "idle"
    /\ phase = "publishing" => \A w \in Workers : pc[w] \in {"idle", "ended"}
    /\ \A w \in Workers : pc[w] \in {"idle", "load"} => memory[w] = Nothing

Trees ==
    /\ DOMAIN tree = Places \X Instances
    /\ \A x \in Places \X Instances : Clear(Patch[x[2]], tree[x])

Base == Types /\ Quiet /\ Trees

\* Steps outside an evaluation.
Outside ==
    /\ phase \notin Busy /\ phase' \in {"idle", "failed"}
    /\ run' \in {run, run + 1}
    /\ pc' = pc /\ queue' = queue /\ memory' = memory /\ file' = file
    /\ count' = count /\ invalid' = invalid /\ stop' = stop /\ tree' = tree
    /\ \/ summary' = summary
       \/ summary' = [run |-> run, ok |-> Ok, metrics |-> metrics, merged |-> merged]

\* An evaluation of worker w ends, with a result or an exception.
Finish(w) ==
    /\ pc[w] = "evaluating"
    /\ Head(queue[w]) \in Instances
    /\ \E r \in Entries : \E t :
          /\ r.sound
          /\ Clear(Patch[Head(queue[w])], t)
          /\ Evaluated(w, Head(queue[w]), r, t)

\* The evaluator ends without metrics.
Leave ==
    /\ phase \in Busy /\ phase' \in {"failed", "idle"}
    /\ Exit
    /\ run' = run /\ call' = call /\ file' = file
    /\ count' = count /\ invalid' = invalid /\ stop' = stop
    /\ merged' = merged /\ metrics' = metrics /\ summary' = summary

\* A step of worker w.
Works(w) == Load(w) \/ Skip(w) \/ Take(w) \/ End(w) \/ Finish(w) \/ Save(w) \/ Raise(w)

LEMMA NothingIs == Nothing \in Files /\ \A i \in Instances : Nothing[i] = None
  BY DEF Nothing, Files

\* The checkout an evaluation finds is clear.
LEMMA AtIsClear ==
    ASSUME Base, NEW w \in Workers, pc[w] = "evaluating"
    PROVE  /\ phase = "running" /\ call \in Calls /\ call.where \in Places
           /\ Head(queue[w]) \in Instances
           /\ Clear(Patch[Head(queue[w])], At(Head(queue[w])))
<1>1. phase = "running" /\ call \in Calls
  BY DEF Base, Types, Quiet, Busy
<1>2. call.where \in Places
  BY <1>1, EvalAssumption
<1>3. Head(queue[w]) \in Instances
  BY DEF Base, Types
<1> DEFINE i == Head(queue[w])
<1> HIDE DEF i
<1>4. Clear(Patch[i], At(i))
  <2>1. <<call.where, i>> \in Places \X Instances /\ <<call.where, i>>[2] = i
    BY <1>2, <1>3 DEF i
  <2>2. Clear(Patch[<<call.where, i>>[2]], tree[<<call.where, i>>])
    BY <2>1 DEF Base, Trees
  <2> QED
    BY <2>1, <2>2 DEF At
<1> QED
  BY <1>1, <1>2, <1>3, <1>4 DEF i

LEMMA EvaluateFinishes ==
    ASSUME Base, NEW w \in Workers, Evaluate(w) \/ Except(w)
    PROVE  Finish(w)
<1> DEFINE i == Head(queue[w])
<1>1. pc[w] = "evaluating"
  BY DEF Evaluate, Except
<1>2. i \in Instances /\ Clear(Patch[i], At(i))
  BY <1>1, AtIsClear
<1> HIDE DEF i
<1>3. CASE Evaluate(w)
  <2>1. PICK h \in Happenings :
           LET r == Result(call, Patch[i], h, At(i))
           IN  Evaluated(w, i, r, Left(call, Patch[i], h, At(i), r.status))
    BY <1>3 DEF Evaluate, i
  <2> DEFINE r == Result(call, Patch[i], h, At(i))
             t == Left(call, Patch[i], h, At(i), r.status)
  <2>2. Evaluated(w, i, r, t)
    BY <2>1
  <2>3. r \in Entries /\ r.sound /\ Clear(Patch[i], t)
    BY <1>2, ResultIs, LeavesClear
  <2> HIDE DEF r, t
  <2> QED
    BY <1>1, <1>2, <2>2, <2>3 DEF Finish, i
<1>4. CASE Except(w)
  <2>1. PICK h \in Happenings :
           \E t \in Midway(call, Patch[i], h, At(i)) :
              Evaluated(w, i, Failed, Cleaned(call, t))
    BY <1>4 DEF Except, i
  <2>2. PICK t \in Midway(call, Patch[i], h, At(i)) :
           Evaluated(w, i, Failed, Cleaned(call, t))
    BY <2>1
  <2>3. Clear(Patch[i], Cleaned(call, t))
    BY <1>2, LeavesClear
  <2> QED
    BY <1>1, <1>2, <2>2, <2>3, FailedIs DEF Finish, i
<1> QED
  BY <1>3, <1>4

\* Every step is one of these.
LEMMA Kinds ==
    ASSUME Base, [Next]_vars
    PROVE  \/ Outside \/ Launch \/ Merge \/ Publish \/ (Leave /\ (Abort \/ Kill))
           \/ \E w \in Workers : Works(w)
           \/ UNCHANGED vars
<1>1. CASE Refuse
  BY <1>1 DEF Refuse, Outside, Busy, worker, health, output
<1>2. CASE PreflightFails
  BY <1>2 DEF PreflightFails, Outside, Busy, worker, health, Fault
<1>3. CASE Summarise
  BY <1>3 DEF Summarise, Outside, Busy, worker, health
<1>4. CASE Launch \/ Merge \/ Publish
  BY <1>4
<1>5. CASE Abort
  BY <1>5 DEF Abort, Over, Leave, Busy, health, output
<1>6. CASE Kill
  BY <1>6 DEF Kill, Leave, Busy, health, output
<1>7. ASSUME NEW w \in Workers, Step(w) \/ Except(w) \/ Raise(w)
      PROVE  Works(w)
  BY <1>7, EvaluateFinishes DEF Step, Works
<1> QED
  BY <1>1, <1>2, <1>3, <1>4, <1>5, <1>6, <1>7 DEF Next, Main

\* Each kind of step keeps the values in their sets.
LEMMA BaseAtFirst == Init => Base
<1> SUFFICES ASSUME Init PROVE Base
  OBVIOUS
<1>1. Types
  <2>1. \A w \in Workers : memory[w] \in Files
    BY NothingIs DEF Init
  <2>2. memory \in [Workers -> Files]
    BY <2>1 DEF Init
  <2> QED
    BY <2>2 DEF Init, Types, Busy, Points
<1>2. Quiet
  BY DEF Init, Quiet, Busy
<1>3. Trees
  <2>1. tree = [x \in Places \X Instances |-> IF x[1] = "clone" THEN {} ELSE {"built"}]
    BY DEF Init
  <2> QED
    BY <2>1 DEF Trees, Clear
<1> QED
  BY <1>1, <1>2, <1>3 DEF Base

LEMMA BaseOutside == ASSUME Base, Outside PROVE Base'
<1>1. Types'
  BY DEF Base, Types, Outside, Busy
<1>2. Quiet'
  BY DEF Base, Quiet, Outside, Busy, Nothing
<1>3. Trees'
  BY DEF Base, Trees, Outside
<1> QED
  BY <1>1, <1>2, <1>3 DEF Base

LEMMA BaseLaunch == ASSUME Base, Launch PROVE Base'
<1>1. PICK c \in Calls :
         /\ call' = c /\ queue' = [w \in Workers |-> Bucket(c, w)]
         /\ pc' = [w \in Workers |-> IF Bucket(c, w) # << >> THEN "load" ELSE "idle"]
  BY DEF Launch
<1>2. /\ phase = "idle" /\ phase' = "running" /\ run' = run + 1
      /\ memory' = memory /\ file' = file /\ tree' = tree
  BY DEF Launch
<1>3. \A w \in Workers : Bucket(c, w) \in Seq(Instances)
  BY BucketsAssumption
<1>4. queue' \in [Workers -> Seq(Instances)]
  BY <1>1, <1>3
<1>5. pc' \in [Workers -> {"load", "idle"}]
  BY <1>1
<1>6. Types'
  BY <1>1, <1>2, <1>4, <1>5 DEF Base, Types, Busy, Points
<1>7. Quiet'
  BY <1>2, <1>5 DEF Base, Quiet, Busy, Nothing
<1>8. Trees'
  BY <1>2 DEF Base, Trees
<1> QED
  BY <1>6, <1>7, <1>8 DEF Base

LEMMA BaseMerge == ASSUME Base, Merge PROVE Base'
<1>1. /\ phase = "running" /\ phase' = "publishing" /\ run' = run /\ call' = call
      /\ pc' = pc /\ queue' = queue /\ memory' = memory /\ file' = file /\ tree' = tree
      /\ \A w \in Workers : pc[w] \in {"idle", "ended"}
  BY DEF Merge, Over, worker
<1>2. Types'
  BY <1>1 DEF Base, Types, Busy
<1>3. Quiet'
  BY <1>1 DEF Base, Quiet, Busy, Nothing
<1>4. Trees'
  BY <1>1 DEF Base, Trees
<1> QED
  BY <1>2, <1>3, <1>4 DEF Base

\* What the end of a process makes of its workers.
LEMMA ExitIs ==
    ASSUME Exit
    PROVE  /\ pc' \in [Workers -> Points] /\ queue' \in [Workers -> Seq(Instances)]
           /\ memory' \in [Workers -> Files]
           /\ \A w \in Workers : pc'[w] = "idle" /\ memory'[w] = Nothing
<1>1. \A w \in Workers : pc'[w] = "idle" /\ memory'[w] = Nothing
  BY DEF Exit
<1>2. pc' \in [Workers -> Points] /\ queue' \in [Workers -> Seq(Instances)]
  BY DEF Exit, Points
<1>3. memory' \in [Workers -> Files]
  BY NothingIs DEF Exit
<1> QED
  BY <1>1, <1>2, <1>3

LEMMA BasePublish == ASSUME Base, Publish PROVE Base'
<1>1. /\ phase = "publishing" /\ phase' = "succeeded" /\ run' = run
      /\ Exit /\ file' = file /\ tree' = tree
  BY DEF Publish
<1>2. Types'
  BY <1>1, ExitIs DEF Base, Types, Busy
<1>3. Quiet'
  BY <1>1, ExitIs DEF Quiet, Busy, Nothing
<1>4. Trees'
  BY <1>1 DEF Base, Trees
<1> QED
  BY <1>2, <1>3, <1>4 DEF Base

LEMMA BaseLeave == ASSUME Base, Leave, Abort \/ Kill PROVE Base'
<1>1. Types'
  BY ExitIs DEF Base, Types, Leave, Busy
<1>2. Quiet'
  BY ExitIs DEF Quiet, Leave, Busy, Nothing
<1>3. Trees'
  <2>1. CASE Abort
    BY <2>1 DEF Base, Trees, Abort
  <2>2. CASE Kill
    <3> DEFINE at == {w \in Workers : pc[w] = "evaluating"}
               i(w) == Head(queue[w])
               left(w) == UNION {Midway(call, Patch[i(w)], h, At(i(w))) : h \in Happenings}
               of(x) == {w \in at : x = <<call.where, i(w)>>}
    <3>1. PICK f \in [at -> UNION {left(w) : w \in at}] :
             /\ \A w \in at : f[w] \in left(w)
             /\ tree' = [x \in DOMAIN tree |->
                   IF of(x) = {} THEN tree[x] ELSE f[CHOOSE w \in of(x) : TRUE]]
      BY <2>2 DEF Kill
    <3>2. ASSUME NEW w \in at
          PROVE  Clear(Patch[i(w)], f[w])
      <4>1. PICK h \in Happenings : f[w] \in Midway(call, Patch[i(w)], h, At(i(w)))
        BY <3>1
      <4>2. Clear(Patch[i(w)], At(i(w)))
        BY AtIsClear
      <4> QED
        BY <4>1, <4>2, LeavesClear
    <3>3. \A x : of(x) # {} => \E w \in at : w = (CHOOSE v \in of(x) : TRUE)
                                           /\ x = <<call.where, i(w)>>
      OBVIOUS
    <3>4. DOMAIN tree = Places \X Instances
          /\ \A x \in Places \X Instances : Clear(Patch[x[2]], tree[x])
      BY DEF Base, Trees
    <3>5. ASSUME NEW x \in Places \X Instances
          PROVE  Clear(Patch[x[2]], tree'[x])
      <4>1. CASE of(x) = {}
        BY <3>1, <3>4, <4>1
      <4>2. CASE of(x) # {}
        <5>1. PICK w \in at : w = (CHOOSE v \in of(x) : TRUE) /\ x = <<call.where, i(w)>>
          BY <3>3, <4>2
        <5>2. x[2] = i(w)
          <6>1. x = <<call.where, i(w)>>
            BY <5>1, Zenon
          <6> HIDE DEF i
          <6> QED
            BY <6>1
        <5>3. tree'[x] = f[CHOOSE v \in of(x) : TRUE]
          BY <3>1, <3>4, <4>2
        <5>4. tree'[x] = f[w]
          BY <5>1, <5>3
        <5> QED
          BY <3>2, <5>2, <5>4
      <4> QED
        BY <4>1, <4>2
    <3>6. DOMAIN tree' = Places \X Instances
      BY <3>1, <3>4
    <3> QED
      BY <3>5, <3>6 DEF Trees
  <2> QED
    BY <2>1, <2>2
<1> QED
  BY <1>1, <1>2, <1>3 DEF Base

\* What the end of an evaluation stores.
LEMMA FinishIs ==
    ASSUME Base, NEW w \in Workers, Finish(w)
    PROVE  \E e \in Entries :
              /\ e.run = run /\ e.sound
              /\ memory' = [memory EXCEPT ![w][Head(queue[w])] = e]
              /\ Counted(e)
<1> DEFINE i == Head(queue[w])
<1>1. PICK r \in Entries : r.sound /\ \E t : Evaluated(w, i, r, t)
  BY DEF Finish
<1> HIDE DEF i
<1> DEFINE e == [r EXCEPT !.run = run]
<1>2. e \in Entries /\ e.run = run /\ e.sound = r.sound /\ e.env = r.env
  BY DEF Base, Types, Entries
<1> HIDE DEF e
<1>3. memory' = [memory EXCEPT ![w][i] = e] /\ Counted(r)
  BY <1>1 DEF Evaluated, e
<1> QED
  BY <1>1, <1>2, <1>3 DEF Counted, i

\* What a worker's step leaves alone.
LEMMA WorksIs ==
    ASSUME Base, NEW w \in Workers, Works(w)
    PROVE  /\ phase = "running" /\ phase' = phase /\ run' = run /\ call' = call
           /\ call \in Calls
           /\ merged' = merged /\ metrics' = metrics /\ summary' = summary
           /\ pc[w] \in {"load", "next", "evaluating", "saving"}
           /\ pc' = [pc EXCEPT ![w] = pc'[w]]
           /\ ~Finish(w) => tree' = tree /\ count' = count /\ invalid' = invalid /\ stop' = stop
           /\ \A v \in Workers \ {w} :
                 /\ pc'[v] = pc[v] /\ queue'[v] = queue[v]
                 /\ memory'[v] = memory[v] /\ file'[v] = file[v]
<1>1. pc[w] \in {"load", "next", "evaluating", "saving"}
  BY DEF Works, Load, Skip, Take, End, Finish, Save, Raise
<1>2. phase = "running" /\ call \in Calls
  BY <1>1 DEF Base, Types, Quiet, Busy
<1>3. /\ pc \in [Workers -> Points] /\ queue \in [Workers -> Seq(Instances)]
      /\ memory \in [Workers -> Files] /\ file \in [Workers -> Files \cup {None}]
  BY DEF Base, Types
<1>4. CASE Load(w)
  BY <1>1, <1>2, <1>3, <1>4 DEF Load, control, health, output
<1>5. CASE Skip(w) \/ Take(w) \/ End(w)
  BY <1>1, <1>2, <1>3, <1>5 DEF Skip, Take, End, control, health, output
<1>6. CASE Finish(w)
  BY <1>1, <1>2, <1>3, <1>6 DEF Finish, Evaluated, control, output
<1>7. CASE Save(w) \/ Raise(w)
  BY <1>1, <1>2, <1>3, <1>7 DEF Save, Raise, control, health, output
<1> QED
  BY <1>4, <1>5, <1>6, <1>7 DEF Works

LEMMA TypesWorks == ASSUME Base, NEW w \in Workers, Works(w) PROVE Types'
<1>1. /\ phase' = "running" /\ run' = run /\ call' = call /\ call \in Calls
      /\ run \in Nat
  BY WorksIs DEF Base, Types
<1>2. /\ pc \in [Workers -> Points] /\ queue \in [Workers -> Seq(Instances)]
      /\ memory \in [Workers -> Files] /\ file \in [Workers -> Files \cup {None}]
      /\ \A v \in Workers : pc[v] \in {"evaluating", "saving"} => queue[v] # << >>
  BY DEF Base, Types
<1>3. pc' \in [Workers -> Points]
  <2>1. \E x \in Points \cup {pc[w]} : pc' = [pc EXCEPT ![w] = x]
    <3>1. CASE Skip(w)
      BY <1>2, <3>1 DEF Skip
    <3>2. CASE Load(w) \/ Take(w) \/ End(w) \/ Finish(w) \/ Save(w) \/ Raise(w)
      BY <3>2 DEF Load, Take, End, Finish, Evaluated, Save, Raise, Points
    <3> QED
      BY <3>1, <3>2 DEF Works
  <2> QED
    BY <1>2, <2>1
<1>4. queue' \in [Workers -> Seq(Instances)]
  <2>1. CASE Skip(w) \/ Save(w)
    <3>1. queue' = [queue EXCEPT ![w] = Tail(@)] /\ queue[w] # << >>
      BY <1>2, <2>1 DEF Skip, Save
    <3>2. Tail(queue[w]) \in Seq(Instances)
      BY <1>2, <3>1
    <3> QED
      BY <1>2, <3>1, <3>2
  <2>2. CASE Load(w) \/ Take(w) \/ End(w) \/ Finish(w) \/ Raise(w)
    <3>1. queue' = queue
      BY <2>2 DEF Load, Take, End, Finish, Evaluated, Raise
    <3> QED
      BY <1>2, <3>1
  <2> QED
    BY <2>1, <2>2 DEF Works
<1>5. memory' \in [Workers -> Files]
  <2>1. CASE Load(w)
    <3>1. Loaded(w) \in Files
      BY <1>2, NothingIs DEF Loaded
    <3> QED
      BY <1>2, <2>1, <3>1 DEF Load
  <2>2. CASE Finish(w)
    <3>1. PICK e \in Entries : memory' = [memory EXCEPT ![w][Head(queue[w])] = e]
      BY <2>2, FinishIs
    <3>2. memory[w] \in Files
      BY <1>2
    <3>3. [memory[w] EXCEPT ![Head(queue[w])] = e] \in Files
      BY <3>2 DEF Files
    <3> QED
      BY <1>2, <3>1, <3>3
  <2>3. CASE Skip(w) \/ Take(w) \/ End(w) \/ Save(w) \/ Raise(w)
    <3>1. memory' = memory
      BY <2>3 DEF Skip, Take, End, Save, Raise
    <3> QED
      BY <1>2, <3>1
  <2> QED
    BY <2>1, <2>2, <2>3 DEF Works
<1>6. file' \in [Workers -> Files \cup {None}]
  <2>1. CASE Save(w)
    <3>1. file' = [file EXCEPT ![w] = memory[w]]
      BY <2>1 DEF Save
    <3> QED
      BY <1>2, <3>1
  <2>2. CASE ~Save(w)
    <3>1. file' = file
      BY <2>2 DEF Works, Load, Skip, Take, End, Finish, Evaluated, Raise
    <3> QED
      BY <1>2, <3>1
  <2> QED
    BY <2>1, <2>2
<1>7. ASSUME NEW v \in Workers, pc'[v] \in {"evaluating", "saving"}
      PROVE  queue'[v] # << >>
  <2>1. CASE v # w
    BY <1>2, <1>7, <2>1, WorksIs
  <2>2. CASE v = w
    <3>1. Take(w) \/ Finish(w)
      BY <1>2, <1>7, <2>2 DEF Works, Load, Skip, Take, End, Finish, Save, Raise
    <3>2. queue' = queue /\ queue[w] # << >>
      BY <1>2, <3>1 DEF Take, Finish, Evaluated
    <3> QED
      BY <2>2, <3>2
  <2> QED
    BY <2>1, <2>2
<1> QED
  BY <1>1, <1>3, <1>4, <1>5, <1>6, <1>7 DEF Types

LEMMA BaseWorks == ASSUME Base, NEW w \in Workers, Works(w) PROVE Base'
<1>1. Types'
  BY TypesWorks
<1>2. Quiet'
  <2>1. phase = "running" /\ phase' = "running"
    BY WorksIs
  <2>2. pc'[w] \in {"idle", "load"} => memory'[w] = Nothing
    <3>1. pc'[w] \notin {"idle", "load"}
      BY DEF Base, Types, Works, Load, Skip, Take, End, Finish, Evaluated, Save, Raise
    <3> QED
      BY <3>1
  <2>3. \A v \in Workers \ {w} : pc'[v] \in {"idle", "load"} => memory'[v] = Nothing
    BY WorksIs DEF Base, Quiet
  <2> QED
    BY <2>1, <2>2, <2>3 DEF Quiet, Busy, Nothing
<1>3. Trees'
  <2>1. CASE Finish(w)
    <3>1. PICK t : /\ Clear(Patch[Head(queue[w])], t)
                   /\ tree' = [tree EXCEPT ![<<call.where, Head(queue[w])>>] =
                                  IF call.where = "clone" THEN {} ELSE t]
      BY <2>1 DEF Finish, Evaluated
    <3> DEFINE i == Head(queue[w])
               new == IF call.where = "clone" THEN {} ELSE t
    <3>2. Clear(Patch[i], new)
      BY <3>1 DEF Clear
    <3>3. tree' = [tree EXCEPT ![<<call.where, i>>] = new]
      BY <3>1
    <3> HIDE DEF i, new
    <3>4. /\ DOMAIN tree = Places \X Instances
          /\ \A x \in Places \X Instances : Clear(Patch[x[2]], tree[x])
      BY DEF Base, Trees
    <3>5. ASSUME NEW x \in Places \X Instances
          PROVE  Clear(Patch[x[2]], tree'[x])
      <4>1. CASE x = <<call.where, i>>
        <5>1. tree'[x] = new /\ x[2] = i
          BY <3>3, <3>4, <4>1
        <5> QED
          BY <3>2, <5>1
      <4>2. CASE x # <<call.where, i>>
        <5>1. tree'[x] = tree[x]
          BY <3>3, <3>4, <4>2
        <5> QED
          BY <3>4, <5>1
      <4> QED
        BY <4>1, <4>2
    <3>6. DOMAIN tree' = Places \X Instances
      BY <3>3, <3>4
    <3> QED
      BY <3>5, <3>6 DEF Trees
  <2>2. CASE ~Finish(w)
    <3>1. tree' = tree
      BY <2>2, WorksIs
    <3> QED
      BY <3>1 DEF Base, Trees
  <2> QED
    BY <2>1, <2>2
<1> QED
  BY <1>1, <1>2, <1>3 DEF Base

LEMMA BaseStays == Base /\ [Next]_vars => Base'
<1> SUFFICES ASSUME Base, [Next]_vars PROVE Base'
  OBVIOUS
<1>1. CASE UNCHANGED vars
  <2>1. /\ run' = run /\ call' = call /\ phase' = phase /\ pc' = pc /\ queue' = queue
        /\ memory' = memory /\ file' = file /\ tree' = tree
    BY <1>1 DEF vars, control, worker
  <2> QED
    BY <2>1 DEF Base, Types, Quiet, Trees, Nothing
<1> QED
  BY <1>1, Kinds, BaseOutside, BaseLaunch, BaseMerge, BasePublish, BaseLeave, BaseWorks

LEMMA BaseAlways == Spec => []Base
<1>1. Init => Base
  BY BaseAtFirst
<1>2. Base /\ [Next]_vars => Base'
  BY BaseStays
<1> QED
  BY <1>1, <1>2, PTL DEF Spec

-----------------------------------------------------------------------------
\* What workers remember and have saved.

\* An entry of an invocation up to the r-th, and sound.
Genuine(e, r) == e # None => e.sound /\ e.run <= r

Remembered ==
    \A w \in Workers : \A i \in Instances :
        /\ Genuine(memory[w][i], run)
        /\ file[w] # None => Genuine(file[w][i], run)

\* An instance is evaluated only if the worker has no result of it, and has one
\* afterwards.
Missing ==
    \A w \in Workers :
        /\ pc[w] = "evaluating" => memory[w][Head(queue[w])] = None
        /\ pc[w] = "saving" => memory[w][Head(queue[w])] # None

\* A worker that resumes remembers all of its file.
Resumed ==
    call # None /\ call.resume =>
        \A w \in Workers : pc[w] \in {"next", "evaluating", "saving"} =>
            \A i \in Instances : Of(file[w], i) => memory[w][i] = file[w][i]

Work == Base /\ Remembered /\ Missing /\ Resumed

\* Where a worker's memory and file come from, in a step of any worker's.
LEMMA WorksMoves ==
    ASSUME Base, NEW w \in Workers, Works(w), NEW i \in Instances
    PROVE  /\ \/ memory'[w] = memory[w]
              \/ Load(w) /\ memory'[w] = Nothing
              \/ Load(w) /\ call.resume /\ file[w] # None /\ memory'[w] = file[w]
              \/ /\ Finish(w)
                 /\ \E e \in Entries : /\ e.run = run /\ e.sound
                                       /\ memory'[w] = [memory[w] EXCEPT ![Head(queue[w])] = e]
           /\ \/ file'[w] = file[w]
              \/ Save(w) /\ file'[w] = memory[w] /\ file'[w] # None
<1>1. memory \in [Workers -> Files] /\ file \in [Workers -> Files \cup {None}]
  BY DEF Base, Types
<1>2. CASE Load(w)
  <2>1. memory'[w] = Loaded(w) /\ file' = file
    BY <1>1, <1>2 DEF Load
  <2> QED
    BY <1>2, <2>1 DEF Loaded
<1>3. CASE Finish(w)
  <2>1. file' = file
    BY <1>3 DEF Finish, Evaluated
  <2>2. PICK e \in Entries : /\ e.run = run /\ e.sound
                             /\ memory' = [memory EXCEPT ![w][Head(queue[w])] = e]
    BY <1>3, FinishIs
  <2>3. memory'[w] = [memory[w] EXCEPT ![Head(queue[w])] = e]
    BY <1>1, <2>2
  <2> QED
    BY <1>3, <2>1, <2>2, <2>3
<1>4. CASE Save(w)
  <2>1. file' = [file EXCEPT ![w] = memory[w]] /\ memory' = memory
    BY <1>4 DEF Save
  <2>2. memory[w] # None
    BY <1>1, EvalAssumption
  <2> QED
    BY <1>1, <1>4, <2>1, <2>2
<1>5. CASE Skip(w) \/ Take(w) \/ End(w) \/ Raise(w)
  BY <1>5 DEF Skip, Take, End, Raise
<1> QED
  BY <1>2, <1>3, <1>4, <1>5 DEF Works

LEMMA RememberedStays == ASSUME Base, Remembered, [Next]_vars PROVE Remembered'
<1>1. CASE \E w \in Workers : Works(w)
  <2>1. PICK w \in Workers : Works(w)
    BY <1>1
  <2>2. run' = run /\ run \in Nat
    BY <2>1, WorksIs DEF Base, Types
  <2>3. ASSUME NEW i \in Instances
        PROVE  /\ Genuine(memory'[w][i], run)
               /\ file'[w] # None => Genuine(file'[w][i], run)
    <3>1. Genuine(memory[w][i], run) /\ (file[w] # None => Genuine(file[w][i], run))
      BY DEF Remembered
    <3>2. Genuine(None, run)
      BY DEF Genuine
    <3>3. \A e \in Entries : e.run = run /\ e.sound => Genuine(e, run)
      BY <2>2 DEF Genuine
    <3>4. DOMAIN memory[w] = Instances
      BY DEF Base, Types, Files
    <3>5. Genuine(memory'[w][i], run)
      <4>1. CASE memory'[w] = memory[w]
        BY <3>1, <4>1
      <4>2. CASE memory'[w] = Nothing
        BY <3>2, <4>2, NothingIs
      <4>3. CASE file[w] # None /\ memory'[w] = file[w]
        BY <3>1, <4>3
      <4>4. CASE \E e \in Entries : /\ e.run = run /\ e.sound
                                    /\ memory'[w] = [memory[w] EXCEPT ![Head(queue[w])] = e]
        <5>1. PICK e \in Entries : /\ e.run = run /\ e.sound
                                   /\ memory'[w] = [memory[w] EXCEPT ![Head(queue[w])] = e]
          BY <4>4
        <5>2. memory'[w][i] = e \/ memory'[w][i] = memory[w][i]
          BY <3>4, <5>1
        <5> QED
          BY <3>1, <3>3, <5>1, <5>2
      <4> QED
        BY <2>1, <4>1, <4>2, <4>3, <4>4, WorksMoves
    <3>6. file'[w] # None => Genuine(file'[w][i], run)
      BY <2>1, <3>1, WorksMoves
    <3> QED
      BY <3>5, <3>6
  <2>4. \A v \in Workers \ {w} : memory'[v] = memory[v] /\ file'[v] = file[v]
    BY <2>1, WorksIs
  <2> QED
    BY <2>2, <2>3, <2>4 DEF Remembered
<1>2. CASE Outside \/ Launch \/ Merge \/ UNCHANGED vars
  <2>1. memory' = memory /\ file' = file /\ run' \in {run, run + 1} /\ run \in Nat
    BY <1>2 DEF Outside, Launch, Merge, worker, vars, control, Base, Types
  <2>2. ASSUME NEW w \in Workers, NEW i \in Instances
        PROVE  /\ Genuine(memory[w][i], run')
               /\ file[w] # None => Genuine(file[w][i], run')
    <3>1. /\ memory[w][i] # None => memory[w][i] \in Entries
          /\ Of(file[w], i) => file[w][i] \in Entries
      BY DEF Base, Types, Files, Of
    <3>2. \A e \in Entries : Genuine(e, run) => Genuine(e, run')
      BY <2>1 DEF Genuine, Entries
    <3>3. Genuine(None, run')
      BY DEF Genuine
    <3> QED
      BY <3>1, <3>2, <3>3 DEF Remembered, Of
  <2> QED
    BY <2>1, <2>2 DEF Remembered
<1>3. CASE Publish \/ Leave
  <2>1. Exit /\ file' = file /\ run' = run
    BY <1>3 DEF Publish, Leave
  <2>2. \A w \in Workers : memory'[w] = Nothing
    BY <2>1, ExitIs
  <2> QED
    BY <2>1, <2>2, NothingIs DEF Remembered, Genuine
<1> QED
  BY <1>1, <1>2, <1>3, Kinds

LEMMA MissingStays == ASSUME Base, Missing, [Next]_vars PROVE Missing'
<1>1. CASE \E w \in Workers : Works(w)
  <2>1. PICK w \in Workers : Works(w)
    BY <1>1
  <2>2. /\ pc'[w] = "evaluating" => memory'[w][Head(queue'[w])] = None
        /\ pc'[w] = "saving" => memory'[w][Head(queue'[w])] # None
    <3>1. CASE Take(w)
      BY <3>1 DEF Take, Base, Types
    <3>2. CASE Finish(w)
      <4>1. PICK e \in Entries : memory' = [memory EXCEPT ![w][Head(queue[w])] = e]
        BY <3>2, FinishIs
      <4>2. pc'[w] = "saving" /\ queue' = queue /\ Head(queue[w]) \in Instances
        BY <3>2 DEF Finish, Evaluated, Base, Types
      <4>3. memory'[w][Head(queue[w])] = e
        <5>1. memory \in [Workers -> Files] /\ DOMAIN memory[w] = Instances
          BY DEF Base, Types, Files
        <5> QED
          BY <4>1, <4>2, <5>1
      <4>4. e # None
        BY EvalAssumption
      <4> QED
        BY <4>2, <4>3, <4>4
    <3>3. CASE Load(w) \/ Skip(w) \/ End(w) \/ Save(w) \/ Raise(w)
      <4>1. pc'[w] \notin {"evaluating", "saving"}
        BY <3>3 DEF Load, Skip, End, Save, Raise, Base, Types
      <4> QED
        BY <4>1
    <3> QED
      BY <2>1, <3>1, <3>2, <3>3 DEF Works
  <2>3. \A v \in Workers \ {w} :
           memory'[v] = memory[v] /\ pc'[v] = pc[v] /\ queue'[v] = queue[v]
    BY <2>1, WorksIs
  <2> QED
    BY <2>2, <2>3 DEF Missing
<1>2. CASE Outside \/ Merge \/ UNCHANGED vars
  BY <1>2 DEF Outside, Merge, worker, vars, Missing
<1>3. CASE Launch
  <2>1. \A w \in Workers : pc'[w] \in {"load", "idle"}
    BY <1>3 DEF Launch
  <2> QED
    BY <2>1 DEF Missing
<1>4. CASE Publish \/ Leave
  <2>1. \A w \in Workers : pc'[w] = "idle"
    BY <1>4, ExitIs DEF Publish, Leave
  <2> QED
    BY <2>1 DEF Missing
<1> QED
  BY <1>1, <1>2, <1>3, <1>4, Kinds

LEMMA ResumedStays == ASSUME Base, Missing, Resumed, [Next]_vars PROVE Resumed'
<1>1. CASE \E w \in Workers : Works(w)
  <2>1. PICK w \in Workers : Works(w)
    BY <1>1
  <2>2. call' = call
    BY <2>1, WorksIs
  <2>3. ASSUME call # None, call.resume, pc'[w] \in {"next", "evaluating", "saving"},
               NEW i \in Instances, Of(file'[w], i)
        PROVE  memory'[w][i] = file'[w][i]
    <3>1. pc[w] \in {"next", "evaluating", "saving"} /\ Of(file[w], i)
             => memory[w][i] = file[w][i]
      BY <2>3 DEF Resumed
    <3>2. CASE Load(w)
      <4>1. file' = file /\ memory'[w] = Loaded(w)
        BY <3>2 DEF Load, Base, Types
      <4> QED
        BY <2>3, <4>1 DEF Loaded, Of
    <3>3. CASE Finish(w)
      <4>1. file' = file /\ pc[w] = "evaluating"
        BY <3>3 DEF Finish, Evaluated
      <4>2. i # Head(queue[w])
        BY <2>3, <3>1, <4>1 DEF Missing, Of
      <4>3. DOMAIN memory[w] = Instances
        BY DEF Base, Types, Files
      <4>4. PICK e : memory' = [memory EXCEPT ![w][Head(queue[w])] = e]
        BY <3>3, FinishIs
      <4>5. memory'[w][i] = memory[w][i]
        <5>1. memory'[w] = [memory[w] EXCEPT ![Head(queue[w])] = e]
          BY <4>4 DEF Base, Types
        <5> QED
          BY <4>2, <4>3, <5>1
      <4> QED
        BY <2>3, <3>1, <4>1, <4>5
    <3>4. CASE Save(w)
      BY <2>3, <3>4, WorksMoves DEF Save, Base, Types
    <3>5. CASE Skip(w) \/ Take(w) \/ End(w) \/ Raise(w)
      <4>1. file' = file /\ memory' = memory
        BY <3>5 DEF Skip, Take, End, Raise
      <4>2. pc[w] = "next"
        BY <2>3, <3>5 DEF Skip, Take, End, Raise, Base, Types
      <4> QED
        BY <2>3, <3>1, <4>1, <4>2
    <3> QED
      BY <2>1, <3>2, <3>3, <3>4, <3>5 DEF Works
  <2>4. \A v \in Workers \ {w} :
           memory'[v] = memory[v] /\ pc'[v] = pc[v] /\ file'[v] = file[v]
    BY <2>1, WorksIs
  <2> QED
    BY <2>2, <2>3, <2>4 DEF Resumed
<1>2. CASE Outside
  <2>1. \A w \in Workers : pc'[w] = "idle"
    BY <1>2 DEF Outside, Base, Quiet
  <2> QED
    BY <2>1 DEF Resumed
<1>3. CASE Merge \/ UNCHANGED vars
  BY <1>3 DEF Merge, worker, vars, control, Resumed
<1>4. CASE Launch
  <2>1. \A w \in Workers : pc'[w] \in {"load", "idle"}
    BY <1>4 DEF Launch
  <2> QED
    BY <2>1 DEF Resumed
<1>5. CASE Publish \/ Leave
  <2>1. \A w \in Workers : pc'[w] = "idle"
    BY <1>5, ExitIs DEF Publish, Leave
  <2> QED
    BY <2>1 DEF Resumed
<1> QED
  BY <1>1, <1>2, <1>3, <1>4, <1>5, Kinds

LEMMA WorkAtFirst == Init => Work
<1> SUFFICES ASSUME Init PROVE Work
  OBVIOUS
<1>1. Base
  BY BaseAtFirst
<1>2. Remembered
  <2>1. \A w \in Workers : file[w] = None /\ memory[w] = Nothing
    BY DEF Init
  <2> QED
    BY <2>1, NothingIs DEF Remembered, Genuine
<1>3. Missing /\ Resumed
  BY DEF Init, Missing, Resumed
<1> QED
  BY <1>1, <1>2, <1>3 DEF Work

LEMMA WorkStays == Work /\ [Next]_vars => Work'
BY BaseStays, RememberedStays, MissingStays, ResumedStays DEF Work

LEMMA WorkAlways == Spec => []Work
BY WorkAtFirst, WorkStays, PTL DEF Spec

\* VerdictsSound: every verdict on file comes from two runs that saw what they
\* should, whatever earlier evaluations, ended, failed or killed, left in the
\* checkout (evaluate_one).
THEOREM VerdictsAreSound == Spec => []VerdictsSound
<1>1. Work => VerdictsSound
  BY DEF Work, Remembered, Genuine, VerdictsSound
<1> QED
  BY <1>1, WorkAlways, PTL

\* ResumeLosesNothing: a step of an evaluator that resumes changes no result a
\* worker's file holds (run_bucket loads the whole file, evaluates what is not in
\* it, and saves everything).
THEOREM ResultsSurvive == Spec => ResumeLosesNothing
<1> DEFINE Kept == call' # None /\ call'.resume =>
                      \A w \in Workers : \A i \in Instances :
                         file[w] # None /\ file[w][i] # None
                             => file'[w] # None /\ file'[w][i] = file[w][i]
<1>1. Work /\ [Next]_vars => [Kept]_vars
  <2> SUFFICES ASSUME Work, [Next]_vars, call' # None, call'.resume,
                      NEW w \in Workers, NEW i \in Instances, Of(file[w], i)
               PROVE  file'[w] # None /\ file'[w][i] = file[w][i]
    BY DEF Of
  <2>1. Base
    BY DEF Work
  <2>2. CASE \E v \in Workers : Works(v)
    <3>1. PICK v \in Workers : Works(v)
      BY <2>2
    <3>2. call' = call /\ (v # w => file'[w] = file[w])
      BY <2>1, <3>1, WorksIs
    <3>3. CASE v # w \/ file'[w] = file[w]
      BY <3>2, <3>3 DEF Of
    <3>4. CASE v = w /\ file'[w] # file[w]
      <4>1. Save(w) /\ file'[w] = memory[w] /\ file'[w] # None
        BY <2>1, <3>1, <3>4, WorksMoves
      <4>2. memory[w][i] = file[w][i]
        BY <3>2, <4>1 DEF Work, Resumed, Save
      <4> QED
        BY <4>1, <4>2
    <3> QED
      BY <3>3, <3>4
  <2>3. CASE Outside \/ Launch \/ Merge \/ Publish \/ Leave \/ UNCHANGED vars
    <3>1. file' = file
      BY <2>3 DEF Outside, Launch, Merge, Publish, Leave, vars
    <3> QED
      BY <3>1 DEF Of
  <2> QED
    BY <2>1, <2>2, <2>3, Kinds
<1>2. Spec => [][Kept]_vars
  BY <1>1, WorkAlways, PTL DEF Spec
<1> QED
  BY <1>2 DEF ResumeLosesNothing

-----------------------------------------------------------------------------
\* What an invocation counts.

\* f holds a result of instance i, from worker w, of invocation r; all of these,
\* and those with an environment error.
Has(f, w, i, r) == Of(f[w], i) /\ f[w][i].run = r

Own(f, r)    == {x \in Workers \X Instances : Has(f, x[1], x[2], r)}
Errors(f, r) == {x \in Own(f, r) : f[x[1]][x[2]].env}

\* What a worker has saved of this invocation it remembers; what it remembers of
\* this invocation it has saved, unless it is about to.
Saved ==
    phase \in Busy => \A w \in Workers : \A i \in Instances :
        /\ Has(file, w, i, run) => memory[w][i] = file[w][i]
        /\ pc[w] \in {"next", "ended"} /\ Has(memory, w, i, run) =>
              file[w] # None /\ file[w][i] = memory[w][i]

\* count is of what this invocation evaluated, in memory and finally on file.
CountsOwn ==
    /\ phase \in Busy =>
          /\ count.all = Cardinality(Own(memory, run))
          /\ count.env = Cardinality(Errors(memory, run))
    /\ phase = "succeeded" =>
          /\ count.all = Cardinality(Own(file, run))
          /\ count.env = Cardinality(Errors(file, run))
          /\ metrics.valid => ~invalid

\* The threshold is looked at after every result.
Health ==
    /\ ~invalid => count.all = 0 \/ ~TooMany(count)
    /\ stop = invalid

Tally == Work /\ Saved /\ CountsOwn /\ Health

LEMMA OwnIsFinite ==
    ASSUME NEW f, NEW r
    PROVE  IsFiniteSet(Own(f, r)) /\ IsFiniteSet(Errors(f, r))
<1>1. IsFiniteSet(Instances)
  <2> DEFINE all == 1 .. Len(Dataset)
  <2>1. Dataset \in Surjection(all, Instances)
    <3>1. Dataset \in [all -> Instances] /\ DOMAIN Dataset = all
      BY EvalAssumption
    <3>2. Instances = {Dataset[k] : k \in all}
      BY <3>1 DEF Instances
    <3> HIDE DEF all
    <3> QED
      BY <3>1, <3>2 DEF Surjection
  <2>2. IsFiniteSet(all)
    BY EvalAssumption, FS_Interval
  <2> HIDE DEF all
  <2> QED
    BY <2>1, <2>2, FS_Surjection, Zenon
<1>2. IsFiniteSet(Workers \X Instances)
  BY <1>1, EvalAssumption, FS_Product
<1>3. Own(f, r) \subseteq Workers \X Instances /\ Errors(f, r) \subseteq Workers \X Instances
  BY DEF Own, Errors
<1> QED
  BY <1>2, <1>3, FS_Subset

\* Where f and g hold the same results of an invocation.
LEMMA OwnAgrees ==
    ASSUME NEW f, NEW g, NEW r,
           \A w \in Workers : \A i \in Instances :
              /\ Has(f, w, i, r) <=> Has(g, w, i, r)
              /\ Has(f, w, i, r) => f[w][i] = g[w][i]
    PROVE  Own(f, r) = Own(g, r) /\ Errors(f, r) = Errors(g, r)
<1>1. \A x \in Workers \X Instances : x[1] \in Workers /\ x[2] \in Instances
  OBVIOUS
<1>2. Own(f, r) = Own(g, r)
  BY <1>1 DEF Own
<1>3. \A x \in Own(f, r) : f[x[1]][x[2]] = g[x[1]][x[2]]
  BY <1>1 DEF Own
<1> QED
  BY <1>2, <1>3 DEF Errors

\* f with a result of w, and what it adds to the errors.
Put(f, w, h, e) == [f EXCEPT ![w][h] = e]
Ill(e)          == IF e.env THEN 1 ELSE 0

\* A new result is one more.
LEMMA OwnGrows ==
    ASSUME NEW f \in [Workers -> Files], NEW w \in Workers, NEW h \in Instances,
           NEW r, NEW e \in Entries, e.run = r, f[w][h] = None,
           NEW g, g = Put(f, w, h, e)
    PROVE  /\ Cardinality(Own(g, r)) = Cardinality(Own(f, r)) + 1
           /\ Cardinality(Errors(g, r)) = Cardinality(Errors(f, r)) + Ill(e)
<1> DEFINE x0 == <<w, h>>
<1>1. f[w] \in Files /\ g[w] = [f[w] EXCEPT ![h] = e] /\ \A v \in Workers \ {w} : g[v] = f[v]
  BY DEF Put
<1>2. g[w][h] = e /\ \A i \in Instances \ {h} : g[w][i] = f[w][i]
  <2>1. DOMAIN f[w] = Instances
    BY <1>1 DEF Files
  <2> QED
    BY <1>1, <2>1
<1>3. g[w] # None /\ f[w] # None
  <2>1. g[w] \in Files
    BY <1>1 DEF Files
  <2> QED
    BY <1>1, <2>1, EvalAssumption
<1>4. e # None
  BY EvalAssumption
<1>5. Has(g, w, h, r) /\ ~Has(f, w, h, r)
  BY <1>2, <1>3, <1>4 DEF Has, Of
<1>6. ASSUME NEW v \in Workers, NEW i \in Instances, <<v, i>> # x0
      PROVE  (Has(g, v, i, r) <=> Has(f, v, i, r)) /\ g[v][i] = f[v][i]
  <2>1. CASE v = w
    <3>1. i \in Instances \ {h}
      BY <1>6, <2>1
    <3>2. g[v][i] = f[v][i] /\ g[v] # None /\ f[v] # None
      BY <1>2, <1>3, <2>1, <3>1
    <3> QED
      BY <3>2 DEF Has, Of
  <2>2. CASE v # w
    BY <1>1, <2>2 DEF Has, Of
  <2> QED
    BY <2>1, <2>2
<1>7. \A x \in Workers \X Instances :
         x[1] \in Workers /\ x[2] \in Instances /\ x = <<x[1], x[2]>>
  OBVIOUS
<1>8. x0 \in Workers \X Instances /\ x0[1] = w /\ x0[2] = h
  OBVIOUS
<1> HIDE DEF x0
<1>9. Own(g, r) = Own(f, r) \cup {x0} /\ x0 \notin Own(f, r)
  <2>1. \A x \in Workers \X Instances :
           x # x0 => (Has(g, x[1], x[2], r) <=> Has(f, x[1], x[2], r))
    BY <1>6, <1>7
  <2>2. Has(g, x0[1], x0[2], r) /\ ~Has(f, x0[1], x0[2], r)
    BY <1>5, <1>8
  <2> QED
    BY <1>8, <2>1, <2>2 DEF Own
<1>10. \A x \in Own(f, r) : x # x0 /\ g[x[1]][x[2]] = f[x[1]][x[2]]
  BY <1>6, <1>7, <1>9 DEF Own
<1>11. g[x0[1]][x0[2]] = e
  BY <1>2, <1>8
<1>12. /\ e.env => Errors(g, r) = Errors(f, r) \cup {x0}
       /\ ~e.env => Errors(g, r) = Errors(f, r)
       /\ x0 \notin Errors(f, r)
  BY <1>9, <1>10, <1>11 DEF Errors
<1>13. IsFiniteSet(Own(f, r)) /\ IsFiniteSet(Errors(f, r))
  BY OwnIsFinite
<1>14. Cardinality(Own(g, r)) = Cardinality(Own(f, r)) + 1
  BY <1>9, <1>13, FS_AddElement
<1>15. e.env => Cardinality(Errors(g, r)) = Cardinality(Errors(f, r)) + 1
  BY <1>12, <1>13, FS_AddElement
<1>16. ~e.env => Cardinality(Errors(g, r)) = Cardinality(Errors(f, r)) + 0
  BY <1>12, <1>13, FS_CardinalityType
<1> QED
  BY <1>14, <1>15, <1>16 DEF Ill

\* Before it has loaded, a worker has saved nothing of this invocation.
LEMMA LoadsOnlyThePast ==
    ASSUME Base, Saved, phase \in Busy, NEW w \in Workers, pc[w] \in {"idle", "load"},
           NEW i \in Instances
    PROVE  ~Has(memory, w, i, run) /\ ~Has(file, w, i, run)
<1>1. memory[w] = Nothing /\ Nothing[i] = None
  BY NothingIs DEF Base, Quiet
<1>2. Has(file, w, i, run) => memory[w][i] = file[w][i]
  BY DEF Saved
<1> QED
  BY <1>1, <1>2 DEF Has, Of

\* A new invocation has nothing of its own yet.
LEMMA NothingNewYet ==
    ASSUME Work, phase = "idle", NEW w \in Workers, NEW i \in Instances
    PROVE  ~Has(memory, w, i, run + 1) /\ ~Has(file, w, i, run + 1)
<1>1. memory[w] = Nothing /\ Nothing[i] = None
  BY NothingIs DEF Work, Base, Quiet, Busy
<1>2. file[w] # None => Genuine(file[w][i], run)
  BY DEF Work, Remembered
<1>3. Of(file[w], i) => file[w][i] \in Entries
  BY DEF Work, Base, Types, Files, Of
<1>4. \A e \in Entries : e.run <= run => e.run # run + 1
  BY DEF Work, Base, Types, Entries
<1> QED
  BY <1>1, <1>2, <1>3, <1>4 DEF Has, Of, Genuine

\* What the worker of a step then holds of this invocation.
LEMMA SavedByWorker ==
    ASSUME Work, Saved, NEW w \in Workers, Works(w), NEW i \in Instances
    PROVE  /\ Has(file', w, i, run) => memory'[w][i] = file'[w][i]
           /\ pc'[w] \in {"next", "ended"} /\ Has(memory', w, i, run) =>
                 file'[w] # None /\ file'[w][i] = memory'[w][i]
<1>1. Base /\ phase \in Busy
  BY WorksIs DEF Work, Busy
<1>2. /\ pc \in [Workers -> Points] /\ memory \in [Workers -> Files]
      /\ file \in [Workers -> Files \cup {None}]
  BY <1>1 DEF Base, Types
<1>3. /\ Has(file, w, i, run) => memory[w][i] = file[w][i]
      /\ pc[w] \in {"next", "ended"} /\ Has(memory, w, i, run) =>
            file[w] # None /\ file[w][i] = memory[w][i]
  BY <1>1 DEF Saved
<1>4. CASE Load(w)
  <2>1. file' = file /\ memory'[w] = Loaded(w) /\ pc[w] = "load"
    BY <1>2, <1>4 DEF Load
  <2>2. ~Has(file, w, i, run)
    BY <1>1, <2>1, LoadsOnlyThePast DEF Work
  <2>3. Has(memory', w, i, run) => file[w] # None /\ memory'[w] = file[w]
    BY <2>1, NothingIs DEF Loaded, Has, Of
  <2> QED
    BY <2>1, <2>2, <2>3 DEF Has, Of
<1>5. CASE Finish(w)
  <2>1. file' = file /\ pc'[w] = "saving" /\ pc[w] = "evaluating"
    BY <1>2, <1>5 DEF Finish, Evaluated
  <2>2. PICK e : memory' = [memory EXCEPT ![w][Head(queue[w])] = e]
    BY <1>1, <1>5, FinishIs
  <2>3. memory'[w] = [memory[w] EXCEPT ![Head(queue[w])] = e] /\ DOMAIN memory[w] = Instances
    BY <1>2, <2>2 DEF Files
  <2>4. Has(file, w, i, run) => i # Head(queue[w])
    BY <1>3, <2>1 DEF Work, Missing, Has, Of
  <2>5. i # Head(queue[w]) => memory'[w][i] = memory[w][i]
    BY <2>3
  <2> QED
    BY <1>3, <2>1, <2>4, <2>5 DEF Has
<1>6. CASE Save(w)
  <2>1. memory' = memory /\ file'[w] = memory[w]
    BY <1>2, <1>6 DEF Save
  <2> QED
    BY <2>1 DEF Has, Of
<1>7. CASE Skip(w) \/ Take(w) \/ End(w) \/ Raise(w)
  <2>1. memory' = memory /\ file' = file
    BY <1>7 DEF Skip, Take, End, Raise
  <2>2. pc'[w] \in {"next", "ended"} => pc[w] \in {"next", "ended"}
    BY <1>2, <1>7 DEF Skip, Take, End, Raise
  <2> QED
    BY <1>3, <2>1, <2>2
<1> QED
  BY <1>4, <1>5, <1>6, <1>7 DEF Works

LEMMA SavedStays == ASSUME Work, Saved, [Next]_vars PROVE Saved'
<1>0. Base
  BY DEF Work
<1>1. CASE \E w \in Workers : Works(w)
  <2>1. PICK w \in Workers : Works(w)
    BY <1>1
  <2>2. phase \in Busy /\ run' = run
    BY <1>0, <2>1, WorksIs DEF Busy
  <2>3. ASSUME NEW v \in Workers, v # w, NEW i \in Instances
        PROVE  /\ Has(file', v, i, run) => memory'[v][i] = file'[v][i]
               /\ pc'[v] \in {"next", "ended"} /\ Has(memory', v, i, run) =>
                     file'[v] # None /\ file'[v][i] = memory'[v][i]
    <3>1. memory'[v] = memory[v] /\ pc'[v] = pc[v] /\ file'[v] = file[v]
      BY <1>0, <2>1, <2>3, WorksIs
    <3> QED
      BY <2>2, <3>1 DEF Saved, Has
  <2> QED
    BY <2>1, <2>2, <2>3, SavedByWorker DEF Saved
<1>2. CASE Outside \/ Publish \/ Leave
  <2>1. phase' \notin Busy
    BY <1>2 DEF Outside, Publish, Leave, Busy
  <2> QED
    BY <2>1 DEF Saved
<1>3. CASE Merge \/ UNCHANGED vars
  <2>1. /\ run' = run /\ memory' = memory /\ file' = file /\ pc' = pc
        /\ phase' \in Busy => phase \in Busy
    BY <1>3 DEF Merge, worker, vars, control, Over, Busy
  <2> QED
    BY <2>1 DEF Saved, Has
<1>4. CASE Launch
  <2>1. phase = "idle" /\ run' = run + 1 /\ memory' = memory /\ file' = file
    BY <1>4 DEF Launch
  <2> QED
    BY <2>1, NothingNewYet DEF Saved, Has
<1> QED
  BY <1>0, <1>1, <1>2, <1>3, <1>4, Kinds

\* What a step of a worker counts.
LEMMA CountsByWorker ==
    ASSUME Work, Saved, CountsOwn, NEW w \in Workers, Works(w)
    PROVE  /\ count'.all = Cardinality(Own(memory', run))
           /\ count'.env = Cardinality(Errors(memory', run))
<1>1. Base /\ phase \in Busy
  BY WorksIs DEF Work, Busy
<1>2. memory \in [Workers -> Files]
  BY <1>1 DEF Base, Types
<1>3. /\ count.all = Cardinality(Own(memory, run))
      /\ count.env = Cardinality(Errors(memory, run))
  BY <1>1 DEF CountsOwn
<1>4. CASE Finish(w)
  <2>1. PICK e \in Entries :
           /\ e.run = run
           /\ memory' = [memory EXCEPT ![w][Head(queue[w])] = e]
           /\ Counted(e)
    BY <1>1, <1>4, FinishIs
  <2>2. Head(queue[w]) \in Instances /\ memory[w][Head(queue[w])] = None
    BY <1>4 DEF Finish, Work, Missing
  <2>3. count'.all = count.all + 1 /\ count'.env = count.env + Ill(e)
    BY <2>1 DEF Counted, Ill
  <2>4. /\ Cardinality(Own(memory', run)) = Cardinality(Own(memory, run)) + 1
        /\ Cardinality(Errors(memory', run)) = Cardinality(Errors(memory, run)) + Ill(e)
    <3>1. memory' = Put(memory, w, Head(queue[w]), e) /\ e.run = run
      BY <2>1 DEF Put
    <3> QED
      BY <1>2, <2>2, <3>1, OwnGrows
  <2> QED
    BY <1>3, <2>3, <2>4
<1>5. CASE ~Finish(w)
  <2>1. count' = count /\ \A v \in Workers \ {w} : memory'[v] = memory[v]
    BY <1>1, <1>5, WorksIs
  <2>2. ASSUME NEW v \in Workers, NEW i \in Instances
        PROVE  /\ Has(memory', v, i, run) <=> Has(memory, v, i, run)
               /\ Has(memory', v, i, run) => memory'[v][i] = memory[v][i]
    <3>1. CASE Load(w) /\ v = w
      <4>1. pc[w] = "load" /\ file' = file /\ memory'[w] = Loaded(w)
        BY <1>2, <3>1 DEF Load
      <4>2. ~Has(memory, w, i, run) /\ ~Has(file, w, i, run)
        BY <1>1, <4>1, LoadsOnlyThePast
      <4>3. ~Has(memory', w, i, run)
        BY <4>1, <4>2, NothingIs DEF Loaded, Has, Of
      <4> QED
        BY <3>1, <4>2, <4>3
    <3>2. CASE ~Load(w) \/ v # w
      <4>1. memory'[v] = memory[v]
        BY <1>5, <2>1, <3>2, <1>1, WorksMoves
      <4> QED
        BY <4>1 DEF Has
    <3> QED
      BY <3>1, <3>2
  <2>3. /\ Own(memory', run) = Own(memory, run)
        /\ Errors(memory', run) = Errors(memory, run)
    BY <2>2, OwnAgrees
  <2> QED
    BY <1>3, <2>1, <2>3
<1> QED
  BY <1>4, <1>5

\* The results are on file when the metrics are published.
LEMMA AllIsSaved ==
    ASSUME Work, Saved, phase = "publishing"
    PROVE  Own(memory, run) = Own(file, run) /\ Errors(memory, run) = Errors(file, run)
<1>1. ASSUME NEW w \in Workers, NEW i \in Instances
      PROVE  /\ Has(memory, w, i, run) <=> Has(file, w, i, run)
             /\ Has(memory, w, i, run) => memory[w][i] = file[w][i]
  <2>1. pc[w] \in {"idle", "ended"} /\ Base /\ phase \in Busy
    BY DEF Work, Base, Quiet, Busy
  <2>2. CASE pc[w] = "idle"
    BY <2>1, <2>2, LoadsOnlyThePast
  <2>3. CASE pc[w] = "ended"
    <3>1. /\ Has(file, w, i, run) => memory[w][i] = file[w][i]
          /\ Has(memory, w, i, run) => file[w] # None /\ file[w][i] = memory[w][i]
      BY <2>1, <2>3 DEF Saved
    <3>2. memory[w] # None
      BY <2>1, EvalAssumption DEF Base, Types
    <3> QED
      BY <3>1, <3>2 DEF Has, Of
  <2> QED
    BY <2>1, <2>2, <2>3
<1> QED
  BY <1>1, OwnAgrees

LEMMA CountsStays == ASSUME Work, Saved, CountsOwn, [Next]_vars PROVE CountsOwn'
<1>0. Base
  BY DEF Work
<1>1. CASE \E w \in Workers : Works(w)
  <2>1. PICK w \in Workers : Works(w)
    BY <1>1
  <2>2. phase' = "running" /\ run' = run
    BY <1>0, <2>1, WorksIs
  <2>3. /\ count'.all = Cardinality(Own(memory', run'))
        /\ count'.env = Cardinality(Errors(memory', run'))
    BY <2>1, <2>2, CountsByWorker
  <2> QED
    BY <2>2, <2>3 DEF CountsOwn
<1>2. CASE Outside \/ Leave
  <2>1. phase' \notin Busy /\ phase' # "succeeded"
    BY <1>2 DEF Outside, Leave, Busy
  <2> QED
    BY <2>1 DEF CountsOwn
<1>3. CASE Merge
  <2>1. /\ run' = run /\ memory' = memory /\ count' = count
        /\ phase \in Busy /\ phase' = "publishing"
    BY <1>3 DEF Merge, worker, health, Over, Busy
  <2> QED
    BY <2>1 DEF CountsOwn
<1>4. CASE Publish
  <2>1. /\ phase = "publishing" /\ phase' = "succeeded" /\ run' = run /\ file' = file
        /\ count' = count /\ invalid' = invalid /\ metrics'.valid = ~invalid
    BY <1>4 DEF Publish, health
  <2>2. /\ count.all = Cardinality(Own(file, run))
        /\ count.env = Cardinality(Errors(file, run))
    BY <2>1, AllIsSaved DEF CountsOwn, Busy
  <2> QED
    BY <2>1, <2>2 DEF CountsOwn, Busy
<1>5. CASE Launch
  <2>1. /\ phase = "idle" /\ phase' = "running" /\ run' = run + 1 /\ memory' = memory
        /\ count' = [all |-> 0, env |-> 0]
    BY <1>5 DEF Launch
  <2>2. Own(memory, run + 1) = {}
    BY <2>1, NothingNewYet DEF Own
  <2>3. Errors(memory, run + 1) = {}
    BY <2>2 DEF Errors
  <2> QED
    BY <2>1, <2>2, <2>3, FS_EmptySet DEF CountsOwn
<1>6. CASE UNCHANGED vars
  <2>1. /\ run' = run /\ memory' = memory /\ file' = file /\ count' = count
        /\ phase' = phase /\ invalid' = invalid /\ metrics' = metrics
    BY <1>6 DEF vars, control, worker, health, output
  <2> QED
    BY <2>1 DEF CountsOwn
<1> QED
  BY <1>0, <1>1, <1>2, <1>3, <1>4, <1>5, <1>6, Kinds

LEMMA HealthStays == ASSUME Work, Health, [Next]_vars PROVE Health'
<1>0. Base
  BY DEF Work
<1>1. CASE \E w \in Workers : Finish(w)
  <2>1. PICK w \in Workers : Finish(w)
    BY <1>1
  <2>2. PICK e : Counted(e)
    BY <1>0, <2>1, FinishIs
  <2>3. invalid' = (invalid \/ TooMany(count')) /\ stop' = (stop \/ TooMany(count'))
    BY <2>2 DEF Counted
  <2> QED
    BY <2>3 DEF Health
<1>2. CASE Launch
  <2>1. count'.all = 0 /\ invalid' = FALSE /\ stop' = FALSE
    BY <1>2 DEF Launch
  <2> QED
    BY <2>1 DEF Health
<1>3. CASE \E w \in Workers : Works(w) /\ ~Finish(w)
  <2>1. count' = count /\ invalid' = invalid /\ stop' = stop
    BY <1>0, <1>3, WorksIs
  <2> QED
    BY <2>1 DEF Health, TooMany
<1>4. CASE Outside \/ Merge \/ Publish \/ Leave \/ UNCHANGED vars
  <2>1. count' = count /\ invalid' = invalid /\ stop' = stop
    BY <1>4 DEF Outside, Merge, Publish, Leave, vars, health
  <2> QED
    BY <2>1 DEF Health, TooMany
<1> QED
  BY <1>0, <1>1, <1>2, <1>3, <1>4, Kinds

LEMMA TallyAtFirst == Init => Tally
<1> SUFFICES ASSUME Init PROVE Tally
  OBVIOUS
<1>1. phase = "idle" /\ count.all = 0 /\ stop = invalid
  BY DEF Init
<1>2. Saved /\ CountsOwn /\ Health
  BY <1>1 DEF Saved, CountsOwn, Health, Busy
<1> QED
  BY <1>2, WorkAtFirst DEF Tally

LEMMA TallyStays == Tally /\ [Next]_vars => Tally'
BY WorkStays, SavedStays, CountsStays, HealthStays DEF Tally

LEMMA TallyAlways == Spec => []Tally
BY TallyAtFirst, TallyStays, PTL DEF Spec

\* ValidMeansHealthy: metrics are called valid only when, among what this
\* invocation evaluated, environment errors stay below the threshold, in whatever
\* order the workers counted and stopped (update_failfast_state).
THEOREM ValidIsHealthy == Spec => []ValidMeansHealthy
<1>1. Tally => ValidMeansHealthy
  <2> SUFFICES ASSUME Tally, phase = "succeeded", metrics.valid
               PROVE  LET own == {x \in Workers \X Instances :
                                    file[x[1]] # None /\ file[x[1]][x[2]] # None
                                    /\ file[x[1]][x[2]].run = run}
                          bad == {x \in own : file[x[1]][x[2]].env}
                      IN  \/ Cardinality(own) < MinCount
                          \/ Cardinality(bad) * Den < Num * Cardinality(own)
    BY DEF ValidMeansHealthy
  <2> DEFINE own == Own(file, run)
             bad == Errors(file, run)
             n == Cardinality(own)
             m == Cardinality(bad)
  <2>1. n \in Nat /\ m \in Nat
    BY OwnIsFinite, FS_CardinalityType
  <2>2. count.all = n /\ count.env = m /\ ~invalid
    BY DEF Tally, CountsOwn
  <2>3. n = 0 \/ ~(n >= MinCount /\ m * Den >= Num * n)
    BY <2>2 DEF Tally, Health, TooMany
  <2> HIDE DEF n, m
  <2>4. n < MinCount \/ m * Den < Num * n
    <3> DEFINE a == m * Den
               b == Num * n
    <3>1. a \in Int /\ b \in Int /\ MinCount \in Nat /\ MinCount > 0
      BY <2>1, EvalAssumption
    <3>2. n = 0 \/ ~(n >= MinCount /\ a >= b)
      BY <2>3
    <3> HIDE DEF a, b
    <3>3. n < MinCount \/ a < b
      BY <2>1, <3>1, <3>2
    <3> QED
      BY <3>3 DEF a, b
  <2>5. /\ own = {x \in Workers \X Instances :
                    file[x[1]] # None /\ file[x[1]][x[2]] # None
                    /\ file[x[1]][x[2]].run = run}
        /\ bad = {x \in own : file[x[1]][x[2]].env}
    BY DEF Own, Errors, Has, Of
  <2> HIDE DEF own, bad
  <2> QED
    BY <2>4, <2>5 DEF n, m
<1> QED
  BY <1>1, TallyAlways, PTL

-----------------------------------------------------------------------------
\* What an invocation that does not resume publishes.

\* Worker w is about its bucket, and remembers nothing else.
Fresh(w) ==
    /\ \A i \in Instances : memory[w][i] # None =>
          memory[w][i].run = run /\ i \in ToSet(Bucket(call, w))
    /\ ToSet(queue[w]) \subseteq ToSet(Bucket(call, w))
    /\ \A i \in ToSet(Bucket(call, w)) : i \in ToSet(queue[w]) \/ memory[w][i] # None
    /\ pc[w] = "idle" => Bucket(call, w) = << >>
    /\ pc[w] # "idle" => Bucket(call, w) # << >>
    /\ pc[w] = "ended" => stop \/ queue[w] = << >>
    /\ pc[w] \in {"next", "ended"} => memory[w] = Nothing \/ file[w] = memory[w]

FreshWork == phase \in Busy /\ ~call.resume => \A w \in Workers : Fresh(w)

\* m is what invocation r of call c has evaluated.
Whole(m, c, r) ==
    \A i \in Instances :
        IF i \in ToSet(c.ids) THEN m[i] # None /\ m[i].run = r ELSE m[i] = None

FreshOut ==
    /\ phase = "publishing" /\ ~call.resume /\ ~invalid => Whole(merged, call, run)
    /\ phase = "succeeded" =>
          /\ metrics.run = run
          /\ metrics.valid /\ ~metrics.call.resume => Whole(merged, metrics.call, run)
    /\ summary # None /\ summary.ok =>
          /\ summary.metrics.run = summary.run
          /\ summary.metrics.valid /\ ~summary.metrics.call.resume =>
                Whole(summary.merged, summary.metrics.call, summary.run)

Output == Tally /\ FreshWork /\ FreshOut

LEMMA HeadOrTail ==
    ASSUME NEW S, NEW s \in Seq(S), s # << >>
    PROVE  ToSet(s) = {Head(s)} \cup ToSet(Tail(s))
<1>1. /\ Len(s) \in Nat \ {0} /\ s = [k \in 1 .. Len(s) |-> s[k]] /\ Head(s) = s[1]
      /\ DOMAIN s = 1 .. Len(s)
  OBVIOUS
<1>2. /\ DOMAIN Tail(s) = 1 .. Len(s) - 1
      /\ \A k \in 1 .. Len(s) - 1 : Tail(s)[k] = s[k + 1]
  OBVIOUS
<1>3. ToSet(Tail(s)) \subseteq ToSet(s)
  <2>1. \A k \in 1 .. Len(s) - 1 : k + 1 \in 1 .. Len(s)
    BY <1>1
  <2> QED
    BY <1>1, <1>2, <2>1 DEF ToSet
<1>4. Head(s) \in ToSet(s)
  BY <1>1 DEF ToSet
<1>5. ASSUME NEW k \in 1 .. Len(s)
      PROVE  s[k] \in {Head(s)} \cup ToSet(Tail(s))
  <2>1. CASE k = 1
    BY <1>1, <2>1
  <2>2. CASE k # 1
    <3>1. k - 1 \in 1 .. Len(s) - 1 /\ (k - 1) + 1 = k
      BY <1>1, <2>2
    <3>2. Tail(s)[k - 1] = s[k]
      BY <1>2, <3>1
    <3> QED
      BY <1>2, <3>1, <3>2 DEF ToSet
  <2> QED
    BY <2>1, <2>2
<1> QED
  BY <1>1, <1>3, <1>4, <1>5 DEF ToSet

\* A worker's step of an invocation that does not resume.
LEMMA FreshByWorker ==
    ASSUME Tally, NEW w \in Workers, Works(w), ~call.resume, Fresh(w)
    PROVE  Fresh(w)'
<1>1. /\ Work /\ Base /\ Saved /\ phase \in Busy /\ call' = call /\ run' = run
      /\ call \in Calls
  BY WorksIs DEF Tally, Work, Busy
<1>2. /\ pc \in [Workers -> Points] /\ queue \in [Workers -> Seq(Instances)]
      /\ memory \in [Workers -> Files] /\ file \in [Workers -> Files \cup {None}]
  BY <1>1 DEF Base, Types
<1> DEFINE b == ToSet(Bucket(call, w))
<1>3. /\ \A i \in Instances : memory[w][i] # None => memory[w][i].run = run /\ i \in b
      /\ ToSet(queue[w]) \subseteq b
      /\ \A i \in b : i \in ToSet(queue[w]) \/ memory[w][i] # None
      /\ Bucket(call, w) # << >>
  BY <1>1, WorksIs DEF Fresh
<1>4. queue[w] # << >> => ToSet(queue[w]) = {Head(queue[w])} \cup ToSet(Tail(queue[w]))
  BY <1>2, HeadOrTail
<1>5. /\ pc'[w] \in Points \ {"idle"}
      /\ pc'[w] = "ended" => stop' \/ queue'[w] = << >>
  <2>1. CASE End(w)
    BY <1>2, <2>1 DEF End, health, Points
  <2>2. CASE ~End(w)
    <3>1. pc'[w] \in {"next", "evaluating", "saving", "raised"}
      BY <1>2, <2>2 DEF Works, Load, Skip, Take, Finish, Evaluated, Save, Raise
    <3> QED
      BY <3>1 DEF Points
  <2> QED
    BY <2>1, <2>2
<1> HIDE DEF b
<1>6. CASE Load(w)
  <2>1. /\ memory'[w] = Nothing /\ queue' = queue
        /\ memory[w] = Nothing
    BY <1>1, <1>2, <1>6 DEF Load, Loaded, Base, Quiet
  <2> QED
    BY <1>1, <1>3, <1>5, <2>1, NothingIs DEF Fresh, Nothing, b
<1>7. CASE Skip(w)
  <2>1. /\ memory' = memory /\ file' = file /\ queue'[w] = Tail(queue[w]) /\ pc[w] = "next"
        /\ queue[w] # << >> /\ memory[w][Head(queue[w])] # None
    BY <1>2, <1>7 DEF Skip
  <2>2. /\ ToSet(queue'[w]) \subseteq b
        /\ \A i \in b : i \in ToSet(queue'[w]) \/ memory[w][i] # None
    BY <1>3, <1>4, <2>1
  <2>3. memory[w] = Nothing \/ file[w] = memory[w]
    BY <2>1 DEF Fresh
  <2> QED
    BY <1>1, <1>3, <1>5, <2>1, <2>2, <2>3 DEF Fresh, Nothing, b
<1>8. CASE Take(w) \/ End(w) \/ Raise(w)
  <2>1. /\ memory' = memory /\ file' = file /\ queue' = queue
        /\ pc'[w] \in {"next", "ended"} => pc[w] = "next"
    BY <1>2, <1>8 DEF Take, End, Raise
  <2>2. pc[w] = "next" => memory[w] = Nothing \/ file[w] = memory[w]
    BY DEF Fresh
  <2> QED
    BY <1>1, <1>3, <1>5, <2>1, <2>2 DEF Fresh, Nothing, b
<1>9. CASE Finish(w)
  <2>1. /\ queue' = queue /\ pc'[w] = "saving" /\ pc[w] = "evaluating"
        /\ Head(queue[w]) \in Instances
    BY <1>2, <1>9 DEF Finish, Evaluated
  <2>2. PICK e \in Entries : /\ e.run = run
                             /\ memory' = [memory EXCEPT ![w][Head(queue[w])] = e]
    BY <1>1, <1>9, FinishIs
  <2>3. queue[w] # << >>
    BY <1>1, <2>1 DEF Base, Types
  <2>4. Head(queue[w]) \in b
    BY <1>3, <1>4, <2>3
  <2>5. memory'[w] = [memory[w] EXCEPT ![Head(queue[w])] = e] /\ DOMAIN memory[w] = Instances
    BY <1>2, <2>2 DEF Files
  <2>6. e # None
    BY EvalAssumption
  <2>7. \A i \in Instances : memory'[w][i] # None => memory'[w][i].run = run /\ i \in b
    BY <1>3, <2>1, <2>2, <2>4, <2>5
  <2>8. b \subseteq Instances
    BY <1>1, BucketsAssumption DEF b, ToSet
  <2>9. \A i \in b : i \in ToSet(queue[w]) \/ memory'[w][i] # None
    BY <1>3, <2>5, <2>6, <2>8
  <2> QED
    BY <1>1, <1>3, <1>5, <2>1, <2>7, <2>9 DEF Fresh, Nothing, b
<1>10. CASE Save(w)
  <2>1. /\ memory' = memory /\ file'[w] = memory[w] /\ queue'[w] = Tail(queue[w])
        /\ pc[w] = "saving"
    BY <1>2, <1>10 DEF Save
  <2>2. queue[w] # << >> /\ memory[w][Head(queue[w])] # None
    BY <1>1, <2>1 DEF Base, Types, Work, Missing
  <2>3. /\ ToSet(queue'[w]) \subseteq b
        /\ \A i \in b : i \in ToSet(queue'[w]) \/ memory[w][i] # None
    BY <1>3, <1>4, <2>1, <2>2
  <2> QED
    BY <1>1, <1>3, <1>5, <2>1, <2>3 DEF Fresh, Nothing, b
<1> QED
  BY <1>6, <1>7, <1>8, <1>9, <1>10 DEF Works

LEMMA FreshStays == ASSUME Tally, FreshWork, [Next]_vars PROVE FreshWork'
<1>0. Base
  BY DEF Tally, Work
<1>1. CASE \E w \in Workers : Works(w)
  <2>1. PICK w \in Workers : Works(w)
    BY <1>1
  <2>2. phase \in Busy /\ call' = call /\ run' = run
    BY <1>0, <2>1, WorksIs DEF Busy
  <2>3. ASSUME NEW v \in Workers, v # w, ~call.resume
        PROVE  Fresh(v)'
    <3>1. /\ memory'[v] = memory[v] /\ pc'[v] = pc[v] /\ file'[v] = file[v]
          /\ queue'[v] = queue[v]
      BY <1>0, <2>1, <2>3, WorksIs
    <3>2. stop => stop'
      <4>1. CASE Finish(w)
        <5>1. PICK e : Counted(e)
          BY <1>0, <4>1, FinishIs
        <5> QED
          BY <5>1 DEF Counted
      <4>2. CASE ~Finish(w)
        BY <1>0, <2>1, <4>2, WorksIs
      <4> QED
        BY <4>1, <4>2
    <3>3. Fresh(v)
      BY <2>2, <2>3 DEF FreshWork
    <3> QED
      BY <2>2, <3>1, <3>2, <3>3 DEF Fresh, Nothing
  <2>4. ~call.resume => Fresh(w)'
    BY <2>1, <2>2, FreshByWorker DEF FreshWork
  <2> QED
    BY <2>2, <2>3, <2>4 DEF FreshWork
<1>2. CASE Outside \/ Publish \/ Leave
  <2>1. phase' \notin Busy
    BY <1>2 DEF Outside, Publish, Leave, Busy
  <2> QED
    BY <2>1 DEF FreshWork
<1>3. CASE Merge \/ UNCHANGED vars
  <2>1. /\ run' = run /\ memory' = memory /\ file' = file /\ pc' = pc /\ queue' = queue
        /\ call' = call /\ stop' = stop
        /\ phase' \in Busy => phase \in Busy
    BY <1>3 DEF Merge, worker, vars, control, health, Over, Busy
  <2> QED
    BY <2>1 DEF FreshWork, Fresh, Nothing
<1>4. CASE Launch
  <2>1. PICK c \in Calls :
           /\ call' = c /\ queue' = [w \in Workers |-> Bucket(c, w)]
           /\ pc' = [w \in Workers |-> IF Bucket(c, w) # << >> THEN "load" ELSE "idle"]
    BY <1>4 DEF Launch
  <2>2. memory' = memory /\ \A w \in Workers : memory[w] = Nothing
    BY <1>0, <1>4 DEF Launch, Base, Quiet, Busy
  <2>3. ASSUME NEW w \in Workers
        PROVE  Fresh(w)'
    <3>1. queue'[w] = Bucket(c, w) /\ memory'[w] = Nothing
      BY <2>1, <2>2
    <3>2. /\ pc'[w] \in {"load", "idle"}
          /\ pc'[w] = "idle" <=> Bucket(c, w) = << >>
      BY <2>1
    <3> QED
      BY <2>1, <3>1, <3>2, NothingIs DEF Fresh, Nothing
  <2> QED
    BY <2>3 DEF FreshWork
<1> QED
  BY <1>0, <1>1, <1>2, <1>3, <1>4, Kinds

LEMMA GreatestOf ==
    ASSUME NEW n \in Nat, NEW K \in SUBSET (1 .. n), K # {}
    PROVE  \E k \in K : \A j \in K : j <= k
<1> DEFINE L == {x \in 0 .. n : n - x \in K}
<1>1. L \in SUBSET Nat /\ L # {}
  <2>1. PICK k \in K : TRUE
    OBVIOUS
  <2>2. n - k \in 0 .. n /\ n - (n - k) = k
    OBVIOUS
  <2>3. n - k \in L
    BY <2>2
  <2>4. L \in SUBSET Nat
    OBVIOUS
  <2> HIDE DEF L
  <2> QED
    BY <2>3, <2>4
<1>2. PICK x \in L : \A y \in L : x <= y
  <2> HIDE DEF L
  <2> QED
    BY <1>1, LeastOfNat
<1>3. ASSUME NEW j \in K
      PROVE  j <= n - x
  <2>1. n - j \in 0 .. n /\ n - (n - j) = j
    OBVIOUS
  <2>2. n - j \in L
    BY <2>1
  <2>3. x <= n - j
    BY <1>2, <2>2
  <2> QED
    BY <2>3
<1> QED
  BY <1>2, <1>3

\* Every file is merged.
LEMMA OrderIsOnto ==
    ASSUME NEW S, IsFiniteSet(S), NEW order \in SetToSeqs(S)
    PROVE  /\ Cardinality(S) \in Nat /\ DOMAIN order = 1 .. Cardinality(S)
           /\ \A k \in DOMAIN order : order[k] \in S
           /\ \A s \in S : \E k \in DOMAIN order : order[k] = s
<1> DEFINE n == Cardinality(S)
           D == 1 .. n
<1>1. n \in Nat
  BY FS_CardinalityType
<1>2. order \in [D -> S] /\ \A i, j \in D : i # j => order[i] # order[j]
  BY DEF SetToSeqs
<1>3. IsFiniteSet(D) /\ Cardinality(D) = n
  <2>1. Cardinality(D) = IF 1 > n THEN 0 ELSE n - 1 + 1
    BY <1>1, FS_Interval
  <2> HIDE DEF n
  <2>2. IsFiniteSet(D)
    BY <1>1, FS_Interval
  <2> QED
    BY <1>1, <2>1, <2>2
<1> HIDE DEF D
<1>4. order \in Injection(D, S)
  BY <1>2 DEF Injection, IsInjective
<1>5. order \in Surjection(D, S)
  BY <1>3, <1>4, FS_Injection, Zenon DEF n
<1>6. \A s \in S : \E k \in D : order[k] = s
  BY <1>5 DEF Surjection
<1> QED
  BY <1>1, <1>2, <1>6 DEF D

\* A worker that ended without being stopped has saved all of its bucket.
LEMMA EndedHasAll ==
    ASSUME Tally, FreshWork, phase = "running", ~call.resume, ~invalid,
           NEW w \in Workers, pc[w] = "ended"
    PROVE  /\ file[w] = memory[w] /\ file[w] # None
           /\ \A i \in Instances :
                 /\ i \in ToSet(Bucket(call, w)) <=> memory[w][i] # None
                 /\ memory[w][i] # None => memory[w][i].run = run
<1>1. Base /\ phase \in Busy /\ ~stop /\ call \in Calls
  BY DEF Tally, Work, Base, Types, Busy, Health
<1>2. Fresh(w)
  BY <1>1 DEF FreshWork
<1>3. queue[w] = << >> /\ ToSet(queue[w]) = {}
  BY <1>1, <1>2 DEF Fresh, ToSet
<1> DEFINE b == ToSet(Bucket(call, w))
<1>4. Bucket(call, w) # << >> /\ Bucket(call, w) \in Seq(Instances)
  BY <1>1, <1>2, BucketsAssumption DEF Fresh
<1>5. b # {} /\ b \subseteq Instances
  <2>1. Bucket(call, w)[1] \in b
    BY <1>4 DEF ToSet
  <2>2. b \subseteq Instances
    BY <1>4 DEF ToSet
  <2> QED
    BY <2>1, <2>2
<1>6. \A i \in b : memory[w][i] # None
  BY <1>2, <1>3 DEF Fresh
<1>7. \A i \in Instances : memory[w][i] # None => memory[w][i].run = run /\ i \in b
  BY <1>2 DEF Fresh
<1> HIDE DEF b
<1>8. memory[w] # Nothing
  BY <1>5, <1>6, NothingIs
<1>9. file[w] = memory[w]
  BY <1>2, <1>8 DEF Fresh
<1>10. memory[w] # None
  BY <1>1, EvalAssumption DEF Base, Types
<1> QED
  BY <1>6, <1>7, <1>9, <1>10 DEF b

LEMMA MergeIsWhole ==
    ASSUME Tally, FreshWork, Merge, ~call.resume, ~invalid
    PROVE  Whole(merged', call, run)
<1>1. /\ phase = "running" /\ call \in Calls /\ Base
      /\ \A w \in Workers : pc[w] \in {"idle", "ended"}
  BY DEF Merge, Over, Tally, Work, Base, Types, Busy
<1>2. PICK order \in SetToSeqs(Ended) :
         merged' = [i \in Instances |->
             LET found == {k \in DOMAIN order : file[order[k]][i] # None}
                 last  == CHOOSE k \in found : \A j \in found : j <= k
             IN  IF found # {} THEN file[order[last]][i]
                 ELSE IF i \in ToSet(call.ids) THEN [Failed EXCEPT !.run = run]
                 ELSE None]
  BY DEF Merge
<1>3. IsFiniteSet(Ended) /\ Ended \subseteq Workers
  BY EvalAssumption, FS_Subset DEF Ended
<1>4. /\ Cardinality(Ended) \in Nat /\ DOMAIN order = 1 .. Cardinality(Ended)
      /\ \A k \in DOMAIN order : order[k] \in Ended
      /\ \A w \in Ended : \E k \in DOMAIN order : order[k] = w
  BY <1>3, OrderIsOnto
<1>5. ASSUME NEW i \in Instances
      PROVE  IF i \in ToSet(call.ids) THEN merged'[i] # None /\ merged'[i].run = run
             ELSE merged'[i] = None
  <2> DEFINE found == {k \in DOMAIN order : file[order[k]][i] # None}
             last  == CHOOSE k \in found : \A j \in found : j <= k
  <2>1. merged'[i] = IF found # {} THEN file[order[last]][i]
                     ELSE IF i \in ToSet(call.ids) THEN [Failed EXCEPT !.run = run]
                     ELSE None
    BY <1>2
  <2>2. ASSUME NEW k \in DOMAIN order
        PROVE  /\ order[k] \in Workers
               /\ i \in ToSet(Bucket(call, order[k])) <=> k \in found
               /\ k \in found => file[order[k]][i] # None /\ file[order[k]][i].run = run
    <3>1. order[k] \in Workers /\ pc[order[k]] = "ended"
      BY <1>4 DEF Ended
    <3> QED
      BY <1>1, <3>1, EndedHasAll
  <2>3. found # {} => last \in found
    <3>1. found \in SUBSET (1 .. Cardinality(Ended))
      BY <1>4
    <3> HIDE DEF found
    <3> QED
      BY <1>4, <3>1, GreatestOf
  <2>4. found \subseteq DOMAIN order
    OBVIOUS
  <2> HIDE DEF found, last
  <2>5. CASE i \in ToSet(call.ids)
    <3>1. PICK w \in Workers : i \in ToSet(Bucket(call, w))
      BY <1>1, <2>5, BucketsAssumption
    <3>2. Bucket(call, w) # << >>
      BY <3>1 DEF ToSet
    <3>3. pc[w] = "ended"
      <4>1. Fresh(w)
        BY <1>1, <3>1 DEF FreshWork, Busy
      <4> QED
        BY <1>1, <3>2, <4>1 DEF Fresh
    <3>4. w \in Ended
      BY <1>1, <3>3, EndedHasAll DEF Ended
    <3>5. PICK k \in DOMAIN order : order[k] = w
      BY <1>4, <3>4
    <3>6. k \in found
      BY <2>2, <3>1, <3>5
    <3>7. merged'[i] = file[order[last]][i] /\ last \in found
      BY <2>1, <2>3, <3>6
    <3> QED
      BY <2>2, <2>4, <2>5, <3>7
  <2>6. CASE i \notin ToSet(call.ids)
    <3>1. \A w \in Workers : i \notin ToSet(Bucket(call, w))
      BY <1>1, <2>6, BucketsAssumption
    <3>2. found = {}
      BY <2>2, <2>4, <3>1
    <3> QED
      BY <2>1, <2>6, <3>2
  <2> QED
    BY <2>5, <2>6
<1> QED
  BY <1>5 DEF Whole

LEMMA OutStays == ASSUME Tally, FreshWork, FreshOut, [Next]_vars PROVE FreshOut'
<1>0. Base
  BY DEF Tally, Work
<1> DEFINE Told(s) == s # None /\ s.ok =>
              /\ s.metrics.run = s.run
              /\ s.metrics.valid /\ ~s.metrics.call.resume =>
                    Whole(s.merged, s.metrics.call, s.run)
<1>1. Told(summary)
  BY DEF FreshOut
<1>2. CASE \E w \in Workers : Works(w)
  <2>1. phase' = "running" /\ summary' = summary
    BY <1>0, <1>2, WorksIs
  <2> QED
    BY <1>1, <2>1 DEF FreshOut
<1>3. CASE Outside
  <2>1. phase' \notin {"publishing", "succeeded"}
    BY <1>3 DEF Outside
  <2>2. Told(summary')
    <3>1. CASE summary' = summary
      BY <1>1, <3>1
    <3>2. CASE summary' = [run |-> run, ok |-> Ok, metrics |-> metrics, merged |-> merged]
      <4>1. /\ summary'.run = run /\ summary'.ok = Ok /\ summary'.metrics = metrics
            /\ summary'.merged = merged
        BY <3>2
      <4>2. Ok => /\ metrics.run = run
                  /\ metrics.valid /\ ~metrics.call.resume =>
                        Whole(merged, metrics.call, run)
        BY DEF Ok, FreshOut
      <4> QED
        BY <4>1, <4>2
    <3> QED
      BY <1>3, <3>1, <3>2 DEF Outside
  <2> QED
    BY <2>1, <2>2 DEF FreshOut
<1>4. CASE Launch \/ Leave
  <2>1. phase' \notin {"publishing", "succeeded"} /\ summary' = summary
    BY <1>4 DEF Launch, Leave, output
  <2> QED
    BY <1>1, <2>1 DEF FreshOut
<1>5. CASE Merge
  <2>1. /\ phase' = "publishing" /\ summary' = summary /\ call' = call /\ run' = run
        /\ invalid' = invalid
    BY <1>5 DEF Merge, health
  <2>2. ~call.resume /\ ~invalid => Whole(merged', call, run)
    BY <1>5, MergeIsWhole
  <2> QED
    BY <1>1, <2>1, <2>2 DEF FreshOut
<1>6. CASE Publish
  <2>1. /\ phase = "publishing" /\ phase' = "succeeded" /\ summary' = summary
        /\ run' = run /\ merged' = merged
        /\ metrics'.run = run /\ metrics'.call = call /\ metrics'.valid = ~invalid
    BY <1>6 DEF Publish
  <2>2. ~call.resume /\ ~invalid => Whole(merged, call, run)
    BY <2>1 DEF FreshOut
  <2> QED
    BY <1>1, <2>1, <2>2 DEF FreshOut
<1>7. CASE UNCHANGED vars
  <2>1. /\ phase' = phase /\ summary' = summary /\ call' = call /\ run' = run
        /\ invalid' = invalid /\ metrics' = metrics /\ merged' = merged
    BY <1>7 DEF vars, control, health, output
  <2> QED
    BY <1>1, <2>1 DEF FreshOut
<1> QED
  BY <1>0, <1>2, <1>3, <1>4, <1>5, <1>6, <1>7, Kinds

LEMMA OutputAlways == Spec => []Output
<1>1. Init => Output
  <2> SUFFICES ASSUME Init PROVE Output
    OBVIOUS
  <2>1. Tally
    BY TallyAtFirst
  <2>2. FreshWork /\ FreshOut
    BY DEF Init, FreshWork, FreshOut, Busy
  <2> QED
    BY <2>1, <2>2 DEF Output
<1>2. Output /\ [Next]_vars => Output'
  BY TallyStays, FreshStays, OutStays DEF Output
<1> QED
  BY <1>1, <1>2, PTL DEF Spec

\* FreshCountsItself: the summary of a successful, valid evaluation that did not
\* resume has the instances asked for and no other one, each with a result of its
\* own invocation, in whatever order the workers' files are merged and whatever
\* other invocations left in their directories (main, where it merges the files).
THEOREM FreshIsItsOwn == Spec => []FreshCountsItself
<1>1. Output => FreshCountsItself
  BY DEF Output, FreshOut, Whole, FreshCountsItself
<1> QED
  BY <1>1, OutputAlways, PTL

-----------------------------------------------------------------------------
\* The type invariant.

\* Workers keep to their buckets, in what they will evaluate and have evaluated.
InBuckets ==
    phase \in Busy => \A w \in Workers :
        /\ ToSet(queue[w]) \subseteq ToSet(Bucket(call, w))
        /\ \A i \in Instances : Has(memory, w, i, run) => i \in ToSet(Bucket(call, w))

LEMMA InBucketByWorker ==
    ASSUME Tally, InBuckets, NEW w \in Workers, Works(w)
    PROVE  /\ ToSet(queue'[w]) \subseteq ToSet(Bucket(call, w))
           /\ \A i \in Instances : Has(memory', w, i, run) => i \in ToSet(Bucket(call, w))
<1>1. /\ Base /\ Saved /\ phase \in Busy
  BY WorksIs DEF Tally, Work, Busy
<1>2. /\ queue \in [Workers -> Seq(Instances)] /\ memory \in [Workers -> Files]
  BY <1>1 DEF Base, Types
<1> DEFINE b == ToSet(Bucket(call, w))
<1>3. /\ ToSet(queue[w]) \subseteq b
      /\ \A i \in Instances : Has(memory, w, i, run) => i \in b
  BY <1>1 DEF InBuckets
<1>4. queue[w] # << >> => ToSet(queue[w]) = {Head(queue[w])} \cup ToSet(Tail(queue[w]))
  BY <1>2, HeadOrTail
<1> HIDE DEF b
<1>5. CASE Load(w)
  <2>1. queue' = queue /\ pc[w] = "load" /\ memory'[w] \in {Nothing, file[w]}
    BY <1>2, <1>5 DEF Load, Loaded
  <2>2. \A i \in Instances : ~Has(file, w, i, run) /\ Nothing[i] = None
    BY <1>1, <2>1, LoadsOnlyThePast, NothingIs
  <2>3. \A i \in Instances : ~Has(memory', w, i, run)
    BY <2>1, <2>2 DEF Has, Of
  <2> QED
    BY <1>3, <2>1, <2>3 DEF b
<1>6. CASE Skip(w) \/ Save(w)
  <2>1. memory' = memory /\ queue'[w] = Tail(queue[w])
    BY <1>2, <1>6 DEF Skip, Save
  <2>2. queue[w] # << >>
    BY <1>1, <1>6 DEF Skip, Save, Base, Types
  <2>3. ToSet(queue'[w]) \subseteq b
    BY <1>3, <1>4, <2>1, <2>2
  <2> QED
    BY <1>3, <2>1, <2>3 DEF b
<1>7. CASE Take(w) \/ End(w) \/ Raise(w)
  <2>1. memory' = memory /\ queue' = queue
    BY <1>7 DEF Take, End, Raise
  <2> QED
    BY <1>3, <2>1 DEF b
<1>8. CASE Finish(w)
  <2>1. queue' = queue /\ pc[w] = "evaluating" /\ Head(queue[w]) \in Instances
    BY <1>8 DEF Finish, Evaluated
  <2>2. PICK e \in Entries : memory' = [memory EXCEPT ![w][Head(queue[w])] = e]
    BY <1>1, <1>8, FinishIs
  <2>3. Head(queue[w]) \in b
    BY <1>1, <1>3, <1>4, <2>1 DEF Base, Types
  <2>4. memory'[w] = [memory[w] EXCEPT ![Head(queue[w])] = e] /\ DOMAIN memory[w] = Instances
    BY <1>2, <2>2 DEF Files
  <2>5. memory[w] # None
    BY <1>2, EvalAssumption
  <2>6. ASSUME NEW i \in Instances, Has(memory', w, i, run)
        PROVE  i \in b
    <3>1. CASE i = Head(queue[w])
      BY <2>3, <3>1
    <3>2. CASE i # Head(queue[w])
      <4>1. memory'[w][i] = memory[w][i]
        BY <2>4, <3>2
      <4>2. Has(memory, w, i, run)
        BY <2>5, <2>6, <4>1 DEF Has, Of
      <4> QED
        BY <1>3, <4>2
    <3> QED
      BY <3>1, <3>2
  <2> QED
    BY <1>3, <2>1, <2>6 DEF b
<1> QED
  BY <1>5, <1>6, <1>7, <1>8 DEF Works

LEMMA InBucketsStay == ASSUME Tally, InBuckets, [Next]_vars PROVE InBuckets'
<1>0. Work /\ Base
  BY DEF Tally, Work
<1>1. ASSUME NEW w \in Workers, Works(w)
      PROVE  InBuckets'
  <2>1. phase \in Busy /\ call' = call /\ run' = run
    BY <1>0, <1>1, WorksIs DEF Busy
  <2>2. ASSUME NEW v \in Workers, v # w
        PROVE  queue'[v] = queue[v] /\ memory'[v] = memory[v]
    BY <1>0, <1>1, <2>2, WorksIs
  <2>3. /\ ToSet(queue'[w]) \subseteq ToSet(Bucket(call, w))
        /\ \A i \in Instances : Has(memory', w, i, run) => i \in ToSet(Bucket(call, w))
    BY <1>1, InBucketByWorker
  <2> QED
    BY <2>1, <2>2, <2>3 DEF InBuckets, Has, Of
<1>2. CASE Outside \/ Publish \/ Leave
  <2>1. phase' \notin Busy
    BY <1>2 DEF Outside, Publish, Leave, Busy
  <2> QED
    BY <2>1 DEF InBuckets
<1>3. CASE Merge \/ UNCHANGED vars
  <2>1. /\ run' = run /\ memory' = memory /\ queue' = queue /\ call' = call
        /\ phase' \in Busy => phase \in Busy
    BY <1>3 DEF Merge, worker, vars, control, Over, Busy
  <2> QED
    BY <2>1 DEF InBuckets, Has, Of
<1>4. CASE Launch
  <2>1. PICK c \in Calls : call' = c /\ queue' = [w \in Workers |-> Bucket(c, w)]
    BY <1>4 DEF Launch
  <2>2. phase = "idle" /\ memory' = memory /\ run' = run + 1
    BY <1>4 DEF Launch
  <2>3. \A w \in Workers : \A i \in Instances : ~Has(memory, w, i, run + 1)
    BY <1>0, <2>2, NothingNewYet
  <2> QED
    BY <2>1, <2>2, <2>3 DEF InBuckets, Has, Of
<1> QED
  BY <1>0, <1>1, <1>2, <1>3, <1>4, Kinds

\* An instance is evaluated by one worker, once.
LEMMA OwnIsSmall ==
    ASSUME NEW f, NEW c \in Calls, NEW r,
           \A w \in Workers : \A i \in Instances : Has(f, w, i, r) => i \in ToSet(Bucket(c, w))
    PROVE  Cardinality(Own(f, r)) <= Len(Dataset)
<1> DEFINE own == Own(f, r)
           at  == [x \in own |-> x[2]]
           all == 1 .. Len(Dataset)
<1>1. \A x \in own : x[1] \in Workers /\ x[2] \in Instances /\ x = <<x[1], x[2]>>
  BY DEF Own
<1>2. \A x \in own : x[2] \in ToSet(Bucket(c, x[1]))
  BY <1>1 DEF Own
<1>3. \A v, w \in Workers : v # w => ToSet(Bucket(c, v)) \cap ToSet(Bucket(c, w)) = {}
  BY BucketsAssumption
<1> HIDE DEF own
<1>4. \A x, y \in own : x[2] = y[2] => x = y
  <2> SUFFICES ASSUME NEW x \in own, NEW y \in own, x[2] = y[2]
               PROVE  x = y
    OBVIOUS
  <2>1. x[1] = y[1]
    BY <1>1, <1>2, <1>3
  <2> QED
    BY <1>1, <2>1
<1>5. at \in Injection(own, Instances)
  <2>1. at \in [own -> Instances]
    BY <1>1
  <2> QED
    BY <1>4, <2>1 DEF Injection, IsInjective
<1>6. Dataset \in Surjection(all, Instances)
  <2>1. Dataset \in [all -> Instances] /\ DOMAIN Dataset = all
    BY EvalAssumption
  <2>2. Instances = {Dataset[k] : k \in all}
    BY <2>1 DEF Instances
  <2> HIDE DEF all
  <2> QED
    BY <2>1, <2>2 DEF Surjection
<1>7. IsFiniteSet(all) /\ Cardinality(all) = Len(Dataset) /\ Len(Dataset) \in Nat
  BY EvalAssumption, FS_Interval
<1> HIDE DEF all, at
<1>8. IsFiniteSet(Instances) /\ Cardinality(Instances) <= Len(Dataset)
  BY <1>6, <1>7, FS_Surjection
<1>9. IsFiniteSet(own) /\ Cardinality(own) <= Cardinality(Instances)
  BY <1>5, <1>8, FS_Injection
<1>10. Cardinality(own) \in Nat /\ Cardinality(Instances) \in Nat
  BY <1>8, <1>9, FS_CardinalityType
<1> QED
  BY <1>7, <1>8, <1>9, <1>10 DEF own

Limits ==
    /\ run \in 0 .. MaxRuns
    /\ count.env \in Nat /\ count.all \in Nat
    /\ count.env <= count.all /\ count.all <= Len(Dataset)
    /\ faults \in 0 .. MaxFaults

LEMMA LimitsStay == ASSUME Tally, InBuckets, Limits, [Next]_vars PROVE Limits'
<1>0. Base
  BY DEF Tally, Work
<1>1. run' \in 0 .. MaxRuns
  <2>1. run' = run \/ (run < MaxRuns /\ run' = run + 1)
    BY DEF Next, Refuse, PreflightFails, Launch, Main, Merge, Publish, Abort, Summarise, Kill,
           Step, Load, Skip, Take, End, Evaluate, Save, Except, Raise, Evaluated, vars, control
  <2> QED
    BY <2>1, EvalAssumption DEF Limits
<1>2. faults' \in 0 .. MaxFaults
  <2>1. faults' = faults \/ Fault
    BY DEF Next, Refuse, PreflightFails, Launch, Main, Merge, Publish, Abort, Summarise, Kill,
           Step, Load, Skip, Take, End, Evaluate, Save, Except, Raise, vars
  <2> QED
    BY <2>1, EvalAssumption DEF Limits, Fault
<1>3. Len(Dataset) \in Nat
  BY EvalAssumption
<1> DEFINE Fits == /\ count'.env \in Nat /\ count'.all \in Nat
                   /\ count'.env <= count'.all /\ count'.all <= Len(Dataset)
<1>4. ASSUME NEW w \in Workers, Works(w)
      PROVE  Fits
  <2>1. phase' \in Busy
    BY <1>0, <1>4, WorksIs DEF Busy
  <2>2. Tally' /\ InBuckets'
    BY TallyStays, InBucketsStay
  <2>3. /\ count'.all = Cardinality(Own(memory', run'))
        /\ count'.env = Cardinality(Errors(memory', run'))
    BY <2>1, <2>2 DEF Tally, CountsOwn
  <2>4. Cardinality(Own(memory', run')) <= Len(Dataset)
    <3>1. call' \in Calls
      BY <2>1, <2>2 DEF Tally, Work, Base, Types
    <3>2. \A v \in Workers : \A i \in Instances :
             Has(memory', v, i, run') => i \in ToSet(Bucket(call', v))
      BY <2>1, <2>2 DEF InBuckets
    <3> QED
      BY <3>1, <3>2, OwnIsSmall
  <2>5. IsFiniteSet(Own(memory', run')) /\ Errors(memory', run') \subseteq Own(memory', run')
    BY OwnIsFinite DEF Errors
  <2>6. Cardinality(Errors(memory', run')) <= Cardinality(Own(memory', run'))
    BY <2>5, FS_Subset
  <2>7. Cardinality(Own(memory', run')) \in Nat /\ Cardinality(Errors(memory', run')) \in Nat
    BY OwnIsFinite, FS_CardinalityType
  <2> QED
    BY <2>3, <2>4, <2>6, <2>7
<1>5. ASSUME Launch
      PROVE  Fits
  <2>1. count' = [all |-> 0, env |-> 0]
    BY <1>5 DEF Launch
  <2> QED
    BY <1>3, <2>1
<1>6. ASSUME Outside \/ Merge \/ Publish \/ Leave \/ UNCHANGED vars
      PROVE  Fits
  <2>1. count' = count
    BY <1>6 DEF Outside, Merge, Publish, Leave, vars, health
  <2> QED
    BY <2>1 DEF Limits
<1>7. Fits
  BY <1>0, <1>4, <1>5, <1>6, Kinds
<1> QED
  BY <1>1, <1>2, <1>7 DEF Limits

\* The types of the evaluator's variables: workers are at work only while it runs,
\* and count no instance twice.
THEOREM EvalTypeCorrect == Spec => []EvalTypeOK
<1> DEFINE All == Tally /\ InBuckets /\ Limits
<1>1. Init => All
  <2> SUFFICES ASSUME Init PROVE InBuckets /\ Limits
    BY TallyAtFirst
  <2>1. Len(Dataset) \in Nat
    BY EvalAssumption
  <2> QED
    BY <2>1, EvalAssumption DEF Init, InBuckets, Limits, Busy
<1>2. All /\ [Next]_vars => All'
  BY TallyStays, InBucketsStay, LimitsStay
<1>3. All => EvalTypeOK
  <2> SUFFICES ASSUME Tally, Limits PROVE EvalTypeOK
    OBVIOUS
  <2>1. \A w \in Workers : pc[w] \in {"load", "next", "evaluating", "saving"} => phase = "running"
    BY DEF Tally, Work, Base, Quiet, Busy
  <2>2. stop = invalid
    BY DEF Tally, Health
  <2>3. /\ phase \in {"idle", "running", "publishing", "succeeded", "failed"}
        /\ \A w \in Workers : pc[w] \in Points
        /\ \A w \in Workers : pc[w] \in {"evaluating", "saving"} => queue[w] # << >>
    BY DEF Tally, Work, Base, Types
  <2> QED
    BY <2>1, <2>2, <2>3 DEF Limits, EvalTypeOK, Points
<1> HIDE DEF All
<1> QED
  BY <1>1, <1>2, <1>3, PTL DEF Spec

=============================================================================

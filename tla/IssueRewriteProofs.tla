------------------------- MODULE IssueRewriteProofs -------------------------
(***************************************************************************)
(* Proofs about IssueRewrite and its CostLedger, for every set of           *)
(* instances and answers and every number of workers, passes, revisions and *)
(* faults:                                                                  *)
(*   - TypeCorrect: the type invariant;                                     *)
(*   - TotalsComplete: a total that is stated misses no request;            *)
(*   - AnswersKept: no target is asked for twice under one revision;        *)
(*   - OldTargetsHaveReasons, CachesFixed: what the generation reads.       *)
(* The argument for AnswersKept: what a rewrite has been told is always the *)
(* beginning of what the journal recorded (TellOf), all of it is no JSON    *)
(* while questions are left, and a target of this revision is the last      *)
(* recorded answer; so a rewrite of it cannot come to the end of the record *)
(* and still be asking.                                                     *)
(***************************************************************************)
EXTENDS IssueRewrite, TLAPS

TellOf(i) ==
    /\ Len(told[i]) <= Len(answers[i])
    /\ \A k \in 1 .. Len(told[i]) : told[i][k] = answers[i][k]
    /\ \A k \in 1 .. Len(answers[i]) - 1 : answers[i][k] = "bad"
    /\ stage # "rewriting" => pc[i] = "returned" /\ told[i] = << >>
    /\ pc[i] \in {"queued", "admitted"} => told[i] = << >>
    /\ pc[i] \in {"asking", "sent", "recording"} =>
          \A k \in 1 .. Len(told[i]) : told[i][k] = "bad"
    /\ pc[i] \in {"sent", "recording"} => Len(told[i]) = Len(answers[i])
    /\ pc[i] \in {"saving", "settling"} =>
          Len(told[i]) > 0 /\ told[i][Len(told[i])] \in Texts
    /\ pc[i] = "settling" => target[i] = Target(i)
    /\ target[i] # None => target[i].rev <= revision
    /\ target[i] # None /\ target[i].rev = revision =>
          Len(answers[i]) > 0 /\ answers[i][Len(answers[i])] = target[i].text
    /\ settled[i] # None => settled[i].rev = revision

Tell == \A i \in Instances : TellOf(i)

(* What the rows of finished workers say of their targets. *)
Returned(i) ==
    /\ row[i] \in {"OK", "SKIP", "ERROR", "PAUSED_API", "escaped"}
    /\ row[i] \in {"OK", "SKIP"} => target[i].rev = revision

Settled(i) == row[i] = "ERROR" \/ target[i].rev = revision

RowsExplain ==
    /\ stage = "rewriting" => \A i \in Instances : pc[i] = "returned" => Returned(i)
    /\ stage = "judging" /\ rc = 0 => \A i \in Instances : Settled(i)
    /\ stage = "reading targets" =>
          \A i \in Instances : Settled(i) /\ (used[i] # None => used[i].target = target[i])
    /\ stage \notin {"reading targets", "reading cache"} => \A i \in Instances : used[i] = None

CacheKept ==
    /\ manifest # None => manifest = cache /\ copying = None
    /\ stage = "reading cache" =>
          /\ manifest # None
          /\ \A i \in Instances : used[i] # None => used[i].target = cache[i]

Remembered ==
    \A a \in made \ unrecorded : StartedRow(a) \in ledger.rows \/ ledger.junk

IInv == LedgerTypeOK /\ TypeOK /\ Tell /\ RowsExplain /\ CacheKept /\ Remembered
-----------------------------------------------------------------------------
LEMMA InitInv == Init => IInv
<1> SUFFICES ASSUME Init PROVE IInv
  OBVIOUS
<1>s. << >> \in Seq(Answers)
  OBVIOUS
<1>l. LedgerTypeOK
  BY DEF Init, LedgerInit, LedgerTypeOK
<1>n. 1 \in 1 .. MaxRevisions /\ 0 \in 0 .. Passes /\ 0 \in 0 .. MaxFaults /\ 0 \in 0 .. MaxRequests
  BY RewriteAssumption, LedgerAssumption
<1>1. TypeOK
  <2>1. DiskOK
    BY <1>s, <1>n DEF Init, DiskOK
  <2>2. ProcessOK
    BY <1>s, <1>n DEF Init, ProcessOK
  <2>3. ScriptOK
    BY <1>n, RewriteAssumption DEF Init, ScriptOK
  <2>4. CacheOK
    BY DEF Init, CacheOK
  <2> QED
    BY <2>1, <2>2, <2>3, <2>4 DEF TypeOK
<1>2. Tell
  BY DEF Init, Tell, TellOf
<1>3. RowsExplain /\ CacheKept
  BY DEF Init, RowsExplain, CacheKept
<1>4. Remembered
  BY DEF Init, Remembered, LedgerInit
<1> QED
  BY <1>1, <1>l, <1>2, <1>3, <1>4 DEF IInv
-----------------------------------------------------------------------------
(* Every append keeps the types of the ledger and what it remembers. *)
Kept(l) ==
    /\ l.rows \subseteq Rows /\ l.last \subseteq l.rows
    /\ l.junk \in BOOLEAN /\ l.open \in BOOLEAN
    /\ ledger.junk => l.junk
    /\ ledger.rows \subseteq l.rows \/ l.junk

LEMMA AppendKeeps ==
    ASSUME LedgerTypeOK, NEW text \in SUBSET Rows, NEW ended \in BOOLEAN
    PROVE  Kept(Extended(text, ended))
<1>1. CASE ledger.open
  BY <1>1 DEF LedgerTypeOK, Extended, Kept
<1>2. CASE ~ledger.open
  BY <1>2 DEF LedgerTypeOK, Extended, Kept
<1> QED
  BY <1>1, <1>2

LEMMA DamageKeeps ==
    ASSUME LedgerTypeOK, NEW r \in Rows, NEW l \in Damaged(r)
    PROVE  Kept(l)
<1>1. Kept(ledger)
  BY DEF LedgerTypeOK, Kept
<1>2. Kept(Extended({}, FALSE)) /\ Kept(Extended({r}, FALSE))
  BY AppendKeeps
<1> QED
  BY <1>1, <1>2 DEF Damaged

LEMMA AppendedHas ==
    ASSUME LedgerTypeOK, NEW r \in Rows
    PROVE  Kept(Appended(r)) /\ (r \in Appended(r).rows \/ Appended(r).junk)
<1>1. Kept(Appended(r))
  BY AppendKeeps DEF Appended
<1>2. r \in Appended(r).rows \/ Appended(r).junk
  BY DEF Appended, Extended
<1> QED
  BY <1>1, <1>2

(* What may happen to the ledger in one step. *)
LedgerStep ==
    \/ UNCHANGED ledgerVars
    \/ \E a \in Attempts : \/ Started(a) \/ StartLost(a) \/ FinishLost(a)
                           \/ \E priced \in BOOLEAN : Finished(a, priced)
    \/ Torn

LEMMA LedgerKept ==
    ASSUME LedgerTypeOK, Remembered, LedgerStep
    PROVE  LedgerTypeOK' /\ Remembered'
<1>r. \A a \in Attempts : /\ StartedRow(a) \in Rows
                          /\ \A p \in BOOLEAN : FinishedRow(a, p) \in Rows
  BY DEF StartedRow, FinishedRow, Rows
<1>k. Kept(ledger') /\ made \subseteq made' /\ UNCHANGED <<made, unrecorded>>
          => LedgerTypeOK' /\ Remembered'
  BY DEF Kept, LedgerTypeOK, Remembered
<1>1. CASE UNCHANGED ledgerVars
  BY <1>1 DEF ledgerVars, LedgerTypeOK, Remembered
<1>2. CASE Torn
  BY <1>2, <1>k, AppendKeeps DEF Torn
<1>3. ASSUME NEW a \in Attempts, Started(a)
      PROVE  LedgerTypeOK' /\ Remembered'
  <2>1. Kept(ledger') /\ (StartedRow(a) \in ledger'.rows \/ ledger'.junk)
    BY <1>3, <1>r, AppendedHas DEF Started
  <2> QED
    BY <1>3, <2>1 DEF Started, Kept, LedgerTypeOK, Remembered
<1>4. ASSUME NEW a \in Attempts, StartLost(a)
      PROVE  LedgerTypeOK' /\ Remembered'
  <2>1. Kept(ledger')
    BY <1>4, <1>r, DamageKeeps DEF StartLost
  <2> QED
    BY <1>4, <2>1 DEF StartLost, Kept, LedgerTypeOK, Remembered
<1>5. ASSUME NEW a \in Attempts, FinishLost(a)
      PROVE  LedgerTypeOK' /\ Remembered'
  <2>1. PICK p \in BOOLEAN : ledger' \in Damaged(FinishedRow(a, p))
    BY <1>5 DEF FinishLost
  <2>2. Kept(ledger')
    BY <2>1, <1>r, DamageKeeps
  <2> QED
    BY <1>5, <2>2, <1>k DEF FinishLost
<1>6. ASSUME NEW a \in Attempts, NEW p \in BOOLEAN, Finished(a, p)
      PROVE  LedgerTypeOK' /\ Remembered'
  <2>1. Kept(ledger) /\ Kept(Appended(FinishedRow(a, p)))
    BY <1>r, AppendedHas DEF LedgerTypeOK, Kept
  <2> QED
    BY <1>6, <2>1, <1>k DEF Finished
<1> QED
  BY <1>1, <1>2, <1>3, <1>4, <1>5, <1>6 DEF LedgerStep

LEMMA NextLedger == TypeOK /\ [Next]_vars => LedgerStep
<1> SUFFICES ASSUME TypeOK, [Next]_vars PROVE LedgerStep
  OBVIOUS
<1> USE DEF LedgerStep
<1>w. ASSUME NEW i \in Instances, Worker(i) PROVE LedgerStep
  <2>1. CASE Request(i)
    BY <2>1 DEF Request
  <2>2. CASE Answer(i)
    BY <2>2 DEF Answer, TypeOK, ProcessOK
  <2>3. CASE ~Request(i) /\ ~Answer(i)
    BY <2>3, <1>w DEF Worker, Admit, Skip, Begin, Replay, Record, Save, Settle, Pause
  <2> QED
    BY <2>1, <2>2, <2>3
<1>m. ASSUME NEW i \in Instances, Mishap(i) PROVE LedgerStep
  <2>1. CASE NoAnswer(i)
    BY <2>1 DEF NoAnswer, TypeOK, ProcessOK
  <2>2. CASE ~NoAnswer(i)
    BY <2>2, <1>m DEF Mishap, Unable, Escape, RecordFails, SaveFails, SettleFails, PauseFails
  <2> QED
    BY <2>1, <2>2
<1>1. CASE Crash
  BY <1>1 DEF Crash
<1>2. CASE UNCHANGED vars
  BY <1>2 DEF vars
<1>3. CASE \/ Launch \/ LaunchWithCache \/ StartPass \/ Report \/ Refuse \/ Judge \/ End
           \/ Freeze \/ Seal \/ FreezeFails
           \/ \E i \in Instances : Load(i) \/ Copy(i)
  BY <1>3 DEF Launch, LaunchWithCache, StartPass, Report, Refuse, Judge, End,
     Freeze, Seal, FreezeFails, Load, Copy
<1> QED
  BY <1>w, <1>m, <1>1, <1>2, <1>3 DEF Next

(* A worker leaves the script, the caches and the generation alone. *)
LEMMA WorkerFrame ==
    ASSUME NEW i \in Instances, Worker(i) \/ Mishap(i)
    PROVE  /\ UNCHANGED <<revision, stage, pass, rc, cache, manifest, copying, used>>
           /\ faults' = faults \/ Fault
           /\ pc[i] # "returned"
<1> USE DEF Locally, disk, script, frozen
<1>1. CASE \/ Admit(i) \/ Skip(i) \/ Begin(i) \/ Replay(i) \/ Request(i) \/ Answer(i)
  BY <1>1 DEF Admit, Skip, Begin, Replay, Request, Answer
<1>2. CASE \/ Record(i) \/ Save(i) \/ Settle(i) \/ Pause(i)
  BY <1>2 DEF Record, Save, Settle, Pause
<1>3. CASE Mishap(i)
  BY <1>3 DEF Mishap, Unable, Escape, NoAnswer, RecordFails, SaveFails, SettleFails, PauseFails
<1> QED
  BY <1>1, <1>2, <1>3 DEF Worker

(* The operator who freezes a cache changes nothing else. *)
Freezing == Freeze \/ Seal \/ FreezeFails \/ \E i \in Instances : Copy(i)

LEMMA FreezingFrame ==
    Freezing => /\ UNCHANGED <<disk, process, script, used>>
                /\ faults' = faults \/ Fault
  BY DEF Freezing, Freeze, Seal, FreezeFails, Copy

LEMMA FaultCounts ==
    ASSUME faults \in 0 .. MaxFaults, faults' = faults \/ Fault
    PROVE  faults' \in 0 .. MaxFaults
  BY RewriteAssumption DEF Fault

LEMMA UnchangedTypes ==
    /\ UNCHANGED disk /\ DiskOK => DiskOK'
    /\ UNCHANGED process /\ ProcessOK => ProcessOK'
    /\ UNCHANGED script /\ (faults' = faults \/ Fault) /\ ScriptOK => ScriptOK'
    /\ UNCHANGED <<frozen, used>> /\ CacheOK => CacheOK'
<1>1. ASSUME UNCHANGED disk, DiskOK PROVE DiskOK'
  BY <1>1 DEF disk, DiskOK
<1>2. ASSUME UNCHANGED process, ProcessOK PROVE ProcessOK'
  BY <1>2 DEF process, ProcessOK
<1>3. ASSUME UNCHANGED script, faults' = faults \/ Fault, ScriptOK PROVE ScriptOK'
  <2>1. faults' \in 0 .. MaxFaults
    BY <1>3, FaultCounts DEF ScriptOK
  <2> QED
    BY <1>3, <2>1 DEF script, ScriptOK
<1>4. ASSUME UNCHANGED <<frozen, used>>, CacheOK PROVE CacheOK'
  BY <1>4 DEF frozen, CacheOK
<1> QED
  BY <1>1, <1>2, <1>3, <1>4

(* A rewrite takes an answer: what it may do next. *)
LEMMA TakeTypes ==
    ASSUME TypeOK, NEW i \in Instances, NEW answer \in Answers, Take(i, answer),
           attempt' = attempt, event' = event
    PROVE  ProcessOK'
<1> USE DEF TypeOK, ProcessOK, Take, Goto, Return
<1>1. told' \in [Instances -> Seq(Answers)]
  OBVIOUS
<1>2. \/ pc' = [pc EXCEPT ![i] = "saving"] /\ row' = row
      \/ pc' = [pc EXCEPT ![i] = "asking"] /\ row' = row
      \/ pc' = [pc EXCEPT ![i] = "returned"] /\ row' = [row EXCEPT ![i] = "ERROR"]
  OBVIOUS
<1> QED
  BY <1>1, <1>2

LEMMA WorkerTypes ==
    ASSUME TypeOK, Tell, NEW i \in Instances, Worker(i) \/ Mishap(i)
    PROVE  DiskOK' /\ ProcessOK'
<1>a. "bad" \in Answers /\ Texts \subseteq Answers
  BY DEF Answers
<1> USE UnchangedTypes DEF TypeOK, DiskOK, ProcessOK, Locally, Goto, Return, disk
<1>Admit. CASE Admit(i)
  BY <1>Admit DEF Admit
<1>Skip. CASE Skip(i)
  BY <1>Skip DEF Skip
<1>Begin. CASE Begin(i)
  BY <1>Begin DEF Begin
<1>Replay. CASE Replay(i)
  <2>1. answers[i][Len(told[i]) + 1] \in Answers
    BY <1>Replay DEF Replay
  <2> QED
    BY <1>Replay, <2>1, TakeTypes DEF Replay
<1>Request. CASE Request(i)
  <2>1. PICK a \in Attempts : /\ attempt' = [attempt EXCEPT ![i] = a]
                              /\ pc' = [pc EXCEPT ![i] = "sent"]
    BY <1>Request DEF Request
  <2>2. UNCHANGED <<told, row, event, disk>>
    BY <1>Request DEF Request
  <2> QED
    BY <2>1, <2>2 DEF Attempts
<1>Answer. CASE Answer(i)
  <2>1. attempt' = [attempt EXCEPT ![i] = 0] /\ pc' = [pc EXCEPT ![i] = "recording"]
    BY <1>Answer DEF Answer
  <2>2. UNCHANGED <<told, row, event, disk>>
    BY <1>Answer DEF Answer
  <2> QED
    BY <2>1, <2>2, LedgerAssumption
<1>Record. CASE Record(i)
  <2>1. PICK answer \in Answers : /\ Take(i, answer)
                                  /\ answers' = [answers EXCEPT ![i] = Append(@, answer)]
    BY <1>Record DEF Record, Answers
  <2>2. ProcessOK'
    BY <1>Record, <2>1, TakeTypes DEF Record
  <2>3. answers' \in [Instances -> Seq(Answers)]
    BY <2>1
  <2> QED
    BY <1>Record, <2>2, <2>3 DEF Record
<1>Save. CASE Save(i)
  <2>1. Target(i) \in Targets
    BY <1>Save DEF Save, Tell, TellOf, Target, Targets
  <2>2. target' \in [Instances -> Targets \cup {None}]
    BY <1>Save, <2>1 DEF Save
  <2> QED
    BY <1>Save, <2>2 DEF Save
<1>Settle. CASE Settle(i)
  <2>1. settled' \in [Instances -> Targets \cup {None}]
    BY <1>Settle DEF Settle
  <2> QED
    BY <1>Settle, <2>1 DEF Settle
<1>Pause. CASE Pause(i)
  BY <1>Pause DEF Pause
<1>Unable. CASE Unable(i)
  BY <1>Unable DEF Unable
<1>Escape. CASE Escape(i)
  BY <1>Escape DEF Escape
<1>NoAnswer. CASE NoAnswer(i)
  <2>1. \/ pc' = [pc EXCEPT ![i] = "asking"] /\ row' = row
        \/ pc' = [pc EXCEPT ![i] = "pausing"] /\ row' = row
        \/ pc' = [pc EXCEPT ![i] = "returned"] /\ row' = [row EXCEPT ![i] = "ERROR"]
    BY <1>NoAnswer DEF NoAnswer
  <2>2. attempt' = [attempt EXCEPT ![i] = 0] /\ UNCHANGED <<told, event, disk>>
    BY <1>NoAnswer DEF NoAnswer
  <2>3. ProcessOK'
    <3>1. attempt' \in [Instances -> 0 .. MaxRequests]
      BY <2>2, LedgerAssumption
    <3>2. /\ pc' \in [Instances -> {"queued", "admitted", "asking", "sent", "recording",
                                    "saving", "settling", "pausing", "returned"}]
          /\ row' \in [Instances -> {"none", "OK", "SKIP", "ERROR", "PAUSED_API", "escaped"}]
          /\ \A j \in Instances : pc'[j] = "sent" => pc[j] = "sent" /\ attempt'[j] = attempt[j]
      BY <2>1, <2>2
    <3> QED
      BY <3>1, <3>2, <2>2
  <2> QED
    BY <2>2, <2>3
<1>RecordFails. CASE RecordFails(i)
  BY <1>RecordFails DEF RecordFails
<1>SaveFails. CASE SaveFails(i)
  BY <1>SaveFails DEF SaveFails
<1>SettleFails. CASE SettleFails(i)
  BY <1>SettleFails DEF SettleFails
<1>PauseFails. CASE PauseFails(i)
  BY <1>PauseFails DEF PauseFails
<1> QED
  BY <1>Admit, <1>Skip, <1>Begin, <1>Replay, <1>Request, <1>Answer, <1>Record, <1>Save, <1>Settle, <1>Pause,
     <1>Unable, <1>Escape, <1>NoAnswer, <1>RecordFails, <1>SaveFails, <1>SettleFails, <1>PauseFails
     DEF Worker, Mishap

LEMMA FreezingTypes ==
    ASSUME TypeOK, Freezing
    PROVE  CacheOK'
<1> USE DEF TypeOK, DiskOK, CacheOK, disk
<1>1. CASE Freeze
  BY <1>1 DEF Freeze
<1>2. CASE Seal
  BY <1>2 DEF Seal
<1>3. CASE FreezeFails
  BY <1>3 DEF FreezeFails
<1>4. ASSUME NEW i \in Instances, Copy(i) PROVE CacheOK'
  BY <1>4 DEF Copy
<1> QED
  BY <1>1, <1>2, <1>3, <1>4 DEF Freezing

(* The script, the process of the stage and the generation. *)
Staging == \/ Launch \/ LaunchWithCache \/ StartPass \/ Report \/ Refuse \/ Crash
           \/ Judge \/ End \/ \E i \in Instances : Load(i)

LEMMA OneUsed ==
    ASSUME NEW f \in [Instances -> Uses \cup {None}], NEW i \in Instances,
           NEW d \in {"stage", "cache"}, NEW t \in Targets
    PROVE  [f EXCEPT ![i] = [from |-> d, target |-> t]] \in [Instances -> Uses \cup {None}]
<1>1. [from |-> d, target |-> t] \in Uses
  BY DEF Uses
<1> QED
  BY <1>1

LEMMA LoadTypes ==
    ASSUME DiskOK, CacheOK, NEW i \in Instances, Load(i)
    PROVE  CacheOK'
<1>1. target[i] # None => target[i] \in Targets
  BY DEF DiskOK
<1>2. cache[i] # None => cache[i] \in Targets
  BY DEF CacheOK
<1>u. used \in [Instances -> Uses \cup {None}]
  BY DEF CacheOK
<1>3. ASSUME target[i] # None,
             used' = [used EXCEPT ![i] = [from |-> "stage", target |-> target[i]]]
      PROVE  used' \in [Instances -> Uses \cup {None}]
  <2>1. [used EXCEPT ![i] = [from |-> "stage", target |-> target[i]]]
           \in [Instances -> Uses \cup {None}]
    BY <1>1, <1>u, <1>3, OneUsed
  <2> QED
    BY <1>3, <2>1
<1>4. ASSUME cache[i] # None,
             used' = [used EXCEPT ![i] = [from |-> "cache", target |-> cache[i]]]
      PROVE  used' \in [Instances -> Uses \cup {None}]
  <2>1. [used EXCEPT ![i] = [from |-> "cache", target |-> cache[i]]]
           \in [Instances -> Uses \cup {None}]
    BY <1>2, <1>u, <1>4, OneUsed
  <2> QED
    BY <1>4, <2>1
<1> QED
  BY <1>3, <1>4 DEF Load, CacheOK, frozen

LEMMA StagingTypes ==
    ASSUME TypeOK, Staging
    PROVE  TypeOK'
<1>e. << >> \in Seq(Answers)
  OBVIOUS
<1>z. 0 \in 0 .. Passes
  BY RewriteAssumption
<1>p. ProcessEnds /\ UNCHANGED row => ProcessOK'
  <2> SUFFICES ASSUME ProcessEnds, UNCHANGED row PROVE ProcessOK'
    OBVIOUS
  <2>1. told' \in [Instances -> Seq(Answers)]
    BY <1>e DEF ProcessEnds
  <2>2. attempt' \in [Instances -> 0 .. MaxRequests]
    BY LedgerAssumption DEF ProcessEnds
  <2> QED
    BY <2>1, <2>2 DEF TypeOK, ProcessOK, ProcessEnds
<1> USE UnchangedTypes, RewriteAssumption DEF TypeOK, ScriptOK
<1>Launch. CASE Launch
  BY <1>Launch DEF Launch
<1>LaunchWithCache. CASE LaunchWithCache
  BY <1>LaunchWithCache DEF LaunchWithCache
<1>StartPass. CASE StartPass
  <2>1. DiskOK'
    <3>1. revision' \in 1 .. MaxRevisions
      BY <1>StartPass DEF StartPass, DiskOK
    <3>2. answers' \in [Instances -> Seq(Answers)]
      <4>1. answers' = answers \/ answers' = [i \in Instances |-> << >>]
        BY <1>StartPass DEF StartPass
      <4> QED
        <5>1. CASE answers' = answers
          BY <5>1 DEF DiskOK
        <5>2. CASE answers' = [i \in Instances |-> << >>]
          BY <5>2, <1>e
        <5> QED
          BY <4>1, <5>1, <5>2
    <3>3. settled' \in [Instances -> Targets \cup {None}]
      BY <1>StartPass DEF StartPass, DiskOK
    <3> QED
      BY <1>StartPass, <3>1, <3>2, <3>3 DEF StartPass, DiskOK
  <2>2. ProcessOK'
    BY <1>StartPass DEF StartPass, ProcessOK
  <2>3. ScriptOK' /\ UNCHANGED <<frozen, used>>
    BY <1>StartPass DEF StartPass
  <2> QED
    BY <2>1, <2>2, <2>3
<1>Report. CASE Report
  BY <1>Report, <1>p DEF Report, ExitStatus
<1>Refuse. CASE Refuse
  BY <1>Refuse, <1>p DEF Refuse, Fault
<1>Crash. CASE Crash
  BY <1>Crash, <1>p DEF Crash, Fault
<1>Judge. CASE Judge
  BY <1>Judge DEF Judge
<1>End. CASE End
  <2>1. CacheOK'
    <3>1. used' = [i \in Instances |-> None] /\ UNCHANGED frozen
      BY <1>End DEF End
    <3> QED
      BY <3>1 DEF CacheOK, frozen
  <2> QED
    <3>1. /\ UNCHANGED disk /\ UNCHANGED process /\ rc' = rc /\ faults' = faults
          /\ stage' = "ready" /\ pass' = 0
      BY <1>End DEF End
    <3>2. ScriptOK'
      BY <3>1, <1>z
    <3>3. DiskOK' /\ ProcessOK'
      BY <3>1
    <3> QED
      BY <3>2, <3>3, <2>1
<1>Load. ASSUME NEW i \in Instances, Load(i) PROVE TypeOK'
  <2>1. CacheOK'
    BY <1>Load, LoadTypes
  <2> QED
    BY <1>Load, <2>1 DEF Load, script
<1> QED
  BY <1>Launch, <1>LaunchWithCache, <1>StartPass, <1>Report, <1>Refuse, <1>Crash, <1>Judge, <1>End, <1>Load DEF Staging

LEMMA NextCases ==
    [Next]_vars => \/ \E i \in Instances : Worker(i) \/ Mishap(i)
                   \/ Freezing \/ Staging \/ UNCHANGED vars
  BY DEF Next, Freezing, Staging

LEMMA TypingNext == TypeOK /\ Tell /\ [Next]_vars => TypeOK'
<1> SUFFICES ASSUME TypeOK, Tell, [Next]_vars PROVE TypeOK'
  OBVIOUS
<1>1. ASSUME NEW i \in Instances, Worker(i) \/ Mishap(i) PROVE TypeOK'
  BY <1>1, WorkerTypes, WorkerFrame, UnchangedTypes DEF TypeOK, script, frozen
<1>2. CASE Freezing
  BY <1>2, FreezingTypes, FreezingFrame, UnchangedTypes DEF TypeOK
<1>3. CASE UNCHANGED vars
  BY <1>3, UnchangedTypes DEF TypeOK, vars
<1> QED
  BY <1>1, <1>2, <1>3, StagingTypes, NextCases
-----------------------------------------------------------------------------
(* A worker touches nothing of other instances. *)
LEMMA OthersUntouched ==
    ASSUME TypeOK, NEW i \in Instances, Worker(i) \/ Mishap(i),
           NEW j \in Instances, j # i
    PROVE  /\ pc'[j] = pc[j] /\ told'[j] = told[j] /\ answers'[j] = answers[j]
           /\ target'[j] = target[j] /\ settled'[j] = settled[j] /\ row'[j] = row[j]
<1> USE DEF TypeOK, DiskOK, ProcessOK, Locally, Goto, Return, disk
<1>1. CASE \/ Admit(i) \/ Skip(i) \/ Begin(i) \/ Request(i) \/ Answer(i)
  BY <1>1 DEF Admit, Skip, Begin, Request, Answer
<1>2. CASE Replay(i)
  BY <1>2 DEF Replay, Take
<1>3. CASE Record(i)
  BY <1>3 DEF Record, Take
<1>4. CASE Save(i) \/ Settle(i) \/ Pause(i)
  BY <1>4 DEF Save, Settle, Pause
<1>5. CASE Mishap(i)
  BY <1>5 DEF Mishap, Unable, Escape, NoAnswer, RecordFails, SaveFails, SettleFails, PauseFails
<1> QED
  BY <1>1, <1>2, <1>3, <1>4, <1>5 DEF Worker

(* A rewrite that takes the next answer of the record, of which told is a part. *)
LEMMA TakenTold ==
    ASSUME TypeOK, NEW i \in Instances, TellOf(i), pc[i] \in {"asking", "recording"},
           NEW answer \in Answers, Take(i, answer)
    PROVE  /\ told'[i] = Append(told[i], answer)
           /\ Len(told'[i]) = Len(told[i]) + 1
           /\ pc'[i] \in {"asking", "saving", "returned"}
           /\ pc'[i] = "asking" => answer = "bad"
           /\ pc'[i] = "saving" => answer \in Texts
  BY DEF TypeOK, ProcessOK, Take, Goto, Return, Answers

LEMMA OwnTelling ==
    ASSUME TypeOK, Tell, NEW i \in Instances, Worker(i) \/ Mishap(i)
    PROVE  TellOf(i)'
<1>t. /\ TellOf(i)
      /\ answers[i] \in Seq(Answers) /\ told[i] \in Seq(Answers)
      /\ UNCHANGED <<revision, stage>>
      /\ "bad" \notin Texts
  BY WorkerFrame, RewriteAssumption DEF Tell, TypeOK, DiskOK, ProcessOK
<1> USE <1>t DEF TellOf, Target, TypeOK, DiskOK, ProcessOK, Locally, Goto, Return, disk
<1>Admit. CASE Admit(i)
  BY <1>Admit DEF Admit
<1>Skip. CASE Skip(i)
  BY <1>Skip DEF Skip
<1>Begin. CASE Begin(i)
  BY <1>Begin DEF Begin
<1>Replay. CASE Replay(i)
  <2> DEFINE answer == answers[i][Len(told[i]) + 1]
  <2>1. answer \in Answers /\ Take(i, answer) /\ pc[i] = "asking"
    BY <1>Replay DEF Replay
  <2>2. UNCHANGED <<answers, target, settled>> /\ Len(told[i]) < Len(answers[i])
    BY <1>Replay DEF Replay
  <2> HIDE DEF answer
  <2>3. /\ told'[i] = Append(told[i], answer)
        /\ Len(told'[i]) = Len(told[i]) + 1
        /\ pc'[i] \in {"asking", "saving", "returned"}
        /\ pc'[i] = "asking" => answer = "bad"
        /\ pc'[i] = "saving" => answer \in Texts
    BY <2>1, TakenTold
  <2>4. \A k \in 1 .. Len(told'[i]) : told'[i][k] = answers[i][k]
    BY <2>3 DEF answer
  <2>5. pc'[i] = "asking" => \A k \in 1 .. Len(told'[i]) : told'[i][k] = "bad"
    BY <2>1, <2>3
  <2>6. pc'[i] = "saving" => told'[i][Len(told'[i])] \in Texts
    BY <2>3
  <2>7. stage = "rewriting"
    BY <2>1
  <2> QED
    BY <2>2, <2>3, <2>4, <2>5, <2>6, <2>7
<1>Request. CASE Request(i)
  BY <1>Request DEF Request
<1>Answer. CASE Answer(i)
  BY <1>Answer DEF Answer
<1>Record. CASE Record(i)
  <2>1. PICK answer \in Answers : /\ Take(i, answer)
                                  /\ answers' = [answers EXCEPT ![i] = Append(@, answer)]
    BY <1>Record DEF Record, Answers
  <2>2. UNCHANGED <<target, settled>> /\ pc[i] = "recording"
    BY <1>Record DEF Record
  <2>3. /\ told'[i] = Append(told[i], answer)
        /\ Len(told'[i]) = Len(told[i]) + 1
        /\ pc'[i] \in {"asking", "saving", "returned"}
        /\ pc'[i] = "asking" => answer = "bad"
        /\ pc'[i] = "saving" => answer \in Texts
    BY <2>1, <2>2, TakenTold
  <2>4. /\ answers'[i] = Append(answers[i], answer)
        /\ Len(answers'[i]) = Len(answers[i]) + 1
        /\ Len(told[i]) = Len(answers[i])
    BY <2>1, <2>2
  <2>5. \A k \in 1 .. Len(answers[i]) : answers[i][k] = "bad" /\ answers'[i][k] = "bad"
    BY <2>2, <2>4
  <2>6. \A k \in 1 .. Len(told'[i]) : told'[i][k] = answers'[i][k]
    BY <2>3, <2>4
  <2>7. \A k \in 1 .. Len(answers'[i]) - 1 : answers'[i][k] = "bad"
    BY <2>4, <2>5
  <2>8. pc'[i] = "asking" => \A k \in 1 .. Len(told'[i]) : told'[i][k] = "bad"
    BY <2>2, <2>3
  <2>9. pc'[i] = "saving" => told'[i][Len(told'[i])] \in Texts
    BY <2>3
  <2>a. target[i] = None \/ target[i].rev # revision
    <3> SUFFICES ASSUME target[i] # None, target[i].rev = revision PROVE FALSE
      OBVIOUS
    <3>1. target[i].text \in Texts
      BY DEF Targets
    <3>2. Len(answers[i]) \in 1 .. Len(answers[i])
      OBVIOUS
    <3>3. answers[i][Len(answers[i])] = target[i].text
      OBVIOUS
    <3>4. answers[i][Len(answers[i])] = "bad"
      BY <2>5, <3>2
    <3> QED
      BY <3>1, <3>3, <3>4
  <2>b. stage = "rewriting"
    BY <2>2
  <2> QED
    BY <2>2, <2>3, <2>4, <2>6, <2>7, <2>8, <2>9, <2>a, <2>b
<1>Save. CASE Save(i)
  <2>1. /\ pc[i] = "saving" /\ pc'[i] = "settling"
        /\ target' = [target EXCEPT ![i] = Target(i)]
        /\ UNCHANGED <<told, answers, settled>>
    BY <1>Save DEF Save
  <2>2. Len(told[i]) > 0 /\ told[i][Len(told[i])] \in Texts
    BY <2>1
  <2>3. Len(told[i]) = Len(answers[i])
    <3> SUFFICES ASSUME Len(told[i]) # Len(answers[i]) PROVE FALSE
      OBVIOUS
    <3>1. Len(told[i]) \in 1 .. Len(answers[i]) - 1
      BY <2>2
    <3>2. told[i][Len(told[i])] = answers[i][Len(told[i])]
      BY <3>1
    <3>3. answers[i][Len(told[i])] = "bad"
      BY <3>1
    <3> QED
      BY <2>2, <3>2, <3>3
  <2>4. /\ target'[i] = Target(i) /\ Target(i).rev = revision
        /\ Target(i).text = told[i][Len(told[i])]
        /\ Target(i)' = Target(i)
    BY <2>1
  <2>5. stage = "rewriting"
    BY <2>1
  <2> HIDE DEF Target
  <2> QED
    BY <2>1, <2>2, <2>3, <2>4, <2>5
<1>Settle. CASE Settle(i)
  BY <1>Settle DEF Settle
<1>Pause. CASE Pause(i)
  BY <1>Pause DEF Pause
<1>Unable. CASE Unable(i)
  BY <1>Unable DEF Unable
<1>Escape. CASE Escape(i)
  BY <1>Escape DEF Escape
<1>NoAnswer. CASE NoAnswer(i)
  BY <1>NoAnswer DEF NoAnswer
<1>RecordFails. CASE RecordFails(i)
  BY <1>RecordFails DEF RecordFails
<1>SaveFails. CASE SaveFails(i)
  BY <1>SaveFails DEF SaveFails
<1>SettleFails. CASE SettleFails(i)
  BY <1>SettleFails DEF SettleFails
<1>PauseFails. CASE PauseFails(i)
  BY <1>PauseFails DEF PauseFails
<1> QED
  BY <1>Admit, <1>Skip, <1>Begin, <1>Replay, <1>Request, <1>Answer, <1>Record, <1>Save, <1>Settle, <1>Pause,
     <1>Unable, <1>Escape, <1>NoAnswer, <1>RecordFails, <1>SaveFails, <1>SettleFails, <1>PauseFails
     DEF Worker, Mishap

LEMMA TellingNext == TypeOK /\ Tell /\ [Next]_vars => Tell'
<1> SUFFICES ASSUME TypeOK, Tell, [Next]_vars PROVE Tell'
  OBVIOUS
<1>1. ASSUME NEW i \in Instances, Worker(i) \/ Mishap(i), NEW j \in Instances
      PROVE  TellOf(j)'
  <2>1. CASE j = i
    BY <1>1, <2>1, OwnTelling
  <2>2. CASE j # i
    BY <1>1, <2>2, OthersUntouched, WorkerFrame DEF Tell, TellOf, Target
  <2> QED
    BY <2>1, <2>2
<1>2. ASSUME UNCHANGED <<disk, process, stage>> PROVE Tell'
  BY <1>2 DEF Tell, TellOf, Target, disk, process
<1>3. ASSUME Staging PROVE Tell'
  <2> USE DEF Tell, TellOf, Target
  <2>1. CASE Launch \/ LaunchWithCache \/ Judge \/ End
    <3>1. UNCHANGED disk /\ UNCHANGED process
      BY <2>1 DEF Launch, LaunchWithCache, Judge, End
    <3>2. stage # "rewriting" /\ stage' # "rewriting"
      BY <2>1 DEF Launch, LaunchWithCache, Judge, End
    <3> QED
      BY <3>1, <3>2 DEF disk, process
  <2>2. CASE StartPass
    BY <2>2 DEF StartPass, TypeOK, DiskOK, ProcessOK, Targets
  <2>3. CASE Report \/ Refuse \/ Crash
    BY <2>3 DEF Report, Refuse, Crash, ProcessEnds, disk, TypeOK, DiskOK
  <2>4. CASE \E i \in Instances : Load(i)
    BY <2>4, <1>2 DEF Load, script
  <2> QED
    BY <1>3, <2>1, <2>2, <2>3, <2>4 DEF Staging
<1>4. CASE Freezing
  BY <1>2, <1>4, FreezingFrame DEF script
<1>5. CASE UNCHANGED vars
  BY <1>2, <1>5 DEF vars, script
<1> QED
  BY <1>1, <1>3, <1>4, <1>5, NextCases DEF Tell
-----------------------------------------------------------------------------
(* What a worker that returns has told of its target. *)
LEMMA RowsNext == TypeOK /\ Tell /\ RowsExplain /\ [Next]_vars => RowsExplain'
<1> SUFFICES ASSUME TypeOK, Tell, RowsExplain, [Next]_vars PROVE RowsExplain'
  OBVIOUS
<1>1. ASSUME NEW i \in Instances, Worker(i) \/ Mishap(i)
      PROVE  RowsExplain'
  <2>1. stage = "rewriting" /\ UNCHANGED <<stage, used, revision>>
    BY <1>1, WorkerFrame DEF Tell, TellOf
  <2>2. pc'[i] = "returned" => Returned(i)'
    <3> USE DEF TypeOK, DiskOK, ProcessOK, Tell, TellOf, Target, Returned, Goto, Return, Locally, disk
    <3>1. CASE Skip(i)
      BY <3>1, <2>1 DEF Skip
    <3>2. CASE Settle(i)
      BY <3>2, <2>1 DEF Settle
    <3>3. CASE \/ Admit(i) \/ Begin(i) \/ Request(i) \/ Answer(i) \/ Save(i) \/ Pause(i)
      BY <3>3 DEF Admit, Begin, Request, Answer, Save, Pause
    <3>4. CASE Replay(i) \/ Record(i)
      BY <3>4 DEF Replay, Record, Take
    <3>5. CASE Unable(i) \/ Escape(i) \/ RecordFails(i) \/ SettleFails(i)
      BY <3>5 DEF Unable, Escape, RecordFails, SettleFails
    <3>6. CASE NoAnswer(i)
      BY <3>6 DEF NoAnswer
    <3>7. CASE SaveFails(i) \/ PauseFails(i)
      BY <3>7 DEF SaveFails, PauseFails
    <3> QED
      BY <3>6, <3>7, <1>1, <3>1, <3>2, <3>3, <3>4, <3>5 DEF Worker, Mishap
  <2>3. ASSUME NEW j \in Instances, j # i, pc'[j] = "returned" PROVE Returned(j)'
    BY <1>1, <2>1, <2>3, OthersUntouched DEF RowsExplain, Returned
  <2> QED
    BY <2>1, <2>2, <2>3 DEF RowsExplain
<1>2. ASSUME UNCHANGED <<disk, process, script, used>> PROVE RowsExplain'
  BY <1>2 DEF RowsExplain, Returned, Settled, disk, process, script
<1>3. CASE Staging
  <2> USE DEF RowsExplain, Returned, Settled, disk, process, script, frozen
  <2>1. CASE Launch \/ LaunchWithCache
    BY <2>1 DEF Launch, LaunchWithCache
  <2>2. CASE StartPass
    BY <2>2 DEF StartPass
  <2>3. CASE Report
    BY <2>3 DEF Report, Unfinished, ExitStatus
  <2>4. CASE Refuse \/ Crash
    <3>1. stage' = "judging" /\ rc' # 0 /\ used' = used /\ stage = "rewriting"
      <4>1. CASE Refuse
        BY <4>1 DEF Refuse
      <4>2. CASE Crash
        BY <4>2 DEF Crash
      <4> QED
        BY <2>4, <4>1, <4>2
    <3> QED
      BY <3>1
  <2>5. CASE Judge
    BY <2>5 DEF Judge
  <2>6. CASE End
    BY <2>6 DEF End
  <2>7. ASSUME NEW i \in Instances, Load(i) PROVE RowsExplain'
    <3>1. used \in [Instances -> Uses \cup {None}]
      BY DEF TypeOK, CacheOK
    <3>2. UNCHANGED <<disk, process, script>>
      BY <2>7 DEF Load
    <3>3. CASE stage = "reading targets"
      <4>1. used' = [used EXCEPT ![i] = [from |-> "stage", target |-> target[i]]]
        BY <2>7, <3>3 DEF Load
      <4>2. \A j \in Instances : used'[j] = used[j] \/ used'[j].target = target[j]
        BY <3>1, <4>1
      <4> QED
        BY <3>2, <3>3, <4>2
    <3>4. CASE stage = "reading cache"
      BY <3>2, <3>4
    <3> QED
      BY <2>7, <3>3, <3>4 DEF Load
  <2> QED
    BY <1>3, <2>1, <2>2, <2>3, <2>4, <2>5, <2>6, <2>7 DEF Staging
<1>4. CASE Freezing
  BY <1>2, <1>4, FreezingFrame
<1>5. CASE UNCHANGED vars
  BY <1>2, <1>5 DEF vars
<1> QED
  BY <1>1, <1>3, <1>4, <1>5, NextCases

(* A sealed cache is as its manifest says, and nobody writes to it. *)
LEMMA CacheNext ==
    TypeOK /\ RowsExplain /\ CacheKept /\ [Next]_vars => CacheKept'
<1> SUFFICES ASSUME TypeOK, RowsExplain, CacheKept, [Next]_vars PROVE CacheKept'
  OBVIOUS
<1>1. ASSUME UNCHANGED <<stage, cache, manifest, copying, used>> PROVE CacheKept'
  BY <1>1 DEF CacheKept
<1>2. CASE Freezing
  <2> USE DEF CacheKept, script
  <2>1. CASE Freeze
    BY <2>1 DEF Freeze
  <2>2. CASE Seal
    BY <2>2 DEF Seal
  <2>3. CASE FreezeFails
    BY <2>3 DEF FreezeFails
  <2>4. ASSUME NEW i \in Instances, Copy(i) PROVE CacheKept'
    BY <2>4 DEF Copy
  <2> QED
    BY <1>2, <2>1, <2>2, <2>3, <2>4 DEF Freezing
<1>3. CASE Staging
  <2> USE DEF CacheKept, RowsExplain, frozen, script
  <2>1. CASE Launch \/ StartPass \/ Report \/ Refuse \/ Crash \/ Judge \/ End
    BY <2>1 DEF Launch, StartPass, Report, Refuse, Crash, Judge, End
  <2>2. CASE LaunchWithCache
    BY <2>2 DEF LaunchWithCache, CacheValid
  <2>3. ASSUME NEW i \in Instances, Load(i) PROVE CacheKept'
    <3>1. used \in [Instances -> Uses \cup {None}]
      BY DEF TypeOK, CacheOK
    <3>2. UNCHANGED <<script, frozen>>
      BY <2>3 DEF Load
    <3>3. CASE stage = "reading cache"
      <4>1. used' = [used EXCEPT ![i] = [from |-> "cache", target |-> cache[i]]]
        BY <2>3, <3>3 DEF Load
      <4>2. \A j \in Instances : used'[j] = used[j] \/ used'[j].target = cache[j]
        BY <3>1, <4>1
      <4> QED
        BY <3>2, <3>3, <4>2
    <3>4. CASE stage = "reading targets"
      BY <3>2, <3>4
    <3> QED
      BY <2>3, <3>3, <3>4 DEF Load
  <2> QED
    BY <1>3, <2>1, <2>2, <2>3 DEF Staging
<1>4. ASSUME NEW i \in Instances, Worker(i) \/ Mishap(i) PROVE CacheKept'
  BY <1>1, <1>4, WorkerFrame
<1>5. CASE UNCHANGED vars
  BY <1>1, <1>5 DEF vars, script, frozen
<1> QED
  BY <1>2, <1>3, <1>4, <1>5, NextCases
-----------------------------------------------------------------------------
LEMMA InvNext == IInv /\ [Next]_vars => IInv'
<1> SUFFICES ASSUME IInv, [Next]_vars PROVE IInv'
  OBVIOUS
<1>1. LedgerTypeOK' /\ Remembered'
  BY NextLedger, LedgerKept DEF IInv
<1>2. TypeOK' /\ Tell'
  BY TypingNext, TellingNext DEF IInv
<1>3. RowsExplain' /\ CacheKept'
  BY RowsNext, CacheNext DEF IInv
<1> QED
  BY <1>1, <1>2, <1>3 DEF IInv

LEMMA Inductive == Spec => []IInv
<1>1. Init => IInv
  BY InitInv
<1>2. IInv /\ [Next]_vars => IInv'
  BY InvNext
<1> QED
  BY <1>1, <1>2, PTL DEF Spec

(* The files, the ledger and the variables of the stage keep their types. *)
THEOREM TypeCorrect == Spec => [](LedgerTypeOK /\ TypeOK)
<1>1. IInv => LedgerTypeOK /\ TypeOK
  BY DEF IInv
<1> QED
  BY <1>1, Inductive, PTL

(* A total cost that is stated covers every request that was sent, but for    *)
(* those whose started row could not be written.                              *)
THEOREM TotalsComplete == Spec => []TotalComplete
<1>1. IInv => TotalComplete
  BY DEF IInv, LedgerTypeOK, Remembered, TotalComplete, TotalKnown, Recorded, Costed
<1> QED
  BY <1>1, Inductive, PTL

(* The generation reads a target of an older revision only where the rewrite  *)
(* failed under this one.                                                     *)
THEOREM OldTargetsHaveReasons == Spec => []OldTargetsExplained
<1>1. IInv => OldTargetsExplained
  BY DEF IInv, RowsExplain, Settled, OldTargetsExplained
<1> QED
  BY <1>1, Inductive, PTL

(* What is read from a cache is what its manifest says. *)
THEOREM CachesFixed == Spec => []CacheAsFrozen
<1>1. IInv => CacheAsFrozen
  BY DEF IInv, CacheKept, CacheAsFrozen
<1> QED
  BY <1>1, Inductive, PTL

(* The record of a target that was written ends with its text, so a worker of *)
(* its instance neither sends another request nor writes another target.      *)
LEMMA NothingAsked ==
    ASSUME TypeOK, Tell, [Next]_vars, NEW j \in Instances,
           target[j] # None, target[j].rev = revision
    PROVE  target'[j] = target[j] /\ (pc[j] # "sent" => pc'[j] # "sent")
<1>t. TellOf(j) /\ answers[j] \in Seq(Answers) /\ told[j] \in Seq(Answers)
  BY DEF Tell, TypeOK, DiskOK, ProcessOK
<1>b. answers[j][Len(answers[j])] # "bad" /\ target[j] \in Targets
  BY <1>t, RewriteAssumption DEF TellOf, TypeOK, DiskOK, Targets
<1>1. ASSUME NEW i \in Instances, Worker(i) \/ Mishap(i)
      PROVE  target'[j] = target[j] /\ (pc[j] # "sent" => pc'[j] # "sent")
  <2>1. CASE i # j
    BY <1>1, <2>1, OthersUntouched
  <2>2. CASE i = j
    <3> USE DEF TypeOK, DiskOK, ProcessOK, Goto, Return, Locally, disk
    <3>1. CASE Request(j)
      <4>1. pc[j] = "asking" /\ Len(told[j]) = Len(answers[j])
        BY <3>1 DEF Request
      <4>2. Len(answers[j]) \in 1 .. Len(told[j])
        BY <1>t, <4>1 DEF TellOf
      <4>3. told[j][Len(answers[j])] = "bad" /\ told[j][Len(answers[j])] = answers[j][Len(answers[j])]
        BY <1>t, <4>1, <4>2 DEF TellOf
      <4> QED
        BY <1>b, <4>3
    <3>2. CASE Save(j)
      <4>1. /\ pc[j] = "saving"
            /\ target' = [target EXCEPT ![j] = Target(j)] /\ pc' = [pc EXCEPT ![j] = "settling"]
        BY <3>2 DEF Save
      <4>2. Len(told[j]) > 0 /\ told[j][Len(told[j])] \in Texts
        BY <1>t, <4>1 DEF TellOf
      <4>3. Len(told[j]) = Len(answers[j])
        <5> SUFFICES ASSUME Len(told[j]) # Len(answers[j]) PROVE FALSE
          OBVIOUS
        <5>1. Len(told[j]) \in 1 .. Len(answers[j]) - 1 /\ Len(told[j]) \in 1 .. Len(told[j])
          BY <1>t, <4>2 DEF TellOf
        <5>2. told[j][Len(told[j])] = "bad"
          BY <1>t, <5>1 DEF TellOf
        <5> QED
          BY <4>2, <5>2, RewriteAssumption
      <4>4. told[j][Len(told[j])] = target[j].text
        BY <1>t, <4>2, <4>3 DEF TellOf
      <4>5. target[j] = Target(j)
        BY <1>b, <4>4 DEF Target, Targets
      <4> QED
        BY <4>1, <4>5
    <3>3. CASE \/ Admit(j) \/ Skip(j) \/ Begin(j) \/ Answer(j) \/ Settle(j) \/ Pause(j)
      BY <3>3 DEF Admit, Skip, Begin, Answer, Settle, Pause
    <3>4. CASE Replay(j) \/ Record(j)
      BY <3>4 DEF Replay, Record, Take
    <3>5. CASE Mishap(j)
      BY <3>5 DEF Mishap, Unable, Escape, NoAnswer, RecordFails, SaveFails, SettleFails,
         PauseFails
    <3> QED
      BY <1>1, <2>2, <3>1, <3>2, <3>3, <3>4, <3>5 DEF Worker
  <2> QED
    BY <2>1, <2>2
<1>2. ASSUME UNCHANGED <<disk, process>>
      PROVE  target'[j] = target[j] /\ (pc[j] # "sent" => pc'[j] # "sent")
  BY <1>2 DEF disk, process
<1>3. CASE Staging
  <2>1. CASE StartPass
    BY <2>1 DEF StartPass
  <2>2. CASE Report \/ Refuse \/ Crash
    BY <2>2 DEF Report, Refuse, Crash, ProcessEnds, disk
  <2>3. CASE Launch \/ LaunchWithCache \/ Judge \/ End \/ \E i \in Instances : Load(i)
    BY <2>3, <1>2 DEF Launch, LaunchWithCache, Judge, End, Load
  <2> QED
    BY <1>3, <2>1, <2>2, <2>3 DEF Staging
<1>4. CASE Freezing
  BY <1>2, <1>4, FreezingFrame
<1>5. CASE UNCHANGED vars
  BY <1>2, <1>5 DEF vars
<1> QED
  BY <1>1, <1>3, <1>4, <1>5, NextCases

(* While the code stays the same no target that was written is replaced, and  *)
(* nothing is asked for it again, through pauses, failures and kills.         *)
THEOREM AnswersKept == Spec => TargetsNotResampled
<1>1. IInv /\ [Next]_vars =>
        [\A i \in Instances :
            target[i] # None /\ target[i].rev = revision /\ revision' = revision
                => target'[i] = target[i] /\ (pc[i] # "sent" => pc'[i] # "sent")]_vars
  BY NothingAsked DEF IInv
<1> QED
  BY <1>1, Inductive, PTL DEF Spec, TargetsNotResampled
=============================================================================

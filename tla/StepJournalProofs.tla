------------------------- MODULE StepJournalProofs -------------------------
(***************************************************************************)
(* Proofs about StepJournal, for every pipeline, every set of requests and  *)
(* results and every bound:                                                 *)
(*   - TypeCorrect: the type invariant;                                     *)
(*   - SessionsKeepIdentity: a run only ever reads step files that were     *)
(*     written under its own identity;                                      *)
(*   - FinishedWorkStays: a pipeline that asks the same after the same      *)
(*     answers finds its finished work again;                               *)
(* and as long as archiving does not fail:                                  *)
(*   - PastPreserved: a file at the cursor was written by a run with the    *)
(*     past of this one;                                                    *)
(*   - FilesTellOneHistory: the files of a session tell one history;        *)
(*   - CompleteIsSound: complete.json says what the step files say;         *)
(*   - JournalImplementsLog: the journal implements the replay log.         *)
(***************************************************************************)
EXTENDS StepJournal, SequenceTheorems, WellFoundedInduction, TLAPS

\* What the type invariant needs besides itself: a step in progress has a
\* position, and only an executed step has a result to save.
PhaseOK ==
    /\ phase = "closed" => seen = << >>
    /\ phase \in {"archiving", "executing", "saving"} => index < MaxSteps /\ pending \in Entry
    /\ phase = "saving" => pending.result \in Results

Typing == TypeOK /\ PhaseOK

-----------------------------------------------------------------------------
\* Histories are sequences of entries of at most MaxSteps elements.
LEMMA HistoryIsSeq ==
    ASSUME NEW h \in Histories
    PROVE  /\ h \in Seq(Entry)
           /\ Len(h) \in 0 .. MaxSteps
           /\ h \in [1 .. Len(h) -> Entry]
<1>1. PICK n \in 0 .. MaxSteps : h \in [1 .. n -> Entry]
  BY DEF Histories
<1>2. n \in Nat
  BY <1>1, ConstantsAssumption
<1>3. h \in Seq(Entry) /\ Len(h) = n
  BY <1>1, <1>2
<1> QED
  BY <1>1, <1>3

\* One more entry makes a longer history that starts with the old one.
LEMMA HistoryAppend ==
    ASSUME NEW h \in Histories, NEW e \in Entry, Len(h) < MaxSteps
    PROVE  /\ Append(h, e) \in Histories
           /\ Len(Append(h, e)) = Len(h) + 1
           /\ \A k \in 1 .. Len(h) : Append(h, e)[k] = h[k]
           /\ Append(h, e)[Len(h) + 1] = e
<1>1. h \in Seq(Entry) /\ Len(h) \in 0 .. MaxSteps
  BY HistoryIsSeq
<1>2. Append(h, e) \in Seq(Entry) /\ Len(Append(h, e)) = Len(h) + 1
  BY <1>1
<1>3. Append(h, e) \in [1 .. Len(h) + 1 -> Entry]
  BY <1>2, LenProperties
<1>4. Len(h) + 1 \in 0 .. MaxSteps
  BY <1>1, ConstantsAssumption
<1>5. Append(h, e) \in Histories
  BY <1>3, <1>4 DEF Histories
<1> QED
  BY <1>1, <1>2, <1>5

\* Histories of one length that agree at every position are equal.
LEMMA HistoryEqual ==
    ASSUME NEW g \in Histories, NEW h \in Histories, Len(g) = Len(h),
           \A k \in 1 .. Len(h) : g[k] = h[k]
    PROVE  g = h
BY HistoryIsSeq, SeqEqual

LEMMA EmptyHistory == << >> \in Histories
<1>1. << >> \in [1 .. 0 -> Entry]
  OBVIOUS
<1> QED
  BY <1>1, ConstantsAssumption DEF Histories
-----------------------------------------------------------------------------
LEMMA TypingInit == Init => Typing
  BY EmptyHistory, ConstantsAssumption
  DEF Init, Typing, TypeOK, PhaseOK, Sessions, Positions

\* A step that returns keeps the types, whatever else it writes to the files.
LEMMA TypingTell ==
    ASSUME Typing, NEW e \in Entry, Tell(e), index < MaxSteps
    PROVE  /\ seen' \in Histories
           /\ pending' \in Entry \cup {None}
           /\ phase' = "ready"
  BY HistoryAppend DEF Tell, Typing, TypeOK, index

LEMMA TypingClose ==
    ASSUME Close
    PROVE  /\ seen' \in Histories
           /\ seen' = << >>
           /\ pending' \in Entry \cup {None}
           /\ phase' = "closed"
  BY EmptyHistory DEF Close

LEMMA TypingNext == Typing /\ [Next]_vars => Typing'
<1> SUFFICES ASSUME Typing, [Next]_vars
             PROVE  Typing'
  OBVIOUS
<1> USE ConstantsAssumption DEF Typing, PhaseOK, files, run, index, here
<1>1. ASSUME NEW id \in Identities, Open(id) \/ Skip(id)
      PROVE  Typing'
  <2>1. /\ current' \in [identity : Identities, session : 0 .. MaxSessions]
        /\ current'.session # 0
    BY <1>1 DEF Open, Skip, OpenSession, TypeOK
  <2> QED
    BY <1>1, <2>1 DEF Open, Skip, TypeOK
<1>2. ASSUME NEW q \in Requests, Replay(q)
      PROVE  Typing'
  <2>1. /\ phase = "ready"
        /\ index \in Positions
        /\ current.session \in Sessions
    <3>1. Len(seen) \in Nat /\ current.session \in 0 .. MaxSessions /\ current.session # 0
      BY <1>2, HistoryIsSeq DEF Replay, TypeOK
    <3> QED
      BY <1>2, <3>1 DEF Replay, MayAsk, Positions, Sessions
  <2>2. here[index] \in Record
    BY <1>2, <2>1 DEF Replay, Answers, TypeOK
  <2>3. [request |-> q, result |-> here[index].result] \in Entry
    BY <2>2 DEF Entry, Record, Outcomes
  <2>4. index < MaxSteps
    BY <1>2 DEF Replay, MayAsk
  <2> QED
    BY <1>2, <2>1, <2>3, <2>4, TypingTell DEF Replay, TypeOK
<1>3. ASSUME NEW q \in Requests, Miss(q)
      PROVE  Typing'
  <2>1. [request |-> q, result |-> Failed] \in Entry
    BY DEF Entry, Outcomes
  <2> QED
    BY <1>3, <2>1 DEF Miss, MayAsk, TypeOK
<1>4. ASSUME NEW i \in Positions, Archive(i)
      PROVE  Typing'
  BY <1>4 DEF Archive, TypeOK
<1>5. CASE ArchiveFails
  BY <1>5, TypingTell DEF ArchiveFails, Fault, TypeOK
<1>6. CASE Unlink
  BY <1>6 DEF Unlink, TypeOK
<1>7. ASSUME NEW r \in Results, Execute(r)
      PROVE  Typing'
  <2>1. [pending EXCEPT !.result = r] \in Entry
    BY <1>7 DEF Execute, Entry, Outcomes
  <2>2. [pending EXCEPT !.result = r].result = r
    BY <1>7 DEF Execute, Entry
  <2> QED
    BY <1>7, <2>1, <2>2 DEF Execute, TypeOK
<1>8. CASE Raise
  BY <1>8, TypingTell DEF Raise, TypeOK
<1>9. CASE Save
  <2> DEFINE file == [request |-> pending.request, result |-> pending.result,
                      by |-> current.identity, basis |-> seen]
  <2>1. phase = "saving" /\ pending \in Entry /\ pending.result \in Results /\ index < MaxSteps
    BY <1>9 DEF Save
  <2>2. file \in Record
    BY <2>1 DEF Record, Entry, TypeOK
  <2>3. steps' \in [Sessions -> [Positions -> Record \cup {None}]]
    BY <1>9, <2>2 DEF Save, TypeOK
  <2>4. CASE pending.result \in Infra
    BY <1>9, <2>1, <2>3, <2>4, TypingClose DEF Save, TypeOK
  <2>5. CASE pending.result \notin Infra
    <3>1. Tell(pending)
      BY <1>9, <2>5 DEF Save
    <3> QED
      BY <1>9, <2>1, <2>3, <3>1, TypingTell DEF Save, TypeOK
  <2> QED
    BY <2>4, <2>5
<1>10. CASE Pause \/ Error \/ Decline
  BY <1>10, TypingClose DEF Pause, Error, Decline, Fault, TypeOK
<1>11. CASE Summarise
  BY <1>11 DEF Summarise, TypeOK
<1>12. CASE Finish
  BY <1>12, TypingClose DEF Finish, TypeOK
<1>13. CASE Crash
  BY <1>13, TypingClose DEF Crash, Fault, TypeOK
<1>14. CASE LoseArtifact
  BY <1>14 DEF LoseArtifact, Fault, TypeOK
<1>15. CASE UNCHANGED vars
  BY <1>15 DEF vars, TypeOK
<1> QED
  BY <1>1, <1>2, <1>3, <1>4, <1>5, <1>6, <1>7, <1>8, <1>9, <1>10, <1>11,
     <1>12, <1>13, <1>14, <1>15 DEF Next

\* Every variable keeps its type: in particular a session never has a file
\* beyond its positions, and a run is always in a session.
THEOREM TypeCorrect == Spec => []TypeOK
<1>1. Typing => TypeOK
  BY DEF Typing
<1> QED
  BY TypingInit, TypingNext, <1>1, PTL DEF Spec
-----------------------------------------------------------------------------
\* Sessions that current.json has not reached yet have no files.
FreshSessions ==
    \A s \in Sessions : s > current.session => \A i \in Positions : ~Present(s, i)

Ownership == Typing /\ FreshSessions /\ OwnIdentity

\* What a step does to the files of the current session, as far as ownership
\* is concerned: files disappear, or the run's own file is written.
FilesShrinkOrOwn ==
    \A s \in Sessions : \A i \in Positions :
        \/ steps'[s][i] = steps[s][i]
        \/ steps'[s][i] = None
        \/ s = current.session /\ steps'[s][i].by = current.identity

LEMMA ShrinkKeepsOwnership ==
    ASSUME Ownership, FilesShrinkOrOwn, current' = current
    PROVE  FreshSessions' /\ OwnIdentity'
<1>1. FreshSessions'
  <2> SUFFICES ASSUME NEW s \in Sessions, s > current.session, NEW i \in Positions
               PROVE  steps'[s][i] = None
    BY DEF FreshSessions, Present
  <2>1. steps[s][i] = None
    BY DEF Ownership, FreshSessions, Present
  <2>2. s # current.session
    BY DEF Ownership, Typing, TypeOK, Sessions
  <2> QED
    BY <2>1, <2>2 DEF FilesShrinkOrOwn
<1>2. OwnIdentity'
  <2> SUFFICES ASSUME NEW i \in Positions, current.session # 0,
                      steps'[current.session][i] # None
               PROVE  steps'[current.session][i].by = current.identity
    BY DEF OwnIdentity, Present, here
  <2>1. current.session \in Sessions
    BY ConstantsAssumption DEF Ownership, Typing, TypeOK, Sessions
  <2> QED
    BY <2>1 DEF FilesShrinkOrOwn, Ownership, OwnIdentity, Present, here
<1> QED
  BY <1>1, <1>2

LEMMA OwnershipInit == Init => Ownership
  BY TypingInit DEF Ownership, Init, FreshSessions, OwnIdentity, Present

LEMMA OwnershipNext == Ownership /\ [Next]_vars => Ownership'
<1> SUFFICES ASSUME Ownership, [Next]_vars
             PROVE  Ownership'
  OBVIOUS
<1> USE DEF files, run
<1>1. Typing'
  BY TypingNext DEF Ownership
<1>2. ASSUME NEW id \in Identities, Open(id) \/ Skip(id)
      PROVE  FreshSessions' /\ OwnIdentity'
  <2>1. steps' = steps /\ OpenSession(id)
    BY <1>2 DEF Open, Skip
  <2>2. CASE current' = current
    BY <2>1, <2>2, ShrinkKeepsOwnership DEF FilesShrinkOrOwn
  <2>3. CASE current' = [identity |-> id, session |-> current.session + 1] /\ current.session < MaxSessions
    <3>1. current.session + 1 \in Sessions /\ current'.session = current.session + 1
      BY <2>3, ConstantsAssumption DEF Ownership, Typing, TypeOK, Sessions
    <3>2. \A s \in Sessions : s >= current.session + 1 => s > current.session
      BY ConstantsAssumption DEF Ownership, Typing, TypeOK, Sessions
    <3>3. \A s \in Sessions : s > current.session + 1 => s > current.session
      BY ConstantsAssumption DEF Ownership, Typing, TypeOK, Sessions
    <3>4. FreshSessions'
      BY <2>1, <3>1, <3>3 DEF Ownership, FreshSessions, Present
    <3>5. current.session + 1 > current.session
      BY <3>1, <3>2, ConstantsAssumption DEF Ownership, Typing, TypeOK
    <3>6. OwnIdentity'
      BY <2>1, <3>1, <3>5 DEF Ownership, FreshSessions, OwnIdentity, Present
    <3> QED
      BY <3>4, <3>6
  <2> QED
    BY <2>1, <2>2, <2>3 DEF OpenSession
<1>3. ASSUME NEW i \in Positions, Archive(i)
      PROVE  FilesShrinkOrOwn /\ current' = current
  BY <1>3 DEF Archive, FilesShrinkOrOwn, Ownership, Typing, TypeOK
<1>4. CASE Save
  <2> DEFINE file == [request |-> pending.request, result |-> pending.result,
                      by |-> current.identity, basis |-> seen]
  <2>1. steps' = [steps EXCEPT ![current.session][index] = file] /\ current' = current
    BY <1>4 DEF Save
  <2>2. file.by = current.identity
    OBVIOUS
  <2> HIDE DEF file
  <2>3. FilesShrinkOrOwn
    BY <2>1, <2>2 DEF FilesShrinkOrOwn, Ownership, Typing, TypeOK
  <2> QED
    BY <1>1, <2>1, <2>3, ShrinkKeepsOwnership DEF Ownership
<1>5. CASE \/ \E q \in Requests : Replay(q) \/ Miss(q)
           \/ ArchiveFails \/ Unlink \/ \E r \in Results : Execute(r)
           \/ Raise \/ Pause \/ Error \/ Summarise \/ Finish \/ Decline \/ Crash
           \/ LoseArtifact \/ UNCHANGED vars
  <2>1. current' = current /\ steps' = steps
    BY <1>5 DEF Replay, Miss, ArchiveFails, Unlink, Execute, Raise, Pause, Error,
                Summarise, Finish, Decline, Crash, LoseArtifact, vars
  <2> QED
    BY <1>1, <2>1, ShrinkKeepsOwnership DEF FilesShrinkOrOwn, Ownership
<1> QED
  BY <1>1, <1>2, <1>3, <1>4, <1>5, ShrinkKeepsOwnership DEF Next, Ownership

\* A journal opened with another implementation revision, other arguments or
\* another model never reads a step file of the old session, and going back to
\* the old identity does not revive it either.
THEOREM SessionsKeepIdentity == Spec => []OwnIdentity
<1>1. Ownership => OwnIdentity
  BY DEF Ownership
<1> QED
  BY OwnershipInit, OwnershipNext, <1>1, PTL DEF Spec
-----------------------------------------------------------------------------
\* The strengthening that makes OneHistory and SamePast inductive.

\* A file was written by a run that had been told one entry per position
\* before it.
BasisLength ==
    \A s \in Sessions : \A i \in Positions :
        Present(s, i) => Len(steps[s][i].basis) = i

\* The files behind the cursor say what the run was told, and the files at and
\* beyond it were written by runs that had been told the same.
ToldByFiles ==
    phase # "closed" =>
        \A i \in Positions : Present(current.session, i) =>
            /\ i < index => EntryOf(here[i]) = seen[i + 1]
            /\ \A k \in 1 .. index : k <= i => here[i].basis[k] = seen[k]

\* While a step is being executed or saved, nothing lies at or beyond it.
SuffixCleared ==
    phase \in {"executing", "saving"} =>
        \A i \in Positions : Present(current.session, i) => i < index

PastInv == Typing /\ OneHistory /\ BasisLength /\ ToldByFiles /\ SuffixCleared

LEMMA PastImpliesSamePast == PastInv => SamePast
<1> SUFFICES ASSUME PastInv, phase = "ready", index < MaxSteps, Present(current.session, index)
             PROVE  here[index].basis = seen
  BY DEF SamePast
<1>1. index \in Positions /\ current.session \in Sessions /\ seen \in Histories
  BY HistoryIsSeq, ConstantsAssumption
  DEF PastInv, Typing, TypeOK, index, Positions, Sessions
<1> DEFINE basis == here[index].basis
<1>2. basis \in Histories
  BY <1>1 DEF PastInv, Typing, TypeOK, Present, here, Record
<1>3. Len(basis) = index
  BY <1>1 DEF PastInv, BasisLength, here
<1>4. \A k \in 1 .. index : k <= index => basis[k] = seen[k]
  BY <1>1 DEF PastInv, ToldByFiles
<1>5. \A k \in 1 .. Len(seen) : basis[k] = seen[k]
  BY <1>4, <1>1, HistoryIsSeq DEF index
<1> HIDE DEF basis
<1>6. basis = seen
  BY <1>1, <1>2, <1>3, <1>5, HistoryEqual DEF index
<1> QED
  BY <1>6 DEF basis

LEMMA PastInit == Init => PastInv
  BY TypingInit
  DEF PastInv, Init, OneHistory, BasisLength, ToldByFiles, SuffixCleared, Present

\* Steps that write no step file and tell the run nothing, or end it.
LEMMA PastQuiet ==
    ASSUME PastInv, steps' = steps, current' = current,
           \/ seen' = seen /\ phase # "closed"
           \/ phase' = "closed",
           phase' \notin {"executing", "saving"} \/ phase = "executing"
    PROVE  OneHistory' /\ BasisLength' /\ ToldByFiles' /\ SuffixCleared'
<1> USE DEF PastInv, Present, here, index
<1>1. OneHistory' /\ BasisLength'
  BY DEF OneHistory, BasisLength, EntryOf
<1>2. ToldByFiles'
  BY DEF ToldByFiles, EntryOf
<1>3. SuffixCleared'
  BY DEF SuffixCleared
<1> QED
  BY <1>1, <1>2, <1>3

\* A run is told one more entry e, and the file at the cursor, if there is one
\* afterwards, says so.
LEMMA PastTell ==
    ASSUME PastInv, NEW e \in Entry, Tell(e), index < MaxSteps, current' = current,
           current.session \in Sessions,
           OneHistory', BasisLength',
           \A i \in Positions : steps'[current.session][i] # None =>
               /\ i < index => steps'[current.session][i] = here[i]
               /\ i = index => /\ EntryOf(steps'[current.session][i]) = e
                               /\ \A k \in 1 .. index : steps'[current.session][i].basis[k] = seen[k]
               /\ i > index => /\ steps'[current.session][i] = here[i]
                               /\ here[i].basis[index + 1] = e
    PROVE  ToldByFiles' /\ SuffixCleared'
<1>1. /\ Len(seen') = index + 1
      /\ \A k \in 1 .. index : seen'[k] = seen[k]
      /\ seen'[index + 1] = e
      /\ phase' = "ready"
      /\ index \in Nat
  BY HistoryAppend, HistoryIsSeq DEF Tell, PastInv, Typing, TypeOK, index
<1>2. phase # "closed" \/ index = 0
  BY DEF PastInv, Typing, PhaseOK, index
<1>3. ASSUME NEW i \in Positions, steps'[current.session][i] # None
      PROVE  /\ i < index + 1 => EntryOf(steps'[current.session][i]) = seen'[i + 1]
             /\ \A k \in 1 .. index + 1 : k <= i => steps'[current.session][i].basis[k] = seen'[k]
  <2>1. i \in Nat
    BY ConstantsAssumption DEF Positions
  <2>2. CASE i < index
    <3>1. steps'[current.session][i] = here[i] /\ Present(current.session, i)
      BY <1>3, <2>2 DEF Present, here
    <3>2. EntryOf(here[i]) = seen[i + 1] /\ \A k \in 1 .. index : k <= i => here[i].basis[k] = seen[k]
      BY <3>1, <2>2, <2>1, <1>1, <1>2 DEF PastInv, ToldByFiles
    <3>3. i + 1 \in 1 .. index /\ seen'[i + 1] = seen[i + 1]
      BY <1>1, <2>1, <2>2
    <3> QED
      BY <3>1, <3>2, <3>3, <2>1, <2>2, <1>1
  <2>3. CASE i = index
    BY <1>1, <1>3, <2>1, <2>3
  <2>4. CASE i > index
    <3>1. steps'[current.session][i] = here[i] /\ Present(current.session, i)
      BY <1>3, <2>4 DEF Present, here
    <3>2. \A k \in 1 .. index : here[i].basis[k] = seen[k]
      BY <3>1, <2>4, <2>1, <1>1, <1>2 DEF PastInv, ToldByFiles
    <3>3. here[i].basis[index + 1] = e
      BY <1>3, <2>4
    <3> QED
      BY <3>1, <3>2, <3>3, <2>1, <2>4, <1>1
  <2> QED
    BY <2>1, <2>2, <2>3, <2>4, <1>1
<1> QED
  BY <1>1, <1>3 DEF ToldByFiles, SuffixCleared, Present, here, index
\* Without a failure while archiving, every step preserves the invariant.
LEMMA PastNext == ~ArchiveMayFail /\ PastInv /\ [Next]_vars => PastInv'
<1> SUFFICES ASSUME ~ArchiveMayFail, PastInv, [Next]_vars
             PROVE  OneHistory' /\ BasisLength' /\ ToldByFiles' /\ SuffixCleared'
  BY TypingNext DEF PastInv
<1> USE DEF files, run
<1>1. ASSUME NEW id \in Identities, Open(id)
      PROVE  OneHistory' /\ BasisLength' /\ ToldByFiles' /\ SuffixCleared'
  <2>1. steps' = steps /\ seen' = << >> /\ phase' = "ready"
    BY <1>1 DEF Open, PastInv, Typing, PhaseOK
  <2>2. OneHistory' /\ BasisLength'
    BY <2>1 DEF PastInv, OneHistory, BasisLength, Present, EntryOf
  <2>3. index' = 0
    BY <2>1 DEF index
  <2>4. ToldByFiles' /\ SuffixCleared'
    BY <2>1, <2>3, ConstantsAssumption DEF ToldByFiles, SuffixCleared, Positions
  <2> QED
    BY <2>2, <2>4
<1>2. ASSUME NEW id \in Identities, Skip(id)
      PROVE  OneHistory' /\ BasisLength' /\ ToldByFiles' /\ SuffixCleared'
  <2>1. steps' = steps /\ seen' = seen /\ phase' = phase /\ phase = "closed"
    BY <1>2 DEF Skip
  <2>2. OneHistory' /\ BasisLength'
    BY <2>1 DEF PastInv, OneHistory, BasisLength, Present, EntryOf
  <2> QED
    BY <2>1, <2>2 DEF ToldByFiles, SuffixCleared
<1>3. ASSUME NEW q \in Requests, Replay(q)
      PROVE  OneHistory' /\ BasisLength' /\ ToldByFiles' /\ SuffixCleared'
  <2> DEFINE e == [request |-> q, result |-> here[index].result]
  <2>1. /\ phase = "ready" /\ index < MaxSteps /\ Tell(e)
        /\ steps' = steps /\ current' = current
        /\ Present(current.session, index)
        /\ EntryOf(here[index]) = e
    BY <1>3 DEF Replay, MayAsk, Answers, Present, here, EntryOf
  <2>2. current.session \in Sessions /\ index \in Positions
    BY <2>1, HistoryIsSeq, ConstantsAssumption
    DEF PastInv, Typing, TypeOK, Sessions, Positions, index
  <2>3. here[index] \in Record
    BY <2>1, <2>2 DEF PastInv, Typing, TypeOK, Present, here
  <2>4. e \in Entry
    BY <2>3 DEF Entry, Record, Outcomes
  <2>5. OneHistory' /\ BasisLength'
    BY <2>1 DEF PastInv, OneHistory, BasisLength, Present, EntryOf
  <2>6. \A i \in Positions : Present(current.session, i) /\ i > index => here[i].basis[index + 1] = e
    BY <2>1, <2>2 DEF PastInv, OneHistory, here
  <2>7. \A i \in Positions : Present(current.session, i) /\ i = index =>
            \A k \in 1 .. index : here[i].basis[k] = seen[k]
    BY <2>1 DEF PastInv, ToldByFiles
  <2> HIDE DEF e
  <2> QED
    BY <2>1, <2>2, <2>4, <2>5, <2>6, <2>7, PastTell DEF Present, here
<1>4. ASSUME NEW q \in Requests, Miss(q)
      PROVE  OneHistory' /\ BasisLength' /\ ToldByFiles' /\ SuffixCleared'
  BY <1>4, PastQuiet DEF Miss
<1>5. ASSUME NEW n \in Positions, Archive(n)
      PROVE  OneHistory' /\ BasisLength' /\ ToldByFiles' /\ SuffixCleared'
  <2>1. /\ \A s \in Sessions : \A i \in Positions :
              steps'[s][i] = steps[s][i] \/ steps'[s][i] = None
        /\ current' = current /\ seen' = seen /\ phase' = "archiving" /\ phase = "archiving"
        /\ current.session \in Sessions
    BY <1>5, ConstantsAssumption DEF Archive, PastInv, Typing, TypeOK, Sessions
  <2>2. OneHistory' /\ BasisLength'
    BY <2>1 DEF PastInv, OneHistory, BasisLength, Present, EntryOf
  <2>3. ToldByFiles' /\ SuffixCleared'
    BY <2>1 DEF PastInv, ToldByFiles, SuffixCleared, Present, EntryOf, here, index
  <2> QED
    BY <2>2, <2>3
<1>6. CASE ArchiveFails
  BY <1>6 DEF ArchiveFails
<1>7. CASE Unlink
  <2>1. OneHistory' /\ BasisLength'
    BY <1>7 DEF Unlink, PastInv, OneHistory, BasisLength, Present, EntryOf
  <2>2. ToldByFiles'
    BY <1>7 DEF Unlink, PastInv, ToldByFiles, Present, EntryOf, here, index
  <2>3. \A i \in Positions : Present(current.session, i) => ~(i >= index)
    BY <1>7 DEF Unlink, Suffix
  <2>4. index \in Nat /\ \A i \in Positions : i \in Nat
    BY HistoryIsSeq, ConstantsAssumption DEF PastInv, Typing, TypeOK, index, Positions
  <2>5. SuffixCleared'
    BY <1>7, <2>3, <2>4 DEF Unlink, SuffixCleared, Present, index
  <2> QED
    BY <2>1, <2>2, <2>5
<1>8. ASSUME NEW r \in Results, Execute(r)
      PROVE  OneHistory' /\ BasisLength' /\ ToldByFiles' /\ SuffixCleared'
  BY <1>8, PastQuiet DEF Execute
<1>9. CASE Raise
  <2>1. /\ pending \in Entry /\ index < MaxSteps /\ Tell(pending)
        /\ steps' = steps /\ current' = current
        /\ \A i \in Positions : Present(current.session, i) => i < index
    BY <1>9 DEF Raise, PastInv, Typing, PhaseOK, SuffixCleared
  <2>2. current.session \in Sessions
    BY <1>9, ConstantsAssumption DEF Raise, PastInv, Typing, TypeOK, Sessions
  <2>3. OneHistory' /\ BasisLength'
    BY <2>1 DEF PastInv, OneHistory, BasisLength, Present, EntryOf
  <2>4. index \in Nat /\ \A i \in Positions : i \in Nat
    BY HistoryIsSeq, ConstantsAssumption DEF PastInv, Typing, TypeOK, index, Positions
  <2>5. \A i \in Positions : steps'[current.session][i] # None =>
            i < index /\ steps'[current.session][i] = here[i]
    BY <2>1 DEF Present, here
  <2> QED
    BY <2>1, <2>2, <2>3, <2>4, <2>5, PastTell
<1>10. CASE Save
  <2> DEFINE s0   == current.session
             file == [request |-> pending.request, result |-> pending.result,
                      by |-> current.identity, basis |-> seen]
  <2>1. /\ phase = "saving" /\ pending \in Entry /\ index < MaxSteps
        /\ steps' = [steps EXCEPT ![s0][index] = file]
        /\ current' = current
        /\ \A i \in Positions : Present(s0, i) => i < index
    BY <1>10 DEF Save, PastInv, Typing, PhaseOK, SuffixCleared
  <2>2. s0 \in Sessions /\ index \in Positions /\ index \in Nat /\ \A i \in Positions : i \in Nat
    BY <2>1, HistoryIsSeq, ConstantsAssumption
    DEF PastInv, Typing, TypeOK, Sessions, Positions, index
  <2>3. EntryOf(file) = pending /\ file.basis = seen
    BY <2>1 DEF EntryOf, Entry
  <2> HIDE DEF file
  <2>4. /\ \A s \in Sessions : \A i \in Positions :
              s # s0 \/ i # index => steps'[s][i] = steps[s][i]
        /\ steps'[s0][index] = file
    BY <2>1, <2>2 DEF PastInv, Typing, TypeOK
  <2>5. BasisLength'
    BY <2>2, <2>3, <2>4 DEF PastInv, BasisLength, Present, index
  <2>6. OneHistory'
    <3> SUFFICES ASSUME NEW s \in Sessions, NEW i \in Positions, NEW j \in Positions, j < i,
                        steps'[s][i] # None, steps'[s][j] # None
                 PROVE  steps'[s][i].basis[j + 1] = EntryOf(steps'[s][j])
      BY DEF OneHistory, Present, EntryOf
    <3>1. CASE s # s0 \/ (i # index /\ j # index)
      BY <2>4, <3>1 DEF PastInv, OneHistory, Present
    <3>2. CASE s = s0 /\ j = index
      <4>1. Present(s0, i)
        BY <2>2, <2>4, <3>2 DEF Present
      <4> QED
        BY <2>1, <2>2, <3>2, <4>1
    <3>3. CASE s = s0 /\ i = index
      <4>1. steps'[s0][j] = steps[s0][j] /\ Present(s0, j)
        BY <2>2, <2>4, <3>3 DEF Present
      <4>2. EntryOf(steps[s0][j]) = seen[j + 1]
        BY <2>1, <2>2, <3>3, <4>1 DEF PastInv, ToldByFiles, here
      <4> QED
        BY <2>3, <2>4, <3>3, <4>1, <4>2
    <3> QED
      BY <3>1, <3>2, <3>3
  <2>7. CASE pending.result \in Infra
    <3>1. phase' = "closed"
      BY <1>10, <2>7 DEF Save, Close
    <3> QED
      BY <3>1, <2>5, <2>6 DEF ToldByFiles, SuffixCleared
  <2>8. CASE pending.result \notin Infra
    <3>1. Tell(pending)
      BY <1>10, <2>8 DEF Save
    <3>2. \A i \in Positions : steps'[s0][i] # None =>
              \/ i < index /\ steps'[s0][i] = here[i]
              \/ i = index /\ EntryOf(steps'[s0][i]) = pending /\ steps'[s0][i].basis = seen
      BY <2>1, <2>2, <2>3, <2>4 DEF Present, here
    <3> QED
      BY <3>1, <3>2, <2>1, <2>2, <2>5, <2>6, PastTell
  <2> QED
    BY <2>7, <2>8
<1>11. CASE Pause \/ Error \/ Finish \/ Decline \/ Crash
  <2>1. steps' = steps /\ current' = current /\ phase' = "closed"
    BY <1>11 DEF Pause, Error, Finish, Decline, Crash, Close
  <2> QED
    BY <2>1, PastQuiet
<1>12. CASE Summarise
  BY <1>12, PastQuiet DEF Summarise
<1>13. CASE LoseArtifact \/ UNCHANGED vars
  <2>1. steps' = steps /\ current' = current /\ seen' = seen /\ phase' = phase
    BY <1>13 DEF LoseArtifact, vars
  <2> QED
    BY <2>1 DEF PastInv, OneHistory, BasisLength, ToldByFiles, SuffixCleared, Present, EntryOf, here, index
<1> QED
  BY <1>1, <1>2, <1>3, <1>4, <1>5, <1>6, <1>7, <1>8, <1>9, <1>10, <1>11, <1>12, <1>13 DEF Next

\* step() never hands a run an outcome that another past produced: provided the
\* archiving of an invalidated suffix does not fail half-way and is not taken
\* for an ordinary failure, the file at the cursor continues the history of
\* this run.
THEOREM PastPreserved ==
    ASSUME ~ArchiveMayFail
    PROVE  Spec => []SamePast
<1>1. PastInv => SamePast
  BY PastImpliesSamePast
<1>2. PastInv /\ [Next]_vars => PastInv'
  BY PastNext
<1> QED
  BY PastInit, <1>1, <1>2, PTL DEF Spec

\* Under the same condition the files of a session tell one history, whatever
\* was moved aside, left out or interrupted in between.
THEOREM FilesTellOneHistory ==
    ASSUME ~ArchiveMayFail
    PROVE  Spec => []OneHistory
<1>1. PastInv => OneHistory
  BY DEF PastInv
<1>2. PastInv /\ [Next]_vars => PastInv'
  BY PastNext
<1> QED
  BY PastInit, <1>1, <1>2, PTL DEF Spec
-----------------------------------------------------------------------------
\* complete.json is gone before the first step is executed anew, and what
\* finish() is about to quote is what this run was told.
CompletePhases ==
    /\ phase \in {"executing", "saving"} => complete[current.session] = None
    /\ phase = "finishing" => summary = seen

CompleteInv == PastInv /\ CompleteAgrees /\ CompletePhases

LEMMA CompleteInit == Init => CompleteInv
  BY PastInit DEF Init, CompleteInv, CompleteAgrees, CompletePhases, Present

\* Files and complete.json files that only disappear go on agreeing.
LEMMA AgreesShrink ==
    ASSUME CompleteAgrees,
           \A s \in Sessions : complete'[s] \in {complete[s], None},
           \A s \in Sessions : \A i \in Positions : steps'[s][i] \in {steps[s][i], None}
    PROVE  CompleteAgrees'
<1> SUFFICES ASSUME NEW s \in Sessions, NEW i \in Positions, complete'[s] # None,
                    steps'[s][i] # None, i < Len(complete'[s])
             PROVE  complete'[s][i + 1] = EntryOf(steps'[s][i])
  BY DEF CompleteAgrees, Present, EntryOf
<1>1. complete'[s] = complete[s] /\ steps'[s][i] = steps[s][i]
  OBVIOUS
<1> QED
  BY <1>1 DEF CompleteAgrees, Present

LEMMA CompleteNext == ~ArchiveMayFail /\ CompleteInv /\ [Next]_vars => CompleteInv'
<1> SUFFICES ASSUME ~ArchiveMayFail, CompleteInv, [Next]_vars
             PROVE  CompleteAgrees' /\ CompletePhases'
  BY PastNext DEF CompleteInv
<1> USE DEF files, run
<1>0. TypeOK /\ ToldByFiles /\ SuffixCleared
  BY DEF CompleteInv, PastInv, Typing
<1>1. ASSUME NEW id \in Identities, Open(id) \/ Skip(id)
      PROVE  CompleteAgrees' /\ CompletePhases'
  <2>1. steps' = steps /\ complete' = complete /\ phase' \notin {"executing", "saving", "finishing"}
    BY <1>1 DEF Open, Skip
  <2> QED
    BY <2>1, AgreesShrink DEF CompleteInv, CompletePhases
<1>2. ASSUME NEW q \in Requests, Replay(q) \/ Miss(q)
      PROVE  CompleteAgrees' /\ CompletePhases'
  <2>1. steps' = steps /\ complete' = complete /\ phase' \notin {"executing", "saving", "finishing"}
    BY <1>2 DEF Replay, Miss, Tell
  <2> QED
    BY <2>1, AgreesShrink DEF CompleteInv, CompletePhases
<1>3. ASSUME NEW n \in Positions, Archive(n)
      PROVE  CompleteAgrees' /\ CompletePhases'
  <2>1. /\ \A s \in Sessions : \A i \in Positions : steps'[s][i] \in {steps[s][i], None}
        /\ complete' = complete /\ phase' = "archiving"
    BY <1>0, <1>3 DEF Archive, TypeOK
  <2> QED
    BY <2>1, AgreesShrink DEF CompleteInv, CompletePhases
<1>4. CASE ArchiveFails
  BY <1>4 DEF ArchiveFails
<1>5. CASE Unlink
  <2>1. current.session \in Sessions
    BY <1>0, <1>5, ConstantsAssumption DEF Unlink, TypeOK, Sessions
  <2>2. /\ complete' = [complete EXCEPT ![current.session] = None]
        /\ steps' = steps /\ current' = current /\ phase' = "executing"
    BY <1>5 DEF Unlink
  <2>3. complete'[current.session] = None
    BY <1>0, <2>1, <2>2 DEF TypeOK
  <2>4. \A s \in Sessions : complete'[s] \in {complete[s], None}
    BY <1>0, <2>2 DEF TypeOK
  <2> QED
    BY <2>2, <2>3, <2>4, AgreesShrink DEF CompleteInv, CompletePhases
<1>6. ASSUME NEW r \in Results, Execute(r)
      PROVE  CompleteAgrees' /\ CompletePhases'
  <2>1. /\ steps' = steps /\ complete' = complete /\ current' = current
        /\ phase = "executing" /\ phase' = "saving"
    BY <1>6 DEF Execute
  <2> QED
    BY <2>1, AgreesShrink DEF CompleteInv, CompletePhases
<1>7. CASE Save
  <2>1. /\ phase = "saving" /\ complete' = complete /\ phase' \in {"ready", "closed"}
        /\ complete[current.session] = None
    BY <1>7 DEF Save, Close, Tell, CompleteInv, CompletePhases
  <2>2. \A s \in Sessions : s # current.session => steps'[s] = steps[s]
    BY <1>0, <1>7 DEF Save, TypeOK
  <2>3. CompleteAgrees'
    <3> SUFFICES ASSUME NEW s \in Sessions, NEW i \in Positions, complete[s] # None,
                        steps'[s][i] # None, i < Len(complete[s])
                 PROVE  complete[s][i + 1] = EntryOf(steps'[s][i])
      BY <2>1 DEF CompleteAgrees, Present, EntryOf
    <3>1. steps'[s] = steps[s]
      BY <2>1, <2>2
    <3> QED
      BY <3>1 DEF CompleteInv, CompleteAgrees, Present
  <2> QED
    BY <2>1, <2>3 DEF CompletePhases
<1>8. CASE Raise \/ Pause \/ Error \/ Decline \/ Crash
  <2>1. /\ steps' = steps /\ complete' = complete
        /\ phase' \notin {"executing", "saving", "finishing"}
    BY <1>8 DEF Raise, Pause, Error, Decline, Crash, Close, Tell
  <2> QED
    BY <2>1, AgreesShrink DEF CompleteInv, CompletePhases
<1>9. CASE Summarise
  <2>1. /\ steps' = steps /\ complete' = complete /\ phase' = "finishing"
        /\ summary' = seen /\ seen' = seen
    BY <1>9 DEF Summarise
  <2> QED
    BY <2>1, AgreesShrink DEF CompleteInv, CompletePhases
<1>10. CASE Finish
  <2>1. /\ complete' = [complete EXCEPT ![current.session] = seen]
        /\ steps' = steps /\ phase = "finishing" /\ phase' = "closed"
    BY <1>10 DEF Finish, Close, CompleteInv, CompletePhases
  <2>2. \A i \in Positions : Present(current.session, i) /\ i < index
            => seen[i + 1] = EntryOf(here[i])
    BY <1>0, <2>1 DEF ToldByFiles
  <2>3. CompleteAgrees'
    <3> SUFFICES ASSUME NEW s \in Sessions, NEW i \in Positions, complete'[s] # None,
                        steps[s][i] # None, i < Len(complete'[s])
                 PROVE  complete'[s][i + 1] = EntryOf(steps[s][i])
      BY <2>1 DEF CompleteAgrees, Present, EntryOf
    <3>1. CASE s = current.session
      <4>1. complete'[s] = seen
        BY <1>0, <2>1, <3>1 DEF TypeOK
      <4> QED
        BY <2>2, <3>1, <4>1 DEF Present, here, index
    <3>2. CASE s # current.session
      <4>1. complete'[s] = complete[s]
        BY <1>0, <2>1, <3>2 DEF TypeOK
      <4> QED
        BY <4>1 DEF CompleteInv, CompleteAgrees, Present
    <3> QED
      BY <3>1, <3>2
  <2> QED
    BY <2>1, <2>3 DEF CompletePhases
<1>11. CASE LoseArtifact
  <2>1. steps' = steps /\ complete' = complete /\ phase' = "closed"
    BY <1>11 DEF LoseArtifact
  <2> QED
    BY <2>1, AgreesShrink DEF CompleteInv, CompletePhases
<1>12. CASE UNCHANGED vars
  BY <1>12 DEF vars, CompleteInv, CompleteAgrees, CompletePhases, Present, EntryOf
<1> QED
  BY <1>1, <1>2, <1>3, <1>4, <1>5, <1>6, <1>7, <1>8, <1>9, <1>10, <1>11, <1>12 DEF Next

\* completed() may trust complete.json: unless archiving fails, it never says
\* anything else than the step files it is stored beside.
THEOREM CompleteIsSound ==
    ASSUME ~ArchiveMayFail
    PROVE  Spec => []CompleteAgrees
<1>1. CompleteInv => CompleteAgrees
  BY DEF CompleteInv
<1>2. CompleteInv /\ [Next]_vars => CompleteInv'
  BY CompleteNext
<1> QED
  BY CompleteInit, <1>1, <1>2, PTL DEF Spec
-----------------------------------------------------------------------------
\* What NoRework needs.  It is about files that no gap and no unusable result
\* separates from the beginning of the session, and holds of them even when
\* archiving fails half-way.
Usable(r)     == r # None /\ Reusable(r)
Gapless(f, i) == \A j \in 0 .. i : Usable(f[j])

\* Such files are the past of the file behind them, which answers a request the
\* pipeline makes after that past ...
GaplessFiles ==
    \A s \in Sessions : \A i \in Positions : Gapless(steps[s], i) =>
        /\ Len(steps[s][i].basis) = i
        /\ \A j \in 0 .. i - 1 : steps[s][i].basis[j + 1] = EntryOf(steps[s][j])
        /\ steps[s][i].request \in Asks(steps[s][i].by, steps[s][i].basis)

\* ... and what this run was told.
GaplessSeen ==
    phase # "closed" =>
        \A i \in 0 .. index - 1 : Gapless(here, i) => seen[i + 1] = EntryOf(here[i])

\* A run moves files aside or does a step itself only behind a gap.
GapAtMiss ==
    phase \in {"archiving", "executing", "saving"} =>
        /\ ~Gapless(here, index)
        /\ pending.request \in Asks(current.identity, seen)

ReworkInv == Ownership /\ SuffixCleared /\ GaplessFiles /\ GaplessSeen /\ GapAtMiss

\* A pipeline whose requests depend on nothing but what it was told.
Deterministic ==
    \A id \in Identities : \A told \in Histories : \A q, r \in Asks(id, told) : q = r

LEMMA ReworkTypes ==
    ASSUME Typing
    PROVE  /\ index \in 0 .. MaxSteps
           /\ \A i \in Positions : i \in Nat /\ \A j \in 0 .. i : j \in Positions
           /\ \A i \in 0 .. index - 1 : i \in Positions
           /\ phase # "closed" => current.session \in Sessions
<1>1. index \in 0 .. MaxSteps
  BY HistoryIsSeq DEF Typing, TypeOK, index
<1>2. phase # "closed" => current.session \in Sessions
  BY ConstantsAssumption DEF Typing, TypeOK, Sessions
<1> QED
  BY <1>1, <1>2, ConstantsAssumption DEF Positions

\* Files that only disappear leave no new gapless beginning.
LEMMA GaplessShrink ==
    ASSUME Typing, NEW s \in Sessions, NEW i \in Positions,
           \A k \in Positions : steps'[s][k] \in {steps[s][k], None},
           Gapless(steps'[s], i)
    PROVE  /\ Gapless(steps[s], i)
           /\ \A j \in 0 .. i : steps'[s][j] = steps[s][j]
<1>1. \A j \in 0 .. i : j \in Positions /\ steps'[s][j] # None
  BY ReworkTypes DEF Gapless, Usable
<1>2. \A j \in 0 .. i : steps'[s][j] = steps[s][j]
  BY <1>1
<1> QED
  BY <1>2 DEF Gapless, Usable

LEMMA GaplessFilesShrink ==
    ASSUME Typing, GaplessFiles,
           \A s \in Sessions : \A k \in Positions : steps'[s][k] \in {steps[s][k], None}
    PROVE  GaplessFiles'
<1> SUFFICES ASSUME NEW s \in Sessions, NEW i \in Positions, Gapless(steps'[s], i)
             PROVE  /\ Len(steps'[s][i].basis) = i
                    /\ \A j \in 0 .. i - 1 : steps'[s][i].basis[j + 1] = EntryOf(steps'[s][j])
                    /\ steps'[s][i].request \in Asks(steps'[s][i].by, steps'[s][i].basis)
  BY DEF GaplessFiles, EntryOf
<1>1. Gapless(steps[s], i) /\ \A j \in 0 .. i : steps'[s][j] = steps[s][j]
  BY GaplessShrink
<1>2. steps'[s][i] = steps[s][i] /\ \A j \in 0 .. i - 1 : steps'[s][j] = steps[s][j]
  BY <1>1, ReworkTypes
<1> QED
  BY <1>1, <1>2 DEF GaplessFiles

\* A run that is told nothing more, or is over, still agrees with the files.
LEMMA GaplessSeenShrink ==
    ASSUME Typing, GaplessSeen, current' = current,
           \A s \in Sessions : \A k \in Positions : steps'[s][k] \in {steps[s][k], None},
           \/ phase' = "closed"
           \/ seen' = seen /\ phase # "closed"
    PROVE  GaplessSeen'
<1> SUFFICES ASSUME phase # "closed", seen' = seen, NEW i \in 0 .. index - 1, Gapless(steps'[current.session], i)
             PROVE  seen[i + 1] = EntryOf(steps'[current.session][i])
  BY DEF GaplessSeen, EntryOf, here, index
<1>1. current.session \in Sessions /\ i \in Positions /\ i \in 0 .. i
  BY ReworkTypes
<1>2. Gapless(here, i) /\ steps'[current.session][i] = here[i]
  BY <1>1, GaplessShrink DEF here
<1> QED
  BY <1>2 DEF GaplessSeen, EntryOf

\* A run that is told entry e at the cursor still agrees with the files, if the
\* file there, should no gap precede it, says e.
LEMMA GaplessSeenTell ==
    ASSUME Typing, GaplessSeen, NEW e \in Entry, Tell(e), phase # "closed", index < MaxSteps,
           current' = current,
           \A i \in 0 .. index - 1 : steps'[current.session][i] = here[i],
           Gapless(steps'[current.session], index) => EntryOf(steps'[current.session][index]) = e
    PROVE  GaplessSeen'
<1>1. /\ Len(seen') = index + 1
      /\ \A k \in 1 .. index : seen'[k] = seen[k]
      /\ seen'[index + 1] = e
      /\ index \in Nat
  BY HistoryAppend, HistoryIsSeq DEF Tell, Typing, TypeOK, index
<1>2. ASSUME NEW i \in 0 .. index, Gapless(steps'[current.session], i)
      PROVE  seen'[i + 1] = EntryOf(steps'[current.session][i])
  <2>1. CASE i = index
    BY <2>1, <1>1, <1>2
  <2>2. CASE i < index
    <3>1. i \in 0 .. index - 1 /\ \A j \in 0 .. i : j \in 0 .. index - 1
      BY <2>2, <1>1
    <3>2. Gapless(here, i)
      BY <1>2, <3>1 DEF Gapless, Usable, here
    <3>3. i + 1 \in 1 .. index
      BY <3>1, <1>1
    <3> QED
      BY <1>1, <3>1, <3>2, <3>3 DEF GaplessSeen, here
  <2> QED
    BY <2>1, <2>2, <1>1
<1> QED
  BY <1>1, <1>2 DEF GaplessSeen, EntryOf, here, index

LEMMA ReworkInit == Init => ReworkInv
<1> SUFFICES ASSUME Init
             PROVE  ReworkInv
  OBVIOUS
<1>1. \A s \in Sessions : \A i \in Positions : ~Gapless(steps[s], i)
  BY ConstantsAssumption DEF Init, Gapless, Usable, Replayable, Present, Positions
<1> QED
  BY <1>1, OwnershipInit
  DEF Init, ReworkInv, SuffixCleared, GaplessFiles, GaplessSeen, GapAtMiss

\* A deterministic pipeline misses only behind a gap: without one, the file at
\* the cursor was written after this very past, so that it answers the request
\* that this past leads to.
LEMMA MissNeedsGap ==
    ASSUME Deterministic, ReworkInv, NEW q \in Requests, Miss(q)
    PROVE  ~Gapless(here, index)
<1> SUFFICES ASSUME Gapless(here, index)
             PROVE  FALSE
  OBVIOUS
<1> DEFINE file == here[index]
<1>1. Typing /\ phase = "ready" /\ index < MaxSteps /\ q \in Asks(current.identity, seen)
  BY DEF Miss, MayAsk, ReworkInv, Ownership
<1>2. index \in Positions /\ current.session \in Sessions /\ index \in Nat
  BY <1>1, ReworkTypes, ConstantsAssumption DEF Positions
<1>3. Present(current.session, index) /\ Reusable(file)
  BY <1>2 DEF Gapless, Usable, Present, here
<1>4. file \in Record
  BY <1>1, <1>2, <1>3 DEF Typing, TypeOK, Present, here
<1>5. /\ Len(file.basis) = index
      /\ \A j \in 0 .. index - 1 : file.basis[j + 1] = EntryOf(here[j])
      /\ file.request \in Asks(file.by, file.basis)
  BY <1>2 DEF ReworkInv, GaplessFiles, here
<1>6. \A j \in 0 .. index - 1 : seen[j + 1] = EntryOf(here[j])
  <2> SUFFICES ASSUME NEW j \in 0 .. index - 1
               PROVE  seen[j + 1] = EntryOf(here[j])
    OBVIOUS
  <2>1. Gapless(here, j)
    BY <1>2 DEF Gapless, Usable
  <2> QED
    BY <1>1, <2>1 DEF ReworkInv, GaplessSeen
<1>7. file.by = current.identity
  BY <1>1, <1>2, <1>3 DEF ReworkInv, Ownership, OwnIdentity, Typing, TypeOK
<1>8. file.basis = seen
  <2> DEFINE past == file.basis
  <2>1. seen \in Histories /\ past \in Histories /\ Len(past) = index
    BY <1>1, <1>4, <1>5 DEF Typing, TypeOK, Record
  <2>2. \A j \in 0 .. index - 1 : past[j + 1] = seen[j + 1]
    BY <1>5, <1>6
  <2> HIDE DEF past
  <2>3. \A k \in 1 .. index : past[k] = seen[k]
    <3> SUFFICES ASSUME NEW k \in 1 .. index
                 PROVE  past[k] = seen[k]
      OBVIOUS
    <3>1. k - 1 \in 0 .. index - 1 /\ (k - 1) + 1 = k
      BY <1>2
    <3> QED
      BY <2>2, <3>1
  <2>4. past = seen
    BY <2>1, <2>3, HistoryEqual DEF index
  <2> QED
    BY <2>4 DEF past
<1>9. file.request = q
  BY <1>1, <1>5, <1>7, <1>8 DEF Deterministic, Typing, TypeOK
<1> QED
  BY <1>3, <1>9 DEF Miss, Answers, Present, here

\* Steps that leave the files and the current session alone and tell nothing.
LEMMA ReworkQuiet ==
    ASSUME ReworkInv, steps' = steps, current' = current,
           \/ seen' = seen /\ phase # "closed"
           \/ phase' = "closed"
    PROVE  GaplessFiles' /\ GaplessSeen'
BY GaplessFilesShrink, GaplessSeenShrink DEF ReworkInv, Ownership

LEMMA ReworkNext == Deterministic /\ ReworkInv /\ [Next]_vars => ReworkInv'
<1> SUFFICES ASSUME Deterministic, ReworkInv, [Next]_vars
             PROVE  SuffixCleared' /\ GaplessFiles' /\ GaplessSeen' /\ GapAtMiss'
  BY OwnershipNext DEF ReworkInv
<1> USE DEF files, run
<1>0. Typing
  BY DEF ReworkInv, Ownership
<1>1. ASSUME NEW id \in Identities, Open(id) \/ Skip(id)
      PROVE  SuffixCleared' /\ GaplessFiles' /\ GaplessSeen' /\ GapAtMiss'
  <2>1. steps' = steps /\ seen' = << >> /\ phase' \in {"ready", "closed"}
    BY <1>0, <1>1 DEF Open, Skip, Typing, PhaseOK
  <2>2. GaplessFiles'
    BY <1>0, <2>1, GaplessFilesShrink DEF ReworkInv
  <2>3. GaplessSeen'
    BY <2>1 DEF GaplessSeen, index
  <2> QED
    BY <2>1, <2>2, <2>3 DEF SuffixCleared, GapAtMiss
<1>2. ASSUME NEW q \in Requests, Replay(q)
      PROVE  SuffixCleared' /\ GaplessFiles' /\ GaplessSeen' /\ GapAtMiss'
  <2> DEFINE e == [request |-> q, result |-> here[index].result]
  <2>1. /\ phase = "ready" /\ index < MaxSteps /\ Tell(e) /\ phase' = "ready"
        /\ steps' = steps /\ current' = current
        /\ EntryOf(here[index]) = e /\ Present(current.session, index)
    BY <1>2 DEF Replay, MayAsk, Answers, Tell, EntryOf, Present, here
  <2>2. current.session \in Sessions /\ index \in Positions
    BY <1>0, <2>1, ReworkTypes, ConstantsAssumption DEF Positions
  <2>3. here[index] \in Record
    BY <1>0, <2>1, <2>2 DEF Typing, TypeOK, Present, here
  <2>4. e \in Entry
    BY <2>3 DEF Entry, Record, Outcomes
  <2> HIDE DEF e
  <2>5. GaplessFiles'
    BY <1>0, <2>1, GaplessFilesShrink DEF ReworkInv
  <2>6. GaplessSeen'
    BY <1>0, <2>1, <2>4, GaplessSeenTell DEF ReworkInv, here
  <2> QED
    BY <2>1, <2>5, <2>6 DEF SuffixCleared, GapAtMiss
<1>3. ASSUME NEW q \in Requests, Miss(q)
      PROVE  SuffixCleared' /\ GaplessFiles' /\ GaplessSeen' /\ GapAtMiss'
  <2>1. /\ phase = "ready" /\ q \in Asks(current.identity, seen) /\ phase' = "archiving"
        /\ pending'.request = q /\ steps' = steps /\ current' = current /\ seen' = seen
    BY <1>3 DEF Miss, MayAsk
  <2>2. ~Gapless(here, index)
    BY <1>3, MissNeedsGap
  <2>3. GapAtMiss'
    BY <2>1, <2>2 DEF GapAtMiss, here, index
  <2> QED
    BY <2>1, <2>3, ReworkQuiet DEF SuffixCleared
<1>4. ASSUME NEW n \in Positions, Archive(n)
      PROVE  SuffixCleared' /\ GaplessFiles' /\ GaplessSeen' /\ GapAtMiss'
  <2>1. /\ \A s \in Sessions : \A i \in Positions : steps'[s][i] \in {steps[s][i], None}
        /\ current' = current /\ seen' = seen /\ phase' = "archiving" /\ phase = "archiving"
        /\ pending' = pending
    BY <1>0, <1>4 DEF Archive, Typing, TypeOK
  <2>2. current.session \in Sessions /\ index \in Positions
    BY <1>0, <2>1, ReworkTypes, ConstantsAssumption DEF Positions, Typing, PhaseOK
  <2>3. ~Gapless(steps'[current.session], index)
    BY <1>0, <2>1, <2>2, GaplessShrink DEF ReworkInv, GapAtMiss, here
  <2>4. GapAtMiss'
    BY <2>1, <2>3 DEF ReworkInv, GapAtMiss, here, index
  <2> QED
    BY <1>0, <2>1, <2>4, GaplessFilesShrink, GaplessSeenShrink DEF ReworkInv, SuffixCleared
<1>5. CASE ArchiveFails \/ Raise
  <2>1. /\ phase \in {"archiving", "executing"} /\ Tell(pending) /\ steps' = steps /\ current' = current
        /\ phase' = "ready" /\ pending \in Entry /\ index < MaxSteps
    BY <1>0, <1>5 DEF ArchiveFails, Raise, Tell, Typing, PhaseOK
  <2>2. ~Gapless(steps'[current.session], index)
    BY <2>1 DEF ReworkInv, GapAtMiss, here
  <2>3. GaplessFiles'
    BY <1>0, <2>1, GaplessFilesShrink DEF ReworkInv
  <2>4. GaplessSeen'
    BY <1>0, <2>1, <2>2, GaplessSeenTell DEF ReworkInv, here
  <2> QED
    BY <2>1, <2>3, <2>4 DEF SuffixCleared, GapAtMiss
<1>6. CASE Unlink
  <2>1. /\ phase = "archiving" /\ phase' = "executing" /\ steps' = steps /\ current' = current
        /\ seen' = seen /\ pending' = pending
    BY <1>6 DEF Unlink
  <2>2. \A i \in Positions : Present(current.session, i) => ~(i >= index)
    BY <1>6 DEF Unlink, Suffix
  <2>3. SuffixCleared'
    BY <1>0, <2>1, <2>2, ReworkTypes, ConstantsAssumption DEF SuffixCleared, Present, index
  <2>4. GapAtMiss'
    BY <2>1 DEF ReworkInv, GapAtMiss, here, index
  <2> QED
    BY <2>1, <2>3, <2>4, ReworkQuiet
<1>7. ASSUME NEW r \in Results, Execute(r)
      PROVE  SuffixCleared' /\ GaplessFiles' /\ GaplessSeen' /\ GapAtMiss'
  <2>1. /\ phase = "executing" /\ phase' = "saving" /\ steps' = steps /\ current' = current
        /\ seen' = seen /\ pending' = [pending EXCEPT !.result = r] /\ pending \in Entry
    BY <1>0, <1>7 DEF Execute, Typing, PhaseOK
  <2>2. pending'.request = pending.request
    BY <2>1 DEF Entry
  <2>3. SuffixCleared' /\ GapAtMiss'
    BY <2>1, <2>2 DEF ReworkInv, SuffixCleared, GapAtMiss, Present, here, index
  <2> QED
    BY <2>1, <2>3, ReworkQuiet
<1>8. CASE Save
  <2> DEFINE s0   == current.session
             file == [request |-> pending.request, result |-> pending.result,
                      by |-> current.identity, basis |-> seen]
  <2>1. /\ phase = "saving" /\ pending \in Entry /\ index < MaxSteps
        /\ steps' = [steps EXCEPT ![s0][index] = file]
        /\ current' = current /\ phase' \in {"ready", "closed"}
        /\ pending.request \in Asks(current.identity, seen)
        /\ \A i \in Positions : Present(s0, i) => i < index
    BY <1>0, <1>8 DEF Save, Tell, Close, Typing, PhaseOK, ReworkInv, SuffixCleared, GapAtMiss
  <2>2. s0 \in Sessions /\ index \in Positions /\ index \in Nat
    BY <1>0, <2>1, ReworkTypes, ConstantsAssumption DEF Positions
  <2>3. /\ EntryOf(file) = pending /\ file.basis = seen /\ file.by = current.identity
        /\ file.request = pending.request
    BY <2>1 DEF EntryOf, Entry
  <2> HIDE DEF file
  <2>4. /\ \A s \in Sessions : s # s0 => steps'[s] = steps[s]
        /\ \A i \in Positions : i # index => steps'[s0][i] = here[i]
        /\ steps'[s0][index] = file
    BY <1>0, <2>1, <2>2 DEF Typing, TypeOK, here
  <2>5. \A i \in 0 .. index - 1 : i \in Positions /\ i # index
    BY <2>2, <1>0, ReworkTypes
  <2>6. GaplessFiles'
    <3> SUFFICES ASSUME NEW s \in Sessions, NEW i \in Positions, Gapless(steps'[s], i)
                 PROVE  /\ Len(steps'[s][i].basis) = i
                        /\ \A j \in 0 .. i - 1 : steps'[s][i].basis[j + 1] = EntryOf(steps'[s][j])
                        /\ steps'[s][i].request \in Asks(steps'[s][i].by, steps'[s][i].basis)
      BY DEF GaplessFiles, EntryOf
    <3>1. CASE s # s0
      BY <2>4, <3>1 DEF ReworkInv, GaplessFiles
    <3>2. CASE s = s0 /\ i < index
      <4>0. i \in Nat /\ index \in Nat /\ i < index
        BY <1>0, <2>2, <3>2, ReworkTypes
      <4>1. \A j \in 0 .. i : j \in 0 .. index - 1
        BY <4>0
      <4>2. \A j \in 0 .. i : steps'[s0][j] = here[j]
        BY <2>4, <2>5, <4>1
      <4>3. Gapless(steps[s0], i)
        BY <3>2, <4>2 DEF Gapless, Usable, here
      <4>4. steps'[s0][i] = steps[s0][i] /\ \A j \in 0 .. i - 1 : steps'[s0][j] = steps[s0][j]
        BY <1>0, <4>2, ReworkTypes DEF here
      <4> QED
        BY <2>2, <3>2, <4>3, <4>4 DEF ReworkInv, GaplessFiles
    <3>3. CASE s = s0 /\ i = index
      <4>1. \A j \in 0 .. index - 1 : Gapless(here, j)
        <5> SUFFICES ASSUME NEW j \in 0 .. index - 1, NEW k \in 0 .. j
                     PROVE  Usable(here[k])
          BY DEF Gapless, Usable
        <5>1. k \in 0 .. index - 1 /\ k \in 0 .. i
          BY <2>2, <3>3
        <5>2. steps'[s0][k] = here[k]
          BY <2>4, <2>5, <5>1
        <5> QED
          BY <3>3, <5>1, <5>2 DEF Gapless, Usable
      <4>2. \A j \in 0 .. index - 1 : seen[j + 1] = EntryOf(steps'[s0][j])
        BY <2>1, <2>4, <2>5, <4>1 DEF ReworkInv, GaplessSeen
      <4> QED
        BY <2>1, <2>3, <2>4, <3>3, <4>2 DEF index
    <3>4. CASE i > index
      <4>1. i \in Nat /\ i # index
        BY <1>0, <2>2, <3>4, ReworkTypes
      <4>2. CASE s = s0
        <5>1. steps'[s0][i] = here[i] /\ i \in 0 .. i
          BY <2>4, <4>1
        <5>2. Present(s0, i)
          BY <4>2, <5>1 DEF Gapless, Usable, Present, here
        <5> QED
          BY <2>1, <2>2, <3>4, <4>1, <5>2
      <4> QED
        BY <3>1, <4>2
    <3> QED
      BY <1>0, <2>2, <3>1, <3>2, <3>3, <3>4, ReworkTypes
  <2>7. GaplessSeen'
    <3>1. CASE pending.result \in Infra
      <4>1. phase' = "closed"
        BY <1>8, <3>1 DEF Save, Close
      <4> QED
        BY <4>1 DEF GaplessSeen
    <3>2. CASE pending.result \notin Infra
      <4>1. Tell(pending)
        BY <1>8, <3>2 DEF Save
      <4> QED
        BY <1>0, <2>1, <2>3, <2>4, <2>5, <4>1, GaplessSeenTell DEF ReworkInv
    <3> QED
      BY <3>1, <3>2
  <2> QED
    BY <2>1, <2>6, <2>7 DEF SuffixCleared, GapAtMiss
<1>9. CASE Pause \/ Error \/ Finish \/ Decline \/ Crash
  <2>1. steps' = steps /\ current' = current /\ phase' = "closed"
    BY <1>9 DEF Pause, Error, Finish, Decline, Crash, Close
  <2> QED
    BY <2>1, ReworkQuiet DEF SuffixCleared, GapAtMiss
<1>10. CASE Summarise
  <2>1. steps' = steps /\ current' = current /\ seen' = seen /\ phase = "ready" /\ phase' = "finishing"
    BY <1>10 DEF Summarise
  <2> QED
    BY <2>1, ReworkQuiet DEF SuffixCleared, GapAtMiss
<1>11. CASE LoseArtifact
  <2>1. steps' = steps /\ current' = current /\ phase' = "closed"
    BY <1>11 DEF LoseArtifact
  <2> QED
    BY <2>1, ReworkQuiet DEF SuffixCleared, GapAtMiss
<1>12. CASE UNCHANGED vars
  BY <1>12 DEF vars, ReworkInv, SuffixCleared, GaplessFiles, GaplessSeen, GapAtMiss,
               Present, EntryOf, here, index
<1> QED
  BY <1>1, <1>2, <1>3, <1>4, <1>5, <1>6, <1>7, <1>8, <1>9, <1>10, <1>11, <1>12 DEF Next

\* Resuming a pipeline whose requests depend only on what it was told repeats
\* no finished work: a reusable step with only reusable steps before it stays
\* where it is, however often the process dies and whatever archiving leaves
\* behind.
THEOREM FinishedWorkStays ==
    ASSUME Deterministic
    PROVE  Spec => NoRework
<1>1. ReworkInv /\ [Next]_vars
        => [\A s \in Sessions : \A i \in Positions :
              (\A j \in 0 .. i : Replayable(s, j)) => steps'[s][i] = steps[s][i]]_vars
  <2> SUFFICES ASSUME ReworkInv, Next, NEW s \in Sessions, NEW i \in Positions,
                      \A j \in 0 .. i : Replayable(s, j)
               PROVE  steps'[s][i] = steps[s][i]
    BY DEF vars
  <2> USE DEF files, run
  <2>1. Typing /\ Gapless(steps[s], i) /\ i \in Nat
    BY ReworkTypes DEF ReworkInv, Ownership, Gapless, Usable, Replayable, Present
  <2>2. ASSUME phase \in {"archiving", "executing", "saving"}, s = current.session, i >= index
        PROVE  FALSE
    <3>1. index \in Nat /\ index \in 0 .. i
      BY <2>1, <2>2, ReworkTypes, ConstantsAssumption
    <3>2. Gapless(here, index)
      BY <2>1, <2>2, <3>1 DEF Gapless, Usable, here
    <3> QED
      BY <2>2, <3>2 DEF ReworkInv, GapAtMiss
  <2>3. ASSUME NEW n \in Positions, Archive(n)
        PROVE  steps'[s][i] = steps[s][i]
    <3>1. phase = "archiving" /\ n >= index /\ steps' = [steps EXCEPT ![current.session][n] = None]
      BY <2>3 DEF Archive, Suffix
    <3>2. s # current.session \/ i # n
      BY <2>2, <3>1
    <3> QED
      BY <2>1, <3>1, <3>2 DEF Typing, TypeOK
  <2>4. CASE Save
    <3>1. phase = "saving"
      BY <2>4 DEF Save
    <3>2. s # current.session \/ i # index
      BY <2>1, <2>2, <3>1
    <3> DEFINE file == [request |-> pending.request, result |-> pending.result,
                        by |-> current.identity, basis |-> seen]
    <3>3. steps' = [steps EXCEPT ![current.session][index] = file]
      BY <2>4 DEF Save
    <3> HIDE DEF file
    <3> QED
      BY <2>1, <3>2, <3>3 DEF Typing, TypeOK
  <2>5. CASE \/ \E id \in Identities : Open(id) \/ Skip(id)
             \/ \E q \in Requests : Replay(q) \/ Miss(q)
             \/ ArchiveFails \/ Unlink \/ \E r \in Results : Execute(r)
             \/ Raise \/ Pause \/ Error \/ Summarise \/ Finish \/ Decline \/ Crash \/ LoseArtifact
    BY <2>5 DEF Open, Skip, Replay, Miss, ArchiveFails, Unlink, Execute, Raise, Pause, Error,
                Summarise, Finish, Decline, Crash, LoseArtifact
  <2> QED
    BY <2>3, <2>4, <2>5 DEF Next
<1>2. ReworkInv /\ [Next]_vars => ReworkInv'
  BY ReworkNext
<1> QED
  BY ReworkInit, <1>1, <1>2, PTL DEF Spec, NoRework
-----------------------------------------------------------------------------
\* The journal implements ReplayLog.  The log is the longest gapless prefix of
\* usable files, defined here for the files f of any session.
PrefixLengths(f) == {n \in 0 .. MaxSteps : \A i \in 0 .. n - 1 : Usable(f[i])}
PrefixLength(f)  == CHOOSE n \in PrefixLengths(f) : \A m \in PrefixLengths(f) : m <= n
Prefix(f)        == [i \in 1 .. PrefixLength(f) |-> EntryOf(f[i - 1])]

\* The order of the natural numbers as a relation.
Before == OpToRel(<, Nat)

\* A set of natural numbers has a least one.
LEMMA LeastOfNat ==
    ASSUME NEW K \in SUBSET Nat, K # {}
    PROVE  \E k \in K : \A j \in K : k <= j
<1>1. IsWellFoundedOn(Before, Nat)
  BY NatLessThanWellFounded DEF Before
<1>2. PICK k \in K : \A j \in K : <<j, k>> \notin Before
  BY <1>1, WFMin
<1>3. Before = {ss \in Nat \X Nat : ss[1] < ss[2]}
  BY Zenon DEF Before, OpToRel
<1>4. ASSUME NEW j \in K
      PROVE  k <= j
  <2>1. k \in Nat /\ j \in Nat
    OBVIOUS
  <2>2. <<j, k>> \in Nat \X Nat /\ <<j, k>>[1] = j /\ <<j, k>>[2] = k
    BY <2>1
  <2>3. ~ (j < k)
    BY <1>2, <1>3, <2>2, Zenon
  <2> QED
    BY <2>1, <2>3
<1> QED
  BY <1>4

\* Usable files up to n and none at n (or n is the last position) make n the
\* length of the prefix.
LEMMA PrefixLengthIs ==
    ASSUME NEW f, NEW n \in 0 .. MaxSteps, \A i \in 0 .. n - 1 : Usable(f[i]),
           n = MaxSteps \/ ~Usable(f[n])
    PROVE  PrefixLength(f) = n
<1>1. n \in PrefixLengths(f)
  BY DEF PrefixLengths
<1>2. ASSUME NEW m \in PrefixLengths(f)
      PROVE  m <= n
  <2>1. m \in 0 .. MaxSteps /\ \A i \in 0 .. m - 1 : Usable(f[i])
    BY <1>2 DEF PrefixLengths
  <2>2. CASE m > n
    <3>1. n \in 0 .. m - 1 /\ n # MaxSteps
      BY <2>1, <2>2, ConstantsAssumption
    <3> QED
      BY <2>1, <3>1
  <2> QED
    BY <2>1, <2>2, ConstantsAssumption
<1>3. \A m \in PrefixLengths(f) : m \in Nat
  BY ConstantsAssumption DEF PrefixLengths
<1>4. PrefixLength(f) \in PrefixLengths(f) /\ \A m \in PrefixLengths(f) : m <= PrefixLength(f)
  BY <1>1, <1>2 DEF PrefixLength
<1> DEFINE p == PrefixLength(f)
<1>5. p \in Nat /\ n \in Nat /\ p <= n /\ n <= p
  BY <1>1, <1>2, <1>3, <1>4
<1> HIDE DEF p
<1>6. p = n
  BY <1>5
<1> QED
  BY <1>6 DEF p

\* There is such a position: the first one without a usable file.
LEMMA PrefixLengthStops ==
    ASSUME NEW f
    PROVE  /\ PrefixLength(f) \in 0 .. MaxSteps
           /\ \A i \in 0 .. PrefixLength(f) - 1 : Usable(f[i])
           /\ PrefixLength(f) = MaxSteps \/ ~Usable(f[PrefixLength(f)])
<1> DEFINE Stops == {k \in 0 .. MaxSteps : k = MaxSteps \/ ~Usable(f[k])}
<1>1. Stops \subseteq Nat /\ MaxSteps \in Stops
  BY ConstantsAssumption
<1>2. PICK n \in Stops : \A m \in Stops : n <= m
  BY <1>1, LeastOfNat
<1>3. n \in 0 .. MaxSteps /\ (n = MaxSteps \/ ~Usable(f[n]))
  OBVIOUS
<1>4. \A i \in 0 .. n - 1 : Usable(f[i])
  <2> SUFFICES ASSUME NEW i \in 0 .. n - 1, ~Usable(f[i])
               PROVE  FALSE
    OBVIOUS
  <2>1. i \in Stops /\ i < n
    BY <1>3, ConstantsAssumption
  <2> QED
    BY <1>2, <2>1, <1>1
<1>5. PrefixLength(f) = n
  BY <1>3, <1>4, PrefixLengthIs
<1> QED
  BY <1>3, <1>4, <1>5

LEMMA PrefixIs ==
    ASSUME NEW f, \A i \in Positions : f[i] \in Record \cup {None}
    PROVE  /\ Prefix(f) \in Histories
           /\ Len(Prefix(f)) = PrefixLength(f)
           /\ \A k \in 1 .. PrefixLength(f) : Prefix(f)[k] = EntryOf(f[k - 1])
<1> DEFINE n == PrefixLength(f)
<1>1. n \in 0 .. MaxSteps /\ n \in Nat /\ \A i \in 0 .. n - 1 : Usable(f[i])
  BY PrefixLengthStops, ConstantsAssumption
<1>2. ASSUME NEW k \in 1 .. n
      PROVE  EntryOf(f[k - 1]) \in Entry
  <2>1. k - 1 \in 0 .. n - 1 /\ k - 1 \in Positions
    BY <1>1, ConstantsAssumption DEF Positions
  <2>2. f[k - 1] \in Record
    BY <1>1, <2>1 DEF Usable
  <2> QED
    BY <2>2 DEF Record, Entry, EntryOf, Outcomes
<1>3. Prefix(f) = [i \in 1 .. n |-> EntryOf(f[i - 1])]
  BY DEF Prefix
<1> HIDE DEF n
<1>4. Prefix(f) \in [1 .. n -> Entry]
  BY <1>2, <1>3
<1>5. Prefix(f) \in Histories
  BY <1>1, <1>4 DEF Histories
<1>6. Prefix(f) \in Seq(Entry) /\ Len(Prefix(f)) = n
  BY <1>1, <1>4
<1> QED
  BY <1>3, <1>5, <1>6 DEF n

\* The log only depends on the files up to the first unusable one.
LEMMA PrefixSame ==
    ASSUME NEW f, NEW g, \A i \in Positions : f[i] \in Record \cup {None},
           \A i \in Positions : g[i] \in Record \cup {None},
           \A i \in 0 .. PrefixLength(f) - 1 : g[i] = f[i],
           PrefixLength(f) = MaxSteps \/ ~Usable(g[PrefixLength(f)])
    PROVE  Prefix(g) = Prefix(f)
<1> DEFINE n == PrefixLength(f)
<1>1. n \in 0 .. MaxSteps /\ \A i \in 0 .. n - 1 : Usable(f[i])
  BY PrefixLengthStops
<1>2. PrefixLength(g) = n
  BY <1>1, PrefixLengthIs
<1>3. /\ Prefix(f) \in Histories /\ Len(Prefix(f)) = n
      /\ Prefix(g) \in Histories /\ Len(Prefix(g)) = n
      /\ \A k \in 1 .. n : Prefix(f)[k] = EntryOf(f[k - 1])
      /\ \A k \in 1 .. n : Prefix(g)[k] = EntryOf(g[k - 1])
  BY <1>2, PrefixIs
<1>4. \A k \in 1 .. n : k - 1 \in 0 .. n - 1
  BY <1>1, ConstantsAssumption
<1>5. \A k \in 1 .. n : Prefix(g)[k] = Prefix(f)[k]
  BY <1>3, <1>4
<1> HIDE DEF n
<1> QED
  BY <1>3, <1>5, HistoryEqual

\* A history that agrees with a longer one is a beginning of it.
LEMMA BeginningOf ==
    ASSUME NEW g \in Histories, NEW h \in Histories, NEW n \in Nat, Len(g) = n, n <= Len(h),
           \A k \in 1 .. n : g[k] = h[k]
    PROVE  g = SubSeq(h, 1, n)
<1>1. g \in Seq(Entry) /\ h \in Seq(Entry) /\ Len(h) \in Nat
  BY HistoryIsSeq, ConstantsAssumption
<1>2. \A k \in 1 .. n : h[k] \in Entry
  <2> SUFFICES ASSUME NEW k \in 1 .. n
               PROVE  h[k] \in Entry
    OBVIOUS
  <2>1. k \in 1 .. Len(h)
    BY <1>1
  <2> QED
    BY <1>1, <2>1, ElementOfSeq
<1>3. /\ SubSeq(h, 1, n) \in Seq(Entry)
      /\ Len(SubSeq(h, 1, n)) = n
      /\ \A k \in 1 .. n : SubSeq(h, 1, n)[k] = h[k]
  <2>1. /\ SubSeq(h, 1, n) \in Seq(Entry)
        /\ Len(SubSeq(h, 1, n)) = IF 1 <= n THEN n - 1 + 1 ELSE 0
        /\ \A k \in 1 .. n - 1 + 1 : SubSeq(h, 1, n)[k] = h[1 + k - 1]
    BY <1>2, SubSeqProperties
  <2>2. n - 1 + 1 = n /\ \A k \in 1 .. n : 1 + k - 1 = k
    OBVIOUS
  <2> QED
    BY <2>1, <2>2
<1> QED
  BY <1>1, <1>3, SeqEqual

\* A run either still reads its session, every step so far from a usable file,
\* or it is past the files: there is none at the cursor or beyond it.
Reading ==
    \A j \in 0 .. index - 1 : Usable(here[j])
Ahead ==
    \A i \in Positions : Present(current.session, i) => i < index

LogInv == Ownership /\ PastInv /\ (phase # "closed" => Reading \/ Ahead)

LEMMA DurableIs ==
    /\ current.session # 0 => Durable = Prefix(here)
    /\ current.session = 0 => Durable = << >>
BY DEF Durable, Prefix, PrefixLength, PrefixLengths, Usable, Replayable, Present, here

LEMMA DurableIsNext ==
    /\ current'.session # 0 => Durable' = Prefix(steps'[current'.session])
    /\ current'.session = 0 => Durable' = << >>
BY DEF Durable, Prefix, PrefixLength, PrefixLengths, Usable, Replayable, Present, here, EntryOf, Reusable

\* What a run knows of the log: all it was told is there, or it was told all of
\* the log.
LEMMA LogFacts ==
    ASSUME LogInv, phase # "closed"
    PROVE  /\ current.session \in Sessions /\ current.session # 0 /\ Durable = Prefix(here)
           /\ \A i \in Positions : here[i] \in Record \cup {None}
           /\ seen \in Histories /\ index \in Nat /\ index <= MaxSteps
           /\ \A k \in 1 .. PrefixLength(here) : k <= index => EntryOf(here[k - 1]) = seen[k]
<1>1. Typing /\ ToldByFiles /\ current.session \in Sessions /\ index \in 0 .. MaxSteps
  BY ReworkTypes DEF LogInv, Ownership, PastInv
<1>2. current.session # 0 /\ seen \in Histories
  BY <1>1 DEF Typing, TypeOK
<1>3. \A i \in Positions : here[i] \in Record \cup {None}
  BY <1>1 DEF Typing, TypeOK, here
<1>4. ASSUME NEW k \in 1 .. PrefixLength(here), k <= index
      PROVE  EntryOf(here[k - 1]) = seen[k]
  <2>1. PrefixLength(here) \in 0 .. MaxSteps /\ Usable(here[k - 1])
    BY PrefixLengthStops, ConstantsAssumption
  <2>2. k - 1 \in Positions /\ k - 1 < index /\ (k - 1) + 1 = k
    BY <1>1, <1>4, <2>1, ConstantsAssumption DEF Positions
  <2> QED
    BY <1>1, <2>1, <2>2 DEF ToldByFiles, Usable, Present, here
<1> QED
  BY <1>1, <1>2, <1>3, <1>4, DurableIs, ConstantsAssumption

LEMMA ReadingPrefix ==
    ASSUME LogInv, phase # "closed", Reading
    PROVE  index <= PrefixLength(here) /\ Log!IsPrefixOf(seen, Durable)
<1>1. index \in 0 .. MaxSteps /\ seen \in Histories /\ Durable = Prefix(here)
  BY LogFacts, ConstantsAssumption
<1> DEFINE n == PrefixLength(here)
<1>2. n \in 0 .. MaxSteps /\ n \in Nat /\ index \in Nat /\ (n = MaxSteps \/ ~Usable(here[n]))
  BY <1>1, PrefixLengthStops, ConstantsAssumption
<1>3. index <= n
  <2>1. CASE n < index
    <3>1. n \in 0 .. index - 1 /\ n # MaxSteps
      BY <1>1, <1>2, <2>1, ConstantsAssumption
    <3> QED
      BY <1>2, <3>1 DEF Reading
  <2> QED
    BY <1>2, <2>1
<1>4. Durable \in Histories /\ Len(Durable) = n /\ \A k \in 1 .. n : Durable[k] = EntryOf(here[k - 1])
  BY <1>1, LogFacts, PrefixIs
<1>5. \A k \in 1 .. index : seen[k] = Durable[k]
  BY <1>2, <1>3, <1>4, LogFacts
<1> HIDE DEF n
<1>6. seen = SubSeq(Durable, 1, index)
  BY <1>1, <1>2, <1>3, <1>4, <1>5, BeginningOf DEF index
<1> QED
  BY <1>3, <1>4, <1>6 DEF Log!IsPrefixOf, index, n

LEMMA AheadPrefix ==
    ASSUME LogInv, phase # "closed", Ahead
    PROVE  PrefixLength(here) <= index /\ Log!IsPrefixOf(Durable, seen)
<1>1. index \in 0 .. MaxSteps /\ seen \in Histories /\ Durable = Prefix(here)
  BY LogFacts, ConstantsAssumption
<1> DEFINE n == PrefixLength(here)
<1>2. n \in 0 .. MaxSteps /\ n \in Nat /\ index \in Nat /\ \A i \in 0 .. n - 1 : Usable(here[i])
  BY <1>1, PrefixLengthStops, ConstantsAssumption
<1>3. n <= index
  <2>1. CASE n > index
    <3>1. index \in 0 .. n - 1 /\ index \in Positions
      BY <1>1, <1>2, <2>1, ConstantsAssumption DEF Positions
    <3>2. Present(current.session, index)
      BY <1>2, <3>1 DEF Usable, Present, here
    <3> QED
      BY <1>2, <3>1, <3>2 DEF Ahead
  <2> QED
    BY <1>2, <2>1
<1>4. Durable \in Histories /\ Len(Durable) = n /\ \A k \in 1 .. n : Durable[k] = EntryOf(here[k - 1])
  BY <1>1, LogFacts, PrefixIs
<1>5. \A k \in 1 .. n : Durable[k] = seen[k]
  BY <1>2, <1>3, <1>4, LogFacts
<1> HIDE DEF n
<1>6. Durable = SubSeq(seen, 1, n)
  BY <1>1, <1>2, <1>3, <1>4, <1>5, BeginningOf DEF index
<1> QED
  BY <1>3, <1>4, <1>6 DEF Log!IsPrefixOf, index, n

LEMMA LogInvInit == Init => LogInv
  BY PastInit, OwnershipInit DEF Init, LogInv

LEMMA LogInvNext == ~ArchiveMayFail /\ LogInv /\ [Next]_vars => LogInv'
<1> SUFFICES ASSUME ~ArchiveMayFail, LogInv, [Next]_vars
             PROVE  phase' # "closed" => Reading' \/ Ahead'
  BY PastNext, OwnershipNext DEF LogInv
<1> USE DEF files, run
<1>0. Typing /\ SuffixCleared /\ index \in 0 .. MaxSteps
  BY ReworkTypes DEF LogInv, Ownership, PastInv
<1>1. ASSUME NEW id \in Identities, Open(id) \/ Skip(id)
      PROVE  phase' # "closed" => Reading' \/ Ahead'
  <2>1. seen' = << >>
    BY <1>0, <1>1 DEF Open, Skip, Typing, PhaseOK
  <2> QED
    BY <2>1 DEF Reading, index
<1>2. ASSUME NEW q \in Requests, Replay(q)
      PROVE  phase' # "closed" => Reading' \/ Ahead'
  <2> DEFINE e == [request |-> q, result |-> here[index].result]
  <2>1. /\ phase = "ready" /\ index < MaxSteps /\ seen' = Append(seen, e)
        /\ steps' = steps /\ current' = current /\ Usable(here[index])
    BY <1>2 DEF Replay, MayAsk, Tell, Answers, Usable
  <2> HIDE DEF e
  <2>2. index \in Positions /\ Present(current.session, index)
    BY <1>0, <2>1, ConstantsAssumption DEF Positions, Usable, Present, here
  <2>3. Reading
    BY <1>0, <2>1, <2>2 DEF LogInv, Ahead
  <2>4. index' = index + 1
    BY <1>0, <2>1, HistoryIsSeq DEF index, Typing, TypeOK
  <2>5. \A j \in 0 .. index : j \in 0 .. index - 1 \/ j = index
    BY <1>0, ConstantsAssumption
  <2>6. Reading'
    <3>1. \A j \in 0 .. index : Usable(here[j])
      BY <2>1, <2>3, <2>5 DEF Reading
    <3> QED
      <4>1. \A j \in 0 .. index' - 1 : Usable(steps'[current'.session][j])
        BY <1>0, <2>1, <2>4, <3>1, ConstantsAssumption DEF here
      <4> QED
        BY <4>1 DEF Reading, here, Usable, Reusable
  <2> QED
    BY <2>6
<1>3. CASE \/ \E q \in Requests : Miss(q)
           \/ Unlink \/ \E r \in Results : Execute(r)
           \/ Summarise \/ LoseArtifact \/ UNCHANGED vars
  <2>1. steps' = steps /\ current' = current /\ seen' = seen /\ (phase' # "closed" => phase # "closed")
    BY <1>3 DEF Miss, Unlink, Execute, Summarise, LoseArtifact, vars
  <2> QED
    BY <2>1 DEF LogInv, Reading, Ahead, Present, Usable, Reusable, here, index
<1>4. ASSUME NEW n \in Positions, Archive(n)
      PROVE  phase' # "closed" => Reading' \/ Ahead'
  <2>1. /\ phase = "archiving" /\ n >= index /\ current' = current /\ seen' = seen
        /\ Present(current.session, n) /\ current.session \in Sessions
        /\ steps' = [steps EXCEPT ![current.session][n] = None]
    BY <1>0, <1>4, ReworkTypes DEF Archive, Suffix
  <2>2. Reading
    BY <1>0, <2>1, ReworkTypes DEF LogInv, Ahead
  <2>3. \A j \in 0 .. index - 1 : j \in Positions /\ j # n
    BY <1>0, <2>1, ReworkTypes
  <2>4. \A j \in 0 .. index - 1 : steps'[current.session][j] = here[j]
    BY <1>0, <2>1, <2>3 DEF Typing, TypeOK, here
  <2>5. Reading'
    BY <2>1, <2>2, <2>4 DEF Reading, here, index, Usable, Reusable
  <2> QED
    BY <2>5
<1>5. CASE ArchiveFails
  BY <1>5 DEF ArchiveFails
<1>6. CASE Raise \/ (Save /\ pending.result \notin Infra)
  <2>1. /\ phase \in {"executing", "saving"} /\ Tell(pending) /\ current' = current /\ index < MaxSteps
        /\ steps' = steps \/ \E r : steps' = [steps EXCEPT ![current.session][index] = r]
        /\ pending \in Entry
    BY <1>0, <1>6 DEF Raise, Save, Typing, PhaseOK
  <2>2. index' = index + 1
    BY <1>0, <2>1, HistoryIsSeq DEF index, Tell, Typing, TypeOK
  <2>3. current.session \in Sessions
    BY <1>0, <2>1, ReworkTypes
  <2>4. \A i \in Positions : i # index => steps'[current.session][i] = steps[current.session][i]
    BY <1>0, <2>1, <2>3 DEF Typing, TypeOK
  <2>5. \A i \in Positions : Present(current.session, i) => i < index
    BY <1>0, <2>1 DEF SuffixCleared
  <2>6. \A i \in Positions : steps'[current.session][i] # None => i < index + 1
    <3> SUFFICES ASSUME NEW i \in Positions, steps'[current.session][i] # None
                 PROVE  i < index + 1
      OBVIOUS
    <3>1. i = index \/ i < index
      BY <2>4, <2>5 DEF Present
    <3> QED
      BY <1>0, <3>1, ConstantsAssumption DEF Positions
  <2>7. Ahead'
    BY <2>1, <2>2, <2>6 DEF Ahead, Present
  <2> QED
    BY <2>7
<1>7. CASE Pause \/ Error \/ Finish \/ Decline \/ Crash \/ (Save /\ pending.result \in Infra)
  BY <1>7 DEF Pause, Error, Finish, Decline, Crash, Save, Close
<1> QED
  BY <1>1, <1>2, <1>3, <1>4, <1>5, <1>6, <1>7 DEF Next

\* Steps that leave the files of the session and the session alone leave the log
\* alone.
LEMMA LogSame ==
    ASSUME LogInv, current' = current, steps' = steps
    PROVE  Durable' = Durable
<1>1. CASE current.session = 0
  BY <1>1, DurableIs, DurableIsNext
<1>2. CASE current.session # 0
  BY <1>2, DurableIs, DurableIsNext DEF here
<1> QED
  BY <1>1, <1>2

\* Opening a journal restarts the run, on the old log or on an empty one.
LEMMA LogOpen ==
    ASSUME LogInv, NEW id \in Identities, Open(id) \/ Skip(id)
    PROVE  [Log!LogNext]_<<Durable, seen>>
<1>1. /\ seen = << >> /\ seen' = << >> /\ steps' = steps /\ OpenSession(id) /\ Typing
  BY DEF Open, Skip, run, LogInv, Ownership, Typing, PhaseOK
<1>2. CASE current' = current
  BY <1>1, <1>2, LogSame
<1>3. CASE current' = [identity |-> id, session |-> current.session + 1] /\ current.session < MaxSessions
  <2> DEFINE s == current.session + 1
  <2>1. current.session \in Nat
    BY <1>1, ConstantsAssumption DEF Typing, TypeOK
  <2>2. s \in Sessions /\ s # 0 /\ s > current.session /\ current'.session = s
    BY <1>3, <2>1, ConstantsAssumption DEF Sessions
  <2>3. \A i \in Positions : steps[s][i] = None
    BY <2>2 DEF LogInv, Ownership, FreshSessions, Present
  <2>4. Durable' = Prefix(steps[s])
    BY <1>1, <2>2, DurableIsNext
  <2> HIDE DEF s
  <2>5. 0 = MaxSteps \/ 0 \in Positions
    BY ConstantsAssumption DEF Positions
  <2>6. PrefixLength(steps[s]) = 0
    <3>1. 0 \in 0 .. MaxSteps /\ 0 .. 0 - 1 = {}
      BY ConstantsAssumption
    <3>2. 0 = MaxSteps \/ ~Usable(steps[s][0])
      BY <2>3, <2>5 DEF Usable
    <3> QED
      BY <3>1, <3>2, PrefixLengthIs
  <2>7. Prefix(steps[s]) = << >>
    <3>1. 1 .. 0 = {}
      OBVIOUS
    <3>2. Len(Prefix(steps[s])) = 0 /\ Prefix(steps[s]) \in Histories
      BY <2>3, <2>6, PrefixIs
    <3> QED
      BY <3>2, HistoryIsSeq
  <2>8. Log!Forget
    BY <1>1, <2>4, <2>7 DEF Log!Forget
  <2> QED
    BY <2>8 DEF Log!LogNext
<1> QED
  BY <1>1, <1>2, <1>3 DEF OpenSession

\* A step answered by a file is the next one of the log.
LEMMA LogReplay ==
    ASSUME LogInv, NEW q \in Requests, Replay(q)
    PROVE  Log!Replay
<1> DEFINE e == [request |-> q, result |-> here[index].result]
           n == PrefixLength(here)
<1>1. /\ phase = "ready" /\ index < MaxSteps /\ seen' = Append(seen, e)
      /\ steps' = steps /\ current' = current /\ Usable(here[index]) /\ EntryOf(here[index]) = e
  BY DEF Replay, MayAsk, Tell, Answers, Usable, EntryOf, files
<1>2. phase # "closed" /\ seen \in Histories /\ index \in Nat /\ Durable = Prefix(here)
  BY <1>1, LogFacts
<1>3. index \in Positions /\ Present(current.session, index)
  BY <1>1, <1>2, ConstantsAssumption DEF Positions, Usable, Present, here
<1>4. Reading
  BY <1>2, <1>3 DEF LogInv, Ahead
<1>5. index <= n /\ Log!IsPrefixOf(seen, Durable)
  BY <1>2, <1>4, ReadingPrefix
<1>6. n \in Nat /\ n <= MaxSteps /\ (n = MaxSteps \/ ~Usable(here[n]))
  BY PrefixLengthStops, ConstantsAssumption
<1>7. index + 1 <= n
  <2>1. n # index
    BY <1>1, <1>2, <1>6, ConstantsAssumption
  <2> QED
    BY <1>2, <1>5, <1>6, <2>1
<1>8. /\ Durable \in Histories /\ Len(Durable) = n
      /\ \A k \in 1 .. n : Durable[k] = EntryOf(here[k - 1])
  BY <1>2, LogFacts, PrefixIs
<1>9. e \in Entry
  <2>1. here[index] \in Record
    BY <1>1, <1>2, <1>3, LogFacts DEF Usable
  <2> QED
    BY <2>1 DEF Entry, Record, Outcomes
<1> HIDE DEF e, n
<1>10. seen' \in Histories /\ Len(seen') = index + 1
       /\ (\A k \in 1 .. index : seen'[k] = seen[k]) /\ seen'[index + 1] = e
  BY <1>1, <1>2, <1>9, HistoryAppend DEF index
<1>11. \A k \in 1 .. index + 1 : seen'[k] = Durable[k]
  <2> SUFFICES ASSUME NEW k \in 1 .. index + 1
               PROVE  seen'[k] = Durable[k]
    OBVIOUS
  <2>1. k \in 1 .. n
    BY <1>2, <1>6, <1>7
  <2>2. CASE k = index + 1
    BY <1>1, <1>2, <1>8, <1>10, <2>1, <2>2
  <2>3. CASE k <= index
    <3>1. k \in 1 .. index /\ k \in 1 .. PrefixLength(here)
      BY <1>2, <2>1, <2>3 DEF n
    <3>2. EntryOf(here[k - 1]) = seen[k]
      BY <1>2, <2>3, <3>1, LogFacts
    <3> QED
      BY <1>8, <1>10, <2>1, <3>1, <3>2
  <2> QED
    BY <1>2, <2>2, <2>3
<1>12. seen' = SubSeq(Durable, 1, index + 1)
  BY <1>2, <1>7, <1>8, <1>10, <1>11, BeginningOf
<1>13. Durable' = Durable
  BY <1>1, LogSame
<1>14. Len(seen) < Len(Durable)
  BY <1>2, <1>6, <1>7, <1>8 DEF index
<1> QED
  BY <1>5, <1>12, <1>13, <1>14 DEF Log!Replay, index

\* A file moved aside cuts the log, at the cursor or behind it.
LEMMA LogArchive ==
    ASSUME LogInv, NEW p \in Positions, Archive(p)
    PROVE  [Log!LogNext]_<<Durable, seen>>
<1> DEFINE n == PrefixLength(here)
           g == steps'[current.session]
<1>1. /\ phase = "archiving" /\ p >= index /\ Present(current.session, p)
      /\ steps' = [steps EXCEPT ![current.session][p] = None]
      /\ current' = current /\ seen' = seen
  BY DEF Archive, Suffix, run
<1>2. /\ Typing /\ current.session \in Sessions /\ current.session # 0 /\ Durable = Prefix(here)
      /\ phase # "closed" /\ index \in Nat
      /\ \A i \in Positions : here[i] \in Record \cup {None}
  BY <1>1, LogFacts DEF LogInv, Ownership
<1>3. Reading
  BY <1>1, <1>2, ReworkTypes, ConstantsAssumption DEF LogInv, Ahead, Positions
<1>4. index <= n /\ Log!IsPrefixOf(seen, Durable)
  BY <1>2, <1>3, ReadingPrefix
<1>5. n \in Nat /\ n <= MaxSteps /\ (n = MaxSteps \/ ~Usable(here[n]))
      /\ \A i \in 0 .. n - 1 : Usable(here[i])
  BY PrefixLengthStops, ConstantsAssumption
<1>6. g[p] = None /\ \A i \in Positions : i # p => g[i] = here[i]
  BY <1>1, <1>2 DEF Typing, TypeOK, here
<1>7. \A i \in Positions : g[i] \in Record \cup {None}
  BY <1>2, <1>6
<1>8. Durable' = Prefix(g)
  BY <1>1, <1>2, DurableIsNext
<1>9. p \in Nat /\ p < MaxSteps
  BY ConstantsAssumption DEF Positions
<1> HIDE DEF n, g
<1>10. CASE n <= p
  <2>1. \A i \in 0 .. n - 1 : i \in Positions /\ i # p
    BY <1>5, <1>9, <1>10, ConstantsAssumption DEF Positions
  <2>2. n = MaxSteps \/ ~Usable(g[n])
    <3>1. CASE n = p
      BY <1>6, <3>1 DEF Usable
    <3>2. CASE n # p /\ n # MaxSteps
      <4>1. n \in Positions
        BY <1>5, <3>2, ConstantsAssumption DEF Positions
      <4> QED
        BY <1>5, <1>6, <3>2, <4>1
    <3> QED
      BY <3>1, <3>2
  <2>3. Prefix(g) = Prefix(here)
    BY <1>2, <1>6, <1>7, <2>1, <2>2, PrefixSame DEF n
  <2> QED
    BY <1>1, <1>2, <1>8, <2>3
<1>11. CASE p < n
  <2>1. \A i \in 0 .. p - 1 : i \in Positions /\ i # p /\ i \in 0 .. n - 1
    BY <1>5, <1>9, <1>11, ConstantsAssumption DEF Positions
  <2>2. \A i \in 0 .. p - 1 : g[i] = here[i] /\ Usable(g[i])
    BY <1>5, <1>6, <2>1
  <2>3. PrefixLength(g) = p
    <3>1. p \in 0 .. MaxSteps /\ ~Usable(g[p])
      BY <1>6, <1>9, ConstantsAssumption DEF Usable
    <3> QED
      BY <2>2, <3>1, PrefixLengthIs
  <2>4. /\ Prefix(g) \in Histories /\ Len(Prefix(g)) = p
        /\ \A k \in 1 .. p : Prefix(g)[k] = EntryOf(g[k - 1])
    BY <1>7, <2>3, PrefixIs
  <2>5. /\ Durable \in Histories /\ Len(Durable) = n
        /\ \A k \in 1 .. n : Durable[k] = EntryOf(here[k - 1])
    BY <1>2, PrefixIs DEF n
  <2>6. \A k \in 1 .. p : Prefix(g)[k] = Durable[k]
    <3> SUFFICES ASSUME NEW k \in 1 .. p
                 PROVE  Prefix(g)[k] = Durable[k]
      OBVIOUS
    <3>1. k - 1 \in 0 .. p - 1 /\ k \in 1 .. n
      BY <1>5, <1>9, <1>11
    <3> QED
      BY <2>2, <2>4, <2>5, <3>1
  <2>7. Prefix(g) = SubSeq(Durable, 1, p)
    BY <1>5, <1>9, <1>11, <2>4, <2>5, <2>6, BeginningOf
  <2>8. p \in Len(seen) .. Len(Durable)
    BY <1>1, <1>2, <1>5, <1>9, <1>11, <2>5 DEF index
  <2>9. Log!Cut
    BY <1>1, <1>4, <1>8, <2>7, <2>8 DEF Log!Cut
  <2> QED
    BY <2>9 DEF Log!LogNext
<1> QED
  BY <1>5, <1>9, <1>10, <1>11

\* A step whose outcome no file keeps, or an unusable one, puts the run ahead of
\* the log; one that is told behind an exhausted log and kept extends it.
LEMMA LogRaise ==
    ASSUME LogInv, Raise
    PROVE  Log!Pass
<1>1. /\ phase = "executing" /\ pending \in Entry /\ seen' = Append(seen, pending)
      /\ steps' = steps /\ current' = current
  BY DEF Raise, Tell, files, LogInv, Ownership, Typing, PhaseOK
<1>2. Ahead
  BY <1>1 DEF LogInv, PastInv, SuffixCleared, Ahead
<1>3. Log!IsPrefixOf(Durable, seen)
  BY <1>1, <1>2, AheadPrefix
<1>4. Durable' = Durable
  BY <1>1, LogSame
<1> QED
  BY <1>1, <1>3, <1>4 DEF Log!Pass

LEMMA LogSave ==
    ASSUME LogInv, Save
    PROVE  Log!Pass \/ Log!Extend \/ Log!Restart
<1> DEFINE n == PrefixLength(here)
           g == steps'[current.session]
           file == [request |-> pending.request, result |-> pending.result,
                    by |-> current.identity, basis |-> seen]
<1>1. /\ phase = "saving" /\ pending \in Entry /\ current' = current /\ index < MaxSteps
      /\ steps' = [steps EXCEPT ![current.session][index] = file]
      /\ pending.result \in Infra => seen' = << >>
      /\ pending.result \notin Infra => seen' = Append(seen, pending)
      /\ pending.result \in Results
  BY DEF Save, Close, Tell, LogInv, Ownership, Typing, PhaseOK
<1>2. /\ Typing /\ current.session \in Sessions /\ current.session # 0 /\ Durable = Prefix(here)
      /\ phase # "closed" /\ index \in Nat /\ seen \in Histories
      /\ \A i \in Positions : here[i] \in Record \cup {None}
  BY <1>1, LogFacts DEF LogInv, Ownership
<1>3. Ahead
  BY <1>1 DEF LogInv, PastInv, SuffixCleared, Ahead
<1>4. n <= index /\ Log!IsPrefixOf(Durable, seen)
  BY <1>2, <1>3, AheadPrefix
<1>5. n \in Nat /\ n <= MaxSteps /\ (n = MaxSteps \/ ~Usable(here[n]))
      /\ \A i \in 0 .. n - 1 : Usable(here[i])
  BY PrefixLengthStops, ConstantsAssumption
<1>6. /\ file \in Record /\ EntryOf(file) = pending
      /\ Usable(file) <=> pending.result \notin NotReusable \cup Infra
  <2>1. file \in Record
    BY <1>1, <1>2 DEF Record, Entry, Typing, TypeOK
  <2>2. file # None
    BY <2>1, ConstantsAssumption
  <2>3. EntryOf(file) = pending
    BY <1>1 DEF EntryOf, Entry
  <2> QED
    BY <2>1, <2>2, <2>3 DEF Usable, Reusable
<1>7. index \in Positions
  BY <1>1, <1>2, ConstantsAssumption DEF Positions
<1>8. /\ current'.session = current.session
      /\ Durable' = Prefix(g)
  BY <1>1, <1>2, DurableIsNext
<1> HIDE DEF file
<1>9. g[index] = file /\ \A i \in Positions : i # index => g[i] = here[i]
  BY <1>1, <1>2, <1>7 DEF Typing, TypeOK, here
<1>10. \A i \in Positions : g[i] \in Record \cup {None}
  BY <1>2, <1>6, <1>9
<1> HIDE DEF n, g
<1>11. CASE n < index \/ ~Usable(file)
  <2>1. \A i \in 0 .. n - 1 : i \in Positions /\ i # index
    BY <1>1, <1>2, <1>4, <1>5, ConstantsAssumption DEF Positions
  <2>2. ~Usable(g[n])
    <3>1. CASE n = index
      BY <1>2, <1>9, <1>11, <3>1
    <3>2. CASE n < index
      <4>1. n \in Positions /\ n # index /\ n # MaxSteps
        BY <1>1, <1>2, <1>5, <3>2, ConstantsAssumption DEF Positions
      <4> QED
        BY <1>5, <1>9, <4>1
    <3> QED
      BY <1>2, <1>4, <1>5, <3>1, <3>2
  <2>3. Prefix(g) = Prefix(here)
    BY <1>2, <1>9, <1>10, <2>1, <2>2, PrefixSame DEF n
  <2>4. Durable' = Durable
    BY <1>2, <1>8, <2>3
  <2>5. CASE pending.result \in Infra
    BY <1>1, <2>4, <2>5 DEF Log!Restart
  <2>6. CASE pending.result \notin Infra
    BY <1>1, <1>4, <2>4, <2>6 DEF Log!Pass
  <2> QED
    BY <2>5, <2>6
<1>12. CASE n = index /\ Usable(file)
  <2>1. seen' = Append(seen, pending)
    BY <1>1, <1>6, <1>12
  <2>2. seen' \in Histories /\ Len(seen') = index + 1
        /\ (\A k \in 1 .. index : seen'[k] = seen[k]) /\ seen'[index + 1] = pending
    BY <1>1, <1>2, <2>1, HistoryAppend DEF index
  <2>3. Durable \in Histories /\ Len(Durable) = index
        /\ \A k \in 1 .. index : Durable[k] = EntryOf(here[k - 1])
    BY <1>2, <1>12, PrefixIs DEF n
  <2>4. \A k \in 1 .. index : EntryOf(here[k - 1]) = seen[k]
    BY <1>2, <1>12, LogFacts DEF n
  <2>5. Durable = seen
    BY <1>2, <2>3, <2>4, HistoryEqual DEF index
  <2>6. \A i \in 0 .. index - 1 : i \in Positions /\ i # index
    BY <1>1, <1>2, ConstantsAssumption DEF Positions
  <2>7. \A i \in 0 .. index : Usable(g[i])
    <3> SUFFICES ASSUME NEW i \in 0 .. index
                 PROVE  Usable(g[i])
      OBVIOUS
    <3>1. i = index \/ i \in 0 .. index - 1
      BY <1>2
    <3> QED
      BY <1>5, <1>9, <1>12, <2>6, <3>1
  <2>8. index + 1 = MaxSteps \/ ~Usable(g[index + 1])
    <3>1. CASE index + 1 # MaxSteps
      <4>1. index + 1 \in Positions /\ index + 1 # index /\ ~(index + 1 < index)
        BY <1>1, <1>2, <3>1, ConstantsAssumption DEF Positions
      <4>2. here[index + 1] = None
        BY <1>3, <4>1 DEF Ahead, Present, here
      <4> QED
        BY <1>9, <4>1, <4>2 DEF Usable
    <3> QED
      BY <3>1
  <2>9. index + 1 \in 0 .. MaxSteps
    BY <1>1, <1>2, ConstantsAssumption
  <2>10. PrefixLength(g) = index + 1
    <3> DEFINE m == index + 1
    <3>1. m \in 0 .. MaxSteps /\ (\A i \in 0 .. m - 1 : Usable(g[i])) /\ (m = MaxSteps \/ ~Usable(g[m]))
      BY <1>2, <2>7, <2>8, <2>9
    <3> HIDE DEF m
    <3>2. PrefixLength(g) = m
      BY <3>1, PrefixLengthIs
    <3> QED
      BY <3>2 DEF m
  <2>11. Prefix(g) \in Histories /\ Len(Prefix(g)) = index + 1
         /\ \A k \in 1 .. index + 1 : Prefix(g)[k] = EntryOf(g[k - 1])
    BY <1>10, <2>10, PrefixIs
  <2>12. \A k \in 1 .. index + 1 : Prefix(g)[k] = seen'[k]
    <3> SUFFICES ASSUME NEW k \in 1 .. index + 1
                 PROVE  Prefix(g)[k] = seen'[k]
      OBVIOUS
    <3>1. CASE k = index + 1
      <4>1. k - 1 = index
        BY <1>2, <3>1
      <4> QED
        BY <1>6, <1>9, <2>2, <2>11, <3>1, <4>1
    <3>2. CASE k \in 1 .. index
      <4>1. k - 1 \in 0 .. index - 1
        BY <1>2, <3>2
      <4>2. g[k - 1] = here[k - 1]
        BY <1>9, <2>6, <4>1
      <4> QED
        BY <2>2, <2>4, <2>11, <3>2, <4>2
    <3> QED
      BY <1>2, <3>1, <3>2
  <2>13. Durable' = seen'
    BY <1>8, <2>2, <2>11, <2>12, HistoryEqual
  <2>14. Log!Extend
    BY <1>1, <2>1, <2>5, <2>13 DEF Log!Extend
  <2> QED
    BY <2>14
<1> QED
  BY <1>2, <1>4, <1>5, <1>11, <1>12

\* The journal implements the replay log: every step of its files is a step of
\* the log or leaves it alone.
THEOREM JournalImplementsLog ==
    ASSUME ~ArchiveMayFail
    PROVE  Spec => ImplementsReplayLog
<1>1. Init => Log!LogInit
  BY DurableIs DEF Init, Log!LogInit
<1>2. LogInv /\ [Next]_vars => [Log!LogNext]_<<Durable, seen>>
  <2> SUFFICES ASSUME LogInv, [Next]_vars
               PROVE  [Log!LogNext]_<<Durable, seen>>
    OBVIOUS
  <2> USE DEF files, run
  <2>1. ASSUME NEW id \in Identities, Open(id) \/ Skip(id)
        PROVE  [Log!LogNext]_<<Durable, seen>>
    BY <2>1, LogOpen
  <2>2. ASSUME NEW q \in Requests, Replay(q)
        PROVE  [Log!LogNext]_<<Durable, seen>>
    BY <2>2, LogReplay DEF Log!LogNext
  <2>3. ASSUME NEW p \in Positions, Archive(p)
        PROVE  [Log!LogNext]_<<Durable, seen>>
    BY <2>3, LogArchive
  <2>4. CASE Raise \/ Save
    BY <2>4, LogRaise, LogSave DEF Log!LogNext
  <2>5. CASE ArchiveFails
    BY <2>5 DEF ArchiveFails
  <2>6. CASE \/ \E q \in Requests : Miss(q)
             \/ Unlink \/ \E r \in Results : Execute(r)
             \/ Summarise \/ LoseArtifact \/ UNCHANGED vars
    <3>1. steps' = steps /\ current' = current /\ seen' = seen
      BY <2>6 DEF Miss, Unlink, Execute, Summarise, LoseArtifact, vars
    <3> QED
      BY <3>1, LogSame
  <2>7. CASE Pause \/ Error \/ Finish \/ Decline \/ Crash
    <3>1. steps' = steps /\ current' = current /\ seen' = << >>
      BY <2>7 DEF Pause, Error, Finish, Decline, Crash, Close
    <3>2. Log!Restart
      BY <3>1, LogSame DEF Log!Restart
    <3> QED
      BY <3>2 DEF Log!LogNext
  <2> QED
    BY <2>1, <2>2, <2>3, <2>4, <2>5, <2>6, <2>7 DEF Next
<1>3. LogInv /\ [Next]_vars => LogInv'
  BY LogInvNext
<1> QED
  BY LogInvInit, <1>1, <1>2, <1>3, PTL DEF Spec, Log!LogSpec, ImplementsReplayLog
=============================================================================

--------------------------- MODULE FullRunProofs ---------------------------
(***************************************************************************)
(* Proofs about PipelineRun and the FullRun that is built on it, for any    *)
(* number of instances, workers, revisions and faults.  Of the driver:      *)
(*   - TypeCorrect: the type invariant;                                     *)
(*   - CompletedPreserved: no completed result is lost;                     *)
(*   - SuccessIsSettled, PausesReported: what the exit status says;         *)
(*   - LateStartsBounded: how many pipelines start after the pause event.   *)
(* The script only ever runs the driver, so that all of this holds under it *)
(* (RunsDriver); and where incomplete runs may not be evaluated:            *)
(*   - SettledEvaluation: an evaluation sees a settled run;                 *)
(*   - NoPauseEvaluated: it never sees a paused one;                        *)
(*   - NoStrayTests: no test of an older revision goes unexplained.         *)
(***************************************************************************)
EXTENDS FullRun, FiniteSetTheorems, TLAPS

-----------------------------------------------------------------------------
\* The driver.

\* The type invariant of PipelineRun is inductive by itself.
LEMMA TypeInit == Init => TypeOK
<1> SUFFICES ASSUME Init
             PROVE  TypeOK
  OBVIOUS
<1> USE PoolAssumption DEF Init
<1>1. revision \in 1 .. MaxRevisions /\ faults \in 0 .. MaxFaults
      /\ checked \subseteq Instances /\ late \subseteq Instances
  OBVIOUS
<1>2. NoSummary \in [status : Statuses, rev : 0 .. MaxRevisions]
  BY DEF NoSummary, Statuses
<1>3. summary \in [Instances -> [status : Statuses, rev : 0 .. MaxRevisions]]
  BY <1>2
<1>4. /\ complete \in [Instances -> 0 .. MaxRevisions]
      /\ test \in [Instances -> 0 .. MaxRevisions]
  OBVIOUS
<1>5. pc \in [Instances -> Steps] /\ row \in [Instances -> Rows]
  BY DEF Steps, Rows, Statuses
<1> QED
  BY <1>1, <1>3, <1>4, <1>5 DEF TypeOK

LEMMA TypeNext == TypeOK /\ [Next]_vars => TypeOK'
<1> SUFFICES ASSUME TypeOK, [Next]_vars
             PROVE  TypeOK'
  OBVIOUS
<1> USE PoolAssumption DEF TypeOK, disk
<1> USE DEF Statuses, Declined, Paused, Steps, Rows, Wrote, Goto, Becomes, Summarise, Fault, Signal, Admitted
<1>1. CASE Start
  BY <1>1 DEF Start
<1>2. CASE Refuse
  BY <1>2 DEF Refuse
<1>3. CASE Report
  <2>1. ExitStatus \in {0, 1, 75}
    BY DEF ExitStatus
  <2> QED
    BY <1>3, <2>1 DEF Report
<1>4. CASE Crash
  BY <1>4 DEF Crash
<1>5. ASSUME NEW i \in Instances, Worker(i)
      PROVE  TypeOK'
  <2>1. CASE Admit(i)
    BY <2>1 DEF Admit
  <2>2. CASE Skip(i)
    BY <2>2 DEF Skip
  <2>3. CASE Begin(i)
    BY <2>3 DEF Begin
  <2>4. CASE Conclude(i)
    BY <2>4 DEF Conclude
  <2>5. CASE Finish(i)
    BY <2>5 DEF Finish
  <2>6. CASE Unmark(i)
    BY <2>6 DEF Unmark
  <2>7. CASE Block(i)
    BY <2>7 DEF Block
  <2>8. CASE Pause(i)
    BY <2>8 DEF Pause
  <2>9. CASE Note(i)
    BY <2>9 DEF Note
  <2>10. CASE Fail(i)
    BY <2>10 DEF Fail
  <2>11. ASSUME NEW st \in Declined, Decline(i, st)
         PROVE  TypeOK'
    BY <2>11 DEF Decline
  <2> QED
    BY <1>5, <2>1, <2>2, <2>3, <2>4, <2>5, <2>6, <2>7, <2>8, <2>9, <2>10, <2>11 DEF Worker
<1>6. ASSUME NEW i \in Instances, Mishap(i)
      PROVE  TypeOK'
  <2>1. CASE NoEndpoint(i)
    BY <2>1 DEF NoEndpoint
  <2>2. CASE Escape(i)
    BY <2>2 DEF Escape
  <2>3. CASE ServiceFails(i)
    BY <2>3 DEF ServiceFails
  <2>4. CASE CheckpointFails(i)
    BY <2>4 DEF CheckpointFails
  <2>5. CASE InfrastructureFails(i)
    BY <2>5 DEF InfrastructureFails
  <2>6. CASE HandlerFails(i)
    <3>1. CASE pc[i] = "blocking"
      BY <2>6, <3>1 DEF HandlerFails
    <3>2. CASE pc[i] # "blocking"
      <4>1. Signal
        BY <2>6, <3>2 DEF HandlerFails
      <4>2. event' \in BOOLEAN /\ checked' \subseteq Instances
        BY <4>1
      <4> HIDE DEF Signal
      <4> QED
        BY <2>6, <4>2 DEF HandlerFails
    <3> QED
      BY <3>1, <3>2
  <2> QED
    BY <1>6, <2>1, <2>2, <2>3, <2>4, <2>5, <2>6 DEF Mishap
<1>7. CASE UNCHANGED vars
  BY <1>7 DEF vars
<1> QED
  BY <1>1, <1>2, <1>3, <1>4, <1>5, <1>6, <1>7 DEF Next

\* Every variable of the driver keeps its type, whatever fails.
THEOREM TypeCorrect == Spec => []TypeOK
  BY TypeInit, TypeNext, PTL DEF Spec
-----------------------------------------------------------------------------
\* What is on disk agrees with the result a worker is about to return.
Settled(i) ==
    /\ row[i] = "FINAL" => Completed(i)
    /\ row[i] \in Declined \cup {"ERROR"} => summary[i] = Wrote(row[i])

\* The result of a worker, and what it knows of the files, at each of its steps.
JobOK(i) ==
    /\ pc[i] \in {"queued", "admitted", "marked"} => row[i] = "NONE"
    /\ pc[i] = "marked" => ~Completed(i)
    /\ pc[i] = "summarised" =>
          row[i] \in {"FINAL"} \cup Declined /\ summary[i] = Wrote(row[i])
    /\ pc[i] = "unmarking" =>
          /\ row[i] \in {"FINAL", "ERROR"} \cup Declined \cup Paused
          /\ Settled(i)
          /\ row[i] = "PAUSED_INFRA" => ~Completed(i)
    /\ pc[i] = "pausing" => row[i] \in {"NONE", "PAUSED_API"}
    /\ pc[i] = "noting" => row[i] = "PAUSED_API"
    /\ pc[i] = "blocking" => row[i] = "PAUSED_INFRA" /\ ~Completed(i)
    /\ pc[i] = "returned" /\ phase = "running" =>
          /\ row[i] # "NONE"
          /\ Settled(i)
          /\ row[i] = "SKIP" => Completed(i)

JobsOK == \A i \in Instances : JobOK(i)

\* No worker outlives an invocation.
IdleOK == phase = "idle" => \A i \in Instances : pc[i] = "returned"

\* The pause event is never set without a trace: a worker about to note it, one
\* that has, or one whose exception main() will raise again.
Trace(i) ==
    \/ pc[i] = "noting"
    \/ pc[i] = "returned" /\ (row[i] = "escaped" \/ (row[i] = "PAUSED_API" /\ apiPaused))

EventOK ==
    phase = "running" =>
        /\ event => \E i \in Instances : Trace(i)
        /\ apiPaused => event
        /\ \A i \in Instances : pc[i] = "noting" => event

DriverInv == TypeOK /\ JobsOK /\ IdleOK /\ EventOK

\* Which revisions the files are of: the test is of the revision of the summary,
\* where that is a result the pipeline came to an end with.
FileOK(i) ==
    /\ summary[i].rev <= revision
    /\ complete[i] <= revision
    /\ summary[i] \in {Wrote("FINAL"), Wrote("TIMEOUT")} => test[i] = revision

FilesOK == \A i \in Instances : FileOK(i)

\* Late pipelines, those started and those still to come, are of workers that
\* were past the check when one more worker set the event.
LateOK ==
    /\ Cardinality(Active) <= MaxWorkers
    /\ ~event => late = {} /\ checked = {}
    /\ event => /\ late \subseteq checked /\ Admitted \subseteq checked
                /\ Cardinality(checked) <= MaxWorkers - 1
-----------------------------------------------------------------------------
\* A worker leaves the others and their files alone.
Untouched(j) ==
    /\ pc'[j] = pc[j] /\ row'[j] = row[j]
    /\ summary'[j] = summary[j] /\ complete'[j] = complete[j] /\ test'[j] = test[j]

LEMMA OthersUntouched ==
    ASSUME TypeOK, NEW i \in Instances, Worker(i) \/ Mishap(i)
    PROVE  /\ \A j \in Instances \ {i} : Untouched(j)
           /\ UNCHANGED <<revision, phase>>
<1> USE DEF TypeOK, Untouched, Goto, Becomes, Summarise, disk
<1>1. CASE Admit(i)
  BY <1>1 DEF Admit
<1>2. CASE Skip(i)
  BY <1>2 DEF Skip
<1>3. CASE Begin(i)
  BY <1>3 DEF Begin
<1>4. CASE Conclude(i)
  BY <1>4 DEF Conclude
<1>5. CASE Finish(i)
  BY <1>5 DEF Finish
<1>6. CASE Unmark(i)
  BY <1>6 DEF Unmark
<1>7. CASE Block(i)
  BY <1>7 DEF Block
<1>8. CASE Pause(i)
  BY <1>8 DEF Pause
<1>9. CASE Note(i)
  BY <1>9 DEF Note
<1>10. CASE NoEndpoint(i)
  BY <1>10 DEF NoEndpoint
<1>11. CASE Escape(i)
  BY <1>11 DEF Escape
<1>12. CASE Fail(i)
  BY <1>12 DEF Fail
<1>13. CASE ServiceFails(i)
  BY <1>13 DEF ServiceFails
<1>14. CASE CheckpointFails(i)
  BY <1>14 DEF CheckpointFails
<1>15. CASE InfrastructureFails(i)
  BY <1>15 DEF InfrastructureFails
<1>16. CASE HandlerFails(i)
  BY <1>16 DEF HandlerFails
<1>17. ASSUME NEW st \in Declined, Decline(i, st)
      PROVE  /\ \A j \in Instances \ {i} : Untouched(j)
             /\ UNCHANGED <<revision, phase>>
  BY <1>17 DEF Decline
<1> QED
  BY <1>1, <1>2, <1>3, <1>4, <1>5, <1>6, <1>7, <1>8, <1>9, <1>10, <1>11, <1>12, <1>13, <1>14, <1>15, <1>16, <1>17 DEF Worker, Mishap

\* What a worker knows after a step of its own.
LEMMA OwnJob ==
    ASSUME DriverInv, NEW i \in Instances, Worker(i) \/ Mishap(i)
    PROVE  JobOK(i)'
<1>a. TypeOK /\ JobOK(i) /\ phase \in {"idle", "running"}
  BY DEF DriverInv, JobsOK, TypeOK
<1> USE <1>a DEF TypeOK, JobOK, Settled, Completed, Wrote, Goto, Becomes, Summarise, disk,
              NoSummary, Declined, Paused
<1>1. CASE Admit(i)
  BY <1>1 DEF Admit
<1>2. CASE Skip(i)
  BY <1>2 DEF Skip
<1>3. CASE Begin(i)
  BY <1>3 DEF Begin
<1>4. CASE Conclude(i)
  BY <1>4 DEF Conclude
<1>5. CASE Finish(i)
  BY <1>5 DEF Finish
<1>6. CASE Unmark(i)
  BY <1>6 DEF Unmark
<1>7. CASE Block(i)
  BY <1>7 DEF Block
<1>8. CASE Pause(i)
  BY <1>8 DEF Pause
<1>9. CASE Note(i)
  BY <1>9 DEF Note
<1>10. CASE NoEndpoint(i)
  BY <1>10 DEF NoEndpoint
<1>11. CASE Escape(i)
  BY <1>11 DEF Escape
<1>12. CASE Fail(i)
  BY <1>12 DEF Fail
<1>13. CASE ServiceFails(i)
  BY <1>13 DEF ServiceFails
<1>14. CASE CheckpointFails(i)
  BY <1>14 DEF CheckpointFails
<1>15. CASE InfrastructureFails(i)
  BY <1>15 DEF InfrastructureFails
<1>16. CASE HandlerFails(i)
  BY <1>16 DEF HandlerFails
<1>17. ASSUME NEW st \in Declined, Decline(i, st)
      PROVE  JobOK(i)'
  BY <1>17 DEF Decline
<1> QED
  BY <1>1, <1>2, <1>3, <1>4, <1>5, <1>6, <1>7, <1>8, <1>9, <1>10, <1>11, <1>12, <1>13, <1>14, <1>15, <1>16, <1>17 DEF Worker, Mishap

LEMMA JobsStep ==
    ASSUME DriverInv, NEW i \in Instances, Worker(i) \/ Mishap(i)
    PROVE  JobsOK'
<1> SUFFICES ASSUME NEW j \in Instances, j # i
             PROVE  JobOK(j)'
  BY OwnJob DEF JobsOK
<1>1. Untouched(j) /\ UNCHANGED <<revision, phase>>
  BY OthersUntouched DEF DriverInv
<1> QED
  BY <1>1 DEF DriverInv, JobsOK, JobOK, Settled, Completed, Wrote, Untouched

\* In an idle driver no worker has a step to take.
LEMMA WorkersRun ==
    ASSUME DriverInv, NEW i \in Instances, Worker(i) \/ Mishap(i)
    PROVE  phase = "running" /\ IdleOK'
<1>1. pc[i] # "returned" \/ phase = "running"
  BY DEF Worker, Mishap, Admit, Skip, Begin, Conclude, Finish, Unmark, Block, Pause, Note,
         NoEndpoint, Escape, Fail, ServiceFails, CheckpointFails, InfrastructureFails,
         HandlerFails, Decline
<1>2. phase = "running"
  BY <1>1 DEF DriverInv, IdleOK, TypeOK
<1>3. phase' = phase
  BY OthersUntouched DEF DriverInv
<1> QED
  BY <1>2, <1>3 DEF IdleOK

\* The event leaves its trace before the worker that set it returns.
LEMMA EventStep ==
    ASSUME DriverInv, NEW i \in Instances, Worker(i) \/ Mishap(i)
    PROVE  EventOK'
<1>a. /\ TypeOK /\ JobOK(i) /\ EventOK
      /\ phase = "running"
      /\ \A j \in Instances \ {i} : Untouched(j)
  BY OthersUntouched, WorkersRun DEF DriverInv, JobsOK
<1> USE <1>a DEF TypeOK, JobOK, Trace, EventOK, Untouched, Goto, Becomes, Summarise, disk, Paused, Signal
<1>1. CASE Admit(i)
  BY <1>1 DEF Admit
<1>2. CASE Skip(i)
  BY <1>2 DEF Skip
<1>3. CASE Begin(i)
  BY <1>3 DEF Begin
<1>4. CASE Conclude(i)
  BY <1>4 DEF Conclude
<1>5. CASE Finish(i)
  BY <1>5 DEF Finish
<1>6. CASE Unmark(i)
  BY <1>6 DEF Unmark
<1>7. CASE Block(i)
  BY <1>7 DEF Block
<1>8. CASE Pause(i)
  BY <1>8 DEF Pause
<1>9. CASE Note(i)
  BY <1>9 DEF Note
<1>10. CASE NoEndpoint(i)
  BY <1>10 DEF NoEndpoint
<1>11. CASE Escape(i)
  BY <1>11 DEF Escape
<1>12. CASE Fail(i)
  BY <1>12 DEF Fail
<1>13. CASE ServiceFails(i)
  BY <1>13 DEF ServiceFails
<1>14. CASE CheckpointFails(i)
  BY <1>14 DEF CheckpointFails
<1>15. CASE InfrastructureFails(i)
  BY <1>15 DEF InfrastructureFails
<1>16. CASE HandlerFails(i)
  BY <1>16 DEF HandlerFails
<1>17. ASSUME NEW st \in Declined, Decline(i, st)
      PROVE  EventOK'
  BY <1>17 DEF Decline
<1> QED
  BY <1>1, <1>2, <1>3, <1>4, <1>5, <1>6, <1>7, <1>8, <1>9, <1>10, <1>11, <1>12, <1>13, <1>14, <1>15, <1>16, <1>17 DEF Worker, Mishap

LEMMA DriverInit == Init => DriverInv
<1> SUFFICES ASSUME Init
             PROVE  DriverInv
  OBVIOUS
<1>1. TypeOK
  BY TypeInit
<1>2. JobsOK /\ IdleOK /\ EventOK
  BY DEF Init, JobsOK, JobOK, IdleOK, EventOK
<1> QED
  BY <1>1, <1>2 DEF DriverInv

LEMMA DriverNext == DriverInv /\ [Next]_vars => DriverInv'
<1> SUFFICES ASSUME DriverInv, [Next]_vars
             PROVE  DriverInv'
  OBVIOUS
<1>1. TypeOK'
  BY TypeNext DEF DriverInv
<1>2. ASSUME NEW i \in Instances, Worker(i) \/ Mishap(i)
      PROVE  JobsOK' /\ IdleOK' /\ EventOK'
  BY <1>2, JobsStep, WorkersRun, EventStep
<1>3. CASE Start
  <2>1. pc' = [i \in Instances |-> "queued"] /\ row' = [i \in Instances |-> "NONE"]
    BY <1>3 DEF Start
  <2>2. JobsOK'
    BY <2>1 DEF JobsOK, JobOK
  <2>3. IdleOK' /\ EventOK'
    BY <1>3, <2>1 DEF Start, IdleOK, EventOK
  <2> QED
    BY <1>1, <2>2, <2>3 DEF DriverInv
<1>4. CASE Refuse \/ Report \/ Crash
  <2>1. /\ phase' = "idle"
        /\ \A i \in Instances : pc'[i] = "returned"
    BY <1>4 DEF Refuse, Report, Crash
  <2> QED
    BY <1>1, <2>1 DEF DriverInv, JobsOK, JobOK, IdleOK, EventOK
<1>5. CASE UNCHANGED vars
  BY <1>1, <1>5 DEF vars, disk, DriverInv, JobsOK, JobOK, Settled, Completed, Wrote,
                    IdleOK, EventOK, Trace
<1> QED
  BY <1>1, <1>2, <1>3, <1>4, <1>5 DEF Next, DriverInv

LEMMA DriverInvariant == Spec => []DriverInv
  BY DriverInit, DriverNext, PTL DEF Spec
-----------------------------------------------------------------------------
\* A pipeline runs only for an instance that is not completed, and what the
\* handlers write does not replace a summary of a completed one.
LEMMA OwnResult ==
    ASSUME DriverInv, NEW i \in Instances, Worker(i) \/ Mishap(i), Completed(i)
    PROVE  Completed(i)'
<1>a. TypeOK /\ JobOK(i)
  BY DEF DriverInv, JobsOK
<1> USE <1>a DEF TypeOK, JobOK, Completed, Wrote, Goto, Becomes, Summarise, disk, NoSummary,
              Declined, Paused
<1>1. CASE Admit(i)
  BY <1>1 DEF Admit
<1>2. CASE Skip(i)
  BY <1>2 DEF Skip
<1>3. CASE Begin(i)
  BY <1>3 DEF Begin
<1>4. CASE Conclude(i)
  BY <1>4 DEF Conclude
<1>5. CASE Finish(i)
  BY <1>5 DEF Finish
<1>6. CASE Unmark(i)
  BY <1>6 DEF Unmark
<1>7. CASE Block(i)
  BY <1>7 DEF Block
<1>8. CASE Pause(i)
  BY <1>8 DEF Pause
<1>9. CASE Note(i)
  BY <1>9 DEF Note
<1>10. CASE NoEndpoint(i)
  BY <1>10 DEF NoEndpoint
<1>11. CASE Escape(i)
  BY <1>11 DEF Escape
<1>12. CASE Fail(i)
  BY <1>12 DEF Fail
<1>13. CASE ServiceFails(i)
  BY <1>13 DEF ServiceFails
<1>14. CASE CheckpointFails(i)
  BY <1>14 DEF CheckpointFails
<1>15. CASE InfrastructureFails(i)
  BY <1>15 DEF InfrastructureFails
<1>16. CASE HandlerFails(i)
  BY <1>16 DEF HandlerFails
<1>17. ASSUME NEW st \in Declined, Decline(i, st)
      PROVE  Completed(i)'
  BY <1>17 DEF Decline
<1> QED
  BY <1>1, <1>2, <1>3, <1>4, <1>5, <1>6, <1>7, <1>8, <1>9, <1>10, <1>11, <1>12, <1>13, <1>14, <1>15, <1>16, <1>17 DEF Worker, Mishap

LEMMA CompletedStep ==
    ASSUME DriverInv, [Next]_vars, NEW i \in Instances, Completed(i), revision' = revision
    PROVE  Completed(i)'
<1>1. ASSUME NEW j \in Instances, Worker(j) \/ Mishap(j)
      PROVE  Completed(i)'
  <2>1. CASE i = j
    BY <1>1, <2>1, OwnResult
  <2>2. CASE i # j
    <3>1. Untouched(i) /\ UNCHANGED <<revision, phase>>
      BY <1>1, <2>2, OthersUntouched DEF DriverInv
    <3> QED
      BY <3>1 DEF Untouched, Completed, Wrote
  <2> QED
    BY <2>1, <2>2
<1>2. CASE Start \/ Refuse \/ Report \/ Crash
  BY <1>2 DEF Start, Refuse, Report, Crash, Completed, Wrote
<1>3. CASE UNCHANGED vars
  BY <1>3 DEF vars, disk, Completed, Wrote
<1> QED
  BY <1>1, <1>2, <1>3 DEF Next

\* No failure, pause or crash, of whichever worker, takes a completed result away
\* under the revision it was made with.
THEOREM CompletedPreserved == Spec => CompletedSafe
<1>1. DriverInv /\ [Next]_vars =>
         [\A i \in Instances : Completed(i) /\ revision' = revision => Completed(i)']_vars
  BY CompletedStep
<1> QED
  BY <1>1, DriverInvariant, PTL DEF Spec, CompletedSafe

-----------------------------------------------------------------------------
\* What main() reports, once all workers are done.
LEMMA ReportedResult ==
    ASSUME DriverInv, Report, NEW i \in Instances
    PROVE  /\ row[i] \in Paused => Reported(i) = row[i]
           /\ row[i] \in {"FINAL", "SKIP"} => Completed(i)
           /\ row[i] \in Declined \cup {"ERROR"} =>
                 summary[i] = Wrote(row[i]) /\ Reported(i) = row[i]
           /\ row[i] \in {"FINAL", "SKIP", "ERROR", "escaped"} \cup Declined \cup Paused
<1>1. /\ JobOK(i) /\ pc[i] = "returned" /\ phase = "running"
      /\ row[i] \in Rows
  BY DEF DriverInv, JobsOK, Report, TypeOK
<1> QED
  BY <1>1 DEF JobOK, Settled, Reported, Wrote, NoSummary, Rows, Statuses, Declined, Paused

ExitOK == ZeroMeansDone /\ PauseReported

LEMMA ExitReport ==
    ASSUME DriverInv, Report
    PROVE  ExitOK'
<1>1. /\ phase' = "idle" /\ rc' = ExitStatus
      /\ phase = "running" /\ \A i \in Instances : pc[i] = "returned"
      /\ UNCHANGED <<revision, summary, complete, apiPaused, event, row>>
  BY DEF Report
<1>2. event => \/ \E i \in Instances : row[i] = "escaped"
               \/ apiPaused /\ \E i \in Instances : row[i] = "PAUSED_API"
  BY <1>1 DEF DriverInv, EventOK, Trace
<1>3. apiPaused => event
  BY <1>1 DEF DriverInv, EventOK
<1>4. ASSUME ExitStatus = 0
      PROVE  /\ ~event
             /\ \A i \in Instances : OnRecord(i)
  <2>1. \A i \in Instances :
           row[i] # "escaped" /\ Reported(i) \notin Paused /\ Reported(i) # "ERROR"
    BY <1>4 DEF ExitStatus
  <2>2. \A i \in Instances : row[i] \in {"FINAL", "SKIP"} \cup Declined
    BY <2>1, ReportedResult DEF Paused
  <2>3. ~event
    BY <1>2, <2>2 DEF Declined
  <2> QED
    BY <2>2, <2>3, ReportedResult DEF OnRecord
<1>5. ZeroMeansDone'
  BY <1>1, <1>3, <1>4 DEF ZeroMeansDone, OnRecord, Completed, Wrote
<1>6. PauseReported'
  BY <1>1, <1>2, <1>4 DEF PauseReported
<1> QED
  BY <1>5, <1>6 DEF ExitOK

LEMMA ExitInit == Init => ExitOK
  BY DEF Init, ExitOK, ZeroMeansDone, PauseReported

LEMMA ExitNext == DriverInv /\ ExitOK /\ [Next]_vars => ExitOK'
<1> SUFFICES ASSUME DriverInv, ExitOK, [Next]_vars
             PROVE  ExitOK'
  OBVIOUS
<1>1. ASSUME NEW i \in Instances, Worker(i) \/ Mishap(i)
      PROVE  ExitOK'
  <2>1. phase' = "running"
    BY <1>1, WorkersRun, OthersUntouched DEF DriverInv
  <2> QED
    BY <2>1 DEF ExitOK, ZeroMeansDone, PauseReported
<1>2. CASE Start
  BY <1>2 DEF Start, ExitOK, ZeroMeansDone, PauseReported
<1>3. CASE Refuse
  <2>1. ~event
    BY <1>3 DEF Refuse, DriverInv, EventOK, Trace
  <2> QED
    BY <1>3, <2>1 DEF Refuse, ExitOK, ZeroMeansDone, PauseReported
<1>4. CASE Report
  BY <1>4, ExitReport
<1>5. CASE Crash
  BY <1>5 DEF Crash, ExitOK, ZeroMeansDone, PauseReported
<1>6. CASE UNCHANGED vars
  BY <1>6 DEF vars, disk, ExitOK, ZeroMeansDone, PauseReported, OnRecord, Completed, Wrote
<1> QED
  BY <1>1, <1>2, <1>3, <1>4, <1>5, <1>6 DEF Next

LEMMA ExitInvariant == Spec => []ExitOK
  BY ExitInit, ExitNext, DriverInvariant, PTL DEF Spec

\* Exit status 0 means that everything is settled and nothing was paused.
THEOREM SuccessIsSettled == Spec => []ZeroMeansDone
<1>1. ExitOK => ZeroMeansDone
  BY DEF ExitOK
<1> QED
  BY <1>1, ExitInvariant, PTL

\* A pause that some worker saw is in the exit status, and in api_paused.json
\* unless that file could not be written or the process was killed.
THEOREM PausesReported == Spec => []PauseReported
<1>1. ExitOK => PauseReported
  BY DEF ExitOK
<1> QED
  BY <1>1, ExitInvariant, PTL
-----------------------------------------------------------------------------
LEMMA OwnFiles ==
    ASSUME TypeOK, NEW i \in Instances, FileOK(i), Worker(i) \/ Mishap(i)
    PROVE  FileOK(i)'
<1> USE DEF TypeOK, FileOK, Wrote, Goto, Becomes, Summarise, disk, NoSummary, Declined
<1>1. CASE Admit(i)
  BY <1>1 DEF Admit
<1>2. CASE Skip(i)
  BY <1>2 DEF Skip
<1>3. CASE Begin(i)
  BY <1>3 DEF Begin
<1>4. CASE Conclude(i)
  BY <1>4 DEF Conclude
<1>5. CASE Finish(i)
  BY <1>5 DEF Finish
<1>6. CASE Unmark(i)
  BY <1>6 DEF Unmark
<1>7. CASE Block(i)
  BY <1>7 DEF Block
<1>8. CASE Pause(i)
  BY <1>8 DEF Pause
<1>9. CASE Note(i)
  BY <1>9 DEF Note
<1>10. CASE NoEndpoint(i)
  BY <1>10 DEF NoEndpoint
<1>11. CASE Escape(i)
  BY <1>11 DEF Escape
<1>12. CASE Fail(i)
  BY <1>12 DEF Fail
<1>13. CASE ServiceFails(i)
  BY <1>13 DEF ServiceFails
<1>14. CASE CheckpointFails(i)
  BY <1>14 DEF CheckpointFails
<1>15. CASE InfrastructureFails(i)
  BY <1>15 DEF InfrastructureFails
<1>16. CASE HandlerFails(i)
  BY <1>16 DEF HandlerFails
<1>17. ASSUME NEW st \in Declined, Decline(i, st)
      PROVE  FileOK(i)'
  BY <1>17 DEF Decline
<1> QED
  BY <1>1, <1>2, <1>3, <1>4, <1>5, <1>6, <1>7, <1>8, <1>9, <1>10, <1>11, <1>12, <1>13, <1>14, <1>15, <1>16, <1>17 DEF Worker, Mishap

LEMMA FilesNext == TypeOK /\ FilesOK /\ [Next]_vars => FilesOK'
<1> SUFFICES ASSUME TypeOK, FilesOK, [Next]_vars, NEW i \in Instances
             PROVE  FileOK(i)'
  BY DEF FilesOK
<1>a. FileOK(i)
  BY DEF FilesOK
<1>1. ASSUME NEW j \in Instances, Worker(j) \/ Mishap(j)
      PROVE  FileOK(i)'
  <2>1. CASE i = j
    BY <1>a, <1>1, <2>1, OwnFiles
  <2>2. CASE i # j
    <3>1. Untouched(i) /\ revision' = revision
      BY <1>1, <2>2, OthersUntouched
    <3> QED
      BY <1>a, <3>1 DEF Untouched, FileOK, Wrote
  <2> QED
    BY <2>1, <2>2
<1>2. CASE Start
  <2>1. /\ revision' \in {revision, revision + 1} /\ revision \in Nat
        /\ summary[i].rev \in Nat /\ complete[i] \in Nat
        /\ UNCHANGED <<summary, complete, test>>
    BY <1>2 DEF Start, TypeOK
  <2>2. CASE revision' = revision
    BY <1>a, <2>1, <2>2 DEF FileOK, Wrote
  <2>3. CASE revision' = revision + 1
    <3>1. summary[i].rev # revision'
      BY <1>a, <2>1, <2>3 DEF FileOK
    <3> QED
      BY <1>a, <2>1, <2>3, <3>1 DEF FileOK, Wrote
  <2> QED
    BY <2>1, <2>2, <2>3
<1>3. CASE Refuse \/ Report \/ Crash
  BY <1>a, <1>3 DEF Refuse, Report, Crash, FileOK, Wrote
<1>4. CASE UNCHANGED vars
  BY <1>a, <1>4 DEF vars, disk, FileOK, Wrote
<1> QED
  BY <1>1, <1>2, <1>3, <1>4 DEF Next

LEMMA FilesInvariant == Spec => []FilesOK
<1>1. Init => FilesOK
  BY DEF Init, FilesOK, FileOK, NoSummary, Wrote
<1>2. Spec => []TypeOK
  BY TypeCorrect
<1> QED
  BY <1>1, <1>2, FilesNext, PTL DEF Spec

-----------------------------------------------------------------------------
\* Counting workers: a set of instances that loses or gains one.
LEMMA Counting ==
    /\ \A S \in SUBSET Instances : IsFiniteSet(S) /\ Cardinality(S) \in Nat
    /\ \A S, T \in SUBSET Instances : S \subseteq T => Cardinality(S) <= Cardinality(T)
    /\ \A S \in SUBSET Instances, T \in SUBSET Instances, i \in Instances :
          /\ i \in T /\ S \subseteq T \ {i} => Cardinality(S) + 1 <= Cardinality(T)
          /\ T \subseteq S \cup {i} => Cardinality(T) <= Cardinality(S) + 1
<1>1. ASSUME NEW S \in SUBSET Instances
      PROVE  IsFiniteSet(S) /\ Cardinality(S) \in Nat
  BY PoolAssumption, FS_Subset, FS_CardinalityType
<1>2. ASSUME NEW S \in SUBSET Instances, NEW T \in SUBSET Instances, S \subseteq T
      PROVE  Cardinality(S) <= Cardinality(T)
  BY <1>1, <1>2, FS_Subset
<1>3. ASSUME NEW S \in SUBSET Instances, NEW T \in SUBSET Instances, NEW i \in T,
             S \subseteq T \ {i}
      PROVE  Cardinality(S) + 1 <= Cardinality(T)
  <2>1. Cardinality(T \ {i}) = Cardinality(T) - 1
    BY <1>1, FS_RemoveElement
  <2>2. Cardinality(S) <= Cardinality(T \ {i})
    BY <1>2, <1>3
  <2> QED
    BY <1>1, <2>1, <2>2
<1>4. ASSUME NEW S \in SUBSET Instances, NEW T \in SUBSET Instances, NEW i \in Instances,
             T \subseteq S \cup {i}
      PROVE  Cardinality(T) <= Cardinality(S) + 1
  <2>1. Cardinality(S \cup {i}) <= Cardinality(S) + 1
    BY <1>1, FS_AddElement
  <2>2. Cardinality(T) <= Cardinality(S \cup {i})
    BY <1>2, <1>4
  <2> QED
    BY <1>1, <2>1, <2>2
<1> QED
  BY <1>1, <1>2, <1>3, <1>4

\* No other step admits a worker or counts a late one; the event is set by a
\* worker that has not been admitted.
Quiet(i) ==
    /\ Active' \subseteq Active /\ Admitted' \subseteq Admitted
    /\ late' = late
    /\ \/ event' = event /\ checked' = checked
       \/ event' /\ ~event /\ pc[i] = "pausing" /\ checked' = Admitted

LEMMA LateQuiet ==
    ASSUME DriverInv, NEW i \in Instances, Worker(i) \/ Mishap(i), ~Admit(i), ~Begin(i)
    PROVE  Quiet(i)
<1>a. TypeOK /\ (pc[i] = "noting" => event)
  BY WorkersRun DEF DriverInv, EventOK
<1> USE <1>a DEF TypeOK, Quiet, Active, Admitted, Goto, disk, Signal
<1>1. CASE Skip(i)
  BY <1>1 DEF Skip
<1>2. CASE Conclude(i)
  BY <1>2 DEF Conclude
<1>3. CASE Finish(i)
  BY <1>3 DEF Finish
<1>4. CASE Unmark(i)
  BY <1>4 DEF Unmark
<1>5. CASE Block(i)
  BY <1>5 DEF Block
<1>6. CASE Pause(i)
  <2>1. /\ pc[i] = "pausing" /\ Signal /\ late' = late
        /\ Active' \subseteq Active /\ Admitted' \subseteq Admitted
    BY <1>6 DEF Pause
  <2>2. event \in BOOLEAN
    OBVIOUS
  <2>3. CASE event
    BY <2>1, <2>3
  <2>4. CASE ~event
    BY <2>1, <2>4
  <2> QED
    BY <2>3, <2>4
<1>7. CASE Note(i)
  BY <1>7 DEF Note
<1>8. CASE NoEndpoint(i)
  BY <1>8 DEF NoEndpoint
<1>9. CASE Escape(i)
  BY <1>9 DEF Escape
<1>10. CASE Fail(i)
  BY <1>10 DEF Fail
<1>11. CASE ServiceFails(i)
  BY <1>11 DEF ServiceFails
<1>12. CASE CheckpointFails(i)
  BY <1>12 DEF CheckpointFails
<1>13. CASE InfrastructureFails(i)
  BY <1>13 DEF InfrastructureFails
<1>14. CASE HandlerFails(i)
  <2>1. Active' \subseteq Active /\ Admitted' \subseteq Admitted /\ late' = late
    BY <1>14 DEF HandlerFails
  <2>2. /\ IF pc[i] = "blocking" THEN UNCHANGED <<event, checked>> ELSE Signal
        /\ pc[i] \in {"pausing", "noting", "blocking"}
    BY <1>14 DEF HandlerFails
  <2>3. event \in BOOLEAN
    OBVIOUS
  <2>4. CASE pc[i] = "pausing"
    BY <2>1, <2>2, <2>3, <2>4
  <2>5. CASE pc[i] = "noting"
    BY <2>1, <2>2, <2>3, <2>5
  <2>6. CASE pc[i] = "blocking"
    BY <2>1, <2>2, <2>6
  <2> QED
    BY <2>2, <2>4, <2>5, <2>6
<1>15. ASSUME NEW st \in Declined, Decline(i, st)
      PROVE  Quiet(i)
  BY <1>15 DEF Decline
<1> QED
  BY <1>1, <1>2, <1>3, <1>4, <1>5, <1>6, <1>7, <1>8, <1>9, <1>10, <1>11, <1>12, <1>13, <1>14, <1>15 DEF Worker, Mishap

LEMMA LateStep ==
    ASSUME DriverInv, LateOK, NEW i \in Instances, Worker(i) \/ Mishap(i)
    PROVE  LateOK'
<1>1. /\ Active \in SUBSET Instances /\ Active' \in SUBSET Instances
      /\ Admitted \in SUBSET Instances
      /\ MaxWorkers \in Nat /\ event \in BOOLEAN
      /\ pc \in [Instances -> Steps]
  BY PoolAssumption DEF Active, Admitted, DriverInv, TypeOK
<1>2. CASE Admit(i)
  <2>1. /\ Active' \subseteq Active \cup {i} /\ Cardinality(Active) < MaxWorkers
        /\ late' = late /\ event' = event /\ checked' = checked
        /\ event => Admitted' \subseteq Admitted
    BY <1>1, <1>2 DEF Admit, Active, Admitted, Goto
  <2>2. Cardinality(Active') <= Cardinality(Active) + 1
    BY <1>1, <2>1, Counting
  <2>3. Cardinality(Active') \in Nat /\ Cardinality(Active) \in Nat
    BY <1>1, Counting
  <2>4. Cardinality(Active') <= MaxWorkers
    BY <1>1, <2>1, <2>2, <2>3
  <2> QED
    BY <2>1, <2>4 DEF LateOK
<1>3. CASE Begin(i)
  <2>1. /\ Active' \subseteq Active
        /\ i \in Admitted /\ Admitted' \subseteq Admitted
        /\ late' = IF event THEN late \cup {i} ELSE late
        /\ event' = event /\ checked' = checked
    BY <1>1, <1>3 DEF Begin, Active, Admitted, Goto
  <2>2. Cardinality(Active') <= MaxWorkers
    <3>1. Cardinality(Active') <= Cardinality(Active)
      BY <1>1, <2>1, Counting
    <3>2. Cardinality(Active') \in Nat /\ Cardinality(Active) \in Nat
      BY <1>1, Counting
    <3> QED
      BY <1>1, <3>1, <3>2 DEF LateOK
  <2> QED
    BY <2>1, <2>2 DEF LateOK
<1>4. CASE ~Admit(i) /\ ~Begin(i)
  <2>1. Quiet(i)
    BY <1>4, LateQuiet
  <2>2. Cardinality(Active') <= Cardinality(Active)
    BY <1>1, <2>1, Counting DEF Quiet
  <2>3. Cardinality(Active') \in Nat /\ Cardinality(Active) \in Nat
    BY <1>1, Counting
  <2>4. Cardinality(Active') <= MaxWorkers
    BY <1>1, <2>2, <2>3 DEF LateOK
  <2>5. CASE event' = event /\ checked' = checked
    BY <2>1, <2>4, <2>5 DEF LateOK, Quiet
  <2>6. CASE event' /\ ~event /\ pc[i] = "pausing" /\ checked' = Admitted
    <3>1. i \in Active /\ Admitted \subseteq Active \ {i}
      BY <2>6 DEF Active, Admitted
    <3>2. Cardinality(Admitted) + 1 <= Cardinality(Active) /\ Cardinality(Admitted) \in Nat
      BY <1>1, <3>1, Counting
    <3>3. Cardinality(checked') <= MaxWorkers - 1
      BY <1>1, <2>3, <2>6, <3>2 DEF LateOK
    <3>4. late' = {} /\ Admitted' \subseteq checked'
      BY <2>1, <2>6 DEF LateOK, Quiet
    <3> QED
      BY <2>4, <2>6, <3>3, <3>4 DEF LateOK
  <2> QED
    BY <2>1, <2>5, <2>6 DEF Quiet
<1> QED
  BY <1>2, <1>3, <1>4

LEMMA LateNext == DriverInv /\ LateOK /\ [Next]_vars => LateOK'
<1> SUFFICES ASSUME DriverInv, LateOK, [Next]_vars
             PROVE  LateOK'
  OBVIOUS
<1>a. MaxWorkers \in Nat \ {0}
  BY PoolAssumption
<1>1. ASSUME NEW i \in Instances, Worker(i) \/ Mishap(i)
      PROVE  LateOK'
  BY <1>1, LateStep
<1>2. CASE Start \/ Refuse \/ Report \/ Crash
  <2>1. \A i \in Instances : pc'[i] \in {"queued", "returned"}
    BY <1>2 DEF Start, Refuse, Report, Crash
  <2>2. Cardinality(Active') = 0 /\ Admitted' = {}
    <3>1. Active' = {} /\ Admitted' = {}
      BY <2>1 DEF Active, Admitted
    <3> QED
      BY <3>1, FS_EmptySet
  <2>3. \/ event' = event /\ late' = late /\ checked' = checked
        \/ event' = FALSE /\ late' = {} /\ checked' = {}
    BY <1>2 DEF Start, Refuse, Report, Crash
  <2> QED
    BY <1>a, <2>2, <2>3 DEF LateOK
<1>3. CASE UNCHANGED vars
  <2>1. Active' = Active /\ Admitted' = Admitted /\ event' = event
        /\ late' = late /\ checked' = checked
    BY <1>3 DEF vars, Active, Admitted
  <2> QED
    BY <2>1 DEF LateOK
<1> QED
  BY <1>1, <1>2, <1>3 DEF Next

\* However many workers find the service dead, only those of the other
\* MaxWorkers - 1 that were past the check start one more pipeline.
THEOREM LateStartsBounded == Spec => []LateBounded
<1>1. Init => LateOK
  <2> SUFFICES ASSUME Init
               PROVE  LateOK
    OBVIOUS
  <2>1. Active = {}
    BY DEF Init, Active
  <2> QED
    BY <2>1, FS_EmptySet, PoolAssumption DEF Init, LateOK
<1>2. TypeOK /\ LateOK => LateBounded
  <2> SUFFICES ASSUME TypeOK, LateOK
               PROVE  LateBounded
    OBVIOUS
  <2>1. MaxWorkers \in Nat \ {0} /\ Cardinality({}) = 0
    BY PoolAssumption, FS_EmptySet
  <2> QED
    BY <2>1 DEF LateOK, LateBounded
<1> QED
  BY <1>1, <1>2, LateNext, DriverInvariant, TypeCorrect, PTL DEF Spec

-----------------------------------------------------------------------------
\* The script.

\* A step of the script is a step of the driver or none.
LEMMA DriverStep == [FullNext]_fullVars => [Next]_vars
<1> SUFFICES ASSUME [FullNext]_fullVars
             PROVE  [Next]_vars
  OBVIOUS
<1>1. CASE Generate
  BY <1>1 DEF Generate, Next
<1>2. CASE Drive
  BY <1>2 DEF Drive, Next
<1>3. CASE Stop \/ Gate \/ Relaunch
  BY <1>3 DEF Stop, Gate, Relaunch
<1>4. CASE UNCHANGED fullVars
  BY <1>4 DEF fullVars
<1> QED
  BY <1>1, <1>2, <1>3, <1>4 DEF FullNext

\* The script implements the driver's specification.
THEOREM RunsDriver == FullSpec => Spec
<1>1. FullInit => Init
  BY DEF FullInit
<1> QED
  BY <1>1, DriverStep, PTL DEF FullSpec, Spec

-----------------------------------------------------------------------------
\* The driver runs in the generation stage only, and the evaluation sees the run
\* the gate has seen.
StageOK ==
    /\ stage \in Stages
    /\ stage # "generating" => phase = "idle"
    /\ stage = "evaluating" => FormalEvaluationAllowed(rc)

LEMMA StageInit == FullInit => StageOK
  BY DEF FullInit, Init, StageOK, Stages

LEMMA StageNext == StageOK /\ [FullNext]_fullVars => StageOK'
<1> SUFFICES ASSUME StageOK, [FullNext]_fullVars
             PROVE  StageOK'
  OBVIOUS
<1> USE DEF StageOK, Stages
<1>1. CASE Generate
  BY <1>1 DEF Generate
<1>2. CASE Drive
  BY <1>2 DEF Drive
<1>3. CASE Stop
  BY <1>3 DEF Stop, vars
<1>4. CASE Gate
  <2>1. UNCHANGED <<rc, test, phase>>
    BY <1>4 DEF Gate, vars, disk
  <2>2. /\ phase = "idle"
        /\ stage' = IF FormalEvaluationAllowed(rc) THEN "evaluating" ELSE "skipped"
    BY <1>4 DEF Gate
  <2> QED
    BY <2>1, <2>2 DEF FormalEvaluationAllowed, Generated
<1>5. CASE Relaunch
  BY <1>5 DEF Relaunch, vars
<1>6. CASE UNCHANGED fullVars
  BY <1>6 DEF fullVars, vars, disk, FormalEvaluationAllowed, Generated
<1> QED
  BY <1>1, <1>2, <1>3, <1>4, <1>5, <1>6 DEF FullNext

LEMMA StageInvariant == FullSpec => []StageOK
  BY StageInit, StageNext, PTL DEF FullSpec

\* Every variable of the script and of its driver keeps its type.
THEOREM FullTypeCorrect == FullSpec => []FullTypeOK
<1>1. TypeOK /\ StageOK => FullTypeOK
  BY DEF FullTypeOK, StageOK
<1> QED
  BY <1>1, RunsDriver, TypeCorrect, StageInvariant, PTL

-----------------------------------------------------------------------------
\* An evaluation that requires a complete run sees what exit status 0 means.
LEMMA EvaluationSettled ==
    ASSUME StageOK, ZeroMeansDone, stage = "evaluating", ~AllowIncomplete
    PROVE  /\ ~event
           /\ Generated = Instances
           /\ \A i \in Instances : OnRecord(i)
<1>1. phase = "idle" /\ rc = 0 /\ Generated = Instances
  BY DEF StageOK, FormalEvaluationAllowed
<1> QED
  BY <1>1 DEF ZeroMeansDone

\* Every instance of an evaluated run has a test and is settled under the
\* revision that ran.
THEOREM SettledEvaluation == FullSpec => []EvaluatesSettledRun
<1>1. StageOK /\ ZeroMeansDone => EvaluatesSettledRun
  BY EvaluationSettled DEF EvaluatesSettledRun
<1> QED
  BY <1>1, RunsDriver, SuccessIsSettled, StageInvariant, PTL

\* No run in which a worker saw the model service fail is evaluated, and no
\* instance recorded as paused.
THEOREM NoPauseEvaluated ==
    ASSUME ~AllowIncomplete
    PROVE  FullSpec => []PauseNeverEvaluated
<1>1. StageOK /\ ZeroMeansDone => PauseNeverEvaluated
  <2> SUFFICES ASSUME StageOK, ZeroMeansDone, stage = "evaluating"
               PROVE  ~event /\ \A i \in Instances : summary[i].status # "PAUSED_API"
    BY DEF PauseNeverEvaluated
  <2> QED
    BY EvaluationSettled DEF OnRecord, Completed, Wrote, Declined
<1> QED
  BY <1>1, RunsDriver, SuccessIsSettled, StageInvariant, PTL

\* Only an instance that could not be set up is evaluated with a test that an
\* older revision wrote.
THEOREM NoStrayTests ==
    ASSUME ~AllowIncomplete
    PROVE  FullSpec => []OldTestsExplained
<1>1. StageOK /\ ZeroMeansDone /\ FilesOK => OldTestsExplained
  <2> SUFFICES ASSUME StageOK, ZeroMeansDone, FilesOK, stage = "evaluating",
                      NEW i \in Instances
               PROVE  test[i] \in {0, revision} \/ summary[i] = Wrote("SETUP_ERROR")
    BY DEF OldTestsExplained
  <2>1. summary[i] \in {Wrote("FINAL"), Wrote("TIMEOUT"), Wrote("SETUP_ERROR")}
    BY EvaluationSettled DEF OnRecord, Completed, Declined
  <2> QED
    BY <2>1 DEF FilesOK, FileOK
<1> QED
  BY <1>1, RunsDriver, SuccessIsSettled, FilesInvariant, StageInvariant, PTL

\* Nor does launching again lose a completed result.
THEOREM LaunchesPreserveCompleted == FullSpec => CompletedSafe
  BY RunsDriver, CompletedPreserved, PTL

=============================================================================

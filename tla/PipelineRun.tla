---------------------------- MODULE PipelineRun ----------------------------
(***************************************************************************)
(* The batch driver of src/pipeline/run.py: main() hands every selected     *)
(* instance to a thread pool, each worker runs _run_one for one instance,   *)
(* and all workers share one pause event.  What an invocation leaves in the *)
(* output directory is what the next one, started with --resume, skips.     *)
(*                                                                         *)
(* An invocation starts under a revision (init_resume_run): the one on disk *)
(* when --resume is given and the code is unchanged, otherwise a new one.   *)
(* An instance is completed when complete.json of this revision quotes the  *)
(* artifacts as they are.  The pipeline inside a worker is one step with    *)
(* every outcome it has; StepJournal models how it gets there.              *)
(***************************************************************************)
EXTENDS Naturals, FiniteSets

CONSTANTS
    Instances,      \* the selected instance ids
    MaxWorkers,     \* --max_workers
    MaxRevisions,   \* bound: implementation revisions
    MaxFaults       \* bound: paused, refused, escaped or killed runs

ASSUME PoolAssumption ==
    /\ IsFiniteSet(Instances)
    /\ MaxWorkers \in Nat \ {0}
    /\ MaxRevisions \in Nat \ {0}
    /\ MaxFaults \in Nat

VARIABLES
    \* in the output directory
    revision,       \* .resume/implementation.json
    summary,        \* <instance>/summary.json: its status and revision
    complete,       \* revision whose complete.json the instance has, 0 if none
    test,           \* revision that wrote final_test.py, 0 if there is none
    marker,         \* does <instance>/.running exist
    apiPaused,      \* does api_paused.json exist
    rc,             \* exit status of the last invocation
    \* in the process
    phase,          \* "running" while main() waits for the pool
    event,          \* _api_pause_event
    pc,             \* where the worker of an instance is
    row,            \* what _run_one returns, or "escaped" if it raises
    \* accounting
    checked,        \* workers past the check when the event was set
    late,           \* pipelines started after the event was set
    faults

disk == <<revision, summary, complete, test, marker, apiPaused, rc>>
vars == <<disk, phase, event, pc, row, checked, late, faults>>

Paused   == {"PAUSED_API", "PAUSED_INFRA"}
Declined == {"TIMEOUT", "SETUP_ERROR"}       \* finish() writes no complete.json
Statuses == {"NONE", "FINAL", "ERROR"} \cup Declined \cup Paused
Rows     == Statuses \cup {"SKIP", "escaped"}
Steps    == {"queued", "admitted", "marked", "summarised", "unmarking",
             "pausing", "noting", "blocking", "returned"}

NoSummary == [status |-> "NONE", rev |-> 0]
Wrote(st) == [status |-> st, rev |-> revision]

Active   == {i \in Instances : pc[i] \notin {"queued", "returned"}}
Admitted == {i \in Instances : pc[i] = "admitted"}
Fault  == faults < MaxFaults /\ faults' = faults + 1

Goto(i, step)    == pc' = [pc EXCEPT ![i] = step]
Becomes(i, r)    == row' = [row EXCEPT ![i] = r]
Summarise(i, st) == summary' = [summary EXCEPT ![i] = Wrote(st)]

\* completed(): this revision finished, and summary.json still says what it said.
Completed(i) == complete[i] = revision /\ summary[i] = Wrote("FINAL")

\* This revision has come to a result for the instance: completed, or declined
\* by finish(), in which case every later invocation comes to it once more.
OnRecord(i) == Completed(i) \/ summary[i] \in {Wrote(st) : st \in Declined}

-----------------------------------------------------------------------------
Init ==
    /\ revision = 1
    /\ summary = [i \in Instances |-> NoSummary]
    /\ complete = [i \in Instances |-> 0]
    /\ test = [i \in Instances |-> 0]
    /\ marker = [i \in Instances |-> FALSE]
    /\ apiPaused = FALSE
    /\ rc = 137
    /\ phase = "idle"
    /\ event = FALSE
    /\ pc = [i \in Instances |-> "returned"]
    /\ row = [i \in Instances |-> "NONE"]
    /\ checked = {}
    /\ late = {}
    /\ faults = 0

\* Mutant: a resumed invocation keeps the event of the one before it.
StartPaused ==
    /\ phase = "idle"
    /\ revision' \in {revision, revision + 1} \cap 1 .. MaxRevisions
    /\ phase' = "running"
    /\ apiPaused' = FALSE
    /\ pc' = [i \in Instances |-> "queued"]
    /\ row' = [i \in Instances |-> "NONE"]
    /\ late' = {}
    /\ UNCHANGED <<summary, complete, test, marker, rc, event, checked, faults>>

\* main(): revision, a new event, api_paused.json removed, every instance
\* submitted.  The revision stays only with --resume and unchanged code.
Start ==
    /\ phase = "idle"
    /\ revision' \in {revision, revision + 1} \cap 1 .. MaxRevisions
    /\ phase' = "running"
    /\ event' = FALSE
    /\ apiPaused' = FALSE
    /\ pc' = [i \in Instances |-> "queued"]
    /\ row' = [i \in Instances |-> "NONE"]
    /\ checked' = {}
    /\ late' = {}
    /\ UNCHANGED <<summary, complete, test, marker, rc, faults>>

\* The preflight of Docker and the harness fails before a job is submitted.
Refuse ==
    /\ Fault
    /\ phase = "running"
    /\ \A i \in Instances : pc[i] = "queued"
    /\ phase' = "idle"
    /\ rc' = 1
    /\ pc' = [i \in Instances |-> "returned"]
    /\ UNCHANGED <<revision, summary, complete, test, marker, apiPaused, event, checked, row, late>>

\* Mutant: a queued instance is admitted whatever the event says.
AdmitAlways(i) ==
    /\ phase = "running"
    /\ pc[i] = "queued"
    /\ Cardinality(Active) < MaxWorkers
    /\ Goto(i, "admitted")
    /\ UNCHANGED <<disk, phase, event, checked, row, late, faults>>

\* A free worker takes a queued instance; the event is read once, here.
Admit(i) ==
    /\ phase = "running"
    /\ pc[i] = "queued"
    /\ Cardinality(Active) < MaxWorkers
    /\ Goto(i, IF event THEN "pausing" ELSE "admitted")
    /\ UNCHANGED <<disk, phase, event, checked, row, late, faults>>

\* A completed instance is not touched.
Skip(i) ==
    /\ pc[i] = "admitted"
    /\ Completed(i)
    /\ Goto(i, "returned")
    /\ Becomes(i, "SKIP")
    /\ UNCHANGED <<disk, phase, event, checked, late, faults>>

\* ensure_available() finds no endpoint left.
NoEndpoint(i) ==
    /\ Fault
    /\ pc[i] = "admitted"
    /\ ~Completed(i)
    /\ Goto(i, "pausing")
    /\ UNCHANGED <<disk, phase, event, checked, row, late>>

\* Building the context or the client raises: _run_one catches nothing of it.
Escape(i) ==
    /\ Fault
    /\ pc[i] = "admitted"
    /\ Goto(i, "returned")
    /\ Becomes(i, "escaped")
    /\ UNCHANGED <<disk, phase, event, checked, late>>

\* .running is written and the pipeline starts.
Begin(i) ==
    /\ pc[i] = "admitted"
    /\ ~Completed(i)
    /\ Goto(i, "marked")
    /\ marker' = [marker EXCEPT ![i] = TRUE]
    /\ late' = IF event THEN late \cup {i} ELSE late
    /\ UNCHANGED <<revision, summary, complete, test, apiPaused, rc, phase, event, checked, row, faults>>

\* The pipeline returns a result whose final test and summary are written.
Conclude(i) ==
    /\ pc[i] = "marked"
    /\ Goto(i, "summarised")
    /\ Becomes(i, "FINAL")
    /\ Summarise(i, "FINAL")
    /\ test' = [test EXCEPT ![i] = revision]
    /\ UNCHANGED <<revision, complete, marker, apiPaused, rc, phase, event, checked, late, faults>>

\* It returns the TIMEOUT of the selected test, or a SETUP_ERROR: of that test or
\* of the worktree, in which case final_test.py is left as it was.  Resuming
\* replays the setup error or executes the test again, and may end here for ever.
Decline(i, st) ==
    /\ pc[i] = "marked"
    /\ Goto(i, "summarised")
    /\ Becomes(i, st)
    /\ Summarise(i, st)
    /\ \E t \in {revision} \cup (IF st = "SETUP_ERROR" THEN {test[i]} ELSE {}) :
          test' = [test EXCEPT ![i] = t]
    /\ UNCHANGED <<revision, complete, marker, apiPaused, rc, phase, event, checked, late, faults>>

\* journal.finish().
Finish(i) ==
    /\ pc[i] = "summarised"
    /\ Goto(i, "unmarking")
    /\ complete' = [complete EXCEPT ![i] = IF row[i] = "FINAL" THEN revision ELSE @]
    /\ UNCHANGED <<revision, summary, test, marker, apiPaused, rc, phase, event, checked, row, late, faults>>

\* Any other exception, before or after final_test.py: an ERROR summary.  One that
\* the recorded answers provoke comes back with every resumption.
Fail(i) ==
    /\ pc[i] = "marked"
    /\ Goto(i, "unmarking")
    /\ Becomes(i, "ERROR")
    /\ Summarise(i, "ERROR")
    /\ \E t \in {test[i], revision} : test' = [test EXCEPT ![i] = t]
    /\ UNCHANGED <<revision, complete, marker, apiPaused, rc, phase, event, checked, late, faults>>

\* The model service or a checkpoint fails inside the pipeline, whose handler
\* writes a PAUSED_API summary and raises again ...
ServiceFails(i) ==
    /\ Fault
    /\ pc[i] = "marked"
    /\ Goto(i, "unmarking")
    /\ Becomes(i, "PAUSED_API")
    /\ Summarise(i, "PAUSED_API")
    /\ UNCHANGED <<revision, complete, test, marker, apiPaused, rc, phase, event, checked, late>>

\* complete.json cannot be written: the same exception, after the summary.
CheckpointFails(i) ==
    /\ Fault
    /\ pc[i] = "summarised"
    /\ Goto(i, "unmarking")
    /\ Becomes(i, "PAUSED_API")
    /\ UNCHANGED <<disk, phase, event, checked, late>>

\* ... or its container does, and the pipeline raises without a summary.
InfrastructureFails(i) ==
    /\ Fault
    /\ pc[i] = "marked"
    /\ Goto(i, "unmarking")
    /\ Becomes(i, "PAUSED_INFRA")
    /\ UNCHANGED <<disk, phase, event, checked, late>>

\* The finally clause of _run_one_impl, before any handler of _run_one.
Unmark(i) ==
    /\ pc[i] = "unmarking"
    /\ marker' = [marker EXCEPT ![i] = FALSE]
    /\ Goto(i, CASE row[i] = "PAUSED_API"   -> "pausing"
                 [] row[i] = "PAUSED_INFRA" -> "blocking"
                 [] OTHER                   -> "returned")
    /\ UNCHANGED <<revision, summary, complete, test, apiPaused, rc, phase, event, checked, row, late, faults>>

\* The handler of InfrastructureUnavailableError.
Block(i) ==
    /\ pc[i] = "blocking"
    /\ Goto(i, "returned")
    /\ Summarise(i, "PAUSED_INFRA")
    /\ UNCHANGED <<revision, complete, test, marker, apiPaused, rc, phase, event, checked, row, late, faults>>

\* The event is set, maybe for the second time.
Signal == event' = TRUE /\ checked' = IF event THEN checked ELSE Admitted

\* Mutant: the summary of an earlier pass is overwritten.
PauseOverwrites(i) ==
    /\ pc[i] = "pausing"
    /\ Goto(i, "noting")
    /\ Signal
    /\ Becomes(i, "PAUSED_API")
    /\ Summarise(i, "PAUSED_API")
    /\ UNCHANGED <<revision, complete, test, marker, apiPaused, rc, phase, late, faults>>

\* pause_status(): the event first, a summary only where there is none ...
Pause(i) ==
    /\ pc[i] = "pausing"
    /\ Goto(i, "noting")
    /\ Signal
    /\ Becomes(i, "PAUSED_API")
    /\ IF summary[i] = NoSummary THEN Summarise(i, "PAUSED_API") ELSE summary' = summary
    /\ UNCHANGED <<revision, complete, test, marker, apiPaused, rc, phase, late, faults>>

\* ... and then the file the launch scripts look for.
Note(i) ==
    /\ pc[i] = "noting"
    /\ Goto(i, "returned")
    /\ apiPaused' = TRUE
    /\ UNCHANGED <<revision, summary, complete, test, marker, rc, phase, event, checked, row, late, faults>>

\* A file of a handler cannot be written: the exception leaves _run_one.
HandlerFails(i) ==
    /\ Fault
    /\ pc[i] \in {"pausing", "noting", "blocking"}
    /\ Goto(i, "returned")
    /\ Becomes(i, "escaped")
    /\ IF pc[i] = "blocking" THEN UNCHANGED <<event, checked>> ELSE Signal
    /\ UNCHANGED <<disk, phase, late>>

\* Mutant: a paused instance is reported by the summary an earlier run left.
ReportedFromDisk(i) == IF summary[i] = NoSummary THEN row[i] ELSE summary[i].status

\* _load_instance_summary: a pause as returned, anything else as on disk.
Reported(i) ==
    IF row[i] \in Paused \/ summary[i] = NoSummary THEN row[i] ELSE summary[i].status

\* Mutant: errors are not failures.
ExitStatusLenient ==
    CASE \E i \in Instances : row[i] = "escaped" -> 1
      [] \E i \in Instances : Reported(i) \in Paused -> 75
      [] OTHER -> 0

\* main() after the pool has closed: an escaped exception is raised again by
\* future.result() once every worker is done.
ExitStatus ==
    LET reported == {Reported(i) : i \in Instances}
    IN  CASE \E i \in Instances : row[i] = "escaped" -> 1
          [] reported \cap Paused # {}               -> 75
          [] "ERROR" \in reported                    -> 1
          [] OTHER                                   -> 0

Report ==
    /\ phase = "running"
    /\ \A i \in Instances : pc[i] = "returned"
    /\ phase' = "idle"
    /\ rc' = ExitStatus
    /\ UNCHANGED <<revision, summary, complete, test, marker, apiPaused, event, checked, pc, row, late, faults>>

\* The process is killed.
Crash ==
    /\ Fault
    /\ phase = "running"
    /\ phase' = "idle"
    /\ rc' = 137
    /\ pc' = [i \in Instances |-> "returned"]
    /\ UNCHANGED <<revision, summary, complete, test, marker, apiPaused, event, checked, row, late>>

Worker(i) ==
    \/ Admit(i) \/ Skip(i) \/ Begin(i) \/ Conclude(i) \/ Finish(i)
    \/ Unmark(i) \/ Block(i) \/ Pause(i) \/ Note(i)
    \/ Fail(i) \/ \E st \in Declined : Decline(i, st)

Mishap(i) ==
    \/ NoEndpoint(i) \/ Escape(i) \/ ServiceFails(i) \/ CheckpointFails(i)
    \/ InfrastructureFails(i) \/ HandlerFails(i)

Next ==
    \/ Start \/ Refuse \/ Report \/ Crash
    \/ \E i \in Instances : Worker(i) \/ Mishap(i)

Spec == Init /\ [][Next]_vars

\* Every worker thread is scheduled, main() gets to its report, and the operator
\* starts the experiment again.
FairSpec == /\ Spec
            /\ WF_vars(Start) /\ WF_vars(Report)
            /\ \A i \in Instances : WF_vars(Worker(i))

-----------------------------------------------------------------------------
TypeOK ==
    /\ revision \in 1 .. MaxRevisions
    /\ summary \in [Instances -> [status : Statuses, rev : 0 .. MaxRevisions]]
    /\ complete \in [Instances -> 0 .. MaxRevisions]
    /\ test \in [Instances -> 0 .. MaxRevisions]
    /\ marker \in [Instances -> BOOLEAN]
    /\ apiPaused \in BOOLEAN
    /\ rc \in {0, 1, 75, 137}
    /\ phase \in {"idle", "running"}
    /\ event \in BOOLEAN
    /\ pc \in [Instances -> Steps]
    /\ row \in [Instances -> Rows]
    /\ checked \subseteq Instances
    /\ late \subseteq Instances
    /\ faults \in 0 .. MaxFaults

\* "Do not erase that evidence merely because another worker paused the API"
\* (pause_status): whatever fails elsewhere, a completed instance stays
\* completed for as long as the revision stays.
CompletedSafe ==
    [][\A i \in Instances : Completed(i) /\ revision' = revision => Completed(i)']_vars

\* Once the service is known to be down, only workers that had already passed
\* the check can still start a pipeline.
LateBounded == late \subseteq checked /\ Cardinality(checked) <= MaxWorkers - 1

\* The exit status tells the truth: 0 means that every instance has a summary
\* of this revision that is neither an error nor a pause, that nothing was
\* paused, and that every instance not declined will be skipped from now on.
ZeroMeansDone ==
    phase = "idle" /\ rc = 0 =>
        /\ ~event /\ ~apiPaused
        /\ \A i \in Instances : OnRecord(i)

\* Whoever sees the service fail, in a worker or before one starts, and however
\* the other workers end, the invocation does not end in success; the file the
\* launch scripts look for is there unless a pause could not be written down or
\* the process was killed.
PauseReported ==
    phase = "idle" /\ event =>
        /\ rc # 0
        /\ apiPaused \/ rc = 137 \/ \E i \in Instances : row[i] = "escaped"

\* Resuming drains an experiment: when the service and the infrastructure stop
\* failing, no instance stays paused or unfinished, whatever was on disk before.
\* From some time on each has a result of this revision: completed, declined, or
\* the exception its pipeline ends in.
ResumeDrains == <>[](\A i \in Instances : OnRecord(i) \/ summary[i] = Wrote("ERROR"))
=============================================================================

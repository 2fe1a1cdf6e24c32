------------------------------ MODULE FullRun ------------------------------
(***************************************************************************)
(* The generation stage of scripts/run_p0_simple_llm_selector_full.sh and   *)
(* the gate before the official evaluation, around the batch driver of      *)
(* PipelineRun.  The script starts python -m brt6.pipeline.run, looks at    *)
(* its exit status and at api_paused.json, and either stops with 75 or lets *)
(* core/run_gate.py decide between evaluating and skipping.  The operator   *)
(* starts the script again with the same RUN_DIR.                           *)
(***************************************************************************)
EXTENDS PipelineRun

CONSTANT AllowIncomplete    \* ALLOW_INCOMPLETE_FORMAL_EVAL, as Python reads it

ASSUME GateAssumption == AllowIncomplete \in BOOLEAN

VARIABLE stage      \* how far the script of the current launch is

Stages == {"ready", "generating", "stopped", "skipped", "evaluating"}

fullVars == <<vars, stage>>

\* The instances that have a non-empty final_test.py, of whatever revision.
Generated == {i \in Instances : test[i] # 0}

\* Mutant: an incomplete run is judged by its tests alone.
AnyTests(returncode) == Generated # {}

\* formal_evaluation_allowed()
FormalEvaluationAllowed(returncode) ==
    /\ returncode # 75
    /\ Generated # {}
    /\ AllowIncomplete \/ (returncode = 0 /\ Generated = Instances)

FullInit == Init /\ stage = "ready"

\* The script reaches generation and starts it.
Generate ==
    /\ stage = "ready"
    /\ stage' = "generating"
    /\ Start

\* The driver runs, ends or is killed.
Drive ==
    /\ stage = "generating"
    /\ \/ Refuse \/ Report \/ Crash
       \/ \E i \in Instances : Worker(i) \/ Mishap(i)
    /\ UNCHANGED stage

\* What the script does with the exit status.
Stop ==
    /\ stage = "generating"
    /\ phase = "idle"
    /\ rc = 75 \/ apiPaused
    /\ stage' = "stopped"
    /\ UNCHANGED vars

\* Mutant: api_paused.json is looked at, the exit status is not.
GateByFile ==
    /\ stage = "generating"
    /\ phase = "idle"
    /\ ~apiPaused
    /\ stage' = IF Generated = Instances THEN "evaluating" ELSE "skipped"
    /\ UNCHANGED vars

Gate ==
    /\ stage = "generating"
    /\ phase = "idle"
    /\ rc # 75 /\ ~apiPaused
    /\ stage' = IF FormalEvaluationAllowed(rc) THEN "evaluating" ELSE "skipped"
    /\ UNCHANGED vars

\* The operator launches it again with the same RUN_DIR.
Relaunch ==
    /\ stage \in {"stopped", "skipped", "evaluating"}
    /\ stage' = "ready"
    /\ UNCHANGED vars

FullNext == Generate \/ Drive \/ Stop \/ Gate \/ Relaunch

FullSpec == FullInit /\ [][FullNext]_fullVars

\* The script goes on by itself, the driver as in FairSpec, and the operator
\* launches it again.
FairFullSpec ==
    /\ FullSpec
    /\ WF_fullVars(Generate \/ Stop \/ Gate \/ Relaunch)
    /\ WF_fullVars(stage = "generating" /\ Report /\ UNCHANGED stage)
    /\ \A i \in Instances :
          WF_fullVars(stage = "generating" /\ Worker(i) /\ UNCHANGED stage)

-----------------------------------------------------------------------------
FullTypeOK == TypeOK /\ stage \in Stages

\* docs: the full script "stops and does not enter ... official evaluation
\* because of an API failure": an evaluation never starts on a run in which a
\* worker saw the service fail, nor on instances still recorded as paused.
PauseNeverEvaluated ==
    stage = "evaluating" =>
        /\ ~event
        /\ \A i \in Instances : summary[i].status # "PAUSED_API"

\* Without ALLOW_INCOMPLETE_FORMAL_EVAL an evaluation sees every instance, each
\* of them with a test, and each one settled by this revision: completed, or
\* declined with the reason on record.
EvaluatesSettledRun ==
    stage = "evaluating" /\ ~AllowIncomplete =>
        /\ Generated = Instances
        /\ \A i \in Instances : OnRecord(i)

\* A test of an older revision is evaluated only for an instance whose
\* environment could not be set up under this one.
OldTestsExplained ==
    stage = "evaluating" =>
        \A i \in Instances :
            test[i] \in {0, revision} \/ summary[i] = Wrote("SETUP_ERROR")

\* When the service and the infrastructure stop failing, launching again and
\* again gets to an evaluation of results of this revision only, unless launch
\* after launch some pipeline ends in an exception, or some worktree without a
\* test cannot be set up.
EvaluationReached ==
    \/ []<>(stage = "evaluating" /\ \A i \in Instances : OnRecord(i))
    \/ []<>(\E i \in Instances : summary[i] = Wrote("ERROR"))
    \/ []<>(\E i \in Instances : test[i] = 0 /\ summary[i] = Wrote("SETUP_ERROR"))
=============================================================================

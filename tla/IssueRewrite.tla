---------------------------- MODULE IssueRewrite ----------------------------
(***************************************************************************)
(* The first stage of scripts/run_p0_simple_llm_selector_full.sh: python -m *)
(* brt6.pipeline.run_issue_rewrite asks the model for a behavior target of  *)
(* every instance, in a thread pool with one pause event; the script runs   *)
(* it up to three times and then starts the generation, which reads the     *)
(* targets.  A cache frozen from earlier targets                            *)
(* (core/behavior_target_cache.py) may take the place of the stage.         *)
(*                                                                         *)
(* A rewrite is a chat of at most Chats questions whose answers the step    *)
(* journal of the instance records, one session for each revision of the    *)
(* code; a resumed rewrite is told the recorded answers and asks for the    *)
(* others.  Every request goes through the ledger of CostLedger.            *)
(***************************************************************************)
EXTENDS CostLedger, Sequences

CONSTANTS
    Instances,
    Texts,          \* targets the model may answer with
    None,
    MaxWorkers,     \* --max_workers
    Chats,          \* questions of a rewrite: 3
    Passes,         \* times the script starts the stage: 3
    MaxRevisions,   \* bound: revisions of the code
    MaxFaults       \* bound: failures, kills

ASSUME RewriteAssumption ==
    /\ IsFiniteSet(Instances)
    /\ None \notin Texts /\ "bad" \notin Texts
    /\ MaxWorkers \in Nat \ {0}
    /\ Chats \in Nat \ {0}
    /\ Passes \in Nat \ {0}
    /\ MaxRevisions \in Nat \ {0}
    /\ MaxFaults \in Nat

VARIABLES
    \* in the directory of the stage
    revision,       \* .resume/implementation.json
    answers,        \* recorded answers of the current session, by instance
    settled,        \* target_complete.json of the current session
    target,         \* behavior_target.json, with the revision that wrote it
    paused,         \* api_paused.json
    \* in the process
    pc,             \* where the worker of an instance is
    told,           \* answers its rewrite has used
    attempt,        \* its request in flight
    row,            \* what run_one returned, or "escaped"
    event,          \* _api_pause_event
    \* the script
    stage, pass, rc,
    \* the frozen cache: its files, its manifest, and what is left to be copied
    cache, manifest, copying,
    \* the generation
    used,           \* the targets it read, and where
    faults

disk    == <<revision, answers, settled, target, paused>>
process == <<pc, told, attempt, row, event>>
script  == <<stage, pass, rc>>
frozen  == <<cache, manifest, copying>>
vars    == <<disk, process, script, frozen, used, ledgerVars, faults>>

Target(i)  == [rev |-> revision, text |-> told[i][Len(told[i])]]
Unfinished == {i \in Instances : pc[i] # "returned"}
Active     == {i \in Instances : pc[i] \notin {"queued", "returned"}}
Fault      == faults < MaxFaults /\ faults' = faults + 1

Goto(i, step) == pc' = [pc EXCEPT ![i] = step]
Return(i, r)  == Goto(i, "returned") /\ row' = [row EXCEPT ![i] = r]

\* A worker does something that concerns its instance in this process only.
Locally == UNCHANGED <<disk, event, script, frozen, used>>

-----------------------------------------------------------------------------
Init ==
    /\ LedgerInit
    /\ revision = 1
    /\ answers = [i \in Instances |-> << >>]
    /\ settled = [i \in Instances |-> None]
    /\ target = [i \in Instances |-> None]
    /\ paused = FALSE
    /\ pc = [i \in Instances |-> "returned"]
    /\ told = [i \in Instances |-> << >>]
    /\ attempt = [i \in Instances |-> 0]
    /\ row = [i \in Instances |-> "none"]
    /\ event = FALSE
    /\ stage = "ready" /\ pass = 0 /\ rc = 0
    /\ cache = [i \in Instances |-> None]
    /\ manifest = None
    /\ copying = None
    /\ used = [i \in Instances |-> None]
    /\ faults = 0

\* The script is started; without a cache it has targets written.
Launch ==
    /\ stage = "ready"
    /\ stage' = "between" /\ pass' = 0
    /\ UNCHANGED <<disk, process, rc, frozen, used, ledgerVars, faults>>

\* validate_behavior_target_cache(): every target of the data set is there and
\* is what the manifest says.
CacheValid == manifest # None /\ \A i \in Instances : cache[i] = manifest[i]

LaunchWithCache ==
    /\ stage = "ready"
    /\ CacheValid
    /\ stage' = "reading cache"
    /\ UNCHANGED <<disk, process, pass, rc, frozen, used, ledgerVars, faults>>

\* main(): with unchanged code the sessions of the last time, otherwise new ones.
StartPass ==
    /\ stage = "between"
    /\ stage' = "rewriting" /\ pass' = pass + 1
    /\ \/ UNCHANGED <<revision, answers, settled>>
       \/ /\ revision < MaxRevisions
          /\ revision' = revision + 1
          /\ answers' = [i \in Instances |-> << >>]
          /\ settled' = [i \in Instances |-> None]
    /\ paused' = FALSE
    /\ pc' = [i \in Instances |-> "queued"]
    /\ row' = [i \in Instances |-> "none"]
    /\ UNCHANGED <<target, told, attempt, event, rc, frozen, used, ledgerVars, faults>>

-----------------------------------------------------------------------------
\* A worker.  The event is read once, before the instance is started.
Admit(i) ==
    /\ pc[i] = "queued"
    /\ stage = "rewriting"
    /\ Cardinality(Active) < MaxWorkers
    /\ Goto(i, IF event THEN "pausing" ELSE "admitted")
    /\ UNCHANGED <<told, attempt, row, ledgerVars, faults>> /\ Locally

\* No endpoint is left, or the session cannot be written.
Unable(i) ==
    /\ Fault
    /\ pc[i] = "admitted"
    /\ Goto(i, "pausing")
    /\ UNCHANGED <<told, attempt, row, ledgerVars>> /\ Locally

\* The context cannot be built: run_one catches nothing of it.
Escape(i) ==
    /\ Fault
    /\ pc[i] = "admitted"
    /\ Return(i, "escaped")
    /\ UNCHANGED <<told, attempt, ledgerVars>> /\ Locally

\* A settled target that is still what it was is not touched.
Skip(i) ==
    /\ pc[i] = "admitted"
    /\ settled[i] # None /\ settled[i] = target[i]
    /\ Return(i, "SKIP")
    /\ UNCHANGED <<told, attempt, ledgerVars, faults>> /\ Locally

Begin(i) ==
    /\ pc[i] = "admitted"
    /\ settled[i] = None \/ settled[i] # target[i]
    /\ Goto(i, "asking")
    /\ UNCHANGED <<told, attempt, row, ledgerVars, faults>> /\ Locally

\* An answer, recorded or new: no JSON is asked again, in a shorter form.
Take(i, answer) ==
    /\ told' = [told EXCEPT ![i] = Append(@, answer)]
    /\ IF answer # "bad" THEN Goto(i, "saving") /\ row' = row
       ELSE IF Len(told[i]) + 1 < Chats THEN Goto(i, "asking") /\ row' = row
       ELSE Return(i, "ERROR")

Replay(i) ==
    /\ pc[i] = "asking"
    /\ Len(told[i]) < Len(answers[i])
    /\ Take(i, answers[i][Len(told[i]) + 1])
    /\ UNCHANGED <<attempt, ledgerVars, faults>> /\ Locally

\* The next attempt of a question nobody has answered.
Request(i) ==
    LET a == Cardinality(made) + 1
    IN  /\ pc[i] = "asking"
        /\ Len(told[i]) = Len(answers[i])
        /\ a \in Attempts
        /\ \/ Started(a) /\ UNCHANGED faults
           \/ StartLost(a) /\ Fault
        /\ Goto(i, "sent")
        /\ attempt' = [attempt EXCEPT ![i] = a]
        /\ UNCHANGED <<told, row>> /\ Locally

\* An answer, with or without what it cost.  Its finished row may be lost.
Answer(i) ==
    /\ pc[i] = "sent"
    /\ \/ \E priced \in BOOLEAN : Finished(attempt[i], priced) /\ UNCHANGED faults
       \/ FinishLost(attempt[i]) /\ Fault
    /\ Goto(i, "recording")
    /\ attempt' = [attempt EXCEPT ![i] = 0]
    /\ UNCHANGED <<told, row>> /\ Locally

\* No answer: another attempt, a failure of this instance, or of the service.
NoAnswer(i) ==
    /\ Fault
    /\ pc[i] = "sent"
    /\ Finished(attempt[i], FALSE)
    /\ \/ Goto(i, "asking") /\ row' = row
       \/ Goto(i, "pausing") /\ row' = row
       \/ Return(i, "ERROR")
    /\ attempt' = [attempt EXCEPT ![i] = 0]
    /\ UNCHANGED told /\ Locally

\* Mutant: the answer is used but not recorded.
RecordNothing(i) ==
    /\ pc[i] = "recording"
    /\ \E answer \in Texts \cup {"bad"} :
          Take(i, answer)
    /\ answers' = answers
    /\ UNCHANGED <<attempt, revision, settled, target, paused, event, script, frozen, used, ledgerVars, faults>>

\* The journal records the answer before the rewrite sees it.
Record(i) ==
    /\ pc[i] = "recording"
    /\ \E answer \in Texts \cup {"bad"} :
          /\ Take(i, answer)
          /\ answers' = [answers EXCEPT ![i] = Append(@, answer)]
    /\ UNCHANGED <<revision, settled, target, paused, attempt, event, script, frozen, used,
                   ledgerVars, faults>>

\* It cannot: the exception pauses the stage.
RecordFails(i) ==
    /\ Fault
    /\ pc[i] = "recording"
    /\ Goto(i, "pausing")
    /\ UNCHANGED <<told, attempt, row, ledgerVars>> /\ Locally

\* behavior_target.json, in one step or not at all ...
Save(i) ==
    /\ pc[i] = "saving"
    /\ target' = [target EXCEPT ![i] = Target(i)]
    /\ Goto(i, "settling")
    /\ UNCHANGED <<revision, answers, settled, paused, told, attempt, row, event,
                   script, frozen, used, ledgerVars, faults>>

SaveFails(i) ==
    /\ Fault
    /\ pc[i] \in {"saving", "settling"}
    /\ Return(i, "ERROR")
    /\ UNCHANGED <<told, attempt, ledgerVars>> /\ Locally

\* ... and then target_complete.json.
Settle(i) ==
    /\ pc[i] = "settling"
    /\ settled' = [settled EXCEPT ![i] = target[i]]
    /\ Return(i, "OK")
    /\ UNCHANGED <<revision, answers, target, paused, told, attempt, event,
                   script, frozen, used, ledgerVars, faults>>

SettleFails(i) ==
    /\ Fault
    /\ pc[i] = "settling"
    /\ Goto(i, "pausing")
    /\ UNCHANGED <<told, attempt, row, ledgerVars>> /\ Locally

\* pause_status(): the event, and the file the script looks for.
Pause(i) ==
    /\ pc[i] = "pausing"
    /\ event' = TRUE /\ paused' = TRUE
    /\ Return(i, "PAUSED_API")
    /\ UNCHANGED <<revision, answers, settled, target, told, attempt,
                   script, frozen, used, ledgerVars, faults>>

\* A file of it cannot be written either: the exception leaves run_one.  This
\* comes after a failure and is not counted as another.
PauseFails(i) ==
    /\ pc[i] = "pausing"
    /\ event' = TRUE
    /\ Return(i, "escaped")
    /\ UNCHANGED <<disk, told, attempt, script, frozen, used, ledgerVars, faults>>

-----------------------------------------------------------------------------
\* main() again: errors are reported, but only a pause has a status of its own.
ExitStatus ==
    CASE \E i \in Instances : row[i] = "escaped"    -> 1
      [] \E i \in Instances : row[i] = "PAUSED_API" -> 75
      [] OTHER                                      -> 0

ProcessEnds ==
    /\ pc' = [i \in Instances |-> "returned"]
    /\ told' = [i \in Instances |-> << >>]
    /\ attempt' = [i \in Instances |-> 0]
    /\ event' = FALSE

Report ==
    /\ stage = "rewriting"
    /\ Unfinished = {}
    /\ stage' = "judging" /\ rc' = ExitStatus
    /\ ProcessEnds
    /\ UNCHANGED <<disk, row, pass, frozen, used, ledgerVars, faults>>

\* The preflight refuses.
Refuse ==
    /\ Fault
    /\ stage = "rewriting"
    /\ \A i \in Instances : pc[i] = "queued"
    /\ stage' = "judging" /\ rc' = 1
    /\ ProcessEnds
    /\ UNCHANGED <<disk, row, pass, frozen, used, ledgerVars>>

\* The process is killed, perhaps while a worker appends to the ledger.
Crash ==
    /\ Fault
    /\ stage = "rewriting"
    /\ stage' = "judging" /\ rc' = 137
    /\ ProcessEnds
    /\ \/ UNCHANGED ledgerVars
       \/ Torn /\ \E i \in Instances : pc[i] \in {"asking", "sent"}
    /\ UNCHANGED <<disk, row, pass, frozen, used>>

Written == {i \in Instances : target[i] # None}

\* Mutant: enough targets are taken for success.
JudgeByTargets ==
    /\ stage = "judging"
    /\ stage' = CASE rc = 75 \/ paused -> "ready"
                  [] Written = Instances -> "reading targets"
                  [] pass < Passes -> "between"
                  [] OTHER -> "ready"
    /\ rc' = 0
    /\ UNCHANGED <<disk, process, pass, frozen, used, ledgerVars, faults>>

\* The script: it stops for a pause, goes on with all targets, tries again, and
\* in the end goes on with some or gives up.
Judge ==
    /\ stage = "judging"
    /\ stage' = CASE rc = 75 \/ paused -> "ready"
                  [] rc = 0 /\ Written = Instances -> "reading targets"
                  [] pass < Passes -> "between"
                  [] rc = 0 /\ Written # {} -> "reading targets"
                  [] OTHER -> "ready"
    /\ rc' = 0
    /\ UNCHANGED <<disk, process, pass, frozen, used, ledgerVars, faults>>

\* The generation reads the target of an instance (_load_cached_behavior), from
\* the directory of the stage or from the cache.
Load(i) ==
    /\ used[i] = None
    /\ \/ /\ stage = "reading targets" /\ target[i] # None
          /\ used' = [used EXCEPT ![i] = [from |-> "stage", target |-> target[i]]]
       \/ /\ stage = "reading cache" /\ cache[i] # None
          /\ used' = [used EXCEPT ![i] = [from |-> "cache", target |-> cache[i]]]
    /\ UNCHANGED <<disk, process, script, frozen, ledgerVars, faults>>

\* It ends, in whatever way, and the script is started again some day.
End ==
    /\ stage \in {"reading targets", "reading cache"}
    /\ stage' = "ready"
    /\ used' = [i \in Instances |-> None]
    /\ pass' = 0
    /\ UNCHANGED <<disk, process, rc, frozen, ledgerVars, faults>>

-----------------------------------------------------------------------------
\* Somebody freezes targets while the stage is not writing them.
Quiet == stage \notin {"between", "rewriting", "judging"}

\* Mutant: a cache that is there already is written again.
FreezeAgain ==
    /\ copying = None /\ Quiet
    /\ copying' = Instances
    /\ UNCHANGED <<disk, process, script, cache, manifest, used, ledgerVars, faults>>

\* freeze_behavior_target_cache(): into an empty directory only, ...
Freeze ==
    /\ copying = None /\ Quiet
    /\ manifest = None /\ \A i \in Instances : cache[i] = None
    /\ copying' = Instances
    /\ UNCHANGED <<disk, process, script, cache, manifest, used, ledgerVars, faults>>

\* ... file by file, ...
Copy(i) ==
    /\ copying # None /\ Quiet
    /\ i \in copying
    /\ target[i] # None
    /\ cache' = [cache EXCEPT ![i] = target[i]]
    /\ copying' = copying \ {i}
    /\ UNCHANGED <<disk, process, script, manifest, used, ledgerVars, faults>>

\* ... and the manifest of what was copied last.
Seal ==
    /\ copying = {} /\ Quiet
    /\ manifest' = cache
    /\ copying' = None
    /\ UNCHANGED <<disk, process, script, cache, used, ledgerVars, faults>>

\* A target is missing, or the process is killed: the directory stays as it is.
FreezeFails ==
    /\ copying # None /\ Quiet
    /\ \/ (\E i \in copying : target[i] = None) /\ UNCHANGED faults
       \/ Fault
    /\ copying' = None
    /\ UNCHANGED <<disk, process, script, cache, manifest, used, ledgerVars>>

Worker(i) ==
    \/ Admit(i) \/ Skip(i) \/ Begin(i) \/ Replay(i) \/ Request(i) \/ Answer(i)
    \/ Record(i) \/ Save(i) \/ Settle(i) \/ Pause(i)

Mishap(i) ==
    \/ Unable(i) \/ Escape(i) \/ NoAnswer(i) \/ RecordFails(i) \/ SaveFails(i)
    \/ SettleFails(i) \/ PauseFails(i)

Next ==
    \/ Launch \/ LaunchWithCache \/ StartPass \/ Report \/ Refuse \/ Crash \/ Judge \/ End
    \/ Freeze \/ Seal \/ FreezeFails
    \/ \E i \in Instances : Worker(i) \/ Mishap(i) \/ Load(i) \/ Copy(i)

Spec == Init /\ [][Next]_vars

-----------------------------------------------------------------------------
Answers == Texts \cup {"bad"}
Targets == [rev : 1 .. MaxRevisions, text : Texts]
Uses    == [from : {"stage", "cache"}, target : Targets]

DiskOK ==
    /\ revision \in 1 .. MaxRevisions
    /\ answers \in [Instances -> Seq(Answers)]
    /\ settled \in [Instances -> Targets \cup {None}]
    /\ target \in [Instances -> Targets \cup {None}]
    /\ paused \in BOOLEAN

ProcessOK ==
    /\ pc \in [Instances -> {"queued", "admitted", "asking", "sent", "recording", "saving",
                             "settling", "pausing", "returned"}]
    /\ told \in [Instances -> Seq(Answers)]
    /\ attempt \in [Instances -> 0 .. MaxRequests]
    /\ \A i \in Instances : pc[i] = "sent" => attempt[i] \in Attempts
    /\ row \in [Instances -> {"none", "OK", "SKIP", "ERROR", "PAUSED_API", "escaped"}]
    /\ event \in BOOLEAN

ScriptOK ==
    /\ stage \in {"ready", "between", "rewriting", "judging", "reading targets",
                  "reading cache"}
    /\ pass \in 0 .. Passes /\ (stage = "between" => pass < Passes)
    /\ rc \in {0, 1, 75, 137}
    /\ faults \in 0 .. MaxFaults

CacheOK ==
    /\ cache \in [Instances -> Targets \cup {None}]
    /\ manifest = None \/ manifest \in [Instances -> Targets \cup {None}]
    /\ copying = None \/ copying \subseteq Instances
    /\ used \in [Instances -> Uses \cup {None}]

\* The values of the stage's files and variables.
TypeOK == DiskOK /\ ProcessOK /\ ScriptOK /\ CacheOK

\* "An interrupted run must also resume on the first pass instead of resampling
\* all completed targets" (the full script): while the code stays the same, a
\* target once written is never replaced by another answer of the model, and no
\* request is sent for it again, whether its stage was paused, killed before
\* target_complete.json, or just started again.
TargetsNotResampled ==
    [][\A i \in Instances :
          target[i] # None /\ target[i].rev = revision /\ revision' = revision
              => target'[i] = target[i] /\ (pc[i] # "sent" => pc'[i] # "sent")]_vars

\* The generation reads a target of an older revision only for an instance
\* whose rewrite failed under this one: pauses, kills, escaped exceptions and
\* the three passes of the script never let an old one through.
OldTargetsExplained ==
    stage = "reading targets" =>
        \A i \in Instances :
            used[i] # None =>
                used[i].target.rev = revision \/ row[i] = "ERROR"

\* What a generation reads from a validated cache is what the manifest it was
\* validated against says, whoever freezes what in the meantime.
CacheAsFrozen ==
    stage = "reading cache" =>
        \A i \in Instances :
            used[i] # None => manifest # None /\ used[i].target = manifest[i]
=============================================================================

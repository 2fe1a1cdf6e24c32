----------------------------- MODULE RepairLoop -----------------------------
(***************************************************************************)
(* One seed's pipeline: run_instance_pipeline of src/execution/feedback.py  *)
(* from the initial delta to summary.json, with the strict verifier.        *)
(*                                                                         *)
(* A round runs the candidate, has it judged, keeps a checkpoint, steps     *)
(* back to the best round when the stage regressed, and plans the next      *)
(* change.  The worktree, the execution in hand and the candidate in hand   *)
(* are separate pieces of state that reuse and step-back must keep in line. *)
(*                                                                         *)
(* A pause ends the process; the next one replays the recorded model        *)
(* answers and runs (StepJournal) and arrives where the first one stopped,  *)
(* so a resumed pipeline continues at the step that failed.                 *)
(***************************************************************************)
EXTENDS CandidateVerdict, FiniteSets

CONSTANTS
    Target,         \* what the candidates are judged against
    Rounds,         \* semantic_round_budget(): 1 to 10
    MaxFaults       \* bound: pauses and failures

ASSUME LoopAssumption ==
    /\ Rounds \in 1 .. 10
    /\ MaxFaults \in Nat

VARIABLES
    pc,
    round,          \* brt_attempt
    cand,           \* candidate
    file,           \* text of the test file in the worktree
    exec,           \* execution
    kept,           \* previous_candidate_execution, with its identity
    keep,           \* keep_execution
    verdict,        \* decision and strict_result
    depth,          \* depth of previous_residual, Unset at the start
    delta,          \* the last delta
    checkpoints,    \* key and text of every round
    best,           \* best_repair_state and best_rank_key
    summary,        \* status in summary.json
    ranking,        \* selected checkpoint of candidate_ranking.json
    test,           \* text of final_test.py
    stopped,        \* where a paused pipeline continues
    faults

work  == <<cand, exec, kept, keep, verdict, depth, delta, checkpoints, best>>
disk  == <<summary, ranking, test>>
vars  == <<pc, round, file, work, disk, stopped, faults>>

Unset  == -2
NoBest == [key |-> <<>>, round |-> -1]
Deltas == {"MUTATE", "INVALID", "KEEP a", "KEEP b"}     \* a, b: reason and fact
Keeps  == {"KEEP a", "KEEP b"}
Steps  == {"adapt", "run", "judge", "plan", "conclude"}

Init ==
    /\ pc = "adapt" /\ stopped = None /\ faults = 0
    /\ round = 0 /\ depth = Unset /\ keep = FALSE
    /\ cand = None /\ file = None /\ exec = None /\ kept = None
    /\ verdict = None /\ delta = None /\ checkpoints = {} /\ best = NoBest
    /\ summary = None /\ ranking = None /\ test = None

-----------------------------------------------------------------------------
\* generate_candidate or materialize_current_test: the file is written at once.
Place(c) == cand' = c /\ file' = c.text

\* The initial delta, and the candidate of round 0 with or without it.
Adapt ==
    /\ pc = "adapt"
    /\ delta' \in Deltas
    /\ \E c \in Codes : Place(c)
    /\ pc' = "run"
    /\ UNCHANGED <<round, exec, kept, keep, verdict, depth, checkpoints, best,
                   disk, stopped, faults>>

Reusable(e) == ~e.out.timeout /\ e.status \in {"PASS", "ASSERTION_FAIL", "FAIL", "ERROR_FAIL"}

\* Mutant: whatever the last run was of.
ReuseAny == keep /\ kept # None /\ Reusable(kept)

\* _execute_or_reuse_keep: the last run stands for one of the same identity.
Reuse == keep /\ kept # None /\ kept.of = cand.text /\ Reusable(kept)

Execute ==
    /\ pc = "run"
    /\ IF ~cand.sound
       THEN exec' = StaticFailure(cand) /\ UNCHANGED kept
       ELSE /\ IF Reuse THEN exec' = kept
               ELSE \E o \in Outcomes : exec' = Executed(Target, cand, o)
            /\ kept' = exec'
    /\ keep' = FALSE
    /\ pc' = "judge"
    /\ UNCHANGED <<round, cand, file, verdict, depth, delta, checkpoints, best,
                   disk, stopped, faults>>

Entry(v) ==
    [round |-> round, cand |-> cand, exec |-> exec, verdict |-> v,
     key |-> RankKey(Target, cand, exec, v, round)]

\* _residual_transition
Regressed(v) == ~Accepts(v) /\ Depth(v, exec) < depth

\* _restore_repair_state, and the bindings the loop takes from it.
Restore(b) ==
    /\ Place(b.cand)
    /\ exec' = b.exec /\ verdict' = b.verdict
    /\ depth' = Depth(b.verdict, b.exec)

\* Mutant: the latest round, even when an earlier one ranks the same or higher.
KeepLast(e) == best' = e

KeepBest(e) == best' = IF Above(e.key, best.key) THEN e ELSE best

OutOfRounds == round + 1 >= Rounds

Judge ==
    /\ pc = "judge"
    /\ \E v \in Verdicts(Target, cand, exec, Opinions) :
          LET e == Entry(v) IN
          /\ checkpoints' = checkpoints \cup {[key |-> e.key, text |-> cand.text]}
          /\ KeepBest(e)
          /\ IF Regressed(v) /\ best'.round < round
             THEN Restore(best')
             ELSE /\ verdict' = v
                  /\ depth' = Depth(v, exec)
                  /\ UNCHANGED <<cand, file, exec>>
    /\ pc' = IF Accepts(verdict') \/ OutOfRounds THEN "conclude" ELSE "plan"
    /\ UNCHANGED <<round, kept, keep, delta, disk, stopped, faults>>

\* The planner repeats itself: repeated_keep().
GiveUp ==
    /\ pc = "plan"
    /\ delta \in Keeps
    /\ pc' = "conclude"
    /\ UNCHANGED <<round, file, work, disk, stopped, faults>>

NextRound == round' = round + 1

\* Nothing to change: the same candidate has another round.
Again ==
    /\ pc = "plan"
    /\ delta' \in Deltas \ {"MUTATE"}
    /\ ~(delta \in Keeps /\ delta' = delta)
    /\ keep' = (delta' \in Keeps)
    /\ NextRound
    /\ pc' = "run"
    /\ UNCHANGED <<cand, file, exec, kept, verdict, depth, checkpoints, best,
                   disk, stopped, faults>>

Mutate ==
    /\ pc = "plan"
    /\ delta' = "MUTATE"
    /\ \E c \in Codes : Place(c)
    /\ NextRound
    /\ pc' = "run"
    /\ UNCHANGED <<exec, kept, keep, verdict, depth, checkpoints, best,
                   disk, stopped, faults>>

Selected == Checkpoint(Target, best.cand, best.exec, best.verdict, best.round)

\* Mutant: the status of the round in hand.
StatusInHand == FinalStatus(exec, verdict)

SelectedStatus == FinalStatus(best.exec, best.verdict)

\* The best candidate returns to the worktree and is exported, then the summary.
Conclude ==
    /\ pc = "conclude"
    /\ Place(best.cand)
    /\ exec' = best.exec /\ verdict' = best.verdict
    /\ ranking' = Selected
    /\ test' = best.cand.text
    /\ summary' = SelectedStatus
    /\ pc' = "done"
    /\ UNCHANGED <<round, kept, keep, depth, delta, checkpoints, best, stopped, faults>>

-----------------------------------------------------------------------------
Fault == faults < MaxFaults /\ faults' = faults + 1

\* LLMUnavailableError or InfrastructureUnavailableError: from the model calls
\* and from a run.
Pause ==
    /\ pc \in Steps \ {"conclude"}
    /\ Fault
    /\ pc' = "paused" /\ stopped' = pc
    /\ summary' = IF pc = "run" THEN summary ELSE "PAUSED_API"
    /\ UNCHANGED <<round, file, work, ranking, test>>

Resume ==
    /\ pc = "paused"
    /\ pc' = stopped /\ stopped' = None
    /\ UNCHANGED <<round, file, work, disk, faults>>

\* Any other exception: the summary says ERROR and what was written stays.
Break ==
    /\ pc \in Steps
    /\ Fault
    /\ \/ UNCHANGED <<ranking, test>>
       \/ pc = "conclude" /\ ranking' = Selected /\ test' \in {test, best.cand.text}
    /\ summary' = "ERROR"
    /\ pc' = "done"
    /\ UNCHANGED <<round, file, work, stopped>>

Work == Adapt \/ Execute \/ Judge \/ GiveUp \/ Again \/ Mutate \/ Conclude

Next == Work \/ Pause \/ Resume \/ Break

Spec == Init /\ [][Next]_vars

-----------------------------------------------------------------------------
\* The values of the loop's variables.
LoopTypeOK ==
    /\ pc \in Steps \cup {"paused", "done"}
    /\ stopped \in (Steps \ {"conclude"}) \cup {None}
    /\ round \in 0 .. Rounds - 1
    /\ keep \in BOOLEAN
    /\ depth \in -2 .. 3
    /\ delta \in Deltas \cup {None}
    /\ summary \in SummaryStatuses \cup {None, "PAUSED_API"}
    /\ Cardinality(checkpoints) <= round + 1
    /\ faults \in 0 .. MaxFaults

\* Whenever a verdict is sought or used, the worktree holds the candidate in
\* hand and the execution in hand is a run of it, reused and restored ones
\* included; and when the next change is planned, verdict and depth are those of
\* that very run.
EvidenceMatches ==
    /\ pc \in {"judge", "plan"} => file = cand.text /\ exec.of = cand.text
    /\ pc = "plan" =>
          /\ verdict \in Verdicts(Target, cand, exec, Opinions)
          /\ depth = Depth(verdict, exec)

\* summary.json, candidate_ranking.json, final_test.py and the worktree of a
\* pipeline that ends regularly speak of one candidate, and the summary claims
\* an aligned failure only for a run that fails by itself and was accepted as
\* hitting the target with a grounded oracle: the executor's keyword triage
\* never becomes an accepted issue failure (feedback.py, final status).
\* A round that was accepted is passed over for one reason only: its oracle is
\* not falsifiable by itself, and an earlier round's is.
PublishedWhole ==
    pc = "done" /\ summary # "ERROR" =>
        /\ test = ranking.text /\ file = test /\ exec.of = test
        /\ (summary = "ISSUE_ALIGNED_FAIL") = (ranking.key[2] = 1)
        /\ summary = "ISSUE_ALIGNED_FAIL" =>
              Failing(exec) /\ verdict.hit /\ verdict.grounded /\ verdict.falsifiable
        /\ summary # "ISSUE_ALIGNED_FAIL" =>
              \A x \in checkpoints :
                 x.key[2] = 1 =>
                    x.key[1] = 0 /\ ranking.key[1] = 1 /\ x.key[11] < ranking.key[11]

Failed == [key |-> <<>>, text |-> None]

\* The loop publishes the best of its rounds, once, or fails.
Promise == INSTANCE BestOfRounds WITH
    tried     <- checkpoints,
    kept      <- IF best = NoBest THEN None ELSE [key |-> best.key, text |-> best.cand.text],
    published <- IF pc # "done" THEN None
                 ELSE IF summary = "ERROR" THEN Failed
                 ELSE [key |-> ranking.key, text |-> test]

\* Through reruns, reused runs, steps back and pauses, what a pipeline exports
\* is the best of all the rounds it judged.
ImplementsBestOfRounds == Promise!BestSpec

=============================================================================

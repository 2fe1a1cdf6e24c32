----------------------------- MODULE DirectEval -----------------------------
(***************************************************************************)
(* The formal evaluation of a generation run: main and run_bucket of        *)
(* src/evaluation/direct_eval.py, started again and again on one output     *)
(* directory by run_formal_eval_after_generation.py.                        *)
(*                                                                         *)
(* Workers take the instances of their bucket one by one and save all their *)
(* results after each; too many environment errors stop everybody.  The     *)
(* main thread merges the files the workers name and publishes the metrics, *)
(* and the script that started it summarises what it then finds on disk.    *)
(***************************************************************************)
EXTENDS InstanceEvaluation, FiniteSets, SequencesExt

CONSTANTS
    Dataset,        \* the instances, in order
    Repo, Env,      \* of each instance
    Patch,          \* golden patch of each instance
    Workers,        \* worker directories
    Calls,          \* how the evaluator may be called
    Happenings,     \* what may happen to an evaluation
    MinCount,       \* --env_failfast_min_count
    Num, Den,       \* --env_failfast_ratio
    MaxRuns,        \* bound: invocations
    MaxFaults,      \* bound: kills, exceptions and failed writes
    None

Instances == {Dataset[k] : k \in DOMAIN Dataset}
Places    == {"clone", "generated"}

\* An entry of a worker's results, and all of them.
Entries == [status : Statuses, env : BOOLEAN, sound : BOOLEAN, run : Nat, patches : BOOLEAN]
Files   == [Instances -> Entries \cup {None}]

ASSUME EvalAssumption ==
    /\ Dataset \in Seq(Instances)
    /\ IsFiniteSet(Workers) /\ Workers = 0 .. Cardinality(Workers) - 1
    /\ MinCount \in Nat \ {0} /\ Num \in Nat /\ Den \in Nat \ {0}
    /\ MaxRuns \in Nat /\ MaxFaults \in Nat
    /\ \A c \in Calls : c.where \in Places
    /\ None \notin Entries /\ None \notin Files

VARIABLES
    run, call,      \* the invocation and its arguments
    phase,          \* of the main thread, and of the script behind it
    pc, queue, memory,          \* of each worker
    file,           \* worker_<w>/results.json, or None
    count,          \* failfast_state: evaluated, with an environment error
    invalid, stop,  \* invalid_environment, stop_event
    merged, metrics, summary,   \* files
    tree,           \* checkouts on disk
    faults

control == <<run, call, phase>>
worker  == <<pc, queue, memory>>
health  == <<count, invalid, stop>>
output  == <<merged, metrics, summary>>
vars    == <<control, worker, file, health, output, tree, faults>>

Nothing == [i \in Instances |-> None]
At(i)   == tree[call.where, i]

\* group_ids_by_repo: repositories stay together, the largest first, each to the
\* least loaded worker.
Members(ids, r) == SelectSeq(ids, LAMBDA i : Repo[i] = r)
Position(ids, r) == CHOOSE k \in DOMAIN ids :
    Repo[ids[k]] = r /\ \A j \in 1 .. k - 1 : Repo[ids[j]] # r

Groups(ids) ==
    SetToSortSeq({Repo[ids[k]] : k \in DOMAIN ids},
        LAMBDA r, s : LET a == Len(Members(ids, r))  b == Len(Members(ids, s))
                      IN  a > b \/ (a = b /\ Position(ids, r) < Position(ids, s)))

Lightest(b) == CHOOSE w \in DOMAIN b :
    \A v \in DOMAIN b : Len(b[w]) < Len(b[v]) \/ (Len(b[w]) = Len(b[v]) /\ w <= v)

Buckets(ids, n) ==
    FoldLeft(LAMBDA b, r : LET w == Lightest(b) IN [b EXCEPT ![w] = @ \o Members(ids, r)],
             [w \in 0 .. n - 1 |-> << >>], Groups(ids))

\* What a worker of a call has to do.
Bucket(c, w) ==
    LET b == Buckets(c.ids, c.workers)
    IN  IF w \in DOMAIN b THEN b[w] ELSE << >>

\* The buckets share out exactly the instances asked for.
ASSUME BucketsAssumption == \A c \in Calls :
    /\ \A w \in Workers : Bucket(c, w) \in Seq(Instances)
    /\ UNION {ToSet(Bucket(c, w)) : w \in Workers} = ToSet(c.ids)
    /\ \A v, w \in Workers : v # w => ToSet(Bucket(c, v)) \cap ToSet(Bucket(c, w)) = {}

Init ==
    /\ run = 0 /\ call = None /\ phase = "idle"
    /\ pc = [w \in Workers |-> "idle"]
    /\ queue = [w \in Workers |-> << >>]
    /\ memory = [w \in Workers |-> Nothing]
    /\ file = [w \in Workers |-> None]
    /\ count = [all |-> 0, env |-> 0] /\ invalid = FALSE /\ stop = FALSE
    /\ merged = None /\ metrics = None /\ summary = None
    /\ tree = [x \in Places \X Instances |-> IF x[1] = "clone" THEN {} ELSE {"built"}]
    /\ faults = 0

Fault == faults < MaxFaults /\ faults' = faults + 1

-----------------------------------------------------------------------------
\* An output directory is resumed under the benchmark of its metrics only.
Refused(c) == c.resume /\ metrics # None /\ metrics.mode # c.mode

Refuse ==
    /\ phase = "idle"
    /\ run < MaxRuns
    /\ run' = run + 1
    /\ \E c \in Calls : Refused(c)
    /\ phase' = "failed"
    /\ UNCHANGED <<call, worker, file, health, output, tree, faults>>

\* The disk or the tools are not fit: an empty result is published.
PreflightFails ==
    /\ phase = "idle"
    /\ run < MaxRuns
    /\ Fault
    /\ run' = run + 1
    /\ \E c \in Calls :
          /\ ~Refused(c)
          /\ metrics' = [run |-> run', mode |-> c.mode, call |-> None, valid |-> FALSE]
    /\ merged' = Nothing
    /\ phase' = "failed"
    /\ UNCHANGED <<call, worker, file, health, summary, tree>>

Launch ==
    /\ phase = "idle"
    /\ run < MaxRuns
    /\ run' = run + 1
    /\ \E c \in Calls :
          /\ ~Refused(c)
          /\ call' = c
          /\ queue' = [w \in Workers |-> Bucket(c, w)]
          /\ pc' = [w \in Workers |-> IF Bucket(c, w) # << >> THEN "load" ELSE "idle"]
    /\ phase' = "running"
    /\ count' = [all |-> 0, env |-> 0] /\ invalid' = FALSE /\ stop' = FALSE
    /\ UNCHANGED <<memory, file, output, tree, faults>>

\* Mutant: results on disk are always taken up.
LoadAny(w) == IF file[w] # None THEN file[w] ELSE Nothing

\* Mutant: results on disk are never taken up.
LoadNone(w) == Nothing

Loaded(w) == IF call.resume /\ file[w] # None THEN file[w] ELSE Nothing

Load(w) ==
    /\ pc[w] = "load"
    /\ memory' = [memory EXCEPT ![w] = Loaded(w)]
    /\ pc' = [pc EXCEPT ![w] = "next"]
    /\ UNCHANGED <<control, queue, file, health, output, tree, faults>>

Skip(w) ==
    /\ pc[w] = "next" /\ ~stop /\ queue[w] # << >>
    /\ memory[w][Head(queue[w])] # None
    /\ queue' = [queue EXCEPT ![w] = Tail(@)]
    /\ UNCHANGED <<control, pc, memory, file, health, output, tree, faults>>

\* environment_operation_lock
Free(i) == \A v \in Workers : pc[v] = "evaluating" => Env[Head(queue[v])] # Env[i]

Take(w) ==
    /\ pc[w] = "next" /\ ~stop /\ queue[w] # << >>
    /\ memory[w][Head(queue[w])] = None
    /\ Free(Head(queue[w]))
    /\ pc' = [pc EXCEPT ![w] = "evaluating"]
    /\ UNCHANGED <<control, queue, memory, file, health, output, tree, faults>>

End(w) ==
    /\ pc[w] = "next"
    /\ stop \/ queue[w] = << >>
    /\ pc' = [pc EXCEPT ![w] = "ended"]
    /\ UNCHANGED <<control, queue, memory, file, health, output, tree, faults>>

\* Mutant: the first errors are forgiven.
TooManyLate(n) == n.all > MinCount /\ n.env * Den >= Num * n.all

TooMany(n) == n.all >= MinCount /\ n.env * Den >= Num * n.all

\* update_failfast_state, under its lock.
Counted(r) ==
    /\ count' = [all |-> count.all + 1, env |-> count.env + (IF r.env THEN 1 ELSE 0)]
    /\ invalid' = (invalid \/ TooMany(count'))
    /\ stop' = (stop \/ TooMany(count'))

\* evaluate_one returned, and the result is counted before it is saved.
Evaluated(w, i, r, t) ==
    /\ memory' = [memory EXCEPT ![w][i] = [r EXCEPT !.run = run]]
    /\ tree' = [tree EXCEPT ![<<call.where, i>>] = IF call.where = "clone" THEN {} ELSE t]
    /\ Counted(r)
    /\ pc' = [pc EXCEPT ![w] = "saving"]
    /\ UNCHANGED <<control, queue, file, output>>

Evaluate(w) ==
    /\ pc[w] = "evaluating"
    /\ \E h \in Happenings :
          LET i == Head(queue[w])
              r == Result(call, Patch[i], h, At(i))
          IN  Evaluated(w, i, r, Left(call, Patch[i], h, At(i), r.status))
    /\ UNCHANGED faults

\* An exception on the way, or no checkout: the result is ERROR.
Except(w) ==
    /\ pc[w] = "evaluating"
    /\ Fault
    /\ LET i == Head(queue[w])
       IN  \E h \in Happenings : \E t \in Midway(call, Patch[i], h, At(i)) :
              Evaluated(w, i, Failed, Cleaned(call, t))

Save(w) ==
    /\ pc[w] = "saving"
    /\ file' = [file EXCEPT ![w] = memory[w]]
    /\ queue' = [queue EXCEPT ![w] = Tail(@)]
    /\ pc' = [pc EXCEPT ![w] = "next"]
    /\ UNCHANGED <<control, memory, health, output, tree, faults>>

\* An exception evaluate_one does not catch (the test cannot be read, an
\* environment not be prepared) or a file that cannot be read or written.
Raise(w) ==
    /\ pc[w] \in {"load", "evaluating", "saving"}
    /\ Fault
    /\ pc' = [pc EXCEPT ![w] = "raised"]
    /\ UNCHANGED <<control, queue, memory, file, health, output, tree>>

-----------------------------------------------------------------------------
\* The evaluator's process ends, and its workers' memory with it.
Exit ==
    /\ pc' = [w \in Workers |-> "idle"]
    /\ queue' = [w \in Workers |-> << >>]
    /\ memory' = [w \in Workers |-> Nothing]

\* Mutant: a worker that raised is waited for.
OverEnded == phase = "running" /\ \A w \in Workers : pc[w] \in {"idle", "ended"}

Over == phase = "running" /\ \A w \in Workers : pc[w] \in {"idle", "ended", "raised"}

Ended == {w \in Workers : pc[w] = "ended" /\ file[w] # None}

\* The files of the workers in the order they ended, which is any order.
Merge ==
    /\ Over
    /\ \A w \in Workers : pc[w] # "raised"
    /\ \E order \in SetToSeqs(Ended) :
          merged' = [i \in Instances |->
             LET found == {k \in DOMAIN order : file[order[k]][i] # None}
                 last  == CHOOSE k \in found : \A j \in found : j <= k
             IN  IF found # {} THEN file[order[last]][i]
                 ELSE IF i \in ToSet(call.ids) THEN [Failed EXCEPT !.run = run]
                 ELSE None]
    /\ phase' = "publishing"
    /\ UNCHANGED <<run, call, worker, file, health, metrics, summary, tree, faults>>

Publish ==
    /\ phase = "publishing"
    /\ metrics' = [run |-> run, mode |-> call.mode, call |-> call, valid |-> ~invalid]
    /\ phase' = "succeeded"
    /\ Exit
    /\ UNCHANGED <<run, call, file, health, merged, summary, tree, faults>>

\* A worker's exception reaches the main thread when all have ended.
Abort ==
    /\ Over
    /\ \E w \in Workers : pc[w] = "raised"
    /\ phase' = "failed"
    /\ Exit
    /\ UNCHANGED <<run, call, file, health, output, tree, faults>>

\* The evaluator is killed, alone or with the script.
Kill ==
    /\ phase \in {"running", "publishing"}
    /\ Fault
    /\ phase' \in {"failed", "idle"}
    /\ LET at   == {w \in Workers : pc[w] = "evaluating"}
           i(w) == Head(queue[w])
           left(w) == UNION {Midway(call, Patch[i(w)], h, At(i(w))) : h \in Happenings}
           of(x) == {w \in at : x = <<call.where, i(w)>>}
       IN  \E f \in [at -> UNION {left(w) : w \in at}] :
              /\ \A w \in at : f[w] \in left(w)
              /\ tree' = [x \in DOMAIN tree |->
                    IF of(x) = {} THEN tree[x] ELSE f[CHOOSE w \in of(x) : TRUE]]
    /\ Exit
    /\ UNCHANGED <<run, call, file, health, output>>

Ok == phase = "succeeded"

\* The script reads whatever metrics and results there are.
Summarise ==
    /\ phase \in {"succeeded", "failed"}
    /\ summary' = [run |-> run, ok |-> Ok, metrics |-> metrics, merged |-> merged]
    /\ phase' = "idle"
    /\ UNCHANGED <<run, call, worker, file, health, merged, metrics, tree, faults>>

Step(w) == Load(w) \/ Skip(w) \/ Take(w) \/ End(w) \/ Evaluate(w) \/ Save(w)
Main    == Merge \/ Publish \/ Abort \/ Summarise

Next ==
    \/ Refuse \/ PreflightFails \/ Launch \/ Main \/ Kill
    \/ \E w \in Workers : Step(w) \/ Except(w) \/ Raise(w)

Spec == Init /\ [][Next]_vars /\ WF_vars(Main) /\ \A w \in Workers : WF_vars(Step(w))

-----------------------------------------------------------------------------
\* The values of the evaluator's variables.
EvalTypeOK ==
    /\ run \in 0 .. MaxRuns
    /\ phase \in {"idle", "running", "publishing", "succeeded", "failed"}
    /\ \A w \in Workers :
          /\ pc[w] \in {"idle", "load", "next", "evaluating", "saving", "ended", "raised"}
          /\ pc[w] \in {"evaluating", "saving"} => queue[w] # << >>
          /\ pc[w] \in {"load", "next", "evaluating", "saving"} => phase = "running"
    /\ 0 <= count.env /\ count.env <= count.all /\ count.all <= Len(Dataset)
    /\ stop = invalid
    /\ faults \in 0 .. MaxFaults

\* A summary with exit status 0 and valid metrics, of an evaluation that did
\* not resume, is about its own invocation: every instance asked for, no other
\* one, and each evaluated by this invocation, although the directory may be
\* full of files of earlier ones with other workers and instances.
FreshCountsItself ==
    (summary # None /\ summary.ok /\ summary.metrics.valid /\ ~summary.metrics.call.resume) =>
        /\ summary.metrics.run = summary.run
        /\ \A i \in Instances :
              IF i \in ToSet(summary.metrics.call.ids)
              THEN summary.merged[i] # None /\ summary.merged[i].run = summary.run
              ELSE summary.merged[i] = None

\* Metrics are called valid only when, among what this invocation evaluated
\* (in whatever order its workers counted), environment errors stay below the
\* threshold.
ValidMeansHealthy ==
    (phase = "succeeded" /\ metrics.valid) =>
        LET own == {x \in Workers \X Instances :
                      file[x[1]] # None /\ file[x[1]][x[2]] # None /\ file[x[1]][x[2]].run = run}
            bad == {x \in own : file[x[1]][x[2]].env}
        IN  Cardinality(own) < MinCount \/ Cardinality(bad) * Den < Num * Cardinality(own)

\* Every verdict on file comes from two runs that saw what they should: the
\* test on the base commit, and on the base commit with the whole golden patch;
\* no golden test takes part, and nothing an earlier, killed or failed
\* evaluation left in the checkout.
VerdictsSound ==
    \A w \in Workers : \A i \in Instances :
        file[w] # None /\ file[w][i] # None => file[w][i].sound

\* Resuming loses no result: what a worker's file holds stays as it is, however
\* often evaluators are killed and started again.
ResumeLosesNothing ==
    [][call' # None /\ call'.resume =>
          \A w \in Workers : \A i \in Instances :
              file[w] # None /\ file[w][i] # None
                  => file'[w] # None /\ file'[w][i] = file[w][i]]_vars

\* An invocation ends: workers waiting for an environment, a stop in the middle
\* of a bucket and exceptions of single workers included.
EvaluationEnds == phase = "running" ~> phase = "idle"

\* direct_eval.py: "Reapply the exact golden patch": a golden patch that applies
\* to its base commit applies whenever the evaluation applies it again.
GoldenPatchReapplies ==
    \A w \in Workers : \A i \in Instances :
        file[w] # None /\ file[w][i] # None => file[w][i].patches
=============================================================================

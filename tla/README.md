# TLA+ models of BRT6

BRT6 generates bug-reproducing tests: for every benchmark instance a language
model writes and repairs candidate tests, the candidates run in Docker
containers, and a selected test is evaluated later. The text of prompts, tests
and patches is not modelled. What is modelled is the machinery around it, where
an experiment of several days can go wrong without anybody noticing: resuming
after a crash, pausing when the model service fails, sharing endpoints,
containers and environments between processes, choosing among the rounds and
seeds that were tried, deciding whether a run may be evaluated, and evaluating
it.

Line numbers below and in `PROJECT.json` are those of `src/`.

## 1. Inventory

| part | state it keeps | operations | interacts with |
|---|---|---|---|
| full-run script, `scripts/run_p0_simple_llm_selector_full.sh`, `core/run_gate.py` | stage, `generation_gate.json` | issue rewrite in up to three passes, generation, gate, evaluation | exit status and files of the drivers |
| issue rewrite, `pipeline/run_issue_rewrite.py`, `issue/issue_rewriter.py` | `behavior_target.json`, `target_complete.json` | one target per instance | client, journal, ledger |
| behavior target cache, `core/behavior_target_cache.py` | frozen targets, manifest | freeze, validate, load | takes the place of the rewrite stage |
| batch driver, `pipeline/run.py` | per instance `summary.json`, `.running`, `api_pause.json`; `api_paused.json`, exit status; pause event | `main`, `_run_one`, `_run_one_impl`, `pause_status` | thread pool; starts runtime, client and journal of an instance |
| feedback loop, `execution/feedback.py`, `delta_loop.py` | worktree, execution and verdict in hand, checkpoints, files of three seeds and two routes | repair rounds, step back, ranking, Top-3 controller, direct fallback, export | journal, client, executor, verifiers |
| verification, `validation/` | none | strict verifier's programmatic verdict, repair stage, rank key | feedback loop |
| candidate execution, `execution/executor.py`, `patch_utils.py` | git worktree, process tree | prepare, run with timeout, classify, reset | Docker runtime |
| step journal, `runtime/step_journal.py` | `.resume/<name>/current.json`, numbered step files, `complete.json`, `.resume/implementation.json`; a cursor per process | open a session, `step` (replay, or archive the stale suffix, execute and save), `completed`, `finish` | every external call of the pipeline goes through `step` |
| model-service client, `llm/llm_client.py`, `api_pool.py`, `errors.py` | class-wide round-robin index and disabled endpoints; per client endpoint and unsupported options | `chat`, `ensure_available`, `_rotate_api` | raises the exceptions that pause the driver |
| cost ledger, `llm/cost_tracking.py` | append-only JSON lines under a flock, summary | `start`, `finish`, summary | client |
| container registry, `runtime/official_container_registry.py` | one JSON file under a flock; one flock per instance | `lookup`, `resolve`, `confirm` | Docker |
| official Docker runtime, `runtime/official_docker_runtime.py`, `scripts/official_generation_container.py` | lifecycle file per output directory; running containers | `start` (a helper process), `execute`, `close`, cleanup of failed startups | registry, Docker, instance lock |
| formal evaluation, `evaluation/direct_eval.py`, `scripts/run_formal_eval_after_generation.py` | `worker_*/results.json`, `merged_results.json`, `metrics.json`; checkouts; fail-fast counters | buckets, evaluate, stop early, merge, summarise | gold tests, Conda environments |
| Conda environments, `retrieval/icore_runtime.py`, `runtime/conda_env_manager.py` | templates, clones, identity and lifecycle files, locks | create, repair, remove, clone, resolve | evaluation (generation may not use them any more) |
| official evaluation, `scripts/run_official_eval_after_generation.py`, `evaluation/swtbench_runtime_compat.py`, vendored SWT-Bench | benchmark workspace, reports | run the benchmarks' own harnesses | Docker |

The rest (prompts, retrieval, issue parsing, exports, bootstrap scripts, the
ablation copy of the package) is text processing or operations; `PROJECT.json`
lists it with the reason.

What is hard here: processes are killed at any time and started again on the
same directory; workers share the pause event, the endpoint pool, the Docker
daemon, the Conda environments and the counters of fail-fast; several files
record one fact (`summary.json`, `complete.json`, `api_paused.json`, exit
status) and are written one after the other; files outlive the revision of the
code that wrote them; helper processes outlive the workers that hold their lock.
`PROJECT.json` lists every such hazard at its line, with the property that
watches it.

What makes each part correct:

- journal: a step is replayed only into the past it was recorded in; a finished
  step is not repeated; resuming completes, or comes to a status that `finish()`
  declines.
- driver: no finished result is lost or repeated under one revision; success is
  reported only when everything is settled; a pause is always visible.
- script: nothing unsettled or paused is evaluated; the generation reads no stale
  target without a reason.
- issue rewrite and cache: no target is asked for twice under one revision; what
  is read from a validated cache is what was frozen.
- ledger: no total is stated that leaves a request out.
- feedback loop: candidate, file, execution and verdict in hand belong together;
  the best of the rounds is exported, whole; an export comes from this revision.
- client: only an exhausted account pauses the run or costs the process an
  endpoint; a chat that gives up has tried everything; requests are bounded.
- registry and runtime: one owner per container, nobody else touches a container
  in use, a cleanup removes nothing of another instance, starts succeed again.
- Conda environments: a test runs in a clone that is whole, starts clean and meets
  its contract as far as the code can tell; no failed build blocks a name; requests
  end.
- evaluation: verdicts come from the right checkouts; what is published counts
  what was evaluated; resuming loses nothing; invocations end.

## 2. Plan

Done: (1) `StepJournal` with `ReplayLog`, (2) `PipelineRun`, (3) `FullRun`,
(4) `LLMPool`, (5) `ContainerRegistry` and `OfficialRuntime`,
(6) `CandidateVerdict`, `RepairLoop` with `BestOfRounds`, and `SeedController`,
(7) `CostLedger` and `IssueRewrite`, (8) `InstanceEvaluation` and `DirectEval`,
(9) `CondaEnvironments`; proofs of the safety properties of all of them.

Left, most important first:

1. What a killed worker leaves of the theorems about `OfficialRuntime`: while the
   harness does not change, TLC finds no container used twice.
2. The process tree and the worktree of candidate execution.
3. The benchmarks' own harnesses under `run_official_eval_after_generation.py`;
   section 6 lists what reading them showed.

## 3. Modules

### StepJournal, ReplayLog (`runtime/step_journal.py`)

`StepJournal` is one journal of one process, over the files on disk. A pipeline
is abstracted to the sequence of requests it makes, each a function of the
answers before it (or arbitrary, by constant). Actions follow the code's file
operations: `Open`, `Replay`, `Miss`, `Archive` (one file at a time), `Unlink`
of `complete.json`, `Execute`, `Save`, `Raise`, `Finish`, `Decline`, `Crash`. What
`finish()` declines (`SETUP_ERROR`, `TIMEOUT`, `ENV_UNRESOLVED`, `ERROR`) is a
function of the answers the pipeline was told, `Declines`, and no fault: a recorded
setup error is reusable, so every resume replays it and ends in the same way. Each
entry
carries, as a history variable, the answers that preceded it, so that "replayed
into the past it was recorded in" can be said. `ReplayLog` is the abstract
promise: a list of answered requests of which a run keeps a prefix.

### PipelineRun (`pipeline/run.py`, `pause_status`)

One invocation at a time over what earlier ones left on disk. `pc[i]` is where
the worker of an instance is; `row[i]` is what `_run_one` will return. The
pipeline inside a worker is one step with every outcome the code has:
`Conclude`, `Decline` (results `finish()` does not record), `Fail` (an exception),
`ServiceFails`, `CheckpointFails`, `InfrastructureFails`. The order of the
`finally` clause and the handlers is that of the code: `Unmark`, then `Block` or
`Pause` and `Note`. A handler that cannot write its file is `HandlerFails`.
`Decline` and `Fail` may happen in every invocation for ever, since a recorded
answer brings them back; what the bound on faults limits is pauses, refusals,
failed files, exceptions outside the pipeline's handler (`Escape`) and kills.
`ExitStatus` is the end of `main()`.

### FullRun (the generation stage of the full script)

Extends `PipelineRun` with the script's stage: `Generate`, `Drive`, `Stop` on
75 or `api_paused.json`, `Gate` with `formal_evaluation_allowed`, `Relaunch` by
the operator. `AllowIncomplete` is the value the gate's Python reads.

### CostLedger, IssueRewrite (the rewrite stage)

`CostLedger` is the request ledger: rows appended under a lock, a line that may
be torn by a kill and then glued to the next one (`Extended`, `Damaged`), rows
that could not be written at all, and the total with its claim to be complete
(`TotalKnown`). `IssueRewrite` extends it with the stage: a thread pool with one
pause event, per instance a chat of at most `Chats` questions over the step
journal (`Replay`, `Request`, `Answer`, `NoAnswer`, `Record`), then `Save` of the
target and `Settle` of `target_complete.json`; the script's passes (`StartPass`,
`Judge`), which count files; the generation's reads (`Load`); and an operator who
freezes targets into a cache (`Freeze`, `Copy`, `Seal`) beside runs that use one
(`LaunchWithCache`). Freezing happens while the stage does not write (`Quiet`);
two freezers at once and a second currency in the ledger are left out.

### CandidateVerdict, RepairLoop, BestOfRounds (one seed's pipeline)

`CandidateVerdict` has definitions only: how the executor reads a log
(`Classify`), the strict verifier's gate (`Judged`, `Verdicts`), the repair stage
and residual depth, the rank key and its order, and the final status. A log is
the set of marks the code searches for; the model's opinion is any combination of
the answers the code distinguishes. `RepairLoop` is the loop over rounds:
`Adapt`, `Execute` (with the reuse of a KEEP round), `Judge` (checkpoint, best
round, step back), `GiveUp`, `Again`, `Mutate`, `Conclude`, and `Pause`, `Resume`,
`Break`. Candidate, worktree file, execution and verdict are separate variables,
since keeping them in line is what the code has to get right. `BestOfRounds` is
the promise: the best of all rounds tried is published, once.

### SeedController (the adaptive Top-3 controller)

Seeds run in order on the target-guided route, and again on the direct one when
none was accepted (`Fallback`); `SelectDirect` and `Select` choose by semantic
consensus, then by hard key, and copy one seed's files. The directories are the
state: they outlive the revision that wrote them, and `Copied` and
`CopiedIfMissing` are the two ways the code copies. A seed's pipeline is one step
that leaves any single-round checkpoint `CandidateVerdict` can rank, or an error.

### LLMPool (`llm/llm_client.py`)

Clients share `index` and `disabled`. A chat is `Ask` (first
`ensure_available()` and the payload), `Check` (the one in the loop, and the
request), an answer or one of the error branches (`Exhaust`, `Fail`, `Reject`,
`RejectOption`, `Truncate`), then `Retry` or `GiveUp`. Endpoints stand for their
hosts. `Patience` says whether a chat may have `retry_transient`: with
`BRT_RETRY_TRANSIENT_API` chats without an `attempt_limit` do and others do not.
Waiting times are left out: a wait is a step that is not taken yet.

### ContainerRegistry, OfficialRuntime

`ContainerRegistry` has the decisions of `resolve()` and `confirm()` over the
registry entries and the existing containers. `OfficialRuntime` adds workers
(with the instance lock) and helper processes: `Take`, `Identify`,
`ResolveName`, `Wake` or `Create`, `Checked`, `Conclude`, `Use`, `Close`, and
everything that fails in between. A resolved name and the lifecycle file that
lists it before the first attempt to create it are one step: a helper killed
between the two has created nothing. Container identities are recycled numbers,
so a container that was replaced under the same name is told apart.

### CondaEnvironments (`icore_runtime.py`, `conda_env_manager.py`)

An environment is absent or has the contract its packages meet ("mixed", "partial"
and "other" when they meet none) and a flag for a project installed in it.
Templates are shared: `Build`, `Repair`, `Condemn`, `RemoveTemplate` and their
failures happen under the template's "prepare" lock, with the lifecycle file
written when the code writes it. Clones are made with no lock on the template, so
`Change` marks everybody who is cloning it. A template under another name is found
good (`ReuseSeed`) and called ready (`AcceptSeed`) with no lock on it. A template
is held against `dependency_install_spec` (`icore_runtime.py:791`), which adds
requirements and packages of the setup script; a clone is restored and checked
against the raw `spec.install` (`direct_eval.py:2513`, `feedback.py:1385`).
`Explicit` are the contracts for which the two agree; for another one `Restored`
may leave what a torn copy had. `Evaluate` and `TakeRuntime` are the evaluator's
two resolutions around its "runtime" lock.

### InstanceEvaluation, DirectEval (`evaluation/direct_eval.py`)

`InstanceEvaluation` is `evaluate_one` as a function of the checkout it finds
(the set of what it holds beyond the base commit) and of what fails on the way:
`Status`, `Sound` (whether both verdicts came from the checkouts they claim), and
what the checkout is `Left` like, also when interrupted (`Midway`). `DirectEval`
is `main` and `run_bucket`: buckets by repository, workers that skip what is on
file, wait for an environment, evaluate, count environment errors and save;
`Merge`, `Publish` and the script's `Summarise`; `Kill`, `Except`, `Raise` and
repeated invocations. A call may pass `--resume` or not, as
`run_formal_eval_after_generation.py:226-227` hands it on: `run_formal_eval.sh`
does, the recovery and canary scripts and a command line may not.

## 4. Runs

Each run asks one question of a composed system and ends in little more than two
minutes on two workers of TLC. The last one is expected to be violated: it states what a
comment of the repository says and the code does not do.

| run | instance | shows |
|---|---|---|
| `journal_any` | 3 positions, a pipeline that may ask anything, 2 faults | `OneHistory`, `SamePast`, `CompleteAgrees`; the files implement `ReplayLog` |
| `journal_resume` | a pipeline that is a function of what it was told, 2 identities that come back, answers that `finish()` declines, archiving may fail, 1 fault, fair | `NoRework`, `ResumeCompletes` |
| `full_all` | driver and script, 2 instances, 2 workers, 2 revisions, 2 faults, fair | `LateBounded`, `ZeroMeansDone`, `PauseReported`, `CompletedSafe` of the driver; `EvaluatesSettledRun`, `OldTestsExplained`, `ResumeDrains`, `EvaluationReached` of the script |
| `rewrite_any` | 2 instances, workers, questions, passes and revisions, 4 requests, 1 fault | `TotalComplete`, `OldTargetsExplained`, `CacheAsFrozen`, `TargetsNotResampled` |
| `repair_any` | 3 rounds, 1 pause or failure | `EvidenceMatches`, `PublishedWhole`; the loop implements `BestOfRounds` |
| `seeds_any` | 3 seeds, both routes, 2 revisions, 1 pause or failure | `ExportOfThisRun`, `FallbackExhaustive` |
| `llm_all` | 2 clients, 2 endpoints, patient and impatient chats, 2 troubles, fair | `PauseJustified`, `RequestsBounded`, `FailureThorough`, `ChatEnds` |
| `runtime_any` | 2 workers, 2 helpers, 2 instances of one image, a registry of either age, 2 addresses, helpers that fail early or late, no rebuilt images, 2 faults | `NeverShared`, `OwnershipExclusive`, `InUseUndisturbed`, `CleanupSparesOthers` |
| `runtime_live` | 1 worker, killed again and again, 2 helpers, early failures, images rebuilt or not while the harness changes, 1 fault, fair | `StartsSucceed` |
| `conda_any` | 2 processes, each twice, 2 contracts of which one is explicit, every beginning of three templates, 2 faults | `CloneFaithful`, `NeverBlocked`, `RequestsEnd` |
| `eval_any` | 3 instances of 2 repositories, 2 workers, 2 invocations, 1 fault | `FreshCountsItself`, `ValidMeansHealthy`, `VerdictsSound`, `ResumeLosesNothing`, `EvaluationEnds` |
| `eval_reapply` | 1 instance whose golden patch creates files and changes the build | `GoldenPatchReapplies` violated |

The properties carry their exceptions where the code has them, and their comments
name them: `TotalComplete` excepts requests whose "started" row could not be
written, `OldTargetsExplained` and `OldTestsExplained` name the failure that
explains an old file, `FreshCountsItself` speaks of calls without `--resume`.
`ResumeCompletes` and `ResumeDrains` admit that a pipeline comes to a status
`finish()` declines, again in every run; `EvaluationReached` counts such a result as
settled, as the gate does, and excepts an experiment in which launch after launch
some pipeline ends in an exception, or some worktree that has no test yet cannot be
set up. `CloneFaithful` demands the contract of a clone only where `pip_packages`
spell it out. `CleanupSparesOthers` is about containers that belong to another
instance (`Foreign`: registered, and first for another one), in the case too where the lifecycle file read is that of an earlier startup.

Bounds. `journal_any` has one identity; that a session which an earlier identity
comes back to is that identity's own is checked in `journal_resume` only through
`NoRework`, and proved for any number (`SessionsKeepIdentity`). Two instances of
one image and two workers are enough for every conflict in the registry: each
decision compares one instance with one owner. Two instances and two workers in
the driver are the least for one worker to be past the check when the other sets
the event; that no more pipelines start late than workers had passed it
(`LateBounded`, over the history variable `checked`) is proved for every number of
both. Two faults combine any two failures (a pause and a crash, a pause and a
handler that cannot write); a third only repeats them. Two endpoints, either of
which the other client may disable or rotate to, are the least for which "every
endpoint was tried" is not "this one was". Three rounds are the least for which
the best round is neither the first nor the last and a step back is followed by a
round that may tie with it; the code's budget is one to ten. Two questions are the
least for which a rewrite is resumed in the middle of its chat, and two revisions
for which a stale file can stand in. In the evaluation two instances share a
repository, so that a checkout is used twice, and the two workers of the first
invocation may be one in the second. Three templates give a canonical name, one
made under another name and one left over; two contracts make them incompatible
with somebody. All bounds are constants named `Max...`, `Rounds`, `Passes`,
`Chats`, `NumSeeds`, `Helpers`, `Clients` or `Doublings` and appear in the guards.

Fairness. Threads, helper processes and the script are scheduled (weak fairness
of each one's own steps: `FairSpec` of `StepJournal`, `LLMPool` and
`OfficialRuntime`, `FairFullSpec`, the `Spec` of `DirectEval` and
`CondaEnvironments`); a request is answered or times out, since every request has
a timeout, and so do the subprocesses of the evaluation and of Conda; the
operator starts a stopped experiment again. Locks are awaited without a queue,
but nobody takes one for ever: runs are bounded, so weak fairness is enough. No
fairness is assumed of failures, kills or the model service's good will: the
bounds on faults say that failures stop. `RepairLoop`, `SeedController` and
`IssueRewrite` assume none: their properties are about safety.

## 5. Proofs

Eight modules. All results hold for every value of the constants that satisfies
the named assumptions of the modules, which TLC evaluates in the runs:
`ConstantsAssumption`, `PoolAssumption`, `GateAssumption`, `ClientAssumption`,
`LedgerAssumption`, `RewriteAssumption`, `RegistryAssumption`,
`RuntimeAssumption`, `VerdictAssumption`, `LoopAssumption`,
`ControllerAssumption`, `NothingAssumption`, `EvalAssumption`,
`BucketsAssumption`; `ValuesApart`, `NamesApart`, `JobsTyped`, `BeginningsWhole`.
Where a theorem assumes more, that is said below, with the reason.

Every safety invariant and every action property of the passing runs, and both
refinements, are theorems; `PROJECT.json` says which theorem states which.

`StepJournalProofs`, for any pipeline:

- `TypeCorrect`: `Spec => []TypeOK`.
- `SessionsKeepIdentity`: `Spec => []OwnIdentity`, whatever archiving does.
- `PastPreserved` and `FilesTellOneHistory`: `[]SamePast`, `[]OneHistory`.
  `SamePast` speaks of the file at the cursor only, which is not inductive: the
  invariant used (`PastInv`) says it of every file that may still be reached,
  that the cursor has been told what the files before it say, and where a gap may
  be while a suffix is archived.
- `CompleteIsSound`: `[]CompleteAgrees`; `complete.json` is gone before a step is
  executed, and is written from what the run has seen.
- `JournalImplementsLog`: the files implement `ReplayLog`. A miss, the archiving,
  the removal of `complete.json` and the execution stutter; saving appends to the
  kept prefix.
- `FinishedWorkStays`: `NoRework`, for a pipeline whose requests are a function of
  what it was told (`Deterministic`). That is needed: one that asks something else
  at a position archives what was there. Archiving may fail here: a prefix
  without gaps is still read from its beginning.

`PastPreserved`, `FilesTellOneHistory`, `CompleteIsSound` and
`JournalImplementsLog` assume `~ArchiveMayFail`: after a failed rename the rest of
a stale suffix stays and the next step may replay it (section 6).

`FullRunProofs`, for any number of instances, workers, revisions and faults. Of
the driver:

- `TypeCorrect`, and `CompletedPreserved`: `Spec => CompletedSafe`.
- `SuccessIsSettled` and `PausesReported`: `[]ZeroMeansDone`, `[]PauseReported`.
  Both speak of a finished invocation. The invariant `DriverInv` says what holds
  before: which files a worker has written when it is at a given step with a
  given row (`JobsOK`), that no worker outlives an invocation (`IdleOK`), and
  that the pause event always has a trace, a worker about to note it or one that
  has (`EventOK`).
- `LateStartsBounded`: `[]LateBounded`. That a late pipeline is one of those that
  had passed the check when the event was set is not inductive; the invariant
  (`LateOK`) also says that nobody passes the check afterwards, and counts who had.
- `FilesOK`, an invariant for the script: the test on disk is of the revision of
  a summary that is a result.

Of the script: `RunsDriver` shows that it implements the driver's `Spec` (its
other steps leave the driver's variables alone), so the theorems above hold of
it. With the invariant that the driver runs in the generation stage only and that
the evaluated run passed the gate (`StageOK`) follow `FullTypeCorrect`,
`SettledEvaluation`, `LaunchesPreserveCompleted` and, unless incomplete runs are
admitted, `NoPauseEvaluated` and `NoStrayTests`.

`LLMPoolProofs`, for any number of clients and endpoints:

- `TypeCorrect` and `RequestsAreBounded`: `[]TypeOK` and `[]RequestsBounded`, both
  from `CountInv`: the limit of a chat is raised only by giving up
  `stream_options`, which happens once, and an attempt under way is below it.
  The type of the attempt counter itself depends on this, so the two are proved
  together. That the chosen endpoint exists is a well-founded argument over the
  distance from the index (`PickMember`).
- `PausesAreJustified`: `[]PauseJustified`, with the strengthening that a chat
  which remembers a quota error has an endpoint disabled (`PauseInv`).
- `FailuresAreThorough`: `[]FailureThorough`. The invariant (`Covered`) weighs the
  endpoints a chat has not tried and could use against the attempts it has left,
  at each point of the loop; an endpoint that another client disables counts for
  the chat, one that was about to be asked counts as tried.

`FeedbackProofs`. About `RepairLoop`, for any target, candidates, outcomes,
opinions, number of rounds (up to ten) and faults:

- `LoopTypeCorrect`; `EvidenceIsOfTheCandidate`: `[]EvidenceMatches`, of reused and
  restored executions too (`InHand`); `PublicationIsWhole`: `[]PublishedWhole`.
- `TheBestIsPublished`: the loop implements `BestOfRounds`. It rests on lemmas
  about the rank key: `Above` is a strict total order of keys (the first
  coordinate where two keys differ exists by a well-founded argument), the key
  tells the verdict and the round, so that two rounds never tie, and the best
  round kept is above all checkpoints (`BestKept`).

About `SeedController`, for any revisions and failures:

- `ControllerTypeCorrect`; `ExportsAreOfThisRun`: `[]ExportOfThisRun`;
  `FallbackIsTheLastResort`: `[]FallbackExhaustive`.
- The directories may hold the files of any earlier revision. What is invariant is
  that an attempt is what its directory says, and that one without an error has
  filled its directory itself (`FromTheirFiles`); that the direct route ran for
  want of an accepted attempt (`Justified`); and what each selection copied
  (`OfOneSeed`, `Settled`). That there is something to select follows from the
  preference being total and transitive (`PreferredTotal`, `PreferredChains`).

`IssueRewriteProofs`, for any number of instances, workers, questions, passes,
revisions and faults:

- `TypeCorrect`, of the stage, the cache and the ledger.
- `TotalsComplete`: `[]TotalComplete`. The invariant (`Remembered`) says that every
  request sent has a readable row, or is known not to have one, or the ledger has
  an unreadable line, which is what forbids a total.
- `AnswersKept`: `TargetsNotResampled`. What a rewrite has been told is a prefix of
  what the journal recorded, all of it unusable while questions are left (`Tell`);
  so it cannot reach the end of a record that has a target and ask again.
- `OldTargetsHaveReasons` and `CachesFixed`: `[]OldTargetsExplained` and
  `[]CacheAsFrozen`, from what a row says of the files (`RowsExplain`) and from the
  fact that a sealed manifest is what the cache holds, and that nobody copies into
  a sealed cache (`CacheKept`).

`OfficialRuntimeProofs`, for any workers, helpers, instances, images, retries and
a registry of either age, if no worker is killed (`~Deaths`):

- `TypeCorrect`; `ContainersAreExclusive`: `[]NeverShared`; `OwnersStay`:
  `OwnershipExclusive`; `UsersAreUndisturbed`: `InUseUndisturbed`, if also
  `~EarlyFailure`; and `CleanupSpares`: `CleanupSparesOthers`, whether helpers fail
  early or not, if images are not rebuilt (`Rebuilds = {FALSE}`).
- `NeverShared` is about two workers; the invariant `Inv` is about everything
  before: workers and helpers belong together one to one and to one instance
  (`Locks`); the name a helper asks for is of an image at least as new as the
  registered one (`Asking`); a name made for one instance is registered for no
  other (`Scoped`); after `resolve()` the instance is the first owner of its name
  (`Working`); a lifecycle file of this startup lists only a container the startup
  made (`Listed`).
- `CleanupSpares` needs more, since the file a cleanup reads may be an earlier
  startup's: what any lifecycle file of an instance lists is still the container
  registered for it, of which it is the first owner (`Remembered`). `resolve()` made
  it so (`ResolveRemembers`), and a helper that does not rebuild asks for the
  registered container (`IdentifyRemembers`).
- The hypotheses are needed, as TLC finds within the same model. With `Deaths` and
  two versions of the harness an orphaned helper registers the old container
  again, and another instance gets the one in use. With `EarlyFailure`, rebuilt images
  and two versions of the harness a cleanup by the list of an earlier startup removes
  a container that belongs to another instance by now, and with three workers may be
  in use for it.

`CondaEnvironmentsProofs`, for any number of processes, templates and issues:

- `TypeCorrect`; `CleanClones`: `[]CloneFaithful`; `HandOutsFit`: a template handed
  out under its own lock fits when it is; and `NamesRecover`: `[]NeverBlocked`, if no
  two processes work on the same issue (`IssuesApart`). The lifecycle file is one per
  template and issue: a second process of the issue could call the template ready
  while the first builds it (section 6).
- The "prepare" lock makes every template the work of one process (`Exclusive`),
  so what the process left there is there at its next step (`AtWork`); a clone's
  name is its owner's alone, so it is as its owner made it (`CloneOK`). The proof
  separates what a step does to its own process (`Own`) from what it does to the
  others (`Footprint`, `Others`).
- Without a lock anybody may call a template ready (`AcceptSeed`), but only for its
  own issue: a template that is half built has a record of an issue nobody is about
  to overwrite (`Marked`).

`DirectEvalProofs`, for any instances, repositories, environments, patches,
workers, calls and happenings:

- `EvalTypeCorrect`, which includes that no invocation counts an instance twice:
  a worker's results of this invocation are of its own bucket (`InBuckets`).
- `VerdictsAreSound`: `[]VerdictsSound`. Every checkout is clear of what a golden
  patch adds when an evaluation begins, whatever happened to the last one
  (`Trees`), and from there the sequence of resets, builds and applications is
  followed case by case.
- `ResultsSurvive`: `ResumeLosesNothing`; a worker that resumes remembers all of its
  file before it writes it (`Resumed`).
- `ValidIsHealthy`: `[]ValidMeansHealthy`. The shared counter is the cardinality of
  what the workers' memories hold of this invocation, and in the end of what their
  files do (`CountsOwn`, `Saved`).
- `FreshIsItsOwn`: `[]FreshCountsItself`. Without `--resume` what a worker has done
  and has yet to do is its bucket (`Fresh`), so the files of the workers that ended
  hold all that was asked for, and nothing else.

`BucketsAssumption` says that the buckets share out exactly the instances asked
for. It is about constants only, but `Buckets` is a fold over a sorted list, and
what a fold computes for every input needs induction over data; TLC evaluates the
assumption for the calls of the runs.

Only model-checked: liveness (`ResumeCompletes`, `ChatEnds`, `ResumeDrains`,
`EvaluationReached`, `StartsSucceed`, `RequestsEnd`, `EvaluationEnds`), which is out
of the prover's reach, as are fairness and `ENABLED`; and what the sorting and
folding of `Buckets` computes. The type invariants `LoopTypeOK`,
`ControllerTypeOK`, `EvalTypeOK` and the `TypeOK` of `OfficialRuntime` belong to
no run; they are theorems.

## 6. Where code and documents disagree

`eval_reapply` refutes the comment at `direct_eval.py:2778`: between building and
running the fixed checkout the evaluator resets it with `git reset --hard`, which
keeps untracked files, and applies the golden patch again; a patch that creates a
file is then refused because of its own file, and the instance counts as a
failure of the generated test.

The following was read off the code while modelling. It has no run of its own;
where a model leaves the behaviour out, or a constant admits it, that is said.

Journal, driver and script

- A failed `mkdir` or rename while archiving (`step_journal.py:109-111`) is a plain
  `OSError`, which `seed_mutator.py:156` treats as an invalid planner answer; the
  next `step()` may replay the stale suffix that the comment at 103-104 says is
  archived first. `ArchiveMayFail` admits it; `SamePast` is checked and proved
  without.
- With `ALLOW_INCOMPLETE_FORMAL_EVAL=true` (`launch_semantic_delta_full.sh:238`) a
  pause whose files cannot be written (`step_journal.py:181-184`) is evaluated,
  where `docs/2026-09-18-实验降本与费用记录.md:26` says a paused run is not.
  `AllowIncomplete` admits it. The full script's own default at line 633 is not
  exported, so that the gate's Python does not see it.
- The script's rewrite passes cannot repair an instance whose answers were no
  JSON: the journal replays the same answers in every pass
  (`step_journal.py:101`, `issue_rewriter.py:206-247`, script 529-568).
- `recorded_dataclass_step` records a `SETUP_ERROR` as reusable
  (`step_journal.py:195-199`) and `finish()` writes no `complete.json` for it (141):
  every `--resume` replays the error, runs nothing and ends there again, however
  often the environment is repaired, until the revision changes. A test that always
  exceeds its timeout is executed again each time. Both are in the models.
- Two processes on one output directory share step files and cursors; nothing
  locks the journal (`step_journal.py:89`). A `.running` file of a killed process
  stays when its instance is skipped (`run.py:501`), and `summary.json` of the
  output directory survives an invocation that ends with an exception (790).

Feedback loop

- `feedback.py:1692-1696` says an accepted output of the first component is
  retained; the selection at 1767-1775 prefers semantic consensus to it.
- `feedback.py:1102-1106` says that a seed whose setup failed later must never tie
  with an executable one; the selection goes by semantic consensus and rank key,
  which ignore score and status. `delta_guard.py:152`
  says its telemetry never re-ranks a candidate; the rank key contains it.
- Stepping back restores the best ranked round, which may be at a shallower
  repair stage than the round that is undone.

Model service and ledger

- The last error of a chat alone decides whether the run is paused
  (`llm_client.py:559`): a quota error on the last attempt pauses it although
  another endpoint failed only transiently.
- An answer truncated at the output cap is given up at once
  (`llm_client.py:430`), where `2026-9-18-实验运行文档.md:38-39` says it is retried
  at the cap; exhausted retries raise `LLMRequestFailedError`, which pauses
  nothing, where `docs/2026-09-18-实验降本与费用记录.md:21` says `LLMUnavailableError`.
- `cost_tracking.py:3-4` says that missing billing data is unknown, never zero; a
  "started" row that cannot be written is only warned about
  (`llm_client.py:362-363`), and the total may still be called complete.
  `TotalComplete` excepts these requests.

Containers

- A helper that fails before it writes `PREPARING`
  (`official_generation_container.py:248-258`) leaves the lifecycle file of the
  previous startup, and `_cleanup_failed_startup` (`official_docker_runtime.py:418-435`)
  removes that one's container, where its docstring (418) says "Clean exact
  helper-owned objects". The container is the instance's own and is created anew, so it costs a setup and what commands left in it. `EarlyFailure` admits it,
  and both runs of this module have it.
- If the images are rebuilt too (`REBUILD`, which `README_RUN.md:149` keeps for
  diagnosis) while the harness changes, the stale file may name a stopped container
  that another instance has adopted since, and the cleanup removes it. TLC finds this
  with `Rebuilds = {TRUE}`, `MaxHarness = 2` after 26 steps; `runtime_any` is without.
- The helper of a killed worker lives on without the instance lock
  (`official_docker_runtime.py:105`) and removes the next worker's container
  (`official_generation_container.py:325`), where
  `docs/BRT6_CURRENT_IMPLEMENTATION_FLOW_DETAILED.md:625` says containers in use are
  safe. `Deaths` admits it; `runtime_live` shows that starts succeed nevertheless.
- In a registry with a duplicate entry `resolve()` lets the first owner keep the
  name (`official_container_registry.py:195`) and `confirm()` refuses it until
  every other owner has been resolved anew (286-299).
- With a killed worker and a harness that changes at the same time, the orphaned
  helper rewrites its entry from the older image and another instance may adopt
  the container in use.
- A command whose `docker exec` times out (`official_docker_runtime.py:757`) or
  whose worker is killed keeps running in the container, which the next start
  reuses. A persistent container whose checkout moved from the base commit fails
  every later start (`official_generation_container.py:340`), and one that was
  woken and then fails a check keeps running (384).

Conda environments

- The comment at `icore_runtime.py:839` calls a validated template immutable. It is
  repaired in place or removed by the next process with another contract, and a
  probe that times out condemns a healthy managed one (420-425, 884). A clone that
  fails twice leaves its half-made directory (387). All of it is in the model.
- The clone is restored against the raw `spec.install`, the template was made for
  `dependency_install_spec`: for a contract whose requirements are not in
  `pip_packages`, a clone that was torn by a repair of the template, or made of one
  that somebody changed to another contract, passes the check and the test runs in
  it. `CloneFaithful` says what is left: the right Python, nothing half built,
  nothing of an earlier attempt.
- `ensure_icore_environment` probes a seed and writes "ready" for it (820-843)
  without its lock. Two processes of the same issue, which the drivers never start,
  could lose the record of a killed build that way, and the name would be blocked.
- `ensure_icore_environment` refuses a foreign environment it must not touch and
  records "failed" for it (929-940); the record is what allows the next request to
  remove it (`conda_env_manager.py:903`). In the model (`Refuse`, `Recoverable`).

Evaluation

- `direct_eval.py:1674` speaks of the complete requested dataset; on a resumed
  directory the merged results may include instances that were not requested.
- Results that failed on the environment are not tried again by `--resume`;
  `merged_results.json` (3638) and `metrics.json` (3688) are two writes; a resume
  with another benchmark is refused only when `metrics.json` exists; exceptions
  between 2441 and 2608 end the run; two evaluators on one directory are not
  locked out of each other. All but the last are in the model.
- The official harness: `_stop_running_official_containers`
  (`run_official_eval_after_generation.py:92`, "created by this harness
  invocation") kills every evaluation container younger than its snapshot, also
  another invocation's, whose partial output is then graded. Naming instances
  with `--instance-id` (242, "targeted reevaluation") under a run id that has
  reports evaluates nothing and replaces the report by one of the named instances
  only (`dataset.py:116` of the vendored harness). `run_evaluation.py:212` returns
  an existing `test_output.txt` after writing the new patch beside it, so that a
  verdict may combine runs of two tests. A state that timed out is graded
  unresolved for good (`grading.py:69`). A launcher killed with -9 leaves its
  harness running on the same workspace, and `completion.json` may show an earlier
  invocation's metrics when the harness fails.

## 7. Not modelled

- Of the feedback loop: `generate_only`, the ablations without mutation, the
  issue2test verifier, `bounded_target_fallback` and `feedback_target_revision`.
- Of candidate execution: the process tree, its timeouts, the worktree's git
  commands, and the run inside a container.
- Of the Conda environments: setup scripts run in a session of their own
  (`executor.py:136-146`) and outlive a worker killed with -9, which loses its flock;
  `Kill` ends the script together with its worker, so a second process that repairs
  or rebuilds a template beside the orphan of the first is left out. So is a second
  process of the same issue.
- Of the official runtime: TDD containers and the storage preflight. Of the
  client: a single API key without a pool.
- Of the formal evaluation: coverage arithmetic and `--no_setup`. The official
  harness runs not at all, beyond the notes above.
- Context and retrieval, configuration and schema, operations scripts: text,
  tables and reports without shared state.
- The ablation copy of the package (about 19000 lines): the same code with small
  changes; where it is the same, the same models describe it.

Prompts, parsing, ranking heuristics over text, constants and vendored code are
data here. The modules map about 7100 lines of `src/`, some 15 % of the
implementation; the rest is mostly the ablation copy and the text processing
named above, where a state machine would have nothing to say.

## 8. Running

    tlc -workers 2 -config FullRun_all.cfg MCFullRun.tla
    tlc -workers 2 -config OfficialRuntime_any.cfg MCOfficialRuntime.tla
    tlapm StepJournalProofs.tla     # likewise the other *Proofs modules

The module a `.cfg` belongs to is listed with its run in `PROJECT.json`.

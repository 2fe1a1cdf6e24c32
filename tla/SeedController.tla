--------------------------- MODULE SeedController ---------------------------
(***************************************************************************)
(* The adaptive Top-3 controller of run_instance_pipeline (src/execution/   *)
(* feedback.py): the target-guided route runs every seed's pipeline, the    *)
(* direct route runs them again without a behavior target when none was     *)
(* accepted, and one seed's files are exported.                             *)
(*                                                                         *)
(* What a seed's pipeline leaves is any checkpoint RepairLoop can publish,  *)
(* of one round, or an ERROR beside whatever its directory held before: the *)
(* directories outlive the revision that wrote them, and only StepJournal's *)
(* records, not these files, are tied to a revision.                        *)
(***************************************************************************)
EXTENDS CandidateVerdict, FiniteSets

CONSTANTS
    NumSeeds,       \* ranked tests tried, at most 3
    TargetOf,       \* what each route judges against
    MaxRuns,        \* bound: revisions started on the output directory
    MaxFailures     \* bound: pauses and failures

ASSUME ControllerAssumption ==
    /\ NumSeeds \in 1 .. 3
    /\ MaxRuns \in Nat \ {0}
    /\ MaxFailures \in Nat

VARIABLES
    phase,
    run,            \* the revision at work
    seed,           \* the seed whose turn it is
    dirs,           \* seed_candidates/seed_<i> of both routes
    attempts,       \* attempts, per route, of this run
    out,            \* the route's own directory: output_dir, direct_fallback
    halted,         \* where a paused run continues
    failures

controllerVars == <<phase, run, seed, dirs, attempts, out, halted, failures>>

Routes == {"target", "direct"}
Seeds  == 0 .. NumSeeds - 1
Empty  == [status |-> None, run |-> 0, ranking |-> None, test |-> None]
Selecting == [target |-> "select_target", direct |-> "select_direct"]
ControllerSteps == {"prepare", "target", "direct", "select_direct", "select_target"}

\* What the pipelines of a route can publish, as the controller reads it.
Results == [route \in Routes |->
    LET t == TargetOf[route] IN
    UNION { UNION { { [status |-> FinalStatus(e, v), ranking |-> Checkpoint(t, c, e, v, 0)] :
                        v \in Verdicts(t, c, e, Opinions) } :
                    e \in IF c.sound THEN {Executed(t, c, o) : o \in Outcomes}
                          ELSE {StaticFailure(c)} } : c \in Codes }]

\* None is neither a ranking nor a test.
ASSUME NothingAssumption ==
    /\ \A route \in Routes : \A r \in Results[route] : r.ranking # None
    /\ None \notin [run : 1 .. MaxRuns, route : Routes, seed : Seeds]

ControllerInit ==
    /\ phase = "prepare" /\ run = 1 /\ seed = 0
    /\ dirs = [i \in Routes \X Seeds |-> Empty]
    /\ attempts = [r \in Routes |-> {}]
    /\ out = [r \in Routes |-> Empty]
    /\ halted = None /\ failures = 0

Failure == failures < MaxFailures /\ failures' = failures + 1

\* prepare_instance_worktree succeeds; every seed uses the one worktree.
Prepare ==
    /\ phase = "prepare"
    /\ phase' = "target" /\ seed' = 0
    /\ UNCHANGED <<run, dirs, attempts, out, halted, failures>>

\* A summary with another status is written over the old one; no file is removed.
Stated(d, status) == [d EXCEPT !.status = status, !.run = run]

\* It does not.
PrepareFails ==
    /\ phase = "prepare"
    /\ Failure
    /\ out' = [out EXCEPT !["target"] = Stated(@, "SETUP_ERROR")]
    /\ phase' = "done"
    /\ UNCHANGED <<run, seed, dirs, attempts, halted>>

Test(route) == [run |-> run, route |-> route, seed |-> seed]

LastSeed(route) == seed = NumSeeds - 1

\* The pipeline of this seed returned: its directory is read back.
Returned(route, dir) ==
    /\ phase = route
    /\ dirs' = [dirs EXCEPT ![<<route, seed>>] = dir]
    /\ attempts' = [attempts EXCEPT ![route] = @ \cup
                      {[seed |-> seed, status |-> dir.status, ranking |-> dir.ranking]}]
    /\ IF LastSeed(route)
       THEN phase' = Selecting[route] /\ UNCHANGED seed
       ELSE seed' = seed + 1 /\ UNCHANGED phase

SeedEnds(route) ==
    /\ \E r \in Results[route] :
          Returned(route, [status |-> r.status, run |-> run, ranking |-> r.ranking,
                           test |-> Test(route)])
    /\ UNCHANGED <<run, out, halted, failures>>

\* It failed before, between or after it wrote the ranking and the test.
SeedFails(route) ==
    /\ Failure
    /\ LET old == dirs[<<route, seed>>]
       IN  \/ Returned(route, Stated(old, "ERROR"))
           \/ \E r \in Results[route] : \E f \in {old.test, Test(route)} :
                 Returned(route, Stated([old EXCEPT !.ranking = r.ranking, !.test = f], "ERROR"))
    /\ UNCHANGED <<run, out, halted>>

-----------------------------------------------------------------------------
\* _should_run_direct_fallback asks whether any of these is there.
AcceptedAttempt(route) ==
    \E a \in attempts[route] :
        a.status = "ISSUE_ALIGNED_FAIL" /\ dirs[<<route, a.seed>>].test # None

\* Mutant: the direct route always has its turn.
EagerFallback ==
    /\ phase = "select_target"
    /\ attempts["direct"] = {}
    /\ phase' = "direct" /\ seed' = 0
    /\ UNCHANGED <<run, dirs, attempts, out, halted, failures>>

\* The target route is exhausted and the direct one has not run.
Fallback ==
    /\ phase = "select_target"
    /\ attempts["direct"] = {}
    /\ ~AcceptedAttempt("target")
    /\ phase' = "direct" /\ seed' = 0
    /\ UNCHANGED <<run, dirs, attempts, out, halted, failures>>

\* How many attempts state the same gap; an attempt without a ranking states none.
Consensus(a, all) ==
    IF a.ranking = None THEN 0
    ELSE Cardinality({b \in all : b.ranking # None /\ b.ranking.sign = a.ranking.sign})

Hard(a)  == IF a.ranking = None THEN 0 ELSE a.ranking.key[1]
KeyOf(a) == IF a.ranking = None THEN <<>> ELSE a.ranking.key

\* The key of the selection: eligibility, agreement, the checkpoint's key, order.
Preferred(a, b, all) ==
    \/ Hard(a) > Hard(b)
    \/ /\ Hard(a) = Hard(b)
       /\ \/ Consensus(a, all) > Consensus(b, all)
          \/ /\ Consensus(a, all) = Consensus(b, all)
             /\ Above(KeyOf(a), KeyOf(b)) \/ (KeyOf(a) = KeyOf(b) /\ a.seed < b.seed)

Chosen(all) == CHOOSE a \in all : \A b \in all \ {a} : Preferred(a, b, all)

\* Mutant: what is there already is not replaced.
CopiedIfMissing(from, to) ==
    [status |-> from.status, run |-> from.run, ranking |-> from.ranking,
     test |-> IF to.test = None THEN from.test ELSE to.test]

\* _copy_if_exists for each file: what the source lacks stays as it was.
Copied(from, to) ==
    [status |-> from.status, run |-> from.run,
     ranking |-> IF from.ranking = None THEN to.ranking ELSE from.ranking,
     test |-> IF from.test = None THEN to.test ELSE from.test]

\* The nested controller exports into direct_fallback.
SelectDirect ==
    /\ phase = "select_direct"
    /\ out' = [out EXCEPT !["direct"] =
                  Copied(dirs[<<"direct", Chosen(attempts["direct"]).seed>>], @)]
    /\ phase' = "select_target"
    /\ UNCHANGED <<run, seed, dirs, attempts, halted, failures>>

\* direct_fallback_used
FallbackUsed ==
    /\ attempts["direct"] # {}
    /\ out["direct"].run = run /\ out["direct"].status = "ISSUE_ALIGNED_FAIL"
    /\ out["direct"].test # None

RoutesDone == attempts["direct"] # {} \/ AcceptedAttempt("target")

Select ==
    /\ phase = "select_target"
    /\ RoutesDone
    /\ out' = [out EXCEPT !["target"] =
                  Copied(IF FallbackUsed THEN out["direct"]
                         ELSE dirs[<<"target", Chosen(attempts["target"]).seed>>], @)]
    /\ phase' = "done"
    /\ UNCHANGED <<run, seed, dirs, attempts, halted, failures>>

\* An exception in the controller itself, nested or not: the test may have been
\* copied already.
SelectFails(route) ==
    /\ phase = Selecting[route]
    /\ Failure
    /\ LET chosen == dirs[<<route, Chosen(attempts[route]).seed>>]
       IN  \E f \in {out[route], Copied(chosen, out[route])} :
              out' = [out EXCEPT ![route] = Stated(f, "ERROR")]
    /\ phase' = IF route = "direct" THEN "select_target" ELSE "done"
    /\ UNCHANGED <<run, seed, dirs, attempts, halted>>

-----------------------------------------------------------------------------
\* A model service or a container is gone: every level raises.
PauseRun ==
    /\ phase \in Routes
    /\ Failure
    /\ phase' = "paused" /\ halted' = phase
    /\ out' = [out EXCEPT !["target"] = Stated(@, "PAUSED_API")]
    /\ UNCHANGED <<run, seed, dirs, attempts>>

\* The same revision replays its journal up to the step that failed.
ResumeRun ==
    /\ phase = "paused"
    /\ phase' = halted /\ halted' = None
    /\ UNCHANGED <<run, seed, dirs, attempts, out, failures>>

\* A new revision starts over in the directories it finds.
Upgrade ==
    /\ phase \in {"paused", "done"}
    /\ run < MaxRuns
    /\ run' = run + 1
    /\ phase' = "prepare" /\ seed' = 0 /\ halted' = None
    /\ attempts' = [r \in Routes |-> {}]
    /\ UNCHANGED <<dirs, out, failures>>

Controller ==
    \/ Prepare \/ Fallback \/ SelectDirect \/ Select
    \/ \E route \in Routes : SeedEnds(route)

ControllerNext ==
    \/ Controller \/ PrepareFails \/ PauseRun \/ ResumeRun \/ Upgrade
    \/ \E route \in Routes : SeedFails(route) \/ SelectFails(route)

ControllerSpec == ControllerInit /\ [][ControllerNext]_controllerVars

-----------------------------------------------------------------------------
\* The values of the controller's variables.
ControllerTypeOK ==
    /\ phase \in ControllerSteps \cup {"paused", "done"}
    /\ run \in 1 .. MaxRuns
    /\ seed \in Seeds
    /\ \A r \in Routes : \A a, b \in attempts[r] : a.seed = b.seed => a = b
    /\ \A d \in {dirs[i] : i \in Routes \X Seeds} \cup {out[r] : r \in Routes} :
          /\ d.status \in SummaryStatuses \cup {None, "PAUSED_API"}
          /\ d.run <= run
    /\ failures \in 0 .. MaxFailures

Exported == out["target"]
\* Regularly: with a worktree and without an error.
Ended    == phase = "done" /\ attempts["target"] # {} /\ Exported.status # "ERROR"

\* What an instance reports without an error is this run's: the test, the
\* ranking and the status are those of one seed, whose pipeline ran in this
\* run, although every directory may hold files of an earlier revision.
ExportOfThisRun ==
    Ended =>
        /\ Exported.run = run /\ Exported.test.run = run
        /\ LET from == dirs[<<Exported.test.route, Exported.test.seed>>]
           IN  Exported = from

\* The direct route runs only when no target-guided seed was accepted, and a
\* test it accepted is then the one exported.
FallbackExhaustive ==
    /\ attempts["direct"] # {} => ~AcceptedAttempt("target")
    /\ Ended /\ attempts["direct"] # {} /\ out["direct"].status = "ISSUE_ALIGNED_FAIL"
         => Exported.test.route = "direct"

=============================================================================

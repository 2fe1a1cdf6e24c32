-------------------------- MODULE CondaEnvironments --------------------------
(***************************************************************************)
(* The Conda environments of the local backend                             *)
(* (retrieval/icore_runtime.py, runtime/conda_env_manager.py): dependency  *)
(* templates shared by all processes, and the clone each instance installs *)
(* its project in and removes again.                                       *)
(*                                                                         *)
(* A process first makes sure there is a template with its dependency      *)
(* contract (ensure_icore_environment, under the template's "prepare"      *)
(* flock), then clones it (ensure_isolated_runtime_environment, with no    *)
(* lock on the template), uses the clone and removes it.  The evaluator    *)
(* holds the "runtime" flock of the template it resolved all the while.    *)
(* The locks are those a process in that part of its work holds, so that a *)
(* killed process holds none.  A clone's name contains its workspace and   *)
(* template: no other process asks for it, and its lock is left out.       *)
(*                                                                         *)
(* An environment is Absent or [pins, dirty]: the contract its packages    *)
(* meet, or "mixed" (being or left half repaired), "partial" (being or     *)
(* left half built) or "other" (whole, of another Python); dirty once a    *)
(* project was installed in it.                                            *)
(***************************************************************************)
EXTENDS Naturals, Sequences

CONSTANTS Workers, Templates, Contracts, Issues,
          Jobs,       \* who does what: Workers -> [evaluates, contract,
                      \* issue, requested, seeds, records]
          Explicit,   \* contracts whose requirements are all in pip_packages
          Beginnings, \* what the templates and their identity files may be
          Canonical,  \* the names default_env_name gives a contract
          MaxRuns, MaxFaults,
          Absent, None

VARIABLES job,      \* what each process works on, over all its runs
          env,      \* the environments on disk
          claim,    \* identity.json of each: None, "runtime" or a contract
          life,     \* the lifecycle file of each template and issue
          pc, at,   \* each process, and the template it asks for, then has
          runtime,  \* the template whose "runtime" lock an evaluator wants
          retried,  \* the clone was tried a second time
          torn,     \* processes whose template changed under their clone
          runs, faults

vars == <<job, env, claim, life, pc, at, runtime, retried, torn, runs, faults>>
files == <<env, claim, life>>

Pins == Contracts \cup {"mixed", "partial", "other"}
Environment == [pins : Pins, dirty : BOOLEAN]
Claims == Contracts \cup {"runtime", None}
Job == [evaluates : BOOLEAN, contract : Contracts, issue : Issues,
        requested : Templates, seeds : Seq(Templates), records : Seq(Templates)]

ASSUME ValuesApart == /\ Contracts \cap {"mixed", "partial", "other"} = {}
                      /\ Absent \notin Environment
ASSUME NamesApart == Templates \cap (Workers \X Templates) = {}
ASSUME ExplicitContracts == Explicit \subseteq Contracts
ASSUME JobsTyped == Jobs \subseteq [Workers -> Job]
ASSUME BeginningsWhole == \A b \in Beginnings : \A t \in Templates :
    /\ b[t].env \in Environment \cup {Absent}
    /\ b[t].env # Absent => b[t].env.pins # "partial"
    /\ b[t].claim \in Claims

CloneOf(w, t) == <<w, t>>
Names == Templates \cup (Workers \X Templates)
Whole(pins) == [pins |-> pins, dirty |-> FALSE]
Partial == Whole("partial")

Present(n) == env[n] # Absent
Fits(n, c) == Present(n) /\ env[n].pins = c
(* dependency_env_compatibility: the Python is right, packages are not. *)
Repairable(n) == Present(n) /\ env[n].pins \in Contracts \cup {"mixed"}

Preparing == {"building", "validating", "repairing", "repaired",
              "condemned", "removed"}
PrepareFree(w) == \A u \in Workers : pc[u] \in Preparing => at[u] # at[w]
RuntimeFree(w) == \A u \in Workers : pc[u] \notin {"idle", "resolved"}
                                                => runtime[u] # runtime[w]

Recoverable(t) == \E i \in Issues :
    life[t][i] \in {"installing", "validating", "failed"}
Managed(t, c) == claim[t] # None \/ t \in Canonical[c]

(* dependency_seed_candidates and the test of each one found. *)
Acceptable(t, c) == Fits(t, c) /\ claim[t] \in {None, c}
SeedAt(j, k) == /\ Acceptable(j.seeds[k], j.contract)
                /\ \A m \in 1..k - 1 : ~Acceptable(j.seeds[m], j.contract)
NoSeed(j) == \A k \in DOMAIN j.seeds : ~Acceptable(j.seeds[k], j.contract)

(* resolve_eval_env: the first recorded environment there is, or the first *)
(* record.                                                                 *)
ResolvesTo(j, k) ==
    \/ Present(j.records[k]) /\ \A m \in 1..k - 1 : ~Present(j.records[m])
    \/ k = 1 /\ \A m \in DOMAIN j.records : ~Present(j.records[m])
-----------------------------------------------------------------------------
Init ==
    /\ job \in Jobs
    /\ \E b \in Beginnings :
         /\ env = [n \in Names |-> IF n \in Templates THEN b[n].env ELSE Absent]
         /\ claim = [n \in Names |-> IF n \in Templates THEN b[n].claim ELSE None]
    /\ life = [t \in Templates |-> [i \in Issues |-> None]]
    /\ pc = [w \in Workers |-> "idle"]
    /\ at = [w \in Workers |-> None]
    /\ runtime = [w \in Workers |-> None]
    /\ retried = {}
    /\ torn = {}
    /\ runs = [w \in Workers |-> 0]
    /\ faults = 0

Goto(w, label) == pc' = [pc EXCEPT ![w] = label]

(* The process is done, or dead. *)
Quit(w) ==
    /\ Goto(w, "idle")
    /\ at' = [at EXCEPT ![w] = None]
    /\ runtime' = [runtime EXCEPT ![w] = None]
    /\ retried' = retried \ {w}
    /\ torn' = torn \ {w}

Fault == faults < MaxFaults /\ faults' = faults + 1

Record(t, w, status) == life' = [life EXCEPT ![t][job[w].issue] = status]

(* A template changes: whoever is cloning it reads some of both. *)
Change(t, content) ==
    /\ env' = [env EXCEPT ![t] = content]
    /\ torn' = torn \cup {w \in Workers : pc[w] = "cloning" /\ at[w] = t}

Keep == UNCHANGED <<job, runs>>
Place == <<at, runtime, retried>>
-----------------------------------------------------------------------------
(* feedback.py asks for the explicit or the default name. *)
Generate(w) ==
    /\ pc[w] = "idle" /\ runs[w] < MaxRuns /\ ~job[w].evaluates
    /\ runs' = [runs EXCEPT ![w] = @ + 1]
    /\ at' = [at EXCEPT ![w] = job[w].requested]
    /\ Goto(w, "ask")
    /\ UNCHANGED <<job, files, runtime, retried, torn, faults>>

(* run_bucket resolves a name, waits for its lock, and evaluate_one         *)
(* resolves again.                                                         *)
Evaluate(w) ==
    /\ pc[w] = "idle" /\ runs[w] < MaxRuns /\ job[w].evaluates
    /\ runs' = [runs EXCEPT ![w] = @ + 1]
    /\ \E k \in DOMAIN job[w].records :
         /\ ResolvesTo(job[w], k)
         /\ runtime' = [runtime EXCEPT ![w] = job[w].records[k]]
    /\ Goto(w, "resolved")
    /\ UNCHANGED <<job, files, at, retried, torn, faults>>

TakeRuntime(w) ==
    /\ pc[w] = "resolved" /\ RuntimeFree(w)
    /\ \E k \in DOMAIN job[w].records :
         /\ ResolvesTo(job[w], k)
         /\ at' = [at EXCEPT ![w] = job[w].records[k]]
    /\ Goto(w, "ask")
    /\ Keep
    /\ UNCHANGED <<files, runtime, retried, torn, faults>>
-----------------------------------------------------------------------------
(* ensure_icore_environment.  It failed: the evaluator asks once more, for *)
(* the name it would have requested; anyone else gives the instance up.    *)
GiveUp(w) ==
    IF job[w].evaluates /\ at[w] # job[w].requested
    THEN /\ Goto(w, "ask")
         /\ at' = [at EXCEPT ![w] = job[w].requested]
         /\ UNCHANGED <<runtime, retried, torn>>
    ELSE Quit(w)

Asking(w) == pc[w] = "ask" /\ PrepareFree(w)

(* The name does not exist, but an environment of the same identity does.  *)
(* No lock is held on that one: it may change between the probe that finds *)
(* it good, whose answer may come from a cache, and ...                     *)
ReuseSeed(w) ==
    /\ Asking(w) /\ ~Present(at[w])
    /\ \E k \in DOMAIN job[w].seeds :
         /\ SeedAt(job[w], k)
         /\ at' = [at EXCEPT ![w] = job[w].seeds[k]]
    /\ Goto(w, "accepted")
    /\ Keep
    /\ UNCHANGED <<files, runtime, retried, torn, faults>>

(* ... the file that calls it ready.                                       *)
AcceptSeed(w) ==
    /\ pc[w] = "accepted"
    /\ Record(at[w], w, "ready")
    /\ Goto(w, "template")
    /\ Keep
    /\ UNCHANGED <<env, claim, Place, torn, faults>>

(* Mutant: the lifecycle file is written only once the script has ended.   *)
BuildUnannounced(w) ==
    /\ \/ Asking(w) /\ ~Present(at[w]) /\ NoSeed(job[w])
       \/ pc[w] = "removed"
    /\ Change(at[w], Partial)
    /\ Goto(w, "building")
    /\ Keep
    /\ UNCHANGED <<claim, life, Place, faults>>

(* The setup script runs: its lifecycle is on file before it starts. *)
Build(w) ==
    /\ \/ Asking(w) /\ ~Present(at[w]) /\ NoSeed(job[w])
       \/ pc[w] = "removed"
    /\ Record(at[w], w, "installing")
    /\ Change(at[w], Partial)
    /\ Goto(w, "building")
    /\ Keep
    /\ UNCHANGED <<claim, Place, faults>>

Built(w) ==
    /\ pc[w] = "building"
    /\ \E pins \in {job[w].contract, "mixed"} : Change(at[w], Whole(pins))
    /\ Record(at[w], w, "validating")
    /\ Goto(w, "validating")
    /\ Keep
    /\ UNCHANGED <<claim, Place, faults>>

(* What a script that stops early leaves: nothing, or an environment with  *)
(* or without its Python.                                                  *)
HalfBuilt(w) == \E left \in {Absent, Partial, Whole("mixed")} :
                    env' = [env EXCEPT ![at[w]] = left]

BuildFails(w) ==
    /\ pc[w] = "building"
    /\ Fault
    /\ HalfBuilt(w)
    /\ Record(at[w], w, "failed")
    /\ GiveUp(w)
    /\ Keep
    /\ UNCHANGED claim

(* Probed, repaired if need be, claimed, and published as ready. *)
Publish(w) ==
    /\ pc[w] = "validating"
    /\ Change(at[w], Whole(job[w].contract))
    /\ claim' = [claim EXCEPT ![at[w]] = job[w].contract]
    /\ Record(at[w], w, "ready")
    /\ Goto(w, "template")
    /\ Keep
    /\ UNCHANGED <<Place, faults>>

(* A probe or the repair failed; what was built stays. *)
ValidationFails(w) ==
    /\ pc[w] = "validating"
    /\ Fault
    /\ Record(at[w], w, "failed")
    /\ GiveUp(w)
    /\ Keep
    /\ UNCHANGED <<env, claim>>

(* The requested template is there and meets the contract. *)
Usable(w) == \/ Asking(w) /\ Fits(at[w], job[w].contract)
             \/ pc[w] = "repaired"

Reuse(w) ==
    /\ Usable(w)
    /\ Record(at[w], w, "ready")
    /\ Goto(w, "template")
    /\ Keep
    /\ UNCHANGED <<env, claim, Place, torn, faults>>

(* The compatibility is good but the health check fails. *)
Unhealthy(w) ==
    /\ Usable(w)
    /\ Fault
    /\ Record(at[w], w, "failed")
    /\ GiveUp(w)
    /\ Keep
    /\ UNCHANGED <<env, claim>>

(* Packages are uninstalled and installed again, in place. *)
Repair(w) ==
    /\ Asking(w) /\ Repairable(at[w]) /\ ~Fits(at[w], job[w].contract)
    /\ Change(at[w], [env[at[w]] EXCEPT !.pins = "mixed"])
    /\ Goto(w, "repairing")
    /\ Keep
    /\ UNCHANGED <<claim, life, Place, faults>>

Repaired(w) ==
    /\ pc[w] = "repairing" /\ Present(at[w])
    /\ Change(at[w], [env[at[w]] EXCEPT !.pins = job[w].contract])
    /\ Goto(w, "repaired")
    /\ Keep
    /\ UNCHANGED <<claim, life, Place, faults>>

RepairFails(w) ==
    /\ pc[w] = "repairing"
    /\ Fault
    /\ Goto(w, "condemned")
    /\ Keep
    /\ UNCHANGED <<files, Place, torn>>

(* No repair is possible; or the probe of a good template timed out, which *)
(* the repair's own probe does not undo: its answer "already compatible"   *)
(* has no "after".                                                         *)
Condemn(w) ==
    /\ Asking(w) /\ Present(at[w])
    /\ \/ ~Repairable(at[w]) /\ UNCHANGED faults
       \/ Fits(at[w], job[w].contract) /\ Fault
    /\ Goto(w, "condemned")
    /\ Keep
    /\ UNCHANGED <<files, Place, torn>>

RemoveTemplate(w) ==
    /\ pc[w] = "condemned"
    /\ Recoverable(at[w]) \/ Managed(at[w], job[w].contract)
    /\ \/ /\ Change(at[w], Absent)
          /\ Goto(w, "removed")
          /\ UNCHANGED <<life, Place, faults>>
       \/ /\ Fault
          /\ Record(at[w], w, "failed")
          /\ GiveUp(w)
          /\ UNCHANGED env
    /\ Keep
    /\ UNCHANGED claim

Refuse(w) ==
    /\ pc[w] = "condemned"
    /\ ~Recoverable(at[w]) /\ ~Managed(at[w], job[w].contract)
    /\ Record(at[w], w, "failed")
    /\ GiveUp(w)
    /\ Keep
    /\ UNCHANGED <<env, claim, faults>>
-----------------------------------------------------------------------------
(* ensure_isolated_runtime_environment.  It failed: generation removes the *)
(* clone when an identity file calls it one, the evaluator leaves it.      *)
Clone(w) == CloneOf(w, at[w])

Abandon(w, left) ==
    /\ env' = [env EXCEPT ![Clone(w)] =
                 IF ~job[w].evaluates /\ claim[Clone(w)] = "runtime"
                 THEN Absent ELSE left]
    /\ Quit(w)
    /\ Keep
    /\ UNCHANGED <<claim, life>>

NoTemplate(w) ==
    /\ pc[w] = "template"
    /\ ~Present(at[w]) \/ env[at[w]] = Partial
    /\ Abandon(w, env[Clone(w)])
    /\ UNCHANGED faults

(* Mutant: a clone left by an earlier run is taken over. *)
TakeOverClone(w) ==
    /\ pc[w] = "template" /\ Present(at[w]) /\ env[at[w]] # Partial
    /\ IF Present(Clone(w)) /\ claim[Clone(w)] = "runtime"
       THEN Goto(w, "restoring") /\ UNCHANGED env
       ELSE /\ env' = [env EXCEPT ![Clone(w)] = Partial]
            /\ Goto(w, "cloning")
    /\ Keep
    /\ UNCHANGED <<claim, life, Place, torn, faults>>

(* A clone left by an earlier run is removed first. *)
StartClone(w) ==
    /\ pc[w] = "template" /\ Present(at[w]) /\ env[at[w]] # Partial
    /\ \/ /\ env' = [env EXCEPT ![Clone(w)] = Partial]
          /\ Goto(w, "cloning")
          /\ Keep
          /\ UNCHANGED <<claim, life, Place, torn, faults>>
       \/ /\ Present(Clone(w)) /\ Fault
          /\ Abandon(w, env[Clone(w)])

(* Cloned, and scrubbed of the projects installed in the template. *)
Cloned(w) ==
    /\ pc[w] = "cloning" /\ Present(at[w])
    /\ env' = [env EXCEPT ![Clone(w)] =
                 Whole(IF w \in torn THEN "mixed" ELSE env[at[w]].pins)]
    /\ torn' = torn \ {w}
    /\ Goto(w, "restoring")
    /\ Keep
    /\ UNCHANGED <<claim, life, Place, faults>>

(* Mutant: the clone is tried again as often as it fails. *)
RetryForever(w) ==
    /\ pc[w] = "cloning"
    /\ \/ w \in torn /\ UNCHANGED faults
       \/ ~Present(at[w]) /\ UNCHANGED faults
       \/ Fault
    /\ retried' = retried \cup {w}
    /\ torn' = torn \ {w}
    /\ Keep
    /\ UNCHANGED <<files, pc, at, runtime>>

(* One more try, after the partial clone is removed. *)
CloneFails(w) ==
    /\ pc[w] = "cloning"
    /\ \/ w \in torn /\ UNCHANGED faults
       \/ ~Present(at[w]) /\ UNCHANGED faults
       \/ Fault
    /\ IF w \in retried
       THEN Abandon(w, Partial)
       ELSE /\ retried' = retried \cup {w}
            /\ torn' = torn \ {w}
            /\ Keep
            /\ UNCHANGED <<files, pc, at, runtime>>

(* Templates are held against dependency_install_spec, a clone against the *)
(* install metadata as they are: a requirement that is not in their        *)
(* pip_packages is neither missed nor put right.                           *)
Restored(c, pins) ==
    IF c \in Explicit \/ pins = c THEN {c} ELSE {c, pins, "mixed"}

(* _restore_runtime_dependency_contract, the health check, the identity. *)
Restore(w) ==
    /\ pc[w] = "restoring" /\ Repairable(Clone(w))
    /\ \E pins \in Restored(job[w].contract, env[Clone(w)].pins) :
         env' = [env EXCEPT ![Clone(w)].pins = pins]
    /\ claim' = [claim EXCEPT ![Clone(w)] = "runtime"]
    /\ Goto(w, "ready")
    /\ Keep
    /\ UNCHANGED <<life, Place, torn, faults>>

RestoreFails(w) ==
    /\ pc[w] = "restoring"
    /\ \/ ~Repairable(Clone(w)) /\ UNCHANGED faults
       \/ Fault
    /\ Abandon(w, Absent)

(* Project setup and test runs, in the clone. *)
Use(w) ==
    /\ pc[w] = "ready"
    /\ env' = [env EXCEPT ![Clone(w)].dirty = TRUE]
    /\ Goto(w, "using")
    /\ Keep
    /\ UNCHANGED <<claim, life, Place, torn, faults>>

(* remove_isolated_runtime_environment. *)
Clean(w) ==
    /\ pc[w] = "using"
    /\ \/ /\ env' = IF claim[Clone(w)] = "runtime"
                    THEN [env EXCEPT ![Clone(w)] = Absent] ELSE env
          /\ UNCHANGED faults
       \/ Fault /\ UNCHANGED env
    /\ Quit(w)
    /\ Keep
    /\ UNCHANGED <<claim, life>>

(* The process is killed, and the script it runs with it; its locks are    *)
(* released.                                                               *)
Kill(w) ==
    /\ pc[w] # "idle"
    /\ Fault
    /\ IF pc[w] = "building" THEN HalfBuilt(w) ELSE UNCHANGED env
    /\ Quit(w)
    /\ Keep
    /\ UNCHANGED <<claim, life>>

Step(w) ==
    \/ Generate(w) \/ Evaluate(w) \/ TakeRuntime(w)
    \/ ReuseSeed(w) \/ AcceptSeed(w) \/ Build(w) \/ Built(w) \/ BuildFails(w)
    \/ Publish(w) \/ ValidationFails(w) \/ Reuse(w) \/ Unhealthy(w)
    \/ Repair(w) \/ Repaired(w) \/ RepairFails(w)
    \/ Condemn(w) \/ RemoveTemplate(w) \/ Refuse(w)
    \/ NoTemplate(w) \/ StartClone(w) \/ Cloned(w) \/ CloneFails(w)
    \/ Restore(w) \/ RestoreFails(w) \/ Use(w) \/ Clean(w)

Next == \E w \in Workers : Step(w) \/ Kill(w)

Spec == Init /\ [][Next]_vars /\ \A w \in Workers : WF_vars(Step(w))
-----------------------------------------------------------------------------
Statuses == {"installing", "validating", "ready", "failed", None}
Places == Preparing \cup {"idle", "resolved", "ask", "accepted", "template", "cloning",
                         "restoring", "ready", "using"}

TypeOK ==
    /\ job \in [Workers -> Job]
    /\ env \in [Names -> Environment \cup {Absent}]
    /\ claim \in [Names -> Claims]
    /\ life \in [Templates -> [Issues -> Statuses]]
    /\ pc \in [Workers -> Places]
    /\ at \in [Workers -> Templates \cup {None}]
    /\ runtime \in [Workers -> Templates \cup {None}]
    /\ \A w \in Workers : pc[w] \notin {"idle", "resolved"} => at[w] \in Templates
    /\ retried \subseteq Workers /\ torn \subseteq Workers
    /\ runs \in [Workers -> Nat] /\ faults \in Nat

(* Whatever others do to the shared template, and whatever an earlier run  *)
(* left under the same name, the clone an instance is set up and tested in *)
(* is there, whole and of the right Python, meets the instance's contract  *)
(* where that is written out in pip_packages, and is handed over without   *)
(* anything of an earlier attempt.                                         *)
CloneFaithful == \A w \in Workers :
    pc[w] \in {"ready", "using"} =>
        /\ Repairable(Clone(w))
        /\ job[w].contract \in Explicit => Fits(Clone(w), job[w].contract)
        /\ pc[w] = "ready" => ~env[Clone(w)].dirty

(* A setup script that failed or was killed never blocks a name for good:  *)
(* the half-built environment it leaves may be removed by the next process *)
(* that asks, whatever issue it asks for, although processes of other      *)
(* issues may at any time call the environment ready.                      *)
NeverBlocked == \A t \in Templates :
    Present(t) /\ env[t].pins = "partial" => Recoverable(t)

(* The template a process gets under the name it asked for meets the       *)
(* contract when it gets it, however long it repaired it or waited for     *)
(* others to.  (A template of another name, taken without its lock, may    *)
(* change at once: CloneFaithful is what holds then.)                      *)
HandedOutFits == [][\A w \in Workers :
    pc'[w] = "template" /\ pc[w] \notin {"template", "accepted"}
        => /\ env'[at[w]] # Absent
           /\ env'[at[w]].pins = job[w].contract]_vars

(* No process waits for ever: neither the two locks an evaluator holds nor *)
(* the repairs, retries and second requests go round in circles.           *)
RequestsEnd == \A w \in Workers : pc[w] # "idle" ~> pc[w] = "idle"
=============================================================================

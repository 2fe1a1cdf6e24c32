-------------------------- MODULE OfficialRuntime --------------------------
(***************************************************************************)
(* The persistent SWT containers: workers (OfficialDockerRuntime of         *)
(* src/runtime/official_docker_runtime.py) that lock an instance, let a     *)
(* helper process (_start_swt_cached and _start_swt_rebuild of              *)
(* src/scripts/official_generation_container.py) start its container, use   *)
(* it and stop it.                                                          *)
(*                                                                         *)
(* Each worker is a process with an output directory of its own; what a     *)
(* helper owns is written to a lifecycle file there, which the worker reads *)
(* when the helper fails or is killed.  A helper runs in its own session:   *)
(* it survives the death of its worker, whose flock is gone at once.        *)
(***************************************************************************)
EXTENDS ContainerRegistry

CONSTANTS
    Workers,        \* processes running instances
    Helpers,        \* bound: helper processes alive at a time
    Rebuilds,       \* values of BRT_ALLOW_OFFICIAL_IMAGE_REBUILD
    Retries,        \* BRT_OFFICIAL_BUILD_RETRIES
    MaxFaults,      \* bound: failures of Docker and of checks, timeouts, kills
    Deaths,         \* may workers be killed?
    EarlyFailure,   \* may a helper fail before it writes its lifecycle file?
    Legacy          \* may registry and containers predate exclusive ownership?

ASSUME RuntimeAssumption ==
    /\ Rebuilds \subseteq BOOLEAN
    /\ EarlyFailure \in BOOLEAN
    /\ Legacy \in BOOLEAN
    /\ Retries \in Nat \ {0}
    /\ MaxFaults \in Nat
    /\ Deaths \in BOOLEAN
    /\ IsFiniteSet(Workers) /\ None \notin Workers
    /\ IsFiniteSet(Helpers)

VARIABLES
    harness,        \* version of the harness's setup scripts, and whether
                    \* images may be rebuilt
    lifecycle,      \* owned_container_names on disk, by worker and instance
    worker,         \* of each worker: step, instance, container, and the containers
                    \* that existed when it launched its helper
    helper,         \* of each helper: step, instance, directory, container
    faults

vars == <<entries, docker, harness, lifecycle, worker, helper, faults>>

Idle == [pc |-> "idle", inst |-> None, name |-> None, id |-> 0,
         before |-> {}, by |-> None]
Free == [pc |-> "free", inst |-> None, dir |-> None, parent |-> None,
         image |-> None, name |-> None, id |-> 0, tries |-> 0, own |-> FALSE]

Fault == faults < MaxFaults /\ faults' = faults + 1
NoFault == UNCHANGED faults

\* The flock of an instance is held by the worker that runs it.
Locked(i) == \E w \in Workers : worker[w].pc # "idle" /\ worker[w].inst = i

\* Container identities: an unused one for every new container.
Present == {docker[n].id : n \in Existing}
UsedIds == Present \cup {worker[w].id : w \in Workers} \cup {helper[h].id : h \in Helpers}
                   \cup {0} \cup UNION {worker[w].before : w \in Workers}
NewId == CHOOSE k \in 1 .. Cardinality(UsedIds) : k \notin UsedIds

\* The container a handle was obtained for still exists.
Alive(handle) == handle.name \in Existing /\ docker[handle.name].id = handle.id
Target(handle) == IF Alive(handle) THEN {handle.name} ELSE {}

Step(h, pc) == helper' = [helper EXCEPT ![h].pc = pc]

\* A start from the cached image has its checkout and its dependencies checked.
Started == IF harness.rebuild THEN "confirming" ELSE "checking"

-----------------------------------------------------------------------------
LegacyName(g) == HarnessName([group |-> g, version |-> 1], CHOOSE a \in Addresses : TRUE)

\* An empty registry, or one written before ownership was exclusive, with the
\* container that an earlier installation left, exited or dead, or without.
Init ==
    /\ entries \in {[i \in Instances |-> IF shared THEN LegacyName(GroupOf[i]) ELSE None] :
                       shared \in {FALSE, Legacy}}
    /\ docker \in {[n \in left |-> [state |-> st, id |-> 0]] :
                       left \in {{}, IF Legacy THEN {LegacyName(g) : g \in Groups} ELSE {}},
                       st \in {"exited", "dead"}}
    /\ harness \in [version : {1}, rebuild : Rebuilds]
    /\ lifecycle = [w \in Workers |-> [i \in Instances |-> {}]]
    /\ worker = [w \in Workers |-> Idle]
    /\ helper = [h \in Helpers |-> Free]
    /\ faults = 0

\* Mutant: the instance lock is not taken.
TakeUnlocked(w, i) ==
    /\ worker[w] = Idle
    /\ \E h \in Helpers :
          /\ helper[h] = Free
          /\ worker' = [worker EXCEPT ![w] = [Idle EXCEPT !.pc = "starting", !.inst = i,
                                                      !.before = Present, !.by = h]]
          /\ helper' = [helper EXCEPT ![h] = [Free EXCEPT !.pc = "launched", !.inst = i,
                                                           !.dir = w, !.parent = w]]
    /\ UNCHANGED <<entries, docker, harness, lifecycle, faults>>

\* The worker gets the lock of an instance and launches the helper.
Take(w, i) ==
    /\ worker[w] = Idle
    /\ ~Locked(i)
    /\ \E h \in Helpers :
          /\ helper[h] = Free
          /\ worker' = [worker EXCEPT ![w] = [Idle EXCEPT !.pc = "starting", !.inst = i,
                                                      !.before = Present, !.by = h]]
          /\ helper' = [helper EXCEPT ![h] = [Free EXCEPT !.pc = "launched", !.inst = i,
                                                           !.dir = w, !.parent = w]]
    /\ UNCHANGED <<entries, docker, harness, lifecycle, faults>>

-----------------------------------------------------------------------------
\* The helper.  Before anything else can fail inside its try block it decides on
\* the image and empties the lifecycle file.
Identify(h) ==
    LET i == helper[h].inst
        frozen == ~harness.rebuild /\ entries[i] # None
    IN  /\ helper[h].pc = "launched"
        /\ \E address \in Addresses :
              LET preferred == IF frozen THEN entries[i]
                               ELSE HarnessName(ImageOf(i, harness.version), address)
              IN  helper' = [helper EXCEPT ![h].pc = "resolving",
                                           ![h].image = preferred.image,
                                           ![h].name = preferred]
        /\ lifecycle' = [lifecycle EXCEPT ![helper[h].dir][i] = {}]
        /\ UNCHANGED <<entries, docker, harness, worker, faults>>

\* The cached image is missing, Docker does not answer, the source checkout
\* fails: it ends with the lifecycle file as it was.
FailEarly(h) ==
    /\ EarlyFailure
    /\ Fault
    /\ helper[h].pc = "launched"
    /\ Step(h, "failed")
    /\ UNCHANGED <<entries, docker, harness, lifecycle, worker>>

\* resolve(): a container to start, or a name that the lifecycle file lists as
\* owned before the first attempt to create it.
ResolveName(h) ==
    LET i == helper[h].inst
        name == ResolvedName(i, helper[h].image, helper[h].name)
        found == name \in Existing /\ Reusable(name)
    IN  /\ helper[h].pc = "resolving"
        /\ Resolve(i, helper[h].image, helper[h].name)
        /\ helper' = [helper EXCEPT ![h].pc = IF found THEN "waking" ELSE "creating",
                                    ![h].name = name,
                                    ![h].id = IF found THEN docker[name].id ELSE 0]
        /\ lifecycle' = [lifecycle EXCEPT ![helper[h].dir][i] = IF found THEN {} ELSE {name}]
        /\ UNCHANGED <<harness, worker, faults>>

\* ContainerRegistryError
ResolveFails(h) ==
    /\ helper[h].pc = "resolving"
    /\ ~Resolvable(helper[h].inst, helper[h].image)
    /\ Step(h, "failed")
    /\ UNCHANGED <<entries, docker, harness, lifecycle, worker, faults>>

\* ensure_container_running()
Wake(h) ==
    /\ helper[h].pc = "waking"
    /\ Alive(helper[h])
    /\ docker' = [docker EXCEPT ![helper[h].name].state = "running"]
    /\ Step(h, Started)
    /\ UNCHANGED <<entries, harness, lifecycle, worker, faults>>

\* The container is created and started.
Create(h) ==
    /\ helper[h].pc = "creating"
    /\ helper[h].name \notin Existing
    /\ docker' = With(helper[h].name, [state |-> "running", id |-> NewId])
    /\ helper' = [helper EXCEPT ![h].pc = Started, ![h].id = NewId, ![h].own = TRUE]
    /\ UNCHANGED <<entries, harness, lifecycle, worker, faults>>

\* It cannot be, because Docker fails or the name is taken: whatever has the
\* name is removed, and the helper tries again.
CreateFails(h) ==
    /\ helper[h].pc = "creating"
    /\ IF helper[h].name \in Existing THEN NoFault ELSE Fault
    /\ docker' = Without({helper[h].name})
    /\ helper' = [helper EXCEPT ![h].tries = @ + 1,
                                ![h].pc = IF helper[h].tries + 1 < Retries THEN @ ELSE "failed"]
    /\ UNCHANGED <<entries, harness, lifecycle, worker>>

\* HEAD is the base commit and the dependencies are there.
Checked(h) ==
    /\ helper[h].pc = "checking"
    /\ Alive(helper[h])
    /\ Step(h, "confirming")
    /\ UNCHANGED <<entries, docker, harness, lifecycle, worker, faults>>

\* confirm(), the last thing that can fail.
Conclude(h) ==
    /\ helper[h].pc = "confirming"
    /\ Confirm(helper[h].inst, helper[h].name)
    /\ Step(h, "done")
    /\ UNCHANGED <<harness, lifecycle, worker, faults>>

ConfirmFails(h) ==
    /\ helper[h].pc = "confirming"
    /\ ~Confirmable(helper[h].inst, helper[h].name)
    /\ Step(h, "failing")
    /\ UNCHANGED <<entries, docker, harness, lifecycle, worker, faults>>

\* A check fails, or the container is not there.
CheckFails(h) ==
    /\ helper[h].pc \in {"waking", "checking"}
    /\ IF Alive(helper[h]) THEN Fault ELSE NoFault
    /\ Step(h, "failing")
    /\ UNCHANGED <<entries, docker, harness, lifecycle, worker>>

\* The exception handler removes a container only this helper has created.
Clean(h) ==
    /\ helper[h].pc = "failing"
    /\ docker' = Without(IF helper[h].own THEN Target(helper[h]) ELSE {})
    /\ Step(h, "failed")
    /\ UNCHANGED <<entries, harness, lifecycle, worker, faults>>

\* A helper without a worker just ends.
OrphanEnds(h) ==
    /\ helper[h].pc \in {"done", "failed"}
    /\ helper[h].parent = None
    /\ helper' = [helper EXCEPT ![h] = Free]
    /\ UNCHANGED <<entries, docker, harness, lifecycle, worker, faults>>

-----------------------------------------------------------------------------
\* The worker again: the helper reports a container,
Use(w) ==
    LET h == worker[w].by
    IN  /\ worker[w].pc = "starting"
        /\ helper[h].pc = "done"
        /\ worker' = [worker EXCEPT ![w].pc = "using", ![w].by = None,
                                    ![w].before = {}, ![w].name = helper[h].name, ![w].id = helper[h].id]
        /\ helper' = [helper EXCEPT ![h] = Free]
        /\ UNCHANGED <<entries, docker, harness, lifecycle, faults>>

\* or fails, is killed by the system, or is killed by the worker after the
\* startup timeout, which counts as an early failure when the helper has not
\* written its lifecycle file;
Lose(w) ==
    LET h == worker[w].by
    IN  /\ worker[w].pc = "starting"
        /\ helper[h].pc # "done"
        /\ IF helper[h].pc = "failed" THEN NoFault ELSE Fault
        /\ helper[h].pc = "launched" => EarlyFailure
        /\ worker' = [worker EXCEPT ![w].pc = "cleaning", ![w].by = None]
        /\ helper' = [helper EXCEPT ![h] = Free]
        /\ UNCHANGED <<entries, docker, harness, lifecycle>>

\* Mutant: the container the registry names is removed, whoever created it.
CleanupRegistered(w) ==
    /\ worker[w].pc = "cleaning"
    /\ docker' = Without({entries[worker[w].inst]})
    /\ worker' = [worker EXCEPT ![w] = Idle]
    /\ UNCHANGED <<entries, harness, lifecycle, helper, faults>>

\* _cleanup_failed_startup(): what the lifecycle file lists is removed.
Cleanup(w) ==
    /\ worker[w].pc = "cleaning"
    /\ docker' = Without(lifecycle[w][worker[w].inst])
    /\ worker' = [worker EXCEPT ![w] = Idle]
    /\ UNCHANGED <<entries, harness, lifecycle, helper, faults>>

\* close(): the container is stopped and kept.
Close(w) ==
    /\ worker[w].pc = "using"
    /\ docker' = [n \in Existing |->
                     IF n \in Target(worker[w]) THEN [docker[n] EXCEPT !.state = "exited"]
                     ELSE docker[n]]
    /\ worker' = [worker EXCEPT ![w] = Idle]
    /\ UNCHANGED <<entries, harness, lifecycle, helper, faults>>

\* The worker is killed: its lock is released, its helper goes on.
Die(w) ==
    /\ Deaths
    /\ Fault
    /\ worker[w].pc # "idle"
    /\ worker' = [worker EXCEPT ![w] = Idle]
    /\ helper' = [h \in Helpers |->
                     IF helper[h].parent = w THEN [helper[h] EXCEPT !.parent = None] ELSE helper[h]]
    /\ UNCHANGED <<entries, docker, harness, lifecycle>>

\* A container nobody uses dies, or the setup scripts of the harness change.
Decay ==
    /\ Fault
    /\ \E n \in Existing :
          /\ \A w \in Workers : worker[w].name # n
          /\ \A h \in Helpers : helper[h].name # n
          /\ docker' = [docker EXCEPT ![n].state = "dead"]
    /\ UNCHANGED <<entries, harness, lifecycle, worker, helper>>

Upgrade ==
    /\ harness.version < MaxHarness
    /\ harness' = [harness EXCEPT !.version = @ + 1]
    /\ UNCHANGED <<entries, docker, lifecycle, worker, helper, faults>>

HelperStep(h) ==
    \/ Identify(h) \/ ResolveName(h) \/ ResolveFails(h) \/ Wake(h) \/ Create(h)
    \/ (helper[h].name \in Existing /\ CreateFails(h))
    \/ Checked(h) \/ Conclude(h) \/ ConfirmFails(h) \/ Clean(h) \/ OrphanEnds(h)
    \/ (~Alive(helper[h]) /\ CheckFails(h))

HelperFault(h) == FailEarly(h) \/ CreateFails(h) \/ CheckFails(h)

WorkerStep(w) ==
    \/ \E i \in Instances : Take(w, i)
    \/ Use(w) \/ Cleanup(w) \/ Close(w)
    \/ (worker[w].pc = "starting" /\ helper[worker[w].by].pc = "failed" /\ Lose(w))

Next ==
    \/ \E w \in Workers : WorkerStep(w) \/ Lose(w) \/ Die(w)
    \/ \E h \in Helpers : HelperStep(h) \/ HelperFault(h)
    \/ Decay \/ Upgrade

Spec == Init /\ [][Next]_vars

FairSpec == /\ Spec
            /\ \A w \in Workers : WF_vars(WorkerStep(w))
            /\ \A h \in Helpers : WF_vars(HelperStep(h))

-----------------------------------------------------------------------------
TypeOK ==
    /\ entries \in [Instances -> Names \cup {None}]
    /\ Existing \subseteq Names
    /\ docker \in [Existing -> [state : {"created", "running", "exited", "dead"}, id : Nat]]
    /\ harness \in [version : 1 .. MaxHarness, rebuild : Rebuilds]
    /\ \A w \in Workers, i \in Instances : lifecycle[w][i] \subseteq Names
    /\ \A w \in Workers :
          /\ worker[w].pc \in {"idle", "starting", "cleaning", "using"}
          /\ worker[w].by \in Helpers \cup {None}
    /\ \A h \in Helpers :
          /\ helper[h].pc \in {"free", "launched", "resolving", "waking", "creating",
                               "checking", "confirming", "failing", "done", "failed"}
          /\ helper[h].tries \in 0 .. Retries
    /\ faults \in 0 .. MaxFaults

\* No container is ever used for two instances, or by two workers, even when the
\* registry was written before ownership was exclusive.
NeverShared ==
    \A v, w \in Workers :
        v # w /\ worker[v].pc = "using" /\ worker[w].pc = "using"
            => worker[v].name # worker[w].name

\* A registered name does not get a second owner.
OwnershipExclusive ==
    [][\A i, j \in Instances :
          i # j /\ entries[i] # entries[j] => entries'[i] # entries'[j] \/ entries'[i] = None]_vars

\* A container in use is neither removed nor stopped by anybody else.
InUseUndisturbed ==
    [][\A w \in Workers :
          worker[w].pc = "using" /\ worker'[w].pc = "using" /\ Alive(worker[w])
              => Alive(worker[w])' /\ docker'[worker[w].name] = docker[worker[w].name]]_vars

\* "Clean exact helper-owned objects" (_cleanup_failed_startup): the lifecycle
\* file may be that of an earlier startup, but what the cleanup removes by it is
\* never a container that belongs to another instance by now.
CleanupSparesOthers ==
    [][\A w \in Workers :
          worker[w].pc = "cleaning" /\ worker'[w].pc = "idle"
              => \A n \in Existing \ DOMAIN docker' : ~Foreign(n, worker[w].inst)]_vars

\* An instance that is started again and again gets its container again and
\* again, once failures stop.
StartsSucceed ==
    \A i \in Instances :
        []<>(\E w \in Workers : worker[w].pc = "starting" /\ worker[w].inst = i)
            => []<>(\E w \in Workers : worker[w].pc = "using" /\ worker[w].inst = i)
=============================================================================

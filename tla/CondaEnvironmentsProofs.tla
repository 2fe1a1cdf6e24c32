---------------------- MODULE CondaEnvironmentsProofs ----------------------
(***************************************************************************)
(* Proofs about CondaEnvironments, for every set of processes, jobs,       *)
(* templates and issues, every beginning and every number of faults:       *)
(*   - TypeCorrect: the type invariant;                                    *)
(*   - CleanClones: the clone an instance is tested in is whole and clean, *)
(*     and meets its contract where pip_packages spell that out;           *)
(*   - NamesRecover: a half-built template may always be removed, if no    *)
(*     two processes work on the same issue;                               *)
(*   - HandOutsFit: a template handed out under its lock fits.             *)
(* The argument: the "prepare" lock makes every template the work of one   *)
(* process (Exclusive), so what that process left there is still there at  *)
(* its next step (AtWork); and a clone is named for its owner, so it is as *)
(* its owner made it (CloneOK), whatever became of the template.  A seed   *)
(* is called ready without its lock: whoever is about to do so speaks for  *)
(* its own issue, and a build is recorded under another one (Marked).      *)
(***************************************************************************)
EXTENDS CondaEnvironments, TLAPS

Exclusive == \A u, w \in Workers :
    pc[u] \in Preparing /\ pc[w] \in Preparing /\ u # w => at[u] # at[w]

AtWorkOf(w) ==
    /\ pc[w] = "building" => env[at[w]] = Partial
    /\ pc[w] = "repaired" => Fits(at[w], job[w].contract)
AtWork == \A w \in Workers : AtWorkOf(w)

CloneOKOf(w) ==
    /\ pc[w] = "restoring" => Present(Clone(w)) /\ ~env[Clone(w)].dirty
    /\ pc[w] \in {"ready", "using"} =>
         /\ Repairable(Clone(w))
         /\ job[w].contract \in Explicit => Fits(Clone(w), job[w].contract)
    /\ pc[w] = "ready" => ~env[Clone(w)].dirty
CloneOK == \A w \in Workers : CloneOKOf(w)

(* Who may touch the template it asks for. *)
Holds(w) == pc[w] \in Preparing \/ (pc[w] = "ask" /\ PrepareFree(w))

IInv == TypeOK /\ Exclusive /\ AtWork /\ CloneOK

(* A half-built template has a record that nobody is about to overwrite. *)
Lasting(t, i) ==
    /\ life[t][i] \in {"installing", "validating", "failed"}
    /\ \A u \in Workers : pc[u] = "accepted" /\ at[u] = t => job[u].issue # i
Marked == \A t \in Templates :
    Present(t) /\ env[t].pins = "partial" => \E i \in Issues : Lasting(t, i)

IssuesApart(j) == \A u, w \in Workers : u # w => j[u].issue # j[w].issue
-----------------------------------------------------------------------------
(* A clone is neither a template nor the clone of anyone else. *)
LEMMA CloneNames ==
    ASSUME NEW w \in Workers, NEW t \in Templates
    PROVE  /\ CloneOf(w, t) \in Names
           /\ CloneOf(w, t) \notin Templates
           /\ \A u \in Workers, s \in Templates :
                CloneOf(w, t) = CloneOf(u, s) => w = u /\ t = s
  BY NamesApart DEF CloneOf, Names

LEMMA Contents ==
    /\ Absent \notin Environment
    /\ \A p \in Pins : Whole(p) \in Environment
    /\ Partial \in Environment
    /\ "partial" \notin Contracts
    /\ "mixed" \notin Contracts /\ "other" \notin Contracts
    /\ \A e \in Environment : e.pins \in Pins /\ e.dirty \in BOOLEAN
    /\ \A e \in Environment, p \in Pins : [e EXCEPT !.pins = p] \in Environment
    /\ \A e \in Environment, d \in BOOLEAN : [e EXCEPT !.dirty = d] \in Environment
  BY ValuesApart DEF Environment, Whole, Partial, Pins

LEMMA Updates ==
    /\ \A e \in Environment, p \in Pins : /\ [e EXCEPT !.pins = p].pins = p
                                          /\ [e EXCEPT !.pins = p].dirty = e.dirty
    /\ \A e \in Environment, d \in BOOLEAN : [e EXCEPT !.dirty = d].pins = e.pins
    /\ \A p \in Pins : Whole(p).pins = p /\ ~Whole(p).dirty
    /\ Partial.pins = "partial" /\ Contracts \subseteq Pins
  BY DEF Environment, Whole, Partial, Pins

LEMMA Dirtied ==
    ASSUME NEW e \in Environment
    PROVE  [e EXCEPT !.dirty = TRUE] # Absent /\ [e EXCEPT !.dirty = TRUE].pins = e.pins
  BY Contents, Updates

LEMMA InitInv == Init => IInv
<1> SUFFICES ASSUME Init PROVE IInv
  OBVIOUS
<1>1. PICK b \in Beginnings :
        /\ env = [n \in Names |-> IF n \in Templates THEN b[n].env ELSE Absent]
        /\ claim = [n \in Names |-> IF n \in Templates THEN b[n].claim ELSE None]
  BY DEF Init
<1>2. env \in [Names -> Environment \cup {Absent}] /\ claim \in [Names -> Claims]
  BY <1>1, BeginningsWhole DEF Claims
<1>3. TypeOK
  BY <1>2, JobsTyped DEF Init, TypeOK, Statuses, Places
<1> QED
  BY <1>3 DEF IInv, Init, Exclusive, AtWork, AtWorkOf, CloneOK, CloneOKOf, Preparing
-----------------------------------------------------------------------------
(* What giving up leaves of the variables of the processes. *)
LEMMA GiveUpTypes ==
    ASSUME TypeOK, NEW w \in Workers, GiveUp(w) \/ Quit(w)
    PROVE  /\ pc' \in [Workers -> Places]
           /\ pc' = [pc EXCEPT ![w] = "ask"] \/ pc' = [pc EXCEPT ![w] = "idle"]
           /\ \A u \in Workers : u # w => at'[u] = at[u]
           /\ at' \in [Workers -> Templates \cup {None}]
           /\ runtime' \in [Workers -> Templates \cup {None}]
           /\ \A u \in Workers : pc'[u] \notin {"idle", "resolved"} => at'[u] \in Templates
           /\ retried' \subseteq Workers /\ torn' \subseteq Workers
<1>1. job[w].requested \in Templates
  BY DEF TypeOK, Job
<1> QED
  BY <1>1 DEF TypeOK, GiveUp, Quit, Goto, Places

LEMMA AbandonTypes ==
    ASSUME TypeOK, NEW w \in Workers, at[w] \in Templates,
           NEW left \in Environment \cup {Absent}, Abandon(w, left), faults' \in Nat
    PROVE  TypeOK'
<1>1. Clone(w) \in Names
  BY CloneNames DEF Clone
<1>2. env' \in [Names -> Environment \cup {Absent}]
  BY <1>1 DEF TypeOK, Abandon
<1>3. UNCHANGED <<job, runs, claim, life>> /\ Quit(w)
  BY DEF Abandon, Keep
<1> QED
  BY <1>2, <1>3, GiveUpTypes DEF TypeOK

LEMMA ChangeTypes ==
    ASSUME TypeOK, NEW t \in Templates, NEW content \in Environment \cup {Absent},
           Change(t, content)
    PROVE  env' \in [Names -> Environment \cup {Absent}] /\ torn' \subseteq Workers
  BY DEF TypeOK, Change, Names

LEMMA RecordTypes ==
    ASSUME TypeOK, NEW t \in Templates, NEW w \in Workers,
           NEW status \in Statuses, Record(t, w, status)
    PROVE  life' \in [Templates -> [Issues -> Statuses]]
  BY DEF TypeOK, Record, Job

LEMMA HalfBuiltTypes ==
    ASSUME TypeOK, NEW w \in Workers, at[w] \in Templates, HalfBuilt(w)
    PROVE  env' \in [Names -> Environment \cup {Absent}]
<1>1. {Absent, Partial, Whole("mixed")} \subseteq Environment \cup {Absent}
  BY Contents DEF Pins
<1> QED
  BY <1>1 DEF TypeOK, HalfBuilt, Names

LEMMA TypingNext == TypeOK /\ CloneOK /\ [Next]_vars => TypeOK'
<1> SUFFICES ASSUME TypeOK, CloneOK, [Next]_vars PROVE TypeOK'
  OBVIOUS
<1>s. CASE UNCHANGED vars
  BY <1>s DEF vars, TypeOK
<1>n. ASSUME NEW w \in Workers, Step(w) \/ Kill(w) PROVE TypeOK'
  <2> USE DEF TypeOK, Statuses, Places, Preparing, Claims, Keep, Place,
          files, Goto, Fault
  <2>0. /\ job[w] \in Job /\ job[w].contract \in Contracts
        /\ job[w].issue \in Issues /\ job[w].requested \in Templates
        /\ \A k \in DOMAIN job[w].seeds : job[w].seeds[k] \in Templates
        /\ \A k \in DOMAIN job[w].records : job[w].records[k] \in Templates
        /\ job[w].contract \in Pins /\ "mixed" \in Pins /\ "other" \in Pins
    BY <1>n DEF Job, Pins
  <2>c. at[w] \in Templates => Clone(w) \in Names
    BY CloneNames, <1>n DEF Clone
  <2>Generate. CASE Generate(w)
    BY <2>Generate, <2>0, <1>n DEF Generate
  <2>Evaluate. CASE Evaluate(w)
    BY <2>Evaluate, <2>0, <1>n DEF Evaluate
  <2>TakeRuntime. CASE TakeRuntime(w)
    BY <2>TakeRuntime, <2>0, <1>n DEF TakeRuntime
  <2>ReuseSeed. CASE ReuseSeed(w)
    BY <2>ReuseSeed, <2>0, <1>n DEF ReuseSeed
  <2>AcceptSeed. CASE AcceptSeed(w)
    <3>1. at[w] \in Templates
      BY <2>AcceptSeed, <1>n DEF AcceptSeed
    <3>2. life' \in [Templates -> [Issues -> Statuses]]
      BY <2>AcceptSeed, <3>1, <2>0, <1>n, RecordTypes DEF AcceptSeed
    <3> QED
      BY <2>AcceptSeed, <3>1, <3>2, <1>n DEF AcceptSeed
  <2>Build. CASE Build(w)
    <3>1. at[w] \in Templates
      BY <2>Build, <1>n DEF Build, Asking
    <3>2. env' \in [Names -> Environment \cup {Absent}] /\ torn' \subseteq Workers
      BY <2>Build, <3>1, <2>0, <1>n, ChangeTypes, Contents DEF Build
    <3>3. life' \in [Templates -> [Issues -> Statuses]]
      BY <2>Build, <3>1, <2>0, <1>n, RecordTypes DEF Build
    <3> QED
      BY <2>Build, <3>1, <3>2, <3>3, <2>0, <1>n DEF Build
  <2>Built. CASE Built(w)
    <3>1. at[w] \in Templates
      BY <2>Built, <1>n DEF Built
    <3>2. env' \in [Names -> Environment \cup {Absent}] /\ torn' \subseteq Workers
      BY <2>Built, <3>1, <2>0, <1>n, ChangeTypes, Contents DEF Built
    <3>3. life' \in [Templates -> [Issues -> Statuses]]
      BY <2>Built, <3>1, <2>0, <1>n, RecordTypes DEF Built
    <3> QED
      BY <2>Built, <3>1, <3>2, <3>3, <2>0, <1>n DEF Built
  <2>BuildFails. CASE BuildFails(w)
    <3>1. at[w] \in Templates
      BY <2>BuildFails, <1>n DEF BuildFails
    <3>2. env' \in [Names -> Environment \cup {Absent}]
      BY <2>BuildFails, <3>1, <1>n, HalfBuiltTypes DEF BuildFails
    <3>3. life' \in [Templates -> [Issues -> Statuses]]
      BY <2>BuildFails, <3>1, <2>0, <1>n, RecordTypes DEF BuildFails
    <3> QED
      BY <2>BuildFails, <3>1, <3>2, <3>3, <1>n, GiveUpTypes DEF BuildFails
  <2>Publish. CASE Publish(w)
    <3>1. at[w] \in Templates
      BY <2>Publish, <1>n DEF Publish
    <3>2. env' \in [Names -> Environment \cup {Absent}] /\ torn' \subseteq Workers
      BY <2>Publish, <3>1, <2>0, <1>n, ChangeTypes, Contents DEF Publish
    <3>3. life' \in [Templates -> [Issues -> Statuses]]
      BY <2>Publish, <3>1, <2>0, <1>n, RecordTypes DEF Publish
    <3> QED
      BY <2>Publish, <3>1, <3>2, <3>3, <2>0, <1>n DEF Publish
  <2>ValidationFails. CASE ValidationFails(w)
    <3>1. at[w] \in Templates
      BY <2>ValidationFails, <1>n DEF ValidationFails
    <3>2. life' \in [Templates -> [Issues -> Statuses]]
      BY <2>ValidationFails, <3>1, <2>0, <1>n, RecordTypes DEF ValidationFails
    <3> QED
      BY <2>ValidationFails, <3>1, <3>2, <1>n, GiveUpTypes DEF ValidationFails
  <2>Reuse. CASE Reuse(w)
    <3>1. at[w] \in Templates
      BY <2>Reuse, <1>n DEF Reuse, Usable, Asking
    <3>2. life' \in [Templates -> [Issues -> Statuses]]
      BY <2>Reuse, <3>1, <2>0, <1>n, RecordTypes DEF Reuse
    <3> QED
      BY <2>Reuse, <3>1, <3>2, <1>n DEF Reuse
  <2>Unhealthy. CASE Unhealthy(w)
    <3>1. at[w] \in Templates
      BY <2>Unhealthy, <1>n DEF Unhealthy, Usable, Asking
    <3>2. life' \in [Templates -> [Issues -> Statuses]]
      BY <2>Unhealthy, <3>1, <2>0, <1>n, RecordTypes DEF Unhealthy
    <3> QED
      BY <2>Unhealthy, <3>1, <3>2, <1>n, GiveUpTypes DEF Unhealthy
  <2>Repair. CASE Repair(w)
    <3>1. at[w] \in Templates
      BY <2>Repair, <1>n DEF Repair, Asking
    <3>2. env[at[w]] \in Environment
      BY <2>Repair, <3>1, <1>n DEF Repair, Asking, Repairable, Present, Names
    <3>3. PICK pins \in Pins : Change(at[w], [env[at[w]] EXCEPT !.pins = pins])
      BY <2>Repair, <2>0 DEF Repair
    <3>4. [env[at[w]] EXCEPT !.pins = pins] \in Environment
      BY <3>2 DEF Environment
    <3>5. env' \in [Names -> Environment \cup {Absent}] /\ torn' \subseteq Workers
      BY <3>1, <3>3, <3>4, <1>n, ChangeTypes
    <3> QED
      BY <2>Repair, <3>1, <3>5, <1>n DEF Repair
  <2>Repaired. CASE Repaired(w)
    <3>1. at[w] \in Templates
      BY <2>Repaired, <1>n DEF Repaired
    <3>2. env[at[w]] \in Environment
      BY <2>Repaired, <3>1, <1>n DEF Repaired, Present, Names
    <3>3. PICK pins \in Pins : Change(at[w], [env[at[w]] EXCEPT !.pins = pins])
      BY <2>Repaired, <2>0 DEF Repaired
    <3>4. [env[at[w]] EXCEPT !.pins = pins] \in Environment
      BY <3>2 DEF Environment
    <3>5. env' \in [Names -> Environment \cup {Absent}] /\ torn' \subseteq Workers
      BY <3>1, <3>3, <3>4, <1>n, ChangeTypes
    <3> QED
      BY <2>Repaired, <3>1, <3>5, <1>n DEF Repaired
  <2>RepairFails. CASE RepairFails(w)
    BY <2>RepairFails, <2>0, <1>n DEF RepairFails
  <2>Condemn. CASE Condemn(w)
    BY <2>Condemn, <2>0, <1>n DEF Condemn, Asking
  <2>RemoveTemplate. CASE RemoveTemplate(w)
    <3>0. at[w] \in Templates /\ faults' \in Nat /\ UNCHANGED <<job, runs, claim>>
      BY <2>RemoveTemplate, <1>n DEF RemoveTemplate
    <3>1. CASE /\ Change(at[w], Absent) /\ pc' = [pc EXCEPT ![w] = "removed"]
               /\ UNCHANGED <<life, at, runtime, retried>>
      BY <3>0, <3>1, <2>0, <1>n, ChangeTypes
    <3>2. CASE GiveUp(w) /\ life' = [life EXCEPT ![at[w]][job[w].issue] = "failed"]
               /\ UNCHANGED env
      BY <3>0, <3>2, <2>0, <1>n, GiveUpTypes, RecordTypes DEF Record
    <3> QED
      BY <2>RemoveTemplate, <3>1, <3>2 DEF RemoveTemplate, Record
  <2>Refuse. CASE Refuse(w)
    <3>1. at[w] \in Templates
      BY <2>Refuse, <1>n DEF Refuse
    <3>2. life' \in [Templates -> [Issues -> Statuses]]
      BY <2>Refuse, <3>1, <2>0, <1>n, RecordTypes DEF Refuse
    <3> QED
      BY <2>Refuse, <3>1, <3>2, <1>n, GiveUpTypes DEF Refuse
  <2>NoTemplate. CASE NoTemplate(w)
    <3>1. at[w] \in Templates
      BY <2>NoTemplate, <1>n DEF NoTemplate
    <3>2. env[Clone(w)] \in Environment \cup {Absent} /\ faults' \in Nat
      BY <2>NoTemplate, <3>1, <2>c, <1>n DEF NoTemplate
    <3> QED
      BY <2>NoTemplate, <3>1, <3>2, <1>n, AbandonTypes DEF NoTemplate
  <2>StartClone. CASE StartClone(w)
    <3>1. at[w] \in Templates /\ Clone(w) \in Names /\ faults' \in Nat
      BY <2>StartClone, <2>c, <1>n DEF StartClone
    <3>2. CASE Abandon(w, env[Clone(w)])
      BY <3>1, <3>2, <1>n, AbandonTypes
    <3>3. CASE /\ env' = [env EXCEPT ![Clone(w)] = Partial]
               /\ pc' = [pc EXCEPT ![w] = "cloning"]
               /\ UNCHANGED <<job, runs, claim, life, at, runtime, retried, torn>>
      BY <3>1, <3>3, <1>n, Contents
    <3> QED
      BY <2>StartClone, <3>2, <3>3 DEF StartClone
  <2>Cloned. CASE Cloned(w)
    <3>1. at[w] \in Templates /\ Clone(w) \in Names /\ env[at[w]] \in Environment
      BY <2>Cloned, <2>c, <1>n DEF Cloned, Present, Names
    <3>2. PICK pins \in Pins : env' = [env EXCEPT ![Clone(w)] = Whole(pins)]
      BY <2>Cloned, <3>1, <2>0 DEF Cloned, Environment
    <3> QED
      BY <2>Cloned, <3>1, <3>2, <1>n, Contents DEF Cloned
  <2>CloneFails. CASE CloneFails(w)
    <3>1. at[w] \in Templates /\ faults' \in Nat
      BY <2>CloneFails, <1>n DEF CloneFails
    <3>2. CASE w \in retried
      BY <3>1, <3>2, <2>CloneFails, <1>n, AbandonTypes, Contents DEF CloneFails
    <3>3. CASE w \notin retried
      BY <3>1, <3>3, <2>CloneFails, <1>n DEF CloneFails
    <3> QED
      BY <3>2, <3>3
  <2>Restore. CASE Restore(w)
    <3>1. at[w] \in Templates /\ Clone(w) \in Names /\ env[Clone(w)] \in Environment
      BY <2>Restore, <2>c, <1>n DEF Restore, Repairable, Present
    <3>2. PICK pins \in Restored(job[w].contract, env[Clone(w)].pins) :
            env' = [env EXCEPT ![Clone(w)].pins = pins]
      BY <2>Restore DEF Restore
    <3>3. pins \in Pins
      BY <3>1, <3>2, <2>0, Contents DEF Restored
    <3>4. [env[Clone(w)] EXCEPT !.pins = pins] \in Environment
      BY <3>1, <3>3, Contents
    <3>5. env' \in [Names -> Environment \cup {Absent}]
      BY <3>1, <3>2, <3>4, <1>n
    <3> QED
      BY <2>Restore, <3>1, <3>5, <1>n DEF Restore
  <2>RestoreFails. CASE RestoreFails(w)
    <3>1. at[w] \in Templates
      BY <2>RestoreFails, <1>n DEF RestoreFails
    <3>2. faults' \in Nat
      BY <2>RestoreFails, <1>n DEF RestoreFails
    <3> QED
      BY <2>RestoreFails, <3>1, <3>2, <1>n, AbandonTypes DEF RestoreFails
  <2>Use. CASE Use(w)
    <3>1. Clone(w) \in Names /\ env[Clone(w)] \in Environment
      BY <2>Use, <2>c, <1>n DEF Use, CloneOK, CloneOKOf, Repairable, Present
    <3>2. [env[Clone(w)] EXCEPT !.dirty = TRUE] \in Environment
      BY <3>1 DEF Environment
    <3> QED
      BY <2>Use, <3>1, <3>2, <1>n DEF Use
  <2>Clean. CASE Clean(w)
    <3>1. at[w] \in Templates /\ Clone(w) \in Names
      BY <2>Clean, <2>c, <1>n DEF Clean
    <3>2. env' \in [Names -> Environment \cup {Absent}] /\ faults' \in Nat
      BY <2>Clean, <3>1, <1>n DEF Clean
    <3> QED
      BY <2>Clean, <3>1, <3>2, <1>n, GiveUpTypes DEF Clean
  <2>Kill. CASE Kill(w)
    <3>1. env' \in [Names -> Environment \cup {Absent}] /\ faults' \in Nat
      BY <2>Kill, <1>n, HalfBuiltTypes DEF Kill
    <3> QED
      BY <2>Kill, <3>1, <1>n, GiveUpTypes DEF Kill
  <2> QED
    BY <1>n, <2>Generate, <2>Evaluate, <2>TakeRuntime, <2>ReuseSeed, <2>AcceptSeed, <2>Build, <2>Built, <2>BuildFails, <2>Publish, <2>ValidationFails, <2>Reuse, <2>Unhealthy, <2>Repair, <2>Repaired, <2>RepairFails, <2>Condemn, <2>RemoveTemplate, <2>Refuse, <2>NoTemplate, <2>StartClone, <2>Cloned, <2>CloneFails, <2>Restore, <2>RestoreFails, <2>Use, <2>Clean, <2>Kill DEF Step
<1> QED
  BY <1>s, <1>n DEF Next
-----------------------------------------------------------------------------
(* A step that touches only the template its process holds, and its clone, *)
(* disturbs nothing of the others.                                         *)
LEMMA Others ==
    ASSUME IInv, TypeOK', NEW w \in Workers, UNCHANGED job,
           \A u \in Workers : u # w => pc'[u] = pc[u] /\ at'[u] = at[u],
           \A n \in Names : env'[n] # env[n] =>
               at[w] \in Templates /\ ((n = at[w] /\ Holds(w)) \/ n = Clone(w)),
           pc'[w] \in Preparing => Holds(w) /\ at'[w] = at[w]
    PROVE  /\ Exclusive'
           /\ \A u \in Workers : u # w => AtWorkOf(u)' /\ CloneOKOf(u)'
<1>1. \A u \in Workers : u # w /\ pc[u] \in Preparing /\ Holds(w) => at[u] # at[w]
  BY DEF IInv, Exclusive, Holds, PrepareFree
<1>2. Exclusive'
  BY <1>1 DEF IInv, Exclusive
<1>3. ASSUME NEW u \in Workers, u # w PROVE AtWorkOf(u)' /\ CloneOKOf(u)'
  <2>1. pc[u] \in Preparing \cup {"restoring", "ready", "using"} => at[u] \in Templates
    BY DEF IInv, TypeOK, Preparing
  <2>2. pc[u] \in Preparing => env'[at[u]] = env[at[u]]
    BY <1>1, <1>3, <2>1, CloneNames DEF Clone, Names
  <2>3. at[u] \in Templates => env'[Clone(u)] = env[Clone(u)]
    BY <1>3, CloneNames DEF Clone
  <2>4. AtWorkOf(u) /\ CloneOKOf(u)
    BY DEF IInv, AtWork, CloneOK
  <2>5. at'[u] = at[u] /\ pc'[u] = pc[u] /\ Clone(u)' = Clone(u) /\ job' = job
    BY <1>3 DEF Clone
  <2> QED
    BY <2>1, <2>2, <2>3, <2>4, <2>5
    DEF AtWorkOf, CloneOKOf, Fits, Repairable, Present, Preparing
<1> QED
  BY <1>2, <1>3
(* What each step touches. *)
LEMMA Footprint ==
    ASSUME IInv, TypeOK', NEW w \in Workers, Step(w) \/ Kill(w)
    PROVE  /\ UNCHANGED job
           /\ \A u \in Workers : u # w => pc'[u] = pc[u] /\ at'[u] = at[u]
           /\ \A n \in Names : env'[n] # env[n] =>
                at[w] \in Templates /\ ((n = at[w] /\ Holds(w)) \/ n = Clone(w))
           /\ pc'[w] \in Preparing => Holds(w) /\ at'[w] = at[w]
<1> USE CloneNames DEF IInv, TypeOK, Holds, Preparing, Asking, Usable, Goto, Quit, GiveUp, Abandon, HalfBuilt, Change, Keep, Place, files
<1>Generate. CASE Generate(w)
  BY <1>Generate DEF Generate
<1>Evaluate. CASE Evaluate(w)
  BY <1>Evaluate DEF Evaluate
<1>TakeRuntime. CASE TakeRuntime(w)
  BY <1>TakeRuntime DEF TakeRuntime
<1>ReuseSeed. CASE ReuseSeed(w)
  BY <1>ReuseSeed DEF ReuseSeed
<1>AcceptSeed. CASE AcceptSeed(w)
  BY <1>AcceptSeed DEF AcceptSeed
<1>Build. CASE Build(w)
  BY <1>Build DEF Build
<1>Built. CASE Built(w)
  BY <1>Built DEF Built
<1>BuildFails. CASE BuildFails(w)
  <2>1. /\ at[w] \in Templates /\ Holds(w)
        /\ \A n \in Names : n # at[w] => env'[n] = env[n]
    BY <1>BuildFails DEF BuildFails
  <2>2. GiveUp(w) /\ UNCHANGED job
    BY <1>BuildFails DEF BuildFails
  <2> QED
    BY <2>1, <2>2
<1>Publish. CASE Publish(w)
  BY <1>Publish DEF Publish
<1>ValidationFails. CASE ValidationFails(w)
  BY <1>ValidationFails DEF ValidationFails
<1>Reuse. CASE Reuse(w)
  BY <1>Reuse DEF Reuse
<1>Unhealthy. CASE Unhealthy(w)
  BY <1>Unhealthy DEF Unhealthy
<1>Repair. CASE Repair(w)
  BY <1>Repair DEF Repair
<1>Repaired. CASE Repaired(w)
  BY <1>Repaired DEF Repaired
<1>RepairFails. CASE RepairFails(w)
  BY <1>RepairFails DEF RepairFails
<1>Condemn. CASE Condemn(w)
  BY <1>Condemn DEF Condemn
<1>RemoveTemplate. CASE RemoveTemplate(w)
  BY <1>RemoveTemplate DEF RemoveTemplate
<1>Refuse. CASE Refuse(w)
  BY <1>Refuse DEF Refuse
<1>NoTemplate. CASE NoTemplate(w)
  BY <1>NoTemplate DEF NoTemplate
<1>StartClone. CASE StartClone(w)
  <2>1. CASE Abandon(w, env[Clone(w)])
    BY <1>StartClone, <2>1 DEF StartClone
  <2>2. CASE ~Abandon(w, env[Clone(w)])
    BY <1>StartClone, <2>2 DEF StartClone
  <2> QED
    BY <2>1, <2>2
<1>Cloned. CASE Cloned(w)
  BY <1>Cloned DEF Cloned
<1>CloneFails. CASE CloneFails(w)
  BY <1>CloneFails DEF CloneFails
<1>Restore. CASE Restore(w)
  BY <1>Restore DEF Restore
<1>RestoreFails. CASE RestoreFails(w)
  BY <1>RestoreFails DEF RestoreFails
<1>Use. CASE Use(w)
  BY <1>Use DEF Use
<1>Clean. CASE Clean(w)
  BY <1>Clean DEF Clean
<1>Kill. CASE Kill(w)
  BY <1>Kill DEF Kill
<1> QED
  BY <1>Generate, <1>Evaluate, <1>TakeRuntime, <1>ReuseSeed, <1>AcceptSeed, <1>Build, <1>Built, <1>BuildFails, <1>Publish, <1>ValidationFails, <1>Reuse, <1>Unhealthy, <1>Repair, <1>Repaired, <1>RepairFails, <1>Condemn, <1>RemoveTemplate, <1>Refuse, <1>NoTemplate, <1>StartClone, <1>Cloned, <1>CloneFails, <1>Restore, <1>RestoreFails, <1>Use, <1>Clean, <1>Kill DEF Step

(* What each step leaves to the next one of the same process. *)
LEMMA Own ==
    ASSUME IInv, TypeOK', NEW w \in Workers, Step(w) \/ Kill(w)
    PROVE  AtWorkOf(w)' /\ CloneOKOf(w)'
<1>0. job[w].contract \in Contracts /\ Contracts \subseteq Pins
  BY Updates DEF IInv, TypeOK, Job
<1> USE CloneNames, Contents, Updates DEF IInv, TypeOK, AtWork, AtWorkOf, CloneOK, CloneOKOf, Fits, Present, Repairable, Clone, Preparing, Asking, Usable, Goto, Quit, GiveUp, Abandon, HalfBuilt, Change, Keep, Place, files, Whole, Partial, Names
<1>Generate. CASE Generate(w)
  BY <1>Generate DEF Generate
<1>Evaluate. CASE Evaluate(w)
  BY <1>Evaluate DEF Evaluate
<1>TakeRuntime. CASE TakeRuntime(w)
  BY <1>TakeRuntime DEF TakeRuntime
<1>ReuseSeed. CASE ReuseSeed(w)
  BY <1>ReuseSeed DEF ReuseSeed
<1>AcceptSeed. CASE AcceptSeed(w)
  BY <1>AcceptSeed DEF AcceptSeed
<1>Build. CASE Build(w)
  BY <1>Build DEF Build
<1>Built. CASE Built(w)
  BY <1>Built DEF Built
<1>BuildFails. CASE BuildFails(w)
  BY <1>BuildFails DEF BuildFails
<1>Publish. CASE Publish(w)
  BY <1>Publish DEF Publish
<1>ValidationFails. CASE ValidationFails(w)
  BY <1>ValidationFails DEF ValidationFails
<1>Reuse. CASE Reuse(w)
  BY <1>Reuse DEF Reuse
<1>Unhealthy. CASE Unhealthy(w)
  BY <1>Unhealthy DEF Unhealthy
<1>Repair. CASE Repair(w)
  BY <1>Repair DEF Repair
<1>Repaired. CASE Repaired(w)
  <2>1. at[w] \in Names /\ env[at[w]] \in Environment
    BY <1>Repaired DEF Repaired
  <2>2. env'[at[w]] = [env[at[w]] EXCEPT !.pins = job[w].contract]
    BY <1>Repaired, <2>1 DEF Repaired
  <2>3. env'[at[w]].pins = job[w].contract /\ env'[at[w]] # Absent
    BY <1>0, <2>1, <2>2
  <2> QED
    BY <1>Repaired, <2>3 DEF Repaired
<1>RepairFails. CASE RepairFails(w)
  BY <1>RepairFails DEF RepairFails
<1>Condemn. CASE Condemn(w)
  BY <1>Condemn DEF Condemn
<1>RemoveTemplate. CASE RemoveTemplate(w)
  BY <1>RemoveTemplate DEF RemoveTemplate
<1>Refuse. CASE Refuse(w)
  BY <1>Refuse DEF Refuse
<1>NoTemplate. CASE NoTemplate(w)
  BY <1>NoTemplate DEF NoTemplate
<1>StartClone. CASE StartClone(w)
  BY <1>StartClone DEF StartClone
<1>Cloned. CASE Cloned(w)
  <2>1. at[w] \in Templates /\ Clone(w) \in Names /\ env[at[w]] \in Environment
    BY <1>Cloned DEF Cloned
  <2>2. PICK p \in Pins : env'[Clone(w)] = Whole(p)
    BY <1>Cloned, <2>1 DEF Cloned, Pins
  <2>3. env'[Clone(w)] # Absent /\ ~env'[Clone(w)].dirty
    BY <2>2
  <2> QED
    BY <1>Cloned, <2>3 DEF Cloned
<1>CloneFails. CASE CloneFails(w)
  BY <1>CloneFails DEF CloneFails
<1>Restore. CASE Restore(w)
  <2>1. Clone(w) \in Names /\ env[Clone(w)] \in Environment /\ ~env[Clone(w)].dirty
    BY <1>Restore DEF Restore
  <2>2. PICK pins \in Restored(job[w].contract, env[Clone(w)].pins) :
          env' = [env EXCEPT ![Clone(w)].pins = pins]
    BY <1>Restore DEF Restore
  <2>3. env[Clone(w)].pins \in Contracts \cup {"mixed"}
    BY <1>Restore DEF Restore
  <2>4. /\ pins \in Contracts \cup {"mixed"} /\ pins \in Pins
        /\ job[w].contract \in Explicit => pins = job[w].contract
    BY <1>0, <2>2, <2>3 DEF Restored, Pins
  <2>5. env'[Clone(w)] = [env[Clone(w)] EXCEPT !.pins = pins]
    BY <2>1, <2>2
  <2>6. /\ env'[Clone(w)].pins = pins /\ env'[Clone(w)] # Absent
        /\ ~env'[Clone(w)].dirty
    BY <2>1, <2>4, <2>5
  <2>7. UNCHANGED <<job, at>> /\ pc'[w] = "ready" /\ Clone(w)' = Clone(w)
    BY <1>Restore DEF Restore
  <2> QED
    BY <2>4, <2>6, <2>7
<1>RestoreFails. CASE RestoreFails(w)
  BY <1>RestoreFails DEF RestoreFails
<1>Use. CASE Use(w)
  <2>1. /\ Clone(w) \in Names /\ env[Clone(w)] \in Environment
        /\ env[Clone(w)].pins \in Contracts \cup {"mixed"}
        /\ job[w].contract \in Explicit => env[Clone(w)].pins = job[w].contract
    BY <1>Use DEF Use
  <2>2. env'[Clone(w)] = [env[Clone(w)] EXCEPT !.dirty = TRUE]
    BY <1>Use, <2>1 DEF Use
  <2>3. env'[Clone(w)] # Absent /\ env'[Clone(w)].pins = env[Clone(w)].pins
    BY <2>1, <2>2, Dirtied
  <2>4. /\ UNCHANGED <<job, at>> /\ pc'[w] = "using" /\ Clone(w)' = Clone(w)
    BY <1>Use DEF Use
  <2> QED
    BY <2>1, <2>3, <2>4
<1>Clean. CASE Clean(w)
  BY <1>Clean DEF Clean
<1>Kill. CASE Kill(w)
  BY <1>Kill DEF Kill
<1> QED
  BY <1>Generate, <1>Evaluate, <1>TakeRuntime, <1>ReuseSeed, <1>AcceptSeed, <1>Build, <1>Built, <1>BuildFails, <1>Publish, <1>ValidationFails, <1>Reuse, <1>Unhealthy, <1>Repair, <1>Repaired, <1>RepairFails, <1>Condemn, <1>RemoveTemplate, <1>Refuse, <1>NoTemplate, <1>StartClone, <1>Cloned, <1>CloneFails, <1>Restore, <1>RestoreFails, <1>Use, <1>Clean, <1>Kill DEF Step

(* Only a seed just found good makes a process speak for a template later. *)
LEMMA Speakers ==
    ASSUME TypeOK, NEW w \in Workers, Step(w) \/ Kill(w), ~ReuseSeed(w)
    PROVE  /\ pc'[w] # "accepted"
           /\ UNCHANGED job
           /\ \A u \in Workers : u # w => pc'[u] = pc[u] /\ at'[u] = at[u]
<1> USE DEF TypeOK, Goto, Quit, GiveUp, Abandon, Keep, Place
<1>1. CASE \/ Generate(w) \/ Evaluate(w) \/ TakeRuntime(w) \/ AcceptSeed(w)
           \/ Build(w) \/ Built(w) \/ BuildFails(w) \/ Publish(w)
           \/ ValidationFails(w)
  BY <1>1 DEF Generate, Evaluate, TakeRuntime, AcceptSeed, Build, Built,
       BuildFails, Publish, ValidationFails
<1>2. CASE \/ Reuse(w) \/ Unhealthy(w) \/ Repair(w) \/ Repaired(w)
           \/ RepairFails(w) \/ Condemn(w) \/ RemoveTemplate(w) \/ Refuse(w)
  BY <1>2 DEF Reuse, Unhealthy, Repair, Repaired, RepairFails, Condemn,
       RemoveTemplate, Refuse
<1>3. CASE \/ NoTemplate(w) \/ StartClone(w) \/ Cloned(w) \/ CloneFails(w)
           \/ Restore(w) \/ RestoreFails(w) \/ Use(w) \/ Clean(w) \/ Kill(w)
  BY <1>3 DEF NoTemplate, StartClone, Cloned, CloneFails, Restore, RestoreFails,
       Use, Clean, Kill
<1> QED
  BY <1>1, <1>2, <1>3 DEF Step

(* No step leaves a half-built template without a lasting record. *)
LEMMA Unblocked ==
    ASSUME IInv, Marked, IssuesApart(job), TypeOK',
           NEW w \in Workers, Step(w) \/ Kill(w), ~ReuseSeed(w)
    PROVE  Marked'
<1> DEFINE Only(s) == \A t \in Templates : t # s => env'[t] = env[t]
<1>t. /\ job[w].contract \in Contracts /\ job[w].issue \in Issues
      /\ life \in [Templates -> [Issues -> Statuses]] /\ Marked
  BY DEF IInv, TypeOK, Job
<1>0. "partial" \notin Contracts /\ Contracts \subseteq Pins
  BY Contents, Updates
<1>j. job' = job
  BY Footprint
<1>q. \A u \in Workers : pc'[u] = "accepted" =>
        u # w /\ pc[u] = "accepted" /\ at'[u] = at[u]
  BY Speakers DEF IInv
<1>last. ASSUME NEW t \in Templates, NEW i \in Issues, Lasting(t, i),
                life'[t][i] = life[t][i]
         PROVE  Lasting(t, i)'
  BY <1>j, <1>q, <1>last DEF Lasting
<1>still. ASSUME life' = life, \A t \in Templates : env'[t] = env[t]
          PROVE  Marked'
  BY <1>t, <1>still, <1>last DEF Marked, Present
<1>whole. ASSUME NEW s \in Templates, Only(s), life' = life,
                 env'[s] # Absent => env'[s].pins # "partial"
          PROVE  Marked'
  BY <1>t, <1>whole, <1>last DEF Marked, Present
<1>kept. ASSUME NEW s \in Templates, Only(s), life' = life,
                \E i \in Issues : Lasting(s, i)
         PROVE  Marked'
  BY <1>t, <1>kept, <1>last DEF Marked, Present
<1>said. ASSUME NEW s \in Templates, Only(s),
                NEW status \in {"installing", "validating", "failed"},
                Record(s, w, status)
         PROVE  Marked'
  <2>1. \A t \in Templates : t # s => life'[t] = life[t]
    BY <1>said, <1>t DEF Record
  <2>2. life'[s][job[w].issue] = status
    BY <1>said, <1>t DEF Record
  <2>3. \A u \in Workers : pc'[u] = "accepted" => job'[u].issue # job[w].issue
    BY <1>said, <1>q, <1>j DEF IssuesApart
  <2>4. Lasting(s, job[w].issue)'
    BY <1>j, <2>2, <2>3 DEF Lasting
  <2>5. ASSUME NEW t \in Templates, t # s, Present(t)', env'[t].pins = "partial"
        PROVE  \E i \in Issues : Lasting(t, i)'
    <3>1. PICK i \in Issues : Lasting(t, i)
      BY <1>t, <1>said, <2>5 DEF Marked, Present
    <3> QED
      BY <1>said, <1>last, <2>1, <2>5, <3>1
  <2> QED
    BY <1>t, <1>j, <2>4, <2>5 DEF Marked
<1>ready. ASSUME NEW s \in Templates, Only(s), Record(s, w, "ready"),
                 env'[s] # Absent => env'[s].pins # "partial"
          PROVE  Marked'
  <2>1. \A t \in Templates : t # s => life'[t] = life[t]
    BY <1>ready, <1>t DEF Record
  <2> QED
    BY <1>t, <1>ready, <1>last, <2>1 DEF Marked, Present
<1>clone. ASSUME at[w] \in Templates, life' = life,
                 \A n \in Names : n # Clone(w) => env'[n] = env[n]
          PROVE  Marked'
  <2>1. \A t \in Templates : t \in Names /\ t # Clone(w)
    BY <1>clone, CloneNames DEF Clone, Names
  <2> QED
    BY <1>clone, <1>still, <2>1
<1>at. pc[w] \notin {"idle", "resolved"} => at[w] \in Templates
  BY DEF IInv, TypeOK
<1>env. env \in [Names -> Environment \cup {Absent}] /\ Templates \subseteq Names
  BY DEF IInv, TypeOK, Names
<1> HIDE DEF Only
<1>Generate. CASE Generate(w)
  BY <1>Generate, <1>still DEF Generate, Keep, files
<1>Evaluate. CASE Evaluate(w)
  BY <1>Evaluate, <1>still DEF Evaluate, Keep, files
<1>TakeRuntime. CASE TakeRuntime(w)
  BY <1>TakeRuntime, <1>still DEF TakeRuntime, Keep, files
<1>AcceptSeed. CASE AcceptSeed(w)
  <2>1. /\ at[w] \in Templates /\ pc[w] = "accepted" /\ env' = env
        /\ life' = [life EXCEPT ![at[w]][job[w].issue] = "ready"]
    BY <1>AcceptSeed, <1>at DEF AcceptSeed, Record
  <2>2. ASSUME NEW t \in Templates, NEW i \in Issues, Lasting(t, i)
        PROVE  life'[t][i] = life[t][i]
    <3>1. at[w] = t => job[w].issue # i
      BY <2>1, <2>2 DEF Lasting
    <3> QED
      BY <1>t, <2>1, <3>1
  <2> QED
    BY <1>t, <1>last, <2>1, <2>2 DEF Marked, Present
<1>Build. CASE Build(w)
  <2>1. at[w] \in Templates /\ Record(at[w], w, "installing")
    BY <1>Build, <1>at DEF Build, Asking
  <2>2. Only(at[w])
    BY <1>Build, <1>env DEF Build, Change, Only
  <2> QED
    BY <1>said, <2>1, <2>2
<1>Built. CASE Built(w)
  <2>1. at[w] \in Templates /\ Record(at[w], w, "validating")
    BY <1>Built, <1>at DEF Built
  <2>2. Only(at[w])
    BY <1>Built, <1>env DEF Built, Change, Only
  <2> QED
    BY <1>said, <2>1, <2>2
<1>BuildFails. CASE BuildFails(w)
  <2>1. at[w] \in Templates /\ Record(at[w], w, "failed")
    BY <1>BuildFails, <1>at DEF BuildFails
  <2>2. Only(at[w])
    BY <1>BuildFails, <1>env DEF BuildFails, HalfBuilt, Only
  <2> QED
    BY <1>said, <2>1, <2>2
<1>Publish. CASE Publish(w)
  <2>1. at[w] \in Templates /\ Record(at[w], w, "ready")
    BY <1>Publish, <1>at DEF Publish
  <2>2. Only(at[w]) /\ env'[at[w]] = Whole(job[w].contract)
    BY <1>Publish, <1>env, <2>1 DEF Publish, Change, Only
  <2>3. env'[at[w]].pins # "partial"
    BY <1>t, <1>0, <2>2, Updates
  <2> QED
    BY <1>ready, <2>1, <2>2, <2>3
<1>ValidationFails. CASE ValidationFails(w)
  <2>1. at[w] \in Templates /\ Record(at[w], w, "failed")
    BY <1>ValidationFails, <1>at DEF ValidationFails
  <2>2. Only(at[w])
    BY <1>ValidationFails DEF ValidationFails, Only
  <2> QED
    BY <1>said, <2>1, <2>2
<1>Reuse. CASE Reuse(w)
  <2>1. /\ at[w] \in Templates /\ Record(at[w], w, "ready")
        /\ env' = env /\ Fits(at[w], job[w].contract)
    BY <1>Reuse, <1>at DEF Reuse, Usable, Asking, IInv, AtWork, AtWorkOf
  <2> QED
    BY <1>t, <1>0, <1>ready, <2>1 DEF Only, Fits
<1>Unhealthy. CASE Unhealthy(w)
  <2>1. at[w] \in Templates /\ Record(at[w], w, "failed")
    BY <1>Unhealthy, <1>at DEF Unhealthy, Usable, Asking
  <2>2. Only(at[w])
    BY <1>Unhealthy DEF Unhealthy, Only
  <2> QED
    BY <1>said, <2>1, <2>2
<1>Repair. CASE Repair(w)
  <2>1. at[w] \in Templates /\ env[at[w]] \in Environment /\ life' = life
    BY <1>Repair, <1>at, <1>env DEF Repair, Asking, Repairable, Present
  <2>2. Only(at[w]) /\ env'[at[w]] = [env[at[w]] EXCEPT !.pins = "mixed"]
    BY <1>Repair, <1>env, <2>1 DEF Repair, Change, Only
  <2>3. "mixed" \in Pins /\ "mixed" # "partial"
    BY <1>t, <1>0 DEF Pins
  <2>4. env'[at[w]].pins # "partial"
    BY <2>1, <2>2, <2>3, Updates
  <2> QED
    BY <1>whole, <2>1, <2>2, <2>4
<1>Repaired. CASE Repaired(w)
  <2>1. at[w] \in Templates /\ env[at[w]] \in Environment /\ life' = life
    BY <1>Repaired, <1>at, <1>env DEF Repaired, Present
  <2>2. Only(at[w]) /\ env'[at[w]] = [env[at[w]] EXCEPT !.pins = job[w].contract]
    BY <1>Repaired, <1>env, <2>1 DEF Repaired, Change, Only
  <2>3. job[w].contract \in Pins /\ job[w].contract # "partial"
    BY <1>t, <1>0 DEF Pins
  <2>4. env'[at[w]].pins # "partial"
    BY <2>1, <2>2, <2>3, Updates
  <2> QED
    BY <1>whole, <2>1, <2>2, <2>4
<1>RepairFails. CASE RepairFails(w)
  BY <1>RepairFails, <1>still DEF RepairFails, Keep, files
<1>Condemn. CASE Condemn(w)
  BY <1>Condemn, <1>still DEF Condemn, Keep, files
<1>RemoveTemplate. CASE RemoveTemplate(w)
  <2>1. at[w] \in Templates
    BY <1>RemoveTemplate, <1>at DEF RemoveTemplate
  <2>2. CASE Change(at[w], Absent) /\ life' = life
    <3>1. Only(at[w]) /\ env'[at[w]] = Absent
      BY <1>env, <2>1, <2>2 DEF Change, Only
    <3> QED
      BY <1>whole, <2>1, <2>2, <3>1
  <2>3. CASE Record(at[w], w, "failed") /\ env' = env
    BY <1>said, <2>1, <2>3 DEF Only
  <2> QED
    BY <1>RemoveTemplate, <2>2, <2>3 DEF RemoveTemplate
<1>Refuse. CASE Refuse(w)
  <2>1. at[w] \in Templates /\ Record(at[w], w, "failed")
    BY <1>Refuse, <1>at DEF Refuse
  <2>2. Only(at[w])
    BY <1>Refuse DEF Refuse, Only
  <2> QED
    BY <1>said, <2>1, <2>2
<1>NoTemplate. CASE NoTemplate(w)
  <2>1. at[w] \in Templates /\ life' = life
    BY <1>NoTemplate, <1>at DEF NoTemplate, Abandon, files
  <2>2. \A n \in Names : n # Clone(w) => env'[n] = env[n]
    BY <1>NoTemplate, <1>env DEF NoTemplate, Abandon, files
  <2> QED
    BY <1>clone, <2>1, <2>2
<1>StartClone. CASE StartClone(w)
  <2>1. at[w] \in Templates /\ life' = life
    BY <1>StartClone, <1>at DEF StartClone, Abandon, files
  <2>2. \A n \in Names : n # Clone(w) => env'[n] = env[n]
    BY <1>StartClone, <1>env DEF StartClone, Abandon, files
  <2> QED
    BY <1>clone, <2>1, <2>2
<1>Cloned. CASE Cloned(w)
  <2>1. at[w] \in Templates /\ life' = life
    BY <1>Cloned, <1>at DEF Cloned, Abandon, files
  <2>2. \A n \in Names : n # Clone(w) => env'[n] = env[n]
    BY <1>Cloned, <1>env DEF Cloned, Abandon, files
  <2> QED
    BY <1>clone, <2>1, <2>2
<1>CloneFails. CASE CloneFails(w)
  <2>1. at[w] \in Templates /\ life' = life
    BY <1>CloneFails, <1>at DEF CloneFails, Abandon, files
  <2>2. \A n \in Names : n # Clone(w) => env'[n] = env[n]
    BY <1>CloneFails, <1>env DEF CloneFails, Abandon, files
  <2> QED
    BY <1>clone, <2>1, <2>2
<1>Restore. CASE Restore(w)
  <2>1. at[w] \in Templates /\ life' = life
    BY <1>Restore, <1>at DEF Restore, Abandon, files
  <2>2. \A n \in Names : n # Clone(w) => env'[n] = env[n]
    BY <1>Restore, <1>env DEF Restore, Abandon, files
  <2> QED
    BY <1>clone, <2>1, <2>2
<1>RestoreFails. CASE RestoreFails(w)
  <2>1. at[w] \in Templates /\ life' = life
    BY <1>RestoreFails, <1>at DEF RestoreFails, Abandon, files
  <2>2. \A n \in Names : n # Clone(w) => env'[n] = env[n]
    BY <1>RestoreFails, <1>env DEF RestoreFails, Abandon, files
  <2> QED
    BY <1>clone, <2>1, <2>2
<1>Use. CASE Use(w)
  <2>1. at[w] \in Templates /\ life' = life
    BY <1>Use, <1>at DEF Use, Abandon, files
  <2>2. \A n \in Names : n # Clone(w) => env'[n] = env[n]
    BY <1>Use, <1>env DEF Use, Abandon, files
  <2> QED
    BY <1>clone, <2>1, <2>2
<1>Clean. CASE Clean(w)
  <2>1. at[w] \in Templates /\ life' = life
    BY <1>Clean, <1>at DEF Clean, Abandon, files
  <2>2. \A n \in Names : n # Clone(w) => env'[n] = env[n]
    BY <1>Clean, <1>env DEF Clean, Abandon, files
  <2> QED
    BY <1>clone, <2>1, <2>2
<1>Kill. CASE Kill(w)
  <2>1. CASE pc[w] = "building"
    <3>1. at[w] \in Templates /\ env[at[w]] = Partial /\ life' = life
      BY <1>Kill, <1>at, <2>1 DEF Kill, IInv, AtWork, AtWorkOf
    <3>2. \E i \in Issues : Lasting(at[w], i)
      BY <1>t, <1>env, <3>1, Contents, Updates DEF Marked, Present
    <3>3. Only(at[w])
      BY <1>Kill, <1>env, <2>1 DEF Kill, HalfBuilt, Only
    <3> QED
      BY <1>kept, <3>1, <3>2, <3>3
  <2>2. CASE pc[w] # "building"
    BY <1>Kill, <1>still, <2>2 DEF Kill
  <2> QED
    BY <2>1, <2>2
<1> QED
  BY <1>Generate, <1>Evaluate, <1>TakeRuntime, <1>AcceptSeed, <1>Build,
     <1>Built, <1>BuildFails, <1>Publish, <1>ValidationFails, <1>Reuse,
     <1>Unhealthy, <1>Repair, <1>Repaired, <1>RepairFails, <1>Condemn,
     <1>RemoveTemplate, <1>Refuse, <1>NoTemplate, <1>StartClone, <1>Cloned,
     <1>CloneFails, <1>Restore, <1>RestoreFails, <1>Use, <1>Clean, <1>Kill DEF Step
(* A seed found good is whole at that moment. *)
LEMMA SeedWhole ==
    ASSUME IInv, Marked, TypeOK', NEW w \in Workers, ReuseSeed(w)
    PROVE  Marked'
<1>1. PICK k \in DOMAIN job[w].seeds :
        SeedAt(job[w], k) /\ at' = [at EXCEPT ![w] = job[w].seeds[k]]
  BY DEF ReuseSeed
<1>2. job[w].seeds[k] \in Templates /\ job[w].contract \in Contracts
  BY <1>1 DEF IInv, TypeOK, Job
<1>3. env[job[w].seeds[k]].pins # "partial"
  BY <1>1, <1>2, Contents DEF SeedAt, Acceptable, Fits
<1>4. env' = env /\ life' = life /\ job' = job /\ pc' = [pc EXCEPT ![w] = "accepted"]
  BY DEF ReuseSeed, Goto, Keep, files
<1>5. ASSUME NEW t \in Templates, Present(t), env[t].pins = "partial"
      PROVE  \E i \in Issues : Lasting(t, i)'
  <2>1. PICK i \in Issues : Lasting(t, i)
    BY <1>5 DEF Marked
  <2>2. at'[w] # t
    BY <1>1, <1>2, <1>3, <1>5 DEF IInv, TypeOK
  <2>3. \A u \in Workers : pc'[u] = "accepted" /\ at'[u] = t
                                => pc[u] = "accepted" /\ at[u] = t
    BY <1>1, <1>4, <2>2 DEF IInv, TypeOK
  <2> QED
    BY <1>4, <2>1, <2>3 DEF Lasting
<1> QED
  BY <1>4, <1>5 DEF Marked, Present
-----------------------------------------------------------------------------
LEMMA NextInv == IInv /\ [Next]_vars => IInv'
<1> SUFFICES ASSUME IInv, [Next]_vars PROVE IInv'
  OBVIOUS
<1>0. TypeOK'
  BY TypingNext DEF IInv
<1>1. CASE UNCHANGED vars
  BY <1>0, <1>1 DEF IInv, vars, Exclusive, AtWork, AtWorkOf, CloneOK, CloneOKOf,
       Fits, Repairable, Present, Clone
<1>2. ASSUME NEW w \in Workers, Step(w) \/ Kill(w) PROVE IInv'
  <2>1. Exclusive' /\ \A u \in Workers : u # w => AtWorkOf(u)' /\ CloneOKOf(u)'
    BY <1>0, <1>2, Footprint, Others
  <2>2. AtWorkOf(w)' /\ CloneOKOf(w)'
    BY <1>0, <1>2, Own
  <2> QED
    BY <1>0, <2>1, <2>2 DEF IInv, AtWork, CloneOK
<1> QED
  BY <1>1, <1>2 DEF Next

THEOREM Invariance == Spec => []IInv
  BY InitInv, NextInv, PTL DEF Spec

(* The types: an environment is absent or has its contents and a flag, and *)
(* a process at work has a template.                                       *)
THEOREM TypeCorrect == Spec => []TypeOK
  BY Invariance, PTL DEF IInv

(* isolated_runtime_env_name, _restore_runtime_dependency_contract: what a *)
(* test runs in is whole, of the right Python, as far in contract as the   *)
(* instance's pip_packages say, and starts clean, whatever other processes *)
(* did to the template while it was cloned.                                *)
THEOREM CleanClones == Spec => []CloneFaithful
<1>1. IInv => CloneFaithful
  BY DEF IInv, CloneOK, CloneOKOf, CloneFaithful
<1> QED
  BY <1>1, Invariance, PTL

(* has_recoverable_environment_state: a build that failed or was killed    *)
(* never leaves an environment that no later request may remove, as long   *)
(* as no two processes work on the same issue: the lifecycle file of a     *)
(* seed is written without its lock, and two of one issue share it.        *)
THEOREM NamesRecover ==
    ASSUME \A j \in Jobs : IssuesApart(j)
    PROVE  Spec => []NeverBlocked
<1> DEFINE Inv == IInv /\ Marked /\ IssuesApart(job)
<1>1. Init => Inv
  <2> SUFFICES ASSUME Init PROVE Inv
    OBVIOUS
  <2>1. PICK b \in Beginnings :
          env = [n \in Names |-> IF n \in Templates THEN b[n].env ELSE Absent]
    BY DEF Init
  <2>2. Marked
    BY <2>1, BeginningsWhole DEF Marked, Present, Names
  <2> QED
    BY <2>2, InitInv DEF Init
<1>2. Inv /\ [Next]_vars => Inv'
  <2> SUFFICES ASSUME Inv, [Next]_vars PROVE Inv'
    OBVIOUS
  <2>1. IInv' /\ TypeOK'
    BY NextInv DEF IInv
  <2>2. CASE UNCHANGED vars
    BY <2>1, <2>2 DEF vars, Marked, Lasting, Present, IssuesApart
  <2>3. ASSUME NEW w \in Workers, Step(w) \/ Kill(w) PROVE Inv'
    <3>1. job' = job
      BY <2>1, <2>3, Footprint
    <3>2. Marked'
      BY <2>1, <2>3, Unblocked, SeedWhole
    <3> QED
      BY <2>1, <3>1, <3>2 DEF IssuesApart
  <2> QED
    BY <2>2, <2>3 DEF Next
<1>3. Inv => NeverBlocked
  BY DEF Marked, Lasting, NeverBlocked, Recoverable
<1> QED
  BY <1>1, <1>2, <1>3, PTL DEF Spec

(* What a process is handed under the name it asked for. *)
LEMMA HandOut ==
    ASSUME IInv, NEW w \in Workers, Step(w) \/ Kill(w),
           pc'[w] = "template", pc[w] \notin {"template", "accepted"}
    PROVE  env'[at[w]] # Absent /\ env'[at[w]].pins = job[w].contract
<1>0. job[w].contract \in Contracts /\ Contracts \subseteq Pins
  BY Updates DEF IInv, TypeOK, Job
<1> USE DEF IInv, TypeOK, Goto, Quit, GiveUp, Abandon
<1>Publish. CASE Publish(w)
  <2>1. at[w] \in Names /\ env'[at[w]] = Whole(job[w].contract)
    BY <1>Publish DEF Publish, Change, Names
  <2> QED
    BY <1>0, <2>1, Contents, Updates
<1>Reuse. CASE Reuse(w)
  BY <1>Reuse DEF Reuse, Usable, AtWork, AtWorkOf, Fits, Present
<1>other. CASE ~Publish(w) /\ ~Reuse(w)
  <2>1. pc'[w] # "template"
    BY <1>other DEF Step, Generate, Evaluate, TakeRuntime, ReuseSeed, AcceptSeed, Build, Built, BuildFails, ValidationFails, Unhealthy, Repair, Repaired, RepairFails, Condemn, RemoveTemplate, Refuse, NoTemplate, StartClone, Cloned, CloneFails, Restore, RestoreFails, Use, Clean, Kill
  <2> QED
    BY <2>1
<1> QED
  BY <1>Publish, <1>Reuse, <1>other

(* ensure_icore_environment: a template handed out under its own lock      *)
(* meets the contract at that moment.                                      *)
THEOREM HandOutsFit == Spec => HandedOutFits
<1>1. ASSUME IInv, [Next]_vars
      PROVE  [\A w \in Workers :
                pc'[w] = "template" /\ pc[w] \notin {"template", "accepted"}
                  => /\ env'[at[w]] # Absent
                     /\ env'[at[w]].pins = job[w].contract]_vars
  <2> SUFFICES ASSUME ~UNCHANGED vars, NEW w \in Workers,
                      pc'[w] = "template", pc[w] \notin {"template", "accepted"}
               PROVE  env'[at[w]] # Absent /\ env'[at[w]].pins = job[w].contract
    OBVIOUS
  <2>1. PICK u \in Workers : Step(u) \/ Kill(u)
    BY <1>1 DEF Next
  <2>2. TypeOK'
    BY <1>1, TypingNext DEF IInv
  <2>3. u = w
    BY <1>1, <2>1, <2>2, Footprint
  <2> QED
    BY <1>1, <2>1, <2>3, HandOut
<1> QED
  BY <1>1, Invariance, PTL DEF Spec, HandedOutFits
=============================================================================

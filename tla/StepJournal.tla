---------------------------- MODULE StepJournal ----------------------------
(***************************************************************************)
(* The step journal of src/runtime/step_journal.py: one directory of        *)
(* numbered step files per session, from which a resumed experiment replays *)
(* the model calls and test executions it has already paid for.             *)
(*                                                                         *)
(* One process at a time works on a journal.  It opens it (StepJournal's    *)
(* constructor), and then calls step() for every external step of the       *)
(* pipeline: either the file of that position answers the call, or the file *)
(* and everything behind it is moved aside, complete.json is removed, the   *)
(* step is executed and its outcome is written to a new file.  The process  *)
(* may die between any two file operations.                                 *)
(*                                                                         *)
(* The pipeline between two steps is the constant operator Asks: the        *)
(* requests it may make after what it has been told so far, none when it is *)
(* done.  A pipeline whose prompts depend on anything else (a clock, a      *)
(* scheduling order) has more than one.  Declines says whether a pipeline    *)
(* told this ends in a status that finish() does not record.                *)
(***************************************************************************)
EXTENDS Naturals, Sequences

CONSTANTS
    Identities,       \* implementation revision, arguments, model, target
    Requests,         \* kind and inputs of a step
    Results,          \* what an external step may answer
    NotReusable,      \* results a later run must not reuse (timeout, error)
    Infra,            \* results that infrastructure_result() recognises
    Failed,           \* the outcome of a step that raised
    None,             \* no file, no step
    Asks(_, _),       \* identity and entries seen -> possible requests
    Declines(_, _),   \* identity and entries seen -> ends in SETUP_ERROR, TIMEOUT,
                      \* ENV_UNRESOLVED or ERROR, which finish() declines
    MaxSteps,         \* bound: positions of a session
    MaxSessions,      \* bound: sessions (uuid4 names) of a journal
    MaxFaults,        \* bound: crashes, failed file operations, lost artifacts
    ArchiveMayFail    \* may mkdir or rename raise OSError while archiving

VARIABLES
    current,    \* current.json: the identity and its session, 0 if no file
    steps,      \* steps[s][i]: step_<i>.json of session s, or None
    complete,   \* complete[s]: the past of the run that wrote complete.json
    summary,    \* the past behind summary.json and the other artifacts that
                \* complete.json quotes; None if absent or not a final result
    phase,      \* where the process is; "closed" when there is none
    seen,       \* the entries this run has been told; its length is the cursor
    pending,    \* the step in progress
    faults      \* faults so far, of MaxFaults

files == <<current, steps, complete, summary>>
run   == <<phase, seen, pending>>
vars  == <<files, run, faults>>

Positions == 0 .. MaxSteps - 1
Sessions  == 1 .. MaxSessions
Outcomes  == Results \cup {Failed}
Entry     == [request : Requests, result : Outcomes]
Histories == UNION {[1 .. n -> Entry] : n \in 0 .. MaxSteps}

\* A step file.  "by" and "basis" are history variables: the identity of the
\* run that wrote the file and what that run had been told before.
Record    == [request : Requests, result : Results, by : Identities, basis : Histories]

ASSUME ConstantsAssumption ==
    /\ MaxSteps \in Nat
    /\ MaxSessions \in Nat
    /\ MaxFaults \in Nat
    /\ ArchiveMayFail \in BOOLEAN
    /\ NotReusable \subseteq Results
    /\ Infra \subseteq Results
    /\ Failed \notin Results
    /\ None \notin Record \cup Histories \cup Entry

EntryOf(r) == [request |-> r.request, result |-> r.result]

index == Len(seen)
here  == steps[current.session]

Present(s, i) == steps[s][i] # None

\* The part of step()'s test that does not look at the request.
Reusable(r) == r.result \notin NotReusable \cup Infra
Replayable(s, i) == Present(s, i) /\ Reusable(steps[s][i])

\* Mutants: only the file at the cursor is moved aside; one file too many is.
SuffixOnlyCursor == {i \in Positions : i = index /\ Present(current.session, i)}
SuffixTooLong == {i \in Positions : i + 1 >= index /\ Present(current.session, i)}

\* Positions a miss at the cursor has to move aside, and has not yet moved.
Suffix == {i \in Positions : i >= index /\ Present(current.session, i)}

MayAsk(q) == index < MaxSteps /\ q \in Asks(current.identity, seen)
IsDone    == index = MaxSteps \/ Asks(current.identity, seen) = {}

Fault == faults < MaxFaults /\ faults' = faults + 1

Close == phase' = "closed" /\ seen' = << >> /\ pending' = None

\* Mutant: the cursor does not advance.
TellNothing(e) == phase' = "ready" /\ seen' = seen /\ pending' = None

\* step() returns to the pipeline, the cursor one further.
Tell(e) == phase' = "ready" /\ seen' = Append(seen, e) /\ pending' = None

-----------------------------------------------------------------------------
Init ==
    /\ \E id \in Identities : current = [identity |-> id, session |-> 0]
    /\ steps = [s \in Sessions |-> [i \in Positions |-> None]]
    /\ complete = [s \in Sessions |-> None]
    /\ summary = None
    /\ phase = "closed"
    /\ seen = << >>
    /\ pending = None
    /\ faults = 0

\* completed(): complete.json exists and quotes the artifacts as they are.
IsCompleted(s) == complete[s] # None /\ summary = complete[s]

\* StepJournal(output_dir, identity): the session of current.json is taken up
\* when its identity is this one; otherwise a new session replaces it.
OpenSession(id) ==
    IF current.session # 0 /\ current.identity = id
      THEN current' = current
      ELSE /\ current.session < MaxSessions
           /\ current' = [identity |-> id, session |-> current.session + 1]

\* A leaf pipeline whose journal is complete returns the saved result and
\* calls nothing (the run is over as soon as it began); any other one starts.
Open(id) ==
    /\ phase = "closed"
    /\ OpenSession(id)
    /\ ~IsCompleted(current'.session)
    /\ phase' = "ready"
    /\ UNCHANGED <<steps, complete, summary, seen, pending, faults>>

Skip(id) ==
    /\ phase = "closed"
    /\ OpenSession(id)
    /\ IsCompleted(current'.session)
    /\ UNCHANGED <<steps, complete, summary, run, faults>>

\* Mutant: the request is not compared.
AnswersAny(r, q) == r # None /\ Reusable(r)

\* What the file of this position answers to request q.
Answers(r, q) == r # None /\ r.request = q /\ Reusable(r)

\* step(): the saved result is returned, nothing is written.
Replay(q) ==
    /\ phase = "ready"
    /\ MayAsk(q)
    /\ Answers(here[index], q)
    /\ Tell([request |-> q, result |-> here[index].result])
    /\ UNCHANGED <<files, faults>>

\* step(): no usable file for this request.
Miss(q) ==
    /\ phase = "ready"
    /\ MayAsk(q)
    /\ ~Answers(here[index], q)
    /\ phase' = "archiving"
    /\ pending' = [request |-> q, result |-> Failed]
    /\ UNCHANGED <<files, seen, faults>>

\* One rename of the archiving loop, in the order in which glob lists them.
Archive(i) ==
    /\ phase = "archiving"
    /\ i \in Suffix
    /\ steps' = [steps EXCEPT ![current.session][i] = None]
    /\ UNCHANGED <<current, complete, summary, run, faults>>

\* mkdir or rename raises OSError out of step(); unlike a failed save it is
\* not turned into LLMUnavailableError, so the caller may take it for an
\* ordinary failure of this step and go on.
ArchiveFails ==
    /\ ArchiveMayFail
    /\ Fault
    /\ phase = "archiving"
    /\ Suffix # {}
    /\ Tell(pending)
    /\ UNCHANGED files

\* Mutant: complete.json is left behind.
UnlinkNothing ==
    /\ phase = "archiving"
    /\ Suffix = {}
    /\ phase' = "executing"
    /\ UNCHANGED <<files, seen, pending, faults>>

\* The suffix is gone; complete.json follows and the step begins.
Unlink ==
    /\ phase = "archiving"
    /\ Suffix = {}
    /\ complete' = [complete EXCEPT ![current.session] = None]
    /\ phase' = "executing"
    /\ UNCHANGED <<current, steps, summary, seen, pending, faults>>

\* execute() returns a result.
Execute(r) ==
    /\ phase = "executing"
    /\ pending' = [pending EXCEPT !.result = r]
    /\ phase' = "saving"
    /\ UNCHANGED <<files, seen, faults>>

\* execute() raises an error its caller treats as local to this step.
Raise ==
    /\ phase = "executing"
    /\ Tell(pending)
    /\ UNCHANGED <<files, faults>>

\* The step file is replaced atomically and step() returns; an infrastructure
\* result then stops the pipeline (recorded_dataclass_step) with no summary.
Save ==
    /\ phase = "saving"
    /\ steps' = [steps EXCEPT ![current.session][index] =
                    [request |-> pending.request, result |-> pending.result,
                     by |-> current.identity, basis |-> seen]]
    /\ IF pending.result \in Infra THEN Close ELSE Tell(pending)
    /\ UNCHANGED <<current, complete, summary, faults>>

\* LLMUnavailableError out of the step being executed or saved: the pipeline
\* writes a PAUSED_API summary and raises.
Pause ==
    /\ Fault
    /\ phase \in {"executing", "saving"}
    /\ summary' = None
    /\ Close
    /\ UNCHANGED <<current, steps, complete>>

\* Any other exception of the moment that reaches the pipeline's own handler
\* (a full disk): an ERROR summary is written, and finish() declines it.  One
\* that the answers provoke again in every run is a Decline.
Error ==
    /\ Fault
    /\ phase \in {"ready", "executing"}
    /\ summary' = None
    /\ Close
    /\ UNCHANGED <<current, steps, complete>>

\* The pipeline is done and has written its own summary and final test ...
Summarise ==
    /\ phase = "ready"
    /\ IsDone
    /\ summary' = seen
    /\ phase' = "finishing"
    /\ UNCHANGED <<current, steps, complete, seen, pending, faults>>

\* ... and finish() quotes them in complete.json.
Finish ==
    /\ phase = "finishing"
    /\ ~Declines(current.identity, seen)
    /\ complete' = [complete EXCEPT ![current.session] = summary]
    /\ Close
    /\ UNCHANGED <<current, steps, summary, faults>>

\* finish() declines the status this pipeline ends in and records nothing.  That
\* is no fault which stops: the recorded steps lead every later run here again.
Decline ==
    /\ phase = "finishing"
    /\ Declines(current.identity, seen)
    /\ Close
    /\ UNCHANGED <<files, faults>>

\* The process dies, or InfrastructureUnavailableError takes it out of the
\* pipeline without a summary: the files stay as they are.
Crash ==
    /\ Fault
    /\ phase # "closed"
    /\ Close
    /\ UNCHANGED files

\* An artifact is deleted or rewritten between two runs.
LoseArtifact ==
    /\ Fault
    /\ phase = "closed"
    /\ summary # None
    /\ summary' = None
    /\ UNCHANGED <<current, steps, complete, run>>

Next ==
    \/ \E id \in Identities : Open(id) \/ Skip(id)
    \/ \E q \in Requests : Replay(q) \/ Miss(q)
    \/ \E i \in Positions : Archive(i)
    \/ ArchiveFails \/ Unlink
    \/ \E r \in Results : Execute(r)
    \/ Raise \/ Save \/ Pause \/ Error
    \/ Summarise \/ Finish \/ Decline
    \/ Crash \/ LoseArtifact

Spec == Init /\ [][Next]_vars

-----------------------------------------------------------------------------
TypeOK ==
    /\ current \in [identity : Identities, session : 0 .. MaxSessions]
    /\ steps \in [Sessions -> [Positions -> Record \cup {None}]]
    /\ complete \in [Sessions -> Histories \cup {None}]
    /\ summary \in Histories \cup {None}
    /\ phase \in {"closed", "ready", "archiving", "executing", "saving", "finishing"}
    /\ seen \in Histories
    /\ pending \in Entry \cup {None}
    /\ faults \in 0 .. MaxFaults
    /\ phase # "closed" => current.session # 0

\* The step files of a session tell one story, whatever was archived, failed
\* or interrupted in between: the run that wrote a file had been told, at every
\* earlier position that still has a file, exactly what that file says.
OneHistory ==
    \A s \in Sessions : \A i, j \in Positions :
        j < i /\ Present(s, i) /\ Present(s, j) => steps[s][i].basis[j + 1] = EntryOf(steps[s][j])

\* "Never silently replay a mismatched suffix" (step()): a file found at the
\* cursor was written by a run with the very past this run has.
SamePast ==
    phase = "ready" /\ index < MaxSteps /\ Present(current.session, index)
        => here[index].basis = seen

\* Files are replayed under the identity that wrote them: a journal opened with
\* another implementation, argument or model never reaches an old session.
OwnIdentity ==
    \A i \in Positions : current.session # 0 /\ Present(current.session, i)
        => here[i].by = current.identity

\* A complete.json never outlives the steps it was computed from: every step
\* file of its session agrees with the run that completed it.
CompleteAgrees ==
    \A s \in Sessions : \A i \in Positions :
        complete[s] # None /\ Present(s, i) /\ i < Len(complete[s])
            => complete[s][i + 1] = EntryOf(steps[s][i])

\* Resuming a pipeline whose requests depend only on what it was told repeats
\* no finished work: a reusable step with only reusable steps before it is never
\* moved aside, however often the process dies.
NoRework ==
    [][\A s \in Sessions : \A i \in Positions :
          (\A j \in 0 .. i : Replayable(s, j)) => steps'[s][i] = steps[s][i]]_vars

\* The durable part of the current session: its longest gapless prefix of
\* reusable step files.
Durable ==
    LET gapless == {n \in 0 .. MaxSteps : \A i \in 0 .. n - 1 : Replayable(current.session, i)}
        length  == CHOOSE n \in gapless : \A m \in gapless : m <= n
    IN  IF current.session = 0 THEN << >> ELSE [i \in 1 .. length |-> EntryOf(here[i - 1])]

\* The journal implements the replay log: nothing but the durable prefix is
\* ever handed to a run, and it grows only at its end.
Log == INSTANCE ReplayLog WITH Entries <- Entry, log <- Durable
ImplementsReplayLog == Log!LogSpec

\* One process works until its run ends, and the operator resumes a run that
\* did not complete.
Work ==
    \/ \E id \in Identities : Open(id)
    \/ \E q \in Requests : Replay(q) \/ Miss(q)
    \/ \E i \in Positions : Archive(i)
    \/ Unlink
    \/ \E r \in Results : Execute(r)
    \/ Raise \/ Save \/ Summarise \/ Finish \/ Decline

FairSpec == Spec /\ WF_vars(Work)

\* Resuming gets an experiment done: once the infrastructure stops failing, a
\* journal reaches a complete.json that lets every later run skip, unless the
\* pipeline, told all its answers, keeps ending in a status finish() declines.
ResumeCompletes ==
    <>[](pending = None \/ pending.result \notin Infra)
        => \/ <>[](current.session # 0 /\ IsCompleted(current.session))
           \/ []<>(phase = "finishing" /\ Declines(current.identity, seen))
=============================================================================

----------------------------- MODULE ReplayLog -----------------------------
(***************************************************************************)
(* What the step journal of src/runtime/step_journal.py promises to the     *)
(* pipeline that runs on top of it, with every file left out.               *)
(*                                                                         *)
(* "log" is the durable part of an experiment: the external steps (model    *)
(* calls, test executions) whose outcome a later run may use instead of     *)
(* doing them again, in order and without gaps.  "seen" is what the current *)
(* run has been told so far.  A run first reads the log from its beginning, *)
(* step by step; the first step it has to do itself removes whatever the    *)
(* log holds beyond that point, and only then may the run extend the log.   *)
(* A run never reads an entry that was written after a different past.      *)
(***************************************************************************)
EXTENDS Naturals, Sequences

CONSTANT Entries        \* what one external step is: a request and its outcome

VARIABLES log, seen

IsPrefixOf(s, t) == Len(s) <= Len(t) /\ s = SubSeq(t, 1, Len(s))

LogInit == log = << >> /\ seen = << >>

\* A step found in the log: its entry is handed to the run, nothing is done.
Replay == /\ Len(seen) < Len(log)
          /\ IsPrefixOf(seen, log)
          /\ seen' = SubSeq(log, 1, Len(seen) + 1)
          /\ log' = log

\* The run has read the whole log; a step it did itself becomes durable.
Extend == /\ seen = log
          /\ \E e \in Entries : log' = Append(log, e)
          /\ seen' = log'

\* The log is cut, never below what the run has already been told.
Cut == /\ IsPrefixOf(seen, log)
       /\ \E n \in Len(seen) .. Len(log) : log' = SubSeq(log, 1, n)
       /\ seen' = seen

\* A step that leaves nothing durable: it failed, or must be done again by a
\* later run.  From here on the run is ahead of the log and cannot extend it.
Pass == /\ IsPrefixOf(log, seen)
        /\ \E e \in Entries : seen' = Append(seen, e)
        /\ log' = log

\* The run ends, or its process dies, or another one begins.
Restart == seen' = << >> /\ log' = log

\* An experiment with another identity starts with nothing to replay.
Forget == seen' = << >> /\ log' = << >>

LogNext == Replay \/ Extend \/ Cut \/ Pass \/ Restart \/ Forget

LogSpec == LogInit /\ [][LogNext]_<<log, seen>>

=============================================================================

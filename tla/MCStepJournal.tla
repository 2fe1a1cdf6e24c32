--------------------------- MODULE MCStepJournal ---------------------------
(***************************************************************************)
(* Instances of StepJournal for TLC: two pipelines, three positions.        *)
(***************************************************************************)
EXTENDS StepJournal, TLC

CONSTANTS q1, q2, good, timeout, setup, infra

RequestSymmetry == Permutations({q1, q2})

\* A pipeline whose prompts are never the same twice: it may ask anything and
\* stops after two or three steps.
Capricious(id, told) == Requests

\* A pipeline that is a function of what it was told: a setup error ends it,
\* another answer than "good" changes the next request, and it goes on until
\* two answers in a row are the same.
Faithful(id, told) ==
    CASE told = << >>  -> {q1}
      [] told # << >> /\ told[Len(told)].result = setup -> {}
      [] Len(told) = 1 /\ told[1].result # setup -> IF told[1].result = good THEN {q1} ELSE {q2}
      [] Len(told) = 2 /\ told[2].result \notin {setup, told[1].result} -> {q2}
      [] OTHER         -> {}

\* The status is that of the last execution: a timeout (executed again by every
\* run) and a setup error (recorded as reusable, so replayed) are declined.
ByLastAnswer(id, told) ==
    told # << >> /\ told[Len(told)].result \in {timeout, setup}
=============================================================================

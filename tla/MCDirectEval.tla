---------------------------- MODULE MCDirectEval ----------------------------
(***************************************************************************)
(* Instances of DirectEval for TLC: a repository with two instances and one *)
(* with a third, two of the three sharing an environment.                   *)
(***************************************************************************)
EXTENDS DirectEval

MCDataset == <<"a1", "a2", "b1">>
MCRepo    == [a1 |-> "a", a2 |-> "a", b1 |-> "b"]
MCEnv     == [a1 |-> "e", a2 |-> "f", b1 |-> "e"]

MCPatch == [a1 |-> [creates |-> FALSE, native |-> FALSE],
            a2 |-> [creates |-> TRUE,  native |-> FALSE],
            b1 |-> [creates |-> TRUE,  native |-> TRUE]]

Call(resume, ids, workers, where, mode, coverage) ==
    [resume |-> resume, ids |-> ids, workers |-> workers, where |-> where,
     mode |-> mode, coverage |-> coverage]

\* Fresh and resumed, of everything and of a part, with one worker and two.
MCCalls ==
    { Call(FALSE, MCDataset, 2, "clone", "swt", FALSE),
      Call(TRUE,  MCDataset, 2, "clone", "swt", TRUE),
      Call(FALSE, <<"a2">>,  1, "generated", "swt", TRUE),
      Call(TRUE,  MCDataset, 1, "generated", "tdd", TRUE) }

Good == [test |-> TRUE, env |-> TRUE, setup |-> TRUE, tools |-> "ok",
         buggy |-> "fail", clash |-> FALSE, build |-> TRUE, fixed |-> "pass"]

MCHappenings == { Good, [Good EXCEPT !.env = FALSE], [Good EXCEPT !.clash = TRUE] }

\* One instance, everything that may happen.
OneDataset == <<"b1">>
OneCalls   == { Call(resume, OneDataset, 1, where, mode, coverage) :
                  resume \in BOOLEAN, where \in Places, mode \in {"swt", "tdd"},
                  coverage \in BOOLEAN }
OneHappenings ==
    [test : BOOLEAN, env : BOOLEAN, setup : BOOLEAN, tools : {"ok", "coverage", "optional"},
     buggy : {"pass", "fail", "runner"}, clash : {FALSE}, build : BOOLEAN,
     fixed : {"pass", "fail", "runner"}]
=============================================================================

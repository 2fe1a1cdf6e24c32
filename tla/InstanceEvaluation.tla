------------------------- MODULE InstanceEvaluation -------------------------
(***************************************************************************)
(* The formal evaluation of one generated test: evaluate_one of             *)
(* src/evaluation/direct_eval.py as a function of the checkout it finds and *)
(* of what happens on the way.  Definitions only.                           *)
(*                                                                         *)
(* A checkout is the set of what it holds beyond the base commit:           *)
(*   "patch"    the golden patch's changes to tracked files                 *)
(*   "new"      the files the golden patch creates                          *)
(*   "gold"     the golden tests' changes to tracked files                  *)
(*   "goldnew"  the files the golden tests create                           *)
(*   "test"     the generated test                                          *)
(*   "built"    what installing the project left there                      *)
(*                                                                         *)
(* c is how the evaluator was called: where it works (a fresh "clone" or    *)
(* the "generated" worktree), the benchmark ("swt" or "tdd") and whether    *)
(* coverage is asked for; p is the golden patch: it creates files, it is    *)
(* native (changes the build); h is what happens: which steps fail, how the *)
(* two runs end, and whether a build product is in the way of a file the    *)
(* patch creates.                                                          *)
(* Setup is on (--no_setup is not modelled) and the golden patch applies to *)
(* its base commit.                                                         *)
(***************************************************************************)
EXTENDS Integers

Views(c) == c.mode = "swt" /\ c.coverage   \* the reference views of SWT-Bench

Untracked == {"new", "goldnew", "test", "built"}

\* git reset --hard, and git clean -fdx where build products may go.
Reset(t) == t \cap Untracked

\* Mutant: the clone of an interrupted evaluation is used as it is.
ResetOnly(c, t) == Reset(t)

Cleaned(c, t) == IF c.where = "generated" THEN Reset(t) ELSE {}

\* git apply of the golden patch: files to create must not be there.
Applies(p, h, t) ==
    p.creates => "new" \notin t /\ ~(h.clash /\ "built" \in t)

Patched(p, t) == t \cup {"patch"} \cup (IF p.creates THEN {"new"} ELSE {})

\* What the generated test runs in on the buggy side.
BuggyTree(c, t) == Cleaned(c, t) \cup {"built", "test"}

\* prepare_state: what the reference views of Patch Coverage start from, and
\* what they leave.
Bare(t) == Reset(t) \ {"test", "goldnew"}

GoldTree(t) == Bare(t) \cup {"gold", "goldnew"}

Viewed(c, t) == IF Views(c) THEN Bare(t) ELSE t

\* The checkout the golden patch is applied to, cleaned when it does not apply
\* at first.
FirstTry(c, t)  == Reset(Viewed(c, BuggyTree(c, t)))
PatchTree(c, p, h, t) ==
    IF Applies(p, h, FirstTry(c, t)) THEN FirstTry(c, t) ELSE Cleaned(c, FirstTry(c, t))

IsPatched(c, p, h, t) == Applies(p, h, PatchTree(c, p, h, t))

\* fixed_setup_required
Rebuilds(c, p, h, t) ==
    p.native \/ ~(Applies(p, h, FirstTry(c, t)) \/ c.where = "generated")

\* The checkout after the second installation, and the one of the fixed run.
RebuiltTree(c, p, h, t) ==
    Reset(Patched(p, PatchTree(c, p, h, t)) \cup {"test", "built"})

Reapplies(c, p, h, t) ==
    Rebuilds(c, p, h, t) => Applies(p, h, RebuiltTree(c, p, h, t))

FixedTree(c, p, h, t) ==
    Patched(p, IF Rebuilds(c, p, h, t) THEN RebuiltTree(c, p, h, t)
               ELSE PatchTree(c, p, h, t)) \cup {"test"}

\* The golden patch is applied afresh for each reference view of the fixed side.
ReferencesApply(c, p, h, t) ==
    Views(c) =>
        LET first == Bare(FixedTree(c, p, h, t))
        IN  Applies(p, h, first) /\ Applies(p, h, Bare(Patched(p, first)))

-----------------------------------------------------------------------------
\* The early returns in their order, then the verdict.
StatusRules(c, p, h, t) ==
    << <<~h.test, "MISSING_GENERATION">>,
       <<~h.env, "ENV_INCOMPLETE">>,
       <<~h.setup, "BUGGY_SETUP_ERROR">>,
       <<c.mode = "tdd" /\ c.coverage /\ h.tools = "coverage", "TDD_COVERAGE_TOOL_ERROR">>,
       <<c.mode = "tdd" /\ h.tools = "optional", "TDD_OPTIONAL_RUNTIME_ERROR">>,
       <<h.buggy = "runner", "BUGGY_RUNTIME_ENV_ERROR">>,
       <<~IsPatched(c, p, h, t), "PATCH_APPLY_ERROR">>,
       <<Rebuilds(c, p, h, t) /\ ~h.build, "FIXED_SETUP_ERROR">>,
       <<~Reapplies(c, p, h, t), "PATCH_REAPPLY_ERROR">>,
       <<h.fixed = "runner", "FIXED_RUNTIME_ENV_ERROR">>,
       <<h.buggy = "pass", "BUGGY_PASS">>,
       <<h.fixed = "fail", "FIXED_FAIL">>,
       <<TRUE, "F2P_SUCCESS">> >>

Status(c, p, h, t) ==
    LET rules == StatusRules(c, p, h, t)
        first == CHOOSE i \in DOMAIN rules :
                    rules[i][1] /\ \A j \in 1 .. i - 1 : ~rules[j][1]
    IN  rules[first][2]

\* result_env_category is not empty.
EnvErrors == {"ENV_INCOMPLETE", "BUGGY_SETUP_ERROR", "TDD_COVERAGE_TOOL_ERROR",
              "TDD_OPTIONAL_RUNTIME_ERROR", "BUGGY_RUNTIME_ENV_ERROR", "FIXED_SETUP_ERROR", "FIXED_RUNTIME_ENV_ERROR"}
Verdict   == {"BUGGY_PASS", "FIXED_FAIL", "F2P_SUCCESS"}
Statuses  == EnvErrors \cup Verdict \cup
             {"MISSING_GENERATION", "PATCH_APPLY_ERROR", "PATCH_REAPPLY_ERROR", "ERROR"}

\* Whether the two runs saw what they are said to have seen: the base commit
\* and the test, and the golden patch and the test.
Sound(c, p, h, t) ==
    /\ BuggyTree(c, t) \cap {"patch", "new", "gold"} = {}
    /\ Patched(p, {"test"}) \subseteq FixedTree(c, p, h, t)
    /\ "gold" \notin FixedTree(c, p, h, t)
    /\ c.where # "generated" =>
           "goldnew" \notin BuggyTree(c, t) \cup FixedTree(c, p, h, t)

\* The entry of results.json, as far as it is told apart here.
Result(c, p, h, t) ==
    LET status == Status(c, p, h, t)
    IN  [status  |-> status,
         env     |-> status \in EnvErrors,
         sound   |-> status \in Verdict => Sound(c, p, h, t),
         run     |-> 0,
         patches |-> /\ status \notin {"PATCH_APPLY_ERROR", "PATCH_REAPPLY_ERROR"}
                     /\ status \in Verdict => ReferencesApply(c, p, h, t)]

\* An exception anywhere in between.
Failed == [status |-> "ERROR", env |-> FALSE, sound |-> TRUE, run |-> 0, patches |-> TRUE]

\* What an evaluation of the given status leaves in the checkout.
Left(c, p, h, t, status) ==
    CASE status \in {"MISSING_GENERATION", "ENV_INCOMPLETE"} -> t
      [] status \in {"BUGGY_SETUP_ERROR", "TDD_COVERAGE_TOOL_ERROR",
                     "TDD_OPTIONAL_RUNTIME_ERROR"} -> Cleaned(c, t)
      [] status = "BUGGY_RUNTIME_ENV_ERROR" -> Cleaned(c, BuggyTree(c, t))
      [] status = "PATCH_APPLY_ERROR" -> Cleaned(c, PatchTree(c, p, h, t))
      [] status \in {"FIXED_SETUP_ERROR", "PATCH_REAPPLY_ERROR"} ->
            Cleaned(c, RebuiltTree(c, p, h, t))
      [] OTHER -> Cleaned(c, Viewed(c, FixedTree(c, p, h, t)))

\* The checkouts in which a killed or failing evaluation may have been.
Midway(c, p, h, t) ==
    {t, BuggyTree(c, t)}
        \cup (IF Views(c)
              THEN {GoldTree(BuggyTree(c, t)), GoldTree(FixedTree(c, p, h, t))} ELSE {})
        \cup (IF IsPatched(c, p, h, t) THEN {FixedTree(c, p, h, t)} ELSE {})
=============================================================================

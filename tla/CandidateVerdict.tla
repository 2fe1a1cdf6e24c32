-------------------------- MODULE CandidateVerdict --------------------------
(***************************************************************************)
(* What the pipeline concludes from one candidate test and one run of it:   *)
(* the status the executor reads off the log, the gate the strict verifier  *)
(* computes, the repair stage, and the key a checkpoint is ranked by.       *)
(* Definitions only.                                                        *)
(*                                                                         *)
(* A log is the set of marks that are found in it.  A candidate c has       *)
(*   text      its code, as far as two candidates differ in it              *)
(*   sound     the static guard lets it run                                 *)
(*   explicit  it contains an assertion or a framework oracle               *)
(*   calls     it calls something                                           *)
(*   shape     call alignment and delta telemetry, as one number            *)
(*   size      its length and static risk                                   *)
(* a target t (structured, or the raw issue of the direct route) has        *)
(*   structured, quiet (a no-exception contract), symptom (named words)     *)
(* an outcome o has rc, timeout and log, and an opinion p is what the model *)
(* answers: hit, evidence, public, falsifiable, quiet, risk, gap.           *)
(***************************************************************************)
EXTENDS Integers, Sequences

CONSTANTS
    Codes,          \* candidates the generator may return
    Outcomes,       \* what a run may end with; a rerun may differ
    Opinions,       \* what the model may answer
    None            \* no file, no execution, nothing recorded

ASSUME VerdictAssumption ==
    /\ \A c \in Codes : c.explicit \in BOOLEAN /\ c.shape \in Int /\ c.size \in Int
    /\ \A o \in Outcomes : o.timeout \in BOOLEAN
    /\ \A p \in Opinions :
          {p.hit, p.evidence, p.public, p.falsifiable, p.quiet} \subseteq BOOLEAN

Bit(b) == IF b THEN 1 ELSE 0

NotExecutable == {"SETUP_ERROR", "SYNTAX_ERROR", "COLLECT_ERROR", "TIMEOUT"}
Judgeable     == {"PASS", "ASSERTION_FAIL", "ISSUE_ALIGNED_FAIL", "UNRELATED_FAIL"}
RunStatuses   == NotExecutable \cup Judgeable

\* Keyword triage: a log that mentions the target counts as aligned.
Triage(o, otherwise) == IF "term" \in o.log THEN "ISSUE_ALIGNED_FAIL" ELSE otherwise

\* The issue itself is about an import or a missing fixture.
AboutImports(t, o) ==
    \/ "import" \in t.symptom
    \/ {"fixture"} \subseteq t.symptom \cap o.log

\* classify_execution: the rules in the order they are tried.
StatusRules(t, o) ==
    << <<o.timeout, "TIMEOUT">>,
       <<o.rc = 0 /\ "no test" \in o.log, "COLLECT_ERROR">>,
       <<o.rc = 0, "PASS">>,
       <<"syntax" \in o.log /\ "body" \notin o.log, "SYNTAX_ERROR">>,
       <<{"nested", "outer run", "outer assert"} \subseteq o.log,
         Triage(o, "ASSERTION_FAIL")>>,
       <<"name" \in o.log \ t.symptom \/ "harness" \in o.log, "SETUP_ERROR">>,
       <<"dependency" \in o.log, "SETUP_ERROR">>,
       <<{"import", "fixture"} \cap o.log # {},
         IF AboutImports(t, o) THEN Triage(o, "SETUP_ERROR") ELSE "SETUP_ERROR">>,
       <<{"nested", "collect"} \cap o.log # {}, "COLLECT_ERROR">>,
       <<"term" \in o.log, "ISSUE_ALIGNED_FAIL">>,
       <<"assert" \in o.log, "ASSERTION_FAIL">>,
       <<TRUE, "UNRELATED_FAIL">> >>

Classify(t, o) ==
    LET rules == StatusRules(t, o)
        first == CHOOSE i \in DOMAIN rules :
                    rules[i][1] /\ \A j \in 1 .. i - 1 : ~rules[j][1]
    IN  rules[first][2]

\* run_command_in_conda, and the stand-in for a candidate the guard stopped.
Executed(t, c, o) == [of |-> c.text, out |-> o, status |-> Classify(t, o)]
StaticFailure(c) ==
    [of |-> c.text, out |-> [rc |-> 2, timeout |-> FALSE, log |-> {}],
     status |-> "SYNTAX_ERROR"]

Failing(e) == e.out.rc # 0 /\ e.status \notin NotExecutable

-----------------------------------------------------------------------------
\* The strict verifier.

NoExceptionContract(t, c) == t.quiet /\ c.calls
Falsifiable(t, c)         == c.explicit \/ NoExceptionContract(t, c)

\* The log shows an exception the target names, at a place the target names.
TargetException(t, c, e) ==
    /\ NoExceptionContract(t, c)
    /\ Failing(e)
    /\ t.structured
    /\ {"named", "anchor"} \subseteq e.out.log

\* The model calls it a no-exception oracle and the traceback bears it out.
DeclaredWitness(t, e, p) ==
    /\ p.quiet /\ p.evidence /\ p.public /\ ~p.hit
    /\ t.structured
    /\ Failing(e)
    /\ {"named", "trace"} \subseteq e.out.log

\* The log names exceptions, and none of them is the target's.
SymptomMismatch(t, c, e) ==
    /\ NoExceptionContract(t, c) \/ ~t.structured
    /\ Failing(e)
    /\ "other" \in e.out.log
    /\ "named" \notin e.out.log
    /\ ~(t.structured /\ "anchor" \in e.out.log)

\* A pytest.raises or pytest.warns call that failed before its body ran.
BrokenConstruction(t, e) ==
    t.structured /\ e.out.rc # 0 /\ ~e.out.timeout /\ "constructor" \in e.out.log

Blank(decision, class, gap) ==
    [decision |-> decision, class |-> class, hit |-> FALSE, grounded |-> FALSE,
     public |-> FALSE, falsifiable |-> FALSE, risky |-> FALSE, quiet |-> FALSE,
     gap |-> gap]

\* Outcomes that are settled without the model.
Mechanical(t, e) == e.status \in NotExecutable \/ BrokenConstruction(t, e)

Forced(e) ==
    CASE e.status = "TIMEOUT"       -> Blank("reject", "timeout", "setup")
      [] e.status \in NotExecutable -> Blank("repair_setup", "setup", "setup")
      [] OTHER                      -> Blank("repair_oracle", "oracle_wrong", "construction")

\* _programmatic_verdict: decision and failure class from the facts.
Gate(t, c, e, p, hit) ==
    CASE ~Failing(e) -> <<IF hit THEN "repair_oracle" ELSE "repair_trigger", "buggy_pass">>
      [] Failing(e) /\ ~hit -> <<"repair_trigger", "target_not_hit">>
      [] Failing(e) /\ hit /\ ~( /\ p.evidence
                                 /\ p.public \/ TargetException(t, c, e)
                                 /\ Falsifiable(t, c) \/ p.falsifiable )
            -> <<"repair_oracle", "oracle_wrong">>
      [] OTHER -> IF p.risk \in {"high", "downstream"}
                  THEN <<"repair_oracle", "oracle_too_strong">>
                  ELSE <<"accept", "issue_aligned">>

Judged(t, c, e, p) ==
    LET hit  == /\ p.hit \/ TargetException(t, c, e) \/ DeclaredWitness(t, e, p)
                /\ ~SymptomMismatch(t, c, e)
        gate == Gate(t, c, e, p, hit)
    IN  [decision |-> gate[1], class |-> gate[2], hit |-> hit,
         grounded |-> p.evidence, public |-> p.public,
         falsifiable |-> Falsifiable(t, c) \/ p.falsifiable,
         risky |-> p.risk = "high",
         quiet |-> p.quiet, gap |-> p.gap]

\* Every verdict the verifier can give: the model is asked only when it must be.
Verdicts(t, c, e, opinions) ==
    IF Mechanical(t, e) THEN {Forced(e)} ELSE {Judged(t, c, e, p) : p \in opinions}

-----------------------------------------------------------------------------
\* Repair stage and ranking.

Accepts(v) == v.decision = "accept"

Stage(v, e) ==
    CASE Accepts(v) -> "SEARCH_ACCEPTED"
      [] ~Accepts(v) /\ (e.status \in NotExecutable \ {"TIMEOUT"} \/ v.decision = "repair_setup") -> "SETUP"
      [] v.decision = "repair_trigger" -> "TRIGGER"
      [] v.decision = "repair_oracle" -> "ORACLE"
      [] v.decision = "reject" -> "TERMINAL"

Depth(v, e) ==
    [TERMINAL |-> -1, SETUP |-> 0, TRIGGER |-> 1, ORACLE |-> 2,
     SEARCH_ACCEPTED |-> 3][Stage(v, e)]

StrictNoException(v) ==
    Accepts(v) /\ v.hit /\ v.grounded /\ v.public /\ v.falsifiable /\ v.quiet

HardEligible(t, c, e, v) ==
    Failing(e) /\ (Falsifiable(t, c) \/ StrictNoException(v))

RankKey(t, c, e, v, round) ==
    << Bit(HardEligible(t, c, e, v)), Bit(Accepts(v)),
       Bit(v.class = "issue_aligned"), Bit(v.hit), Bit(v.grounded),
       Bit(Failing(e)), Bit(~v.risky), c.shape, Bit(v.public), -c.size, -round >>

\* Python's comparison of tuples.  No key is above the empty one of None.
Above(key, other) ==
    \/ Len(key) > 0 /\ Len(other) = 0
    \/ \E i \in DOMAIN key \cap DOMAIN other :
          /\ key[i] > other[i]
          /\ \A j \in 1 .. i - 1 : key[j] = other[j]

\* The status in summary.json.
FinalStatus(e, v) ==
    CASE Accepts(v)                                     -> "ISSUE_ALIGNED_FAIL"
      [] ~Accepts(v) /\ e.status \in NotExecutable      -> e.status
      [] ~Accepts(v) /\ Failing(e)                      -> "UNRELATED_FAIL"
      [] ~Accepts(v) /\ e.status = "PASS"               -> "TRIGGER_UNRESOLVED"

SummaryStatuses == NotExecutable \cup
    {"ISSUE_ALIGNED_FAIL", "UNRELATED_FAIL", "TRIGGER_UNRESOLVED", "ERROR"}

\* What _semantic_signature compares: the gap, or the stage when none is stated.
Signature(v, e) == IF v.gap = "" THEN Stage(v, e) ELSE v.gap

\* What candidate_ranking.json says of the selected round.
Checkpoint(t, c, e, v, round) ==
    [key |-> RankKey(t, c, e, v, round), sign |-> Signature(v, e), text |-> c.text]
=============================================================================

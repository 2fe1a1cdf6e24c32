---------------------------- MODULE MCRepairLoop ----------------------------
(***************************************************************************)
(* An instance of RepairLoop for TLC.  The candidates differ in what the    *)
(* guard, the oracle analysis and the ranking see of them, the outcomes in  *)
(* the rule that classifies them, the opinions in the gate they reach.      *)
(***************************************************************************)
EXTENDS RepairLoop

MCTarget == [structured |-> TRUE, quiet |-> FALSE, symptom |-> {}]

Candidate(text, sound, explicit, shape) ==
    [text |-> text, sound |-> sound, explicit |-> explicit, calls |-> TRUE,
     shape |-> shape, size |-> 1]

MCCodes == { Candidate("plain", TRUE, FALSE, 2), Candidate("asserts", TRUE, TRUE, 1),
             Candidate("broken", FALSE, TRUE, 0) }

Ended(rc, log) == [rc |-> rc, timeout |-> rc = 124, log |-> log]

MCOutcomes == { Ended(0, {}), Ended(1, {"term", "assert"}), Ended(1, {"assert"}),
                Ended(1, {"import"}), Ended(124, {}) }

Says(hit, evidence, falsifiable) ==
    [hit |-> hit, evidence |-> evidence, public |-> evidence,
     falsifiable |-> falsifiable, quiet |-> FALSE, risk |-> "none", gap |-> ""]

MCOpinions == { Says(TRUE, TRUE, TRUE), Says(TRUE, FALSE, FALSE), Says(FALSE, FALSE, FALSE) }
=============================================================================

-------------------------- MODULE MCSeedController --------------------------
(***************************************************************************)
(* Instances of SeedController for TLC.                                     *)
(***************************************************************************)
EXTENDS SeedController

Issue(structured) == [structured |-> structured, quiet |-> FALSE, symptom |-> {}]

MCTargetOf == [target |-> Issue(TRUE), direct |-> Issue(FALSE)]

Candidate(text, explicit) ==
    [text |-> text, sound |-> TRUE, explicit |-> explicit, calls |-> TRUE,
     shape |-> 1, size |-> 1]

MCCodes == { Candidate("asserts", TRUE) }

Exit(rc, log) == [rc |-> rc, timeout |-> FALSE, log |-> log]

\* A product failure, an assertion context that cannot be built, an import error.
MCOutcomes == { Exit(1, {"term", "named"}), Exit(1, {"constructor"}),
                Exit(1, {"import"}) }

MCOpinions == { [hit |-> TRUE, evidence |-> TRUE, public |-> TRUE, falsifiable |-> TRUE,
                 quiet |-> FALSE, risk |-> "none", gap |-> "stated"] }
=============================================================================

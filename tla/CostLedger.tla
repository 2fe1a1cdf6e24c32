----------------------------- MODULE CostLedger -----------------------------
(***************************************************************************)
(* The request ledger of src/llm/cost_tracking.py: api_requests.jsonl, to   *)
(* which every thread appends two rows for each attempt under a file lock,  *)
(* "started" before the request is sent and "finished" after its answer,    *)
(* and the total that write_cost_summary() makes of the rows it can read.   *)
(*                                                                         *)
(* An append that fails, or whose process is killed, may leave no text, a   *)
(* part of the line, or the line without its newline; what is appended      *)
(* next continues that line, and neither of the two rows can be read.       *)
(* A row is "priced" when it has a cost in the currency of the experiment.  *)
(***************************************************************************)
EXTENDS Naturals, FiniteSets

CONSTANT MaxRequests    \* bound: attempts

ASSUME LedgerAssumption == MaxRequests \in Nat

VARIABLES
    ledger,         \* the rows that can be read, and the state of the last line
    made,           \* attempts whose request was sent
    unrecorded      \* those of them whose started row could not be written

ledgerVars == <<ledger, made, unrecorded>>

Attempts == 1 .. MaxRequests
Rows     == [kind : {"started", "finished"}, of : Attempts, priced : BOOLEAN]

StartedRow(a)          == [kind |-> "started",  of |-> a, priced |-> FALSE]
FinishedRow(a, priced) == [kind |-> "finished", of |-> a, priced |-> priced]

\* last: the readable row on a last line without newline; junk: some line
\* cannot be read; open: the last line has no newline.
LedgerInit ==
    /\ ledger = [rows |-> {}, last |-> {}, junk |-> FALSE, open |-> FALSE]
    /\ made = {}
    /\ unrecorded = {}

\* What the file is after some text: a row or a part of one ({}), ended or not.
Extended(row, ended) ==
    IF ledger.open
    THEN [rows |-> ledger.rows \ ledger.last, last |-> {}, junk |-> TRUE, open |-> ~ended]
    ELSE [rows |-> ledger.rows \cup row,
          last |-> IF ended THEN {} ELSE row,
          junk |-> ledger.junk \/ row = {},
          open |-> ~ended]

Appended(row) == Extended({row}, TRUE)

\* What a failed append may leave.
Damaged(row) == {ledger, Extended({}, FALSE), Extended({row}, FALSE)}

\* The rows with a common attempt_id are one record, which is complete when the
\* started row is among them.
Recorded == {a \in Attempts : StartedRow(a) \in ledger.rows}
Orphaned == {r.of : r \in ledger.rows} \ Recorded
Costed   == {a \in Recorded : FinishedRow(a, TRUE) \in ledger.rows}

\* Mutant: lines that cannot be read are skipped silently.
TotalOfReadable ==
    /\ Orphaned = {}
    /\ Recorded # {}
    /\ Recorded \subseteq Costed

\* write_cost_summary() states a total cost.
TotalKnown ==
    /\ ~ledger.junk
    /\ Orphaned = {}
    /\ Recorded # {}
    /\ Recorded \subseteq Costed

-----------------------------------------------------------------------------
\* accounting.start() and the request.  A started row that cannot be written
\* is only warned about.
Started(a) ==
    /\ ledger' = Appended(StartedRow(a))
    /\ unrecorded' = unrecorded
    /\ made' = made \cup {a}

StartLost(a) ==
    /\ ledger' \in Damaged(StartedRow(a))
    /\ unrecorded' = unrecorded \cup {a}
    /\ made' = made \cup {a}

\* accounting.finish(), for an attempt that has a started row only.
Finished(a, priced) ==
    /\ ledger' = IF a \in unrecorded THEN ledger ELSE Appended(FinishedRow(a, priced))
    /\ UNCHANGED <<made, unrecorded>>

FinishLost(a) ==
    /\ a \notin unrecorded
    /\ ledger' \in UNION {Damaged(FinishedRow(a, priced)) : priced \in BOOLEAN}
    /\ UNCHANGED <<made, unrecorded>>

\* The process is killed in the middle of an append.
Torn == ledger' = Extended({}, FALSE) /\ UNCHANGED <<made, unrecorded>>

-----------------------------------------------------------------------------
LedgerTypeOK ==
    /\ ledger.rows \subseteq Rows
    /\ ledger.last \subseteq ledger.rows
    /\ ledger.junk \in BOOLEAN
    /\ ledger.open \in BOOLEAN
    /\ unrecorded \subseteq made
    /\ made \subseteq Attempts

\* "Missing billing data is unknown, never zero" (cost_tracking.py): a total is
\* stated only when every request that was sent, by any worker of any process
\* of the run, has a cost in the ledger, whatever was torn, glued together or
\* left without an answer.  The one exception is a request whose started row
\* could not be written, which nothing remembers.
TotalComplete == TotalKnown => made \subseteq Costed \cup unrecorded
=============================================================================

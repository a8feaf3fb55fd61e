--------------------------- MODULE CommandJournal ---------------------------
(***************************************************************************)
(* The SQLite journal of commands (state/command_journal.py): one durable  *)
(* row per command this agent has ever accepted. Every method is a single  *)
(* autocommitted statement under the journal's lock, so every operator     *)
(* below is one atomic step of whoever calls it. A row keeps the columns   *)
(* the dedup, resend and staleness logic reads; result_json,               *)
(* error_message and the timestamps are payload.                           *)
(***************************************************************************)
EXTENDS Naturals

CONSTANTS
    Command,      \* the command ids Cloud may issue to this device
    Legacy        \* rows found in a journal file older than the
                  \* placement_generation column (command_journal.py:75-82)

ASSUME LegacyAssumption == Legacy \subseteq Command

VARIABLE journal

Status == {"absent", "accepted", "running", "succeeded", "failed"}
Terminal == {"succeeded", "failed"}

\* "HANDLER_ERROR" stands for every error code a handler itself returns.
ErrorCode == {"none", "HANDLER_ERROR", "HANDLER_EXCEPTION", "NO_HANDLER"}

Row == [status: Status, placement_generation: Nat,
        error_code: ErrorCode, reported_to_cloud: BOOLEAN]

NoRow == [status |-> "absent", placement_generation |-> 0,
          error_code |-> "none", reported_to_cloud |-> FALSE]

\* What INSERT OR IGNORE stores for a command seen for the first time.
AcceptedRow(g) == [NoRow EXCEPT !.status = "accepted", !.placement_generation = g]

JournalTypeOK == journal \in [Command -> Row]

\* ALTER TABLE gave the rows of an older file the column's default, 0.
JournalInit ==
    journal = [c \in Command |-> IF c \in Legacy THEN AcceptedRow(0) ELSE NoRow]

HasSeen(c) == journal[c].status # "absent"

\* Mutant: a command that failed counts as unfinished.
OnlySuccessIsTerminal(c) == journal[c].status = "succeeded"

\* Mutant: any row ends the command (the bug grpc_client.py:225-232 recalls).
AnyRowIsTerminal(c) == HasSeen(c)

HasTerminalResult(c) == journal[c].status \in Terminal

RecordAccepted(c, g) ==
    journal' = [journal EXCEPT ![c] = IF HasSeen(c) THEN @ ELSE AcceptedRow(g)]

RecordRunning(c) ==
    journal' = [journal EXCEPT ![c] =
                    IF HasSeen(c) THEN [@ EXCEPT !.status = "running"] ELSE @]

RecordResult(c, status, error) ==
    journal' = [journal EXCEPT ![c] =
                    IF HasSeen(c)
                    THEN [@ EXCEPT !.status = status, !.error_code = error,
                                   !.reported_to_cloud = FALSE]
                    ELSE @]

MarkReported(c) ==
    journal' = [journal EXCEPT ![c] =
                    IF HasSeen(c) THEN [@ EXCEPT !.reported_to_cloud = TRUE] ELSE @]

\* Mutant: the query without its condition on the status.
UnreportedEntries == {c \in Command : HasSeen(c) /\ ~ journal[c].reported_to_cloud}

\* A set: ORDER BY created_at only fixes the order of the resends, and the
\* model lets them leave in any order.
UnreportedTerminalEntries ==
    {c \in Command : journal[c].status \in Terminal /\ ~ journal[c].reported_to_cloud}
=============================================================================

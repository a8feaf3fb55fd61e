---------------------------- MODULE CommandLedger ----------------------------
(***************************************************************************)
(* What the agent promises about each command, with the stream, the tasks  *)
(* and the journal file left out: a command is opened once and stays open  *)
(* until it gets an outcome; work on its container is done only while it   *)
(* is open; it succeeds only if some work was done; only an outcome is     *)
(* ever reported; an outcome is final, but for one fault: a result the     *)
(* agent could not write or report is replaced by a failure, which is then *)
(* reported afresh. A restart changes nothing here: the ledger is durable. *)
(***************************************************************************)
EXTENDS Naturals

CONSTANT Command

VARIABLES
    outcome,     \* outcome[c]: what is known of the command
    reported,    \* reported[c]: the agent holds c's outcome to be delivered
    work         \* work[c]: how often Container Maker worked for c

vars == <<outcome, reported, work>>

Outcome == {"none", "open", "succeeded", "failed"}
Settled == {"succeeded", "failed"}

LedgerTypeOK ==
    /\ outcome \in [Command -> Outcome]
    /\ reported \in [Command -> BOOLEAN]
    /\ work \in [Command -> Nat]

Init ==
    /\ outcome \in [Command -> {"none", "open"}]
    /\ reported = [c \in Command |-> FALSE]
    /\ work = [c \in Command |-> 0]

Open(c) ==
    /\ outcome[c] = "none"
    /\ outcome' = [outcome EXCEPT ![c] = "open"]
    /\ UNCHANGED <<reported, work>>

Work(c) ==
    /\ outcome[c] = "open"
    /\ work' = [work EXCEPT ![c] = @ + 1]
    /\ UNCHANGED <<outcome, reported>>

Succeed(c) ==
    /\ outcome[c] = "open"
    /\ work[c] > 0
    /\ outcome' = [outcome EXCEPT ![c] = "succeeded"]
    /\ UNCHANGED <<reported, work>>

Fail(c) ==
    /\ outcome[c] = "open"
    /\ outcome' = [outcome EXCEPT ![c] = "failed"]
    /\ UNCHANGED <<reported, work>>

Report(c) ==
    /\ outcome[c] \in Settled
    /\ reported' = [reported EXCEPT ![c] = TRUE]
    /\ UNCHANGED <<outcome, work>>

\* The fault: executor.py:67-69 replaces a result that raised on its way.
Downgrade(c) ==
    /\ outcome[c] \in Settled
    /\ outcome' = [outcome EXCEPT ![c] = "failed"]
    /\ reported' = [reported EXCEPT ![c] = FALSE]
    /\ UNCHANGED work

Next == \E c \in Command :
    Open(c) \/ Work(c) \/ Succeed(c) \/ Fail(c) \/ Report(c) \/ Downgrade(c)

Spec == Init /\ [][Next]_vars
==============================================================================

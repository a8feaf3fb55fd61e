--------------------------- MODULE HandlerContract ---------------------------
(***************************************************************************)
(* What the command handlers promise about one container, with their calls,*)
(* retries, polls, deadlines and crashes left out: pods are made, images   *)
(* pushed and pods removed only for a command that has no outcome yet; the *)
(* pods of a command that saves go only when its image is in the registry; *)
(* an outcome is final, and success says what was done. Pods may be lost   *)
(* at any time.                                                            *)
(***************************************************************************)
EXTENDS Naturals

CONSTANTS
    Command,
    Placers,     \* the commands that make the container's pod
    Savers,      \* those that save its workspace
    Removers     \* those that remove its pods

VARIABLES outcome, pods, made, pushed, removed

vars == <<outcome, pods, made, pushed, removed>>

Init ==
    /\ outcome = [c \in Command |-> "none"]
    /\ pods \in {0, 1}
    /\ made = [c \in Command |-> 0]
    /\ pushed = {}
    /\ removed = {}

Open(c) == outcome[c] = "none"

MakePod(c) ==
    /\ Open(c) /\ c \in Placers
    /\ pods' = pods + 1
    /\ made' = [made EXCEPT ![c] = @ + 1]
    /\ UNCHANGED <<outcome, pushed, removed>>

\* The snapshot job works on its own time: perhaps after the outcome.
PushImage(c) ==
    /\ c \in Savers
    /\ pushed' = pushed \cup {c}
    /\ UNCHANGED <<outcome, pods, made, removed>>

RemovePods(c) ==
    /\ Open(c) /\ c \in Removers
    /\ c \in Savers => c \in pushed
    /\ pods > 0
    /\ pods' = 0
    /\ removed' = removed \cup {c}
    /\ UNCHANGED <<outcome, made, pushed>>

LosePod ==
    /\ pods > 0
    /\ pods' = pods - 1
    /\ UNCHANGED <<outcome, made, pushed, removed>>

Succeed(c) ==
    /\ Open(c)
    /\ c \in Placers => made[c] > 0
    /\ c \in Savers => c \in pushed
    /\ c \in Savers \cap Removers => pods = 0
    /\ outcome' = [outcome EXCEPT ![c] = "succeeded"]
    /\ UNCHANGED <<pods, made, pushed, removed>>

Fail(c) ==
    /\ Open(c)
    /\ outcome' = [outcome EXCEPT ![c] = "failed"]
    /\ UNCHANGED <<pods, made, pushed, removed>>

Next ==
    \/ \E c \in Command :
          MakePod(c) \/ PushImage(c) \/ RemovePods(c) \/ Succeed(c) \/ Fail(c)
    \/ LosePod

Spec == Init /\ [][Next]_vars
==============================================================================

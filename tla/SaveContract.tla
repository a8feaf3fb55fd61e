----------------------------- MODULE SaveContract -----------------------------
(***************************************************************************)
(* What the saves of one container's workspace promise, with their calls,  *)
(* lookups, jobs, rows, polls, retries and crashes left out: a command is  *)
(* taken as saved by an image in the registry that is no older than the    *)
(* command; the pod is removed only for a hibernation that is open and     *)
(* saved; a Save is done when it is saved, a hibernation when the pod is   *)
(* gone as well; and an outcome is final.                                  *)
(***************************************************************************)
EXTENDS Integers

CONSTANTS
    Command,
    Hibernating     \* the commands that remove the pod once it is saved

VARIABLES
    outcome,
    workspace,      \* how often the user has edited it
    images,         \* the workspaces in the registry
    pod,            \* the pod is there
    since,          \* since[c]: the workspace when c was first begun
    saved           \* saved[c]: the workspace by which c was taken as saved

vars == <<outcome, workspace, images, pod, since, saved>>

None == -1

Init ==
    /\ outcome = [c \in Command |-> "none"]
    /\ workspace = 0
    /\ images = {}
    /\ pod = TRUE
    /\ since = [c \in Command |-> None]
    /\ saved = [c \in Command |-> None]

Open(c) == outcome[c] = "none"

Begin(c) ==
    /\ Open(c) /\ since[c] = None
    /\ since' = [since EXCEPT ![c] = workspace]
    /\ UNCHANGED <<outcome, workspace, images, pod, saved>>

Edit ==
    /\ pod
    /\ workspace' = workspace + 1
    /\ UNCHANGED <<outcome, images, pod, since, saved>>

PushImage ==
    /\ pod
    /\ images' = images \cup {workspace}
    /\ UNCHANGED <<outcome, workspace, pod, since, saved>>

TakeAsSaved(c) ==
    /\ Open(c) /\ since[c] # None
    /\ \E w \in images :
          /\ since[c] <= w /\ w <= workspace
          /\ saved' = [saved EXCEPT ![c] = w]
    /\ outcome' = [outcome EXCEPT ![c] = IF c \in Hibernating THEN @ ELSE "succeeded"]
    /\ UNCHANGED <<workspace, images, pod, since>>

RemovePod(c) ==
    /\ Open(c) /\ c \in Hibernating /\ saved[c] # None
    /\ pod /\ pod' = FALSE
    /\ UNCHANGED <<outcome, workspace, images, since, saved>>

Succeed(c) ==
    /\ Open(c) /\ c \in Hibernating /\ saved[c] # None
    /\ ~ pod
    /\ outcome' = [outcome EXCEPT ![c] = "succeeded"]
    /\ UNCHANGED <<workspace, images, pod, since, saved>>

Fail(c) ==
    /\ Open(c)
    /\ outcome' = [outcome EXCEPT ![c] = "failed"]
    /\ UNCHANGED <<workspace, images, pod, since, saved>>

Next ==
    \/ \E c \in Command :
          Begin(c) \/ TakeAsSaved(c) \/ RemovePod(c) \/ Succeed(c) \/ Fail(c)
    \/ Edit \/ PushImage

Spec == Init /\ [][Next]_vars
===============================================================================

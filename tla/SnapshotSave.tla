---------------------------- MODULE SnapshotSave ----------------------------
(***************************************************************************)
(* What a save saves: perform_save (commands/save_execution.py) for Save   *)
(* and Hibernate commands on one container whose user keeps editing. The   *)
(* agent's call makes Container Maker look the container up through the    *)
(* agent's own local API (GetContainer, UpdateContainerKubernetesId)       *)
(* before it creates a snapshot job; the job, on its own time, allocates a *)
(* snapshot under the command's trace_id (AllocateSnapshot), copies the    *)
(* workspace, pushes it and reports (ReportSnapshotResult); and the        *)
(* handler polls Cloud for that trace_id's row. A command redelivered      *)
(* after a crash has the trace_id it had. Container Maker, the job and     *)
(* Cloud are external; LifecycleCommands has the handlers' other calls.    *)
(***************************************************************************)
EXTENDS Integers, FiniteSets

CONSTANTS
    Command,
    NoCommand,      \* current's value while no handler runs
    Hibernating,    \* the commands that delete the pod once it is saved
    MaxAttempts,    \* call_with_retry's max_attempts
    MaxEdits,       \* bound: edits of the workspace
    MaxFaults       \* bound: crashes, calls and jobs that fail, lost answers

ASSUME CommandAssumption == NoCommand \notin Command /\ Hibernating \subseteq Command
ASSUME BoundAssumption ==
    /\ MaxAttempts \in Nat \ {0}
    /\ MaxEdits \in Nat /\ MaxFaults \in Nat

VARIABLES
    current, phase,   \* the command whose handler runs, and where it stands
    attempt,          \* call_with_retry's attempt
    seen,             \* what the last poll returned
    late,             \* the poll deadline has passed
    begun,            \* history: the workspace when this handler began
    result,           \* result[c]: "none", "succeeded" or "failed"
    lookups,          \* Container Maker's saves that have not made their job
    jobs,             \* the snapshot jobs
    rows,             \* rows[r]: Cloud's row for request id r
    pod,              \* the container's pod is there
    workspace,        \* how often its user has edited it
    images,           \* the workspaces in the registry
    first,            \* history: the workspace when c was first begun
    confirmed,        \* history: the workspace by which c was taken as saved
    faults

handler == <<current, phase, attempt, seen, late, begun>>
external == <<lookups, jobs, rows, pod, workspace, images>>
history == <<first, confirmed>>
vars == <<handler, result, external, history, faults>>

None == -1
Workspace == 0..MaxEdits
Row == [status: {"none", "Pending", "Succeeded", "Failed"},
        image: {None} \cup Workspace]
NoRow == [status |-> "none", image |-> None]

Lookup == [command: Command, healed: BOOLEAN, awaited: BOOLEAN]
Job == [command: Command, allocated: BOOLEAN, pushed: {None} \cup Workspace]

\* Mutant: one request id for every save of the container.
SharedRequestId(c) == CHOOSE d \in Command : TRUE

\* trace_id.
RequestId(c) == c

TypeOK ==
    /\ current \in Command \cup {NoCommand}
    /\ phase \in {"idle", "trigger", "triggered", "poll", "decide", "delete", "deleted"}
    /\ current = NoCommand <=> phase = "idle"
    /\ attempt \in 0..(MaxAttempts - 1)
    /\ seen \in Row
    /\ late \in BOOLEAN
    /\ begun \in {None} \cup Workspace
    /\ result \in [Command -> {"none", "succeeded", "failed"}]
    /\ lookups \subseteq Lookup
    /\ jobs \subseteq Job
    /\ rows \in [Command -> Row]
    /\ pod \in BOOLEAN
    /\ workspace \in Workspace
    /\ images \subseteq Workspace
    /\ first \in [Command -> {None} \cup Workspace]
    /\ confirmed \in [Command -> {None} \cup Workspace]
    /\ faults \in 0..MaxFaults

Init ==
    /\ current = NoCommand
    /\ phase = "idle"
    /\ attempt = 0
    /\ seen = NoRow
    /\ late = FALSE
    /\ begun = None
    /\ result = [c \in Command |-> "none"]
    /\ lookups = {}
    /\ jobs = {}
    /\ rows = [c \in Command |-> NoRow]
    /\ pod = TRUE
    /\ workspace = 0
    /\ images = {}
    /\ first = [c \in Command |-> None]
    /\ confirmed = [c \in Command |-> None]
    /\ faults = 0

-----------------------------------------------------------------------------
(* The handler *)

Begin(c) ==
    /\ phase = "idle"
    /\ result[c] = "none"
    /\ current' = c
    /\ phase' = "trigger"
    /\ first' = [first EXCEPT ![c] = IF @ = None THEN workspace ELSE @]
    /\ begun' = workspace
    /\ UNCHANGED <<attempt, seen, late, result, external, confirmed, faults>>

Idle ==
    /\ current' = NoCommand
    /\ phase' = "idle"
    /\ attempt' = 0
    /\ seen' = NoRow
    /\ late' = FALSE
    /\ begun' = None

Return(outcome) ==
    /\ Idle
    /\ result' = [result EXCEPT ![current] = outcome]

Fault == faults < MaxFaults /\ faults' = faults + 1

Forsaken == {[l EXCEPT !.awaited = FALSE] : l \in lookups}

\* UNAVAILABLE, whether or not Container Maker has the call: once more, or
\* "the save never started".
CallFails ==
    /\ phase \in {"trigger", "triggered"}
    /\ Fault
    /\ lookups' = Forsaken
    /\ \/ /\ attempt < MaxAttempts - 1
          /\ attempt' = attempt + 1
          /\ phase' = "trigger"
          /\ UNCHANGED <<current, seen, late, begun, result>>
       \/ attempt = MaxAttempts - 1 /\ Return("failed")
    /\ UNCHANGED <<jobs, rows, pod, workspace, images, history>>

\* The status is Cloud's when it answered; a poll that fails knows nothing.
Poll ==
    /\ phase = "poll"
    /\ phase' = "decide"
    /\ seen' \in {rows[RequestId(current)], NoRow}
    /\ UNCHANGED <<current, attempt, late, begun, result, external, history, faults>>

\* Mutant: a hibernation is a success as soon as its save is.
ConfirmAndReturn ==
    /\ phase = "decide" /\ seen.status = "Succeeded"
    /\ confirmed' = [confirmed EXCEPT ![current] = seen.image]
    /\ Return("succeeded")
    /\ UNCHANGED <<external, first, faults>>

Confirm ==
    /\ phase = "decide" /\ seen.status = "Succeeded"
    /\ confirmed' = [confirmed EXCEPT ![current] = seen.image]
    /\ IF current \in Hibernating
       THEN phase' = "delete" /\ UNCHANGED <<current, attempt, seen, late, begun, result>>
       ELSE Return("succeeded")
    /\ UNCHANGED <<external, first, faults>>

SaveFails ==
    /\ phase = "decide"
    /\ seen.status = "Failed" \/ (seen.status # "Succeeded" /\ late)
    /\ Return("failed")
    /\ UNCHANGED <<external, history, faults>>

PollAgain ==
    /\ phase = "decide"
    /\ seen.status \notin {"Succeeded", "Failed"} /\ ~ late
    /\ phase' = "poll"
    /\ UNCHANGED <<current, attempt, seen, late, begun, result, external, history, faults>>

\* The delete call removes the pod, or fails.
Delete ==
    /\ phase = "delete"
    /\ \/ pod' = FALSE /\ phase' = "deleted"
          /\ UNCHANGED <<current, attempt, seen, late, begun, result>>
       \/ Return("failed") /\ UNCHANGED pod
    /\ UNCHANGED <<lookups, jobs, rows, workspace, images, history, faults>>

DeleteReturns ==
    /\ phase = "deleted"
    /\ Return("succeeded")
    /\ UNCHANGED <<external, history, faults>>

DeadlinePasses ==
    /\ phase \in {"poll", "decide"} /\ ~ late
    /\ late' = TRUE
    /\ UNCHANGED <<current, phase, attempt, seen, begun, result, external, history, faults>>

Crash ==
    /\ phase # "idle"
    /\ Fault
    /\ Idle
    /\ lookups' = Forsaken
    /\ UNCHANGED <<result, jobs, rows, pod, workspace, images, history>>

-----------------------------------------------------------------------------
(* Container Maker, which calls back before it answers *)

\* Mutant: the stub is called on the event loop.
CallHoldsLoop == {"triggered"}

\* The phases that hold the event loop: none, the stub is called in a thread.
HoldsLoop == {}

LocalApiServed == phase \notin HoldsLoop

TakeCall ==
    /\ phase = "trigger"
    /\ phase' = "triggered"
    /\ lookups' = lookups \cup
          {[command |-> current, healed |-> FALSE, awaited |-> TRUE]}
    /\ UNCHANGED <<current, attempt, seen, late, begun, result, jobs, rows, pod, workspace,
                   images, history, faults>>

\* A save that ends without a job, answered with an error if anyone waits.
Refused(l) ==
    /\ l \in lookups
    /\ lookups' = lookups \ {l}
    /\ IF l.awaited THEN Return("failed")
       ELSE UNCHANGED <<handler, result>>
    /\ UNCHANGED <<jobs, rows, pod, workspace, images, history, faults>>

\* GetContainer found it, or UpdateContainerKubernetesId was acknowledged.
LookUp(l) ==
    /\ LocalApiServed
    /\ l \in lookups /\ ~ l.healed
    /\ lookups' = (lookups \ {l}) \cup {[l EXCEPT !.healed = TRUE]}
    /\ UNCHANGED <<handler, result, jobs, rows, pod, workspace, images, history, faults>>

\* The job is created and the call answered: nothing is saved yet.
CreateJob(l) ==
    /\ l \in lookups /\ l.healed /\ pod
    /\ lookups' = lookups \ {l}
    /\ jobs' = jobs \cup {[command |-> l.command, allocated |-> FALSE,
                           pushed |-> None]}
    /\ IF l.awaited
       THEN phase' = "poll" /\ attempt' = 0 /\ UNCHANGED <<current, seen, late, begun>>
       ELSE UNCHANGED handler
    /\ UNCHANGED <<result, rows, pod, workspace, images, history, faults>>

-----------------------------------------------------------------------------
(* The snapshot job, the user and the cluster *)

Becomes(j, k) ==
    /\ jobs' = (jobs \ {j}) \cup {k}
    /\ UNCHANGED <<handler, result, lookups, pod, workspace, history>>

\* AllocateSnapshot: of a request id seen before Cloud keeps the row or begins
\* it anew. If the answer is lost, allocate_snapshot asks again.
Allocate(j) ==
    /\ LocalApiServed
    /\ j \in jobs /\ ~ j.allocated
    /\ LET r == RequestId(j.command) IN
          \/ rows' = [rows EXCEPT ![r] = [status |-> "Pending", image |-> None]]
          \/ rows[r].status # "none" /\ UNCHANGED rows
    /\ \/ Becomes(j, [j EXCEPT !.allocated = TRUE]) /\ UNCHANGED faults
       \/ Becomes(j, j) /\ Fault
    /\ UNCHANGED images

\* The workspace is copied out of the pod, and the image built from it pushed.
Push(j) ==
    /\ j \in jobs /\ j.pushed = None /\ pod
    /\ Becomes(j, [j EXCEPT !.pushed = workspace])
    /\ images' = images \cup {workspace}
    /\ UNCHANGED <<rows, faults>>

\* ReportSnapshotResult: taken by Cloud, or lost after all its attempts.
JobEnds(j) ==
    /\ LocalApiServed
    /\ j \in jobs
    /\ jobs' = jobs \ {j}
    /\ LET Report(status) ==
              j.allocated /\ rows' = [rows EXCEPT ![RequestId(j.command)] =
                                         [status |-> status, image |-> j.pushed]]
       IN  \/ j.pushed # None /\ Report("Succeeded") /\ UNCHANGED faults
           \/ j.pushed = None /\ Report("Failed") /\ Fault
           \/ UNCHANGED rows /\ Fault
    /\ UNCHANGED <<handler, result, lookups, pod, workspace, images, history>>

Edit ==
    /\ pod /\ workspace < MaxEdits
    /\ workspace' = workspace + 1
    /\ UNCHANGED <<handler, result, lookups, jobs, rows, pod, images, history, faults>>

-----------------------------------------------------------------------------

Handling ==
    CallFails \/ Poll \/ Confirm \/ SaveFails \/ PollAgain \/ Delete \/ DeleteReturns

ContainerMaker ==
    \/ TakeCall
    \/ \E l \in lookups : Refused(l) \/ LookUp(l) \/ CreateJob(l)

Working(j) == Allocate(j) \/ Push(j) \/ JobEnds(j)

Next ==
    \/ \E c \in Command : Begin(c)
    \/ Handling \/ DeadlinePasses \/ Crash
    \/ ContainerMaker
    \/ \E j \in jobs : Working(j)
    \/ Edit

Spec == Init /\ [][Next]_vars

\* The event loop runs what is ready and time passes. Container Maker is
\* assumed to take calls and to go on with the one that is awaited: that it
\* refuses one that has not looked its container up, or that a call fails, is
\* never assumed.
Proceeding == TakeCall \/ (phase \notin {"trigger", "triggered"} /\ Handling)

Answering ==
    \E l \in lookups :
        l.awaited /\ (LookUp(l) \/ (l.healed /\ (CreateJob(l) \/ Refused(l))))

Fairness ==
    WF_vars(Proceeding) /\ WF_vars(DeadlinePasses) /\ WF_vars(Answering)

FairSpec == Spec /\ Fairness

-----------------------------------------------------------------------------
(* Properties *)

\* perform_save and hibernate.py: what a handler takes as saved is in the
\* registry and no older than the command; a save succeeds and a pod is
\* deleted on such a confirmation only, whichever of the container's saves,
\* retried calls and leftover jobs Cloud heard from last.
FreshSave ==
    /\ \A c \in Command :
          confirmed[c] # None => confirmed[c] \in images /\ first[c] \in 0..confirmed[c]
    /\ \A c \in Command : result[c] = "succeeded" => confirmed[c] # None
    /\ ~ pod => \E c \in Hibernating : confirmed[c] # None

\* The saves, whatever they retry, leave behind or run again, do what
\* SaveContract allows: the pod goes only for an open hibernation that is
\* saved, which succeeds only once it is gone (save.py, hibernate.py:83-112).
Contract == INSTANCE SaveContract WITH outcome <- result, since <- first, saved <- confirmed

SaveSpec == Contract!Spec

\* The agent and Container Maker never wait for each other: a call that is
\* taken can be answered, through the local API if need be, a handler that is
\* not in a call can go on, and its deadline comes (container_maker_client.py,
\* local_api/service.py, save_execution.py:77-105).
NeverStuck ==
    /\ phase = "triggered" => ENABLED <<Answering>>_vars
    /\ phase \notin {"idle", "triggered"} => ENABLED <<Proceeding>>_vars
    /\ phase \in {"poll", "decide"} /\ ~ late => ENABLED <<DeadlinePasses>>_vars

\* perform_save and container_maker_client.py: a handler that waits for a save
\* comes to an end, although the call it waits for is answered only after the
\* agent itself has served Container Maker's lookups.
SaveEnds == phase # "idle" ~> phase = "idle"

\* save_execution.py:2 and :19-22: nothing happens before the save just
\* triggered is confirmed, so what a handler takes as saved has the workspace
\* as it was when that handler began. (Violated: a redelivered command polls
\* under the trace_id its first execution used.)
ConfirmsOwnSave ==
    phase \in {"delete", "deleted"} => confirmed[current] >= begun
=============================================================================

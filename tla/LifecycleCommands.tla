-------------------------- MODULE LifecycleCommands --------------------------
(***************************************************************************)
(* The command handlers (commands/create.py, resume.py, delete.py,         *)
(* save.py, hibernate.py with save_execution.py) at work on one container: *)
(* their calls to Container Maker through clients/container_maker_client.py*)
(* and call_with_retry, the pods those calls make and remove, the snapshot *)
(* job that saves a workspace on its own time, and Cloud's record of it,   *)
(* which perform_save polls until a deadline. The read loop runs one       *)
(* handler at a time; a command without a recorded result is delivered     *)
(* again, so a crash anywhere starts its handler over.                     *)
(***************************************************************************)
EXTENDS Naturals

CONSTANTS
    Command,
    NoCommand,       \* current's value while no handler runs
    Operation,       \* Operation[c]: the operation c asks for
    Config,          \* Config[c]: what its container_config_json holds
    MaxAttempts,     \* call_with_retry's max_attempts
    MaxCrashes,      \* bound: crashes of the agent
    MaxLosses        \* bound: UNAVAILABLE answers to calls that were served

Placing == {"Create", "Resume"}

\* "full": all its fields; "skip_save": and skip_save set; "no_image": and
\* saved_image empty; "invalid": no JSON, or a required field missing.
Configs == {"full", "skip_save", "no_image", "invalid"}

ErrorCode ==
    {"INVALID_CONFIG", "MISSING_SAVED_IMAGE", "CONTAINER_MAKER_ERROR",
     "SNAPSHOT_TIMED_OUT", "SNAPSHOT_FAILED", "POD_DELETE_FAILED",
     "POD_DELETE_FAILED_AFTER_SAVE"}

Reply == {"none", "ok", "no_pods", "unavailable", "error", "not_found"}
SaveStatus == {"none", "running", "succeeded", "imageless", "failed"}

ASSUME NoCommandAssumption == NoCommand \notin Command
ASSUME CommandAssumption ==
    /\ Operation \in [Command -> Placing \cup {"Delete", "Hibernate", "Save"}]
    /\ Config \in [Command -> Configs]
ASSUME BoundAssumption ==
    /\ MaxAttempts \in Nat \ {0}
    /\ MaxCrashes \in Nat /\ MaxLosses \in Nat

VARIABLES
    current,       \* the command whose handler runs
    phase,         \* where it stands
    attempt,       \* call_with_retry's attempt
    reply,         \* what the call it awaits has come to
    seen,          \* the save status the last poll returned
    late,          \* the poll deadline has passed
    result,        \* result[c]: "none", "succeeded" or an error code
    pods,          \* pods of the container in the cluster
    save_status,   \* save_status[c]: Cloud's container_snapshots row for c
    job,           \* job[c]: the snapshot job for c
    pushed,        \* history: commands whose image is in the registry
    deleted,       \* history: commands whose call removed the pods
    created,       \* created[c]: history: pods made for c
    crashes, losses

handler == <<current, phase, attempt, reply, seen, late>>
cluster == <<pods, save_status, job, pushed, deleted, created>>
vars == <<handler, result, cluster, crashes, losses>>

TypeOK ==
    /\ current \in Command \cup {NoCommand}
    /\ phase \in {"idle", "create", "trigger", "poll", "decide", "delete"}
    /\ current \in Command <=> phase # "idle"
    /\ attempt \in 0..(MaxAttempts - 1)
    /\ reply \in Reply
    /\ seen \in SaveStatus \cup {"unknown"}
    /\ late \in BOOLEAN
    /\ result \in [Command -> {"none", "succeeded"} \cup ErrorCode]
    /\ pods \in Nat
    /\ save_status \in [Command -> SaveStatus]
    /\ job \in [Command -> {"none", "running", "pushed"}]
    /\ pushed \subseteq Command
    /\ deleted \subseteq Command
    /\ created \in [Command -> Nat]
    /\ crashes \in 0..MaxCrashes
    /\ losses \in 0..MaxLosses

Init ==
    /\ current = NoCommand
    /\ phase = "idle"
    /\ attempt = 0
    /\ reply = "none"
    /\ seen = "none"
    /\ late = FALSE
    /\ result = [c \in Command |-> "none"]
    /\ pods \in {0, 1}
    /\ save_status = [c \in Command |-> "none"]
    /\ job = [c \in Command |-> "none"]
    /\ pushed = {}
    /\ deleted = {}
    /\ created = [c \in Command |-> 0]
    /\ crashes = 0
    /\ losses = 0

-----------------------------------------------------------------------------
(* Shared steps of a handler *)

\* A config that does not parse is {} to hibernate.py: no skip_save.
SkipSave(c) == Operation[c] = "Hibernate" /\ Config[c] = "skip_save"
Saving(c) == Operation[c] \in {"Save", "Hibernate"} /\ ~ SkipSave(c)

Idle ==
    /\ current' = NoCommand
    /\ phase' = "idle"
    /\ attempt' = 0
    /\ reply' = "none"
    /\ seen' = "none"
    /\ late' = FALSE

Return(outcome) ==
    /\ Idle
    /\ result' = [result EXCEPT ![current] = outcome]
    /\ UNCHANGED <<cluster, crashes, losses>>

\* The handler awaits another call.
Await(p) ==
    /\ phase' = p
    /\ attempt' = 0
    /\ reply' = "none"
    /\ seen' = "none"
    /\ late' = FALSE

FirstPhase(c) ==
    CASE Operation[c] \in Placing -> "create"
      [] Saving(c) -> "trigger"
      [] OTHER -> "delete"

ConfigError(c) ==
    IF Operation[c] \in Placing
    THEN IF Config[c] = "invalid" THEN "INVALID_CONFIG"
         ELSE IF Operation[c] = "Resume" /\ Config[c] = "no_image"
              THEN "MISSING_SAVED_IMAGE" ELSE "none"
    ELSE "none"

RejectConfig(c) ==
    /\ phase = "idle"
    /\ result[c] = "none"
    /\ ConfigError(c) # "none"
    /\ result' = [result EXCEPT ![c] = ConfigError(c)]
    /\ UNCHANGED <<handler, cluster, crashes, losses>>

Begin(c) ==
    /\ phase = "idle"
    /\ result[c] = "none"
    /\ ConfigError(c) = "none"
    /\ current' = c
    /\ Await(FirstPhase(c))
    /\ UNCHANGED <<result, cluster, crashes, losses>>

\* Mutant: every failed call is worth another attempt.
AnyErrorRetryable(r) == r \in {"unavailable", "error", "not_found"}

Retryable(r) == r = "unavailable"

Retry ==
    /\ Retryable(reply)
    /\ attempt < MaxAttempts - 1
    /\ attempt' = attempt + 1
    /\ reply' = "none"
    /\ UNCHANGED <<current, phase, seen, late, result, cluster, crashes, losses>>

\* Mutant: the last attempt is looked for one attempt too late.
CallFailedTooLate ==
    /\ reply \in {"unavailable", "error", "not_found"}
    /\ Retryable(reply) => attempt = MaxAttempts

\* The call has raised ContainerMakerClientError.
CallFailed ==
    /\ reply \in {"unavailable", "error", "not_found"}
    /\ Retryable(reply) => attempt = MaxAttempts - 1

-----------------------------------------------------------------------------
(* create.py, resume.py *)

\* Mutant: a create that was never answered counts as served.
CreateAssumed ==
    /\ phase = "create"
    /\ \/ reply = "ok" /\ Return("succeeded")
       \/ /\ CallFailed
          /\ Return(IF Retryable(reply) THEN "succeeded" ELSE "CONTAINER_MAKER_ERROR")

CreateReturns ==
    /\ phase = "create"
    /\ \/ reply = "ok" /\ Return("succeeded")
       \/ CallFailed /\ Return("CONTAINER_MAKER_ERROR")

-----------------------------------------------------------------------------
(* perform_save, for save.py and hibernate.py *)

TriggerReturns ==
    /\ phase = "trigger"
    /\ \/ /\ reply = "ok"
          /\ Await("poll")
          /\ UNCHANGED <<current, result, cluster, crashes, losses>>
       \/ (reply = "no_pods" \/ CallFailed) /\ Return("SNAPSHOT_FAILED")

\* The status is Cloud's when it answered; a poll that fails knows nothing.
Poll ==
    /\ phase = "poll"
    /\ phase' = "decide"
    /\ seen' \in {save_status[current], "unknown"}
    /\ UNCHANGED <<current, attempt, reply, late, result, cluster, crashes, losses>>

\* Mutant: "Succeeded" is enough, whatever image_reference says.
ConfirmedByStatus(s) == s \in {"succeeded", "imageless"}

Confirmed(s) == s = "succeeded"

\* Mutant: time is not up while Cloud cannot be asked.
OutOfTimeWhenKnown == late /\ seen # "unknown"

OutOfTime == late

\* The status first, the deadline only if it says nothing final.
Decide ==
    /\ phase = "decide"
    /\ \/ /\ Confirmed(seen) /\ Operation[current] = "Save"
          /\ Return("succeeded")
       \/ /\ Confirmed(seen) /\ Operation[current] = "Hibernate"
          /\ Await("delete")
          /\ UNCHANGED <<current, result, cluster, crashes, losses>>
       \/ seen = "failed" /\ Return("SNAPSHOT_FAILED")
       \/ /\ ~ Confirmed(seen) /\ seen # "failed" /\ OutOfTime
          /\ Return("SNAPSHOT_TIMED_OUT")
       \/ /\ ~ Confirmed(seen) /\ seen # "failed" /\ ~ OutOfTime
          /\ phase' = "poll"
          /\ UNCHANGED <<current, attempt, reply, seen, late, result, cluster,
                         crashes, losses>>

-----------------------------------------------------------------------------
(* delete.py, and the deletes of hibernate.py *)

\* Mutant: a pod already gone is success for every removal.
GoneIsAlwaysSuccess(c) == TRUE

GoneIsSuccess(c) == Operation[c] = "Delete" \/ SkipSave(c)

DeleteError(c) ==
    IF Operation[c] = "Delete" THEN "CONTAINER_MAKER_ERROR"
    ELSE IF SkipSave(c) THEN "POD_DELETE_FAILED" ELSE "POD_DELETE_FAILED_AFTER_SAVE"

DeleteReturns ==
    /\ phase = "delete"
    /\ \/ reply = "ok" /\ Return("succeeded")
       \/ /\ CallFailed
          /\ Return(IF reply = "not_found" /\ GoneIsSuccess(current)
                    THEN "succeeded" ELSE DeleteError(current))

-----------------------------------------------------------------------------
(* Container Maker, the cluster and the snapshot job *)

\* How a call that was served comes back: as it should, as another error, or
\* as UNAVAILABLE, the connection having died under it.
Served(oks) ==
    \/ reply' \in oks \cup {"error"} /\ UNCHANGED losses
    \/ losses < MaxLosses /\ losses' = losses + 1 /\ reply' = "unavailable"

Calling == phase \in {"create", "trigger", "delete"} /\ reply = "none"

CreatePod ==
    /\ Calling /\ phase = "create"
    /\ pods' = pods + 1
    /\ created' = [created EXCEPT ![current] = @ + 1]
    /\ Served({"ok"})
    /\ UNCHANGED <<current, phase, attempt, seen, late, result, save_status, job,
                   pushed, deleted, crashes>>

\* For a request id seen before Cloud may keep the row or begin it anew.
TriggerJob ==
    /\ Calling /\ phase = "trigger"
    /\ pods > 0
    /\ job' = [job EXCEPT ![current] = "running"]
    /\ \/ save_status' = [save_status EXCEPT ![current] = "running"]
       \/ save_status[current] # "none" /\ UNCHANGED save_status
    /\ Served({"ok", "no_pods"})
    /\ UNCHANGED <<current, phase, attempt, seen, late, result, pods, pushed,
                   deleted, created, crashes>>

DeletePods ==
    /\ Calling /\ phase = "delete"
    /\ pods > 0
    /\ pods' = 0
    /\ deleted' = deleted \cup {current}
    /\ Served({"ok"})
    /\ UNCHANGED <<current, phase, attempt, seen, late, result, save_status, job,
                   pushed, created, crashes>>

\* Not reached, or refused: anything the call needs may be what is not found.
Refuse ==
    /\ Calling
    /\ reply' \in {"unavailable", "error", "not_found"}
    /\ UNCHANGED <<current, phase, attempt, seen, late, result, cluster, crashes,
                   losses>>

JobPushes(c) ==
    /\ job[c] = "running"
    /\ job' = [job EXCEPT ![c] = "pushed"]
    /\ pushed' = pushed \cup {c}
    /\ UNCHANGED <<handler, result, pods, save_status, deleted, created, crashes,
                   losses>>

\* The job ends; its report reaches Cloud or is lost after all its retries.
JobEnds(c) ==
    /\ job[c] # "none"
    /\ job' = [job EXCEPT ![c] = "none"]
    /\ \/ job[c] = "pushed" /\ save_status' = [save_status EXCEPT ![c] = "succeeded"]
       \/ job[c] = "running" /\ \E s \in {"failed", "imageless"} :
             save_status' = [save_status EXCEPT ![c] = s]
       \/ UNCHANGED save_status
    /\ UNCHANGED <<handler, result, pods, pushed, deleted, created, crashes, losses>>

\* restart_policy Never: a pod that crashes or is evicted is gone.
PodLost ==
    /\ pods > 0
    /\ pods' = pods - 1
    /\ UNCHANGED <<handler, result, save_status, job, pushed, deleted, created,
                   crashes, losses>>

DeadlinePasses ==
    /\ phase \in {"poll", "decide"}
    /\ ~ late
    /\ late' = TRUE
    /\ UNCHANGED <<current, phase, attempt, reply, seen, result, cluster, crashes,
                   losses>>

Crash ==
    /\ phase # "idle"
    /\ crashes < MaxCrashes
    /\ crashes' = crashes + 1
    /\ Idle
    /\ UNCHANGED <<result, cluster, losses>>

-----------------------------------------------------------------------------

Handling ==
    Retry \/ CreateReturns \/ TriggerReturns \/ Poll \/ Decide \/ DeleteReturns

ContainerMaker == CreatePod \/ TriggerJob \/ DeletePods \/ Refuse

Next ==
    \/ \E c \in Command : RejectConfig(c) \/ Begin(c) \/ JobPushes(c) \/ JobEnds(c)
    \/ Handling
    \/ ContainerMaker
    \/ PodLost
    \/ DeadlinePasses
    \/ Crash

Spec == Init /\ [][Next]_vars

\* The event loop runs a handler that can go on, time passes, and every call
\* to Container Maker comes back: of this last the code makes no effort, its
\* calls carry no timeout (container_maker_client.py:87).
FairSpec == Spec /\ WF_vars(Handling) /\ WF_vars(DeadlinePasses) /\ WF_vars(ContainerMaker)

-----------------------------------------------------------------------------
(* Properties *)

\* A workspace is given up, and a save called a success, only when its image
\* is really in the registry: never on the strength of the trigger's answer,
\* of an unanswered poll, or of a status without an image
\* (save_execution.py:17-22, hibernate.py:14-16).
ImageBeforeAnything ==
    \A c \in Command :
        Saving(c) /\ (c \in deleted \/ result[c] = "succeeded") => c \in pushed

Succeeds(c) == result[c] # "succeeded" /\ result'[c] = "succeeded"

\* When a hibernation that saves becomes a success, the pods are gone at that
\* very moment (hibernate.py:112), whatever crashed, vanished or was retried.
HibernatedIsGone ==
    [][\A c \in Command :
         Operation[c] = "Hibernate" /\ Saving(c) /\ Succeeds(c) => pods' = 0]_vars

\* One execution makes one pod; each further pod made for a command is owed
\* to a crash or to an UNAVAILABLE that came after the work was done
\* (container_maker_client.py:33-38).
PodsAreOwed == \A c \in Command : created[c] <= 1 + crashes + losses

\* No handler is ever stuck: a call that is out can be answered, whatever
\* comes back there is a way on, and the deadline comes while it polls.
NeverStuck ==
    /\ Calling => ENABLED <<ContainerMaker>>_vars
    /\ phase # "idle" /\ ~ Calling => ENABLED <<Handling>>_vars
    /\ phase \in {"poll", "decide"} /\ ~ late => ENABLED <<DeadlinePasses>>_vars

\* A handler that was started ends, even with Cloud out of reach throughout:
\* the read loop, and every command behind it, waits for it.
HandlerEnds == phase # "idle" ~> phase = "idle"

\* The handlers, whatever they retry, poll or lose, do for each command what
\* HandlerContract allows: work only before its outcome, pods removed only
\* once the image is pushed, success only for what was done (create.py,
\* resume.py, delete.py, save.py, hibernate.py).
OutcomeOf(c) ==
    IF result[c] \in {"none", "succeeded"} THEN result[c] ELSE "failed"

Outcomes == [c \in Command |-> OutcomeOf(c)]

Contract == INSTANCE HandlerContract WITH
    Placers <- {c \in Command : Operation[c] \in Placing},
    Savers <- {c \in Command : Saving(c)},
    Removers <- {c \in Command : Operation[c] \in {"Delete", "Hibernate"}},
    outcome <- Outcomes,
    made <- created,
    removed <- deleted

ContractSpec == Contract!Spec
==============================================================================

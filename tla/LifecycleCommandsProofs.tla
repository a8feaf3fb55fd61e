----------------------- MODULE LifecycleCommandsProofs -----------------------
(***************************************************************************)
(* LifecycleCommands for any commands, configs and retry limits, and       *)
(* however many crashes and lost answers: its types, that no               *)
(* workspace is given up without its image, that a hibernation recorded as *)
(* a success has no pod left, what each pod beyond the first is owed to,   *)
(* that the handlers implement HandlerContract, and that, with at most     *)
(* three attempts, every one of them ends.                                 *)
(***************************************************************************)
EXTENDS LifecycleCommands, TLAPS

\* Where a handler may stand depends on the operation it is for.
PhaseInv ==
    /\ phase = "create" => Operation[current] \in Placing
    /\ phase \in {"trigger", "poll", "decide"} => Saving(current)
    /\ phase \in {"poll", "decide"} => reply = "none"
    /\ phase = "delete" => Operation[current] \in {"Delete", "Hibernate"}

\* Succeeded, whoever says it, is said of an image in the registry.
ImageInv ==
    /\ \A c \in Command : job[c] = "pushed" \/ save_status[c] = "succeeded" => c \in pushed
    /\ seen = "succeeded" => current \in pushed
    /\ phase = "delete" /\ Saving(current) => current \in pushed
    /\ ImageBeforeAnything

\* Between a delete's OK and its handler's return nothing makes a pod.
GoneInv == phase = "delete" /\ reply = "ok" => pods = 0

\* The pod of the execution under way is not yet owed to anything.
PodsInv ==
    /\ PodsAreOwed
    /\ \A c \in Command :
          result[c] = "none" /\ ~ (c = current /\ phase = "create")
             => created[c] <= crashes + losses
    /\ phase = "create" /\ reply \in {"none", "unavailable"}
          => created[current] <= crashes + losses

IInv == TypeOK /\ PhaseInv /\ ImageInv /\ GoneInv /\ PodsInv

\* An agent with no handler running is well typed.
LEMMA TypeInit == Init => TypeOK
  <1>1. Init => late \in BOOLEAN
    BY DEF Init
  <1>. QED
  BY <1>1, NoCommandAssumption, BoundAssumption DEF Init, TypeOK, Reply, SaveStatus

\* Which call a handler makes first, and for which operations.
LEMMA FirstPhases ==
    ASSUME NEW c \in Command
    PROVE  /\ FirstPhase(c) \in {"create", "trigger", "delete"}
           /\ FirstPhase(c) = "create" => Operation[c] \in Placing
           /\ FirstPhase(c) = "trigger" => Saving(c)
           /\ FirstPhase(c) = "delete" =>
                 Operation[c] \in {"Delete", "Hibernate"} /\ ~ Saving(c)
  BY CommandAssumption DEF FirstPhase, Placing, Saving, SkipSave

\* Every return of a handler keeps the types.
LEMMA ReturnTypes ==
    ASSUME TypeOK, phase # "idle",
           NEW o \in {"succeeded"} \cup ErrorCode, Return(o)
    PROVE  TypeOK'
  <1>1. 0 \in 0..(MaxAttempts - 1)
    BY BoundAssumption
  <1>2. current \in Command /\ NoCommand \notin Command
    BY NoCommandAssumption DEF TypeOK
  <1>3. result' \in [Command -> {"none", "succeeded"} \cup ErrorCode]
    BY <1>2 DEF TypeOK, Return
  <1>. QED  BY <1>1, <1>2, <1>3 DEF TypeOK, Return, Idle, cluster, Reply, SaveStatus

\* A handler that awaits its next call keeps the types.
LEMMA AwaitTypes ==
    ASSUME TypeOK, NEW p \in {"create", "trigger", "poll", "delete"}, Await(p),
           current' \in Command, UNCHANGED <<result, cluster, crashes, losses>>
    PROVE  TypeOK'
  <1>1. 0 \in 0..(MaxAttempts - 1)
    BY BoundAssumption
  <1>. QED  BY <1>1 DEF TypeOK, Await, cluster, Reply, SaveStatus

\* Every step of a handler, of Container Maker or of a job keeps the types.
LEMMA TypeStep == TypeOK /\ [Next]_vars => TypeOK'
  <1>. SUFFICES ASSUME TypeOK, [Next]_vars PROVE TypeOK'
    OBVIOUS
  <1>1. ASSUME NEW c \in Command, RejectConfig(c) PROVE TypeOK'
    <2>1. ConfigError(c) \in ErrorCode \cup {"none"}
      BY DEF ConfigError, ErrorCode
    <2>. QED  BY <1>1, <2>1 DEF RejectConfig, TypeOK, handler, cluster
  <1>2. ASSUME NEW c \in Command, Begin(c) PROVE TypeOK'
    BY <1>2, AwaitTypes, FirstPhases DEF Begin
  <1>3. CASE Retry
    BY <1>3, BoundAssumption DEF Retry, Retryable, TypeOK, cluster, Reply
  <1>4. CASE CreateReturns
    BY <1>4, ReturnTypes DEF CreateReturns, ErrorCode
  <1>5. CASE TriggerReturns
    <2>1. current \in Command
      BY <1>5 DEF TriggerReturns, TypeOK
    <2>. QED  BY <1>5, <2>1, ReturnTypes, AwaitTypes DEF TriggerReturns, ErrorCode
  <1>6. CASE Poll
    BY <1>6 DEF Poll, TypeOK, cluster, SaveStatus
  <1>7. CASE Decide
    <2>1. current \in Command /\ phase # "idle"
      BY <1>7 DEF Decide, TypeOK
    <2>2. ASSUME phase' = "poll",
                 UNCHANGED <<current, attempt, reply, seen, late, result, cluster,
                             crashes, losses>>
          PROVE  TypeOK'
      BY <2>1, <2>2 DEF TypeOK, cluster
    <2>. QED  BY <1>7, <2>1, <2>2, ReturnTypes, AwaitTypes DEF Decide, ErrorCode
  <1>8. CASE DeleteReturns
    <2>1. DeleteError(current) \in ErrorCode
      BY DEF DeleteError, ErrorCode
    <2>. QED  BY <1>8, <2>1, ReturnTypes DEF DeleteReturns
  <1>9. ASSUME NEW oks \in SUBSET Reply, Served(oks)
        PROVE  reply' \in Reply /\ losses' \in 0..MaxLosses
    <2>1. {"error", "unavailable"} \subseteq Reply /\ oks \subseteq Reply
      BY DEF Reply
    <2>2. reply' \in Reply
      BY <1>9, <2>1 DEF Served
    <2>3. losses' \in 0..MaxLosses
      BY <1>9, BoundAssumption DEF Served, TypeOK
    <2>. QED  BY <2>2, <2>3
  <1>10. CASE CreatePod
    BY <1>9, <1>10 DEF CreatePod, TypeOK, Reply
  <1>11. CASE TriggerJob
    <2>1. reply' \in Reply /\ losses' \in 0..MaxLosses
      BY <1>9, <1>11 DEF TriggerJob, Reply
    <2>. QED  BY <1>11, <2>1 DEF TriggerJob, TypeOK, SaveStatus
  <1>12. CASE DeletePods
    <2>1. reply' \in Reply /\ losses' \in 0..MaxLosses
      BY <1>9, <1>12 DEF DeletePods, Reply
    <2>2. current \in Command
      BY <1>12 DEF DeletePods, TypeOK
    <2>. QED  BY <1>12, <2>1, <2>2 DEF DeletePods, TypeOK
  <1>13. CASE Refuse
    BY <1>13 DEF Refuse, TypeOK, Reply, cluster
  <1>14. ASSUME NEW c \in Command, JobPushes(c) PROVE TypeOK'
    BY <1>14 DEF JobPushes, TypeOK, handler
  <1>15. ASSUME NEW c \in Command, JobEnds(c) PROVE TypeOK'
    <2>1. save_status' \in [Command -> SaveStatus]
      BY <1>15 DEF JobEnds, TypeOK, SaveStatus
    <2>. QED  BY <1>15, <2>1 DEF JobEnds, TypeOK, handler
  <1>16. CASE PodLost
    BY <1>16 DEF PodLost, TypeOK, handler
  <1>17. CASE DeadlinePasses
    BY <1>17, BoundAssumption DEF DeadlinePasses, TypeOK, cluster
  <1>18. CASE Crash
    <2>1. 0 \in 0..(MaxAttempts - 1)
      BY BoundAssumption
    <2>2. crashes' \in 0..MaxCrashes
      BY <1>18, BoundAssumption DEF Crash, TypeOK
    <2>. QED
      BY <1>18, <2>1, <2>2, NoCommandAssumption
      DEF Crash, Idle, TypeOK, cluster, Reply, SaveStatus
  <1>19. CASE UNCHANGED vars
    BY <1>19 DEF vars, handler, cluster, TypeOK
  <1>. QED
    BY <1>1, <1>2, <1>3, <1>4, <1>5, <1>6, <1>7, <1>8, <1>10, <1>11, <1>12, <1>13,
       <1>14, <1>15, <1>16, <1>17, <1>18, <1>19
    DEF Next, Handling, ContainerMaker

-----------------------------------------------------------------------------
(* The parts of the invariant, each kept by every step *)

\* The invariant holds before the first command.
LEMMA InvInit == Init => IInv
  <1>. SUFFICES ASSUME Init PROVE IInv
    OBVIOUS
  <1>1. TypeOK
    BY TypeInit
  <1>2. PhaseInv
    BY DEF Init, PhaseInv
  <1>3. ImageInv
    BY DEF Init, ImageInv, ImageBeforeAnything
  <1>4. GoneInv
    BY DEF Init, GoneInv
  <1>5. PodsInv
    BY DEF Init, PodsInv, PodsAreOwed
  <1>. QED  BY <1>1, <1>2, <1>3, <1>4, <1>5 DEF IInv

\* Every step keeps the handlers where their operations put them.
LEMMA PhaseStep == TypeOK /\ PhaseInv /\ [Next]_vars => PhaseInv'
  <1>. SUFFICES ASSUME TypeOK, PhaseInv, [Next]_vars PROVE PhaseInv'
    OBVIOUS
  <1>. USE DEF Saving, SkipSave
  <1>1. CASE /\ UNCHANGED <<current, phase>>
             /\ reply' \in {reply, "none"} \/ Calling
    BY <1>1 DEF PhaseInv, Calling
  <1>2. CASE phase' = "idle"
    BY <1>2 DEF PhaseInv
  <1>3. ASSUME NEW c \in Command, Begin(c) PROVE PhaseInv'
    BY <1>3, FirstPhases DEF Begin, Await, PhaseInv
  <1>4. CASE TriggerReturns
    BY <1>4, <1>2 DEF TriggerReturns, Await, Return, Idle, PhaseInv
  <1>5. CASE Decide
    BY <1>5, <1>2 DEF Decide, Await, Return, Idle, PhaseInv
  <1>6. CASE CreateReturns \/ DeleteReturns
    BY <1>6, <1>2 DEF CreateReturns, DeleteReturns, Return, Idle
  <1>7. CASE Poll
    BY <1>7 DEF Poll, PhaseInv
  <1>8. CASE Retry \/ DeadlinePasses
    BY <1>8, <1>1 DEF Retry, DeadlinePasses
  <1>9. CASE ContainerMaker
    BY <1>9, <1>1 DEF ContainerMaker, CreatePod, TriggerJob, DeletePods, Refuse
  <1>10. CASE PodLost \/ Crash \/ UNCHANGED vars
    BY <1>10, <1>1, <1>2 DEF PodLost, Crash, Idle, vars, handler
  <1>11. ASSUME NEW c \in Command, RejectConfig(c) \/ JobPushes(c) \/ JobEnds(c)
         PROVE  PhaseInv'
    BY <1>11, <1>1 DEF RejectConfig, JobPushes, JobEnds, handler
  <1>. QED
    BY <1>3, <1>4, <1>5, <1>6, <1>7, <1>8, <1>9, <1>10, <1>11 DEF Next, Handling

\* A handler that returns anything but a success leaves ImageInv alone; one
\* that returns a success needs its command's image first.
LEMMA ImageReturn ==
    ASSUME TypeOK, ImageInv, phase # "idle",
           NEW o \in {"succeeded"} \cup ErrorCode, Return(o),
           o = "succeeded" /\ Saving(current) => current \in pushed
    PROVE  ImageInv'
  <1>1. \A c \in Command : result'[c] = "succeeded" =>
           \/ result[c] = "succeeded"
           \/ c = current /\ o = "succeeded"
    BY DEF Return, TypeOK
  <1>2. ImageBeforeAnything'
    BY <1>1 DEF ImageInv, ImageBeforeAnything, Return, cluster, Saving, SkipSave
  <1>3. seen' = "none" /\ phase' = "idle"
    BY DEF Return, Idle
  <1>. QED  BY <1>2, <1>3 DEF ImageInv, Return, cluster

\* Every step keeps what is said to be saved backed by the registry.
LEMMA ImageStep == TypeOK /\ PhaseInv /\ ImageInv /\ [Next]_vars => ImageInv'
  <1>. SUFFICES ASSUME TypeOK, PhaseInv, ImageInv, [Next]_vars PROVE ImageInv'
    OBVIOUS
  <1>1. CASE UNCHANGED <<current, phase, seen, result, job, save_status, pushed,
                         deleted>>
    BY <1>1 DEF ImageInv, ImageBeforeAnything, Saving, SkipSave
  <1>2. ASSUME NEW c \in Command, RejectConfig(c) PROVE ImageInv'
    <2>1. result'[c] # "succeeded" /\ \A d \in Command \ {c} : result'[d] = result[d]
      BY <1>2 DEF RejectConfig, ConfigError, TypeOK
    <2>2. ImageBeforeAnything'
      BY <1>2, <2>1
      DEF RejectConfig, ImageInv, ImageBeforeAnything, cluster, Saving, SkipSave
    <2>. QED
      BY <1>2, <2>2 DEF RejectConfig, ImageInv, handler, cluster, Saving, SkipSave
  <1>3. ASSUME NEW c \in Command, Begin(c) PROVE ImageInv'
    BY <1>3, FirstPhases
    DEF Begin, Await, ImageInv, ImageBeforeAnything, cluster, Saving, SkipSave
  <1>4. CASE CreateReturns
    <2>1. ~ Saving(current)
      BY <1>4 DEF CreateReturns, PhaseInv, Placing, Saving
    <2>. QED  BY <1>4, <2>1, ImageReturn DEF CreateReturns, ErrorCode
  <1>5. CASE TriggerReturns
    <2>1. CASE Return("SNAPSHOT_FAILED")
      BY <1>5, <2>1, ImageReturn DEF TriggerReturns, ErrorCode
    <2>. QED
      BY <1>5, <2>1
      DEF TriggerReturns, Await, ImageInv, ImageBeforeAnything, cluster, Saving,
          SkipSave
  <1>6. CASE Poll
    BY <1>6
    DEF Poll, ImageInv, ImageBeforeAnything, TypeOK, cluster, Saving, SkipSave
  <1>7. CASE Decide
    <2>1. phase # "idle"
      BY <1>7 DEF Decide
    <2>2. CASE Confirmed(seen) /\ Return("succeeded")
      BY <2>1, <2>2, ImageReturn DEF Confirmed, ImageInv
    <2>3. CASE Return("SNAPSHOT_FAILED") \/ Return("SNAPSHOT_TIMED_OUT")
      BY <2>1, <2>3, ImageReturn DEF ErrorCode
    <2>4. CASE /\ Confirmed(seen) /\ Await("delete")
               /\ UNCHANGED <<current, result, cluster, crashes, losses>>
      BY <2>4
      DEF Await, Confirmed, ImageInv, ImageBeforeAnything, cluster, Saving, SkipSave
    <2>5. CASE /\ phase' = "poll"
               /\ UNCHANGED <<current, attempt, reply, seen, late, result, cluster,
                              crashes, losses>>
      BY <2>5 DEF ImageInv, ImageBeforeAnything, cluster, Saving, SkipSave
    <2>. QED  BY <1>7, <2>2, <2>3, <2>4, <2>5 DEF Decide
  <1>8. CASE DeleteReturns
    <2>1. DeleteError(current) \in ErrorCode
      BY DEF DeleteError, ErrorCode
    <2>2. Saving(current) => current \in pushed
      BY <1>8 DEF DeleteReturns, ImageInv
    <2>. QED  BY <1>8, <2>1, <2>2, ImageReturn DEF DeleteReturns
  <1>9. CASE TriggerJob
    BY <1>9
    DEF TriggerJob, Calling, ImageInv, ImageBeforeAnything, TypeOK, Saving, SkipSave
  <1>10. CASE DeletePods
    BY <1>10 DEF DeletePods, Calling, ImageInv, ImageBeforeAnything, Saving, SkipSave
  <1>11. ASSUME NEW c \in Command, JobPushes(c) PROVE ImageInv'
    BY <1>11
    DEF JobPushes, ImageInv, ImageBeforeAnything, TypeOK, handler, Saving, SkipSave
  <1>12. ASSUME NEW c \in Command, JobEnds(c) PROVE ImageInv'
    BY <1>12
    DEF JobEnds, ImageInv, ImageBeforeAnything, TypeOK, handler, Saving, SkipSave
  <1>13. CASE Crash
    BY <1>13
    DEF Crash, Idle, ImageInv, ImageBeforeAnything, cluster, Saving, SkipSave
  <1>14. CASE Retry \/ DeadlinePasses \/ CreatePod \/ Refuse
    BY <1>14, <1>1 DEF Retry, DeadlinePasses, CreatePod, Refuse, cluster
  <1>15. CASE PodLost \/ UNCHANGED vars
    BY <1>15, <1>1 DEF PodLost, vars, handler, cluster
  <1>. QED
    BY <1>2, <1>3, <1>4, <1>5, <1>6, <1>7, <1>8, <1>9, <1>10, <1>11, <1>12, <1>13,
       <1>14, <1>15
    DEF Next, Handling, ContainerMaker

\* Every step keeps the pods gone between a delete's OK and its return.
LEMMA GoneStep == TypeOK /\ GoneInv /\ [Next]_vars => GoneInv'
  <1>. SUFFICES ASSUME TypeOK, GoneInv, [Next]_vars PROVE GoneInv'
    OBVIOUS
  <1>1. CASE UNCHANGED <<phase, reply, pods>>
    BY <1>1 DEF GoneInv
  <1>2. CASE phase' # "delete" \/ reply' # "ok"
    BY <1>2 DEF GoneInv
  <1>3. ASSUME NEW c \in Command,
               RejectConfig(c) \/ Begin(c) \/ JobPushes(c) \/ JobEnds(c)
        PROVE  GoneInv'
    BY <1>3, <1>1, <1>2
    DEF RejectConfig, Begin, JobPushes, JobEnds, Await, handler, cluster
  <1>4. CASE Retry \/ CreateReturns \/ TriggerReturns \/ DeleteReturns \/ Crash
    BY <1>4, <1>2
    DEF Retry, CreateReturns, TriggerReturns, DeleteReturns, Crash, Return, Idle, Await
  <1>5. CASE Poll \/ Decide \/ DeadlinePasses
    BY <1>5, <1>1, <1>2 DEF Poll, Decide, DeadlinePasses, Return, Idle, Await, cluster
  <1>6. CASE CreatePod \/ TriggerJob \/ Refuse
    BY <1>6, <1>2 DEF CreatePod, TriggerJob, Refuse
  <1>7. CASE DeletePods
    BY <1>7 DEF DeletePods, GoneInv
  <1>8. CASE PodLost
    BY <1>8 DEF PodLost, GoneInv, handler, TypeOK
  <1>9. CASE UNCHANGED vars
    BY <1>9, <1>1 DEF vars, handler, cluster
  <1>. QED
    BY <1>3, <1>4, <1>5, <1>6, <1>7, <1>8, <1>9 DEF Next, Handling, ContainerMaker

\* A step that makes no pod keeps PodsInv when no command it leaves without a
\* result has come to owe less, and the execution under way owes no more.
LEMMA PodsKept ==
    ASSUME TypeOK, PodsInv, UNCHANGED created, TypeOK',
           crashes' + losses' >= crashes + losses,
           \A c \in Command :
               result'[c] = "none" /\ ~ (c = current' /\ phase' = "create") =>
                   \/ result[c] = "none" /\ ~ (c = current /\ phase = "create")
                   \/ crashes' + losses' > crashes + losses,
           phase' = "create" /\ reply' \in {"none", "unavailable"} =>
               created[current'] <= crashes' + losses'
    PROVE  PodsInv'
  <1>1. \A c \in Command : created[c] \in Nat /\ created[c] <= 1 + crashes + losses
    BY DEF TypeOK, PodsInv, PodsAreOwed
  <1>2. crashes \in Nat /\ losses \in Nat /\ crashes' \in Nat /\ losses' \in Nat
    BY BoundAssumption DEF TypeOK
  <1>3. PodsAreOwed'
    BY <1>1, <1>2 DEF PodsAreOwed
  <1>4. \A c \in Command :
          result'[c] = "none" /\ ~ (c = current' /\ phase' = "create")
             => created'[c] <= crashes' + losses'
    <2>1. SUFFICES ASSUME NEW c \in Command, result'[c] = "none",
                          ~ (c = current' /\ phase' = "create")
                   PROVE  created[c] <= crashes' + losses'
      OBVIOUS
    <2>2. CASE result[c] = "none" /\ ~ (c = current /\ phase = "create")
      <3>1. created[c] <= crashes + losses
        BY <2>2 DEF PodsInv
      <3>. QED  BY <1>1, <1>2, <3>1
    <2>3. CASE crashes' + losses' > crashes + losses
      <3>1. ASSUME NEW x \in Nat, NEW m \in Nat, NEW n \in Nat, n > m, x <= 1 + m
            PROVE  x <= n
        BY <3>1
      <3>2. ASSUME NEW m \in Nat, NEW n \in Nat
            PROVE  m + n \in Nat /\ 1 + m + n = 1 + (m + n)
        OBVIOUS
      <3>3. crashes' + losses' \in Nat
        BY <1>2, <3>2
      <3>4. /\ crashes + losses \in Nat /\ created[c] \in Nat
            /\ created[c] <= 1 + (crashes + losses)
        BY <1>1, <1>2, <3>2
      <3>. QED  BY <2>3, <3>1, <3>3, <3>4
    <2>. QED  BY <2>1, <2>2, <2>3
  <1>. QED  BY <1>3, <1>4 DEF PodsInv

\* A handler's return keeps the account of pods.
LEMMA PodsReturn ==
    ASSUME TypeOK, TypeOK', PodsInv, phase # "idle",
           NEW o \in {"succeeded"} \cup ErrorCode, Return(o)
    PROVE  PodsInv'
  <1>1. \A c \in Command : result'[c] = "none" => c # current /\ result[c] = "none"
    BY DEF Return, TypeOK, ErrorCode
  <1>2. /\ phase' = "idle" /\ UNCHANGED created
        /\ crashes' = crashes /\ losses' = losses
    BY DEF Return, Idle, cluster
  <1>3. crashes' + losses' >= crashes + losses
    BY <1>2, BoundAssumption DEF TypeOK
  <1>. QED  BY <1>1, <1>2, <1>3, PodsKept

\* Every step keeps the account of pods, crashes and lost answers.
LEMMA PodsStep == TypeOK /\ PhaseInv /\ PodsInv /\ [Next]_vars => PodsInv'
  <1>. SUFFICES ASSUME TypeOK, PhaseInv, PodsInv, [Next]_vars PROVE PodsInv'
    OBVIOUS
  <1>1. TypeOK' /\ crashes \in Nat /\ losses \in Nat
    BY TypeStep, BoundAssumption DEF TypeOK
  <1>2. CASE UNCHANGED <<current, phase, reply, result, created, crashes, losses>>
    BY <1>2 DEF PodsInv, PodsAreOwed
  <1>3. ASSUME NEW c \in Command, RejectConfig(c) PROVE PodsInv'
    <2>1. \A d \in Command : result'[d] = "none" => result[d] = "none"
      BY <1>3 DEF RejectConfig, TypeOK
    <2>. QED
      BY <1>1, <1>3, <2>1, PodsKept DEF RejectConfig, handler, cluster
  <1>4. ASSUME NEW c \in Command, Begin(c) PROVE PodsInv'
    BY <1>1, <1>4, PodsKept DEF Begin, Await, cluster, PodsInv
  <1>5. CASE Retry
    BY <1>1, <1>5, PodsKept DEF Retry, Retryable, cluster, PodsInv
  <1>6. CASE CreateReturns
    BY <1>1, <1>6, PodsReturn DEF CreateReturns, ErrorCode
  <1>7. CASE TriggerReturns
    <2>1. CASE Return("SNAPSHOT_FAILED")
      BY <1>1, <1>7, <2>1, PodsReturn DEF TriggerReturns, ErrorCode
    <2>. QED  BY <1>1, <1>7, <2>1, PodsKept DEF TriggerReturns, Await, cluster
  <1>8. CASE Poll
    BY <1>1, <1>8, PodsKept DEF Poll, cluster
  <1>9. CASE Decide
    <2>1. CASE \E o \in {"succeeded", "SNAPSHOT_FAILED", "SNAPSHOT_TIMED_OUT"} : Return(o)
      BY <1>1, <1>9, <2>1, PodsReturn DEF Decide, ErrorCode
    <2>2. CASE /\ phase' \in {"delete", "poll"}
               /\ UNCHANGED <<current, result, cluster, crashes, losses>>
      BY <1>1, <1>9, <2>2, PodsKept DEF Decide, cluster
    <2>. QED  BY <1>9, <2>1, <2>2 DEF Decide, Await
  <1>10. CASE DeleteReturns
    <2>1. DeleteError(current) \in ErrorCode
      BY DEF DeleteError, ErrorCode
    <2>. QED  BY <1>1, <1>10, <2>1, PodsReturn DEF DeleteReturns
  <1>11. ASSUME NEW oks \in SUBSET {"ok", "no_pods"}, Served(oks)
         PROVE  \/ losses' = losses /\ reply' \notin {"none", "unavailable"}
                \/ losses' = losses + 1
    BY <1>11 DEF Served
  <1>12. CASE CreatePod
    <2>1. \/ losses' = losses /\ reply' \notin {"none", "unavailable"}
          \/ losses' = losses + 1
      BY <1>11, <1>12 DEF CreatePod
    <2>2. /\ current \in Command /\ current' = current /\ phase' = "create"
          /\ created[current] <= crashes + losses
          /\ created' = [created EXCEPT ![current] = @ + 1]
          /\ created \in [Command -> Nat]
          /\ crashes' = crashes /\ result' = result /\ phase = "create"
      BY <1>12 DEF CreatePod, Calling, PodsInv, TypeOK
    <2>3. \A c \in Command : created'[c] <= 1 + crashes' + losses'
      BY <1>1, <2>1, <2>2 DEF PodsInv, PodsAreOwed
    <2>4. \A c \in Command \ {current} :
            result'[c] = "none" => created'[c] <= crashes' + losses'
      BY <1>1, <2>1, <2>2 DEF PodsInv
    <2>5. reply' \in {"none", "unavailable"} => created'[current] <= crashes' + losses'
      BY <1>1, <2>1, <2>2
    <2>. QED  BY <2>2, <2>3, <2>4, <2>5 DEF PodsInv, PodsAreOwed
  <1>13. CASE TriggerJob \/ DeletePods
    <2>1. \/ losses' = losses
          \/ losses' = losses + 1
      BY <1>11, <1>13 DEF TriggerJob, DeletePods
    <2>. QED
      BY <1>1, <1>13, <2>1, PodsKept DEF TriggerJob, DeletePods, Calling
  <1>14. CASE Refuse
    BY <1>1, <1>14, PodsKept DEF Refuse, Calling, cluster, PodsInv
  <1>15. ASSUME NEW c \in Command, JobPushes(c) \/ JobEnds(c) PROVE PodsInv'
    BY <1>15, <1>2 DEF JobPushes, JobEnds, handler
  <1>16. CASE PodLost \/ DeadlinePasses
    BY <1>16, <1>2 DEF PodLost, DeadlinePasses, handler, cluster
  <1>17. CASE Crash
    <2>1. crashes' + losses' > crashes + losses /\ phase' = "idle" /\ UNCHANGED created
      BY <1>1, <1>17 DEF Crash, Idle, cluster
    <2>2. crashes' + losses' >= crashes + losses
      BY <1>1, <1>17 DEF Crash
    <2>. QED  BY <1>1, <2>1, <2>2, PodsKept
  <1>18. CASE UNCHANGED vars
    BY <1>18, <1>2 DEF vars, handler, cluster
  <1>. QED
    BY <1>3, <1>4, <1>5, <1>6, <1>7, <1>8, <1>9, <1>10, <1>12, <1>13, <1>14, <1>15,
       <1>16, <1>17, <1>18
    DEF Next, Handling, ContainerMaker

-----------------------------------------------------------------------------
(* The theorems *)

\* The inductive invariant holds of every behaviour of the handlers.
THEOREM Invariance == Spec => []IInv
  <1>1. Init => IInv
    BY InvInit
  <1>2. IInv /\ [Next]_vars => IInv'
    BY TypeStep, PhaseStep, ImageStep, GoneStep, PodsStep DEF IInv
  <1>. QED  BY <1>1, <1>2, PTL DEF Spec

\* Every variable keeps its type, call_with_retry's attempt its limit and the
\* save's deadline at most one end (clients/retry.py, save_execution.py).
THEOREM TypeCorrect == Spec => []TypeOK
  BY Invariance, PTL DEF IInv

\* No pod is removed by a hibernation, and no save called a success, without
\* the workspace's image in the registry (hibernate.py, save_execution.py).
THEOREM NothingGivenUpUnsaved == Spec => []ImageBeforeAnything
  <1>1. IInv => ImageBeforeAnything
    BY DEF IInv, ImageInv
  <1>. QED  BY <1>1, Invariance, PTL

\* A pod beyond a command's first is owed to a crash or to an UNAVAILABLE that
\* followed the work (create.py, resume.py, container_maker_client.py).
THEOREM ExtraPodsAreOwed == Spec => []PodsAreOwed
  <1>1. IInv => PodsAreOwed
    BY DEF IInv, PodsInv
  <1>. QED  BY <1>1, Invariance, PTL

\* A hibernation that saves is a success only at a moment when no pod is left
\* (hibernate.py).
THEOREM SuccessLeavesNoPod == Spec => HibernatedIsGone
  <1>1. ASSUME IInv, [Next]_vars, NEW c \in Command,
               Operation[c] = "Hibernate", Saving(c), Succeeds(c)
        PROVE  pods' = 0
    <2>. USE <1>1
    <2>1. result' # result /\ result'[c] = "succeeded" /\ result[c] # "succeeded"
      BY DEF Succeeds
    <2>2. ASSUME NEW o, Return(o)
          PROVE  o = "succeeded" /\ c = current /\ pods' = pods
      BY <2>1, <2>2 DEF Return, IInv, TypeOK, cluster
    <2>3. ASSUME NEW d \in Command, RejectConfig(d) PROVE FALSE
      BY <2>1, <2>3 DEF RejectConfig, ConfigError, IInv, TypeOK
    <2>4. CASE CreateReturns
      <3>1. Operation[current] \in Placing
        BY <2>4 DEF CreateReturns, IInv, PhaseInv
      <3>. QED  BY <2>2, <2>4, <3>1 DEF CreateReturns, Placing
    <2>5. CASE TriggerReturns
      BY <2>1, <2>2, <2>5 DEF TriggerReturns
    <2>6. CASE Decide
      BY <2>1, <2>2, <2>6 DEF Decide
    <2>7. CASE DeleteReturns
      <3>1. CASE reply = "ok"
        BY <2>2, <2>7, <3>1 DEF DeleteReturns, IInv, GoneInv
      <3>2. CASE reply # "ok"
        <4>1. Return(DeleteError(current)) \/ GoneIsSuccess(current)
          BY <2>7, <3>2 DEF DeleteReturns
        <4>2. \E o : Return(o)
          BY <2>7 DEF DeleteReturns
        <4>3. ~ GoneIsSuccess(current)
          BY <2>2, <4>2 DEF GoneIsSuccess, Saving
        <4>. QED  BY <2>2, <4>1, <4>3 DEF DeleteError
      <3>. QED  BY <3>1, <3>2
    <2>8. UNCHANGED result => FALSE
      BY <2>1
    <2>. QED
      BY <2>3, <2>4, <2>5, <2>6, <2>7, <2>8
      DEF Next, Handling, ContainerMaker, Begin, JobPushes, JobEnds, Retry, Poll,
          CreatePod, TriggerJob, DeletePods, Refuse, PodLost, DeadlinePasses, Crash, vars
  <1>2. IInv /\ [Next]_vars =>
          [\A c \in Command :
             Operation[c] = "Hibernate" /\ Saving(c) /\ Succeeds(c) => pods' = 0]_vars
    BY <1>1
  <1>. QED  BY <1>2, Invariance, PTL DEF Spec, HibernatedIsGone

-----------------------------------------------------------------------------
(* The handlers implement HandlerContract *)

\* What the contract needs beside IInv: a handler runs for an open command,
\* only commands that save have jobs, and a create answered OK made a pod.
ContractInv ==
    /\ current \in Command => result[current] = "none"
    /\ \A c \in Command : job[c] # "none" => Saving(c)
    /\ phase = "create" /\ reply = "ok" => created[current] > 0

\* A handler's return closes its command and leaves nothing else to say.
LEMMA ContractReturn ==
    ASSUME TypeOK, ContractInv, NEW o, Return(o)
    PROVE  ContractInv'
  BY NoCommandAssumption DEF ContractInv, Return, Idle, cluster, Saving, SkipSave

\* Every step keeps them.
LEMMA ContractInvStep == TypeOK /\ PhaseInv /\ ContractInv /\ [Next]_vars => ContractInv'
  <1>. SUFFICES ASSUME TypeOK, PhaseInv, ContractInv, [Next]_vars PROVE ContractInv'
    OBVIOUS
  <1>1. ASSUME NEW c \in Command, RejectConfig(c) PROVE ContractInv'
    BY <1>1, NoCommandAssumption
    DEF RejectConfig, TypeOK, ContractInv, handler, cluster, Saving, SkipSave
  <1>2. ASSUME NEW c \in Command, Begin(c) PROVE ContractInv'
    BY <1>2 DEF Begin, Await, ContractInv, cluster, Saving, SkipSave
  <1>3. CASE Retry \/ Poll \/ DeadlinePasses \/ Refuse \/ UNCHANGED vars
    BY <1>3 DEF Retry, Poll, DeadlinePasses, Refuse, vars, handler, cluster, ContractInv, Saving, SkipSave
  <1>4. CASE CreateReturns \/ DeleteReturns
    BY <1>4, ContractReturn DEF CreateReturns, DeleteReturns
  <1>5. CASE TriggerReturns
    BY <1>5, ContractReturn DEF TriggerReturns, Await, ContractInv, cluster, Saving, SkipSave
  <1>6. CASE Decide
    BY <1>6, ContractReturn DEF Decide, Await, ContractInv, cluster, Saving, SkipSave
  <1>7. CASE CreatePod
    <2>1. current \in Command /\ created'[current] = created[current] + 1
      BY <1>7 DEF CreatePod, TypeOK
    <2>. QED  BY <1>7, <2>1 DEF CreatePod, TypeOK, ContractInv, Saving, SkipSave
  <1>8. CASE TriggerJob
    BY <1>8 DEF TriggerJob, TypeOK, PhaseInv, ContractInv, Saving, SkipSave
  <1>9. CASE DeletePods
    BY <1>9 DEF DeletePods, ContractInv, Saving, SkipSave
  <1>10. ASSUME NEW c \in Command, JobPushes(c) \/ JobEnds(c) PROVE ContractInv'
    BY <1>10 DEF JobPushes, JobEnds, TypeOK, handler, ContractInv, Saving, SkipSave
  <1>11. CASE PodLost
    BY <1>11 DEF PodLost, handler, ContractInv, Saving, SkipSave
  <1>12. CASE Crash
    BY <1>12, NoCommandAssumption DEF Crash, Idle, cluster, ContractInv, Saving, SkipSave
  <1>. QED
    BY <1>1, <1>2, <1>3, <1>4, <1>5, <1>6, <1>7, <1>8, <1>9, <1>10, <1>11, <1>12
    DEF Next, Handling, ContainerMaker

\* Before the first command there is nothing to refine but the pods.
LEMMA ContractInit == Init => Contract!Init /\ ContractInv
  <1>. SUFFICES ASSUME Init PROVE Contract!Init /\ ContractInv
    OBVIOUS
  <1>1. Outcomes = [c \in Command |-> "none"]
    BY DEF Init, Outcomes, OutcomeOf
  <1>. QED  BY <1>1, NoCommandAssumption DEF Init, Contract!Init, ContractInv

\* A command without a result that gets one is closed by it, and no other.
LEMMA OneOutcome ==
    ASSUME TypeOK, NEW c \in Command, NEW o \in {"succeeded"} \cup ErrorCode,
           result' = [result EXCEPT ![c] = o]
    PROVE  Outcomes' = [Outcomes EXCEPT ![c] = IF o = "succeeded" THEN o ELSE "failed"]
  <1>1. o # "none"
    BY DEF ErrorCode
  <1>2. \A d \in Command : result'[d] = IF d = c THEN o ELSE result[d]
    BY DEF TypeOK
  <1>3. \A d \in Command :
           OutcomeOf(d)' = IF d = c THEN IF o = "succeeded" THEN o ELSE "failed" ELSE OutcomeOf(d)
    BY <1>1, <1>2 DEF OutcomeOf
  <1>. QED  BY <1>3 DEF Outcomes

\* A return is an outcome the contract allows, if its successes are.
LEMMA ReturnRefines ==
    ASSUME IInv, ContractInv, phase # "idle",
           NEW o \in {"succeeded"} \cup ErrorCode, Return(o),
           o = "succeeded" =>
              /\ Operation[current] \in Placing => created[current] > 0
              /\ Saving(current) => current \in pushed
              /\ Saving(current) /\ Operation[current] = "Hibernate" => pods = 0
    PROVE  Contract!Succeed(current) \/ Contract!Fail(current)
  <1>1. current \in Command /\ result[current] = "none"
    BY DEF IInv, TypeOK, ContractInv
  <1>2. Outcomes' = [Outcomes EXCEPT ![current] = IF o = "succeeded" THEN o ELSE "failed"]
    BY <1>1, OneOutcome DEF IInv, Return
  <1>3. Outcomes[current] = "none"
    BY <1>1 DEF Outcomes, OutcomeOf
  <1>4. UNCHANGED <<pods, created, pushed, deleted>>
    BY DEF Return, cluster
  <1>5. Saving(current) /\ Operation[current] \in {"Delete", "Hibernate"}
          => Operation[current] = "Hibernate"
    BY DEF Saving
  <1>. QED
    BY <1>1, <1>2, <1>3, <1>4, <1>5
    DEF Contract!Succeed, Contract!Fail, Contract!Open

\* Every step of the handlers and of what they call is a step of the contract
\* or none.
LEMMA ContractStep == IInv /\ ContractInv /\ [Next]_vars => [Contract!Next]_(Contract!vars)
  <1>. SUFFICES ASSUME IInv, ContractInv, [Next]_vars
                PROVE  [Contract!Next]_(Contract!vars)
    OBVIOUS
  <1>1. ASSUME UNCHANGED <<result, pods, created, pushed, deleted>>
        PROVE  UNCHANGED Contract!vars
    BY <1>1 DEF Contract!vars, Outcomes, OutcomeOf
  <1>2. ASSUME Contract!Succeed(current) \/ Contract!Fail(current), current \in Command
        PROVE  Contract!Next
    BY <1>2 DEF Contract!Next
  <1>3. ASSUME NEW c \in Command, RejectConfig(c) PROVE Contract!Next
    <2>1. ConfigError(c) \in ErrorCode /\ ConfigError(c) # "succeeded"
      BY <1>3 DEF RejectConfig, ConfigError, ErrorCode
    <2>2. Outcomes' = [Outcomes EXCEPT ![c] = "failed"]
      BY <1>3, <2>1, OneOutcome DEF RejectConfig, IInv
    <2>3. Contract!Fail(c)
      BY <1>3, <2>2 DEF RejectConfig, Contract!Fail, Contract!Open, Outcomes, OutcomeOf, cluster
    <2>. QED  BY <2>3 DEF Contract!Next
  <1>4. CASE CreateReturns
    <2>1. current \in Command /\ Operation[current] \in Placing
      BY <1>4 DEF CreateReturns, IInv, TypeOK, PhaseInv
    <2>2. Contract!Succeed(current) \/ Contract!Fail(current)
      BY <1>4, <2>1, ReturnRefines
      DEF CreateReturns, ContractInv, Saving, Placing, ErrorCode
    <2>. QED  BY <1>2, <2>1, <2>2
  <1>5. CASE TriggerReturns
    <2>1. current \in Command
      BY <1>5 DEF TriggerReturns, IInv, TypeOK
    <2>2. CASE Return("SNAPSHOT_FAILED")
      BY <1>2, <1>5, <2>1, <2>2, ReturnRefines DEF TriggerReturns, ErrorCode
    <2>. QED  BY <1>1, <1>5, <2>2 DEF TriggerReturns, cluster
  <1>6. CASE Decide
    <2>1. current \in Command /\ Saving(current)
      BY <1>6 DEF Decide, IInv, TypeOK, PhaseInv
    <2>2. CASE Confirmed(seen) /\ Operation[current] = "Save" /\ Return("succeeded")
      <3>1. current \in pushed
        BY <2>2 DEF Confirmed, IInv, ImageInv
      <3>2. Contract!Succeed(current) \/ Contract!Fail(current)
        BY <1>6, <2>2, <3>1, ReturnRefines DEF Decide, Placing
      <3>. QED  BY <1>2, <2>1, <3>2
    <2>3. CASE Return("SNAPSHOT_FAILED") \/ Return("SNAPSHOT_TIMED_OUT")
      BY <1>2, <1>6, <2>1, <2>3, ReturnRefines DEF Decide, ErrorCode
    <2>. QED  BY <1>1, <1>6, <2>2, <2>3 DEF Decide, cluster
  <1>7. CASE DeleteReturns
    <2>1. current \in Command /\ Operation[current] \in {"Delete", "Hibernate"}
      BY <1>7 DEF DeleteReturns, IInv, TypeOK, PhaseInv
    <2>2. Operation[current] \notin Placing /\ (Saving(current) => current \in pushed)
      BY <1>7, <2>1 DEF DeleteReturns, Placing, IInv, ImageInv
    <2>3. DeleteError(current) \in ErrorCode /\ DeleteError(current) # "succeeded"
      BY DEF DeleteError, ErrorCode
    <2>4. GoneIsSuccess(current) => ~ (Saving(current) /\ Operation[current] = "Hibernate")
      BY DEF GoneIsSuccess, Saving
    <2>5. CASE reply = "ok" /\ Return("succeeded")
      BY <1>2, <1>7, <2>1, <2>2, <2>5, ReturnRefines DEF DeleteReturns, IInv, GoneInv
    <2>6. CASE GoneIsSuccess(current) /\ Return("succeeded")
      BY <1>2, <1>7, <2>1, <2>2, <2>4, <2>6, ReturnRefines DEF DeleteReturns
    <2>7. CASE Return(DeleteError(current))
      BY <1>2, <1>7, <2>1, <2>3, <2>7, ReturnRefines DEF DeleteReturns
    <2>. QED  BY <1>7, <2>5, <2>6, <2>7 DEF DeleteReturns
  <1>8. ASSUME phase # "idle", UNCHANGED result
        PROVE  current \in Command /\ Contract!Open(current) /\ UNCHANGED Outcomes
    BY <1>8 DEF IInv, TypeOK, ContractInv, Contract!Open, Outcomes, OutcomeOf
  <1>9. CASE CreatePod
    <2>1. Operation[current] \in Placing
      BY <1>9 DEF CreatePod, IInv, PhaseInv
    <2>2. Contract!MakePod(current)
      BY <1>8, <1>9, <2>1 DEF CreatePod, Contract!MakePod
    <2>. QED  BY <1>8, <1>9, <2>2 DEF CreatePod, Contract!Next
  <1>10. CASE DeletePods
    <2>1. Operation[current] \in {"Delete", "Hibernate"} /\ (Saving(current) => current \in pushed)
      BY <1>10 DEF DeletePods, IInv, PhaseInv, ImageInv
    <2>2. Contract!RemovePods(current)
      BY <1>8, <1>10, <2>1 DEF DeletePods, Contract!RemovePods
    <2>. QED  BY <1>8, <1>10, <2>2 DEF DeletePods, Contract!Next
  <1>11. ASSUME NEW c \in Command, JobPushes(c) PROVE Contract!Next
    <2>1. Saving(c)
      BY <1>11 DEF JobPushes, ContractInv
    <2>2. UNCHANGED Outcomes
      BY <1>11 DEF JobPushes, Outcomes, OutcomeOf
    <2>3. Contract!PushImage(c)
      BY <1>11, <2>1, <2>2 DEF JobPushes, Contract!PushImage
    <2>. QED  BY <2>3 DEF Contract!Next
  <1>12. CASE PodLost
    <2>1. Contract!LosePod
      BY <1>12 DEF PodLost, Contract!LosePod, Outcomes, OutcomeOf
    <2>. QED  BY <2>1 DEF Contract!Next
  <1>13. ASSUME NEW c \in Command, Begin(c) \/ JobEnds(c) PROVE UNCHANGED Contract!vars
    BY <1>1, <1>13 DEF Begin, JobEnds, cluster
  <1>14. CASE Retry \/ Poll \/ DeadlinePasses \/ Crash \/ TriggerJob \/ Refuse \/ UNCHANGED vars
    BY <1>1, <1>14 DEF Retry, Poll, DeadlinePasses, Crash, TriggerJob, Refuse, cluster, vars
  <1>. QED
    BY <1>3, <1>4, <1>5, <1>6, <1>7, <1>9, <1>10, <1>11, <1>12, <1>13, <1>14
    DEF Next, Handling, ContainerMaker

\* For any commands, retries, crashes and losses, the handlers do what
\* HandlerContract allows and nothing else (create.py, resume.py, delete.py, save.py, hibernate.py).
THEOREM HandlersKeepTheContract == Spec => ContractSpec
  <1>1. Init => Contract!Init /\ ContractInv
    BY ContractInit
  <1>2. IInv /\ ContractInv /\ [Next]_vars => ContractInv'
    BY ContractInvStep DEF IInv
  <1>3. IInv /\ ContractInv /\ [Next]_vars => [Contract!Next]_(Contract!vars)
    BY ContractStep
  <1>4. Spec => []ContractInv
    BY <1>1, <1>2, Invariance, PTL DEF Spec
  <1>. QED
    BY <1>1, <1>3, <1>4, Invariance, PTL DEF Spec, ContractSpec, Contract!Spec

-----------------------------------------------------------------------------
(* Every handler ends. What the states of a handler enable is TLC's to check  *)
(* (NeverStuck); from there the argument is the prover's. Its chain of waits  *)
(* has a fixed length, so it needs a limit on the attempts: retry.py's is 3.  *)

\* How many kinds of wait a handler still has before it.
StagesAfter(p) ==
    CASE p = "trigger" -> 2 [] p \in {"poll", "decide"} -> 1 [] OTHER -> 0

\* A handler never goes back: it triggers, polls and deletes in this order,
\* and within one of these it counts its attempts, keeps an answer it has
\* until it makes the next attempt, and lets its deadline pass once
\* (retry.py:25-32, save_execution.py:77-105).
HandlerWearsOut ==
    [][phase # "idle" /\ phase' # "idle" =>
         \/ StagesAfter(phase') < StagesAfter(phase)
         \/ /\ StagesAfter(phase') = StagesAfter(phase)
            /\ attempt <= attempt' /\ (late => late')
            /\ reply # "none" => reply' = reply \/ attempt < attempt']_vars

\* A handler goes forward only: to a later stage, to its next attempt, to an
\* answer, to its deadline.
THEOREM HandlersGoForward == Spec => HandlerWearsOut
  <1>. DEFINE Forward ==
         phase # "idle" /\ phase' # "idle" =>
            \/ StagesAfter(phase') < StagesAfter(phase)
            \/ /\ StagesAfter(phase') = StagesAfter(phase)
               /\ attempt <= attempt' /\ (late => late')
               /\ reply # "none" => reply' = reply \/ attempt < attempt'
  <1>1. ASSUME TypeOK, [Next]_vars PROVE Forward
    <2>. USE DEF StagesAfter
    <2>1. attempt \in Nat
      BY <1>1, BoundAssumption DEF TypeOK
    <2>2. ASSUME NEW o, Return(o) PROVE Forward
      BY <2>2 DEF Return, Idle
    <2>3. CASE UNCHANGED handler \/ phase = "idle" \/ Crash
      BY <2>1, <2>3 DEF handler, Crash, Idle
    <2>4. CASE Retry
      BY <2>1, <2>4 DEF Retry
    <2>5. CASE CreateReturns
      BY <2>2, <2>5 DEF CreateReturns
    <2>6. CASE TriggerReturns
      BY <2>2, <2>6 DEF TriggerReturns, Await
    <2>7. CASE Poll \/ DeadlinePasses
      BY <2>1, <2>7 DEF Poll, DeadlinePasses
    <2>8. CASE Decide
      BY <2>1, <2>2, <2>8 DEF Decide, Await
    <2>9. CASE DeleteReturns
      BY <2>2, <2>9 DEF DeleteReturns
    <2>10. CASE ContainerMaker
      BY <2>1, <2>10 DEF ContainerMaker, CreatePod, TriggerJob, DeletePods, Refuse, Calling
    <2>. QED
      BY <1>1, <2>3, <2>4, <2>5, <2>6, <2>7, <2>8, <2>9, <2>10
      DEF Next, Handling, RejectConfig, Begin, JobPushes, JobEnds, PodLost, vars
  <1>2. IInv /\ [Next]_vars => [Forward]_vars
    BY <1>1 DEF IInv
  <1>. QED  BY <1>2, Invariance, PTL DEF Spec, HandlerWearsOut

\* A handler in attempt a of the call it makes in phase p, before and after the
\* answer; one that polls; one that is done.
Out(p, a) == phase = p /\ attempt = a /\ reply = "none"
Back(p, a) == phase = p /\ attempt = a /\ reply # "none"
Polling == phase \in {"poll", "decide"}
Done == phase = "idle"

CallPhase == {"create", "trigger", "delete"}

\* What a fair behaviour is to the handlers.
Going ==
    /\ [](IInv /\ NeverStuck) /\ [][Next]_vars
    /\ WF_vars(Handling) /\ WF_vars(DeadlinePasses) /\ WF_vars(ContainerMaker)

\* What comes of a call: an answer, of the answer another attempt or the end
\* of the phase; and what comes of polling.
CallComesBack(p, a) == Out(p, a) ~> Back(p, a) \/ Done
CallIsTaken(p, a) ==
    Back(p, a) ~> (a < 2 /\ Out(p, a + 1)) \/ (p = "trigger" /\ Polling) \/ Done

\* The deadline of a poll comes, unless the poll is over before; past it the
\* next look at the status is the last.
Late(ph) == phase = ph /\ late
PollRunsLate == Polling ~> (Polling /\ late) \/ Out("delete", 0) \/ Done
LatePollAnswers == Late("poll") ~> Late("decide") \/ Done
LateLookIsLast == Late("decide") ~> Out("delete", 0) \/ Done

\* Every call is answered, if Container Maker answers.
LEMMA CallsComeBack ==
    ASSUME NEW p \in CallPhase, NEW a \in 0..2
    PROVE  Going => CallComesBack(p, a)
  <1>. DEFINE After == Back(p, a) \/ Done
  <1>1. Out(p, a) /\ [Next]_vars => Out(p, a)' \/ After'
    <2>. SUFFICES ASSUME Out(p, a), [Next]_vars PROVE Out(p, a)' \/ After'
      OBVIOUS
    <2>. USE DEF Out, Back, Done, CallPhase
    <2>1. CASE ContainerMaker
      BY <2>1 DEF ContainerMaker, CreatePod, TriggerJob, DeletePods, Refuse
    <2>2. ~ Handling
      BY DEF Handling, Retry, Retryable, CreateReturns, TriggerReturns, Poll, Decide,
             DeleteReturns, CallFailed
    <2>3. CASE Crash
      BY <2>3 DEF Crash, Idle
    <2>. QED
      BY <2>1, <2>2, <2>3 DEF Next, RejectConfig, Begin, JobPushes, JobEnds, PodLost,
         DeadlinePasses, handler, vars
  <1>2. Out(p, a) /\ <<ContainerMaker>>_vars => After'
    BY DEF Out, Back, CallPhase, ContainerMaker, CreatePod, TriggerJob, DeletePods,
           Refuse, Served
  <1>3. NeverStuck /\ Out(p, a) => ENABLED <<ContainerMaker>>_vars
    BY DEF NeverStuck, Out, CallPhase, Calling
  <1>. QED  BY <1>1, <1>2, <1>3, PTL DEF Going, CallComesBack

\* An answer ends the phase or leads to the next attempt, of which there are three.
LEMMA CallsAreTaken ==
    ASSUME NEW p \in CallPhase, NEW a \in 0..2, MaxAttempts <= 3
    PROVE  Going => CallIsTaken(p, a)
  <1>. DEFINE After == (a < 2 /\ Out(p, a + 1)) \/ (p = "trigger" /\ Polling) \/ Done
  <1>. USE DEF Out, Back, Polling, Done, CallPhase
  <1>1. ASSUME NEW o, Return(o) PROVE After'
    BY <1>1 DEF Return, Idle
  <1>2. Back(p, a) /\ Handling => After'
    <2>. SUFFICES ASSUME Back(p, a), Handling PROVE After'
      OBVIOUS
    <2>1. CASE Retry
      BY <2>1, BoundAssumption DEF Retry
    <2>2. CASE CreateReturns \/ DeleteReturns
      BY <1>1, <2>2 DEF CreateReturns, DeleteReturns
    <2>3. CASE TriggerReturns
      BY <1>1, <2>3 DEF TriggerReturns, Await
    <2>. QED  BY <2>1, <2>2, <2>3 DEF Handling, Poll, Decide
  <1>3. Back(p, a) /\ [Next]_vars => Back(p, a)' \/ After'
    <2>. SUFFICES ASSUME Back(p, a), [Next]_vars PROVE Back(p, a)' \/ After'
      OBVIOUS
    <2>1. CASE Crash
      BY <2>1 DEF Crash, Idle
    <2>2. ~ ContainerMaker
      BY DEF ContainerMaker, CreatePod, TriggerJob, DeletePods, Refuse, Calling
    <2>. QED
      BY <1>2, <2>1, <2>2 DEF Next, RejectConfig, Begin, JobPushes, JobEnds, PodLost,
         DeadlinePasses, handler, vars
  <1>4. NeverStuck /\ Back(p, a) => ENABLED <<Handling>>_vars
    BY DEF NeverStuck, Calling
  <1>. QED  BY <1>2, <1>3, <1>4, PTL DEF Going, CallIsTaken

\* Polling comes to its deadline or to an end.
LEMMA PollsRunLate == Going => PollRunsLate
  <1>. DEFINE After == (Polling /\ late) \/ Out("delete", 0) \/ Done
  <1>. USE DEF Out, Polling, Done
  <1>1. Polling /\ [Next]_vars => Polling' \/ After'
    <2>. SUFFICES ASSUME Polling, [Next]_vars PROVE Polling' \/ After'
      OBVIOUS
    <2>1. ASSUME NEW o, Return(o) PROVE After'
      BY <2>1 DEF Return, Idle
    <2>2. CASE Handling
      BY <2>1, <2>2 DEF Handling, Retry, CreateReturns, TriggerReturns, Poll, Decide,
         DeleteReturns, Await
    <2>3. CASE Crash
      BY <2>3 DEF Crash, Idle
    <2>4. ~ ContainerMaker
      BY DEF ContainerMaker, CreatePod, TriggerJob, DeletePods, Refuse, Calling
    <2>. QED
      BY <2>2, <2>3, <2>4 DEF Next, RejectConfig, Begin, JobPushes, JobEnds, PodLost,
         DeadlinePasses, handler, vars
  <1>2. Polling /\ <<DeadlinePasses>>_vars => After'
    BY DEF DeadlinePasses
  <1>3. NeverStuck /\ Polling /\ ~ late => ENABLED <<DeadlinePasses>>_vars
    BY DEF NeverStuck
  <1>. QED  BY <1>1, <1>2, <1>3, PTL DEF Going, PollRunsLate

\* A poll past the deadline still comes back, and what it says is the last word.
LEMMA LatePollsEnd == Going => LatePollAnswers /\ LateLookIsLast
  <1>. USE DEF Out, Late, Done
  <1>1. ASSUME NEW o, Return(o) PROVE Done'
    BY <1>1 DEF Return, Idle
  <1>2. PhaseInv /\ Late("poll") /\ Handling => Late("decide")'
    BY DEF PhaseInv, Retryable, Handling, Retry, CreateReturns, TriggerReturns, Poll,
       Decide, DeleteReturns
  <1>3. PhaseInv /\ Late("decide") /\ Handling => (Out("delete", 0) \/ Done)'
    BY <1>1 DEF PhaseInv, Retryable, Handling, Retry, CreateReturns, TriggerReturns,
       Poll, Decide,
       DeleteReturns, OutOfTime, Await
  <1>4. ASSUME NEW ph \in {"poll", "decide"}, Late(ph), [Next]_vars
        PROVE  Handling \/ Late(ph)' \/ Done'
    <2>1. CASE Crash
      BY <2>1 DEF Crash, Idle
    <2>2. ~ ContainerMaker
      BY <1>4 DEF ContainerMaker, CreatePod, TriggerJob, DeletePods, Refuse, Calling
    <2>. QED
      BY <1>4, <2>1, <2>2 DEF Next, RejectConfig, Begin, JobPushes, JobEnds, PodLost,
         DeadlinePasses, handler, vars
  <1>5. PhaseInv /\ Late("poll") /\ [Next]_vars =>
          (Late("poll") \/ Late("decide") \/ Done)'
    BY <1>2, <1>4
  <1>6. PhaseInv /\ Late("decide") /\ [Next]_vars =>
          (Late("decide") \/ Out("delete", 0) \/ Done)'
    BY <1>3, <1>4
  <1>7. NeverStuck /\ (Late("poll") \/ Late("decide")) => ENABLED <<Handling>>_vars
    BY DEF NeverStuck, Calling
  <1>8. IInv => PhaseInv
    BY DEF IInv
  <1>. QED
    BY <1>2, <1>3, <1>5, <1>6, <1>7, <1>8, PTL DEF Going, LatePollAnswers, LateLookIsLast

\* From any phase a handler comes to its end.
LEMMA HandlerComesToItsEnd ==
    ASSUME MaxAttempts <= 3
    PROVE  Going => HandlerEnds
  <1>1. \A p \in CallPhase :
          Going => /\ CallComesBack(p, 0) /\ CallIsTaken(p, 0)
                   /\ CallComesBack(p, 1) /\ CallIsTaken(p, 1)
                   /\ CallComesBack(p, 2) /\ CallIsTaken(p, 2)
    BY CallsComeBack, CallsAreTaken
  <1>2. Going => /\ CallComesBack("create", 0) /\ CallIsTaken("create", 0)
                 /\ CallComesBack("create", 1) /\ CallIsTaken("create", 1)
                 /\ CallComesBack("create", 2) /\ CallIsTaken("create", 2)
    BY <1>1 DEF CallPhase
  <1>3. Going => /\ CallComesBack("trigger", 0) /\ CallIsTaken("trigger", 0)
                 /\ CallComesBack("trigger", 1) /\ CallIsTaken("trigger", 1)
                 /\ CallComesBack("trigger", 2) /\ CallIsTaken("trigger", 2)
    BY <1>1 DEF CallPhase
  <1>4. Going => /\ CallComesBack("delete", 0) /\ CallIsTaken("delete", 0)
                 /\ CallComesBack("delete", 1) /\ CallIsTaken("delete", 1)
                 /\ CallComesBack("delete", 2) /\ CallIsTaken("delete", 2)
    BY <1>1 DEF CallPhase
  <1>5. IInv =>
          \/ Done \/ Polling
          \/ Out("create", 0) \/ Back("create", 0) \/ Out("create", 1) \/ Back("create", 1)
          \/ Out("create", 2) \/ Back("create", 2)
          \/ Out("trigger", 0) \/ Back("trigger", 0) \/ Out("trigger", 1) \/ Back("trigger", 1)
          \/ Out("trigger", 2) \/ Back("trigger", 2)
          \/ Out("delete", 0) \/ Back("delete", 0) \/ Out("delete", 1) \/ Back("delete", 1)
          \/ Out("delete", 2) \/ Back("delete", 2)
    <2>1. IInv => attempt \in 0..2
      BY BoundAssumption DEF IInv, TypeOK
    <2>. QED  BY <2>1 DEF IInv, TypeOK, Done, Polling, Out, Back
  <1>6. ~ (2 < 2) /\ ~ ("create" = "trigger") /\ ~ ("delete" = "trigger")
    OBVIOUS
  <1>7. \A p \in CallPhase : /\ Out(p, 0 + 1) => Out(p, 1)
                             /\ Out(p, 1 + 1) => Out(p, 2)
    BY DEF Out
  <1>8. /\ Out("create", 0 + 1) => Out("create", 1)
        /\ Out("create", 1 + 1) => Out("create", 2)
        /\ Out("trigger", 0 + 1) => Out("trigger", 1)
        /\ Out("trigger", 1 + 1) => Out("trigger", 2)
        /\ Out("delete", 0 + 1) => Out("delete", 1)
        /\ Out("delete", 1 + 1) => Out("delete", 2)
    BY <1>7 DEF CallPhase
  <1>9. Polling /\ late => Late("poll") \/ Late("decide")
    BY DEF Polling, Late
  <1>10. (Done <=> phase = "idle") /\ (~ Done <=> phase # "idle")
    BY DEF Done
  <1>11. Going => PollRunsLate /\ LatePollAnswers /\ LateLookIsLast
    BY PollsRunLate, LatePollsEnd
  <1>. QED
    BY <1>2, <1>3, <1>4, <1>5, <1>6, <1>8, <1>9, <1>10, <1>11, PTL
    DEF Going, CallComesBack, CallIsTaken, PollRunsLate, LatePollAnswers,
        LateLookIsLast, HandlerEnds

\* Every handler that was started ends, for any commands, crashes and losses,
\* with at most the three attempts of retry.py:17: nothing is assumed of Cloud,
\* of Container Maker only that its calls come back. The second hypothesis is
\* the invariant NeverStuck.
THEOREM EveryHandlerEnds ==
    ASSUME MaxAttempts <= 3
    PROVE  FairSpec /\ []NeverStuck => HandlerEnds
  <1>1. FairSpec /\ []NeverStuck => Going
    BY Invariance, PTL DEF FairSpec, Spec, Going
  <1>. QED  BY <1>1, HandlerComesToItsEnd
==============================================================================

--------------------------- MODULE CommandPipeline ---------------------------
(***************************************************************************)
(* A command's whole way through the agent: Cloud sends it down the        *)
(* Device Control stream, ConnectionManager (control/grpc_client.py)       *)
(* accepts it into the journal, CommandExecutor (commands/executor.py)     *)
(* runs its handler and records the result, main.py reports it over HTTP,  *)
(* and what was not reported is resent at the head of the next stream.     *)
(* One asyncio event loop runs two tasks on the stream: the read loop      *)
(* (variable reader), which awaits each handler before it reads on, and    *)
(* the request generator (variable generator), which grpc pulls. Their     *)
(* steps interleave only where the code suspends. Cloud, the network and   *)
(* Container Maker are external; a crash loses everything but the journal. *)
(***************************************************************************)
EXTENDS CommandJournal, PlacementCache, Sequences, Functions

CONSTANTS
    NoCommand,       \* current's value while no command is being executed
    ContainerOf,     \* ContainerOf[c]: the container command c is about
    Operation,       \* Operation[c]: the operation command c asks for
    Generation,      \* Generation[c]: the placement generation c carries
    MaxCrashes,      \* bound: crashes of the agent
    MaxFaults        \* bound: exceptions raised by the journal or a report

Placing == {"Create", "Resume"}
Unplacing == {"Delete", "Hibernate"}
Registered == {"Create", "Delete", "Hibernate", "Resume", "Save"}

ASSUME NoCommandAssumption == NoCommand \notin Command
ASSUME CommandAssumption ==
    /\ ContainerOf \in [Command -> Container]
    /\ Operation \in [Command -> Registered \cup {"Reconcile", "Unknown"}]
    /\ Generation \in [Command -> Nat \ {0}]
ASSUME BoundAssumption == MaxCrashes \in Nat /\ MaxFaults \in Nat

VARIABLES
    stream,              \* the Connect call: "closed", "open" or "broken"
    generator,           \* where outbound_gen stands
    resends,             \* results it has collected and not yet yielded
    pending_resend_ids,  \* _pending_resend_ids
    outbound,            \* _outbound, the queue the generator ends on
    wire,                \* written to the stream, not yet read by Cloud
    inbound,             \* sent by Cloud, not yet read by the agent
    greeted,             \* Cloud has accepted this stream's Hello
    reader,              \* where the read loop stands
    current,             \* the command it is executing
    received,            \* the results Cloud has taken
    effects,             \* history: Container Maker's work per command
    torn,                \* history: results lost with a stream
    crashes, faults      \* history: how often each happened

cloud == <<received, effects>>
history == <<torn, crashes, faults>>
upstream == <<resends, pending_resend_ids, outbound, wire>>
vars == <<journal, placement_cache, stream, generator, upstream, inbound,
          greeted, reader, current, cloud, history>>

-----------------------------------------------------------------------------
(* Messages *)

Hello == [type |-> "hello"]
HelloAccepted == [type |-> "hello_accepted"]
CommandAccepted(c) == [type |-> "command_accepted", command_id |-> c]
ExecuteCommand(c) == [type |-> "execute_command", command_id |-> c]
CommandResult(c, status, g) ==
    [type |-> "command_result", command_id |-> c, status |-> status,
     placement_generation |-> g]

ResultMessage ==
    [type: {"command_result"}, command_id: Command, status: Terminal,
     placement_generation: Nat]
AcceptedMessage == [type: {"command_accepted"}, command_id: Command]
DeviceToCloud == {Hello} \cup AcceptedMessage \cup ResultMessage
CloudToDevice ==
    {HelloAccepted} \cup [type: {"execute_command"}, command_id: Command]

\* _messages_for_entries: the resend of a journal row.
MessageForEntry(c) ==
    CommandResult(c, journal[c].status, journal[c].placement_generation)

\* The body report_command_result posts for the command being executed.
Report == CommandResult(current, journal[current].status, Generation[current])

IsResult(m) == m.type = "command_result"
ResultsOnTheWay == resends \cup {m \in Range(wire) : IsResult(m)}
InTransit(c) == \E m \in ResultsOnTheWay : m.command_id = c

TypeOK ==
    /\ JournalTypeOK
    /\ CacheTypeOK
    /\ stream \in {"closed", "open", "broken"}
    /\ generator \in {"off", "start", "greeting", "resending"}
    /\ resends \subseteq ResultMessage
    /\ pending_resend_ids \subseteq Command
    /\ outbound \in Seq(AcceptedMessage)
    /\ wire \in Seq(DeviceToCloud)
    /\ inbound \in Seq(CloudToDevice)
    /\ greeted \in BOOLEAN
    /\ reader \in {"idle", "marking", "accepted", "running", "effected",
                   "reporting", "posted"}
    /\ current \in Command \cup {NoCommand}
    /\ received \subseteq ResultMessage
    /\ effects \in [Command -> Nat]
    /\ torn \subseteq Command
    /\ crashes \in 0..MaxCrashes
    /\ faults \in 0..MaxFaults

Init ==
    /\ JournalInit
    /\ placement_cache = EmptyCache
    /\ stream = "closed"
    /\ generator = "off"
    /\ resends = {}
    /\ pending_resend_ids = {}
    /\ outbound = <<>>
    /\ wire = <<>>
    /\ inbound = <<>>
    /\ greeted = FALSE
    /\ reader = "idle"
    /\ current = NoCommand
    /\ received = {}
    /\ effects = [c \in Command |-> 0]
    /\ torn = {}
    /\ crashes = 0
    /\ faults = 0

-----------------------------------------------------------------------------
(* The connection: run_forever, _connect_once and outbound_gen *)

\* What the read loop does with hello_accepted, and from record_accepted to
\* the handler's first await, has no suspension point: nothing else runs.
EventLoopFree == reader \notin {"marking", "accepted"}

\* A fresh queue and a fresh generator; _pending_resend_ids is kept.
Connect ==
    /\ stream = "closed"
    /\ stream' = "open"
    /\ generator' = "start"
    /\ outbound' = <<>>
    /\ UNCHANGED <<journal, placement_cache, resends, pending_resend_ids, wire,
                   inbound, greeted, reader, current, cloud, history>>

Write(m) == wire' = Append(wire, m)

WriteHello ==
    /\ stream = "open" /\ EventLoopFree
    /\ generator = "start"
    /\ Write(Hello)
    /\ generator' = "greeting"
    /\ UNCHANGED <<journal, placement_cache, stream, resends, pending_resend_ids,
                   outbound, inbound, greeted, reader, current, cloud, history>>

\* Only when grpc pulls again does the generator read the journal, on a
\* stream that may have broken by then.
CollectUnreported ==
    /\ EventLoopFree
    /\ generator = "greeting"
    /\ pending_resend_ids' = UnreportedTerminalEntries
    /\ resends' = {MessageForEntry(c) : c \in UnreportedTerminalEntries}
    /\ generator' = "resending"
    /\ UNCHANGED <<journal, placement_cache, stream, outbound, wire, inbound,
                   greeted, reader, current, cloud, history>>

WriteResend(m) ==
    /\ stream = "open" /\ EventLoopFree
    /\ m \in resends
    /\ Write(m)
    /\ resends' = resends \ {m}
    /\ UNCHANGED <<journal, placement_cache, stream, generator,
                   pending_resend_ids, outbound, inbound, greeted, reader,
                   current, cloud, history>>

WriteQueued ==
    /\ stream = "open" /\ EventLoopFree
    /\ generator = "resending" /\ resends = {}
    /\ outbound # <<>>
    /\ Write(Head(outbound))
    /\ outbound' = Tail(outbound)
    /\ UNCHANGED <<journal, placement_cache, stream, generator, resends,
                   pending_resend_ids, inbound, greeted, reader, current,
                   cloud, history>>

\* The call is over and its generator with it: what was collected or
\* written and not read by Cloud is gone.
LoseStream ==
    /\ generator' = "off"
    /\ resends' = {}
    /\ wire' = <<>>
    /\ inbound' = <<>>
    /\ greeted' = FALSE
    /\ torn' = torn \cup {c \in Command : InTransit(c)}

ConnectionEnds ==
    /\ stream' = "closed"
    /\ LoseStream
    /\ reader' = "idle"
    /\ current' = NoCommand

\* The read loop has delivered what the broken call still held.
StreamEnds ==
    /\ stream = "broken"
    /\ reader = "idle"
    /\ inbound = <<>>
    /\ ConnectionEnds
    /\ UNCHANGED <<journal, placement_cache, pending_resend_ids, outbound, cloud,
                   crashes, faults>>

-----------------------------------------------------------------------------
(* The read loop: _handle_inbound *)

Incoming(m) ==
    /\ stream # "closed"
    /\ reader = "idle"
    /\ inbound # <<>>
    /\ Head(inbound) = m

Reading(m) == Incoming(m) /\ inbound' = Tail(inbound)

HandleHelloAccepted ==
    /\ Reading(HelloAccepted)
    /\ reader' = "marking"
    /\ UNCHANGED <<journal, placement_cache, stream, generator, upstream, greeted,
                   current, cloud, history>>

\* One mark_reported of the loop over _pending_resend_ids.
MarkResent(c) ==
    /\ reader = "marking"
    /\ c \in pending_resend_ids
    /\ ~ journal[c].reported_to_cloud
    /\ MarkReported(c)
    /\ UNCHANGED <<placement_cache, stream, generator, upstream, inbound, greeted,
                   reader, current, cloud, history>>

HelloAcceptedDone ==
    /\ reader = "marking"
    /\ \A c \in pending_resend_ids : journal[c].reported_to_cloud
    /\ pending_resend_ids' = {}
    /\ reader' = "idle"
    /\ UNCHANGED <<journal, placement_cache, stream, generator, resends, outbound,
                   wire, inbound, greeted, current, cloud, history>>

IgnoreDuplicate(c) ==
    /\ Reading(ExecuteCommand(c))
    /\ HasTerminalResult(c)
    /\ UNCHANGED <<journal, placement_cache, stream, generator, upstream, greeted,
                   reader, current, cloud, history>>

\* Mutant: acknowledged, and the journal not written.
AcknowledgeUnrecorded(c) ==
    /\ Reading(ExecuteCommand(c))
    /\ ~ HasTerminalResult(c)
    /\ outbound' = Append(outbound, CommandAccepted(c))
    /\ reader' = "accepted"
    /\ current' = c
    /\ UNCHANGED <<journal, placement_cache, stream, generator, resends,
                   pending_resend_ids, wire, greeted, cloud, history>>

\* Mutant: no dedup, every delivery is run.
AcceptAlways(c) ==
    /\ Reading(ExecuteCommand(c))
    /\ RecordAccepted(c, Generation[c])
    /\ outbound' = Append(outbound, CommandAccepted(c))
    /\ reader' = "accepted"
    /\ current' = c
    /\ UNCHANGED <<placement_cache, stream, generator, resends,
                   pending_resend_ids, wire, greeted, cloud, history>>

\* Mutant: record_accepted's default generation (the bug of executor.py:87-96).
AcceptWithoutGeneration(c) ==
    /\ Reading(ExecuteCommand(c))
    /\ ~ HasTerminalResult(c)
    /\ RecordAccepted(c, 0)
    /\ outbound' = Append(outbound, CommandAccepted(c))
    /\ reader' = "accepted"
    /\ current' = c
    /\ UNCHANGED <<placement_cache, stream, generator, resends,
                   pending_resend_ids, wire, greeted, cloud, history>>

AcceptCommand(c) ==
    /\ Reading(ExecuteCommand(c))
    /\ ~ HasTerminalResult(c)
    /\ RecordAccepted(c, Generation[c])
    /\ outbound' = Append(outbound, CommandAccepted(c))
    /\ reader' = "accepted"
    /\ current' = c
    /\ UNCHANGED <<placement_cache, stream, generator, resends,
                   pending_resend_ids, wire, greeted, cloud, history>>

-----------------------------------------------------------------------------
(* CommandExecutor.execute and the report_result callback of main.py *)

\* The defensive has_seen finds the row AcceptCommand made.
StartHandler ==
    /\ reader = "accepted"
    /\ Operation[current] \in Registered
    /\ RecordRunning(current)
    /\ reader' = "running"
    /\ UNCHANGED <<placement_cache, stream, generator, upstream, inbound, greeted,
                   current, cloud, history>>

\* _finish: the journal first, then the report.
Finish(status, error) ==
    /\ RecordResult(current, status, error)
    /\ reader' = "reporting"

RejectUnregistered ==
    /\ reader = "accepted"
    /\ Operation[current] \notin Registered
    /\ Finish("failed", "NO_HANDLER")
    /\ UNCHANGED <<placement_cache, stream, generator, upstream, inbound, greeted,
                   current, cloud, history>>

\* The handler's own work (commands/create.py, delete.py, ...): Container
\* Maker does what was asked, or it is found already done.
ContainerMakerActs ==
    /\ reader = "running"
    /\ reader' = "effected"
    /\ effects' = [effects EXCEPT ![current] = @ + 1]
    /\ UNCHANGED <<journal, placement_cache, stream, generator, upstream, inbound,
                   greeted, current, received, history>>

\* Mutant: removals are forgotten about.
RecordPlacementsOnly ==
    IF Operation[current] \in Placing
    THEN Record(ContainerOf[current], Generation[current])
    ELSE UNCHANGED placement_cache

UpdatePlacementCache ==
    CASE Operation[current] \in Placing ->
            Record(ContainerOf[current], Generation[current])
      [] Operation[current] \in Unplacing -> Forget(ContainerOf[current])
      [] OTHER -> UNCHANGED placement_cache

\* Mutant: the command is finished before the handler has done its work.
FinishEarly ==
    /\ reader = "running"
    /\ UpdatePlacementCache
    /\ Finish("succeeded", "none")
    /\ UNCHANGED <<stream, generator, upstream, inbound, greeted, current, cloud,
                   history>>

HandlerSucceeds ==
    /\ reader = "effected"
    /\ UpdatePlacementCache
    /\ Finish("succeeded", "none")
    /\ UNCHANGED <<stream, generator, upstream, inbound, greeted, current, cloud,
                   history>>

\* Mutant: the cache is updated before the error code is looked at.
HandlerFailsPlacing(error) ==
    /\ reader \in {"running", "effected"}
    /\ UpdatePlacementCache
    /\ Finish("failed", error)
    /\ UNCHANGED <<stream, generator, upstream, inbound, greeted, current, cloud,
                   history>>

\* The handler returns an error code, or raises.
HandlerFails(error) ==
    /\ reader \in {"running", "effected"}
    /\ Finish("failed", error)
    /\ UNCHANGED <<placement_cache, stream, generator, upstream, inbound, greeted,
                   current, cloud, history>>

\* One of report_command_result's attempts gets through to Cloud ...
CloudTakesReport ==
    /\ reader = "reporting"
    /\ reader' = "posted"
    /\ received' = received \cup {Report}
    /\ UNCHANGED <<journal, placement_cache, stream, generator, upstream, inbound,
                   greeted, current, effects, history>>

\* ... and its 200 comes back, ...
ReportSucceeds ==
    /\ reader = "posted"
    /\ MarkReported(current)
    /\ reader' = "idle"
    /\ current' = NoCommand
    /\ UNCHANGED <<placement_cache, stream, generator, upstream, inbound, greeted,
                   cloud, history>>

\* Mutant: marked reported whatever came of the report.
ReportFailsMarked ==
    /\ reader \in {"reporting", "posted"}
    /\ MarkReported(current)
    /\ reader' = "idle"
    /\ current' = NoCommand
    /\ UNCHANGED <<placement_cache, stream, generator, upstream, inbound, greeted,
                   cloud, history>>

\* Mutant: a report that Cloud never took is waited for.
ReportFailsAnswered ==
    /\ reader = "posted"
    /\ reader' = "idle"
    /\ current' = NoCommand
    /\ UNCHANGED <<journal, placement_cache, stream, generator, upstream, inbound,
                   greeted, cloud, history>>

\* ... or no answer does, whether or not Cloud took the report.
ReportFails ==
    /\ reader \in {"reporting", "posted"}
    /\ reader' = "idle"
    /\ current' = NoCommand
    /\ UNCHANGED <<journal, placement_cache, stream, generator, upstream, inbound,
                   greeted, cloud, history>>

-----------------------------------------------------------------------------
(* Exceptions *)

Fault ==
    /\ faults < MaxFaults
    /\ faults' = faults + 1

\* Results finished inside execute's try, whose except clause catches what
\* recording or reporting them raises.
InsideTry == journal[current].error_code \in {"none", "HANDLER_ERROR"}

\* record_result raises for a success or a returned error: the except clause
\* records a failure instead. A success had updated the cache before.
RecordResultRaises ==
    /\ Fault
    /\ \/ reader = "effected" /\ UpdatePlacementCache
       \/ reader \in {"running", "effected"} /\ UNCHANGED placement_cache
    /\ Finish("failed", "HANDLER_EXCEPTION")
    /\ UNCHANGED <<stream, generator, upstream, inbound, greeted, current, cloud,
                   torn, crashes>>

\* report_result raises (mark_reported does, or the client does something
\* other than an httpx.HTTPError): the except clause finishes the command a
\* second time, as failed.
ReportRaises ==
    /\ Fault
    /\ reader \in {"reporting", "posted"}
    /\ InsideTry
    /\ Finish("failed", "HANDLER_EXCEPTION")
    /\ UNCHANGED <<placement_cache, stream, generator, upstream, inbound, greeted,
                   current, cloud, torn, crashes>>

\* An exception nobody catches leaves _handle_inbound and ends the
\* connection; run_forever logs it and connects again. The journal can raise
\* wherever the read loop uses it; out of a running handler only if the
\* except clause's own write raises too.
ExceptionEscapes ==
    /\ Fault
    /\ reader # "idle" \/ \E c \in Command : Incoming(ExecuteCommand(c))
    /\ reader \in {"reporting", "posted"} => ~ InsideTry
    /\ \/ reader = "effected" /\ UpdatePlacementCache
       \/ UNCHANGED placement_cache
    /\ ConnectionEnds
    /\ UNCHANGED <<journal, pending_resend_ids, outbound, cloud, crashes>>

-----------------------------------------------------------------------------
(* The process, Cloud and the network *)

\* The process dies anywhere and is started again on the same journal file.
Crash ==
    /\ crashes < MaxCrashes
    /\ crashes' = crashes + 1
    /\ ConnectionEnds
    /\ pending_resend_ids' = {}
    /\ outbound' = <<>>
    /\ placement_cache' = EmptyCache
    /\ UNCHANGED <<journal, cloud, faults>>

\* Cloud takes a result only with the generation it issued the command under.
Acceptable(m) ==
    IsResult(m) /\ m.placement_generation = Generation[m.command_id]

CloudReceivesHello ==
    /\ stream = "open"
    /\ wire # <<>>
    /\ Head(wire) = Hello
    /\ wire' = Tail(wire)
    /\ greeted' = TRUE
    /\ inbound' = Append(inbound, HelloAccepted)
    /\ UNCHANGED <<journal, placement_cache, stream, generator, resends,
                   pending_resend_ids, outbound, reader, current, cloud, history>>

CloudReceivesMessage ==
    /\ stream = "open"
    /\ wire # <<>>
    /\ Head(wire) # Hello
    /\ wire' = Tail(wire)
    /\ received' = IF Acceptable(Head(wire))
                   THEN received \cup {Head(wire)} ELSE received
    /\ UNCHANGED <<journal, placement_cache, stream, generator, resends,
                   pending_resend_ids, outbound, inbound, greeted, reader,
                   current, effects, history>>

Answered(c) == \E m \in received : m.command_id = c

\* Cloud delivers, on every stream, a command it has no result of; one copy
\* at a time is on its way (bound).
CloudSends(c) ==
    /\ stream = "open"
    /\ greeted
    /\ ~ Answered(c)
    /\ ExecuteCommand(c) \notin Range(inbound)
    /\ inbound' = Append(inbound, ExecuteCommand(c))
    /\ UNCHANGED <<journal, placement_cache, stream, generator, upstream, greeted,
                   reader, current, cloud, history>>

\* The proxy cuts the stream: what Cloud has not read is lost, what the agent
\* has not read may be cut short.
Drop ==
    /\ stream = "open"
    /\ stream' = "broken"
    /\ wire' = <<>>
    /\ torn' = torn \cup {m.command_id : m \in {n \in Range(wire) : IsResult(n)}}
    /\ \E n \in 0..Len(inbound) : inbound' = SubSeq(inbound, 1, n)
    /\ UNCHANGED <<journal, placement_cache, generator, resends,
                   pending_resend_ids, outbound, greeted, reader, current, cloud,
                   crashes, faults>>

-----------------------------------------------------------------------------

Generating ==
    \/ WriteHello
    \/ CollectUnreported
    \/ \E m \in resends : WriteResend(m)
    \/ WriteQueued

Marking == (\E c \in Command : MarkResent(c)) \/ HelloAcceptedDone

Executing ==
    \/ StartHandler
    \/ RejectUnregistered
    \/ ContainerMakerActs
    \/ HandlerSucceeds
    \/ \E error \in {"HANDLER_ERROR", "HANDLER_EXCEPTION"} : HandlerFails(error)

Reporting == ReportSucceeds \/ ReportFails

ReadLoop ==
    \/ HandleHelloAccepted
    \/ \E c \in Command : IgnoreDuplicate(c) \/ AcceptCommand(c)
    \/ Marking
    \/ Executing
    \/ Reporting

Raising == RecordResultRaises \/ ReportRaises \/ ExceptionEscapes

CloudReceives == CloudReceivesHello \/ CloudReceivesMessage

Cloud ==
    \/ CloudReceives
    \/ CloudTakesReport
    \/ \E c \in Command : CloudSends(c)

Next ==
    \/ Connect
    \/ StreamEnds
    \/ Generating
    \/ ReadLoop
    \/ Raising
    \/ Crash
    \/ Cloud
    \/ Drop

Spec == Init /\ [][Next]_vars

\* This stream has done all that a stream does at its start.
Settled ==
    /\ generator = "resending"
    /\ resends = {}
    /\ greeted
    /\ HelloAccepted \notin Range(inbound)
    /\ reader # "marking"

Redelivery(c) == SF_vars(CloudSends(c)) /\ SF_vars(AcceptCommand(c))
Redeliveries == \A c \in Command : Redelivery(c)

\* Every task that can step does. Cloud keeps sending a command it has no
\* result of, and what it sends again and again is read in the end. From some
\* point on each stream lives through its start and is cut some time later
\* (cloud_client.py:157-160: every 30 to 90 seconds).
Fairness ==
    /\ WF_vars(Connect)
    /\ WF_vars(StreamEnds)
    /\ WF_vars(Generating)
    /\ WF_vars(ReadLoop)
    /\ WF_vars(CloudReceives)
    /\ Redeliveries
    /\ WF_vars(Settled /\ Drop)
    /\ <>[][Drop => Settled]_vars

FairSpec == Spec /\ Fairness

-----------------------------------------------------------------------------
(* Properties *)

Succeeded(c) == journal[c].status = "succeeded"

\* Redelivery alone never runs a command twice: each execution beyond the
\* first is owed to a crash or to a raised exception, and an execution that
\* ended in a result is the last one (grpc_client.py:235 with executor.py:86).
ReexecutionNeedsFault == \A c \in Command : effects[c] <= 1 + crashes + faults

\* A result marked reported, by the HTTP answer or by a later stream's
\* hello_accepted, was taken by Cloud, is on its way there, or was lost with
\* a stream it had been collected for (grpc_client.py:141, 220-222).
LostOnlyInTransit ==
    \A c \in Command \ Legacy :
        journal[c].reported_to_cloud => Answered(c) \/ InTransit(c) \/ c \in torn

\* Cloud, the stream and the journal never say a command succeeded for which
\* Container Maker did nothing, whatever crashed or raised in between.
SuccessIsBacked ==
    /\ \A c \in Command : Succeeded(c) => effects[c] > 0
    /\ \A m \in ResultsOnTheWay \cup received :
          m.status = "succeeded" => effects[m.command_id] > 0

\* Cloud is never told two different things of one command, over HTTP, by a
\* resend or by both: what was collected, written or taken is what the journal
\* still says. Only reporting a success that raises turns it into a failure
\* (executor.py:65-69), and a failure told is final.
AnswersAgree ==
    \A m \in ResultsOnTheWay \cup received :
        LET status == journal[m.command_id].status IN
        m.status # status =>
            faults > 0 /\ m.status = "succeeded" /\ status = "failed"

\* A result carries the generation of the command it answers, through the
\* journal and a restart, on the resend path and on the HTTP path alike
\* (executor.py:87-96); an older file's rows are the exception.
GenerationTravels ==
    \A m \in ResultsOnTheWay \cup received :
        m.command_id \notin Legacy => m.placement_generation = Generation[m.command_id]

\* An acknowledgement on its way to Cloud is backed by a journal row, so a
\* crash cannot forget a command Cloud believes accepted
\* (grpc_client.py:238-239).
AcknowledgedIsDurable ==
    \A m \in Range(wire) \cup Range(outbound) :
        m.type = "command_accepted" => HasSeen(m.command_id)

\* A generation in the cache is that of a placing command the journal knows
\* to have succeeded, unless recording that success raised.
CacheIsBacked ==
    faults = 0 =>
        \A k \in Container : placement_cache[k] # Unplaced =>
            \E c \in Command :
                /\ Operation[c] \in Placing /\ ContainerOf[c] = k
                /\ Generation[c] = placement_cache[k]
                /\ Succeeded(c)

\* In the very step in which a removal is recorded as done, the cache stops
\* vouching for the container (executor.py:64-66).
RemovalClearsCache ==
    [][\A c \in Command :
         Operation[c] \in Unplacing /\ ~ Succeeded(c) /\ Succeeded(c)'
            => placement_cache'[ContainerOf[c]] = Unplaced]_vars

OutcomeOf(c) ==
    IF journal[c].status = "absent" THEN "none"
    ELSE IF journal[c].status \in {"accepted", "running"} THEN "open"
    ELSE journal[c].status

OutcomeMap == [c \in Command |-> OutcomeOf(c)]
ReportedMap == [c \in Command |-> journal[c].reported_to_cloud]

Ledger == INSTANCE CommandLedger WITH
    outcome <- OutcomeMap, reported <- ReportedMap, work <- effects

\* The pipeline keeps the promises of the ledger: the journal's status is the
\* outcome, and Container Maker's work is the work. In particular no work is
\* done for a command that has an outcome, and an outcome changes only by
\* the fault the ledger names.
LedgerSpec == Ledger!Spec

\* Nothing the agent waits for depends on what it keeps from happening: a
\* stream is made and its end is noticed, the generator goes on whenever the
\* event loop is free, the read loop whatever it stands at and whatever comes
\* in, and a command Cloud has no result of can be sent and taken
\* (grpc_client.py:111-170, executor.py:41-111).
NeverStuck ==
    /\ stream = "closed" => ENABLED <<Connect>>_vars
    /\ stream = "broken" /\ reader = "idle" /\ inbound = <<>> =>
          ENABLED <<StreamEnds>>_vars
    /\ stream = "open" /\ EventLoopFree
          /\ (generator \in {"start", "greeting"} \/ resends # {}) =>
          ENABLED <<Generating>>_vars
    /\ stream # "closed" /\ (reader # "idle" \/ inbound # <<>>) =>
          ENABLED <<ReadLoop>>_vars
    /\ stream = "open" /\ wire # <<>> => ENABLED <<CloudReceives>>_vars
    /\ stream = "open" /\ Settled => ENABLED <<Settled /\ Drop>>_vars
    /\ \A c \in Command :
          /\ stream = "open" /\ greeted /\ ~ Answered(c)
                /\ ExecuteCommand(c) \notin Range(inbound) =>
                ENABLED <<CloudSends(c)>>_vars
          /\ Incoming(ExecuteCommand(c)) /\ ~ HasTerminalResult(c) =>
                ENABLED <<AcceptCommand(c)>>_vars

\* A command once accepted always ends in a result that is marked reported,
\* whatever streams, handlers and processes die meanwhile.
EventuallyReported ==
    \A c \in Command : HasSeen(c) ~> journal[c].reported_to_cloud

(* What the documentation says and the code does not do *)

\* "so it can resend that exact result on the next connection instead of
\* losing it" (command_journal.py:9-12): a recorded result reaches Cloud.
EveryResultReachesCloud ==
    \A c \in Command : HasTerminalResult(c) ~> Answered(c)
=============================================================================

------------------------ MODULE CommandPipelineProofs ------------------------
(***************************************************************************)
(* Theorems about CommandPipeline for every set of commands, every         *)
(* assignment of containers, operations and generations to them, and every *)
(* bound. The inductive invariant is                                       *)
(*   IInv == TypeOK /\ ControlInv /\ ReportedInv /\ CountInv /\ CoverInv   *)
(*           /\ BackingInv                                                 *)
(* and each part is shown to be preserved from the parts before it. From   *)
(* it follow the safety properties, that Cloud hears one answer of each    *)
(* command, that without faults a success is work done exactly once, and   *)
(* that the pipeline implements CommandLedger. The last part proves that   *)
(* a command once accepted is reported in the end.                         *)
(***************************************************************************)
EXTENDS CommandPipeline, QueueLemmas

USE NoCommandAssumption, CommandAssumption, BoundAssumption, LegacyAssumption

\* The read loop is executing a command.
Busy == {"accepted", "running", "effected", "reporting", "posted"}

\* Where the read loop stands agrees with the row of the command it executes,
\* and only a generator past its query holds results.
ControlInv ==
    /\ reader \in Busy => current \in Command
    /\ reader = "accepted" => journal[current].status \in {"accepted", "running"}
    /\ reader \in {"running", "effected"} => journal[current].status = "running"
    /\ reader \in {"reporting", "posted"} => HasTerminalResult(current)
    /\ stream = "closed" => generator = "off"
    /\ generator # "resending" => resends = {}

-----------------------------------------------------------------------------
(* What the journal's methods do to the rows *)

\* The fields of a row have their types.
LEMMA RowFields ==
    ASSUME NEW r \in Row
    PROVE  /\ r.status \in Status /\ r.placement_generation \in Nat
           /\ r.error_code \in ErrorCode /\ r.reported_to_cloud \in BOOLEAN
  BY DEF Row

\* INSERT OR IGNORE makes a row for a new command and changes no other.
LEMMA RecordAcceptedRow ==
    ASSUME JournalTypeOK, NEW c \in Command, NEW g \in Nat, RecordAccepted(c, g)
    PROVE  /\ JournalTypeOK'
           /\ HasSeen(c) => journal' = journal
           /\ ~ HasSeen(c) => /\ journal'[c].status = "accepted"
                             /\ journal'[c].placement_generation = g
                             /\ ~ journal'[c].reported_to_cloud
           /\ \A d \in Command \ {c} : journal'[d] = journal[d]
  <1>. DEFINE r == AcceptedRow(g)
  <1>1. r \in Row /\ r.status = "accepted" /\ r.placement_generation = g
           /\ r.reported_to_cloud = FALSE
    BY DEF AcceptedRow, NoRow, Row, Status, ErrorCode
  <1>2. CASE HasSeen(c)
    BY <1>2 DEF RecordAccepted, JournalTypeOK
  <1>3. CASE ~ HasSeen(c)
    <2>1. journal' = [journal EXCEPT ![c] = r]
      BY <1>3 DEF RecordAccepted
    <2>. QED  BY <1>1, <1>3, <2>1 DEF JournalTypeOK
  <1>. QED  BY <1>2, <1>3

\* record_running changes the status of one row, and nothing else of it.
LEMMA RecordRunningRow ==
    ASSUME JournalTypeOK, NEW c \in Command, HasSeen(c), RecordRunning(c)
    PROVE  /\ JournalTypeOK'
           /\ journal'[c].status = "running"
           /\ journal'[c].placement_generation = journal[c].placement_generation
           /\ journal'[c].reported_to_cloud = journal[c].reported_to_cloud
           /\ \A d \in Command \ {c} : journal'[d] = journal[d]
  <1>. DEFINE r == [journal[c] EXCEPT !.status = "running"]
  <1>1. /\ r \in Row /\ r.status = "running"
        /\ r.placement_generation = journal[c].placement_generation
        /\ r.reported_to_cloud = journal[c].reported_to_cloud
    BY DEF JournalTypeOK, Row, Status
  <1>2. journal' = [journal EXCEPT ![c] = r]
    BY DEF RecordRunning
  <1>. QED  BY <1>1, <1>2 DEF JournalTypeOK

\* record_result sets one row's status, unreported, and keeps its generation.
LEMMA RecordResultRow ==
    ASSUME JournalTypeOK, NEW c \in Command, NEW s \in Terminal, NEW e \in ErrorCode,
           HasSeen(c), RecordResult(c, s, e)
    PROVE  /\ JournalTypeOK'
           /\ journal'[c].status = s
           /\ journal'[c].placement_generation = journal[c].placement_generation
           /\ ~ journal'[c].reported_to_cloud
           /\ \A d \in Command \ {c} : journal'[d] = journal[d]
  <1>. DEFINE r == [journal[c] EXCEPT !.status = s, !.error_code = e,
                                      !.reported_to_cloud = FALSE]
  <1>1. /\ r \in Row /\ r.status = s
        /\ r.placement_generation = journal[c].placement_generation
        /\ r.reported_to_cloud = FALSE
    BY DEF JournalTypeOK, Row, Status, Terminal
  <1>2. journal' = [journal EXCEPT ![c] = r]
    BY DEF RecordResult
  <1>. QED  BY <1>1, <1>2 DEF JournalTypeOK

\* mark_reported flags one row and keeps its status and generation.
LEMMA MarkReportedRow ==
    ASSUME JournalTypeOK, NEW c \in Command, HasSeen(c), MarkReported(c)
    PROVE  /\ JournalTypeOK'
           /\ journal'[c].status = journal[c].status
           /\ journal'[c].placement_generation = journal[c].placement_generation
           /\ journal'[c].reported_to_cloud
           /\ \A d \in Command \ {c} : journal'[d] = journal[d]
  <1>. DEFINE r == [journal[c] EXCEPT !.reported_to_cloud = TRUE]
  <1>1. /\ r \in Row /\ r.status = journal[c].status
        /\ r.placement_generation = journal[c].placement_generation
        /\ r.reported_to_cloud = TRUE
    BY DEF JournalTypeOK, Row
  <1>2. journal' = [journal EXCEPT ![c] = r]
    BY DEF MarkReported
  <1>. QED  BY <1>1, <1>2 DEF JournalTypeOK

-----------------------------------------------------------------------------
(* Types and control *)

\* An agent that has just started on its journal is well typed.
LEMMA TypeInit == Init => TypeOK /\ ControlInv
  <1>. SUFFICES ASSUME Init PROVE TypeOK /\ ControlInv
    OBVIOUS
  <1>1. AcceptedRow(0) \in Row /\ NoRow \in Row
    BY DEF Row, NoRow, AcceptedRow, Status, ErrorCode
  <1>2. JournalTypeOK
    BY <1>1 DEF Init, JournalInit, JournalTypeOK
  <1>3. /\ outbound \in Seq(AcceptedMessage)
        /\ wire \in Seq(DeviceToCloud)
        /\ inbound \in Seq(CloudToDevice)
    BY DEF Init
  <1>4. CacheTypeOK /\ effects \in [Command -> Nat]
    BY DEF Init, CacheTypeOK, EmptyCache, Unplaced
  <1>5. crashes \in 0..MaxCrashes /\ faults \in 0..MaxFaults
    BY DEF Init
  <1>6. TypeOK
    BY <1>2, <1>3, <1>4, <1>5 DEF Init, TypeOK
  <1>7. ControlInv
    BY DEF Init, ControlInv, Busy
  <1>. QED  BY <1>6, <1>7

\* What the constructors build are messages.
LEMMA MessageTypes ==
    /\ Hello \in DeviceToCloud /\ HelloAccepted \in CloudToDevice
    /\ AcceptedMessage \subseteq DeviceToCloud /\ ResultMessage \subseteq DeviceToCloud
    /\ \A c \in Command : CommandAccepted(c) \in AcceptedMessage
    /\ \A c \in Command : ExecuteCommand(c) \in CloudToDevice
    /\ \A c \in Command, s \in Terminal, g \in Nat :
          CommandResult(c, s, g) \in ResultMessage
  BY DEF DeviceToCloud, CloudToDevice, AcceptedMessage, ResultMessage,
         CommandAccepted, ExecuteCommand, CommandResult

\* A resend is a well-formed result.
LEMMA EntryIsTyped ==
    ASSUME JournalTypeOK
    PROVE  \A c \in UnreportedTerminalEntries : MessageForEntry(c) \in ResultMessage
  BY RowFields, MessageTypes
  DEF JournalTypeOK, UnreportedTerminalEntries, MessageForEntry

\* A command's success leaves a well-typed cache.
LEMMA CacheIsTyped ==
    ASSUME TypeOK, current \in Command, UpdatePlacementCache
    PROVE  CacheTypeOK'
  <1>1. ContainerOf[current] \in Container /\ Generation[current] \in Nat
    OBVIOUS
  <1>2. CASE Record(ContainerOf[current], Generation[current])
    BY <1>1, <1>2 DEF TypeOK, CacheTypeOK, Record
  <1>3. CASE Forget(ContainerOf[current])
    BY <1>1, <1>3 DEF TypeOK, CacheTypeOK, Forget, Unplaced
  <1>4. CASE UNCHANGED placement_cache
    BY <1>4 DEF TypeOK, CacheTypeOK
  <1>. QED  BY <1>2, <1>3, <1>4 DEF UpdatePlacementCache

\* Every step keeps the types and the agreement of the read loop with the row
\* it works on.
LEMMA TypeStep == TypeOK /\ ControlInv /\ [Next]_vars => TypeOK' /\ ControlInv'
  <1>. SUFFICES ASSUME TypeOK, ControlInv, [Next]_vars
                PROVE  TypeOK' /\ ControlInv'
    OBVIOUS
  <1>. USE DEF TypeOK, ControlInv, Busy, HasTerminalResult, upstream, cloud, history
  <1>0. /\ <<>> \in Seq(AcceptedMessage) /\ <<>> \in Seq(DeviceToCloud)
        /\ <<>> \in Seq(CloudToDevice)
        /\ torn \cup {c \in Command : InTransit(c)} \subseteq Command
        /\ {} \subseteq ResultMessage
    OBVIOUS
  <1>1. CASE Connect
    BY <1>0, <1>1 DEF Connect, JournalTypeOK, CacheTypeOK
  <1>2. CASE WriteHello
    BY <1>2, MessageTypes DEF WriteHello, Write, JournalTypeOK, CacheTypeOK
  <1>3. CASE CollectUnreported
    BY <1>3, EntryIsTyped
    DEF CollectUnreported, UnreportedTerminalEntries, JournalTypeOK, CacheTypeOK
  <1>4. ASSUME NEW m \in resends, WriteResend(m) PROVE TypeOK' /\ ControlInv'
    BY <1>4, MessageTypes DEF WriteResend, Write, JournalTypeOK, CacheTypeOK
  <1>5. CASE WriteQueued
    BY <1>5, MessageTypes, HeadTailProperties
    DEF WriteQueued, Write, JournalTypeOK, CacheTypeOK
  <1>6. CASE StreamEnds
    BY <1>0, <1>6 DEF StreamEnds, ConnectionEnds, LoseStream, JournalTypeOK, CacheTypeOK
  <1>7. CASE HandleHelloAccepted
    BY <1>7, HeadTailProperties
    DEF HandleHelloAccepted, Reading, Incoming, JournalTypeOK, CacheTypeOK
  <1>8. ASSUME NEW c \in Command, MarkResent(c) PROVE TypeOK' /\ ControlInv'
    <2>1. JournalTypeOK'
      BY <1>8, MarkReportedRow DEF MarkResent, MarkReported, JournalTypeOK
    <2>. QED  BY <1>8, <2>1 DEF MarkResent, CacheTypeOK
  <1>9. CASE HelloAcceptedDone
    BY <1>9 DEF HelloAcceptedDone, JournalTypeOK, CacheTypeOK
  <1>10. ASSUME NEW c \in Command, IgnoreDuplicate(c) PROVE TypeOK' /\ ControlInv'
    BY <1>10, HeadTailProperties
    DEF IgnoreDuplicate, Reading, Incoming, JournalTypeOK, CacheTypeOK
  <1>11. ASSUME NEW c \in Command, AcceptCommand(c) PROVE TypeOK' /\ ControlInv'
    <2>1. Generation[c] \in Nat /\ RecordAccepted(c, Generation[c])
      BY <1>11 DEF AcceptCommand
    <2>2. JournalTypeOK'
      BY <2>1, RecordAcceptedRow
    <2>3. journal'[c].status \in {"accepted", "running"}
      BY <1>11, <2>1, RecordAcceptedRow, RowFields
      DEF AcceptCommand, HasSeen, JournalTypeOK, Status, Terminal
    <2>4. outbound' \in Seq(AcceptedMessage) /\ inbound' \in Seq(CloudToDevice)
      BY <1>11, MessageTypes, HeadTailProperties DEF AcceptCommand, Reading, Incoming
    <2>. QED  BY <1>11, <2>2, <2>3, <2>4 DEF AcceptCommand, CacheTypeOK
  <1>12. CASE StartHandler
    <2>1. current \in Command /\ HasSeen(current) /\ RecordRunning(current)
      BY <1>12 DEF StartHandler, HasSeen
    <2>2. JournalTypeOK' /\ journal'[current].status = "running"
      BY <2>1, RecordRunningRow
    <2>. QED  BY <1>12, <2>1, <2>2 DEF StartHandler, CacheTypeOK
  <1>13. ASSUME current \in Command, HasSeen(current), CacheTypeOK',
                NEW s \in Terminal, NEW e \in ErrorCode, Finish(s, e),
                UNCHANGED <<stream, generator, upstream, inbound, greeted, current,
                            cloud, torn, crashes>>,
                faults' \in 0..MaxFaults
         PROVE  TypeOK' /\ ControlInv'
    <2>1. JournalTypeOK' /\ journal'[current].status = s
      BY <1>13, RecordResultRow DEF Finish
    <2>. QED  BY <1>13, <2>1 DEF Finish
  <1>14. /\ {"succeeded", "failed"} \subseteq Terminal
         /\ {"none", "NO_HANDLER", "HANDLER_ERROR", "HANDLER_EXCEPTION"} \subseteq ErrorCode
    BY DEF Terminal, ErrorCode
  <1>15. /\ reader \in Busy => HasSeen(current)
         /\ UNCHANGED placement_cache => CacheTypeOK'
         /\ Fault => faults' \in 0..MaxFaults
    BY DEF HasSeen, Terminal, CacheTypeOK, Fault
  <1>16. CASE RejectUnregistered
    BY <1>13, <1>14, <1>15, <1>16 DEF RejectUnregistered
  <1>17. CASE ContainerMakerActs
    BY <1>17 DEF ContainerMakerActs, JournalTypeOK, CacheTypeOK
  <1>18. CASE HandlerSucceeds
    BY <1>13, <1>14, <1>15, <1>18, CacheIsTyped DEF HandlerSucceeds
  <1>19. ASSUME NEW e \in {"HANDLER_ERROR", "HANDLER_EXCEPTION"}, HandlerFails(e)
         PROVE  TypeOK' /\ ControlInv'
    BY <1>13, <1>14, <1>15, <1>19 DEF HandlerFails
  <1>20. CASE CloudTakesReport
    <2>1. Report \in ResultMessage
      BY <1>20, MessageTypes DEF CloudTakesReport, Report
    <2>. QED  BY <1>20, <2>1 DEF CloudTakesReport, JournalTypeOK, CacheTypeOK
  <1>21. CASE ReportSucceeds
    <2>1. JournalTypeOK'
      BY <1>15, <1>21, MarkReportedRow DEF ReportSucceeds
    <2>. QED  BY <1>21, <2>1 DEF ReportSucceeds, CacheTypeOK
  <1>22. CASE ReportFails
    BY <1>22 DEF ReportFails, JournalTypeOK, CacheTypeOK
  <1>23. CASE RecordResultRaises
    BY <1>13, <1>14, <1>15, <1>23, CacheIsTyped DEF RecordResultRaises, Fault
  <1>24. CASE ReportRaises
    BY <1>13, <1>14, <1>15, <1>24 DEF ReportRaises, Fault
  <1>25. CASE ExceptionEscapes
    <2>1. CacheTypeOK' /\ faults' \in 0..MaxFaults
      BY <1>15, <1>25, CacheIsTyped DEF ExceptionEscapes
    <2>. QED
      BY <1>0, <1>25, <2>1
      DEF ExceptionEscapes, ConnectionEnds, LoseStream, JournalTypeOK
  <1>26. CASE Crash
    <2>1. CacheTypeOK' /\ crashes' \in 0..MaxCrashes
      BY <1>26 DEF Crash, CacheTypeOK, EmptyCache, Unplaced
    <2>. QED
      BY <1>0, <1>26, <2>1 DEF Crash, ConnectionEnds, LoseStream, JournalTypeOK
  <1>27. CASE CloudReceivesHello
    BY <1>27, MessageTypes, HeadTailProperties
    DEF CloudReceivesHello, JournalTypeOK, CacheTypeOK
  <1>28. CASE CloudReceivesMessage
    <2>1. Head(wire) \in DeviceToCloud /\ Tail(wire) \in Seq(DeviceToCloud)
      BY <1>28, HeadTailProperties DEF CloudReceivesMessage
    <2>2. Acceptable(Head(wire)) => Head(wire) \in ResultMessage
      BY <2>1 DEF DeviceToCloud, Acceptable, IsResult, Hello, AcceptedMessage
    <2>. QED  BY <1>28, <2>1, <2>2 DEF CloudReceivesMessage, JournalTypeOK, CacheTypeOK
  <1>29. ASSUME NEW c \in Command, CloudSends(c) PROVE TypeOK' /\ ControlInv'
    BY <1>29, MessageTypes DEF CloudSends, JournalTypeOK, CacheTypeOK
  <1>30. CASE Drop
    <2>1. inbound' \in Seq(CloudToDevice)
      BY <1>30, RangeOfPrefix DEF Drop
    <2>2. torn' \subseteq Command
      <3>1. \A n \in Range(wire) : IsResult(n) => n.command_id \in Command
        BY RangeIsTyped DEF DeviceToCloud, IsResult, Hello, AcceptedMessage, ResultMessage
      <3>. QED  BY <1>30, <3>1 DEF Drop
    <2>. QED  BY <1>30, <2>1, <2>2 DEF Drop, JournalTypeOK, CacheTypeOK
  <1>31. CASE UNCHANGED vars
    BY <1>31 DEF vars, JournalTypeOK, CacheTypeOK
  <1>. QED
    BY <1>1, <1>2, <1>3, <1>4, <1>5, <1>6, <1>7, <1>8, <1>9, <1>10, <1>11, <1>12,
       <1>16, <1>17, <1>18, <1>19, <1>20, <1>21, <1>22, <1>23, <1>24, <1>25, <1>26,
       <1>27, <1>28, <1>29, <1>30, <1>31
    DEF Next, Generating, ReadLoop, Marking, Executing, Reporting, Raising, Cloud,
        CloudReceives

-----------------------------------------------------------------------------
(* What a step does to a row, and to the results on their way *)

\* A row never goes away, never loses its generation and never becomes
\* unfinished again; who may mark it reported, and who may make it succeed.
RowStep(c) ==
    /\ HasSeen(c) =>
         /\ HasSeen(c)'
         /\ journal'[c].placement_generation = journal[c].placement_generation
    /\ ~ HasSeen(c) /\ HasSeen(c)' =>
         journal'[c].placement_generation = Generation[c]
    /\ HasTerminalResult(c) => HasTerminalResult(c)'
    /\ journal'[c].reported_to_cloud =>
         \/ journal[c].reported_to_cloud
         \/ c \in pending_resend_ids
         \/ reader = "posted" /\ current = c
    /\ Succeeded(c)' => Succeeded(c) \/ (HandlerSucceeds /\ current = c)
    /\ Succeeded(c) => Succeeded(c)' \/ faults' = faults + 1

\* Every step does to each row what one journal method does to one row.
LEMMA JournalStep ==
    ASSUME TypeOK, ControlInv, [Next]_vars, NEW c \in Command
    PROVE  RowStep(c)
  <1>. USE DEF RowStep, HasSeen, HasTerminalResult, Succeeded, Terminal
  <1>1. JournalTypeOK /\ (reader \in Busy => current \in Command /\ HasSeen(current))
    BY DEF TypeOK, ControlInv, Busy
  <1>2. CASE UNCHANGED journal
    BY <1>2
  <1>3. ASSUME NEW d \in Command, MarkResent(d) PROVE RowStep(c)
    <2>1. d \in pending_resend_ids /\ MarkReported(d)
      BY <1>3 DEF MarkResent
    <2>2. CASE HasSeen(d)
      BY <1>1, <2>1, <2>2, MarkReportedRow
    <2>3. CASE ~ HasSeen(d)
      BY <1>1, <2>1, <2>3 DEF MarkReported, JournalTypeOK
    <2>. QED  BY <2>2, <2>3
  <1>4. ASSUME NEW d \in Command, AcceptCommand(d) PROVE RowStep(c)
    <2>1. RecordAccepted(d, Generation[d]) /\ ~ HasTerminalResult(d)
      BY <1>4 DEF AcceptCommand
    <2>. QED  BY <1>1, <2>1, RecordAcceptedRow
  <1>5. CASE StartHandler
    <2>1. /\ current \in Command /\ HasSeen(current) /\ RecordRunning(current)
          /\ ~ HasTerminalResult(current)
      BY <1>1, <1>5 DEF StartHandler, Busy, ControlInv
    <2>. QED  BY <1>1, <2>1, RecordRunningRow
  <1>6. CASE HandlerSucceeds
    <2>1. /\ current \in Command /\ HasSeen(current)
          /\ RecordResult(current, "succeeded", "none")
      BY <1>1, <1>6 DEF HandlerSucceeds, Finish, Busy
    <2>. QED  BY <1>1, <1>6, <2>1, RecordResultRow DEF ErrorCode
  <1>7. ASSUME NEW e \in ErrorCode, reader \in Busy, Finish("failed", e),
               Succeeded(current) => faults' = faults + 1
        PROVE  RowStep(c)
    <2>1. /\ current \in Command /\ HasSeen(current)
          /\ RecordResult(current, "failed", e)
      BY <1>1, <1>7 DEF Finish
    <2>. QED  BY <1>1, <1>7, <2>1, RecordResultRow
  <1>8. CASE RejectUnregistered
    BY <1>7, <1>8 DEF RejectUnregistered, Busy, ErrorCode, ControlInv
  <1>9. ASSUME NEW e \in {"HANDLER_ERROR", "HANDLER_EXCEPTION"}, HandlerFails(e)
        PROVE  RowStep(c)
    BY <1>7, <1>9 DEF HandlerFails, Busy, ErrorCode, ControlInv
  <1>10. CASE RecordResultRaises
    BY <1>7, <1>10 DEF RecordResultRaises, Fault, Busy, ErrorCode
  <1>11. CASE ReportRaises
    BY <1>7, <1>11 DEF ReportRaises, Fault, Busy, ErrorCode
  <1>12. CASE ReportSucceeds
    <2>1. /\ current \in Command /\ HasSeen(current) /\ reader = "posted"
          /\ MarkReported(current)
      BY <1>1, <1>12 DEF ReportSucceeds, Busy
    <2>. QED  BY <1>1, <2>1, MarkReportedRow
  <1>. QED
    BY <1>2, <1>3, <1>4, <1>5, <1>6, <1>8, <1>9, <1>10, <1>11, <1>12
    DEF Next, Connect, StreamEnds, Generating, WriteHello, CollectUnreported,
        WriteResend, WriteQueued, ReadLoop, HandleHelloAccepted, IgnoreDuplicate,
        Marking, HelloAcceptedDone, Executing, ContainerMakerActs, Reporting,
        ReportFails, Raising, ExceptionEscapes, Crash, Cloud, CloudReceives,
        CloudReceivesHello, CloudReceivesMessage, CloudTakesReport, CloudSends, Drop,
        vars

\* A result on its way stays on its way, is read by Cloud or is torn; a new
\* one is the resend of a finished row.
NewOnTheWay ==
    \A m \in ResultsOnTheWay' :
        \/ m \in ResultsOnTheWay
        \/ \E c \in UnreportedTerminalEntries : m = MessageForEntry(c)
OldOnTheWay ==
    \A m \in ResultsOnTheWay :
        \/ m \in ResultsOnTheWay'
        \/ m.command_id \in torn'
        \/ m \in ResultMessage /\ (Acceptable(m) => m \in received')

\* Where the results on the way come from, and where they go.
LEMMA OnTheWayStep ==
    ASSUME TypeOK, ControlInv, [Next]_vars
    PROVE  NewOnTheWay /\ OldOnTheWay
  <1>. DEFINE Same == ResultsOnTheWay' = ResultsOnTheWay
  <1>. USE DEF NewOnTheWay, OldOnTheWay
  <1>0. Same => NewOnTheWay /\ OldOnTheWay
    OBVIOUS
  <1>1. UNCHANGED <<resends, wire>> => Same
    BY DEF ResultsOnTheWay
  <1>2. /\ wire \in Seq(DeviceToCloud) /\ outbound \in Seq(AcceptedMessage)
        /\ resends \subseteq ResultMessage
    BY DEF TypeOK
  <1>3. \A m \in DeviceToCloud : IsResult(m) => m \in ResultMessage
    BY DEF DeviceToCloud, IsResult, Hello, AcceptedMessage
  <1>4. \A m \in ResultsOnTheWay : m \in ResultMessage
    BY <1>2, <1>3, RangeIsTyped DEF ResultsOnTheWay
  <1>5. CASE WriteHello
    <2>1. Range(wire') = Range(wire) \cup {Hello} /\ resends' = resends
      BY <1>2, <1>5, RangeOfAppend, MessageTypes DEF WriteHello, Write
    <2>2. ~ IsResult(Hello)
      BY DEF IsResult, Hello
    <2>. QED  BY <1>0, <2>1, <2>2 DEF ResultsOnTheWay
  <1>6. CASE CollectUnreported
    <2>1. resends = {} /\ wire' = wire
      BY <1>6 DEF CollectUnreported, ControlInv
    <2>2. resends' = {MessageForEntry(c) : c \in UnreportedTerminalEntries}
      BY <1>6 DEF CollectUnreported
    <2>. QED  BY <2>1, <2>2 DEF ResultsOnTheWay
  <1>7. ASSUME NEW r \in resends, WriteResend(r) PROVE NewOnTheWay /\ OldOnTheWay
    <2>1. Range(wire') = Range(wire) \cup {r} /\ resends' = resends \ {r}
      BY <1>2, <1>7, RangeOfAppend, MessageTypes DEF WriteResend, Write
    <2>2. IsResult(r)
      BY <1>2 DEF IsResult, ResultMessage
    <2>. QED  BY <1>0, <2>1, <2>2 DEF ResultsOnTheWay
  <1>8. CASE WriteQueued
    <2>1. Head(outbound) \in AcceptedMessage /\ resends' = resends
      BY <1>2, <1>8, HeadTailProperties DEF WriteQueued
    <2>2. Range(wire') = Range(wire) \cup {Head(outbound)}
      BY <1>2, <1>8, <2>1, RangeOfAppend, MessageTypes DEF WriteQueued, Write
    <2>3. ~ IsResult(Head(outbound))
      BY <2>1 DEF IsResult, AcceptedMessage
    <2>. QED  BY <1>0, <2>1, <2>2, <2>3 DEF ResultsOnTheWay
  <1>9. CASE ConnectionEnds
    <2>1. ResultsOnTheWay' = {}
      BY <1>9, RangeOfEmpty DEF ConnectionEnds, LoseStream, ResultsOnTheWay
    <2>2. \A m \in ResultsOnTheWay : m.command_id \in Command /\ InTransit(m.command_id)
      BY <1>4 DEF ResultMessage, InTransit
    <2>. QED  BY <1>9, <2>1, <2>2 DEF ConnectionEnds, LoseStream
  <1>10. CASE CloudReceivesHello
    <2>1. Range(wire) = {Hello} \cup Range(wire') /\ resends' = resends
      BY <1>2, <1>10, RangeOfTail DEF CloudReceivesHello
    <2>2. ~ IsResult(Hello)
      BY DEF IsResult, Hello
    <2>. QED  BY <1>0, <2>1, <2>2 DEF ResultsOnTheWay
  <1>11. CASE CloudReceivesMessage
    <2>1. Range(wire) = {Head(wire)} \cup Range(wire') /\ resends' = resends
      BY <1>2, <1>11, RangeOfTail DEF CloudReceivesMessage
    <2>2. Acceptable(Head(wire)) => Head(wire) \in received'
      BY <1>11 DEF CloudReceivesMessage
    <2>. QED  BY <1>4, <2>1, <2>2 DEF ResultsOnTheWay
  <1>12. CASE Drop
    <2>1. wire' = <<>> /\ resends' = resends
      BY <1>12 DEF Drop
    <2>2. \A m \in Range(wire) : IsResult(m) => m.command_id \in torn'
      BY <1>12 DEF Drop
    <2>. QED  BY <2>1, <2>2, RangeOfEmpty DEF ResultsOnTheWay
  <1>. QED
    BY <1>0, <1>1, <1>5, <1>6, <1>7, <1>8, <1>9, <1>10, <1>11, <1>12
    DEF Next, Connect, StreamEnds, Generating, ReadLoop, HandleHelloAccepted,
        IgnoreDuplicate, AcceptCommand, Marking, MarkResent, HelloAcceptedDone,
        Executing, StartHandler, RejectUnregistered, ContainerMakerActs,
        HandlerSucceeds, HandlerFails, Reporting, ReportSucceeds, ReportFails,
        Raising, RecordResultRaises, ReportRaises, ExceptionEscapes, Crash, Cloud,
        CloudReceives, CloudTakesReport, CloudSends, vars, upstream

\* What is on its way is well formed.
LEMMA ResultsAreTyped ==
    ASSUME TypeOK
    PROVE  ResultsOnTheWay \subseteq ResultMessage
  <1>1. /\ wire \in Seq(DeviceToCloud) /\ resends \subseteq ResultMessage
        /\ Range(wire) \subseteq DeviceToCloud
    BY RangeIsTyped DEF TypeOK
  <1>2. \A m \in DeviceToCloud : IsResult(m) => m \in ResultMessage
    BY DEF DeviceToCloud, IsResult, Hello, AcceptedMessage
  <1>. QED  BY <1>1, <1>2 DEF ResultsOnTheWay

-----------------------------------------------------------------------------
(* The parts of the inductive invariant that carry the properties *)

\* Only a finished command is marked reported or about to be.
ReportedInv ==
    \A c \in Command :
        journal[c].reported_to_cloud \/ c \in pending_resend_ids => HasTerminalResult(c)

\* Only a row with a result is ever marked reported or awaits being marked.
LEMMA ReportedStep ==
    TypeOK /\ ControlInv /\ ReportedInv /\ [Next]_vars => ReportedInv'
  <1>. SUFFICES ASSUME TypeOK, ControlInv, ReportedInv, [Next]_vars, NEW c \in Command,
                       journal'[c].reported_to_cloud \/ c \in pending_resend_ids'
                PROVE  HasTerminalResult(c)'
    BY DEF ReportedInv
  <1>1. RowStep(c)
    BY JournalStep
  <1>2. CASE journal'[c].reported_to_cloud
    BY <1>1, <1>2 DEF RowStep, ReportedInv, ControlInv
  <1>3. pending_resend_ids' \subseteq pending_resend_ids \cup UnreportedTerminalEntries
    BY DEF Next, Connect, StreamEnds, Generating, WriteHello, CollectUnreported,
           WriteResend, WriteQueued, ReadLoop, HandleHelloAccepted, IgnoreDuplicate,
           AcceptCommand, Marking, MarkResent, HelloAcceptedDone, Executing,
           StartHandler, RejectUnregistered, ContainerMakerActs, HandlerSucceeds,
           HandlerFails, Reporting, ReportSucceeds, ReportFails, Raising,
           RecordResultRaises, ReportRaises, ExceptionEscapes, Crash, Cloud,
           CloudReceives, CloudReceivesHello, CloudReceivesMessage,
           CloudTakesReport, CloudSends, Drop, vars, upstream
  <1>4. CASE c \in pending_resend_ids'
    <2>1. HasTerminalResult(c)
      BY <1>3, <1>4 DEF ReportedInv, UnreportedTerminalEntries, HasTerminalResult
    <2>. QED  BY <1>1, <2>1 DEF RowStep
  <1>. QED  BY <1>2, <1>4

\* What is unfinished and not just being worked on has been worked on only as
\* often as a crash or an exception interrupted it.
CountInv ==
    \A c \in Command :
        /\ effects[c] <= 1 + crashes + faults
        /\ \/ HasTerminalResult(c)
           \/ reader = "effected" /\ current = c
           \/ effects[c] <= crashes + faults

\* Every step keeps the account of executions, crashes and faults.
LEMMA CountStep ==
    TypeOK /\ ControlInv /\ CountInv /\ [Next]_vars => CountInv'
  <1>. SUFFICES ASSUME TypeOK, ControlInv, CountInv, [Next]_vars, NEW c \in Command
                PROVE  /\ effects'[c] <= 1 + crashes' + faults'
                       /\ \/ HasTerminalResult(c)'
                          \/ reader' = "effected" /\ current' = c
                          \/ effects'[c] <= crashes' + faults'
    BY DEF CountInv
  <1>1. HasTerminalResult(c) => HasTerminalResult(c)'
    BY JournalStep DEF RowStep
  <1>2. /\ effects[c] \in Nat /\ crashes \in Nat /\ faults \in Nat
        /\ effects[c] <= 1 + crashes + faults
    BY DEF TypeOK, CountInv
  <1>3. CASE ContainerMakerActs
    <2>1. reader = "running" /\ current \in Command /\ ~ HasTerminalResult(current)
      BY <1>3 DEF ContainerMakerActs, ControlInv, Busy, HasTerminalResult, Terminal
    <2>2. effects[current] <= crashes + faults
      BY <2>1 DEF CountInv
    <2>3. /\ effects' = [effects EXCEPT ![current] = @ + 1]
          /\ reader' = "effected" /\ current' = current /\ journal' = journal
          /\ crashes' = crashes /\ faults' = faults
      BY <1>3 DEF ContainerMakerActs, history
    <2>4. CASE c = current
      BY <1>2, <2>2, <2>3, <2>4 DEF TypeOK
    <2>5. CASE c # current
      BY <1>1, <1>2, <2>1, <2>3, <2>5 DEF TypeOK, CountInv
    <2>. QED  BY <2>4, <2>5
  <1>4. CASE ~ ContainerMakerActs
    <2>1. effects' = effects
      BY <1>4
      DEF Next, Connect, StreamEnds, Generating, WriteHello, CollectUnreported,
          WriteResend, WriteQueued, ReadLoop, HandleHelloAccepted, IgnoreDuplicate,
          AcceptCommand, Marking, MarkResent, HelloAcceptedDone, Executing,
          StartHandler, RejectUnregistered, HandlerSucceeds,
          HandlerFails, Reporting, ReportSucceeds, ReportFails, Raising,
          RecordResultRaises, ReportRaises, ExceptionEscapes, Crash, Cloud,
          CloudReceives, CloudReceivesHello, CloudReceivesMessage,
          CloudTakesReport, CloudSends, Drop, vars, cloud
    <2>2. \/ crashes' = crashes /\ faults' = faults
          \/ crashes' = crashes + 1 /\ faults' = faults
          \/ crashes' = crashes /\ faults' = faults + 1
      BY DEF Next, Connect, StreamEnds, Generating, WriteHello, CollectUnreported,
             WriteResend, WriteQueued, ReadLoop, HandleHelloAccepted, IgnoreDuplicate,
             AcceptCommand, Marking, MarkResent, HelloAcceptedDone, Executing,
             StartHandler, RejectUnregistered, ContainerMakerActs, HandlerSucceeds,
             HandlerFails, Reporting, ReportSucceeds, ReportFails, Raising, Fault,
             RecordResultRaises, ReportRaises, ExceptionEscapes, Crash, Cloud,
             CloudReceives, CloudReceivesHello, CloudReceivesMessage,
             CloudTakesReport, CloudSends, Drop, vars, history
    <2>3. ASSUME reader = "effected", current = c
          PROVE  \/ HasTerminalResult(c)'
                 \/ reader' = "effected" /\ current' = c
                 \/ crashes' = crashes + 1 /\ faults' = faults
                 \/ crashes' = crashes /\ faults' = faults + 1
      <3>1. ASSUME NEW s \in Terminal, NEW e \in ErrorCode, Finish(s, e)
            PROVE  HasTerminalResult(c)'
        <4>1. JournalTypeOK /\ HasSeen(c) /\ RecordResult(c, s, e)
          BY <2>3, <3>1 DEF TypeOK, ControlInv, HasSeen, Finish
        <4>. QED  BY <4>1, RecordResultRow DEF HasTerminalResult
      <3>2. CASE Executing \/ RecordResultRaises
        BY <1>4, <2>3, <3>1, <3>2
        DEF Executing, StartHandler, RejectUnregistered, HandlerSucceeds,
            HandlerFails, RecordResultRaises, Terminal, ErrorCode
      <3>3. CASE ExceptionEscapes \/ Crash
        BY <3>3 DEF ExceptionEscapes, Fault, Crash
      <3>. QED
        BY <2>3, <3>2, <3>3
        DEF Next, Connect, StreamEnds, Generating, WriteHello, CollectUnreported,
            WriteResend, WriteQueued, ReadLoop, HandleHelloAccepted, IgnoreDuplicate,
            AcceptCommand, Reading, Incoming, Marking, MarkResent, HelloAcceptedDone,
            Reporting, ReportSucceeds, ReportFails, Raising, ReportRaises, Cloud,
            CloudReceives, CloudReceivesHello, CloudReceivesMessage,
            CloudTakesReport, CloudSends, Drop, vars
    <2>4. effects'[c] <= 1 + crashes' + faults'
      BY <1>2, <2>1, <2>2
    <2>5. CASE reader = "effected" /\ current = c
      BY <1>2, <2>1, <2>2, <2>3, <2>4, <2>5
    <2>6. CASE effects[c] <= crashes + faults
      BY <1>2, <2>1, <2>2, <2>6
    <2>. QED  BY <1>1, <2>4, <2>5, <2>6 DEF CountInv
  <1>. QED  BY <1>3, <1>4

\* A row that has a generation has its command's, and so have the results
\* made from it; a result is marked reported, or will be, only if it is not
\* simply missing; and the HTTP report that was answered was taken.
Covered(c) == Answered(c) \/ InTransit(c) \/ c \in torn

CoverInv ==
    /\ GenerationTravels
    /\ \A c \in Command \ Legacy :
         HasSeen(c) => journal[c].placement_generation = Generation[c]
    /\ \A c \in Command \ Legacy :
         journal[c].reported_to_cloud \/ c \in pending_resend_ids => Covered(c)
    /\ reader = "posted" => Answered(current)

\* Cloud's set of results only grows, and by well-formed results.
LEMMA ReceivedStep ==
    ASSUME TypeOK, ControlInv, [Next]_vars
    PROVE  /\ received \subseteq received'
           /\ \A m \in received' :
                \/ m \in received
                \/ CloudTakesReport /\ m = Report
                \/ m \in ResultsOnTheWay
  <1>1. CASE CloudTakesReport
    <2>1. received' = received \cup {Report}
      BY <1>1 DEF CloudTakesReport
    <2>. QED  BY <1>1, <2>1
  <1>2. CASE CloudReceivesMessage
    <2>1. Acceptable(Head(wire)) => Head(wire) \in ResultsOnTheWay
      BY <1>2, RangeOfTail DEF CloudReceivesMessage, TypeOK, Acceptable, ResultsOnTheWay
    <2>. QED  BY <1>2, <2>1 DEF CloudReceivesMessage
  <1>3. CASE UNCHANGED received
    BY <1>3
  <1>. QED
    BY <1>1, <1>2, <1>3
    DEF Next, Connect, StreamEnds, Generating, WriteHello, CollectUnreported,
        WriteResend, WriteQueued, ReadLoop, HandleHelloAccepted, IgnoreDuplicate,
        AcceptCommand, Marking, MarkResent, HelloAcceptedDone, Executing,
        StartHandler, RejectUnregistered, ContainerMakerActs, HandlerSucceeds,
        HandlerFails, Reporting, ReportSucceeds, ReportFails, Raising,
        RecordResultRaises, ReportRaises, ExceptionEscapes, Crash, Cloud,
        CloudReceives, CloudReceivesHello, CloudSends, Drop, vars, cloud

\* What was lost with a stream stays on record.
LEMMA TornStep ==
    ASSUME [Next]_vars
    PROVE  torn \subseteq torn'
  BY DEF Next, Connect, StreamEnds, ConnectionEnds, LoseStream, Generating,
         WriteHello, CollectUnreported, WriteResend, WriteQueued, ReadLoop,
         HandleHelloAccepted, IgnoreDuplicate, AcceptCommand, Marking, MarkResent,
         HelloAcceptedDone, Executing, StartHandler, RejectUnregistered,
         ContainerMakerActs, HandlerSucceeds, HandlerFails, Reporting,
         ReportSucceeds, ReportFails, Raising, RecordResultRaises, ReportRaises,
         ExceptionEscapes, Crash, Cloud, CloudReceives, CloudReceivesHello,
         CloudReceivesMessage, CloudTakesReport, CloudSends, Drop, vars, history

\* A covered command stays covered: its result moves from the generator to
\* the wire, to Cloud, or is torn.
LEMMA CoveredStays ==
    ASSUME TypeOK, ControlInv, CoverInv, [Next]_vars, NEW c \in Command \ Legacy, Covered(c)
    PROVE  Covered(c)'
  <1>1. CASE Answered(c)
    BY <1>1, ReceivedStep DEF Covered, Answered
  <1>2. CASE c \in torn
    BY <1>2, TornStep DEF Covered
  <1>3. CASE InTransit(c)
    <2>1. PICK m \in ResultsOnTheWay : m.command_id = c
      BY <1>3 DEF InTransit
    <2>2. m.placement_generation = Generation[c]
      BY <2>1 DEF CoverInv, GenerationTravels
    <2>3. OldOnTheWay
      BY OnTheWayStep
    <2>. QED
      BY <2>1, <2>2, <2>3
      DEF OldOnTheWay, Covered, InTransit, Answered, Acceptable, IsResult, ResultMessage
  <1>. QED  BY <1>1, <1>2, <1>3 DEF Covered

\* Every step keeps each reported result covered, and every result its
\* generation.
LEMMA CoverStep ==
    TypeOK /\ ControlInv /\ CoverInv /\ [Next]_vars => CoverInv'
  <1>. SUFFICES ASSUME TypeOK, ControlInv, CoverInv, [Next]_vars
                PROVE  CoverInv'
    OBVIOUS
  <1>1. ASSUME NEW m \in (ResultsOnTheWay \cup received)', m.command_id \notin Legacy
        PROVE  m.placement_generation = Generation[m.command_id]
    <2>1. CASE m \in ResultsOnTheWay \cup received
      BY <1>1, <2>1 DEF CoverInv, GenerationTravels
    <2>2. ASSUME NEW c \in UnreportedTerminalEntries, m = MessageForEntry(c)
          PROVE  m.placement_generation = Generation[m.command_id]
      BY <1>1, <2>2
      DEF MessageForEntry, CommandResult, UnreportedTerminalEntries, CoverInv, HasSeen,
          Terminal
    <2>3. CASE CloudTakesReport /\ m = Report
      BY <2>3 DEF Report, CommandResult
    <2>. QED  BY <2>1, <2>2, <2>3, ReceivedStep, OnTheWayStep DEF NewOnTheWay
  <1>2. ASSUME NEW c \in Command \ Legacy, HasSeen(c)'
        PROVE  journal'[c].placement_generation = Generation[c]
    BY <1>2, JournalStep DEF RowStep, CoverInv
  <1>3. ASSUME NEW c \in Command \ Legacy, c \in pending_resend_ids'
        PROVE  Covered(c)'
    <2>1. CASE c \in pending_resend_ids
      BY <2>1, CoveredStays DEF CoverInv
    <2>2. CASE CollectUnreported /\ c \in UnreportedTerminalEntries
      <3>1. MessageForEntry(c) \in ResultsOnTheWay' /\ MessageForEntry(c).command_id = c
        BY <2>2 DEF CollectUnreported, ResultsOnTheWay, MessageForEntry, CommandResult
      <3>. QED  BY <3>1 DEF Covered, InTransit
    <2>3. \/ pending_resend_ids' \subseteq pending_resend_ids
          \/ CollectUnreported /\ pending_resend_ids' = UnreportedTerminalEntries
      BY DEF Next, Connect, StreamEnds, Generating, WriteHello, CollectUnreported,
             WriteResend, WriteQueued, ReadLoop, HandleHelloAccepted, IgnoreDuplicate,
             AcceptCommand, Marking, MarkResent, HelloAcceptedDone, Executing,
             StartHandler, RejectUnregistered, ContainerMakerActs, HandlerSucceeds,
             HandlerFails, Reporting, ReportSucceeds, ReportFails, Raising,
             RecordResultRaises, ReportRaises, ExceptionEscapes, Crash, Cloud,
             CloudReceives, CloudReceivesHello, CloudReceivesMessage,
             CloudTakesReport, CloudSends, Drop, vars, upstream
    <2>. QED  BY <1>3, <2>1, <2>2, <2>3
  <1>4. ASSUME NEW c \in Command \ Legacy, journal'[c].reported_to_cloud
        PROVE  Covered(c)'
    <2>1. \/ journal[c].reported_to_cloud
          \/ c \in pending_resend_ids
          \/ reader = "posted" /\ current = c
      BY <1>4, JournalStep DEF RowStep
    <2>2. Covered(c)
      BY <2>1 DEF CoverInv, Covered
    <2>. QED  BY <2>2, CoveredStays
  <1>5. ASSUME reader' = "posted" PROVE Answered(current)'
    <2>1. CASE CloudTakesReport
      <3>1. Report \in received' /\ current' = current
        BY <2>1 DEF CloudTakesReport
      <3>2. Report.command_id = current
        BY DEF Report, CommandResult
      <3>. QED  BY <3>1, <3>2 DEF Answered
    <2>2. CASE reader = "posted" /\ current' = current
      BY <2>2, ReceivedStep DEF CoverInv, Answered
    <2>. QED
      BY <1>5, <2>1, <2>2
      DEF Next, Connect, StreamEnds, ConnectionEnds, Generating, WriteHello,
          CollectUnreported, WriteResend, WriteQueued, ReadLoop, HandleHelloAccepted,
          IgnoreDuplicate, AcceptCommand, Marking, MarkResent, HelloAcceptedDone,
          Executing, StartHandler, Finish, RejectUnregistered, ContainerMakerActs,
          HandlerSucceeds, HandlerFails, Reporting, ReportSucceeds, ReportFails,
          Raising, RecordResultRaises, ReportRaises, ExceptionEscapes, Crash, Cloud,
          CloudReceives, CloudReceivesHello, CloudReceivesMessage, CloudSends, Drop,
          vars
  <1>. QED  BY <1>1, <1>2, <1>3, <1>4, <1>5 DEF CoverInv, GenerationTravels

\* A success rests on work done, and so does every result that says so.
BackingInv ==
    /\ SuccessIsBacked
    /\ reader = "effected" => effects[current] > 0

\* Container Maker's work is never undone in the record.
LEMMA EffectsStay ==
    ASSUME TypeOK, [Next]_vars, NEW c \in Command, effects[c] > 0
    PROVE  effects'[c] > 0
  <1>1. CASE ContainerMakerActs
    <2>1. effects' = [effects EXCEPT ![current] = @ + 1] /\ effects[c] \in Nat
      BY <1>1 DEF ContainerMakerActs, TypeOK
    <2>. QED  BY <2>1 DEF TypeOK
  <1>2. CASE effects' = effects
    BY <1>2
  <1>. QED
    BY <1>1, <1>2
    DEF Next, Connect, StreamEnds, Generating, WriteHello, CollectUnreported,
        WriteResend, WriteQueued, ReadLoop, HandleHelloAccepted, IgnoreDuplicate,
        AcceptCommand, Marking, MarkResent, HelloAcceptedDone, Executing,
        StartHandler, RejectUnregistered, HandlerSucceeds, HandlerFails, Reporting,
        ReportSucceeds, ReportFails, Raising, RecordResultRaises, ReportRaises,
        ExceptionEscapes, Crash, Cloud, CloudReceives, CloudReceivesHello,
        CloudReceivesMessage, CloudTakesReport, CloudSends, Drop, vars, cloud

\* Every step keeps each success backed by work.
LEMMA BackingStep ==
    TypeOK /\ ControlInv /\ BackingInv /\ [Next]_vars => BackingInv'
  <1>. SUFFICES ASSUME TypeOK, ControlInv, BackingInv, [Next]_vars
                PROVE  BackingInv'
    OBVIOUS
  <1>1. ASSUME NEW c \in Command, Succeeded(c)' PROVE effects'[c] > 0
    <2>1. CASE Succeeded(c)
      BY <2>1, EffectsStay DEF BackingInv, SuccessIsBacked
    <2>2. CASE HandlerSucceeds /\ current = c
      BY <2>2, EffectsStay DEF BackingInv, HandlerSucceeds
    <2>. QED  BY <1>1, <2>1, <2>2, JournalStep DEF RowStep
  <1>2. ASSUME NEW m \in (ResultsOnTheWay \cup received)', m.status = "succeeded"
        PROVE  effects'[m.command_id] > 0
    <2>1. m \in ResultMessage
      <3>1. /\ wire' \in Seq(DeviceToCloud) /\ received' \subseteq ResultMessage
            /\ resends' \subseteq ResultMessage
        BY TypeStep DEF TypeOK
      <3>2. Range(wire') \subseteq DeviceToCloud
        BY <3>1, RangeIsTyped
      <3>3. \A n \in DeviceToCloud : IsResult(n) => n \in ResultMessage
        BY DEF DeviceToCloud, IsResult, Hello, AcceptedMessage
      <3>4. m \in resends' \/ m \in received' \/ (m \in Range(wire') /\ IsResult(m))
        BY DEF ResultsOnTheWay
      <3>. QED  BY <3>1, <3>2, <3>3, <3>4
    <2>2. m.command_id \in Command
      BY <2>1 DEF ResultMessage
    <2>3. CASE m \in ResultsOnTheWay \cup received
      BY <1>2, <2>2, <2>3, EffectsStay DEF BackingInv, SuccessIsBacked
    <2>4. ASSUME NEW c \in UnreportedTerminalEntries, m = MessageForEntry(c)
          PROVE  effects'[m.command_id] > 0
      <3>1. m.status = journal[c].status /\ m.command_id = c
        BY <2>4 DEF MessageForEntry, CommandResult
      <3>. QED
        BY <1>2, <2>2, <3>1, EffectsStay DEF BackingInv, SuccessIsBacked, Succeeded
    <2>5. CASE CloudTakesReport /\ m = Report
      <3>1. m.status = journal[current].status /\ m.command_id = current
        BY <2>5 DEF Report, CommandResult
      <3>. QED
        BY <1>2, <2>2, <3>1, EffectsStay DEF BackingInv, SuccessIsBacked, Succeeded
    <2>. QED  BY <2>3, <2>4, <2>5, ReceivedStep, OnTheWayStep DEF NewOnTheWay
  <1>3. ASSUME reader' = "effected" PROVE effects'[current'] > 0
    <2>1. CASE ContainerMakerActs
      <3>1. /\ effects' = [effects EXCEPT ![current] = @ + 1]
            /\ current' = current /\ current \in Command
        BY <2>1 DEF ContainerMakerActs, ControlInv, Busy
      <3>2. effects[current] \in Nat /\ effects'[current] = effects[current] + 1
        BY <3>1 DEF TypeOK
      <3>. QED  BY <3>1, <3>2
    <2>2. CASE reader = "effected" /\ current' = current
      BY <2>2, EffectsStay DEF BackingInv, ControlInv, Busy
    <2>. QED
      BY <1>3, <2>1, <2>2
      DEF Next, Connect, StreamEnds, ConnectionEnds, Generating, WriteHello,
          CollectUnreported, WriteResend, WriteQueued, ReadLoop, HandleHelloAccepted,
          IgnoreDuplicate, AcceptCommand, Marking, MarkResent, HelloAcceptedDone,
          Executing, StartHandler, Finish, RejectUnregistered,
          HandlerSucceeds, HandlerFails, Reporting, ReportSucceeds, ReportFails,
          Raising, RecordResultRaises, ReportRaises, ExceptionEscapes, Crash, Cloud,
          CloudReceives, CloudReceivesHello, CloudReceivesMessage, CloudTakesReport,
          CloudSends, Drop, vars
  <1>. QED  BY <1>1, <1>2, <1>3 DEF BackingInv, SuccessIsBacked

-----------------------------------------------------------------------------
(* The theorems *)

IInv == TypeOK /\ ControlInv /\ ReportedInv /\ CountInv /\ CoverInv /\ BackingInv

\* The invariant holds when the agent starts.
LEMMA InitInv == Init => IInv
  <1>. SUFFICES ASSUME Init PROVE IInv
    OBVIOUS
  <1>1. TypeOK /\ ControlInv
    BY TypeInit
  <1>2. \A c \in Command :
           /\ journal[c].status \in {"absent", "accepted"}
           /\ journal[c].reported_to_cloud = FALSE
           /\ c \notin Legacy => journal[c].status = "absent"
    BY DEF Init, JournalInit, AcceptedRow, NoRow
  <1>3. ReportedInv
    BY <1>2 DEF ReportedInv, Init
  <1>4. crashes = 0 /\ faults = 0 /\ \A c \in Command : effects[c] = 0
    BY DEF Init
  <1>5. CountInv
    <2>1. 1 + crashes + faults = 1 /\ crashes + faults = 0
      BY <1>4
    <2>2. 0 <= 1 /\ 0 <= 0
      OBVIOUS
    <2>. QED  BY <1>4, <2>1, <2>2 DEF CountInv
  <1>6. ResultsOnTheWay = {} /\ received = {}
    BY RangeOfEmpty DEF Init, ResultsOnTheWay
  <1>7. CoverInv
    BY <1>2, <1>6 DEF CoverInv, GenerationTravels, HasSeen, Init
  <1>8. BackingInv
    BY <1>2, <1>6 DEF BackingInv, SuccessIsBacked, Succeeded, Init
  <1>. QED  BY <1>1, <1>3, <1>5, <1>7, <1>8 DEF IInv

\* Every step keeps the invariant.
LEMMA StepInv == IInv /\ [Next]_vars => IInv'
  BY TypeStep, ReportedStep, CountStep, CoverStep, BackingStep DEF IInv

\* The inductive invariant holds of every behaviour of the pipeline.
THEOREM Invariance == Spec => []IInv
  BY InitInv, StepInv, PTL DEF Spec

\* Every variable keeps its type, in every state of every instance.
THEOREM TypeCorrect == Spec => []TypeOK
  <1>1. IInv => TypeOK
    BY DEF IInv
  <1>. QED  BY <1>1, Invariance, PTL

\* Without a crash and without an exception no command is worked on twice,
\* however often Cloud sends it and however often the stream breaks; each
\* crash and each exception adds one execution at most.
THEOREM RedeliveryIsSafe == Spec => []ReexecutionNeedsFault
  <1>1. IInv => ReexecutionNeedsFault
    BY DEF IInv, CountInv, ReexecutionNeedsFault
  <1>. QED  BY <1>1, Invariance, PTL

\* A result marked reported and held by nobody was lost with a stream.
THEOREM NothingLostElsewhere == Spec => []LostOnlyInTransit
  <1>1. IInv => LostOnlyInTransit
    BY DEF IInv, CoverInv, Covered, LostOnlyInTransit
  <1>. QED  BY <1>1, Invariance, PTL

\* Nobody is told of a success Container Maker did no work for.
THEOREM NoFalseSuccess == Spec => []SuccessIsBacked
  <1>1. IInv => SuccessIsBacked
    BY DEF IInv, BackingInv
  <1>. QED  BY <1>1, Invariance, PTL

\* In a life without crashes and exceptions a success Cloud has heard of is
\* work Container Maker did exactly once, whatever was redelivered or resent.
THEOREM ExactlyOnce ==
    Spec => [](crashes + faults = 0 =>
                 \A m \in received : m.status = "succeeded" => effects[m.command_id] = 1)
  <1>1. ASSUME IInv, crashes + faults = 0, NEW m \in received, m.status = "succeeded"
        PROVE  effects[m.command_id] = 1
    <2>1. m.command_id \in Command /\ effects[m.command_id] \in Nat
      BY <1>1 DEF IInv, TypeOK, ResultMessage
    <2>2. effects[m.command_id] > 0
      BY <1>1 DEF IInv, BackingInv, SuccessIsBacked
    <2>3. effects[m.command_id] <= 1
      BY <1>1, <2>1 DEF IInv, CountInv, ReexecutionNeedsFault, TypeOK
    <2>. QED  BY <2>1, <2>2, <2>3
  <1>2. IInv => (crashes + faults = 0 =>
                   \A m \in received : m.status = "succeeded" => effects[m.command_id] = 1)
    BY <1>1
  <1>. QED  BY <1>2, Invariance, PTL

\* Every result carries its command's generation, older files' rows apart.
THEOREM GenerationIsKept == Spec => []GenerationTravels
  <1>1. IInv => GenerationTravels
    BY DEF IInv, CoverInv
  <1>. QED  BY <1>1, Invariance, PTL

-----------------------------------------------------------------------------
(* What Cloud is told *)

\* What raised has raised: the count of exceptions never goes back.
LEMMA FaultsStay ==
    ASSUME TypeOK, [Next]_vars
    PROVE  faults \in Nat /\ faults' \in {faults, faults + 1}
  <1>1. faults \in Nat
    BY DEF TypeOK
  <1>. QED
    BY <1>1
    DEF Next, Connect, StreamEnds, Generating, WriteHello, CollectUnreported,
        WriteResend, WriteQueued, ReadLoop, HandleHelloAccepted, IgnoreDuplicate,
        AcceptCommand, Marking, MarkResent, HelloAcceptedDone, Executing,
        StartHandler, RejectUnregistered, ContainerMakerActs, HandlerSucceeds,
        HandlerFails, Reporting, ReportSucceeds, ReportFails, Raising, Fault,
        RecordResultRaises, ReportRaises, ExceptionEscapes, Crash, Cloud,
        CloudReceives, CloudReceivesHello, CloudReceivesMessage,
        CloudTakesReport, CloudSends, Drop, vars, history

\* A recorded result stays, but for the success whose report raises.
LEMMA ResultStays ==
    ASSUME TypeOK, ControlInv, [Next]_vars, NEW c \in Command, HasTerminalResult(c)
    PROVE  \/ journal'[c].status = journal[c].status
           \/ /\ journal[c].status = "succeeded" /\ journal'[c].status = "failed"
              /\ faults' = faults + 1
  <1>1. RowStep(c)
    BY JournalStep
  <1>2. journal[c].status \in Terminal /\ journal'[c].status \in Terminal
    BY <1>1 DEF RowStep, HasTerminalResult
  <1>3. CASE journal[c].status = "succeeded"
    BY <1>1, <1>2, <1>3 DEF RowStep, Succeeded, Terminal
  <1>4. CASE journal[c].status = "failed"
    <2>1. ~ (HandlerSucceeds /\ current = c)
      BY <1>4 DEF HandlerSucceeds, ControlInv
    <2>2. ~ Succeeded(c)'
      BY <1>1, <1>4, <2>1 DEF RowStep, Succeeded
    <2>. QED  BY <1>2, <1>4, <2>2 DEF Succeeded, Terminal
  <1>. QED  BY <1>2, <1>3, <1>4 DEF Terminal

\* What a message says agrees with the row of its command.
Agrees(m) ==
    LET status == journal[m.command_id].status IN
    m.status # status =>
        faults > 0 /\ m.status = "succeeded" /\ status = "failed"

\* Every step keeps the answers in agreement: one on its way or taken is
\* made from the row as it is, and the row is final from then on.
LEMMA AgreeStep ==
    TypeOK /\ ControlInv /\ AnswersAgree /\ [Next]_vars => AnswersAgree'
  <1>. SUFFICES ASSUME TypeOK, ControlInv, AnswersAgree, [Next]_vars,
                       NEW m \in (ResultsOnTheWay \cup received)'
                PROVE  Agrees(m)'
    BY DEF AnswersAgree, Agrees
  <1>1. ASSUME NEW n \in ResultMessage, Agrees(n) PROVE Agrees(n)'
    <2>1. n.command_id \in Command /\ n.status \in Terminal
      BY DEF ResultMessage
    <2>2. HasTerminalResult(n.command_id)
      BY <1>1, <2>1 DEF Agrees, HasTerminalResult, Terminal
    <2>3. \/ journal'[n.command_id].status = journal[n.command_id].status
          \/ /\ journal[n.command_id].status = "succeeded"
             /\ journal'[n.command_id].status = "failed"
             /\ faults' = faults + 1
      BY <2>1, <2>2, ResultStays
    <2>4. faults \in Nat /\ faults' \in {faults, faults + 1}
      BY FaultsStay
    <2>. QED  BY <1>1, <2>1, <2>3, <2>4 DEF Agrees, Terminal
  <1>2. CASE m \in ResultsOnTheWay \cup received
    <2>1. m \in ResultMessage
      BY <1>2, ResultsAreTyped DEF TypeOK
    <2>. QED  BY <1>1, <1>2, <2>1 DEF AnswersAgree, Agrees
  <1>3. ASSUME NEW c \in UnreportedTerminalEntries, m = MessageForEntry(c)
        PROVE  Agrees(m)'
    <2>1. m \in ResultMessage
      BY <1>3, EntryIsTyped DEF TypeOK
    <2>2. m.status = journal[c].status /\ m.command_id = c
      BY <1>3 DEF MessageForEntry, CommandResult
    <2>. QED  BY <1>1, <2>1, <2>2 DEF Agrees
  <1>4. CASE CloudTakesReport /\ m = Report
    <2>1. m \in ResultMessage
      BY <1>4, MessageTypes
      DEF CloudTakesReport, Report, ControlInv, Busy, HasTerminalResult
    <2>2. m.status = journal[current].status /\ m.command_id = current
      BY <1>4 DEF Report, CommandResult
    <2>. QED  BY <1>1, <2>1, <2>2 DEF Agrees
  <1>. QED  BY <1>2, <1>3, <1>4, ReceivedStep, OnTheWayStep DEF NewOnTheWay

\* Over HTTP and by resends, before and after a crash, Cloud hears one answer
\* to each command, unless reporting a success raised.
THEOREM OneAnswer == Spec => []AnswersAgree
  <1>1. Init => AnswersAgree
    BY RangeOfEmpty DEF Init, AnswersAgree, ResultsOnTheWay
  <1>2. IInv /\ AnswersAgree /\ [Next]_vars => AnswersAgree'
    BY AgreeStep DEF IInv
  <1>. QED  BY <1>1, <1>2, Invariance, PTL DEF Spec

-----------------------------------------------------------------------------
(* The acknowledgements and the placement cache *)

\* An acknowledgement in a queue or on the wire was there before, or is the
\* one of the command just accepted.
LEMMA AcksStep ==
    ASSUME TypeOK, [Next]_vars, NEW m \in Range(wire') \cup Range(outbound'),
           m.type = "command_accepted"
    PROVE  \/ m \in Range(wire) \cup Range(outbound)
           \/ \E c \in Command : AcceptCommand(c) /\ m = CommandAccepted(c)
  <1>1. /\ wire \in Seq(DeviceToCloud) /\ outbound \in Seq(AcceptedMessage)
        /\ resends \subseteq ResultMessage
    BY DEF TypeOK
  <1>2. Range(<<>>) = {}
    BY RangeOfEmpty
  <1>3. CASE UNCHANGED <<wire, outbound>>
    BY <1>3
  <1>4. CASE Connect
    BY <1>2, <1>4 DEF Connect
  <1>5. CASE WriteHello
    <2>1. Range(wire') = Range(wire) \cup {Hello} /\ outbound' = outbound
      BY <1>1, <1>5, RangeOfAppend, MessageTypes DEF WriteHello, Write
    <2>2. m # Hello
      BY DEF Hello
    <2>. QED  BY <2>1, <2>2
  <1>6. ASSUME NEW r \in resends, WriteResend(r)
        PROVE  m \in Range(wire) \cup Range(outbound)
    <2>1. Range(wire') = Range(wire) \cup {r} /\ outbound' = outbound
      BY <1>1, <1>6, RangeOfAppend, MessageTypes DEF WriteResend, Write
    <2>2. r.type = "command_result"
      BY <1>1 DEF ResultMessage
    <2>. QED  BY <2>1, <2>2
  <1>7. CASE WriteQueued
    <2>1. /\ Head(outbound) \in AcceptedMessage
          /\ Range(outbound) = {Head(outbound)} \cup Range(outbound')
      BY <1>1, <1>7, RangeOfTail DEF WriteQueued
    <2>2. Range(wire') = Range(wire) \cup {Head(outbound)}
      BY <1>1, <1>7, <2>1, RangeOfAppend, MessageTypes DEF WriteQueued, Write
    <2>. QED  BY <2>1, <2>2
  <1>8. CASE ConnectionEnds /\ outbound' \in {outbound, <<>>}
    BY <1>2, <1>8 DEF ConnectionEnds, LoseStream
  <1>9. ASSUME NEW c \in Command, AcceptCommand(c)
        PROVE  m \in Range(wire) \cup Range(outbound) \/ m = CommandAccepted(c)
    <2>1. Range(outbound') = Range(outbound) \cup {CommandAccepted(c)} /\ wire' = wire
      BY <1>1, <1>9, RangeOfAppend, MessageTypes DEF AcceptCommand
    <2>. QED  BY <2>1
  <1>10. CASE CloudReceives
    <2>1. Range(wire) = {Head(wire)} \cup Range(wire') /\ outbound' = outbound
      BY <1>1, <1>10, RangeOfTail
      DEF CloudReceives, CloudReceivesHello, CloudReceivesMessage
    <2>. QED  BY <2>1
  <1>11. CASE Drop
    BY <1>2, <1>11 DEF Drop
  <1>. QED
    BY <1>3, <1>4, <1>5, <1>6, <1>7, <1>8, <1>9, <1>10, <1>11
    DEF Next, StreamEnds, Generating, CollectUnreported, ReadLoop,
        HandleHelloAccepted, IgnoreDuplicate, Marking, MarkResent,
        HelloAcceptedDone, Executing, StartHandler, RejectUnregistered,
        ContainerMakerActs, HandlerSucceeds, HandlerFails, Reporting,
        ReportSucceeds, ReportFails, Raising, RecordResultRaises, ReportRaises,
        ExceptionEscapes, Crash, Cloud, CloudTakesReport, CloudSends, vars, upstream

\* Acknowledged commands stay in the journal, and a command is in it before
\* its acknowledgement is queued.
LEMMA DurableStep ==
    TypeOK /\ ControlInv /\ AcknowledgedIsDurable /\ [Next]_vars
        => AcknowledgedIsDurable'
  <1>. SUFFICES ASSUME TypeOK, ControlInv, AcknowledgedIsDurable, [Next]_vars,
                       NEW m \in Range(wire') \cup Range(outbound'),
                       m.type = "command_accepted"
                PROVE  HasSeen(m.command_id)'
    BY DEF AcknowledgedIsDurable
  <1>1. CASE m \in Range(wire) \cup Range(outbound)
    <2>1. wire \in Seq(DeviceToCloud) /\ outbound \in Seq(AcceptedMessage)
      BY DEF TypeOK
    <2>2. m \in DeviceToCloud
      BY <1>1, <2>1, RangeIsTyped, MessageTypes
    <2>3. m.command_id \in Command
      BY <2>2 DEF DeviceToCloud, Hello, AcceptedMessage, ResultMessage
    <2>4. HasSeen(m.command_id)
      BY <1>1 DEF AcknowledgedIsDurable
    <2>. QED  BY <2>3, <2>4, JournalStep DEF RowStep
  <1>2. ASSUME NEW c \in Command, AcceptCommand(c), m = CommandAccepted(c)
        PROVE  HasSeen(m.command_id)'
    <2>1. /\ JournalTypeOK /\ Generation[c] \in Nat
          /\ RecordAccepted(c, Generation[c]) /\ m.command_id = c
      BY <1>2 DEF TypeOK, AcceptCommand, CommandAccepted
    <2>2. HasSeen(c) => journal' = journal
      BY <2>1, RecordAcceptedRow
    <2>3. ~ HasSeen(c) => journal'[c].status = "accepted"
      BY <2>1, RecordAcceptedRow
    <2>. QED  BY <2>1, <2>2, <2>3 DEF HasSeen
  <1>. QED  BY <1>1, <1>2, AcksStep

\* No crash makes the agent forget a command it acknowledged.
THEOREM AcknowledgementsAreKept == Spec => []AcknowledgedIsDurable
  <1>1. Init => AcknowledgedIsDurable
    BY RangeOfEmpty DEF Init, AcknowledgedIsDurable
  <1>2. IInv /\ AcknowledgedIsDurable /\ [Next]_vars => AcknowledgedIsDurable'
    BY DurableStep DEF IInv
  <1>. QED  BY <1>1, <1>2, Invariance, PTL DEF Spec

\* A command k's entry would be backed by.
Backs(c, k) ==
    /\ Operation[c] \in Placing /\ ContainerOf[c] = k
    /\ Generation[c] = placement_cache[k]
    /\ Succeeded(c)

\* As long as nothing raised, every entry of the cache is a success of the
\* journal: the two are written by one step.
LEMMA CacheStep ==
    TypeOK /\ ControlInv /\ CacheIsBacked /\ [Next]_vars => CacheIsBacked'
  <1>. SUFFICES ASSUME TypeOK, ControlInv, CacheIsBacked, [Next]_vars, faults' = 0,
                       NEW k \in Container, placement_cache'[k] # Unplaced
                PROVE  \E c \in Command : Backs(c, k)'
    BY DEF CacheIsBacked, Backs
  <1>1. faults \in Nat /\ (Fault => faults' = faults + 1)
    BY DEF TypeOK, Fault
  <1>2. ~ Fault
    BY <1>1
  <1>3. faults = 0
    BY <1>2
    DEF Next, Connect, StreamEnds, Generating, WriteHello, CollectUnreported,
        WriteResend, WriteQueued, ReadLoop, HandleHelloAccepted, IgnoreDuplicate,
        AcceptCommand, Marking, MarkResent, HelloAcceptedDone, Executing,
        StartHandler, RejectUnregistered, ContainerMakerActs, HandlerSucceeds,
        HandlerFails, Reporting, ReportSucceeds, ReportFails, Raising,
        RecordResultRaises, ReportRaises, ExceptionEscapes, Crash, Cloud,
        CloudReceives, CloudReceivesHello, CloudReceivesMessage, CloudTakesReport,
        CloudSends, Drop, vars, history
  <1>4. ASSUME placement_cache'[k] = placement_cache[k]
        PROVE  \E c \in Command : Backs(c, k)'
    <2>1. PICK c \in Command : Backs(c, k)
      BY <1>3, <1>4 DEF CacheIsBacked, Backs
    <2>2. Succeeded(c)'
      BY <1>1, <1>3, <2>1, JournalStep DEF RowStep, Backs
    <2>. QED  BY <1>4, <2>1, <2>2 DEF Backs
  <1>5. CASE HandlerSucceeds
    <2>1. /\ current \in Command /\ HasSeen(current) /\ UpdatePlacementCache
          /\ RecordResult(current, "succeeded", "none") /\ JournalTypeOK
      BY <1>5 DEF HandlerSucceeds, Finish, ControlInv, Busy, HasSeen, TypeOK
    <2>7. "succeeded" \in Terminal /\ "none" \in ErrorCode
      BY DEF Terminal, ErrorCode
    <2>2. journal'[current].status = "succeeded" /\ current' = current
      BY <1>5, <2>1, <2>7, RecordResultRow DEF HandlerSucceeds
    <2>3. placement_cache \in [Container -> Nat] /\ ContainerOf[current] \in Container
      BY <2>1 DEF TypeOK, CacheTypeOK
    <2>4. CASE Operation[current] \in Placing /\ ContainerOf[current] = k
      <3>1. placement_cache'[k] = Generation[current]
        BY <2>1, <2>3, <2>4 DEF UpdatePlacementCache, Record, Placing, Unplacing
      <3>. QED  BY <2>1, <2>2, <2>4, <3>1 DEF Backs, Succeeded
    <2>5. CASE ContainerOf[current] # k
      <3>1. placement_cache'[k] = placement_cache[k]
        BY <2>1, <2>3, <2>5 DEF UpdatePlacementCache, Record, Forget
      <3>. QED  BY <1>4, <3>1
    <2>6. CASE Operation[current] \notin Placing /\ ContainerOf[current] = k
      <3>1. placement_cache'[k] = placement_cache[k]
        BY <2>1, <2>3, <2>6 DEF UpdatePlacementCache, Forget, Unplaced
      <3>. QED  BY <1>4, <3>1
    <2>. QED  BY <2>4, <2>5, <2>6
  <1>6. CASE Crash
    BY <1>6 DEF Crash, EmptyCache, Unplaced
  <1>. QED
    BY <1>2, <1>4, <1>5, <1>6
    DEF Next, Connect, StreamEnds, Generating, WriteHello, CollectUnreported,
        WriteResend, WriteQueued, ReadLoop, HandleHelloAccepted, IgnoreDuplicate,
        AcceptCommand, Marking, MarkResent, HelloAcceptedDone, Executing,
        StartHandler, RejectUnregistered, ContainerMakerActs,
        HandlerFails, Reporting, ReportSucceeds, ReportFails, Raising,
        RecordResultRaises, ReportRaises, ExceptionEscapes, Cloud,
        CloudReceives, CloudReceivesHello, CloudReceivesMessage, CloudTakesReport,
        CloudSends, Drop, vars

\* The cache vouches for nothing the journal does not.
THEOREM CacheFollowsJournal == Spec => []CacheIsBacked
  <1>1. Init => CacheIsBacked
    BY DEF Init, CacheIsBacked, EmptyCache, Unplaced
  <1>2. IInv /\ CacheIsBacked /\ [Next]_vars => CacheIsBacked'
    BY CacheStep DEF IInv
  <1>. QED  BY <1>1, <1>2, Invariance, PTL DEF Spec

\* No removal is ever recorded with the cache still vouching for the container.
THEOREM RemovalsClear == Spec => RemovalClearsCache
  <1>. DEFINE Clears(c) ==
           Operation[c] \in Unplacing /\ ~ Succeeded(c) /\ Succeeded(c)'
               => placement_cache'[ContainerOf[c]] = Unplaced
  <1>1. ASSUME IInv, [Next]_vars, NEW c \in Command PROVE Clears(c)
    <2>. SUFFICES ASSUME Operation[c] \in Unplacing, ~ Succeeded(c), Succeeded(c)'
                  PROVE  placement_cache'[ContainerOf[c]] = Unplaced
      OBVIOUS
    <2>1. TypeOK /\ ControlInv
      BY <1>1 DEF IInv
    <2>2. HandlerSucceeds /\ current = c
      BY <1>1, <2>1, JournalStep DEF RowStep
    <2>3. /\ placement_cache \in [Container -> Nat] /\ ContainerOf[c] \in Container
          /\ Operation[c] \notin Placing
      BY <2>1 DEF TypeOK, CacheTypeOK, Placing, Unplacing
    <2>. QED  BY <2>2, <2>3 DEF HandlerSucceeds, UpdatePlacementCache, Forget
  <1>2. IInv /\ [Next]_vars => [\A c \in Command : Clears(c)]_vars
    BY <1>1
  <1>3. Spec => [][\A c \in Command : Clears(c)]_vars
    BY <1>2, Invariance, PTL DEF Spec
  <1>. QED  BY <1>3 DEF RemovalClearsCache

-----------------------------------------------------------------------------
(* The pipeline implements the ledger *)

\* A step that touches one row touches one entry of the ledger.
LEMMA OneEntry ==
    ASSUME NEW c \in Command, \A d \in Command \ {c} : journal'[d] = journal[d]
    PROVE  /\ OutcomeMap' = [OutcomeMap EXCEPT ![c] = OutcomeOf(c)']
           /\ ReportedMap' = [ReportedMap EXCEPT ![c] = journal'[c].reported_to_cloud]
  BY DEF OutcomeMap, ReportedMap, OutcomeOf

\* A journal as it is found is a ledger with open commands at most.
LEMMA LedgerInit == Init => Ledger!Init
  <1>. SUFFICES ASSUME Init PROVE Ledger!Init
    OBVIOUS
  <1>1. \A c \in Command : /\ journal[c].status \in {"absent", "accepted"}
                           /\ journal[c].reported_to_cloud = FALSE
    BY DEF Init, JournalInit, AcceptedRow, NoRow
  <1>2. OutcomeMap \in [Command -> {"none", "open"}]
    BY <1>1 DEF OutcomeMap, OutcomeOf
  <1>3. ReportedMap = [c \in Command |-> FALSE]
    BY <1>1 DEF ReportedMap
  <1>. QED  BY <1>2, <1>3 DEF Init, Ledger!Init

\* Every step of the pipeline is a step of the ledger or none at all.
LEMMA LedgerStep == IInv /\ [Next]_vars => [Ledger!Next]_(Ledger!vars)
  <1>. SUFFICES ASSUME IInv, [Next]_vars PROVE [Ledger!Next]_(Ledger!vars)
    OBVIOUS
  <1>1. /\ TypeOK /\ JournalTypeOK /\ ControlInv /\ ReportedInv /\ BackingInv
        /\ reader \in Busy => current \in Command /\ HasSeen(current)
    BY DEF IInv, TypeOK, ControlInv, Busy, HasSeen, HasTerminalResult, Terminal
  <1>2. ASSUME UNCHANGED <<journal, effects>> PROVE UNCHANGED Ledger!vars
    BY <1>2 DEF Ledger!vars, OutcomeMap, OutcomeOf, ReportedMap
  <1>3. ASSUME NEW c \in Command, HasTerminalResult(c), MarkReported(c), effects' = effects
        PROVE  Ledger!Report(c)
    <2>1. HasSeen(c)
      BY <1>3 DEF HasSeen, HasTerminalResult, Terminal
    <2>2. /\ journal'[c].status = journal[c].status /\ journal'[c].reported_to_cloud
          /\ \A d \in Command \ {c} : journal'[d] = journal[d]
          /\ journal'[c].reported_to_cloud \in BOOLEAN
      BY <1>1, <1>3, <2>1, MarkReportedRow, RowFields DEF JournalTypeOK
    <2>3. OutcomeOf(c)' = OutcomeOf(c) /\ journal'[c].reported_to_cloud = TRUE
      BY <2>2 DEF OutcomeOf
    <2>4. OutcomeMap[c] = OutcomeOf(c) /\ OutcomeOf(c) \in {"succeeded", "failed"}
      BY <1>3 DEF OutcomeMap, OutcomeOf, HasTerminalResult, Terminal
    <2>. QED
      BY <1>3, <2>2, <2>3, <2>4, OneEntry DEF Ledger!Report, Ledger!Settled, OutcomeMap
  <1>4. ASSUME NEW c \in Command, AcceptCommand(c)
        PROVE  Ledger!Open(c) \/ UNCHANGED Ledger!vars
    <2>1. RecordAccepted(c, Generation[c]) /\ effects' = effects
      BY <1>4 DEF AcceptCommand, cloud
    <2>2. CASE HasSeen(c)
      BY <1>1, <1>2, <2>1, <2>2, RecordAcceptedRow
    <2>3. CASE ~ HasSeen(c)
      <3>1. /\ journal'[c].status = "accepted" /\ ~ journal'[c].reported_to_cloud
            /\ \A d \in Command \ {c} : journal'[d] = journal[d]
            /\ journal'[c].reported_to_cloud \in BOOLEAN
        BY <1>1, <2>1, <2>3, RecordAcceptedRow, RowFields DEF JournalTypeOK
      <3>2. ~ journal[c].reported_to_cloud /\ journal[c].reported_to_cloud \in BOOLEAN
        BY <1>1, <2>3, RowFields
        DEF ReportedInv, HasSeen, HasTerminalResult, Terminal, JournalTypeOK
      <3>3. journal[c].reported_to_cloud = journal'[c].reported_to_cloud
        BY <3>1, <3>2
      <3>4. ReportedMap' = ReportedMap
        BY <3>1, <3>3 DEF ReportedMap
      <3>5. OutcomeMap[c] = "none" /\ OutcomeOf(c)' = "open"
        BY <2>3, <3>1 DEF OutcomeMap, OutcomeOf, HasSeen
      <3>. QED  BY <2>1, <3>1, <3>4, <3>5, OneEntry DEF Ledger!Open
    <2>. QED  BY <2>2, <2>3
  <1>5. CASE StartHandler
    <2>1. current \in Command /\ RecordRunning(current) /\ effects' = effects
      BY <1>1, <1>5 DEF StartHandler, Busy, cloud
    <2>2. /\ journal'[current].status = "running"
          /\ journal'[current].reported_to_cloud = journal[current].reported_to_cloud
          /\ \A d \in Command \ {current} : journal'[d] = journal[d]
      BY <1>1, <1>5, <2>1, RecordRunningRow DEF StartHandler, Busy
    <2>3. journal[current].status \in {"accepted", "running"}
      BY <1>1, <1>5 DEF ControlInv, StartHandler
    <2>4. OutcomeMap' = OutcomeMap /\ ReportedMap' = ReportedMap
      BY <2>2, <2>3 DEF OutcomeMap, OutcomeOf, ReportedMap
    <2>. QED  BY <2>1, <2>4 DEF Ledger!vars
  <1>6. ASSUME NEW s \in Terminal, NEW e \in ErrorCode, NEW c \in Command, c = current,
               reader \in Busy, Finish(s, e), effects' = effects
        PROVE  /\ OutcomeMap' = [OutcomeMap EXCEPT ![c] = s]
               /\ ReportedMap' = [ReportedMap EXCEPT ![c] = FALSE]
               /\ ~ HasTerminalResult(c) =>
                     OutcomeMap[c] = "open" /\ ReportedMap' = ReportedMap
               /\ HasTerminalResult(c) => OutcomeMap[c] \in Terminal
    <2>1. c \in Command /\ HasSeen(c) /\ RecordResult(c, s, e)
      BY <1>1, <1>6 DEF Finish
    <2>2. /\ journal'[c].status = s /\ ~ journal'[c].reported_to_cloud
          /\ \A d \in Command \ {c} : journal'[d] = journal[d]
          /\ journal'[c].reported_to_cloud \in BOOLEAN
      BY <1>1, <2>1, RecordResultRow, RowFields DEF JournalTypeOK
    <2>3. OutcomeOf(c)' = s
      <3>1. s \in {"succeeded", "failed"}
        BY DEF Terminal
      <3>. QED  BY <2>2, <3>1 DEF OutcomeOf
    <2>4. journal'[c].reported_to_cloud = FALSE
      BY <2>2
    <2>5. ASSUME ~ HasTerminalResult(c)
          PROVE  OutcomeMap[c] = "open" /\ ReportedMap' = ReportedMap
      <3>1. journal[c].reported_to_cloud = FALSE
        BY <1>1, <2>1, <2>5, RowFields DEF ReportedInv, JournalTypeOK
      <3>2. journal[c].status \in {"accepted", "running"}
        BY <1>1, <2>1, <2>5, RowFields
        DEF JournalTypeOK, HasTerminalResult, HasSeen, Terminal, Status
      <3>. QED  BY <2>1, <2>2, <2>4, <3>1, <3>2 DEF OutcomeMap, OutcomeOf, ReportedMap
    <2>6. HasTerminalResult(c) => OutcomeMap[c] \in Terminal
      BY <2>1 DEF HasTerminalResult, Terminal, OutcomeMap, OutcomeOf
    <2>7. /\ OutcomeMap' = [OutcomeMap EXCEPT ![c] = s]
          /\ ReportedMap' = [ReportedMap EXCEPT ![c] = FALSE]
      <3>1. /\ OutcomeMap' = [OutcomeMap EXCEPT ![c] = OutcomeOf(c)']
            /\ ReportedMap' = [ReportedMap EXCEPT
                                  ![c] = journal'[c].reported_to_cloud]
        BY <2>1, <2>2, OneEntry
      <3>. QED  BY <3>1, <2>3, <2>4
    <2>. QED  BY <2>5, <2>6, <2>7
  <1>7. CASE HandlerSucceeds
    <2>1. /\ current \in Command /\ ~ HasTerminalResult(current)
          /\ effects[current] > 0 /\ effects' = effects
      BY <1>1, <1>7
      DEF HandlerSucceeds, ControlInv, BackingInv, Busy, HasTerminalResult, Terminal, cloud
    <2>2. Ledger!Succeed(current)
      BY <1>6, <1>7, <2>1
      DEF HandlerSucceeds, Busy, Terminal, ErrorCode, Ledger!Succeed
    <2>. QED  BY <2>1, <2>2 DEF Ledger!Next
  <1>8. ASSUME NEW e \in ErrorCode, reader \in Busy, Finish("failed", e), effects' = effects
        PROVE  Ledger!Next
    <2>1. current \in Command /\ "failed" \in Terminal
      BY <1>1, <1>8 DEF Terminal
    <2>2. /\ OutcomeMap' = [OutcomeMap EXCEPT ![current] = "failed"]
          /\ ReportedMap' = [ReportedMap EXCEPT ![current] = FALSE]
          /\ ~ HasTerminalResult(current) =>
                OutcomeMap[current] = "open" /\ ReportedMap' = ReportedMap
          /\ HasTerminalResult(current) => OutcomeMap[current] \in Terminal
      BY <1>6, <1>8, <2>1
    <2>3. CASE HasTerminalResult(current)
      <3>1. Ledger!Downgrade(current)
        BY <1>8, <2>2, <2>3 DEF Terminal, Ledger!Downgrade, Ledger!Settled
      <3>. QED  BY <2>1, <3>1 DEF Ledger!Next
    <2>4. CASE ~ HasTerminalResult(current)
      <3>1. Ledger!Fail(current)
        BY <1>8, <2>2, <2>4 DEF Ledger!Fail
      <3>. QED  BY <2>1, <3>1 DEF Ledger!Next
    <2>. QED  BY <2>3, <2>4
  <1>9. CASE RejectUnregistered
    BY <1>8, <1>9 DEF RejectUnregistered, Busy, ErrorCode, cloud
  <1>10. ASSUME NEW e \in {"HANDLER_ERROR", "HANDLER_EXCEPTION"}, HandlerFails(e)
         PROVE  Ledger!Next
    BY <1>8, <1>10 DEF HandlerFails, Busy, ErrorCode, cloud
  <1>11. CASE RecordResultRaises
    BY <1>8, <1>11 DEF RecordResultRaises, Busy, ErrorCode, cloud
  <1>12. CASE ReportRaises
    BY <1>8, <1>12 DEF ReportRaises, Busy, ErrorCode, cloud
  <1>13. CASE ContainerMakerActs
    <2>1. /\ current \in Command /\ journal' = journal
          /\ effects' = [effects EXCEPT ![current] = @ + 1]
      BY <1>1, <1>13 DEF ContainerMakerActs, Busy
    <2>2. OutcomeMap[current] = "open" /\ OutcomeMap' = OutcomeMap /\ ReportedMap' = ReportedMap
      BY <1>1, <1>13, <2>1
      DEF ContainerMakerActs, ControlInv, OutcomeMap, OutcomeOf, ReportedMap
    <2>. QED  BY <2>1, <2>2 DEF Ledger!Work, Ledger!Next
  <1>14. ASSUME NEW c \in Command, MarkResent(c) PROVE Ledger!Next
    <2>1. HasTerminalResult(c) /\ MarkReported(c) /\ effects' = effects
      BY <1>1, <1>14 DEF MarkResent, ReportedInv, cloud
    <2>. QED  BY <1>3, <2>1 DEF Ledger!Next
  <1>15. CASE ReportSucceeds
    <2>1. /\ current \in Command /\ HasTerminalResult(current) /\ MarkReported(current)
          /\ effects' = effects
      BY <1>1, <1>15 DEF ReportSucceeds, ControlInv, Busy, cloud
    <2>. QED  BY <1>3, <2>1 DEF Ledger!Next
  <1>. QED
    BY <1>2, <1>4, <1>5, <1>7, <1>9, <1>10, <1>11, <1>12, <1>13, <1>14, <1>15
    DEF Next, Connect, StreamEnds, Generating, WriteHello, CollectUnreported,
        WriteResend, WriteQueued, ReadLoop, HandleHelloAccepted, IgnoreDuplicate,
        Marking, HelloAcceptedDone, Executing, Reporting, ReportFails, Raising,
        ExceptionEscapes, Crash, Cloud, CloudReceives, CloudReceivesHello,
        CloudReceivesMessage, CloudTakesReport, CloudSends, Drop, vars, cloud,
        Ledger!Next

\* Whatever the streams, the tasks, Cloud and crashes do, the agent keeps the
\* ledger's promises: the work for a command stops at its outcome.
THEOREM ImplementsLedger == Spec => LedgerSpec
  <1>1. Spec => Ledger!Init /\ [][Ledger!Next]_(Ledger!vars)
    BY LedgerInit, LedgerStep, Invariance, PTL DEF Spec
  <1>. QED  BY <1>1 DEF LedgerSpec, Ledger!Spec

-----------------------------------------------------------------------------
(* Every command is reported: what a stream holds *)

\* A stream begins with one Hello, the first thing written to it; Cloud
\* accepts it once. With one command there is at most one result to resend.
UpInv ==
    /\ stream # "closed" => generator # "off"
    /\ generator \in {"off", "start"} => ~ greeted /\ wire = <<>>
    /\ \A i \in 1..Len(wire) : wire[i] = Hello => i = 1 /\ ~ greeted
    /\ stream = "open" /\ ~ greeted /\ generator # "start" => wire # <<>> /\ wire[1] = Hello
    /\ \A m, n \in resends : m = n

\* What Cloud has sent on it is read in order: the answer to the Hello first.
DownInv(c) ==
    /\ inbound \in {<<>>, <<HelloAccepted>>, <<ExecuteCommand(c)>>,
                    <<HelloAccepted, ExecuteCommand(c)>>}
    /\ reader # "idle" => inbound \in {<<>>, <<ExecuteCommand(c)>>}
    /\ ~ greeted => inbound = <<>> /\ reader = "idle"

\* A message other than the Hello does not disturb the order of the wire.
LEMMA WriteKeepsOrder ==
    ASSUME TypeOK, UpInv, NEW m \in DeviceToCloud, m # Hello, Write(m)
    PROVE  /\ wire' # <<>>
           /\ \A i \in 1..Len(wire') : wire'[i] = Hello => i = 1 /\ ~ greeted
           /\ wire # <<>> => wire'[1] = wire[1]
  <1>1. wire \in Seq(DeviceToCloud) /\ wire' = Append(wire, m)
    BY DEF TypeOK, Write
  <1>2. /\ Len(wire') = Len(wire) + 1 /\ Len(wire) \in Nat
        /\ \A i \in 1..Len(wire) : wire'[i] = wire[i]
        /\ wire'[Len(wire) + 1] = m
    BY <1>1, AppendProperties
  <1>3. wire # <<>> => 1 \in 1..Len(wire)
    BY <1>1, <1>2
  <1>4. \A i \in 1..Len(wire') : i \in 1..Len(wire) \/ i = Len(wire) + 1
    BY <1>2
  <1>5. wire' # <<>>
    BY <1>1
  <1>. QED  BY <1>2, <1>3, <1>4, <1>5 DEF UpInv

\* Every step keeps what is written in order ...
LEMMA UpStep ==
    ASSUME NEW c, Command = {c}, TypeOK, ControlInv, UpInv, [Next]_vars
    PROVE  UpInv'
  <1>0. wire \in Seq(DeviceToCloud) /\ Len(wire) \in Nat
    BY DEF TypeOK
  <1>1. CASE UNCHANGED <<stream, generator, resends, wire, greeted>>
    BY <1>1 DEF UpInv
  <1>2. CASE Connect
    BY <1>2 DEF Connect, UpInv, ControlInv, upstream
  <1>3. CASE WriteHello
    <2>1. wire = <<>> /\ wire' = <<Hello>> /\ ~ greeted'
      BY <1>3 DEF WriteHello, Write, UpInv
    <2>2. /\ wire' # <<>> /\ wire'[1] = Hello
          /\ \A i \in 1..Len(wire') : i = 1
      BY <2>1
    <2>. QED  BY <1>3, <2>1, <2>2 DEF WriteHello, UpInv
  <1>4. CASE CollectUnreported
    BY <1>4 DEF CollectUnreported, UnreportedTerminalEntries, UpInv
  <1>5. ASSUME NEW m \in resends, WriteResend(m) PROVE UpInv'
    <2>3. m \in ResultMessage /\ m \in DeviceToCloud
      BY <1>5, MessageTypes DEF TypeOK
    <2>1. m \in DeviceToCloud /\ m # Hello /\ generator = "resending"
      BY <1>5, <2>3 DEF ResultMessage, Hello, ControlInv
    <2>2. Write(m) /\ UNCHANGED <<stream, generator, greeted>> /\ resends' \subseteq resends
      BY <1>5 DEF WriteResend
    <2>. QED  BY <2>1, <2>2, WriteKeepsOrder DEF UpInv
  <1>6. CASE WriteQueued
    <2>1. Head(outbound) \in AcceptedMessage
      BY <1>6, HeadTailProperties DEF WriteQueued, TypeOK
    <2>2. Head(outbound) \in DeviceToCloud /\ Head(outbound) # Hello
      BY <2>1, MessageTypes DEF AcceptedMessage, Hello
    <2>3. /\ Write(Head(outbound)) /\ UNCHANGED <<stream, generator, greeted, resends>>
          /\ generator = "resending"
      BY <1>6 DEF WriteQueued
    <2>. QED  BY <2>2, <2>3, WriteKeepsOrder DEF UpInv
  <1>7. CASE ConnectionEnds
    BY <1>7 DEF ConnectionEnds, LoseStream, UpInv
  <1>8. ASSUME wire # <<>>, wire' = Tail(wire), UNCHANGED <<stream, generator, resends>>
        PROVE  /\ Head(wire) = wire[1] /\ generator \notin {"off", "start"}
               /\ \A i \in 1..Len(wire') : wire'[i] # Hello
    <2>1. /\ Head(wire) = wire[1] /\ Len(wire') = Len(wire) - 1
          /\ \A i \in 1..Len(wire') : wire'[i] = wire[i + 1] /\ i + 1 \in 1..Len(wire)
                                      /\ i + 1 # 1
      BY <1>0, <1>8, HeadTailProperties
    <2>. QED  BY <1>8, <2>1 DEF UpInv
  <1>9. CASE CloudReceivesHello
    <2>1. wire # <<>> /\ wire' = Tail(wire) /\ greeted'
          /\ UNCHANGED <<stream, generator, resends>>
      BY <1>9 DEF CloudReceivesHello
    <2>. QED  BY <1>8, <2>1 DEF UpInv
  <1>10. CASE CloudReceivesMessage
    <2>1. wire # <<>> /\ wire' = Tail(wire) /\ stream = "open" /\ Head(wire) # Hello
          /\ UNCHANGED <<stream, generator, resends, greeted>>
      BY <1>10 DEF CloudReceivesMessage
    <2>. QED  BY <1>8, <2>1 DEF UpInv
  <1>11. CASE Drop
    BY <1>11 DEF Drop, UpInv
  <1>. QED
    BY <1>1, <1>2, <1>3, <1>4, <1>5, <1>6, <1>7, <1>9, <1>10, <1>11
    DEF Next, StreamEnds, Generating, ReadLoop, HandleHelloAccepted,
        IgnoreDuplicate, AcceptCommand, Marking, MarkResent, HelloAcceptedDone,
        Executing, StartHandler, RejectUnregistered, ContainerMakerActs,
        HandlerSucceeds, HandlerFails, Reporting, ReportSucceeds, ReportFails,
        Raising, RecordResultRaises, ReportRaises, ExceptionEscapes, Crash, Cloud,
        CloudReceives, CloudTakesReport, CloudSends, vars, upstream

\* What the operations on the queue make of its four values.
LEMMA DownQueue ==
    ASSUME NEW c
    PROVE  LET H == HelloAccepted  E == ExecuteCommand(c) IN
           /\ Append(<<>>, H) = <<H>> /\ Append(<<>>, E) = <<E>>
           /\ Append(<<H>>, E) = <<H, E>>
           /\ Head(<<H>>) = H /\ Head(<<E>>) = E /\ Head(<<H, E>>) = H
           /\ Tail(<<H>>) = <<>> /\ Tail(<<E>>) = <<>> /\ Tail(<<H, E>>) = <<E>>
           /\ Range(<<H>>) = {H} /\ Range(<<E>>) = {E} /\ Range(<<H, E>>) = {H, E}
           /\ H # E /\ \A d : ExecuteCommand(d) = E => d = c
           /\ <<H>> # <<>> /\ <<E>> # <<>> /\ <<H, E>> # <<>>
           /\ <<H>> # <<E>> /\ <<H, E>> # <<E>> /\ <<H, E>> # <<H>>
           /\ \A n \in 0..0 : SubSeq(<<>>, 1, n) = <<>>
           /\ \A n \in 0..1 : SubSeq(<<H>>, 1, n) \in {<<>>, <<H>>}
           /\ \A n \in 0..1 : SubSeq(<<E>>, 1, n) \in {<<>>, <<E>>}
           /\ \A n \in 0..2 : SubSeq(<<H, E>>, 1, n) \in {<<>>, <<H>>, <<H, E>>}
  <1>. DEFINE H == HelloAccepted
              E == ExecuteCommand(c)
  <1>1. H # E /\ \A d : ExecuteCommand(d) = E => d = c
    BY DEF HelloAccepted, ExecuteCommand
  <1>. HIDE DEF H, E
  <1>. DEFINE S == {H, E}
  <1>2. /\ <<>> \in Seq(S) /\ <<H>> \in Seq(S) /\ <<E>> \in Seq(S) /\ <<H, E>> \in Seq(S)
        /\ Len(<<>>) = 0 /\ Len(<<H>>) = 1 /\ Len(<<E>>) = 1 /\ Len(<<H, E>>) = 2
        /\ <<H>>[1] = H /\ <<E>>[1] = E /\ <<H, E>>[1] = H /\ <<H, E>>[2] = E
        /\ H \in S /\ E \in S
    OBVIOUS
  <1>3. /\ <<H>> # <<>> /\ <<E>> # <<>> /\ <<H, E>> # <<>>
        /\ <<H>> # <<E>> /\ <<H, E>> # <<E>> /\ <<H, E>> # <<H>>
    BY <1>1, <1>2
  <1>4. ASSUME NEW x \in S
        PROVE  /\ Append(<<>>, x) = <<x>> /\ Head(<<x>>) = x /\ Tail(<<x>>) = <<>>
               /\ Range(<<x>>) = {x}
               /\ \A n \in 0..1 : SubSeq(<<x>>, 1, n) \in {<<>>, <<x>>}
    <2>1. <<x>> \in Seq(S) /\ Len(<<x>>) = 1 /\ <<x>>[1] = x /\ <<x>> # <<>>
      OBVIOUS
    <2>2. Append(<<>>, x) = <<x>> /\ Head(<<x>>) = x
      OBVIOUS
    <2>3. Tail(<<x>>) = <<>>
      <3>1. Tail(<<x>>) \in Seq(S) /\ Len(Tail(<<x>>)) = 0
        BY <2>1, HeadTailProperties
      <3>. QED  BY <3>1, EmptySeq
    <2>4. Range(<<x>>) = {x}
      <3>1. Range(<<x>>) = {<<x>>[i] : i \in 1..Len(<<x>>)}
        BY <2>1, RangeEquality
      <3>. QED  BY <2>1, <3>1
    <2>5. SubSeq(<<x>>, 1, 0) = <<>> /\ SubSeq(<<x>>, 1, 1) = <<x>>
      <3>1. SubSeq(<<x>>, 1, 0) = <<>>
        BY SubSeqEmpty
      <3>2. SubSeq(<<x>>, 1, Len(<<x>>)) = <<x>>
        BY <2>1, SubSeqFull
      <3>. QED  BY <2>1, <3>1, <3>2
    <2>6. \A n \in 0..1 : n = 0 \/ n = 1
      OBVIOUS
    <2>. QED  BY <2>2, <2>3, <2>4, <2>5, <2>6
  <1>5. Append(<<H>>, E) = <<H, E>> /\ Head(<<H, E>>) = H
    <2>1. /\ Append(<<H>>, E) \in Seq(S) /\ Len(Append(<<H>>, E)) = 2
          /\ Append(<<H>>, E)[1] = H /\ Append(<<H>>, E)[2] = E
      BY <1>2, AppendProperties
    <2>2. \A i \in 1..Len(Append(<<H>>, E)) : Append(<<H>>, E)[i] = <<H, E>>[i]
      BY <1>2, <2>1
    <2>3. Append(<<H>>, E) = <<H, E>>
      BY <1>2, <2>1, <2>2, SeqEqual
    <2>. QED  BY <1>2, <2>3
  <1>6. Tail(<<H, E>>) = <<E>>
    <2>1. /\ Tail(<<H, E>>) \in Seq(S) /\ Len(Tail(<<H, E>>)) = 1
          /\ Tail(<<H, E>>)[1] = E
      BY <1>2, <1>3, HeadTailProperties
    <2>2. \A i \in 1..Len(Tail(<<H, E>>)) : Tail(<<H, E>>)[i] = <<E>>[i]
      BY <1>2, <2>1
    <2>. QED  BY <1>2, <2>1, <2>2, SeqEqual
  <1>7. Range(<<H, E>>) = {H, E}
    <2>1. Range(<<H, E>>) = {H} \cup Range(<<E>>)
      BY <1>2, <1>3, <1>5, <1>6, RangeOfTail
    <2>. QED  BY <1>2, <1>4, <2>1
  <1>8. \A n \in 0..0 : SubSeq(<<>>, 1, n) = <<>>
    BY SubSeqEmpty
  <1>9. ASSUME NEW n \in 0..2 PROVE SubSeq(<<H, E>>, 1, n) \in {<<>>, <<H>>, <<H, E>>}
    <2>1. CASE n = 0  BY <2>1, SubSeqEmpty
    <2>2. CASE n = 1
      <3>1. /\ SubSeq(<<H, E>>, 1, 1) \in Seq(S) /\ Len(SubSeq(<<H, E>>, 1, 1)) = 1
            /\ SubSeq(<<H, E>>, 1, 1)[1] = H
        BY <1>2, SubSeqProperties
      <3>2. \A i \in 1..Len(SubSeq(<<H, E>>, 1, 1)) : SubSeq(<<H, E>>, 1, 1)[i] = <<H>>[i]
        BY <1>2, <3>1
      <3>3. SubSeq(<<H, E>>, 1, 1) = <<H>>
        BY <1>2, <3>1, <3>2, SeqEqual
      <3>. QED  BY <2>2, <3>3
    <2>3. CASE n = 2
      <3>1. SubSeq(<<H, E>>, 1, Len(<<H, E>>)) = <<H, E>>
        BY <1>2, SubSeqFull
      <3>. QED  BY <1>2, <2>3, <3>1
    <2>. QED  BY <2>1, <2>2, <2>3
  <1>. QED  BY <1>1, <1>2, <1>3, <1>4, <1>5, <1>6, <1>7, <1>8, <1>9 DEF H, E

\* ... and what is sent.
LEMMA DownStep ==
    ASSUME NEW c, Command = {c}, TypeOK, ControlInv, UpInv, DownInv(c), [Next]_vars
    PROVE  DownInv(c)'
  <1>. USE DEF DownInv
  <1>1. CASE UNCHANGED <<inbound, reader, greeted>>
    BY <1>1
  <1>2. CASE reader # "idle" /\ UNCHANGED <<inbound, greeted>>
    BY <1>2
  <1>3. CASE ConnectionEnds
    BY <1>3, DownQueue DEF ConnectionEnds, LoseStream
  <1>4. ASSUME Reading(HelloAccepted) \/ Reading(ExecuteCommand(c)), UNCHANGED greeted
        PROVE  DownInv(c)'
    BY <1>4, DownQueue DEF Reading, Incoming
  <1>5. CASE HandleHelloAccepted
    BY <1>4, <1>5 DEF HandleHelloAccepted
  <1>6. ASSUME NEW d \in Command, IgnoreDuplicate(d) \/ AcceptCommand(d) PROVE DownInv(c)'
    BY <1>4, <1>6 DEF IgnoreDuplicate, AcceptCommand
  <1>7. CASE CloudReceivesHello
    <2>1. 1 \in 1..Len(wire) /\ wire[1] = Hello
      BY <1>7 DEF CloudReceivesHello, TypeOK
    <2>2. ~ greeted
      BY <2>1 DEF UpInv
    <2>. QED  BY <1>7, <2>2, DownQueue DEF CloudReceivesHello
  <1>8. ASSUME NEW d \in Command, CloudSends(d) PROVE DownInv(c)'
    BY <1>8, DownQueue DEF CloudSends
  <1>9. CASE Drop
    <2>1. PICK n \in 0..Len(inbound) : inbound' = SubSeq(inbound, 1, n)
      BY <1>9 DEF Drop
    <2>2. Len(<<>>) = 0 /\ \A x : Len(<<x>>) = 1 /\ \A y : Len(<<x, y>>) = 2
      OBVIOUS
    <2>3. /\ inbound' \in {<<>>, <<HelloAccepted>>, <<ExecuteCommand(c)>>,
                           <<HelloAccepted, ExecuteCommand(c)>>}
          /\ inbound \in {<<>>, <<ExecuteCommand(c)>>} =>
                inbound' \in {<<>>, <<ExecuteCommand(c)>>}
          /\ inbound = <<>> => inbound' = <<>>
      <3>1. CASE inbound = <<>>
        BY <2>1, <2>2, <3>1, DownQueue
      <3>2. CASE inbound = <<HelloAccepted>>
        <4>1. n \in 0..1 /\ inbound' = SubSeq(<<HelloAccepted>>, 1, n)
          BY <2>1, <2>2, <3>2
        <4>. QED  BY <3>2, <4>1, DownQueue
      <3>3. CASE inbound = <<ExecuteCommand(c)>>
        <4>1. n \in 0..1 /\ inbound' = SubSeq(<<ExecuteCommand(c)>>, 1, n)
          BY <2>1, <2>2, <3>3
        <4>. QED  BY <3>3, <4>1, DownQueue
      <3>4. CASE inbound = <<HelloAccepted, ExecuteCommand(c)>>
        <4>1. n \in 0..2 /\ inbound' = SubSeq(<<HelloAccepted, ExecuteCommand(c)>>, 1, n)
          BY <2>1, <2>2, <3>4
        <4>. QED  BY <3>4, <4>1, DownQueue
      <3>. QED  BY <3>1, <3>2, <3>3, <3>4
    <2>. QED  BY <1>9, <2>3 DEF Drop
  <1>. QED
    BY <1>1, <1>2, <1>3, <1>5, <1>6, <1>7, <1>8, <1>9
    DEF Next, Connect, StreamEnds, Generating, WriteHello, CollectUnreported,
        WriteResend, WriteQueued, ReadLoop, Marking, MarkResent, HelloAcceptedDone,
        Executing, StartHandler, RejectUnregistered, ContainerMakerActs,
        HandlerSucceeds, HandlerFails, Reporting, ReportSucceeds, ReportFails,
        Raising, RecordResultRaises, ReportRaises, ExceptionEscapes, Crash, Cloud,
        CloudReceives, CloudReceivesMessage, CloudTakesReport, vars

-----------------------------------------------------------------------------
(* Every command is reported: the steps of a stream that leave it waiting *)

\* All that the argument below takes from a state.
LiveInv(c) == IInv /\ AnswersAgree /\ UpInv /\ DownInv(c)

\* A step after the last crash and the last exception, when streams live
\* through their start.
QuietNext ==
    Next /\ UNCHANGED <<crashes, faults>> /\ (Drop => Settled)

\* Such a step is no crash and raises nothing.
LEMMA QuietSteps ==
    ASSUME TypeOK, QuietNext
    PROVE  ~ Raising /\ ~ Crash
  <1>1. crashes \in Nat /\ faults \in Nat /\ UNCHANGED <<crashes, faults>>
    BY DEF TypeOK, QuietNext
  <1>2. ~ Fault /\ ~ Crash
    BY <1>1 DEF Fault, Crash
  <1>. QED  BY <1>2 DEF Raising, RecordResultRaises, ReportRaises, ExceptionEscapes

\* c's row is there and not yet reported.
Owed(c) == HasSeen(c) /\ ~ journal[c].reported_to_cloud

\* Nobody works on c, and nobody is about to mark it reported.
Waiting(c) ==
    /\ Owed(c)
    /\ reader \in {"idle", "marking"}
    /\ reader = "marking" => c \notin pending_resend_ids

\* What the steps that leave c waiting do to a stream, from its beginning
\* to its end.
StreamMoves(c) ==
    LET start == <<HelloAccepted>>
        sent == <<ExecuteCommand(c)>>
        both == <<HelloAccepted, ExecuteCommand(c)>> IN
    \/ /\ stream = "closed" /\ stream' = "open" /\ generator' = "start"
       /\ UNCHANGED <<resends, greeted, reader, inbound>>
    \/ /\ generator = "start" /\ generator' = "greeting"
       /\ UNCHANGED <<stream, resends, greeted, reader, inbound>>
    \/ /\ generator = "greeting" /\ generator' = "resending"
       /\ c \in UnreportedTerminalEntries => c \in pending_resend_ids'
       /\ UNCHANGED <<stream, greeted, reader, inbound>>
    \/ /\ generator = "resending" /\ resends # {} /\ resends' = {}
       /\ UNCHANGED <<stream, generator, greeted, reader, inbound>>
    \/ /\ ~ greeted /\ greeted' /\ stream = "open" /\ generator \notin {"off", "start"}
       /\ reader = "idle" /\ inbound' = start
       /\ UNCHANGED <<stream, generator, resends, reader>>
    \/ /\ stream = "open" /\ greeted
       /\ (inbound = <<>> /\ inbound' = sent) \/ (inbound = start /\ inbound' = both)
       /\ UNCHANGED <<stream, generator, resends, greeted, reader>>
    \/ /\ reader = "idle" /\ reader' = "marking"
       /\ (inbound = start /\ inbound' = <<>>) \/ (inbound = both /\ inbound' = sent)
       /\ UNCHANGED <<stream, generator, resends, greeted>>
    \/ /\ reader = "marking" /\ reader' = "idle"
       /\ UNCHANGED <<stream, generator, resends, greeted, inbound>>
    \/ /\ reader = "idle" /\ inbound = sent /\ inbound' = <<>>
       /\ UNCHANGED <<stream, generator, resends, greeted, reader>>
    \/ /\ Settled /\ stream = "open" /\ stream' = "broken"
       /\ inbound' \in {<<>>, inbound}
       /\ UNCHANGED <<generator, resends, greeted, reader>>
    \/ stream = "broken" /\ inbound = <<>> /\ reader = "idle" /\ stream' = "closed"
    \/ UNCHANGED <<stream, generator, resends, greeted, reader, inbound>>

\* While c waits, no step but those of the stream is taken.
LEMMA WaitingStep ==
    ASSUME NEW c, Command = {c}, LiveInv(c), Waiting(c), Waiting(c)', QuietNext
    PROVE  \/ Connect \/ StreamEnds \/ Generating \/ HandleHelloAccepted
           \/ HelloAcceptedDone \/ IgnoreDuplicate(c) \/ CloudReceives
           \/ CloudSends(c) \/ (Settled /\ Drop)
  <1>1. ~ Raising /\ ~ Crash
    BY QuietSteps DEF LiveInv, IInv
  <1>2. ~ Executing /\ ~ Reporting /\ ~ CloudTakesReport
    BY DEF Waiting, Executing, StartHandler, RejectUnregistered, ContainerMakerActs,
           HandlerSucceeds, HandlerFails, Reporting, ReportSucceeds, ReportFails,
           CloudTakesReport
  <1>3. ~ MarkResent(c) /\ ~ AcceptCommand(c)
    BY DEF Waiting, MarkResent, AcceptCommand
  <1>. QED
    BY <1>1, <1>2, <1>3 DEF QuietNext, Next, ReadLoop, Marking, Cloud

\* They do to it what is said above.
LEMMA WaitingMoves ==
    ASSUME NEW c, Command = {c}, LiveInv(c), Waiting(c), Waiting(c)', [QuietNext]_vars
    PROVE  StreamMoves(c)
  <1>. USE DEF StreamMoves
  <1>0. UpInv /\ DownInv(c) /\ ControlInv /\ TypeOK
    BY DEF LiveInv, IInv
  <1>1. CASE UNCHANGED vars
    BY <1>1 DEF vars, upstream
  <1>2. CASE Connect
    BY <1>2 DEF Connect, upstream
  <1>3. CASE WriteHello
    BY <1>3 DEF WriteHello
  <1>4. CASE CollectUnreported
    BY <1>4 DEF CollectUnreported
  <1>5. ASSUME NEW m \in resends, WriteResend(m) PROVE StreamMoves(c)
    <2>1. resends' = {} /\ generator = "resending"
      BY <1>0, <1>5 DEF UpInv, ControlInv, WriteResend
    <2>. QED  BY <1>5, <2>1 DEF WriteResend
  <1>6. CASE WriteQueued
    BY <1>6 DEF WriteQueued
  <1>7. CASE CloudReceivesHello
    <2>1. 1 \in 1..Len(wire) /\ wire[1] = Hello
      BY <1>0, <1>7 DEF CloudReceivesHello, TypeOK
    <2>2. ~ greeted
      BY <1>0, <2>1 DEF UpInv
    <2>3. inbound = <<>> /\ reader = "idle" /\ generator \notin {"off", "start"}
      BY <1>0, <1>7, <2>2 DEF DownInv, UpInv, CloudReceivesHello
    <2>. QED  BY <1>7, <2>2, <2>3, DownQueue DEF CloudReceivesHello
  <1>8. CASE CloudReceivesMessage
    BY <1>8 DEF CloudReceivesMessage
  <1>9. CASE CloudSends(c)
    <2>1. inbound \in {<<>>, <<HelloAccepted>>}
      <3>1. ExecuteCommand(c) \notin Range(inbound)
        BY <1>9 DEF CloudSends
      <3>2. /\ ExecuteCommand(c) \in Range(<<ExecuteCommand(c)>>)
            /\ ExecuteCommand(c) \in Range(<<HelloAccepted, ExecuteCommand(c)>>)
        BY DownQueue
      <3>. QED  BY <1>0, <3>1, <3>2 DEF DownInv
    <2>. QED  BY <1>9, <2>1, DownQueue DEF CloudSends, upstream
  <1>10. CASE HandleHelloAccepted
    <2>1. inbound \in {<<HelloAccepted>>, <<HelloAccepted, ExecuteCommand(c)>>}
      BY <1>0, <1>10, DownQueue DEF HandleHelloAccepted, Reading, Incoming, DownInv
    <2>. QED
      BY <1>10, <2>1, DownQueue DEF HandleHelloAccepted, Reading, Incoming, upstream
  <1>11. CASE HelloAcceptedDone
    BY <1>11 DEF HelloAcceptedDone
  <1>12. CASE IgnoreDuplicate(c)
    <2>1. inbound = <<ExecuteCommand(c)>>
      BY <1>0, <1>12, DownQueue DEF IgnoreDuplicate, Reading, Incoming, DownInv
    <2>. QED
      BY <1>12, <2>1, DownQueue DEF IgnoreDuplicate, Reading, Incoming, upstream
  <1>13. CASE Settled /\ Drop
    <2>1. inbound \in {<<>>, <<ExecuteCommand(c)>>}
      BY <1>0, <1>13, DownQueue DEF Settled, DownInv
    <2>2. PICK n \in 0..Len(inbound) : inbound' = SubSeq(inbound, 1, n)
      BY <1>13 DEF Drop
    <2>3. Len(<<>>) = 0 /\ Len(<<ExecuteCommand(c)>>) = 1
      OBVIOUS
    <2>4. inbound' \in {<<>>, inbound}
      BY <2>1, <2>2, <2>3, DownQueue
    <2>. QED  BY <1>13, <2>4 DEF Drop
  <1>14. CASE StreamEnds
    BY <1>14 DEF StreamEnds, ConnectionEnds
  <1>. QED
    BY <1>1, <1>2, <1>3, <1>4, <1>5, <1>6, <1>7, <1>8, <1>9, <1>10, <1>11, <1>12,
       <1>13, <1>14, WaitingStep
    DEF Generating, CloudReceives

\* The read loop only handles what the start of the stream brings.
LEMMA WaitingReads ==
    ASSUME NEW c, Command = {c}, Waiting(c), Waiting(c)', ReadLoop
    PROVE  HandleHelloAccepted \/ HelloAcceptedDone \/ IgnoreDuplicate(c)
  BY DEF Waiting, ReadLoop, Marking, MarkResent, AcceptCommand, Executing, StartHandler,
         RejectUnregistered, ContainerMakerActs, HandlerSucceeds, HandlerFails, Reporting,
         ReportSucceeds, ReportFails

-----------------------------------------------------------------------------
(* Every command is reported: from stage to stage *)

\* From some point on nothing crashes and nothing raises.
FaultsEnd == <>[][UNCHANGED <<crashes, faults>>]_vars

\* What a fair life is from that point on, and while c waits for ever.
Quiet(c) ==
    /\ [](LiveInv(c) /\ NeverStuck) /\ [][QuietNext]_vars
    /\ WF_vars(Connect) /\ WF_vars(StreamEnds) /\ WF_vars(Generating)
    /\ WF_vars(ReadLoop) /\ WF_vars(CloudReceives) /\ WF_vars(Settled /\ Drop)
    /\ SF_vars(CloudSends(c)) /\ SF_vars(AcceptCommand(c))

WaitsForEver(c) == Quiet(c) /\ []Waiting(c)

\* The stages a stream passes through.
Closed == stream = "closed"
Fresh == stream = "open" /\ generator = "start"
Unanswered == stream = "open" /\ generator # "start" /\ ~ greeted
Hailed(c) ==
    /\ stream # "closed" /\ reader = "idle"
    /\ inbound \in {<<HelloAccepted>>, <<HelloAccepted, ExecuteCommand(c)>>}
Marks == stream # "closed" /\ reader = "marking"
PastHello(c) == reader = "idle" /\ inbound \in {<<>>, <<ExecuteCommand(c)>>}
Ready(c) == stream = "open" /\ greeted /\ PastHello(c)
Broken(c) == stream = "broken" /\ PastHello(c)
Up == stream = "open" /\ greeted

\* A stream that c waits on is always at one of them.
LEMMA StagesCover ==
    ASSUME NEW c, LiveInv(c), Waiting(c)
    PROVE  \/ Closed \/ Fresh \/ Unanswered \/ Hailed(c) \/ Marks \/ Ready(c) \/ Broken(c)
  BY DEF LiveInv, IInv, TypeOK, DownInv, Waiting, Closed, Fresh, Unanswered, Hailed, Marks,
         PastHello, Ready, Broken

\* Each stage is left for the next one: the stream is made, greets, is
\* answered and the answer is handled.
LEMMA StreamStarts ==
    ASSUME NEW c, Command = {c}
    PROVE  WaitsForEver(c) =>
             /\ Closed ~> Fresh
             /\ Fresh ~> Unanswered
             /\ Unanswered ~> Up /\ Hailed(c)
             /\ Hailed(c) ~> Marks
             /\ Marks ~> Ready(c) \/ Broken(c)
  <1>. DEFINE Inv == LiveInv(c) /\ Waiting(c)
              Step == Inv /\ Waiting(c)' /\ [QuietNext]_vars
  <1>. USE DEF Closed, Fresh, Unanswered, Hailed, Marks, Ready, Broken, PastHello, Up
  <1>0. ASSUME Step
        PROVE  StreamMoves(c) /\ TypeOK /\ ControlInv /\ UpInv /\ DownInv(c) /\ Waiting(c)
    BY <1>0, WaitingMoves DEF LiveInv, IInv
  <1>1. Step /\ Closed => (Closed \/ Fresh)'
    BY <1>0 DEF StreamMoves, UpInv, DownInv, ControlInv, Settled
  <1>2. Closed /\ <<Connect>>_vars => Fresh'
    BY DEF Connect
  <1>3. Closed /\ NeverStuck => ENABLED <<Connect>>_vars
    BY DEF NeverStuck
  <1>4. Step /\ Fresh => (Fresh \/ Unanswered)'
    BY <1>0 DEF StreamMoves, UpInv, DownInv, Settled
  <1>5. Inv /\ Fresh /\ <<Generating>>_vars => Unanswered'
    BY DEF LiveInv, IInv, ControlInv, UpInv, Generating, WriteHello, CollectUnreported,
           WriteResend, WriteQueued
  <1>6. Inv /\ Fresh /\ NeverStuck => ENABLED <<Generating>>_vars
    BY DEF NeverStuck, LiveInv, UpInv, DownInv, EventLoopFree
  <1>7. Step /\ Unanswered => (Unanswered \/ (Up /\ Hailed(c)))'
    BY <1>0, DownQueue DEF StreamMoves, UpInv, DownInv, Settled
  <1>8. Inv /\ Unanswered /\ <<CloudReceives>>_vars => (Up /\ Hailed(c))'
    <2>. SUFFICES ASSUME Inv, Unanswered, CloudReceives PROVE (Up /\ Hailed(c))'
      OBVIOUS
    <2>1. wire # <<>> /\ wire[1] = Hello /\ inbound = <<>> /\ reader = "idle"
      BY DEF LiveInv, UpInv, DownInv
    <2>2. wire \in Seq(DeviceToCloud)
      BY DEF LiveInv, IInv, TypeOK
    <2>3. Head(wire) = Hello
      BY <2>1, <2>2
    <2>. QED
      BY <2>1, <2>3, DownQueue DEF CloudReceives, CloudReceivesHello, CloudReceivesMessage
  <1>9. Inv /\ Unanswered /\ NeverStuck => ENABLED <<CloudReceives>>_vars
    BY DEF NeverStuck, LiveInv, UpInv
  <1>10. Step /\ Hailed(c) => (Hailed(c) \/ Marks)'
    BY <1>0, DownQueue DEF StreamMoves, UpInv, DownInv, Settled
  <1>12. Inv /\ Waiting(c)' /\ Hailed(c) /\ <<ReadLoop>>_vars => Marks'
    BY WaitingReads, DownQueue
    DEF HandleHelloAccepted, HelloAcceptedDone, IgnoreDuplicate, Reading, Incoming
  <1>13. Hailed(c) /\ NeverStuck => ENABLED <<ReadLoop>>_vars
    BY DownQueue DEF NeverStuck
  <1>14. Step /\ Marks => (Marks \/ Ready(c) \/ Broken(c))'
    BY <1>0 DEF StreamMoves, TypeOK, DownInv, Settled
  <1>15. Inv /\ Waiting(c)' /\ Marks /\ <<ReadLoop>>_vars => (Ready(c) \/ Broken(c))'
    BY WaitingReads
    DEF LiveInv, IInv, TypeOK, DownInv, HandleHelloAccepted, HelloAcceptedDone,
        IgnoreDuplicate, Reading, Incoming
  <1>16. Marks /\ NeverStuck => ENABLED <<ReadLoop>>_vars
    BY DEF NeverStuck
  <1>. HIDE DEF Closed, Fresh, Unanswered, Hailed, Marks, Ready, Broken, PastHello, Up
  <1>17. WaitsForEver(c) => (Closed ~> Fresh)
    BY <1>1, <1>2, <1>3, PTL DEF WaitsForEver, Quiet
  <1>18. WaitsForEver(c) => (Fresh ~> Unanswered)
    BY <1>4, <1>5, <1>6, PTL DEF WaitsForEver, Quiet
  <1>19. WaitsForEver(c) => (Unanswered ~> Up /\ Hailed(c))
    BY <1>7, <1>8, <1>9, PTL DEF WaitsForEver, Quiet
  <1>20. WaitsForEver(c) => (Hailed(c) ~> Marks)
    BY <1>10, <1>12, <1>13, PTL DEF WaitsForEver, Quiet
  <1>21. WaitsForEver(c) => (Marks ~> Ready(c) \/ Broken(c))
    BY <1>14, <1>15, <1>16, PTL DEF WaitsForEver, Quiet
  <1>. QED  BY <1>17, <1>18, <1>19, <1>20, <1>21

\* The stages of a stream that stands: it collects, resends and is cut.
Collecting(c) == Ready(c) /\ generator = "greeting"
Resending(c) == Ready(c) /\ generator = "resending" /\ resends # {}
Resent(c) == Ready(c) /\ generator = "resending" /\ resends = {}
\* The stages of a broken one: what it still held is read.
Unread(c) == Broken(c) /\ inbound # <<>>
Read(c) == Broken(c) /\ inbound = <<>>

\* A stream that has started collects, resends and is cut; what it still held
\* is read, and the connection ends.
LEMMA StreamStops ==
    ASSUME NEW c, Command = {c}
    PROVE  WaitsForEver(c) => (Ready(c) \/ Broken(c) ~> Closed)
  <1>. DEFINE Inv == LiveInv(c) /\ Waiting(c)
              Step == Inv /\ Waiting(c)' /\ [QuietNext]_vars
  <1>. USE DEF Closed, Ready, Broken, PastHello, Collecting, Resending, Resent, Unread, Read
  <1>0. ASSUME Step
        PROVE  StreamMoves(c) /\ TypeOK /\ ControlInv /\ UpInv /\ DownInv(c) /\ Waiting(c)
    BY <1>0, WaitingMoves DEF LiveInv, IInv
  <1>1. Step /\ Collecting(c) => (Collecting(c) \/ Resending(c) \/ Resent(c))'
    BY <1>0, DownQueue DEF StreamMoves, Settled
  <1>2. Inv /\ Collecting(c) /\ <<Generating>>_vars => (Resending(c) \/ Resent(c))'
    BY DEF LiveInv, IInv, ControlInv, Generating, WriteHello, CollectUnreported,
           WriteResend, WriteQueued
  <1>3. Collecting(c) /\ NeverStuck => ENABLED <<Generating>>_vars
    BY DEF NeverStuck, EventLoopFree
  <1>4. Step /\ Resending(c) => (Resending(c) \/ Resent(c))'
    BY <1>0, DownQueue DEF StreamMoves, Settled
  <1>5. Inv /\ Resending(c) /\ <<Generating>>_vars => Resent(c)'
    BY DEF LiveInv, UpInv, Generating, WriteHello, CollectUnreported,
           WriteResend, WriteQueued
  <1>6. Resending(c) /\ NeverStuck => ENABLED <<Generating>>_vars
    BY DEF NeverStuck, EventLoopFree
  <1>7. Step /\ Resent(c) => (Resent(c) \/ Unread(c) \/ Read(c))'
    BY <1>0, DownQueue DEF StreamMoves
  <1>8. Step /\ Resent(c) /\ <<Settled /\ Drop>>_vars => (Unread(c) \/ Read(c))'
    BY <1>0, <1>7 DEF Drop
  <1>9. Resent(c) /\ NeverStuck => ENABLED <<Settled /\ Drop>>_vars
    <2>. SUFFICES ASSUME Resent(c), NeverStuck PROVE ENABLED <<Settled /\ Drop>>_vars
      OBVIOUS
    <2>1. HelloAccepted \notin Range(inbound)
      BY DownQueue, RangeOfEmpty
    <2>2. stream = "open" /\ Settled
      BY <2>1 DEF Settled
    <2>. QED  BY <2>2 DEF NeverStuck
  <1>10. Step /\ Unread(c) => (Unread(c) \/ Read(c))'
    BY <1>0, DownQueue DEF StreamMoves, Settled
  <1>12. Inv /\ Waiting(c)' /\ Unread(c) /\ <<ReadLoop>>_vars => Read(c)'
    BY WaitingReads, DownQueue
    DEF HandleHelloAccepted, HelloAcceptedDone, IgnoreDuplicate, Reading, Incoming
  <1>13. Unread(c) /\ NeverStuck => ENABLED <<ReadLoop>>_vars
    BY DEF NeverStuck
  <1>14. Step /\ Read(c) => (Read(c) \/ Closed)'
    BY <1>0, DownQueue DEF StreamMoves, Settled
  <1>15. Read(c) /\ <<StreamEnds>>_vars => Closed'
    BY DEF StreamEnds, ConnectionEnds
  <1>16. Read(c) /\ NeverStuck => ENABLED <<StreamEnds>>_vars
    BY DEF NeverStuck
  <1>17. Inv /\ Ready(c) => Collecting(c) \/ Resending(c) \/ Resent(c)
    BY DEF LiveInv, IInv, TypeOK, UpInv
  <1>18. Broken(c) => Unread(c) \/ Read(c)
    OBVIOUS
  <1>. HIDE DEF Closed, Ready, Broken, PastHello, Collecting, Resending, Resent, Unread, Read
  <1>19. WaitsForEver(c) => (Collecting(c) ~> Resending(c) \/ Resent(c))
    BY <1>1, <1>2, <1>3, PTL DEF WaitsForEver, Quiet
  <1>20. WaitsForEver(c) => (Resending(c) ~> Resent(c))
    BY <1>4, <1>5, <1>6, PTL DEF WaitsForEver, Quiet
  <1>21. WaitsForEver(c) => (Resent(c) ~> Unread(c) \/ Read(c))
    BY <1>7, <1>8, <1>9, PTL DEF WaitsForEver, Quiet
  <1>22. WaitsForEver(c) => (Unread(c) ~> Read(c))
    BY <1>10, <1>12, <1>13, PTL DEF WaitsForEver, Quiet
  <1>23. WaitsForEver(c) => (Read(c) ~> Closed)
    BY <1>14, <1>15, <1>16, PTL DEF WaitsForEver, Quiet
  <1>24. WaitsForEver(c) => [](Ready(c) => Collecting(c) \/ Resending(c) \/ Resent(c))
    BY <1>17, PTL DEF WaitsForEver, Quiet
  <1>. QED  BY <1>18, <1>19, <1>20, <1>21, <1>22, <1>23, <1>24, PTL

\* While c waits for ever, streams come and go for ever.
LEMMA StreamsComeAndGo ==
    ASSUME NEW c, Command = {c}
    PROVE  WaitsForEver(c) => []<>Closed /\ []<>Fresh /\ []<>Up /\ []<>Marks
  <1>1. LiveInv(c) /\ Waiting(c) =>
          \/ Closed \/ Fresh \/ Unanswered \/ Hailed(c) \/ Marks \/ Ready(c) \/ Broken(c)
    BY StagesCover
  <1>2. WaitsForEver(c) =>
          [](\/ Closed \/ Fresh \/ Unanswered \/ Hailed(c) \/ Marks \/ Ready(c) \/ Broken(c))
    BY <1>1, PTL DEF WaitsForEver, Quiet
  <1>3. WaitsForEver(c) => []WaitsForEver(c)
    BY PTL DEF WaitsForEver, Quiet
  <1>. QED  BY <1>2, <1>3, StreamStarts, StreamStops, PTL

-----------------------------------------------------------------------------
(* Every command is reported: nothing waits for ever *)

\* A result is not left waiting for ever: a stream collects it at its start,
\* and the next hello_accepted finds it among those to be marked.
LEMMA ResultIsNotLeft ==
    ASSUME NEW c, Command = {c}
    PROVE  WaitsForEver(c) => ~ []HasTerminalResult(c)
  <1>. DEFINE Inv == LiveInv(c) /\ Waiting(c) /\ HasTerminalResult(c)
              Collected == c \in pending_resend_ids
              Young == stream = "open" /\ generator \in {"start", "greeting"}
  <1>1. Waiting(c) => ~ (Marks /\ Collected)
    BY DEF Waiting, Marks
  <1>2. Inv /\ Waiting(c)' /\ [QuietNext]_vars /\ Collected => Collected'
    <2>. SUFFICES ASSUME Inv, Waiting(c)', [QuietNext]_vars, Collected PROVE Collected'
      OBVIOUS
    <2>1. c \in UnreportedTerminalEntries /\ reader # "marking"
      BY DEF Waiting, Owed, HasTerminalResult, UnreportedTerminalEntries
    <2>. QED
      BY <2>1, WaitingStep
      DEF Connect, StreamEnds, Generating, WriteHello, CollectUnreported,
          WriteResend, WriteQueued, HandleHelloAccepted, HelloAcceptedDone,
          IgnoreDuplicate, CloudReceives, CloudReceivesHello, CloudReceivesMessage,
          CloudSends, Drop, vars, upstream
  <1>3. Inv /\ Waiting(c)' /\ [QuietNext]_vars /\ Young => (Young \/ Collected)'
    <2>1. Inv => c \in UnreportedTerminalEntries
      BY DEF Waiting, Owed, HasTerminalResult, UnreportedTerminalEntries
    <2>. QED  BY <2>1, WaitingMoves DEF StreamMoves, Settled
  <1>4. (Fresh => Young) /\ ~ (Young /\ Closed)
    BY DEF Fresh, Closed
  <1>. HIDE DEF Collected, Young
  <1>. QED  BY <1>1, <1>2, <1>3, <1>4, StreamsComeAndGo, PTL DEF WaitsForEver, Quiet

\* Cloud has no result of a command the journal has none of.
LEMMA OnlyResultsAnswer ==
    ASSUME NEW c, TypeOK, AnswersAgree, Answered(c)
    PROVE  HasTerminalResult(c)
  <1>1. PICK m \in received : m.command_id = c
    BY DEF Answered
  <1>2. m.status \in Terminal
    BY DEF TypeOK, ResultMessage
  <1>. QED  BY <1>1, <1>2 DEF AnswersAgree, HasTerminalResult, Terminal

\* Nor is a command that has no result: Cloud sends it again, and in the end
\* it is read and accepted.
LEMMA CommandIsNotLeft ==
    ASSUME NEW c, Command = {c}
    PROVE  WaitsForEver(c) => ~ []~ HasTerminalResult(c)
  <1>. DEFINE Inv == LiveInv(c) /\ Waiting(c) /\ ~ HasTerminalResult(c)
              Step == Inv /\ Waiting(c)' /\ [QuietNext]_vars
              Sent == ExecuteCommand(c) \in Range(inbound)
              AtHand == Incoming(ExecuteCommand(c))
              HailedSent == Hailed(c) /\ Sent
              MarksSent == Marks /\ Sent
  <1>. USE DEF Up, Hailed, Marks
  <1>0. ASSUME Inv
        PROVE  /\ Sent <=> inbound \in {<<ExecuteCommand(c)>>,
                                        <<HelloAccepted, ExecuteCommand(c)>>}
               /\ DownInv(c) /\ UpInv /\ TypeOK /\ ~ Answered(c)
    BY <1>0, DownQueue, RangeOfEmpty, OnlyResultsAnswer DEF LiveInv, IInv, DownInv
  <1>1. Waiting(c)' => ~ <<AcceptCommand(c)>>_vars
    BY DEF Waiting, AcceptCommand
  <1>2. Inv /\ AtHand /\ NeverStuck => ENABLED <<AcceptCommand(c)>>_vars
    BY DEF NeverStuck
  <1>3. Inv /\ Up /\ ~ Sent /\ NeverStuck => ENABLED <<CloudSends(c)>>_vars
    BY <1>0 DEF NeverStuck
  <1>4. Inv /\ <<CloudSends(c)>>_vars => (Up /\ Sent)'
    BY RangeOfAppend, MessageTypes DEF CloudSends, LiveInv, IInv, TypeOK
  <1>5. Inv /\ Up /\ Sent => AtHand \/ HailedSent \/ MarksSent
    BY <1>0, DownQueue DEF Waiting, DownInv, Incoming
  <1>18. inbound' \in {<<ExecuteCommand(c)>>, <<HelloAccepted, ExecuteCommand(c)>>} => Sent'
    BY DownQueue
  <1>19. Inv /\ HailedSent => inbound = <<HelloAccepted, ExecuteCommand(c)>>
    BY <1>0, DownQueue
  <1>6. Step /\ HailedSent => (HailedSent \/ MarksSent)'
    <2>. SUFFICES ASSUME Step, HailedSent PROVE (HailedSent \/ MarksSent)'
      OBVIOUS
    <2>1. StreamMoves(c)
      BY WaitingMoves
    <2>2. inbound = <<HelloAccepted, ExecuteCommand(c)>> /\ ~ Settled
      BY <1>19, DownQueue DEF Settled
    <2>3. \/ inbound' = inbound /\ stream' # "closed" /\ reader' = "idle"
          \/ /\ inbound' = <<ExecuteCommand(c)>> /\ stream' # "closed"
             /\ reader' = "marking"
      <3>1. /\ inbound # <<>> /\ inbound # <<HelloAccepted>>
            /\ inbound # <<ExecuteCommand(c)>> /\ greeted
        BY <1>0, <2>2, DownQueue DEF DownInv
      <3>. QED  BY <2>1, <2>2, <3>1 DEF StreamMoves
    <2>. QED  BY <1>18, <2>2, <2>3
  <1>7. ASSUME Inv, Waiting(c)', ReadLoop
         PROVE  HandleHelloAccepted \/ HelloAcceptedDone
    BY <1>7, WaitingReads DEF IgnoreDuplicate
  <1>8. Inv /\ Waiting(c)' /\ HailedSent /\ <<ReadLoop>>_vars => MarksSent'
    BY <1>7, <1>18, <1>19, DownQueue
    DEF HandleHelloAccepted, HelloAcceptedDone, Reading, Incoming
  <1>9. HailedSent /\ NeverStuck => ENABLED <<ReadLoop>>_vars
    BY DownQueue DEF NeverStuck
  <1>10. Step /\ MarksSent => (MarksSent \/ AtHand)'
    BY <1>0, WaitingMoves, DownQueue DEF StreamMoves, Settled, Incoming, DownInv
  <1>11. Inv /\ Waiting(c)' /\ MarksSent /\ <<ReadLoop>>_vars => AtHand'
    BY <1>0, <1>7, DownQueue
    DEF HandleHelloAccepted, HelloAcceptedDone, Reading, Incoming, DownInv
  <1>12. MarksSent /\ NeverStuck => ENABLED <<ReadLoop>>_vars
    BY DEF NeverStuck
  <1>. DEFINE Left == WaitsForEver(c) /\ []~ HasTerminalResult(c)
  <1>. HIDE DEF Sent, AtHand, HailedSent, MarksSent, Up
  <1>13. Left => (HailedSent ~> MarksSent)
    BY <1>6, <1>8, <1>9, PTL DEF WaitsForEver, Quiet
  <1>14. Left => (MarksSent ~> AtHand)
    BY <1>10, <1>11, <1>12, PTL DEF WaitsForEver, Quiet
  <1>15. Left => (Up /\ Sent ~> AtHand)
    BY <1>5, <1>13, <1>14, PTL DEF WaitsForEver, Quiet
  <1>16. Left => ([]<>Up => []<>(Up /\ Sent))
    BY <1>3, <1>4, PTL DEF WaitsForEver, Quiet
  <1>17. Left => <>[]~ AtHand
    BY <1>1, <1>2, PTL DEF WaitsForEver, Quiet
  <1>. QED  BY <1>15, <1>16, <1>17, StreamsComeAndGo, PTL

Reports == reader \in {"reporting", "posted"}
Rests == reader \in {"idle", "marking"}

\* Outside its idle moments only the read loop itself, and Cloud's taking of
\* a report, move the reader.
LEMMA ReaderMoves ==
    ASSUME TypeOK, [QuietNext]_vars, reader # "idle"
    PROVE  reader' = reader \/ ReadLoop \/ CloudTakesReport
  <1>1. CASE UNCHANGED vars
    BY <1>1 DEF vars
  <1>2. CASE QuietNext
    <2>1. ~ Raising /\ ~ Crash
      BY <1>2, QuietSteps
    <2>. QED
      BY <1>2, <2>1
      DEF QuietNext, Next, Connect, StreamEnds, Generating, WriteHello,
          CollectUnreported, WriteResend, WriteQueued, Cloud, CloudReceives,
          CloudReceivesHello, CloudReceivesMessage, CloudSends, Drop
  <1>. QED  BY <1>1, <1>2

\* Where the read loop goes from where it stands.
LEMMA ReaderGoesOn ==
    ASSUME ReadLoop
    PROVE  /\ reader = "marking" => reader' \in {"marking", "idle"}
           /\ reader = "accepted" => reader' \in {"running", "reporting"}
           /\ reader = "running" => reader' \in {"effected", "reporting"}
           /\ reader = "effected" => reader' = "reporting"
           /\ reader \in {"reporting", "posted"} => reader' = "idle"
  BY DEF ReadLoop, HandleHelloAccepted, Reading, Incoming, IgnoreDuplicate,
         AcceptCommand, Marking, MarkResent, HelloAcceptedDone, Executing,
         StartHandler, RejectUnregistered, Finish, ContainerMakerActs, HandlerSucceeds,
         HandlerFails, Reporting, ReportSucceeds, ReportFails

\* A command that is never marked reported is put down in the end: its
\* handler ends, its report ends, and no hello_accepted marks it.
LEMMA ComesToRest ==
    ASSUME NEW c, Command = {c}
    PROVE  Quiet(c) /\ []Owed(c) => <>[]Waiting(c)
  <1>. DEFINE Inv == LiveInv(c) /\ Owed(c)
              Step == Inv /\ Owed(c)' /\ [QuietNext]_vars
              Term == HasTerminalResult(c)
              Accepted == reader = "accepted"
              Running == reader = "running"
              Effected == reader = "effected"
              Marked == reader = "marking" /\ c \in pending_resend_ids
  <1>. USE DEF Reports, Rests
  <1>0. ASSUME Inv
        PROVE  /\ TypeOK /\ ControlInv /\ UpInv /\ DownInv(c) /\ JournalTypeOK
               /\ reader \in Busy => current = c
               /\ reader # "idle" => stream # "closed"
    BY <1>0 DEF LiveInv, IInv, TypeOK, ControlInv, UpInv, DownInv
  <1>1. Inv /\ reader # "idle" /\ NeverStuck => ENABLED <<ReadLoop>>_vars
    BY <1>0 DEF NeverStuck
  <1>2. Inv /\ Reports => Term
    BY <1>0 DEF ControlInv, Busy
  <1>3. Step /\ Term => Term'
    BY <1>0, JournalStep DEF RowStep, QuietNext
  <1>4. /\ Accepted /\ ReadLoop => (Running \/ Reports)'
        /\ Running /\ ReadLoop => (Effected \/ Reports)'
        /\ Effected /\ ReadLoop => Reports'
        /\ Reports /\ ReadLoop => Rests'
    BY ReaderGoesOn
  <1>8. Step => \/ reader' = reader \/ reader = "idle" \/ ReadLoop
                \/ (Reports /\ Reports')
    BY <1>0, ReaderMoves DEF CloudTakesReport
  <1>9. /\ Step /\ Accepted => (Accepted \/ Running \/ Reports)'
        /\ Step /\ Running => (Running \/ Effected \/ Reports)'
        /\ Step /\ Effected => (Effected \/ Reports)'
        /\ Step /\ Reports => (Reports \/ Rests)'
    BY <1>4, <1>8
  <1>10. Step /\ Term /\ Rests => Rests'
    <2>. SUFFICES ASSUME Step, Term, Rests PROVE Rests'
      OBVIOUS
    <2>1. CASE UNCHANGED vars
      BY <2>1 DEF vars
    <2>2. CASE QuietNext
      <3>1. ~ Raising /\ ~ Crash
        BY <1>0, <2>2, QuietSteps
      <3>. QED
        BY <2>2, <3>1
        DEF QuietNext, Next, Connect, StreamEnds, ConnectionEnds, Generating, WriteHello,
            CollectUnreported, WriteResend, WriteQueued, ReadLoop, HandleHelloAccepted,
            IgnoreDuplicate, AcceptCommand, Marking, MarkResent, HelloAcceptedDone,
            Executing, StartHandler, RejectUnregistered, ContainerMakerActs,
            HandlerSucceeds, HandlerFails, Reporting, ReportSucceeds, ReportFails, Cloud,
            CloudReceives, CloudReceivesHello, CloudReceivesMessage, CloudTakesReport,
            CloudSends, Drop
    <2>. QED  BY <2>1, <2>2
  <1>11. Step /\ Marked => Marked' /\ ~ ReadLoop
    <2>. SUFFICES ASSUME Step, Marked PROVE Marked' /\ ~ ReadLoop
      OBVIOUS
    <2>1. ASSUME MarkResent(c) PROVE FALSE
      <3>1. HasSeen(c) /\ MarkReported(c)
        BY <2>1 DEF Owed, MarkResent
      <3>2. journal'[c].reported_to_cloud
        BY <1>0, <3>1, MarkReportedRow
      <3>. QED  BY <3>2 DEF Owed
    <2>2. ~ ReadLoop
      BY <2>1
      DEF Owed, ReadLoop, HandleHelloAccepted, Reading, Incoming, IgnoreDuplicate,
          AcceptCommand, Marking, HelloAcceptedDone, Executing, StartHandler,
          RejectUnregistered, ContainerMakerActs, HandlerSucceeds, HandlerFails,
          Reporting, ReportSucceeds, ReportFails
    <2>3. CASE UNCHANGED vars
      BY <2>2, <2>3 DEF vars, upstream
    <2>4. CASE QuietNext
      <3>1. ~ Raising /\ ~ Crash
        BY <1>0, <2>4, QuietSteps
      <3>. QED
        BY <2>2, <2>4, <3>1
        DEF QuietNext, Next, Connect, StreamEnds, Generating, WriteHello,
            CollectUnreported, EventLoopFree, WriteResend, WriteQueued, Cloud,
            CloudReceives, CloudReceivesHello, CloudReceivesMessage, CloudTakesReport,
            CloudSends, Drop, upstream
    <2>. QED  BY <2>3, <2>4
  <1>12. Inv => Rests \/ Accepted \/ Running \/ Effected \/ Reports
    BY <1>0 DEF TypeOK
  <1>13. Waiting(c) <=> Owed(c) /\ Rests /\ ~ Marked
    BY DEF Waiting
  <1>. DEFINE Due == Quiet(c) /\ []Owed(c)
  <1>14. /\ Accepted => reader # "idle"
         /\ Running => reader # "idle"
         /\ Effected => reader # "idle"
         /\ Reports => reader # "idle"
         /\ Marked => reader # "idle"
    OBVIOUS
  <1>. HIDE DEF Term, Accepted, Running, Effected, Reports, Rests, Marked
  <1>15. Due => (Accepted ~> Running \/ Reports)
    BY <1>1, <1>4, <1>9, <1>14, PTL DEF Quiet
  <1>16. Due => (Running ~> Effected \/ Reports)
    BY <1>1, <1>4, <1>9, <1>14, PTL DEF Quiet
  <1>17. Due => (Effected ~> Reports)
    BY <1>1, <1>4, <1>9, <1>14, PTL DEF Quiet
  <1>18. Due => (Reports ~> Rests)
    BY <1>1, <1>4, <1>9, <1>14, PTL DEF Quiet
  <1>19. Due => []~ Marked
    BY <1>1, <1>11, <1>14, PTL DEF Quiet
  <1>20. Due => []Due
    BY PTL DEF Quiet
  <1>21. Due => <>[]Rests
    <2>1. Due => [](Reports => Term) /\ []<>Rests
      BY <1>2, <1>12, <1>15, <1>16, <1>17, <1>18, PTL DEF Quiet
    <2>2. Due /\ <>Term => <>[]Rests
      BY <1>3, <1>10, <2>1, PTL DEF Quiet
    <2>3. Due /\ []~ Term => []Rests
      BY <1>12, <1>15, <1>16, <1>17, <2>1, PTL DEF Quiet
    <2>. QED  BY <2>2, <2>3, PTL
  <1>. QED  BY <1>13, <1>19, <1>21, PTL

\* A fair life quiets down.
LEMMA FairLifeQuiets ==
    ASSUME NEW c, Command = {c}
    PROVE  FairSpec /\ []NeverStuck /\ FaultsEnd => <>Quiet(c)
  <1>1. Init => UpInv /\ DownInv(c)
    <2>1. Len(<<>>) = 0 /\ \A i \in 1..0 : FALSE
      OBVIOUS
    <2>. QED  BY <2>1 DEF Init, UpInv, DownInv
  <1>2. IInv /\ UpInv /\ DownInv(c) /\ [Next]_vars => UpInv' /\ DownInv(c)'
    BY UpStep, DownStep DEF IInv
  <1>3. Spec => [](UpInv /\ DownInv(c))
    BY <1>1, <1>2, Invariance, PTL DEF Spec
  <1>4. Spec => []LiveInv(c)
    BY <1>3, Invariance, OneAnswer, PTL DEF LiveInv
  <1>5. /\ [Next]_vars /\ [UNCHANGED <<crashes, faults>>]_vars /\ [Drop => Settled]_vars
        => [QuietNext]_vars
    BY DEF QuietNext
  <1>6. FairSpec /\ FaultsEnd => <>[][QuietNext]_vars
    BY <1>5, PTL DEF FairSpec, Spec, Fairness, FaultsEnd
  <1>7. Redeliveries => Redelivery(c)
    BY DEF Redeliveries
  <1>8. Redelivery(c) => SF_vars(CloudSends(c)) /\ SF_vars(AcceptCommand(c))
    BY PTL DEF Redelivery
  <1>. DEFINE Fair == /\ WF_vars(Connect) /\ WF_vars(StreamEnds) /\ WF_vars(Generating)
                      /\ WF_vars(ReadLoop) /\ WF_vars(CloudReceives)
                      /\ WF_vars(Settled /\ Drop)
                      /\ SF_vars(CloudSends(c)) /\ SF_vars(AcceptCommand(c))
              Right == [](LiveInv(c) /\ NeverStuck)
              Calm == [][QuietNext]_vars
  <1>9. FairSpec => Fair
    BY <1>7, <1>8, PTL DEF FairSpec, Fairness
  <1>10. FairSpec /\ []NeverStuck => Right
    BY <1>4, PTL DEF FairSpec
  <1>11. Fair => []Fair
    BY PTL
  <1>12. Right => []Right
    BY PTL
  <1>13. Fair /\ Right /\ Calm => Quiet(c)
    BY PTL DEF Quiet
  <1>14. FairSpec /\ FaultsEnd => <>Calm
    BY <1>6
  <1>. HIDE DEF Fair, Right, Calm
  <1>. QED  BY <1>9, <1>10, <1>11, <1>12, <1>13, <1>14, PTL

\* With one command, as in the run: once it is accepted it is reported in the
\* end, whatever its operation, its generation and the numbers of crashes and
\* exceptions, if these come to an end (the bounds of the model make them).
THEOREM EveryCommandIsReported ==
    ASSUME \A c, d \in Command : c = d
    PROVE  FairSpec /\ []NeverStuck /\ FaultsEnd => EventuallyReported
  <1>. SUFFICES ASSUME NEW c \in Command
                PROVE  FairSpec /\ []NeverStuck /\ FaultsEnd =>
                         (HasSeen(c) ~> journal[c].reported_to_cloud)
    BY DEF EventuallyReported
  <1>1. Command = {c}
    OBVIOUS
  <1>2. FairSpec /\ []NeverStuck /\ FaultsEnd => <>Quiet(c)
    BY <1>1, FairLifeQuiets
  <1>3. Quiet(c) /\ []Owed(c) => <>[]Waiting(c)
    BY <1>1, ComesToRest
  <1>4. WaitsForEver(c) => ~ []HasTerminalResult(c)
    BY <1>1, ResultIsNotLeft
  <1>5. WaitsForEver(c) => ~ []~ HasTerminalResult(c)
    BY <1>1, CommandIsNotLeft
  <1>6. IInv /\ [Next]_vars =>
          /\ HasSeen(c) => HasSeen(c)'
          /\ HasTerminalResult(c) => HasTerminalResult(c)'
    BY JournalStep DEF IInv, RowStep
  <1>7. Owed(c) <=> HasSeen(c) /\ ~ journal[c].reported_to_cloud
    BY DEF Owed
  <1>8. WaitsForEver(c) <=> Quiet(c) /\ []Waiting(c)
    BY DEF WaitsForEver
  <1>9. Quiet(c) => []Quiet(c)
    BY PTL DEF Quiet
  <1>10. FairSpec => []IInv /\ [][Next]_vars
    BY Invariance, PTL DEF FairSpec, Spec
  <1>. QED  BY <1>2, <1>3, <1>4, <1>5, <1>6, <1>7, <1>8, <1>9, <1>10, PTL
==============================================================================

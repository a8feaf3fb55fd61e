--------------------------- MODULE ControlSession ---------------------------
(***************************************************************************)
(* ConnectionManager's loop over sessions (control/grpc_client.py) and the *)
(* traffic that is not a command: run_forever with its backoff             *)
(* (control/backoff.py), one queue per session, local events put on it by  *)
(* the local API, heartbeats, and pings, which the read loop answers only  *)
(* between two handlers. What a session's queue and stream hold when it    *)
(* ends is never sent. CommandPipeline has the commands and their results. *)
(***************************************************************************)
EXTENDS Naturals, Sequences, Functions

CONSTANTS
    Schedule,      \* RECONNECT_BACKOFF_SCHEDULE_SECONDS
    Sessions,      \* bound: sessions are numbered 1..Sessions, over and over
    MaxEvents,     \* bound: events from the local API
    MaxQueue       \* bound: messages on the queue (but for pongs), wire, inbound

ASSUME ScheduleAssumption == Schedule \in Seq(Nat \ {0}) /\ Schedule # <<>>
ASSUME ScheduleGrows ==
    \A i, j \in DOMAIN Schedule : i <= j => Schedule[i] <= Schedule[j]
ASSUME BoundAssumption ==
    Sessions \in Nat \ {0, 1} /\ MaxEvents \in Nat /\ MaxQueue \in Nat

VARIABLES
    loop,         \* where run_forever stands
    attempt,      \* its attempt, saturated at the schedule's length
    delay,        \* the seconds it sleeps, in tenths
    stopped,      \* _stopped
    session,      \* the number of the latest session, 0 before the first
    broken,       \* the stream has ended, the read loop has not seen it yet
    busy,         \* the read loop awaits a handler
    outbound,     \* _outbound, from the first session on
    wire,         \* yielded to grpc, not yet read by Cloud
    inbound,      \* sent by Cloud, not yet read
    events,       \* events acknowledged to the local API's callers
    last,         \* history: the latest event Cloud has read
    unclean       \* history: connections made since a clean end, saturated

connection == <<loop, attempt, delay, stopped, session, unclean>>
vars == <<connection, broken, busy, outbound, wire, inbound, events, last>>

Event(n) == [kind |-> "event", n |-> n]
Heartbeat(s) == [kind |-> "heartbeat", n |-> s]
Ping(s) == [kind |-> "ping", n |-> s]
Pong(s) == [kind |-> "pong", n |-> s]
ExecuteCommand == [kind |-> "execute_command", n |-> 0]

Message == [kind: {"event", "heartbeat", "pong"}, n: Nat]

TypeOK ==
    /\ loop \in {"unstarted", "connecting", "session", "sleeping", "ended",
                "cancelled"}
    /\ attempt \in 0..Len(Schedule)
    /\ delay \in Nat
    /\ stopped \in BOOLEAN
    /\ session \in 0..Sessions
    /\ broken \in BOOLEAN /\ busy \in BOOLEAN
    /\ outbound \in Seq(Message)
    /\ wire \in Seq(Message)
    /\ inbound \in Seq([kind: {"ping", "execute_command"}, n: Nat])
    /\ events \in 0..MaxEvents
    /\ last \in Nat
    /\ unclean \in 0..Len(Schedule)

Init ==
    /\ loop = "unstarted"
    /\ attempt = 0
    /\ delay = 0
    /\ stopped = FALSE
    /\ session = 0
    /\ broken = FALSE
    /\ busy = FALSE
    /\ outbound = <<>>
    /\ wire = <<>>
    /\ inbound = <<>>
    /\ events = 0
    /\ last = 0
    /\ unclean = 0

-----------------------------------------------------------------------------
(* run_forever, stop and backoff_seconds *)

AtMost(n, bound) == IF n < bound THEN n ELSE bound

BaseDelay(a) == Schedule[AtMost(a, Len(Schedule) - 1) + 1]

\* The base in tenths of a second, and up to a fifth of it either way.
Jittered(base) == {8 * base, 10 * base, 12 * base}

Start ==
    /\ loop = "unstarted"
    /\ loop' = "connecting"
    /\ UNCHANGED <<attempt, delay, stopped, session, unclean, broken, busy,
                   outbound, wire, inbound, events, last>>

Stop ==
    /\ ~ stopped
    /\ stopped' = TRUE
    /\ UNCHANGED <<loop, attempt, delay, session, unclean, broken, busy, outbound,
                   wire, inbound, events, last>>

\* Mutant: one queue for the life of the process.
ConnectOnOldQueue ==
    /\ loop = "connecting" /\ ~ stopped
    /\ loop' = "session"
    /\ session' = (session % Sessions) + 1
    /\ UNCHANGED <<attempt, delay, stopped, unclean, broken, busy, outbound, wire,
                   inbound, events, last>>

Connect ==
    /\ loop = "connecting" /\ ~ stopped
    /\ loop' = "session"
    /\ session' = (session % Sessions) + 1
    /\ outbound' = <<>>
    /\ UNCHANGED <<attempt, delay, stopped, unclean, broken, busy, wire, inbound,
                   events, last>>

\* The session is over: return if stopped, else sleep.
After(a) ==
    /\ attempt' = a
    /\ IF stopped
       THEN loop' = "ended" /\ UNCHANGED delay
       ELSE loop' = "sleeping" /\ delay' \in Jittered(BaseDelay(a))
    /\ broken' = FALSE
    /\ busy' = FALSE
    /\ wire' = <<>>
    /\ inbound' = <<>>
    /\ UNCHANGED <<stopped, session, outbound, events, last>>

\* The stream has ended without an error.
SessionEnds ==
    /\ loop = "session" /\ broken /\ ~ busy /\ inbound = <<>>
    /\ After(0)
    /\ unclean' = 0

\* Mutant: every session that ends resets the backoff.
SessionRaisesAndResets ==
    /\ loop = "session" /\ ((broken /\ ~ busy /\ inbound = <<>>) \/ busy)
    /\ After(0)
    /\ unclean' = AtMost(unclean + 1, Len(Schedule))

\* Mutant: an exception leaves run_forever.
SessionRaisesAndQuits ==
    /\ loop = "session" /\ ((broken /\ ~ busy /\ inbound = <<>>) \/ busy)
    /\ loop' = "ended"
    /\ UNCHANGED <<attempt, delay, stopped, session, unclean, broken, busy,
                   outbound, wire, inbound, events, last>>

\* The stream has ended with an error (refused connections included), or an
\* exception came out of a handler: logged, and the attempt is kept.
SessionRaises ==
    /\ loop = "session" /\ ((broken /\ ~ busy /\ inbound = <<>>) \/ busy)
    /\ After(attempt)
    /\ unclean' = AtMost(unclean + 1, Len(Schedule))

Wake ==
    /\ loop = "sleeping"
    /\ attempt' = AtMost(attempt + 1, Len(Schedule))
    /\ loop' = IF stopped THEN "ended" ELSE "connecting"
    /\ UNCHANGED <<delay, stopped, session, unclean, broken, busy, outbound, wire,
                   inbound, events, last>>

StopBeforeConnecting ==
    /\ loop = "connecting" /\ stopped
    /\ loop' = "ended"
    /\ UNCHANGED <<attempt, delay, stopped, session, unclean, broken, busy,
                   outbound, wire, inbound, events, last>>

\* The task is cancelled, wherever it awaits: CancelledError is not an
\* Exception, and goes through.
Cancel ==
    /\ loop \in {"session", "sleeping"}
    /\ loop' = "cancelled"
    /\ broken' = FALSE
    /\ busy' = FALSE
    /\ wire' = <<>>
    /\ inbound' = <<>>
    /\ UNCHANGED <<attempt, delay, stopped, session, unclean, outbound, events, last>>

-----------------------------------------------------------------------------
(* The queue: _send, outbound_gen and the heartbeat loop *)

\* Mutant: the newest message first.
SendFirst(m) == outbound' = <<m>> \o outbound

\* Before the first session there is no queue, and the message is dropped.
Send(m) == outbound' = IF session = 0 THEN outbound ELSE Append(outbound, m)

\* ReportContainerStatus, ReportSnapshotProgress and ReportTunnel, answered
\* with an Ack whether or not a session is there to send what they queue.
LocalEvent ==
    /\ events < MaxEvents
    /\ Len(outbound) < MaxQueue
    /\ events' = events + 1
    /\ Send(Event(events + 1))
    /\ UNCHANGED <<connection, broken, busy, wire, inbound, last>>

\* One heartbeat at a time is on the queue (bound).
Beat ==
    /\ loop = "session"
    /\ Len(outbound) < MaxQueue
    /\ Heartbeat(session) \notin Range(outbound)
    /\ Send(Heartbeat(session))
    /\ UNCHANGED <<connection, broken, busy, wire, inbound, events, last>>

Yield ==
    /\ loop = "session" /\ ~ broken
    /\ outbound # <<>> /\ Len(wire) < MaxQueue
    /\ wire' = Append(wire, Head(outbound))
    /\ outbound' = Tail(outbound)
    /\ UNCHANGED <<connection, broken, busy, inbound, events, last>>

-----------------------------------------------------------------------------
(* The read loop *)

Reading(m) ==
    /\ loop = "session" /\ ~ busy
    /\ inbound # <<>>
    /\ Head(inbound) = m
    /\ inbound' = Tail(inbound)

\* Mutant: a ping is read and not answered.
ReadPingOnly ==
    /\ \E s \in 1..Sessions : Reading(Ping(s))
    /\ UNCHANGED <<connection, broken, busy, outbound, wire, events, last>>

\* Mutant: the ping itself goes back.
EchoPing ==
    /\ \E s \in 1..Sessions : Reading(Ping(s)) /\ Send(Ping(s))
    /\ UNCHANGED <<connection, broken, busy, wire, events, last>>

AnswerPing ==
    /\ \E s \in 1..Sessions : Reading(Ping(s)) /\ Send(Pong(s))
    /\ UNCHANGED <<connection, broken, busy, wire, events, last>>

\* Nothing else is read until its handler is done.
BeginCommand ==
    /\ Reading(ExecuteCommand)
    /\ busy' = TRUE
    /\ UNCHANGED <<connection, broken, outbound, wire, events, last>>

HandlerDone ==
    /\ busy
    /\ busy' = FALSE
    /\ UNCHANGED <<connection, broken, outbound, wire, inbound, events, last>>

-----------------------------------------------------------------------------
(* Cloud and the network *)

CloudReads ==
    /\ loop = "session" /\ ~ broken
    /\ wire # <<>>
    /\ wire' = Tail(wire)
    /\ last' = IF Head(wire).kind = "event" THEN Head(wire).n ELSE last
    /\ UNCHANGED <<connection, broken, busy, outbound, inbound, events>>

\* One ping at a time is outstanding (bound), so pongs need no bound.
CloudPings ==
    /\ loop = "session" /\ ~ broken
    /\ Len(inbound) < MaxQueue
    /\ {Ping(session), Pong(session)} \cap Range(inbound \o outbound \o wire) = {}
    /\ inbound' = Append(inbound, Ping(session))
    /\ UNCHANGED <<connection, broken, busy, outbound, wire, events, last>>

CloudSendsCommand ==
    /\ loop = "session" /\ ~ broken
    /\ Len(inbound) < MaxQueue
    /\ inbound' = Append(inbound, ExecuteCommand)
    /\ UNCHANGED <<connection, broken, busy, outbound, wire, events, last>>

Break ==
    /\ loop = "session" /\ ~ broken
    /\ broken' = TRUE
    /\ wire' = <<>>
    /\ UNCHANGED <<connection, busy, outbound, inbound, events, last>>

-----------------------------------------------------------------------------

RunForever ==
    Start \/ Connect \/ SessionEnds \/ SessionRaises \/ Wake \/ StopBeforeConnecting

ReadLoop == AnswerPing \/ BeginCommand \/ HandlerDone

Next ==
    \/ RunForever \/ Stop \/ Cancel
    \/ LocalEvent \/ Beat \/ Yield
    \/ ReadLoop
    \/ CloudReads \/ CloudPings \/ CloudSendsCommand \/ Break

Spec == Init /\ [][Next]_vars

-----------------------------------------------------------------------------
(* Properties *)

Waiting == outbound \o wire

\* What answers or measures one session is never sent in another: a heartbeat
\* or a pong on a stream is that stream's own (grpc_client.py:136).
FreshSession ==
    loop = "session" =>
        \A m \in Range(Waiting) : m.kind \in {"heartbeat", "pong"} => m.n = session

\* Cloud reads the local events it gets in the order they were acknowledged,
\* over all sessions: an older status never overtakes a newer one.
EventsInOrder ==
    LET queue == wire \o outbound
    IN  \A i \in {k \in DOMAIN queue : queue[k].kind = "event"} :
            /\ last < queue[i].n
            /\ \A j \in 1..(i - 1) :
                   queue[j].kind = "event" => queue[j].n < queue[i].n

\* How long the agent waits is set by how many connections in a row have not
\* ended cleanly, however long they lasted: it waits no less than that many
\* steps up the schedule, less the jitter (grpc_client.py:111-127).
BackoffGrows ==
    loop = "sleeping" /\ unclean > 0 => delay >= 8 * BaseDelay(unclean - 1)

\* No failure, of whatever session, makes the agent give up: unless it is
\* stopped or cancelled it has a session again and again (grpc_client.py:120-127).
NeverGivesUp ==
    []<>(loop \in {"session", "unstarted", "cancelled"} \/ stopped)

\* A ping Cloud has sent is answered with its session's pong, if the session
\* lasts: the handlers before it only delay it (grpc_client.py:155-156, 244).
PingAnswered ==
    Ping(session) \in Range(inbound) ~>
        Pong(session) \in Range(Waiting) \/ broken \/ loop # "session"
==============================================================================

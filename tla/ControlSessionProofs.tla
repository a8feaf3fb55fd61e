------------------------ MODULE ControlSessionProofs ------------------------
(***************************************************************************)
(* ControlSession for any schedule that grows, any number of sessions and  *)
(* any queues: its types, that a session's stream carries no other         *)
(* session's heartbeats or pongs, that local events stay in order, and     *)
(* that the wait grows with the failures in a row.                         *)
(***************************************************************************)
EXTENDS ControlSession, QueueLemmas

Inbound == [kind: {"ping", "execute_command"}, n: Nat]

\* Between sessions nothing is on a stream; what a session has read or has
\* waiting of pings, pongs and heartbeats is its own.
StreamInv ==
    /\ loop # "session" => wire = <<>> /\ inbound = <<>> /\ ~ busy
    /\ loop = "session" => session \in 1..Sessions
    /\ session = 0 => outbound = <<>>
    /\ \A m \in Range(inbound) : m.kind = "ping" => m.n = session
    /\ loop = "session" =>
          \A m \in Range(outbound) \cup Range(wire) :
              m.kind \in {"heartbeat", "pong"} => m.n = session

\* The events of a queue are in order, after l and up to e.
InOrder(q, l, e) ==
    \A i \in DOMAIN q : q[i].kind = "event" =>
        /\ l < q[i].n /\ q[i].n <= e
        /\ \A j \in 1..(i - 1) : q[j].kind = "event" => q[j].n < q[i].n

OrderInv == last <= events /\ InOrder(wire \o outbound, last, events)

\* The attempts keep up with the failures in a row.
BackoffInv ==
    /\ loop \in {"unstarted", "connecting", "session"} => attempt >= unclean
    /\ loop = "sleeping" => attempt + 1 >= unclean
    /\ BackoffGrows

IInv == TypeOK /\ StreamInv /\ OrderInv /\ BackoffInv

-----------------------------------------------------------------------------
(* Types *)

\* The messages of either direction are well typed.
LEMMA MessageTypes ==
    /\ \A n \in Nat : Event(n) \in Message /\ Heartbeat(n) \in Message
                      /\ Pong(n) \in Message /\ Ping(n) \in Inbound
    /\ ExecuteCommand \in Inbound
  BY DEF Message, Inbound, Event, Heartbeat, Pong, Ping, ExecuteCommand

\* A wait is a step of the schedule, whatever the attempt.
LEMMA BaseDelayStep ==
    ASSUME NEW a \in Nat
    PROVE  /\ BaseDelay(a) \in Nat
           /\ AtMost(a, Len(Schedule) - 1) + 1 \in DOMAIN Schedule
  <1>1. Len(Schedule) \in Nat \ {0} /\ DOMAIN Schedule = 1..Len(Schedule)
    BY ScheduleAssumption, EmptySeq
  <1>2. AtMost(a, Len(Schedule) - 1) + 1 \in 1..Len(Schedule)
    BY <1>1 DEF AtMost
  <1>. QED  BY <1>1, <1>2, ScheduleAssumption DEF BaseDelay

\* A task that has not been started is well typed.
LEMMA TypeInit == Init => TypeOK
  <1>1. 0 \in 0..Len(Schedule) /\ 0 \in 0..Sessions /\ 0 \in 0..MaxEvents
    BY BoundAssumption, ScheduleAssumption
  <1>2. ASSUME Init
        PROVE  stopped \in BOOLEAN /\ broken \in BOOLEAN /\ busy \in BOOLEAN
    BY <1>2 DEF Init
  <1>3. ASSUME Init
        PROVE  /\ outbound \in Seq(Message) /\ wire \in Seq(Message)
               /\ inbound \in Seq([kind: {"ping", "execute_command"}, n: Nat])
    BY <1>3 DEF Init
  <1>4. ASSUME Init
        PROVE  /\ attempt \in 0..Len(Schedule) /\ unclean \in 0..Len(Schedule)
               /\ session \in 0..Sessions /\ events \in 0..MaxEvents
               /\ delay \in Nat /\ last \in Nat
    BY <1>1, <1>4 DEF Init
  <1>. QED  BY <1>2, <1>3, <1>4 DEF Init, TypeOK

\* The end of a session keeps the types.
LEMMA AfterTypes ==
    ASSUME TypeOK, NEW a \in 0..Len(Schedule), After(a),
           unclean' \in 0..Len(Schedule)
    PROVE  TypeOK'
  <1>1. a \in Nat
    BY ScheduleAssumption
  <1>2. BaseDelay(a) \in Nat
    BY <1>1, BaseDelayStep
  <1>3. \A d \in Jittered(BaseDelay(a)) : d \in Nat
    BY <1>2 DEF Jittered
  <1>4. delay' \in Nat /\ loop' \in {"ended", "sleeping"} /\ attempt' = a
    BY <1>3 DEF After, TypeOK
  <1>5. /\ wire' = <<>> /\ inbound' = <<>> /\ ~ broken' /\ ~ busy'
        /\ UNCHANGED <<stopped, session, outbound, events, last>>
    BY DEF After
  <1>6. broken' \in BOOLEAN /\ busy' \in BOOLEAN
    BY DEF After
  <1>. QED  BY <1>4, <1>5, <1>6 DEF TypeOK

\* A message is well typed once it is on the queue.
LEMMA SendTypes ==
    ASSUME outbound \in Seq(Message), NEW m \in Message, Send(m)
    PROVE  outbound' \in Seq(Message)
  BY DEF Send

\* Every step of the loop, the tasks, Cloud or the network keeps the types.
LEMMA TypeStep == TypeOK /\ [Next]_vars => TypeOK'
  <1>. SUFFICES ASSUME TypeOK, [Next]_vars PROVE TypeOK'
    OBVIOUS
  <1>. USE BoundAssumption DEF TypeOK, connection
  <1>1. Len(Schedule) \in Nat \ {0} /\ (unclean + 1 \in Nat) /\ (attempt + 1 \in Nat)
    BY ScheduleAssumption, EmptySeq
  <1>2. CASE Start \/ Stop \/ StopBeforeConnecting
    BY <1>2 DEF Start, Stop, StopBeforeConnecting
  <1>16. CASE Cancel
    <2>1. broken' \in BOOLEAN /\ busy' \in BOOLEAN
      BY <1>16 DEF Cancel
    <2>. QED  BY <1>16, <2>1 DEF Cancel
  <1>17. CASE Break
    BY <1>17 DEF Break
  <1>3. CASE Connect
    <2>1. (session % Sessions) + 1 \in 0..Sessions
      OBVIOUS
    <2>. QED  BY <1>3, <2>1 DEF Connect
  <1>4. CASE SessionEnds
    <2>1. 0 \in 0..Len(Schedule)
      BY <1>1
    <2>. QED  BY <1>4, <2>1, AfterTypes DEF SessionEnds
  <1>5. CASE SessionRaises
    <2>1. AtMost(unclean + 1, Len(Schedule)) \in 0..Len(Schedule)
      BY <1>1 DEF AtMost
    <2>. QED  BY <1>5, <2>1, AfterTypes DEF SessionRaises
  <1>6. CASE Wake
    <2>1. AtMost(attempt + 1, Len(Schedule)) \in 0..Len(Schedule)
      BY <1>1 DEF AtMost
    <2>. QED  BY <1>6, <2>1 DEF Wake
  <1>7. CASE LocalEvent
    <2>1. events + 1 \in 0..MaxEvents /\ events + 1 \in Nat
      BY <1>7 DEF LocalEvent
    <2>2. outbound' \in Seq(Message)
      BY <1>7, <2>1, MessageTypes, SendTypes DEF LocalEvent
    <2>. QED  BY <1>7, <2>1, <2>2 DEF LocalEvent
  <1>8. CASE Beat
    <2>1. outbound' \in Seq(Message)
      BY <1>8, MessageTypes, SendTypes DEF Beat
    <2>. QED  BY <1>8, <2>1 DEF Beat
  <1>9. CASE Yield
    BY <1>9, RangeOfTail DEF Yield
  <1>10. CASE AnswerPing
    <2>1. PICK s \in 1..Sessions : Reading(Ping(s)) /\ Send(Pong(s))
      BY <1>10 DEF AnswerPing
    <2>2. outbound' \in Seq(Message)
      BY <2>1, MessageTypes, SendTypes
    <2>. QED  BY <1>10, <2>1, <2>2, RangeOfTail DEF AnswerPing, Reading
  <1>11. CASE BeginCommand
    <2>1. inbound' \in Seq(Inbound)
      BY <1>11, RangeOfTail DEF BeginCommand, Reading, Inbound
    <2>. QED  BY <1>11, <2>1 DEF BeginCommand, Inbound
  <1>18. CASE HandlerDone
    BY <1>18 DEF HandlerDone
  <1>12. CASE CloudReads
    <2>1. Head(wire) \in Message /\ Tail(wire) \in Seq(Message)
      BY <1>12, RangeOfTail DEF CloudReads
    <2>. QED  BY <1>12, <2>1 DEF CloudReads, Message
  <1>13. CASE CloudPings
    <2>1. Ping(session) \in Inbound
      BY MessageTypes
    <2>2. inbound' \in Seq(Inbound)
      BY <1>13, <2>1 DEF CloudPings, Inbound
    <2>. QED  BY <1>13, <2>2 DEF CloudPings, Inbound
  <1>14. CASE CloudSendsCommand
    BY <1>14, MessageTypes DEF CloudSendsCommand, Inbound
  <1>15. CASE UNCHANGED vars
    BY <1>15 DEF vars
  <1>. QED
    BY <1>2, <1>3, <1>4, <1>5, <1>6, <1>7, <1>8, <1>9, <1>10, <1>11, <1>12, <1>13,
       <1>14, <1>15, <1>16, <1>17, <1>18
    DEF Next, RunForever, ReadLoop

-----------------------------------------------------------------------------
(* The streams *)

\* A message put on the queue joins what is there, or there is no queue.
LEMMA SendRange ==
    ASSUME outbound \in Seq(Message), NEW m \in Message, Send(m)
    PROVE  /\ session = 0 => outbound' = outbound
           /\ Range(outbound') \subseteq Range(outbound) \cup {m}
  BY RangeOfAppend DEF Send

\* No step puts another session's heartbeat, ping or pong on a stream.
LEMMA StreamStep == TypeOK /\ StreamInv /\ [Next]_vars => StreamInv'
  <1>. SUFFICES ASSUME TypeOK, StreamInv, [Next]_vars PROVE StreamInv'
    OBVIOUS
  <1>1. /\ outbound \in Seq(Message) /\ wire \in Seq(Message) /\ session \in Nat
        /\ inbound \in Seq(Inbound) /\ events + 1 \in Nat
    BY BoundAssumption DEF TypeOK, Inbound
  <1>. USE DEF StreamInv, connection
  <1>2. CASE Start \/ Stop \/ StopBeforeConnecting \/ Wake \/ HandlerDone
    BY <1>2 DEF Start, Stop, StopBeforeConnecting, Wake, HandlerDone
  <1>3. CASE Connect
    <2>1. (session % Sessions) + 1 \in 1..Sessions
      BY <1>1, BoundAssumption
    <2>. QED  BY <1>3, <2>1, RangeOfEmpty DEF Connect
  <1>4. CASE SessionEnds \/ SessionRaises \/ Cancel
    <2>1. /\ loop' # "session" /\ wire' = <<>> /\ inbound' = <<>> /\ ~ busy'
          /\ UNCHANGED <<session, outbound>>
      BY <1>4 DEF SessionEnds, SessionRaises, Cancel, After
    <2>. QED  BY <2>1, RangeOfEmpty
  <1>5. ASSUME NEW m \in Message, Send(m), UNCHANGED <<connection, wire, busy>>,
               Range(inbound') \subseteq Range(inbound), loop # "session" => inbound' = <<>>,
               m.kind \in {"heartbeat", "pong"} => m.n = session
        PROVE  StreamInv'
    BY <1>1, <1>5, SendRange
  <1>6. CASE LocalEvent
    BY <1>1, <1>5, <1>6, MessageTypes DEF LocalEvent, Event
  <1>7. CASE Beat
    BY <1>1, <1>5, <1>7, MessageTypes DEF Beat, Heartbeat
  <1>8. CASE AnswerPing
    <2>1. PICK s \in 1..Sessions : Reading(Ping(s)) /\ Send(Pong(s))
      BY <1>8 DEF AnswerPing
    <2>2. Ping(s) \in Range(inbound) /\ Range(inbound') \subseteq Range(inbound)
      BY <1>1, <2>1, RangeOfTail DEF Reading
    <2>3. s = session
      BY <2>2 DEF Ping
    <2>. QED
      BY <1>1, <1>5, <1>8, <2>1, <2>2, <2>3, MessageTypes DEF AnswerPing, Pong, Reading
  <1>9. CASE Yield
    <2>1. /\ Range(outbound') \cup Range(wire') = Range(outbound) \cup Range(wire)
          /\ loop = "session" /\ session # 0
      BY <1>1, <1>9, BoundAssumption, RangeOfTail, RangeOfAppend DEF Yield
    <2>. QED  BY <1>9, <2>1 DEF Yield
  <1>10. CASE BeginCommand
    <2>1. Range(inbound') \subseteq Range(inbound) /\ loop = "session"
      BY <1>1, <1>10, RangeOfTail DEF BeginCommand, Reading
    <2>. QED  BY <1>10, <2>1 DEF BeginCommand
  <1>11. CASE CloudReads
    <2>1. Range(wire') \subseteq Range(wire) /\ loop = "session"
      BY <1>1, <1>11, RangeOfTail DEF CloudReads
    <2>. QED  BY <1>11, <2>1 DEF CloudReads
  <1>12. ASSUME NEW m \in Inbound, m.kind = "ping" => m.n = session,
                loop = "session", inbound' = Append(inbound, m),
                UNCHANGED <<connection, busy, outbound, wire>>
         PROVE  StreamInv'
    BY <1>1, <1>12, RangeOfAppend
  <1>13. CASE CloudPings
    BY <1>1, <1>12, <1>13, MessageTypes DEF CloudPings, Ping
  <1>14. CASE CloudSendsCommand
    BY <1>12, <1>14, MessageTypes DEF CloudSendsCommand, ExecuteCommand
  <1>15. CASE Break
    BY <1>15, RangeOfEmpty DEF Break
  <1>16. CASE UNCHANGED vars
    BY <1>16 DEF vars
  <1>. QED
    BY <1>2, <1>3, <1>4, <1>6, <1>7, <1>8, <1>9, <1>10, <1>11, <1>13, <1>14, <1>15,
       <1>16
    DEF Next, RunForever, ReadLoop

-----------------------------------------------------------------------------
(* The order of the events *)

\* A part of a queue is in the queue's order.
LEMMA ShiftKeepsOrder ==
    ASSUME NEW q \in Seq(Message), NEW r \in Seq(Message), NEW d \in Nat,
           NEW l \in Nat, NEW e \in Nat, InOrder(q, l, e),
           Len(r) + d <= Len(q), \A i \in 1..Len(r) : r[i] = q[i + d]
    PROVE  InOrder(r, l, e)
  <1>1. DOMAIN q = 1..Len(q) /\ DOMAIN r = 1..Len(r) /\ Len(q) \in Nat /\ Len(r) \in Nat
    OBVIOUS
  <1>. SUFFICES ASSUME NEW i \in 1..Len(r), r[i].kind = "event"
                PROVE  /\ l < r[i].n /\ r[i].n <= e
                       /\ \A j \in 1..(i - 1) : r[j].kind = "event" => r[j].n < r[i].n
    BY <1>1 DEF InOrder
  <1>2. PICK x \in DOMAIN q : x = i + d /\ q[x] = r[i]
    BY <1>1
  <1>3. /\ l < r[i].n /\ r[i].n <= e
        /\ \A j \in 1..(x - 1) : q[j].kind = "event" => q[j].n < r[i].n
    BY <1>2 DEF InOrder
  <1>4. ASSUME NEW j \in 1..(i - 1), r[j].kind = "event" PROVE r[j].n < r[i].n
    <2>1. j + d \in 1..(x - 1) /\ r[j] = q[j + d]
      BY <1>1, <1>2
    <2>. QED  BY <1>3, <1>4, <2>1
  <1>. QED  BY <1>3, <1>4

\* The order goes on with an event newer than all, or with what is none.
LEMMA AppendKeepsOrder ==
    ASSUME NEW q \in Seq(Message), NEW m \in Message, NEW l \in Nat,
           NEW e \in Nat, NEW f \in Nat, InOrder(q, l, e), l <= e, e <= f,
           m.kind = "event" => e < m.n /\ m.n <= f
    PROVE  InOrder(Append(q, m), l, f)
  <1>1. /\ Append(q, m) \in Seq(Message) /\ Len(q) \in Nat
        /\ DOMAIN q = 1..Len(q) /\ DOMAIN Append(q, m) = 1..(Len(q) + 1)
        /\ \A i \in 1..Len(q) : Append(q, m)[i] = q[i]
        /\ Append(q, m)[Len(q) + 1] = m
    BY AppendProperties
  <1>2. \A i \in 1..Len(q) : q[i].n \in Nat
    <2>1. \A i \in 1..Len(q) : q[i] \in Message
      BY <1>1
    <2>. QED  BY <2>1 DEF Message
  <1>3. m.n \in Nat
    BY DEF Message
  <1>4. ASSUME NEW i \in 1..Len(q), q[i].kind = "event"
        PROVE  /\ l < q[i].n /\ q[i].n <= f
               /\ \A j \in 1..(i - 1) : Append(q, m)[j].kind = "event"
                      => Append(q, m)[j].n < q[i].n
    BY <1>1, <1>2, <1>4 DEF InOrder
  <1>5. ASSUME m.kind = "event"
        PROVE  /\ l < m.n /\ m.n <= f
               /\ \A j \in 1..Len(q) : Append(q, m)[j].kind = "event"
                      => Append(q, m)[j].n < m.n
    BY <1>1, <1>2, <1>3, <1>5 DEF InOrder
  <1>6. ASSUME NEW i \in DOMAIN Append(q, m), i \notin 1..Len(q)
        PROVE  i = Len(q) + 1 /\ i - 1 = Len(q)
    BY <1>1, <1>6
  <1>. QED  BY <1>1, <1>4, <1>5, <1>6 DEF InOrder

\* Once the head is read, what follows it is newer than what was read last.
LEMMA TailKeepsOrder ==
    ASSUME NEW q \in Seq(Message), q # <<>>, NEW l \in Nat, NEW e \in Nat,
           InOrder(q, l, e), l <= e,
           NEW k, k = IF Head(q).kind = "event" THEN Head(q).n ELSE l
    PROVE  k \in Nat /\ k <= e /\ InOrder(Tail(q), k, e)
  <1>1. /\ Tail(q) \in Seq(Message) /\ Len(q) \in Nat \ {0}
        /\ DOMAIN q = 1..Len(q) /\ Len(Tail(q)) = Len(q) - 1 /\ Head(q) = q[1]
        /\ \A i \in 1..(Len(q) - 1) : Tail(q)[i] = q[i + 1]
    BY EmptySeq, HeadTailProperties
  <1>2. q[1] \in Message /\ 1 \in DOMAIN q
    BY <1>1
  <1>3. k \in Nat /\ k <= e
    BY <1>1, <1>2 DEF InOrder, Message
  <1>4. InOrder(Tail(q), l, e)
    <2>1. 1 \in Nat /\ Len(Tail(q)) + 1 <= Len(q)
      BY <1>1
    <2>2. \A i \in 1..Len(Tail(q)) : Tail(q)[i] = q[i + 1]
      BY <1>1
    <2>. QED  BY <1>1, <2>1, <2>2, ShiftKeepsOrder
  <1>5. ASSUME Head(q).kind = "event", NEW i \in DOMAIN Tail(q),
               Tail(q)[i].kind = "event"
        PROVE  k < Tail(q)[i].n
    <2>1. PICK x \in DOMAIN q : x = i + 1 /\ q[x] = Tail(q)[i]
      BY <1>1
    <2>2. 1 \in 1..(x - 1)
      BY <1>1, <2>1
    <2>. QED  BY <1>1, <1>5, <2>1, <2>2 DEF InOrder
  <1>. QED  BY <1>3, <1>4, <1>5 DEF InOrder

\* Every step keeps the events in order.
LEMMA OrderStep == TypeOK /\ StreamInv /\ OrderInv /\ [Next]_vars => OrderInv'
  <1>. SUFFICES ASSUME TypeOK, StreamInv, OrderInv, [Next]_vars PROVE OrderInv'
    OBVIOUS
  <1>. DEFINE q == wire \o outbound
  <1>. DEFINE r == wire' \o outbound'
  <1>1. /\ outbound \in Seq(Message) /\ wire \in Seq(Message) /\ q \in Seq(Message)
        /\ last \in Nat /\ events \in Nat /\ last <= events
        /\ InOrder(q, last, events) /\ session \in Nat
    BY BoundAssumption DEF TypeOK, OrderInv
  <1>2. ASSUME UNCHANGED <<last, events>>, wire' \o outbound' = q PROVE OrderInv'
    BY <1>1, <1>2 DEF OrderInv
  <1>3. ASSUME UNCHANGED <<last, events>>, wire' = <<>>,
               outbound' \in {outbound, <<>>}
        PROVE  OrderInv'
    <2>1. CASE outbound' = <<>>
      BY <1>1, <1>3, <2>1 DEF OrderInv, InOrder
    <2>2. CASE outbound' = outbound
      <3>1. r = outbound /\ Len(wire) \in Nat
        BY <1>1, <1>3, <2>2
      <3>2. Len(outbound) + Len(wire) <= Len(q)
        BY <1>1
      <3>3. \A i \in 1..Len(outbound) : outbound[i] = q[i + Len(wire)]
        BY <1>1
      <3>4. InOrder(outbound, last, events)
        BY <1>1, <3>1, <3>2, <3>3, ShiftKeepsOrder
      <3>. QED  BY <1>1, <1>3, <3>1, <3>4 DEF OrderInv
    <2>. QED  BY <1>3, <2>1, <2>2
  <1>4. ASSUME NEW m \in Message, Send(m), UNCHANGED <<last, wire>>,
               events' \in Nat, events <= events',
               m.kind = "event" => events < m.n /\ m.n <= events'
        PROVE  OrderInv'
    <2>1. InOrder(Append(q, m), last, events')
      BY <1>1, <1>4, AppendKeepsOrder
    <2>2. wire \o Append(outbound, m) = Append(q, m)
      BY <1>1
    <2>3. InOrder(q, last, events')
      <3>1. ASSUME NEW i \in DOMAIN q PROVE q[i].n \in Nat
        <4>1. q \in Seq(Message)
          BY <1>1
        <4>2. q[i] \in Message
          BY ONLY <4>1, i \in DOMAIN q
        <4>. QED  BY ONLY <4>2 DEF Message
      <3>2. events \in Nat /\ events' \in Nat /\ events <= events'
        BY <1>1, <1>4
      <3>3. \A n \in Nat : n <= events => n <= events'
        BY ONLY <3>2
      <3>4. InOrder(q, last, events)
        BY <1>1
      <3>. QED  BY ONLY <3>1, <3>3, <3>4, Zenon DEF InOrder
    <2>4. r \in {q, Append(q, m)}
      BY <1>4, <2>2 DEF Send
    <2>5. last' <= events'
      BY <1>1, <1>4
    <2>6. CASE r = q
      BY <1>4, <2>3, <2>5, <2>6 DEF OrderInv
    <2>7. CASE r = Append(q, m)
      BY <1>4, <2>1, <2>5, <2>7 DEF OrderInv
    <2>. QED  BY <2>4, <2>6, <2>7
  <1>5. CASE Start \/ Stop \/ StopBeforeConnecting \/ Wake \/ HandlerDone
             \/ BeginCommand \/ CloudPings \/ CloudSendsCommand
    BY <1>2, <1>5
    DEF Start, Stop, StopBeforeConnecting, Wake, HandlerDone, BeginCommand,
        CloudPings, CloudSendsCommand
  <1>6. CASE Connect
    BY <1>3, <1>6 DEF Connect, StreamInv
  <1>7. CASE SessionEnds \/ SessionRaises \/ Cancel \/ Break
    BY <1>3, <1>7 DEF SessionEnds, SessionRaises, Cancel, Break, After
  <1>8. CASE LocalEvent
    <2>1. events + 1 \in Nat /\ events <= events + 1 /\ events < events + 1
      BY <1>1
    <2>2. Event(events + 1) \in Message
      BY <2>1, MessageTypes
    <2>. QED  BY <1>4, <1>8, <2>1, <2>2 DEF LocalEvent, Event
  <1>9. CASE Beat
    BY <1>1, <1>4, <1>9, MessageTypes DEF Beat, Heartbeat
  <1>10. CASE AnswerPing
    <2>1. PICK s \in 1..Sessions : Send(Pong(s))
      BY <1>10 DEF AnswerPing
    <2>2. Pong(s) \in Message /\ Pong(s).kind # "event"
      BY <2>1, MessageTypes DEF Pong
    <2>. QED  BY <1>1, <1>4, <1>10, <2>1, <2>2 DEF AnswerPing
  <1>11. CASE Yield
    <2>1. Append(wire, Head(outbound)) \o Tail(outbound) = q
      BY <1>1, <1>11 DEF Yield
    <2>. QED  BY <1>2, <1>11, <2>1 DEF Yield
  <1>12. CASE CloudReads
    <2>1. wire # <<>> /\ wire' = Tail(wire) /\ UNCHANGED <<outbound, events>>
      BY <1>12 DEF CloudReads
    <2>2. q # <<>> /\ Head(q) = Head(wire) /\ Tail(q) = Tail(wire) \o outbound
      BY <1>1, <2>1
    <2>3. last' = IF Head(q).kind = "event" THEN Head(q).n ELSE last
      BY <1>12, <2>2 DEF CloudReads
    <2>4. last' \in Nat /\ last' <= events /\ InOrder(Tail(q), last', events)
      BY <1>1, <2>2, <2>3, TailKeepsOrder
    <2>. QED  BY <2>1, <2>2, <2>4 DEF OrderInv
  <1>13. CASE UNCHANGED vars
    BY <1>2, <1>13 DEF vars
  <1>. QED
    BY <1>5, <1>6, <1>7, <1>8, <1>9, <1>10, <1>11, <1>12, <1>13
    DEF Next, RunForever, ReadLoop

-----------------------------------------------------------------------------
(* The backoff *)

\* A later attempt waits no less.
LEMMA BaseDelayGrows ==
    ASSUME NEW a \in Nat, NEW b \in Nat, a <= b
    PROVE  BaseDelay(a) <= BaseDelay(b)
  <1>1. Len(Schedule) \in Nat \ {0}
    BY ScheduleAssumption, EmptySeq
  <1>2. AtMost(a, Len(Schedule) - 1) + 1 <= AtMost(b, Len(Schedule) - 1) + 1
    BY <1>1 DEF AtMost
  <1>. QED  BY <1>2, BaseDelayStep, ScheduleGrows DEF BaseDelay

\* Every step keeps the attempts up with the failures.
LEMMA BackoffStep == TypeOK /\ BackoffInv /\ [Next]_vars => BackoffInv'
  <1>. SUFFICES ASSUME TypeOK, BackoffInv, [Next]_vars PROVE BackoffInv'
    OBVIOUS
  <1>1. /\ Len(Schedule) \in Nat \ {0} /\ attempt \in 0..Len(Schedule)
        /\ unclean \in 0..Len(Schedule) /\ attempt \in Nat /\ unclean \in Nat
    BY ScheduleAssumption, EmptySeq DEF TypeOK
  <1>. USE DEF BackoffInv, BackoffGrows, connection
  <1>2. CASE UNCHANGED <<loop, attempt, delay, unclean>>
    BY <1>2
  <1>3. CASE Start \/ Connect \/ StopBeforeConnecting \/ Cancel
    BY <1>3 DEF Start, Connect, StopBeforeConnecting, Cancel
  <1>4. CASE SessionEnds
    BY <1>4 DEF SessionEnds, After
  <1>5. CASE SessionRaises
    <2>1. /\ attempt' = attempt /\ unclean' = AtMost(unclean + 1, Len(Schedule))
          /\ loop = "session" /\ loop' \in {"ended", "sleeping"}
          /\ loop' = "sleeping" => delay' \in Jittered(BaseDelay(attempt))
      BY <1>5 DEF SessionRaises, After
    <2>2. unclean' \in Nat \ {0} /\ unclean' - 1 \in Nat /\ unclean' - 1 <= attempt
      BY <1>1, <2>1 DEF AtMost
    <2>3. /\ BaseDelay(unclean' - 1) <= BaseDelay(attempt)
          /\ BaseDelay(unclean' - 1) \in Nat /\ BaseDelay(attempt) \in Nat
      BY <1>1, <2>2, BaseDelayStep, BaseDelayGrows
    <2>4. \A d \in Jittered(BaseDelay(attempt)) : d >= 8 * BaseDelay(unclean' - 1)
      BY <2>3 DEF Jittered
    <2>5. loop' = "sleeping" => delay' >= 8 * BaseDelay(unclean' - 1)
      BY <2>1, <2>4
    <2>6. attempt' + 1 >= unclean'
      BY <1>1, <2>1, <2>2
    <2>. QED  BY <2>1, <2>5, <2>6
  <1>6. CASE Wake
    <2>1. attempt' >= unclean'
      BY <1>1, <1>6 DEF Wake, AtMost
    <2>. QED  BY <1>6, <2>1 DEF Wake
  <1>. QED
    BY <1>2, <1>3, <1>4, <1>5, <1>6
    DEF Next, RunForever, ReadLoop, Stop, LocalEvent, Beat, Yield, AnswerPing,
        BeginCommand, HandlerDone, CloudReads, CloudPings, CloudSendsCommand, Break,
        vars

-----------------------------------------------------------------------------

\* The invariant holds before run_forever is called.
LEMMA InvInit == Init => IInv
  <1>. SUFFICES ASSUME Init PROVE IInv
    OBVIOUS
  <1>1. StreamInv
    BY RangeOfEmpty DEF Init, StreamInv
  <1>2. wire \o outbound = <<>> /\ last <= events
    BY DEF Init
  <1>3. OrderInv
    BY <1>2 DEF OrderInv, InOrder
  <1>4. BackoffInv
    BY DEF Init, BackoffInv, BackoffGrows
  <1>. QED  BY <1>1, <1>3, <1>4, TypeInit DEF IInv

\* The inductive invariant holds of every behaviour of the loop.
THEOREM Invariance == Spec => []IInv
  <1>1. IInv /\ [Next]_vars => IInv'
    BY TypeStep, StreamStep, OrderStep, BackoffStep DEF IInv
  <1>. QED  BY <1>1, InvInit, PTL DEF Spec

\* Every variable keeps its type, over any sessions.
THEOREM TypeCorrect == Spec => []TypeOK
  <1>1. IInv => TypeOK
    BY DEF IInv
  <1>. QED  BY <1>1, Invariance, PTL

\* No session sends another's heartbeats or pongs.
THEOREM SessionsAreFresh == Spec => []FreshSession
  <1>1. IInv => FreshSession
    <2>. SUFFICES ASSUME IInv PROVE FreshSession
      OBVIOUS
    <2>1. Range(Waiting) = Range(outbound) \cup Range(wire)
      BY RangeOfConcat DEF IInv, TypeOK, Waiting
    <2>. QED  BY <2>1 DEF IInv, StreamInv, FreshSession
  <1>. QED  BY <1>1, Invariance, PTL

\* Local events reach Cloud in the order they were acknowledged.
THEOREM EventsStayInOrder == Spec => []EventsInOrder
  <1>1. IInv => EventsInOrder
    BY DEF IInv, OrderInv, InOrder, EventsInOrder
  <1>. QED  BY <1>1, Invariance, PTL

\* The wait grows with the failures in a row.
THEOREM WaitsGrow == Spec => []BackoffGrows
  <1>1. IInv => BackoffGrows
    BY DEF IInv, BackoffInv
  <1>. QED  BY <1>1, Invariance, PTL
=============================================================================

------------------------- MODULE AgentProcessProofs -------------------------
(***************************************************************************)
(* AgentProcess for any number of rotations and of local calls: it is a    *)
(* ControlSession, so what is proved of every session loop holds of the    *)
(* one main.py runs; its credentials are of one secret; and the local API  *)
(* and the clients outlive whatever uses them. Then the temporal part: a   *)
(* loop that ends takes the process down, one that is not stopped          *)
(* reconnects for ever, and a ping moves up its queue until it is          *)
(* answered.                                                               *)
(***************************************************************************)
EXTENDS AgentProcess, ControlSessionProofs

\* All keys are the cached version's.
SecretInv ==
    /\ (cached = Unread) <=> (credentials = <<>>)
    /\ \A i \in DOMAIN credentials : credentials[i] = cached

\* Where the process stands tells what is served and open.
ServeInv ==
    /\ serving <=> process = "running"
    /\ process \in {"built", "running", "draining"} => open = Client
    /\ busy => process = "running"
    /\ rpcs > 0 => process \in {"running", "draining"}

ProcessInv == ProcessTypeOK /\ IInv /\ SecretInv /\ ServeInv

\* A process that has read nothing satisfies the invariant.
LEMMA ProcessInvInit == ProcessInit => ProcessInv
  <1>. SUFFICES ASSUME ProcessInit PROVE ProcessInv
    OBVIOUS
  <1>1. Init
    BY DEF ProcessInit
  <1>2. IInv /\ TypeOK
    BY <1>1, InvInit DEF IInv
  <1>3. SecretInv /\ ServeInv
    <2>1. DOMAIN <<>> = {}
      OBVIOUS
    <2>2. ~ busy /\ ~ serving
      BY <1>1 DEF ProcessInit, Init
    <2>. QED  BY <2>1, <2>2 DEF ProcessInit, SecretInv, ServeInv
  <1>4. credentials \in Seq(0..MaxRotations) /\ Len(credentials) <= 3
    BY DEF ProcessInit
  <1>5. serving \in BOOLEAN /\ thread \in BOOLEAN
    BY DEF ProcessInit
  <1>6. rpcs \in 0..MaxRpcs
    BY ProcessAssumption DEF ProcessInit
  <1>7. ProcessTypeOK
    BY <1>2, <1>4, <1>5, <1>6 DEF ProcessInit, ProcessTypeOK
  <1>. QED  BY <1>2, <1>3, <1>7 DEF ProcessInv

\* Every step of the process is a step of the loop or none.
LEMMA ProcessIsSession == [ProcessNext]_all => [Next]_vars
  BY DEF ProcessNext, StartUp, ReadKey, BuildClients, StartLocalApi, StartupFails,
         Running, ThreadEnds, RpcArrives, RpcEnds, ShutDown, StopLocalApi,
         GraceElapses, LocalApiStopped, CloseClients, Exit, all

\* Reading a key takes what is cached once something is.
LEMMA ReadKeyStep ==
    ASSUME ProcessTypeOK, SecretInv, ReadKey
    PROVE  /\ SecretInv'
           /\ cached' \in 0..MaxRotations
           /\ credentials' \in Seq(0..MaxRotations) /\ Len(credentials') <= 3
  <1>1. credentials \in Seq(0..MaxRotations) /\ MaxRotations \in Nat
    BY ProcessAssumption DEF ProcessTypeOK
  <1>2. cached' \in 0..MaxRotations /\ (cached # Unread => cached' = cached)
    <2>1. CASE cached = Unread
      <3>1. Held = {0}
        BY <2>1 DEF Held, SecretInv
      <3>. QED  BY <1>1, <2>1, <3>1 DEF ReadKey
    <2>2. CASE cached # Unread
      BY <2>2 DEF ReadKey, ProcessTypeOK
    <2>. QED  BY <2>1, <2>2
  <1>3. credentials' = Append(credentials, cached') /\ Len(credentials) < 3
    BY DEF ReadKey
  <1>4. /\ credentials' \in Seq(0..MaxRotations) /\ credentials' # <<>>
        /\ Len(credentials') = Len(credentials) + 1 /\ Len(credentials) \in Nat
        /\ DOMAIN credentials' = 1..(Len(credentials) + 1)
        /\ DOMAIN credentials = 1..Len(credentials)
        /\ \A i \in 1..Len(credentials) : credentials'[i] = credentials[i]
        /\ credentials'[Len(credentials) + 1] = cached'
    BY <1>1, <1>2, <1>3, AppendProperties
  <1>5. ASSUME NEW i \in DOMAIN credentials' PROVE credentials'[i] = cached'
    <2>1. CASE i \in DOMAIN credentials
      <3>1. credentials[i] = cached /\ cached # Unread
        BY <2>1 DEF SecretInv
      <3>. QED  BY <1>2, <1>4, <2>1, <3>1
    <2>2. CASE i \notin DOMAIN credentials
      BY <1>4, <2>2
    <2>. QED  BY <2>1, <2>2
  <1>6. cached' # Unread
    BY <1>1, <1>2 DEF Unread
  <1>. QED  BY <1>2, <1>3, <1>4, <1>5, <1>6 DEF SecretInv

\* Every step keeps the invariant.
LEMMA ProcessInvStep == ProcessInv /\ [ProcessNext]_all => ProcessInv'
  <1>. SUFFICES ASSUME ProcessInv, [ProcessNext]_all PROVE ProcessInv'
    OBVIOUS
  <1>1. IInv' /\ TypeOK'
    BY ProcessIsSession, TypeStep, StreamStep, OrderStep, BackoffStep
    DEF ProcessInv, IInv
  <1>2. (loop # "session" => ~ busy) /\ (loop' # "session" => ~ busy')
    BY <1>1 DEF ProcessInv, IInv, StreamInv
  <1>3. UNCHANGED vars => busy' = busy /\ loop' = loop
    BY DEF vars, connection
  <1>. USE DEF ProcessInv, ProcessTypeOK, SecretInv, ServeInv, startup, shutdown
  <1>4. CASE ReadKey
    <2>1. SecretInv' /\ cached' \in 0..MaxRotations
          /\ credentials' \in Seq(0..MaxRotations) /\ Len(credentials') <= 3
      BY <1>4, ReadKeyStep
    <2>. QED  BY <1>1, <1>3, <1>4, <2>1 DEF ReadKey
  <1>5. CASE BuildClients \/ StartupFails
    BY <1>1, <1>3, <1>5 DEF BuildClients, StartupFails
  <1>12. CASE StartLocalApi
    <2>1. serving' \in BOOLEAN /\ serving' /\ process' = "running"
      BY <1>12 DEF StartLocalApi
    <2>. QED  BY <1>1, <1>3, <1>12, <2>1 DEF StartLocalApi
  <1>6. CASE Running(Next)
    <2>1. (busy /\ loop' = "cancelled") \in BOOLEAN
      OBVIOUS
    <2>2. thread' \in BOOLEAN
      BY <1>6, <2>1 DEF Running
    <2>. QED  BY <1>1, <1>6, <2>2 DEF Running
  <1>7. CASE ThreadEnds
    <2>1. thread' \in BOOLEAN
      BY <1>7 DEF ThreadEnds
    <2>. QED  BY <1>1, <1>3, <1>7, <2>1 DEF ThreadEnds
  <1>11. CASE RpcArrives \/ RpcEnds \/ GraceElapses
    <2>1. rpcs' \in 0..MaxRpcs
      BY <1>11, ProcessAssumption DEF RpcArrives, RpcEnds, GraceElapses
    <2>2. rpcs' > 0 => process \in {"running", "draining"}
      BY <1>11, ProcessAssumption DEF RpcArrives, RpcEnds, GraceElapses
    <2>. QED  BY <1>1, <1>3, <1>11, <2>1, <2>2 DEF RpcArrives, RpcEnds, GraceElapses
  <1>8. CASE LocalApiStopped \/ Exit
    BY <1>1, <1>2, <1>3, <1>8 DEF LocalApiStopped, Exit
  <1>13. CASE StopLocalApi
    <2>1. /\ serving' \in BOOLEAN /\ ~ serving' /\ process' = "draining"
          /\ ~ busy' /\ open' = open /\ process = "running"
      BY <1>2, <1>3, <1>13 DEF StopLocalApi
    <2>. QED  BY <1>1, <1>13, <2>1 DEF StopLocalApi
  <1>9. CASE CloseClients
    BY <1>1, <1>3, <1>9 DEF CloseClients, Client
  <1>10. CASE UNCHANGED all
    BY <1>1, <1>3, <1>10 DEF all, own
  <1>. QED
    BY <1>4, <1>5, <1>6, <1>7, <1>8, <1>9, <1>10, <1>11,
       <1>12, <1>13
    DEF ProcessNext, StartUp, ShutDown

\* The inductive invariant holds of every life of the process.
THEOREM ProcessInvariance == ProcessSpec => []ProcessInv
  BY ProcessInvInit, ProcessInvStep, PTL DEF ProcessSpec

\* Every variable of the process keeps its type.
THEOREM ProcessTypes == ProcessSpec => []ProcessTypeOK
  <1>1. ProcessInv => ProcessTypeOK
    BY DEF ProcessInv
  <1>. QED  BY <1>1, ProcessInvariance, PTL

\* The process is a session loop: starting, serving and closing around it
\* never disturb it.
THEOREM ProcessImplementsSession == ProcessSpec => Spec
  <1>1. ProcessInit => Init
    BY DEF ProcessInit
  <1>. QED  BY <1>1, ProcessIsSession, PTL DEF ProcessSpec, Spec

\* The credentials are never mixed of two versions of the secret.
THEOREM CredentialsMatch == ProcessSpec => []OneSecret
  <1>1. ProcessInv => OneSecret
    BY DEF ProcessInv, SecretInv, OneSecret
  <1>. QED  BY <1>1, ProcessInvariance, PTL

\* Whatever is at work is served and has its clients.
THEOREM ServedToTheEnd == ProcessSpec => []HandlersAreServed
  <1>1. ProcessInv => HandlersAreServed
    BY DEF ProcessInv, ServeInv, HandlersAreServed, Client
  <1>. QED  BY <1>1, ProcessInvariance, PTL

\* What holds of every session loop holds of the one a process runs: sessions
\* are not mixed, events keep their order, waits grow.
THEOREM SessionsInProcess == ProcessSpec => [](FreshSession /\ EventsInOrder /\ BackoffGrows)
  BY ProcessImplementsSession, SessionsAreFresh, EventsStayInOrder, WaitsGrow, PTL

-----------------------------------------------------------------------------
(* The loop goes on and the process ends. What the states of a process enable *)
(* is TLC's to check (NeverStuck); from there the argument is the prover's.   *)

\* A loop that can go on runs in a running process; it ends when it is stopped.
LoopInv ==
    /\ loop \in {"connecting", "session", "sleeping"} => process = "running"
    /\ loop # "unstarted" => process \notin {"reading", "built"}
    /\ loop = "ended" => stopped

Over == loop \in {"ended", "cancelled"}

\* What a step of the loop may do to where it stands.
LEMMA LoopMoves ==
    ASSUME Next
    PROVE  /\ Over => Over'
           /\ loop' = "unstarted" => loop = "unstarted"
           /\ loop' = "ended" => stopped \/ loop = "ended"
           /\ stopped => stopped'
           /\ loop = "connecting" /\ ~ stopped => loop' = loop \/ loop' = "session"
           /\ loop = "sleeping" =>
                 loop' \in {"sleeping", "connecting", "cancelled"} \/ stopped'
  BY DEF Next, RunForever, Start, Connect, SessionEnds, SessionRaises, After, Wake,
         StopBeforeConnecting, Stop, Cancel, LocalEvent, Beat, Yield, ReadLoop,
         AnswerPing, BeginCommand, HandlerDone, CloudReads, CloudPings,
         CloudSendsCommand, Break, connection, Over

\* A loop that has begun keeps to its process.
LEMMA LoopInvStep == LoopInv /\ [ProcessNext]_all => LoopInv'
  <1>. SUFFICES ASSUME LoopInv, [ProcessNext]_all PROVE LoopInv'
    OBVIOUS
  <1>. USE DEF LoopInv
  <1>1. CASE Running(Next)
    <2>1. process = "running" /\ process' = "running" /\ Next
      BY <1>1 DEF Running
    <2>. QED  BY <2>1, LoopMoves
  <1>2. CASE UNCHANGED vars
    <2>1. UNCHANGED <<loop, stopped>>
      BY <1>2 DEF vars, connection
    <2>2. CASE UNCHANGED process
      BY <2>1, <2>2
    <2>3. CASE process \in {"reading", "built"}
      BY <2>1, <2>3
    <2>4. CASE StopLocalApi
      BY <2>1, <2>4 DEF StopLocalApi
    <2>5. CASE process \in {"draining", "closing"} /\ process' \in {"closing", "down"}
      BY <2>1, <2>5
    <2>. QED
      BY <1>2, <2>2, <2>3, <2>4, <2>5
      DEF ProcessNext, StartUp, ReadKey, BuildClients, StartLocalApi, StartupFails,
          Running, ThreadEnds, RpcArrives, RpcEnds, ShutDown, GraceElapses,
          LocalApiStopped, CloseClients, Exit, all, own, shutdown, startup
  <1>. QED
    BY <1>1, <1>2 DEF ProcessNext, StartUp, ReadKey, BuildClients, StartLocalApi,
       StartupFails, ThreadEnds, RpcArrives, RpcEnds, ShutDown, StopLocalApi,
       GraceElapses, LocalApiStopped, CloseClients, Exit, all

\* The stations of a process on its way down.
Stopping == process = "running" /\ Over
Draining == process = "draining"
Drained == process = "draining" /\ rpcs = 0
ChannelOpen == process = "closing" /\ "container_maker" \in open
CloudOpen == process = "closing" /\ "container_maker" \notin open /\ open # {}
Joining == process = "closing" /\ open = {} /\ thread
Joined == process = "closing" /\ open = {} /\ ~ thread
Down == process = "down"

\* Once the local API is stopped only the finally clause, a local call's end
\* and a worker thread's end change what the process waits for.
LEMMA DrainMoves ==
    ASSUME ProcessInv, process \in {"draining", "closing", "down"}, [ProcessNext]_all
    PROVE  \/ UNCHANGED <<process, rpcs, thread, open>>
           \/ rpcs > 0 /\ rpcs' = rpcs - 1 /\ UNCHANGED <<process, thread, open>>
           \/ thread /\ thread' = FALSE /\ UNCHANGED <<process, rpcs, open>>
           \/ ShutDown
  <1>1. ~ serving
    BY DEF ProcessInv, ServeInv
  <1>. QED
    BY <1>1 DEF ProcessNext, StartUp, ReadKey, BuildClients, StartLocalApi,
       StartupFails, Running, ThreadEnds, RpcArrives, RpcEnds, all, own, shutdown

\* What a fair life is to its end, and to the loop's reconnections.
Ending ==
    /\ [](ProcessInv /\ LoopInv /\ NeverStuck) /\ [][ProcessNext]_all
    /\ WF_all(ShutDown) /\ WF_all(ThreadEnds /\ "container_maker" \notin open)

Reconnecting ==
    /\ [](LoopInv /\ NeverStuck) /\ [][ProcessNext]_all
    /\ WF_all(Running(Connect)) /\ WF_all(Running(Wake))

\* Every fair life of the process is both.
LEMMA FairLife == ProcessFairSpec /\ []NeverStuck => Ending /\ Reconnecting
  <1>1. ProcessInit => LoopInv
    BY DEF ProcessInit, Init, LoopInv
  <1>2. ProcessSpec => []LoopInv
    BY <1>1, LoopInvStep, PTL DEF ProcessSpec
  <1>. QED
    BY <1>2, ProcessInvariance, PTL DEF ProcessFairSpec, ProcessSpec, Ending, Reconnecting

\* The local API is stopped, with the calls it still has.
LEMMA Drains ==
    Ending => (Stopping \/ Draining ~> ChannelOpen \/ CloudOpen \/ Joining \/ Joined)
  <1>. DEFINE Closing == ChannelOpen \/ CloudOpen \/ Joining \/ Joined
  <1>. USE DEF Stopping, Draining, Drained, ChannelOpen, CloudOpen, Joining, Joined
  <1>1. Stopping /\ [ProcessNext]_all => (Stopping \/ Draining)'
    <2>. SUFFICES ASSUME Stopping, [ProcessNext]_all PROVE (Stopping \/ Draining)'
      OBVIOUS
    <2>1. CASE Running(Next)
      BY <2>1, LoopMoves DEF Running
    <2>2. CASE UNCHANGED <<loop, process>>
      BY <2>2 DEF Over
    <2>3. CASE StopLocalApi
      BY <2>3 DEF StopLocalApi
    <2>. QED
      BY <2>1, <2>2, <2>3
      DEF ProcessNext, StartUp, ReadKey, BuildClients, StartLocalApi, StartupFails,
          ThreadEnds, RpcArrives, RpcEnds, ShutDown, GraceElapses,
          LocalApiStopped, CloseClients, Exit, all, own, vars, connection
  <1>2. Stopping /\ <<ShutDown>>_all => Draining'
    BY DEF ShutDown, StopLocalApi, GraceElapses, LocalApiStopped, CloseClients, Exit
  <1>3. Stopping /\ NeverStuck => ENABLED <<ShutDown>>_all
    BY DEF NeverStuck, Over
  <1>4. ProcessInv /\ Draining /\ ShutDown => (Drained \/ Closing)'
    BY DEF ShutDown, StopLocalApi, GraceElapses, LocalApiStopped, CloseClients, Exit
  <1>5. ProcessInv /\ Draining /\ [ProcessNext]_all => (Draining \/ Closing)'
    BY <1>4, DrainMoves
  <1>6. Draining /\ NeverStuck => ENABLED <<ShutDown>>_all
    BY DEF NeverStuck
  <1>7. ProcessInv /\ Drained /\ ShutDown => Closing'
    BY DEF ShutDown, StopLocalApi, GraceElapses, LocalApiStopped, CloseClients, Exit
  <1>8. ProcessInv /\ Drained /\ [ProcessNext]_all => (Drained \/ Closing)'
    <2>1. ~ (0 > 0)
      OBVIOUS
    <2>. QED  BY <1>7, <2>1, DrainMoves
  <1>9. Drained => Draining
    OBVIOUS
  <1>10. Ending => (Stopping ~> Draining)
    BY <1>1, <1>2, <1>3, PTL DEF Ending
  <1>11. Ending => (Draining ~> Drained \/ Closing)
    BY <1>4, <1>5, <1>6, PTL DEF Ending
  <1>12. Ending => (Drained ~> Closing)
    BY <1>6, <1>7, <1>8, <1>9, PTL DEF Ending
  <1>. QED  BY <1>10, <1>11, <1>12, PTL

\* The clients are closed, the worker threads joined; a thread has no channel
\* left to wait on once the first client is closed.
LEMMA Closes == Ending => (ChannelOpen \/ CloudOpen \/ Joining \/ Joined ~> Down)
  <1>. USE DEF ChannelOpen, CloudOpen, Joining, Joined, Down
  <1>1. ProcessInv /\ ChannelOpen /\ ShutDown => (CloudOpen \/ Down)'
    BY DEF ShutDown, StopLocalApi, GraceElapses, LocalApiStopped, CloseClients, Exit
  <1>2. ProcessInv /\ ChannelOpen /\ [ProcessNext]_all =>
          (ChannelOpen \/ CloudOpen \/ Down)'
    BY <1>1, DrainMoves
  <1>3. ProcessInv /\ CloudOpen /\ ShutDown => (Joining \/ Joined \/ Down)'
    BY DEF ShutDown, StopLocalApi, GraceElapses, LocalApiStopped, CloseClients, Exit
  <1>4. ProcessInv /\ CloudOpen /\ [ProcessNext]_all =>
          (CloudOpen \/ Joining \/ Joined \/ Down)'
    BY <1>3, DrainMoves
  <1>5. (ChannelOpen \/ CloudOpen \/ Joined) /\ NeverStuck => ENABLED <<ShutDown>>_all
    BY DEF NeverStuck
  <1>6. Joining /\ <<ThreadEnds /\ "container_maker" \notin open>>_all => Joined'
    BY DEF ThreadEnds
  <1>7. ProcessInv /\ Joining /\ ShutDown => Down'
    BY DEF ShutDown, StopLocalApi, GraceElapses, LocalApiStopped, CloseClients, Exit
  <1>8. ProcessInv /\ Joining /\ [ProcessNext]_all => (Joining \/ Joined \/ Down)'
    BY <1>7, DrainMoves
  <1>9. Joining /\ NeverStuck => ENABLED <<ThreadEnds /\ "container_maker" \notin open>>_all
    BY DEF NeverStuck
  <1>10. ProcessInv /\ Joined /\ ShutDown => Down'
    BY DEF ShutDown, StopLocalApi, GraceElapses, LocalApiStopped, CloseClients, Exit
  <1>11. ProcessInv /\ Joined /\ [ProcessNext]_all => (Joined \/ Down)'
    BY <1>10, DrainMoves
  <1>12. Ending => (ChannelOpen ~> CloudOpen \/ Down)
    BY <1>1, <1>2, <1>5, PTL DEF Ending
  <1>13. Ending => (CloudOpen ~> Joining \/ Joined \/ Down)
    BY <1>3, <1>4, <1>5, PTL DEF Ending
  <1>14. Ending => (Joining ~> Joined \/ Down)
    BY <1>6, <1>8, <1>9, PTL DEF Ending
  <1>15. Ending => (Joined ~> Down)
    BY <1>5, <1>10, <1>11, PTL DEF Ending
  <1>. QED  BY <1>12, <1>13, <1>14, <1>15, PTL

\* A loop that has ended, however it did, takes the process down, for any
\* number of local calls, with a call of Container Maker's hanging or not.
\* The second hypothesis is the invariant NeverStuck.
THEOREM EveryProcessEnds == ProcessFairSpec /\ []NeverStuck => ShutsDown
  <1>1. LoopInv /\ ProcessInv /\ loop \in {"ended", "cancelled"} =>
          Stopping \/ Draining \/ ChannelOpen \/ CloudOpen \/ Joining \/ Joined \/ Down
    BY DEF LoopInv, ProcessInv, ProcessTypeOK, Over, Stopping, Draining, ChannelOpen,
           CloudOpen, Joining, Joined, Down
  <1>2. Down <=> process = "down"
    BY DEF Down
  <1>3. Ending => (loop \in {"ended", "cancelled"} ~> process = "down")
    BY <1>1, <1>2, Drains, Closes, PTL DEF Ending
  <1>. QED  BY <1>3, FairLife, PTL DEF ShutsDown

\* The agent reconnects for ever unless it is stopped or cancelled, with any
\* schedule, however its sessions end. The second hypothesis is NeverStuck.
THEOREM ReconnectsForEver == ProcessFairSpec /\ []NeverStuck => NeverGivesUp
  <1>. DEFINE Fine == loop \in {"session", "unstarted", "cancelled"} \/ stopped
              Trying == loop = "connecting" /\ ~ stopped
              Asleep == loop = "sleeping"
  <1>1. Trying /\ [ProcessNext]_all => (Trying \/ Fine)'
    <2>1. CASE Running(Next)
      BY <2>1, LoopMoves DEF Running
    <2>2. CASE UNCHANGED <<loop, stopped>>
      BY <2>2
    <2>. QED
      BY <2>1, <2>2
      DEF ProcessNext, StartUp, ReadKey, BuildClients, StartLocalApi, StartupFails,
          ThreadEnds, RpcArrives, RpcEnds, ShutDown, StopLocalApi, GraceElapses,
          LocalApiStopped, CloseClients, Exit, all, own, vars, connection
  <1>2. Trying /\ <<Running(Connect)>>_all => Fine'
    BY DEF Running, Connect
  <1>3. Trying /\ NeverStuck => ENABLED <<Running(Connect)>>_all
    BY DEF NeverStuck
  <1>4. Asleep /\ [ProcessNext]_all => (Asleep \/ Trying \/ Fine)'
    <2>1. CASE Running(Next)
      BY <2>1, LoopMoves DEF Running
    <2>2. CASE UNCHANGED <<loop, stopped>>
      BY <2>2
    <2>. QED
      BY <2>1, <2>2
      DEF ProcessNext, StartUp, ReadKey, BuildClients, StartLocalApi, StartupFails,
          ThreadEnds, RpcArrives, RpcEnds, ShutDown, StopLocalApi, GraceElapses,
          LocalApiStopped, CloseClients, Exit, all, own, vars, connection
  <1>5. Asleep /\ <<Running(Wake)>>_all => (Trying \/ Fine)'
    BY DEF Running, Wake
  <1>6. Asleep /\ NeverStuck => ENABLED <<Running(Wake)>>_all
    BY DEF NeverStuck
  <1>7. ProcessTypeOK /\ LoopInv => Fine \/ Trying \/ Asleep
    BY DEF ProcessTypeOK, TypeOK, LoopInv
  <1>8. Reconnecting => (Trying ~> Fine)
    BY <1>1, <1>2, <1>3, PTL DEF Reconnecting
  <1>9. Reconnecting => (Asleep ~> Trying \/ Fine)
    BY <1>4, <1>5, <1>6, PTL DEF Reconnecting
  <1>10. Reconnecting /\ []ProcessTypeOK => []<>Fine
    BY <1>7, <1>8, <1>9, PTL DEF Reconnecting
  <1>. QED  BY <1>10, FairLife, ProcessTypes, PTL DEF NeverGivesUp, ProcessFairSpec

-----------------------------------------------------------------------------
(* Pings. The read loop stops for every command's handler, so a ping waits   *)
(* for whatever is before it; with each message read it moves up by one.     *)

\* The session's ping is the n-th message to be read.
PingAt(n) ==
    /\ loop = "session" /\ ~ broken
    /\ n \in DOMAIN inbound /\ inbound[n] = Ping(session)

Answered == Pong(session) \in Range(Waiting) \/ broken \/ loop # "session"

\* What fair sessions rest on.
Reads ==
    /\ [](ProcessInv /\ LoopInv /\ NeverStuck) /\ [][ProcessNext]_all
    /\ WF_all(Running(ReadLoop))

\* A step that keeps the session either leaves what is to be read in its
\* place, behind a handler or not, or takes the first of it.
LEMMA SessionMoves ==
    ASSUME Next, loop = "session", ~ broken, loop' = "session", ~ broken'
    PROVE  /\ session' = session
           /\ \/ UNCHANGED inbound /\ (busy' = busy \/ HandlerDone)
              \/ \E m \in {Ping(session), ExecuteCommand} :
                    inbound' = Append(inbound, m) /\ busy' = busy
              \/ AnswerPing \/ BeginCommand
  BY DEF Next, RunForever, Start, Connect, SessionEnds, SessionRaises, After, Wake,
         StopBeforeConnecting, Stop, Cancel, LocalEvent, Beat, Yield, ReadLoop,
         AnswerPing, BeginCommand, HandlerDone, CloudReads, CloudPings,
         CloudSendsCommand, Break, connection

\* Outside the read loop's own steps a ping keeps its place, and so does the
\* handler before it.
LEMMA PingKeepsPlace ==
    ASSUME ProcessInv, NEW n \in Nat, PingAt(n), [ProcessNext]_all
    PROVE  \/ PingAt(n)' /\ busy' = busy
           \/ PingAt(n)' /\ busy /\ ~ busy'
           \/ ~ busy /\ (AnswerPing \/ BeginCommand)
           \/ Answered'
  <1>. USE DEF PingAt, Answered
  <1>1. CASE UNCHANGED vars
    BY <1>1 DEF vars, connection
  <1>2. CASE Next
    <2>. SUFFICES ASSUME loop' = "session", ~ broken' PROVE
             \/ PingAt(n)' /\ busy' = busy
             \/ PingAt(n)' /\ busy /\ ~ busy'
             \/ ~ busy /\ (AnswerPing \/ BeginCommand)
      OBVIOUS
    <2>1. session' = session /\ Ping(session)' = Ping(session)
      BY <1>2, SessionMoves DEF Ping
    <2>2. CASE UNCHANGED inbound /\ (busy' = busy \/ HandlerDone)
      BY <2>1, <2>2 DEF HandlerDone
    <2>3. CASE \E m \in {Ping(session), ExecuteCommand} :
                  inbound' = Append(inbound, m) /\ busy' = busy
      <3>1. PICK m \in {Ping(session), ExecuteCommand} :
                inbound' = Append(inbound, m) /\ busy' = busy
        BY <2>3
      <3>2. /\ inbound \in Seq([kind: {"ping", "execute_command"}, n: Nat])
            /\ session \in Nat
        BY BoundAssumption DEF ProcessInv, ProcessTypeOK, TypeOK
      <3>3. m \in [kind: {"ping", "execute_command"}, n: Nat]
        BY <3>2 DEF Ping, ExecuteCommand
      <3>4. n \in DOMAIN inbound' /\ inbound'[n] = inbound[n]
        BY <3>1, <3>2, <3>3, AppendProperties
      <3>. QED  BY <2>1, <3>1, <3>4
    <2>4. CASE AnswerPing \/ BeginCommand
      BY <2>4 DEF AnswerPing, BeginCommand, Reading
    <2>. QED  BY <1>2, <2>2, <2>3, <2>4, SessionMoves
  <1>. QED  BY <1>1, <1>2, ProcessIsSession

\* Reading takes the ping, and answers it, or moves it up by one.
LEMMA PingMovesUp ==
    ASSUME ProcessInv, NEW n \in Nat, PingAt(n), ~ busy, AnswerPing \/ BeginCommand
    PROVE  /\ n = 1 => Answered'
           /\ n > 1 => PingAt(n - 1)'
  <1>. USE DEF PingAt, Answered
  <1>1. /\ inbound \in Seq([kind: {"ping", "execute_command"}, n: Nat])
        /\ outbound \in Seq(Message) /\ wire \in Seq(Message)
        /\ session \in 1..Sessions /\ Sessions \in Nat
    BY BoundAssumption DEF ProcessInv, ProcessTypeOK, IInv, TypeOK, StreamInv
  <1>2. /\ inbound # <<>> /\ inbound' = Tail(inbound)
        /\ UNCHANGED <<loop, session, broken, wire>>
    BY DEF AnswerPing, BeginCommand, Reading, connection
  <1>3. Head(inbound) = inbound[1] /\ DOMAIN inbound = 1..Len(inbound) /\ Len(inbound) \in Nat
    BY <1>1, <1>2, HeadTailProperties
  <1>4. CASE n = 1
    <2>1. Head(inbound) = Ping(session) /\ Ping(session) # ExecuteCommand
      BY <1>3, <1>4 DEF Ping, ExecuteCommand
    <2>2. PICK s \in 1..Sessions : Reading(Ping(s)) /\ Send(Pong(s))
      BY <2>1 DEF AnswerPing, BeginCommand, Reading
    <2>3. s = session
      BY <2>1, <2>2 DEF Reading, Ping
    <2>4. outbound' = Append(outbound, Pong(session))
      BY <1>1, <2>2, <2>3 DEF Send
    <2>5. Pong(session) \in Message
      BY <1>1 DEF Pong, Message
    <2>6. outbound' \in Seq(Message) /\ Pong(session) \in Range(outbound')
      BY <1>1, <2>4, <2>5, AppendProperties, RangeOfAppend
    <2>7. Pong(session) \in Range(outbound' \o wire')
      BY <1>1, <1>2, <2>6, RangeOfConcat
    <2>. QED  BY <1>2, <1>4, <2>7 DEF Waiting, Pong
  <1>5. CASE n > 1
    <2>1. n - 1 \in DOMAIN inbound' /\ inbound'[n - 1] = inbound[n]
      BY <1>1, <1>2, <1>3, <1>5, HeadTailProperties
    <2>. QED  BY <1>2, <2>1 DEF Ping
  <1>. QED  BY <1>4, <1>5

\* Once its predecessors are read a ping is answered, and while they are not
\* it moves up: for every place and every length of the queue.
AnsweredFrom(n) == PingAt(n) ~> Answered
MovesUpFrom(n) == PingAt(n) ~> PingAt(n - 1) \/ Answered
HandlerEndsBefore(n) == PingAt(n) /\ busy ~> (PingAt(n) /\ ~ busy) \/ Answered

LEMMA HandlerBeforePing ==
    ASSUME NEW n \in Nat
    PROVE  Reads => HandlerEndsBefore(n)
  <1>1. ProcessInv /\ PingAt(n) /\ busy /\ [ProcessNext]_all =>
          ((PingAt(n) /\ busy) \/ (PingAt(n) /\ ~ busy) \/ Answered)'
    BY PingKeepsPlace
  <1>2. ProcessInv /\ PingAt(n) /\ busy /\ [ProcessNext]_all /\ <<Running(ReadLoop)>>_all =>
          ((PingAt(n) /\ ~ busy) \/ Answered)'
    <2>. SUFFICES ASSUME ProcessInv, PingAt(n), busy, Running(ReadLoop), [ProcessNext]_all
                  PROVE  ((PingAt(n) /\ ~ busy) \/ Answered)'
      OBVIOUS
    <2>1. ~ busy'
      BY DEF Running, ReadLoop, AnswerPing, BeginCommand, HandlerDone, Reading
    <2>. QED  BY <2>1, PingKeepsPlace
  <1>3. PingAt(n) /\ busy /\ NeverStuck => ENABLED <<Running(ReadLoop)>>_all
    BY DEF NeverStuck, PingAt
  <1>. QED  BY <1>1, <1>2, <1>3, PTL DEF Reads, HandlerEndsBefore

\* The read loop takes the first message when no handler is at work.
LEMMA ReadingIsFair ==
    ASSUME NEW n \in Nat
    PROVE  /\ PingAt(n) /\ ProcessInv /\ NeverStuck => ENABLED <<Running(ReadLoop)>>_all
           /\ PingAt(n) /\ ~ busy /\ <<Running(ReadLoop)>>_all => AnswerPing \/ BeginCommand
  <1>1. ASSUME PingAt(n), ProcessInv PROVE inbound # <<>>
    <2>1. inbound \in Seq([kind: {"ping", "execute_command"}, n: Nat])
      BY <1>1 DEF ProcessInv, ProcessTypeOK, TypeOK
    <2>2. CASE inbound = <<>>
      <3>1. DOMAIN inbound = {}
        BY <2>2
      <3>. QED  BY <1>1, <3>1 DEF PingAt
    <2>. QED  BY <2>2
  <1>. QED
    BY <1>1 DEF NeverStuck, PingAt, Running, ReadLoop, HandlerDone

\* The first in the queue is answered.
LEMMA FirstPingIsAnswered == Reads => AnsweredFrom(1)
  <1>1. 1 \in Nat
    OBVIOUS
  <1>2. ProcessInv /\ PingAt(1) /\ ~ busy /\ [ProcessNext]_all =>
          ((PingAt(1) /\ ~ busy) \/ Answered)'
    BY <1>1, PingKeepsPlace, PingMovesUp
  <1>3. ProcessInv /\ PingAt(1) /\ ~ busy /\ <<Running(ReadLoop)>>_all => Answered'
    BY <1>1, PingMovesUp, ReadingIsFair
  <1>4. PingAt(1) /\ ProcessInv /\ NeverStuck => ENABLED <<Running(ReadLoop)>>_all
    BY <1>1, ReadingIsFair
  <1>5. Reads => HandlerEndsBefore(1)
    BY <1>1, HandlerBeforePing
  <1>6. Reads => (PingAt(1) /\ ~ busy ~> Answered)
    BY <1>2, <1>3, <1>4, PTL DEF Reads
  <1>. QED  BY <1>5, <1>6, PTL DEF AnsweredFrom, HandlerEndsBefore

\* The others move up.
LEMMA NextPingMovesUp ==
    ASSUME NEW n \in Nat, n > 1
    PROVE  Reads => MovesUpFrom(n)
  <1>2. ProcessInv /\ PingAt(n) /\ ~ busy /\ [ProcessNext]_all =>
          ((PingAt(n) /\ ~ busy) \/ PingAt(n - 1) \/ Answered)'
    BY PingKeepsPlace, PingMovesUp
  <1>3. ProcessInv /\ PingAt(n) /\ ~ busy /\ <<Running(ReadLoop)>>_all => PingAt(n - 1)'
    BY PingMovesUp, ReadingIsFair
  <1>4. PingAt(n) /\ ProcessInv /\ NeverStuck => ENABLED <<Running(ReadLoop)>>_all
    BY ReadingIsFair
  <1>5. Reads => HandlerEndsBefore(n)
    BY HandlerBeforePing
  <1>6. Reads => (PingAt(n) /\ ~ busy ~> PingAt(n - 1) \/ Answered)
    BY <1>2, <1>3, <1>4, PTL DEF Reads
  <1>. QED  BY <1>5, <1>6, PTL DEF MovesUpFrom, HandlerEndsBefore

\* Every fair life of the process reads.
LEMMA FairLifeReads == ProcessFairSpec /\ []NeverStuck => Reads
  <1>1. ProcessInit => LoopInv
    BY DEF ProcessInit, Init, LoopInv
  <1>2. ProcessSpec => []LoopInv
    BY <1>1, LoopInvStep, PTL DEF ProcessSpec
  <1>. QED
    BY <1>2, ProcessInvariance, PTL DEF ProcessFairSpec, ProcessSpec, Reads

\* A ping's wait grows shorter: whatever its place in a queue of any length,
\* while its session lasts it is answered if it is the first, and otherwise
\* moves up to the next place, past a command and its handler or past another
\* ping. The second hypothesis is the invariant NeverStuck.
THEOREM EveryPingMovesUp ==
    ASSUME NEW n \in Nat, n > 1
    PROVE  ProcessFairSpec /\ []NeverStuck => AnsweredFrom(1) /\ MovesUpFrom(n)
  <1>. QED  BY FairLifeReads, FirstPingIsAnswered, NextPingMovesUp, PTL

\* What is to be read keeps to its bound.
QueueInv == Len(inbound) <= MaxQueue

LEMMA QueueStep == ProcessInv /\ QueueInv /\ [ProcessNext]_all => QueueInv'
  <1>. SUFFICES ASSUME ProcessInv, QueueInv, [ProcessNext]_all PROVE QueueInv'
    OBVIOUS
  <1>. USE DEF QueueInv
  <1>1. /\ inbound \in Seq([kind: {"ping", "execute_command"}, n: Nat])
        /\ session \in Nat /\ MaxQueue \in Nat /\ Len(<<>>) = 0
    BY BoundAssumption DEF ProcessInv, ProcessTypeOK, TypeOK
  <1>2. CASE CloudPings \/ CloudSendsCommand
    <2>1. PICK m \in [kind: {"ping", "execute_command"}, n: Nat] :
              inbound' = Append(inbound, m) /\ Len(inbound) < MaxQueue
      BY <1>1, <1>2 DEF CloudPings, CloudSendsCommand, Ping, ExecuteCommand
    <2>. QED  BY <1>1, <2>1, AppendProperties
  <1>3. CASE AnswerPing \/ BeginCommand
    <2>1. inbound # <<>> /\ inbound' = Tail(inbound)
      BY <1>3 DEF AnswerPing, BeginCommand, Reading
    <2>. QED  BY <1>1, <2>1, HeadTailProperties
  <1>4. CASE inbound' \in {inbound, <<>>}
    BY <1>1, <1>4
  <1>. QED
    BY <1>2, <1>3, <1>4, ProcessIsSession
    DEF Next, RunForever, Start, Connect, SessionEnds, SessionRaises, After, Wake,
        StopBeforeConnecting, Stop, Cancel, LocalEvent, Beat, Yield, ReadLoop,
        HandlerDone, CloudReads, Break, connection, vars

\* One of the next four messages to be read is the session's ping.
PingIsNear == \E n \in 1..4 : PingAt(n)

\* Hence a ping that is among the next four messages is answered, in a queue of
\* any length. What would join the places to an answer from each of them is an
\* induction over them.
LEMMA NearPings == Reads => (PingIsNear ~> Answered)
  <1>1. 2 \in Nat /\ 2 > 1 /\ 3 \in Nat /\ 3 > 1 /\ 4 \in Nat /\ 4 > 1
    OBVIOUS
  <1>2. Reads => MovesUpFrom(2)
    BY <1>1, NextPingMovesUp
  <1>3. Reads => MovesUpFrom(3)
    BY <1>1, NextPingMovesUp
  <1>4. Reads => MovesUpFrom(4)
    BY <1>1, NextPingMovesUp
  <1>5. /\ PingAt(2 - 1) <=> PingAt(1)
        /\ PingAt(3 - 1) <=> PingAt(2)
        /\ PingAt(4 - 1) <=> PingAt(3)
    <2>1. 2 - 1 = 1 /\ 3 - 1 = 2 /\ 4 - 1 = 3
      OBVIOUS
    <2>. QED  BY <2>1
  <1>6. PingIsNear => PingAt(1) \/ PingAt(2) \/ PingAt(3) \/ PingAt(4)
    <2>1. 1..4 = {1, 2, 3, 4}
      OBVIOUS
    <2>. QED  BY <2>1 DEF PingIsNear
  <1>. QED
    BY <1>2, <1>3, <1>4, <1>5, <1>6, FirstPingIsAnswered, PTL DEF MovesUpFrom, AnsweredFrom

\* With queues of at most four messages every ping is answered, while its
\* session lasts, whatever handlers run before it, for any number of sessions,
\* events, rotations and local calls. The second hypothesis is NeverStuck.
THEOREM EveryPingIsAnswered ==
    ASSUME MaxQueue <= 4
    PROVE  ProcessFairSpec /\ []NeverStuck => PingAnswered
  <1>1. ProcessInit => QueueInv
    <2>1. Len(<<>>) = 0
      OBVIOUS
    <2>. QED  BY <2>1, BoundAssumption DEF ProcessInit, Init, QueueInv
  <1>2. ProcessSpec => []QueueInv
    BY <1>1, QueueStep, ProcessInvariance, PTL DEF ProcessSpec
  <1>3. ProcessInv /\ QueueInv /\ Ping(session) \in Range(inbound) => PingIsNear \/ Answered
    <2>. SUFFICES ASSUME ProcessInv, QueueInv, Ping(session) \in Range(inbound),
                         loop = "session", ~ broken
                  PROVE  PingIsNear
      BY DEF Answered
    <2>1. PICK n \in DOMAIN inbound : inbound[n] = Ping(session)
      BY DEF Range
    <2>2. inbound \in Seq([kind: {"ping", "execute_command"}, n: Nat])
      BY DEF ProcessInv, ProcessTypeOK, TypeOK
    <2>3. n \in 1..4
      BY <2>2, BoundAssumption DEF QueueInv
    <2>. QED  BY <2>1, <2>3 DEF PingIsNear, PingAt
  <1>4. Answered <=> Pong(session) \in Range(Waiting) \/ broken \/ loop # "session"
    BY DEF Answered
  <1>5. Reads /\ []QueueInv =>
            (Ping(session) \in Range(inbound) ~>
                Pong(session) \in Range(Waiting) \/ broken \/ loop # "session")
    BY <1>3, <1>4, NearPings, PTL DEF Reads
  <1>. QED  BY <1>2, <1>5, FairLifeReads, PTL DEF PingAnswered, ProcessFairSpec
=============================================================================

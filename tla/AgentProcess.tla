---------------------------- MODULE AgentProcess ----------------------------
(***************************************************************************)
(* One life of the agent's process (main.py): the mTLS credentials read    *)
(* from a Kubernetes secret that may be rotated meanwhile                  *)
(* (clients/k8s_secrets.py), the clients built from them, the local API    *)
(* served around ConnectionManager's loop, and what the finally clause     *)
(* closes, in which order. ControlSession is the loop; the calls of the    *)
(* local API and of the handler that Cloud and Container Maker have not    *)
(* answered are in flight around it. Kubernetes, the callers of the local  *)
(* API and Container Maker are external.                                   *)
(***************************************************************************)
EXTENDS ControlSession, Integers

CONSTANTS
    MaxRotations,    \* bound: rotations of the secret
    MaxRpcs          \* bound: local API calls in flight at once

ASSUME ProcessAssumption == MaxRotations \in Nat /\ MaxRpcs \in Nat

Unread == -1

Client == {"container_maker", "cloud"}

VARIABLES
    process,        \* where run() stands
    cached,         \* the version of the secret K8sSecretsReader has cached
    credentials,    \* the versions client.key, client.crt and ca.crt came from
    serving,        \* the local API takes new calls
    rpcs,           \* local API calls that await Cloud
    thread,         \* a worker thread awaits Container Maker for nobody
    open            \* the clients that can be used

startup == <<cached, credentials>>
shutdown == <<serving, rpcs, thread, open>>
own == <<process, startup, shutdown>>
all == <<vars, own>>

ProcessTypeOK ==
    /\ TypeOK
    /\ process \in {"reading", "built", "running", "draining", "closing", "down"}
    /\ cached \in {Unread} \cup 0..MaxRotations
    /\ credentials \in Seq(0..MaxRotations) /\ Len(credentials) <= 3
    /\ serving \in BOOLEAN /\ thread \in BOOLEAN
    /\ rpcs \in 0..MaxRpcs
    /\ open \subseteq Client

ProcessInit ==
    /\ Init
    /\ process = "reading"
    /\ cached = Unread
    /\ credentials = <<>>
    /\ serving = FALSE
    /\ rpcs = 0
    /\ thread = FALSE
    /\ open = {}

-----------------------------------------------------------------------------
(* Starting *)

\* The version Kubernetes holds, counted from the first one read: the secret
\* may be rotated between two reads.
Held ==
    IF credentials = <<>> THEN {0} ELSE credentials[Len(credentials)]..MaxRotations

\* Mutant: every key is read from Kubernetes.
ReadKeyUncached ==
    /\ process = "reading" /\ Len(credentials) < 3
    /\ cached' \in Held
    /\ credentials' = Append(credentials, cached')
    /\ UNCHANGED <<vars, process, shutdown>>

\* get_secret: the whole secret is read for the first of the three keys.
ReadKey ==
    /\ process = "reading" /\ Len(credentials) < 3
    /\ cached' \in (IF cached = Unread THEN Held ELSE {cached})
    /\ credentials' = Append(credentials, cached')
    /\ UNCHANGED <<vars, process, shutdown>>

BuildClients ==
    /\ process = "reading" /\ Len(credentials) = 3
    /\ process' = "built"
    /\ open' = Client
    /\ UNCHANGED <<vars, startup, serving, rpcs, thread>>

\* A required file, the secret or one of its keys is not there, or the local
\* API's start is interrupted: nothing is closed, the process ends.
StartupFails ==
    /\ process \in {"reading", "built"}
    /\ process' = "down"
    /\ UNCHANGED <<vars, startup, shutdown>>

StartLocalApi ==
    /\ process = "built"
    /\ process' = "running"
    /\ serving' = TRUE
    /\ UNCHANGED <<vars, startup, rpcs, thread, open>>

-----------------------------------------------------------------------------
(* Running *)

\* A step of the loop, its tasks, Cloud or a local event. A handler that is
\* cancelled may leave its call to Container Maker, in a worker thread
\* (asyncio.to_thread), behind.
Running(step) ==
    /\ process = "running"
    /\ step
    /\ thread' \in {thread, busy /\ loop' = "cancelled"}
    /\ UNCHANGED <<process, startup, serving, rpcs, open>>

\* That call is answered, or fails because its channel is closed.
ThreadEnds ==
    /\ thread
    /\ thread' = FALSE
    /\ UNCHANGED <<vars, process, startup, serving, rpcs, open>>

RpcArrives ==
    /\ serving /\ rpcs < MaxRpcs
    /\ rpcs' = rpcs + 1
    /\ UNCHANGED <<vars, process, startup, serving, thread, open>>

RpcEnds ==
    /\ rpcs > 0
    /\ rpcs' = rpcs - 1
    /\ UNCHANGED <<vars, process, startup, serving, thread, open>>

-----------------------------------------------------------------------------
(* The finally clause *)

\* Mutant: the clients are closed before the local API is stopped.
CloseFirst ==
    /\ process = "running" /\ loop \in {"ended", "cancelled"}
    /\ process' = "draining"
    /\ serving' = FALSE
    /\ open' = {}
    /\ UNCHANGED <<vars, startup, rpcs, thread>>

\* local_api_server.stop(5) turns new calls away at once ...
StopLocalApi ==
    /\ process = "running" /\ loop \in {"ended", "cancelled"}
    /\ process' = "draining"
    /\ serving' = FALSE
    /\ UNCHANGED <<vars, startup, rpcs, thread, open>>

\* ... cancels those still in flight after its five seconds ...
GraceElapses ==
    /\ process = "draining" /\ rpcs > 0
    /\ rpcs' = 0
    /\ UNCHANGED <<vars, process, startup, serving, thread, open>>

\* ... and returns when there is none.
LocalApiStopped ==
    /\ process = "draining" /\ rpcs = 0
    /\ process' = "closing"
    /\ UNCHANGED <<vars, startup, shutdown>>

\* Mutant: the channel is left to the garbage collector.
CloseCloudOnly ==
    /\ process = "closing" /\ "cloud" \in open
    /\ open' = open \ {"cloud"}
    /\ UNCHANGED <<vars, process, startup, serving, rpcs, thread>>

CloseClients ==
    /\ process = "closing" /\ open # {}
    /\ open' = IF "container_maker" \in open THEN {"cloud"} ELSE {}
    /\ UNCHANGED <<vars, process, startup, serving, rpcs, thread>>

\* asyncio.run joins the worker threads.
Exit ==
    /\ process = "closing" /\ "cloud" \notin open /\ ~ thread
    /\ process' = "down"
    /\ UNCHANGED <<vars, startup, shutdown>>

-----------------------------------------------------------------------------

StartUp == ReadKey \/ BuildClients \/ StartLocalApi
ShutDown == StopLocalApi \/ GraceElapses \/ LocalApiStopped \/ CloseClients \/ Exit

ProcessNext ==
    \/ StartUp \/ StartupFails
    \/ Running(Next)
    \/ ThreadEnds
    \/ RpcArrives \/ RpcEnds
    \/ ShutDown

ProcessSpec == ProcessInit /\ [][ProcessNext]_all

\* The process and the loop's tasks run, handlers end (LifecycleCommands), and
\* Cloud reads. Streams need not break, and need not last; a local call need
\* not end by itself, nor a worker thread while its channel is open.
ProcessFairSpec ==
    /\ ProcessSpec
    /\ WF_all(StartUp) /\ WF_all(ShutDown)
    /\ WF_all(Running(Start)) /\ WF_all(Running(Connect)) /\ WF_all(Running(Wake))
    /\ WF_all(Running(SessionEnds \/ SessionRaises))
    /\ WF_all(Running(Yield)) /\ WF_all(Running(ReadLoop)) /\ WF_all(Running(CloudReads))
    /\ WF_all(ThreadEnds /\ "container_maker" \notin open)

-----------------------------------------------------------------------------
(* Properties *)

\* The three parts of the mTLS credentials are of one version of the secret,
\* however it is rotated while they are read (k8s_secrets.py:55-58).
OneSecret ==
    \A i, j \in DOMAIN credentials : credentials[i] = credentials[j]

\* While a handler is at work Container Maker's callbacks are served and both
\* clients can be used; no local call is left with a closed client
\* (main.py:105-111).
HandlersAreServed ==
    /\ busy => serving /\ open = Client
    /\ rpcs > 0 => "cloud" \in open

\* Nothing at the end of a process waits for what cannot come: the finally
\* clause can go on, but for a worker thread, and that has no channel left to
\* wait on; a loop between two sessions can go on to the next; and in one the
\* read loop takes what has come or ends its handler
\* (main.py:108-111, grpc_client.py:111-127, 244).
NeverStuck ==
    /\ \/ process = "running" /\ loop \in {"ended", "cancelled"}
       \/ process = "draining"
       \/ process = "closing" /\ (open # {} \/ ~ thread)
       => ENABLED <<ShutDown>>_all
    /\ thread /\ "container_maker" \notin open =>
          ENABLED <<ThreadEnds /\ "container_maker" \notin open>>_all
    /\ loop = "connecting" /\ ~ stopped => ENABLED <<Running(Connect)>>_all
    /\ loop = "sleeping" => ENABLED <<Running(Wake)>>_all
    /\ loop = "session" /\ (busy \/ inbound # <<>>) => ENABLED <<Running(ReadLoop)>>_all

\* A loop that has ended, cancelled or stopped, ends the process, whatever
\* local call or call of Container Maker is left hanging (main.py:108-111).
ShutsDown == (loop \in {"ended", "cancelled"}) ~> (process = "down")
==============================================================================

# A verification development of the BrowseTerm device agent

The device agent runs on a user's machine, next to a Kubernetes cluster. Cloud
(browseterm-server) tells it over a bidirectional gRPC stream to create, resume,
save, hibernate and delete containers; the agent has Container Maker do the work
and brings the results back to Cloud; and it offers the workloads of the cluster a
small local API. This directory holds TLA+ models of that program, TLC runs of
them on small instances, and theorems about them that TLAPS checks for instances
of any size. All paths below are relative to `src/device_agent/`.

## 1. Inventory

| Component | State | Operations | What makes it correct |
|---|---|---|---|
| Command journal, `state/command_journal.py` | one SQLite row per command: status, generation, error, reported flag; survives restarts | `record_accepted` (insert or ignore), `record_running`, `record_result`, `mark_reported`, `has_seen`, `has_terminal_result`, `unreported_terminal_entries` | a command with a result is not run again; a result is kept until Cloud has it; a row keeps its command's generation |
| Control stream, `control/grpc_client.py` | `_outbound`, `_pending_resend_ids`, `_stopped`, the generator's and the read loop's position, `attempt` | `run_forever`, `_connect_once` with `outbound_gen`, `_handle_inbound`, `_heartbeat_loop`, `_send`, `stop` | nothing is marked reported that is not accounted for; an acknowledged command is durable; a new session does not carry the old one's messages; the agent never gives up |
| Backoff, `control/backoff.py` | none | `backoff_seconds` | the wait follows the number of failed connections |
| Command executor, `commands/executor.py`, and `report_result` in `main.py` | the placement cache, through the executor | `execute`, `_finish`, `_update_placement_cache`, `report_result` | journal before report; no success without work; cache and journal agree |
| Command handlers, `commands/{create,resume,delete,save,hibernate}.py`, `commands/save_execution.py` | local variables; pods, snapshot jobs and Cloud's snapshot rows outside | one call to Container Maker, or trigger, poll, delete | no pod is removed before its image is confirmed; a hibernation that succeeds leaves no pod; every handler ends |
| Container Maker client, `clients/container_maker_client.py`, `clients/retry.py` | `attempt` | create, delete, save, each under `call_with_retry` | a retry repeats only what the code accepts to repeat |
| Cloud HTTP client, `clients/cloud_client.py` | `attempt` of each call | twelve methods under two retry rules and two error conventions | a single-use ticket is not beaten by its own retry; no answer is invented where a default would do harm |
| Local API, `local_api/service.py` | none of its own; the stream's queue, the placement cache | three RPCs that queue an event, three that return a default, seven that abort | a status report carries the generation of the placement it is about |
| Placement cache, `state/placement_cache.py` | container to generation, in memory | `record`, `forget`, `get` | it vouches for what this process has placed and not removed, and for nothing else |
| Agent process, `main.py`, `clients/k8s_secrets.py` | the cached secret; which servers and clients are open | `run`: read credentials, build, start the local API, run the loop, and the finally clause; `get_secret` | one version of key, certificate and CA; handlers and local calls find what they use open; a loop that ends takes the process down |
| Snapshots, `commands/save_execution.py` with the local API's callbacks | Cloud's row of a request id, the workspace, the registry | `perform_save`; `GetContainer`, `UpdateContainerKubernetesId`, `AllocateSnapshot`, `ReportSnapshotResult` | what is taken as saved is no older than its command; a save that needs the agent's own answers ends |
| `config.py`, `observability/` | none | read once at start; output | not modelled (constants, output) |
| `reconciliation/` | - | an empty package | not modelled |

**How they interact.** `main.run` builds one of each. Two asyncio tasks work on the
stream: the *read loop* of `_connect_once`, which awaits each message's handling
(a whole command, up to ten minutes of save included) before it reads the next, and
the *request generator* `outbound_gen`, which grpc pulls: Hello first, then one
result per unreported journal row, then whatever is put on `_outbound`. A heartbeat
task and the RPCs of the local API put messages on that queue. `ConnectionManager`
calls `CommandExecutor.execute`, which calls a handler, which calls Container Maker
and Cloud; the executor writes the journal and calls back `report_result`, which
posts to Cloud over HTTP and marks the row on success. The next stream's generator
reads the rows that are left, and `hello_accepted` marks those.

A save turns the direction around: before Container Maker answers `saveContainer` it
looks the container up through the agent's own local API, and the snapshot job it
makes allocates its row and reports its end through that API too. The agent can
serve these calls while a handler waits because each call to Container Maker sits in
a worker thread (`asyncio.to_thread`). `main.run` starts the local API before the loop
and closes it, then the two clients, in its finally clause. Nothing in the repository
calls `ConnectionManager.stop`; the loop ends by cancellation, and `Stop` is modelled
because the class offers it.

**What is hard.** The stream is cut every 30 to 90 seconds by a proxy
(`clients/cloud_client.py:157-160`), so every sequence above is interrupted
anywhere; Cloud redelivers whatever it has no result of; the process may die
between any two steps; the journal may raise; HTTP answers and `UNAVAILABLE` do not
say whether the work was done; snapshot jobs report to Cloud on their own time, under
the request id that a redelivered command shares with its first execution;
status reports meet a cache that has moved on since the pod was seen.
`PROJECT.json` lists these hazards line by line with the properties aimed at them.

## 2. Modules

```
CommandJournal   PlacementCache ------------------.
        \         /                                \
      CommandPipeline  --implements-->  CommandLedger  StatusReports
              |
      (its handlers, its saves, its calls, its sessions in detail)
  LifecycleCommands  SnapshotSave   CloudCalls   ControlSession
          |               |                           |
     --implements--> --implements-->     (extended by, and implemented by)
     HandlerContract  SaveContract               AgentProcess
```

* **CommandJournal** has the rows and one operator per method. Every method is one
  autocommitted statement under a lock, hence one atomic step of its caller.
  `Legacy` are rows of a file older than the generation column.
* **PlacementCache** has the cache; 0 is "no entry", for generations start at 1.
* **CommandPipeline** is the core: a command's whole way from the stream through
  journal, executor, handler and report, and the resend on the next stream.
  `generator` and `reader` are the positions of the two tasks; `resends` is what
  the generator has read from the journal and not yet yielded, `wire` what is
  yielded and not yet read by Cloud. Steps interleave only where the code awaits:
  `EventLoopFree` keeps the generator still where the read loop runs without a
  suspension point (marking on `hello_accepted`; from `record_accepted` to the
  handler's first await). A handler is one step of Container Maker and one return;
  a report is one step of Cloud and one of its answer. Three actions raise:
  `RecordResultRaises` and `ReportRaises` end in `execute`'s except clause,
  `ExceptionEscapes` ends the connection. `Crash` loses all but the journal.
* **CommandLedger** is the abstract specification: per command an outcome, a
  reported flag and a count of work. `CommandPipeline` has the refinement mapping
  (status to outcome, `effects` to work) and `LedgerSpec`.
* **LifecycleCommands** opens up the handlers on one container: configs, the call
  each makes, `call_with_retry`'s attempts, `perform_save`'s poll against its
  deadline, both kinds of delete. The deadline is known by whether it has passed
  (`late`), which it may do at any time (`DeadlinePasses`): how many polls come before
  it is left open. Container Maker, the pods, the snapshot job and
  Cloud's snapshot rows are external. A command without a recorded result is begun
  again after a crash, as `CommandPipeline` shows.
* **HandlerContract** is the handlers' abstract specification: pods made, images
  pushed and pods removed only for a command without an outcome (an image perhaps
  after it), pods of a saving command removed only once its image is in the registry,
  an outcome that is final and says what was done. `LifecycleCommands` has the
  mapping (`Contract`) and `ContractSpec`.
* **SnapshotSave** follows what a save saves. The container's user edits on; a call
  that failed may still be at work in Container Maker, whose lookups and whose job call
  the agent back; Cloud keeps one row per request id and may keep or begin anew the
  row of an id it has seen. Abstractions: two jobs of one command in the same state are
  one; copying and pushing are one step; a poll may fail at any time, while crashes,
  failed calls, failed jobs and lost answers are counted by `MaxFaults`.
* **SaveContract** is the saves' abstract specification, with the workspace in it: a
  command is taken as saved by an image in the registry that is no older than the
  command, the pod is removed only for an open hibernation that is saved, and an outcome
  is final. `SnapshotSave` has the mapping (`Contract`) and `SaveSpec`.
* **CloudCalls** has the HTTP client: any number of calls at once, requests that are
  lost or served after their caller has gone, answers that are lost, the ticket Cloud gives out once, and what
  `local_api/service.py` tells its caller.
* **ControlSession** has `run_forever` and its backoff, the queue that each session
  makes anew, local events, heartbeats, pings behind busy handlers, and the start, stop
  and cancellation of the loop. The jitter is that of `config.py`'s default fraction.
* **AgentProcess** puts the loop into the process that runs it: credentials read
  from a secret that may be rotated between two reads, the clients, the local API and
  the calls it has in flight, the worker thread that a cancelled handler leaves behind,
  and the order in which the finally clause closes them. It EXTENDS `ControlSession`,
  and every action of that module is a step of `Running`.
* **StatusReports** has which placement a status report is taken to speak of, with
  placements, removals, observations and restarts interleaving freely.
* `MC*.tla` give TLC their instances; `*Proofs.tla` and `QueueLemmas` hold theorems.

`PROJECT.json` maps every definition to the lines it stands for. Cloud, the network,
Container Maker, the cluster, `snapshot_job` and `status_monitor` are modelled from
how the code uses them and marked external there.

**Abstractions.** Payloads (result JSON, messages, timestamps, resource figures) are
left out. Commands, containers and calls are opaque values. A command id carries
its operation, container and generation, as Cloud never reissues an id for
something else. The resends leave in any order (the code's `ORDER BY created_at` is
one of them). A mutant, marked in the modules, is the definition below it changed
as a plausible bug would change it; each property is shown to fail for one.

## 3. Runs

| Run | Instance and bounds | Checks |
|---|---|---|
| `MCPlace` | a Create and a Hibernate of one container, one crash; streams cut at will | `TypeOK`, `LostOnlyInTransit`, `AcknowledgedIsDurable`, `CacheIsBacked`, `RemovalClearsCache`, `LedgerSpec` |
| `MCFaults` | one Create, two crashes, two exceptions, fair | `ReexecutionNeedsFault`, `SuccessIsBacked`, `AnswersAgree`, `NeverStuck`, `EventuallyReported` |
| `MCLegacy` | a Resume accepted by an older agent, a command without a handler, one crash | `GenerationTravels` |
| `MCHibernate` | a Create, a saving Hibernate and a Save; one crash, one lost answer, three attempts | `ImageBeforeAnything`, `PodsAreOwed`, `HibernatedIsGone`, `ContractSpec` |
| `MCHandlerEnds` | a Resume without image, a Hibernate whose config does not parse, one that skips the save, and a Delete; one crash, one lost answer, fair | `NeverStuck`, `HandlerEnds` |
| `MCCalls` | two terminals with one ticket, beside `get_active_container_ids`; up to three attempts each; fair | `TypeOK`, `NeverBeatenByItself`, `TargetGoesToTaker`, `NothingInvented`, `NeverStuck`, `CallsEnd` |
| `MCSession` | one process: one rotation of the secret, one local call in flight; sessions numbered 1, 2, 1, ...; two events, queues of two, the schedule's first two steps; fair | `ProcessTypeOK`, `FreshSession`, `EventsInOrder`, `BackoffGrows`, `OneSecret`, `HandlersAreServed`, `NeverStuck`, `NeverGivesUp`, `PingAnswered`, `ShutsDown` |
| `MCSnapshot` | a Save and a Hibernate; one edit, two attempts, two faults; fair | `FreshSave`, `NeverStuck`, `SaveSpec`, `SaveEnds` |
| `MCStatus` | one container, two placements, any number of restarts | `PlacedIsVouchedFor`, `RemovedStaysRemoved` |

`MCLostResult`, `MCMisapplied` and `MCStaleSave` end in a counterexample (section 6).
No run uses symmetry, which liveness would not allow.

**Why the bounds are enough.** The properties of the pipeline relate one command to
its row, its messages and its container; two commands on one container give every
interference between commands there is, for the executor runs one at a time and the
cache holds one entry per container. One crash or exception separates a step from
its successor, a second one interrupts the recovery; a third only repeats. Cloud
keeps at most one copy of a command on its way per stream, but redelivers on the
same stream as soon as that copy is read. Two sessions, numbered in turn, tell an
old one from the new. Two placements tell a stale generation from the current one.
One rotation tells two versions of a secret apart, one edit the workspace before it
from the one after it, and two faults are a failed call and the crash or lost answer
that follows it. The schedule's two steps are one at which the wait grows and one at
which it stays.
`EventuallyReported` is checked of a single command: with two, the network may cut
every stream while the second still waits behind the first one's redelivery, and only
an assumption on how often that happens, which nothing in the code supports, would
exclude it. The theorems of section 5 remove the bounds from the safety properties
they state.

**Deadlock** is checked in the pipeline and in the status reports, which go on for
ever. The other modules may stop: when every command has its result
(`LifecycleCommands`, `SnapshotSave`), every call has ended (`CloudCalls`), or the
process is down (`AgentProcess`).

## 4. Fairness

* `CommandPipeline!Fairness`: asyncio and grpc run a task that can run, so the
  connection, the generator, the read loop and Cloud's reading are weakly fair. Cloud
  redelivers a command it has no result of, and one of its deliveries is read
  (`Redelivery`; strong fairness: each cut undoes the enabling). From some point on a stream lives
  through its start (`Settled`) and is cut afterwards; this is what
  `clients/cloud_client.py:157-160` describes, and without it a network that cuts
  every stream at once would refute any progress.
* `LifecycleCommands!FairSpec`: the handler runs, time passes, and a call to Container
  Maker comes back. The last is an assumption on Container Maker and the
  channel: the code sets no timeout (`clients/container_maker_client.py:87`). Cloud
  is assumed nothing of: a poll may fail every time.
* `SnapshotSave!FairSpec`: the event loop and time go on, and Container Maker takes
  calls and goes on with the one that is awaited, an assumption on an external program.
  That it refuses a call it has not looked up, failures and a job's end are never assumed, and its lookups need the local
  API: this is what `SaveEnds` turns on.
* `CloudCalls!FairSpec`: timers run out and sleepers are resumed. `TimesOut` is the
  timeout of ten seconds that `clients/cloud_client.py:57-59` gives the client; httpx
  counts it anew for each piece of an answer, and an answer is one piece here.
  Nothing is assumed of Cloud or of the network.
* `AgentProcess!ProcessFairSpec`: the process, the loop's tasks and Cloud's reading go
  on, and handlers end (`MCHandlerEnds`, `MCSnapshot`). A session need neither break
  nor last; nothing is assumed of `Stop` or `Cancel`, of the callers of the local API,
  or of Container Maker's answer to a thread while its channel is open. That a thread
  ends once the channel is closed is grpc's promise.

## 5. Theorems

Proved with TLAPS for all values of the constants, from the assumptions named in
the modules (the operators' ranges, generations of at least 1, bounds in `Nat`).
Each follows from an inductive invariant, for none of the properties is inductive:

* **CommandPipelineProofs.** `IInv` is `TypeOK` with: the read loop stands where the
  current command's row says (`ControlInv`); only a row with a result is marked or
  waits to be (`ReportedInv`); of executions only the one under way is not yet
  counted against a crash or an exception (`CountInv`); each marked or to-be-marked
  command is `Answered`, in transit or torn, and results carry their generation
  (`CoverInv`); rows, messages and the position of the read loop that speak of a
  success have work behind them (`BackingInv`). From it: `TypeCorrect`,
  `RedeliveryIsSafe`, `NothingLostElsewhere`, `NoFalseSuccess`, `GenerationIsKept`,
  and `ImplementsLedger`, where each action maps to one ledger action or a stutter.
  Two further invariants rest on `IInv`: whatever acknowledges a command, in a queue or
  on the wire, has a row (`AcknowledgementsAreKept`), and a generation in the cache is
  backed by a success that is recorded or about to be (`CacheFollowsJournal`).
  `RemovalsClear` is an action property proved from them. `AnswersAgree` is preserved
  given `IInv` (`OneAnswer`): what was collected, written or taken says what the
  journal says, which a crash keeps and only a report that raises changes.
  `ExactlyOnce` joins the counting and the backing: without faults a success Cloud has
  heard of is work done once, neither twice nor not at all. For the last part, what a
  stream may hold: what the agent has sent and what Cloud has on its way, with where
  the generator and the read loop stand (`UpInv`, `DownInv`). Under fairness:
  `EveryCommandIsReported`.
* **LifecycleCommandsProofs.** `IInv` adds to the types: a handler stands only
  where its operation leads (`PhaseInv`); whatever says succeeded (a job that has
  pushed, Cloud's row, the last poll, a handler at its delete) has an image in the
  registry (`ImageInv`); pods stay gone from a delete's OK to its return
  (`GoneInv`); a command without a result owes at most its crashes and lost answers
  (`PodsInv`). From it: `TypeCorrect`, `NothingGivenUpUnsaved`, `ExtraPodsAreOwed`,
  `SuccessLeavesNoPod`, and `HandlersKeepTheContract`, the refinement of
  `HandlerContract`: every step of a handler, of Container Maker or of a job is one of
  the contract's, or a stutter. `HandlersGoForward` is the action property that no step
  takes a handler back to an earlier stage, attempt or answer. Under fairness:
  `EveryHandlerEnds`.
* **SnapshotSaveProofs.** `IInv`: at most one of Container Maker's saves is waited for
  (`OneAwaited`); whatever speaks of a command follows its beginning (`Begun`); what
  is pushed, reported, polled and confirmed of it is in the registry and no older than
  its beginning (`Pushed`, `Reported`, `Polled`, `Confirmed`); deletes, successes and
  missing pods have a confirmation behind them (`Deleting`, `Succeeding`, `Deleted`).
  From it: `SaveTypes`, `SavesAreFresh`, and, with the further invariant that a handler
  works for an open command, that what it deleted stays gone and that no image is of a
  workspace still to come (`ContractInv`), `SavesKeepTheContract`, the
  refinement of `SaveContract`. Under fairness: `EverySaveEnds`.
* **CloudCallsProofs.** A ticket's request is sent again only if it never left, so
  it is in one place at a time and none of its own is left to be refused once the
  ticket is used up for it (`TicketInv`). From it: `TypeCorrect`, `TicketNotLost`,
  `OneTarget`. `OnlyCloudAnswers` needs no invariant: it follows from what each
  method makes of an answer. `StepsRunOut` says, without fairness, that each step of a
  call takes one from what `Left` counts. Under fairness: `EveryCallEnds`.
* **ControlSessionProofs.** The queue and the stream of a session hold heartbeats and
  pongs of no other session (`StreamInv`); the events on their way, after those that
  Cloud has read, are in order (`OrderInv`); the attempts keep up with the failures in
  a row (`BackoffInv`). From it: `TypeCorrect`, `SessionsAreFresh`, `EventsStayInOrder`,
  `WaitsGrow`, for any schedule that does not fall and any number of sessions.
* **AgentProcessProofs.** `ProcessInv` ties where the process stands to what it has
  read, serves and keeps open. From it: `ProcessTypes`, `CredentialsMatch`,
  `ServedToTheEnd`; and `ProcessImplementsSession`, by which every theorem about
  `ControlSession` holds of the process (`SessionsInProcess`). Under fairness:
  `EveryProcessEnds` and `ReconnectsForEver`, on `LoopInv`: a loop that is under way runs
  in a process that is, and one that ended by itself was stopped; and `EveryPingMovesUp`
  and `EveryPingIsAnswered`.
* **StatusReportsProofs.** The cache vouches only for what this process saw through,
  and for nothing once a removal was the last thing done (`CacheInv`), so reports
  from after a removal carry no generation (`ReportInv`). From it: `TypeCorrect`,
  `Vouching`, `NoResurrection`.
* **QueueLemmas** has what `Append`, `Tail` and `SubSeq` do to a queue's range.

**Liveness.** The liveness properties of the runs are theorems of the form
`FairSpec /\ []NeverStuck => ...`. `NeverStuck` says of which waits the next step is
ENABLED: a call that is out can be answered, a handler that is not in a call can go on, a
deadline comes, the read loop can take what has come, the finally clause can proceed.
ENABLED is out of the prover's reach, so that `NeverStuck` always holds is what TLC
checks, as an invariant of the same runs, and a mutant breaks it in each; all of the
temporal argument is proved. It goes: by fairness and `NeverStuck` each wait is left; by
the invariant it is left forward only; hence the chain of stages ends.

| Theorem | Property | The chain |
|---|---|---|
| `EveryCallEnds` | `CallsEnd` | waiting, failed, and the next attempt, of at most five (`AttemptsBound`) |
| `EveryHandlerEnds` | `HandlerEnds` | the attempts of a call, the polls until the deadline, those of the delete |
| `EverySaveEnds` | `SaveEnds` | the attempts, each with its lookup and its answer, the polls, the delete |
| `EveryProcessEnds` | `ShutsDown` | stopping, draining, each client, the thread, down |
| `ReconnectsForEver` | `NeverGivesUp` | sleeping, connecting, in session |
| `EveryPingIsAnswered` | `PingAnswered` | the places in the queue, each behind a handler or not |
| `EveryCommandIsReported` | `EventuallyReported` | see below |

`EveryHandlerEnds` and `EverySaveEnds` assume `MaxAttempts <= 3`, the value of
`clients/retry.py:17`: a chain of any length would need induction over data, which the
prover does not have. Commands, crashes, lost answers, edits and faults are any number.

`EveryPingMovesUp` has no bound: in a queue of any length the first ping is answered and
every other one moves up a place. Joining the places to an answer from each of them is
again an induction, so `EveryPingIsAnswered` assumes `MaxQueue <= 4`, a bound of the model
only: agent and channel have none.

`EveryCommandIsReported` has two hypotheses more. One is that there is a single command,
for the reason section 3 gives. The other is `FaultsEnd`: from some point on nothing
crashes and nothing raises. Every behaviour of the model satisfies it, since crashes and
exceptions are bounded, but to derive it from the bounds is an induction over them. The
argument is by contradiction. Suppose that from some point on nothing fails and a row is
owed for ever: accepted, and never marked. Then the agent puts it down: its handler and
its report end, and no `hello_accepted` is marking it (`ComesToRest`). So streams come
and go for ever, each is made, sends Hello and has its `hello_accepted` read before it is
cut (`StreamsComeAndGo`). If the row has a result, a stream collects it at its start, it
stays collected, and the next `hello_accepted` marks it (`ResultIsNotLeft`); that the
result may be lost all the same is section 6. If it has none, Cloud has none either
(`OnlyResultsAnswer`) and sends the command again and again, one delivery is read behind
what precedes it, and its acceptance takes the row up again (`CommandIsNotLeft`).

**Only model-checked.** The five `NeverStuck`, which are about ENABLED. Every other
property of the passing runs is also a theorem.
`TypeOK` of `LifecycleCommands`, `SnapshotSave` and `StatusReports`, and the action
properties `CallsWearOut` and `HandlerWearsOut` of the proof modules, are theorems and in
no run.
No module uses a RECURSIVE operator, and no theorem needs induction over data.

## 6. Where code and documentation part

Three runs end in a counterexample to a sentence of the repository; `PROJECT.json`
quotes each.

1. `MCLostResult`: `hello_accepted` marks results reported that the stream then
   loses, or that were collected for an earlier stream. The journal's "instead of
   losing it" does not hold. `LostOnlyInTransit` is what does: such a result was in
   transit on a stream that was lost.
2. `MCMisapplied`: a report is stamped with the generation at its receipt and so can
   speak of the next placement.
3. `MCStaleSave`: a redelivered hibernation polls under the request id of its first
   execution. If that execution's job has reported in the meantime, its row confirms
   the save just triggered, and the pod is deleted with the edits made since
   (`commands/save_execution.py:80-88`). `FreshSave` is what does hold: what is taken
   as saved is no older than the command's first beginning.

The bounds and exceptions written into properties that hold say where more
sentences claim more than the code does:

* `ReexecutionNeedsFault` counts crashes: "redelivery after a reconnect never
  re-executes a command" (`state/command_journal.py:7-8`) fails for one between the
  work and its record. It counts exceptions too: the except clause around the handler
  also catches what reporting raises, and turns a recorded success into a failure
  (`commands/executor.py:67`).
* `PodsAreOwed` counts lost answers: UNAVAILABLE is not always "never actually
  reached container-maker" (`clients/container_maker_client.py:33-36`).
* `GenerationTravels` excepts `Legacy`: a row from before the generation column is
  finished and resent with 0 (`control/grpc_client.py:86-88` says otherwise).
* `ImageBeforeAnything` says nothing of failures: a hibernation begun again after its
  delete finds no pod to save, and its `SNAPSHOT_FAILED` does not mean the pod was left
  "running, untouched" (`commands/hibernate.py:15-16`). Nor does `HibernatedIsGone`: one
  whose delete loses its answer reports the pod still there
  (`commands/hibernate.py:101-106`).

## 7. Not modelled

* The body of requests, results and answers, and with it
  `strip_container_maker_suffix` (`commands/_util.py`), a conversion of a field of a
  result that nothing in the agent reads back; timestamps.
* `config.py` (constants, given to the modules as CONSTANTS), logging, the empty
  `reconciliation` package, build and deployment files.
* TLS itself, and `clear_cache` of the secret reader, which nothing calls.
* Cloud's own bookkeeping beyond what its answers reveal. A late reconcile request may
  overwrite the picture a newer one gave Cloud: it carries neither a time nor a number
  by which anything in this repository could tell.
* Which errors Container Maker words as "not found".
* The growth of the journal: nothing removes a row.

## 8. What is left

The modules meet at names, not in one state space: `CommandPipeline` takes a handler
as one step of Container Maker, which `LifecycleCommands` and `SnapshotSave` open up,
and `StatusReports` has commands of its own. Composing `StatusReports` with
`ControlSession`'s queue and with the executor of `CommandPipeline` would close two of
these gaps; as `StatusReports` lets a report be lost and overtaken at any time, its
theorems already cover what such a queue can do to one.

---------------------------- MODULE StatusReports ----------------------------
(***************************************************************************)
(* Which placement a status report is taken to speak of. status_monitor    *)
(* sees pods, and a pod does not carry its placement generation; so        *)
(* ReportContainerStatus (local_api/service.py) stamps each report with    *)
(* the generation CommandExecutor left in the placement cache, and Cloud   *)
(* applies it only if that is the container's generation now. Reports, the *)
(* commands that place and remove a container, and restarts interleave     *)
(* freely. Cloud, Container Maker and status_monitor are external.         *)
(***************************************************************************)
EXTENDS PlacementCache

CONSTANTS
    MaxGeneration     \* bound: placements of one container

ASSUME BoundAssumption == MaxGeneration \in Nat

VARIABLES
    generation,    \* generation[k]: Cloud's placement generation of k
    command,       \* command[k]: what the agent is at work on for k
    pod,           \* pod[k]: the placement its pod belongs to, 0: no pod
    observed,      \* what status_monitor has seen and not yet reported
    reports,       \* stamped, on their way to Cloud
    applied,       \* history: the reports Cloud has applied
    vouched,       \* history: the placement this process knows done last
    removed        \* history: a removal was the last command done for k

vars == <<placement_cache, generation, command, pod, observed, reports, applied,
          vouched, removed>>

\* What the agent does for a container, and how far it is.
Working == {"none", "place", "placed", "remove", "gone"}

Observation == [container: Container, placement: Nat]
Report == [container: Container, placement: Nat, removed: BOOLEAN,
           placement_generation: Nat]

TypeOK ==
    /\ CacheTypeOK
    /\ generation \in [Container -> 0..MaxGeneration]
    /\ command \in [Container -> Working]
    /\ pod \in [Container -> 0..MaxGeneration]
    /\ observed \subseteq Observation
    /\ reports \subseteq Report
    /\ applied \subseteq Report
    /\ vouched \in [Container -> 0..MaxGeneration]
    /\ removed \in [Container -> BOOLEAN]

Init ==
    /\ placement_cache = EmptyCache
    /\ generation = [k \in Container |-> 0]
    /\ command = [k \in Container |-> "none"]
    /\ pod = [k \in Container |-> 0]
    /\ observed = {}
    /\ reports = {}
    /\ applied = {}
    /\ vouched = [k \in Container |-> 0]
    /\ removed = [k \in Container |-> FALSE]

-----------------------------------------------------------------------------
(* Commands *)

\* Cloud places a container that has no pod under a new generation.
IssuePlacement(k) ==
    /\ command[k] = "none" /\ pod[k] = 0
    /\ generation[k] < MaxGeneration
    /\ generation' = [generation EXCEPT ![k] = @ + 1]
    /\ command' = [command EXCEPT ![k] = "place"]
    /\ UNCHANGED <<placement_cache, pod, observed, reports, applied, vouched, removed>>

IssueRemoval(k) ==
    /\ command[k] = "none" /\ generation[k] > 0
    /\ command' = [command EXCEPT ![k] = "remove"]
    /\ UNCHANGED <<placement_cache, generation, pod, observed, reports, applied,
                   vouched, removed>>

ContainerMakerActs(k) ==
    /\ \/ /\ command[k] = "place"
          /\ pod' = [pod EXCEPT ![k] = generation[k]]
          /\ command' = [command EXCEPT ![k] = "placed"]
       \/ /\ command[k] = "remove"
          /\ pod' = [pod EXCEPT ![k] = 0]
          /\ command' = [command EXCEPT ![k] = "gone"]
    /\ UNCHANGED <<placement_cache, generation, observed, reports, applied, vouched,
                   removed>>

\* Mutant: a placement is not remembered.
PlacementForgotten(k) ==
    /\ command[k] = "placed"
    /\ Forget(k)
    /\ command' = [command EXCEPT ![k] = "none"]
    /\ vouched' = [vouched EXCEPT ![k] = generation[k]]
    /\ removed' = [removed EXCEPT ![k] = FALSE]
    /\ UNCHANGED <<generation, pod, observed, reports, applied>>

\* _update_placement_cache after a Create or Resume, ...
PlacementDone(k) ==
    /\ command[k] = "placed"
    /\ Record(k, generation[k])
    /\ command' = [command EXCEPT ![k] = "none"]
    /\ vouched' = [vouched EXCEPT ![k] = generation[k]]
    /\ removed' = [removed EXCEPT ![k] = FALSE]
    /\ UNCHANGED <<generation, pod, observed, reports, applied>>

\* Mutant: a removal leaves the entry.
RemovalRemembered(k) ==
    /\ command[k] = "gone"
    /\ command' = [command EXCEPT ![k] = "none"]
    /\ vouched' = [vouched EXCEPT ![k] = 0]
    /\ removed' = [removed EXCEPT ![k] = TRUE]
    /\ UNCHANGED <<placement_cache, generation, pod, observed, reports, applied>>

\* ... and after a Delete or Hibernate.
RemovalDone(k) ==
    /\ command[k] = "gone"
    /\ Forget(k)
    /\ command' = [command EXCEPT ![k] = "none"]
    /\ vouched' = [vouched EXCEPT ![k] = 0]
    /\ removed' = [removed EXCEPT ![k] = TRUE]
    /\ UNCHANGED <<generation, pod, observed, reports, applied>>

\* A command that fails, its work done or not, leaves the cache as it is.
CommandFails(k) ==
    /\ command[k] # "none"
    /\ command' = [command EXCEPT ![k] = "none"]
    /\ UNCHANGED <<placement_cache, generation, pod, observed, reports, applied,
                   vouched, removed>>

-----------------------------------------------------------------------------
(* Reports *)

\* The pod's phase, or that it is gone: the placement is the pod's own.
Observe(k) ==
    /\ pod[k] # 0
    /\ observed' = observed \cup {[container |-> k, placement |-> pod[k]]}
    /\ \/ pod' = [pod EXCEPT ![k] = 0]
       \/ UNCHANGED pod
    /\ UNCHANGED <<placement_cache, generation, command, reports, applied, vouched,
                   removed>>

\* The cached generation, or the caller's, which from status_monitor is 0.
Stamp(k) == placement_cache[k]

\* With, for the record, whether k's removal is the last thing that happened.
Stamped(o) ==
    [container |-> o.container, placement |-> o.placement,
     removed |-> removed[o.container] /\ command[o.container] = "none",
     placement_generation |-> Stamp(o.container)]

ReportContainerStatus(o) ==
    /\ o \in observed
    /\ observed' = observed \ {o}
    /\ reports' = reports \cup {Stamped(o)}
    /\ UNCHANGED <<placement_cache, generation, command, pod, applied, vouched, removed>>

\* conditional_container_update: an exact match, or nothing.
CloudApplies(r) ==
    /\ r \in reports
    /\ reports' = reports \ {r}
    /\ applied' = IF r.placement_generation = generation[r.container]
                  THEN applied \cup {r} ELSE applied
    /\ UNCHANGED <<placement_cache, generation, command, pod, observed, vouched, removed>>

\* With the stream, or with the queue of a session that is over.
ReportLost(r) ==
    /\ r \in reports
    /\ reports' = reports \ {r}
    /\ UNCHANGED <<placement_cache, generation, command, pod, observed, applied,
                   vouched, removed>>

\* A command at work is delivered and begun again.
Crash ==
    /\ placement_cache' = EmptyCache
    /\ command' = [k \in Container |->
                      CASE command[k] = "placed" -> "place"
                        [] command[k] = "gone" -> "remove"
                        [] OTHER -> command[k]]
    /\ reports' = {}
    /\ vouched' = [k \in Container |-> 0]
    /\ UNCHANGED <<generation, pod, observed, applied, removed>>

-----------------------------------------------------------------------------

Commanding(k) ==
    \/ IssuePlacement(k) \/ IssueRemoval(k)
    \/ ContainerMakerActs(k)
    \/ PlacementDone(k) \/ RemovalDone(k) \/ CommandFails(k)

Next ==
    \/ \E k \in Container : Commanding(k) \/ Observe(k)
    \/ \E o \in observed : ReportContainerStatus(o)
    \/ \E r \in reports : CloudApplies(r) \/ ReportLost(r)
    \/ Crash

Spec == Init /\ [][Next]_vars

-----------------------------------------------------------------------------
(* Properties *)

\* While a container's pod runs and no newer command is under way, a process
\* that saw its placement through vouches for it with exactly the generation
\* Cloud has it at, so its status gets through (placement_cache.py:12-17).
PlacedIsVouchedFor ==
    \A k \in Container :
        command[k] = "none" /\ pod[k] # 0 /\ vouched[k] = generation[k]
            => placement_cache[k] = generation[k]

\* Nothing status_monitor reports of a container after its removal was
\* recorded changes it at Cloud: a straggling "Running" does not bring a
\* hibernated container back, and neither does a restart
\* (executor.py:76-77, service.py:46-51).
RemovedStaysRemoved == \A r \in applied : ~ r.removed

(* What the documentation says and the code does not do *)

\* "so `ReportContainerStatus` can supply the real value"
\* (placement_cache.py:14-15): what Cloud applies to a placement was seen of
\* that placement.
AppliedToOwnPlacement == \A r \in applied : r.placement = r.placement_generation
==============================================================================

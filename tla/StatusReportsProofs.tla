------------------------- MODULE StatusReportsProofs -------------------------
(***************************************************************************)
(* StatusReports for any containers and any number of placements: its      *)
(* types, that a placement seen through is vouched for exactly, and that   *)
(* no report from after a removal is applied.                              *)
(***************************************************************************)
EXTENDS StatusReports, TLAPS

\* The cache vouches for nothing but what this process saw through, and for
\* nothing at all once a removal is the last thing done; a report made then
\* carries 0, and only a container that was placed is ever removed.
CacheInv ==
    \A k \in Container :
        /\ vouched[k] # 0 => placement_cache[k] = vouched[k]
        /\ command[k] \in {"remove", "gone"} => generation[k] > 0
        /\ removed[k] => generation[k] > 0 /\ placement_cache[k] = Unplaced
        /\ pod[k] # 0 => generation[k] > 0

ReportInv ==
    /\ \A r \in reports :
          r.removed => r.placement_generation = Unplaced /\ generation[r.container] > 0
    /\ \A r \in applied : ~ r.removed

IInv == TypeOK /\ CacheInv /\ ReportInv

\* A process that has placed nothing is well typed.
LEMMA TypeInit == Init => TypeOK
  BY BoundAssumption
  DEF Init, TypeOK, CacheTypeOK, EmptyCache, Unplaced, Working, Observation, Report

\* Every step of a command, a report or a restart keeps the types.
LEMMA TypeStep == TypeOK /\ [Next]_vars => TypeOK'
  <1>. SUFFICES ASSUME TypeOK, [Next]_vars PROVE TypeOK'
    OBVIOUS
  <1>. USE BoundAssumption DEF TypeOK, CacheTypeOK, Working
  <1>1. ASSUME NEW k \in Container, IssuePlacement(k) PROVE TypeOK'
    BY <1>1 DEF IssuePlacement
  <1>2. ASSUME NEW k \in Container, IssueRemoval(k) PROVE TypeOK'
    BY <1>2 DEF IssueRemoval
  <1>3. ASSUME NEW k \in Container, ContainerMakerActs(k) PROVE TypeOK'
    BY <1>3 DEF ContainerMakerActs
  <1>4. ASSUME NEW k \in Container, PlacementDone(k) PROVE TypeOK'
    BY <1>4 DEF PlacementDone, Record
  <1>5. ASSUME NEW k \in Container, RemovalDone(k) PROVE TypeOK'
    BY <1>5 DEF RemovalDone, Forget, Unplaced
  <1>6. ASSUME NEW k \in Container, CommandFails(k) PROVE TypeOK'
    BY <1>6 DEF CommandFails
  <1>7. ASSUME NEW k \in Container, Observe(k) PROVE TypeOK'
    BY <1>7 DEF Observe, Observation
  <1>8. ASSUME NEW o \in observed, ReportContainerStatus(o) PROVE TypeOK'
    <2>1. o.container \in Container /\ o.placement \in Nat
      BY DEF Observation
    <2>2. (removed[o.container] /\ command[o.container] = "none") \in BOOLEAN
      OBVIOUS
    <2>3. Stamp(o.container) \in Nat
      BY <2>1 DEF Stamp
    <2>4. Stamped(o) \in Report
      BY <2>1, <2>2, <2>3 DEF Stamped, Report
    <2>. QED  BY <1>8, <2>4 DEF ReportContainerStatus
  <1>9. ASSUME NEW r \in reports, CloudApplies(r) PROVE TypeOK'
    BY <1>9 DEF CloudApplies
  <1>10. ASSUME NEW r \in reports, ReportLost(r) PROVE TypeOK'
    BY <1>10 DEF ReportLost
  <1>11. CASE Crash
    BY <1>11 DEF Crash, EmptyCache, Unplaced
  <1>12. CASE UNCHANGED vars
    BY <1>12 DEF vars
  <1>. QED
    BY <1>1, <1>2, <1>3, <1>4, <1>5, <1>6, <1>7, <1>8, <1>9, <1>10, <1>11, <1>12
    DEF Next, Commanding

\* Every step keeps the cache to what this process has seen through.
LEMMA CacheStep == IInv /\ [Next]_vars => CacheInv'
  <1>. SUFFICES ASSUME IInv, [Next]_vars PROVE CacheInv'
    OBVIOUS
  <1>. USE BoundAssumption DEF IInv, TypeOK, CacheTypeOK, Working, CacheInv, Unplaced
  <1>1. ASSUME NEW k \in Container, IssuePlacement(k) PROVE CacheInv'
    BY <1>1 DEF IssuePlacement
  <1>2. ASSUME NEW k \in Container, IssueRemoval(k) PROVE CacheInv'
    BY <1>2 DEF IssueRemoval
  <1>3. ASSUME NEW k \in Container, ContainerMakerActs(k) PROVE CacheInv'
    BY <1>3 DEF ContainerMakerActs
  <1>4. ASSUME NEW k \in Container, PlacementDone(k) PROVE CacheInv'
    BY <1>4 DEF PlacementDone, Record
  <1>5. ASSUME NEW k \in Container, RemovalDone(k) PROVE CacheInv'
    BY <1>5 DEF RemovalDone, Forget
  <1>6. ASSUME NEW k \in Container, CommandFails(k) PROVE CacheInv'
    BY <1>6 DEF CommandFails
  <1>7. ASSUME NEW k \in Container, Observe(k) PROVE CacheInv'
    BY <1>7 DEF Observe
  <1>8. CASE Crash
    BY <1>8 DEF Crash, EmptyCache
  <1>9. CASE UNCHANGED <<placement_cache, generation, command, pod, vouched, removed>>
    BY <1>9
  <1>. QED
    BY <1>1, <1>2, <1>3, <1>4, <1>5, <1>6, <1>7, <1>8, <1>9
    DEF Next, Commanding, ReportContainerStatus, CloudApplies, ReportLost, vars

\* Every step keeps the reports made after a removal without a generation.
LEMMA ReportStep == IInv /\ [Next]_vars => ReportInv'
  <1>. SUFFICES ASSUME IInv, [Next]_vars PROVE ReportInv'
    OBVIOUS
  <1>. USE BoundAssumption DEF IInv, ReportInv
  <1>1. ASSUME NEW k \in Container, IssuePlacement(k) PROVE ReportInv'
    BY <1>1 DEF IssuePlacement, TypeOK, Report
  <1>2. ASSUME NEW o \in observed, ReportContainerStatus(o) PROVE ReportInv'
    <2>1. o.container \in Container
      BY DEF TypeOK, Observation
    <2>2. removed[o.container] =>
             Stamp(o.container) = Unplaced /\ generation[o.container] > 0
      BY <2>1 DEF CacheInv, Stamp
    <2>3. /\ Stamped(o).removed => removed[o.container]
          /\ Stamped(o).placement_generation = Stamp(o.container)
          /\ Stamped(o).container = o.container
      BY DEF Stamped
    <2>. QED  BY <1>2, <2>2, <2>3 DEF ReportContainerStatus
  <1>3. ASSUME NEW r \in reports, CloudApplies(r) PROVE ReportInv'
    <2>1. r.removed => r.placement_generation # generation[r.container]
      BY DEF Unplaced
    <2>. QED  BY <1>3, <2>1 DEF CloudApplies
  <1>4. ASSUME NEW r \in reports, ReportLost(r) PROVE ReportInv'
    BY <1>4 DEF ReportLost
  <1>5. CASE Crash
    BY <1>5 DEF Crash
  <1>6. CASE UNCHANGED <<generation, reports, applied>>
    BY <1>6
  <1>. QED
    BY <1>1, <1>2, <1>3, <1>4, <1>5, <1>6
    DEF Next, Commanding, IssueRemoval, ContainerMakerActs, PlacementDone,
        RemovalDone, CommandFails, Observe, vars

\* The invariant holds when the agent is first started.
LEMMA InvInit == Init => IInv
  <1>1. Init => CacheInv /\ ReportInv
    BY DEF Init, CacheInv, ReportInv, EmptyCache, Unplaced
  <1>. QED  BY <1>1, TypeInit DEF IInv

\* Every step keeps the invariant.
LEMMA InvStep == IInv /\ [Next]_vars => IInv'
  BY TypeStep, CacheStep, ReportStep DEF IInv

\* The inductive invariant holds of every behaviour of the reports.
THEOREM Invariance == Spec => []IInv
  BY InvInit, InvStep, PTL DEF Spec

\* Every variable keeps its type: in particular no report is stamped with
\* anything but a generation (local_api/service.py).
THEOREM TypeCorrect == Spec => []TypeOK
  <1>1. IInv => TypeOK
    BY DEF IInv
  <1>. QED  BY <1>1, Invariance, PTL

\* A placement this process saw through is vouched for with Cloud's own
\* generation of the container.
THEOREM Vouching == Spec => []PlacedIsVouchedFor
  <1>1. IInv => PlacedIsVouchedFor
    BY DEF IInv, CacheInv, PlacedIsVouchedFor
  <1>. QED  BY <1>1, Invariance, PTL

\* No report from after a removal changes the container at Cloud.
THEOREM NoResurrection == Spec => []RemovedStaysRemoved
  <1>1. IInv => RemovedStaysRemoved
    BY DEF IInv, ReportInv, RemovedStaysRemoved
  <1>. QED  BY <1>1, Invariance, PTL
==============================================================================

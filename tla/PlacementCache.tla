--------------------------- MODULE PlacementCache ---------------------------
(***************************************************************************)
(* The in-memory cache of placement generations                            *)
(* (state/placement_cache.py): which generation last placed a container on *)
(* this device. It is lost with the process. Generations start at 1, so 0  *)
(* stands for "no entry". The device_id kept beside the generation is the  *)
(* same for every entry of an agent and is left out.                       *)
(***************************************************************************)
EXTENDS Naturals

CONSTANT Container

VARIABLE placement_cache

Unplaced == 0

CacheTypeOK == placement_cache \in [Container -> Nat]

EmptyCache == [k \in Container |-> Unplaced]

Record(k, g) == placement_cache' = [placement_cache EXCEPT ![k] = g]

Forget(k) == placement_cache' = [placement_cache EXCEPT ![k] = Unplaced]
=============================================================================

-------------------------- MODULE MCCommandPipeline --------------------------
(* Small instances of CommandPipeline: two commands at most. *)
EXTENDS CommandPipeline, TLC

CONSTANTS c1, c2, k1

\* c1 places container k1 under generation 1, c2 takes it off again.
PlaceContainerOf == (c1 :> k1) @@ (c2 :> k1)
PlaceOperation == (c1 :> "Create") @@ (c2 :> "Hibernate")
PlaceGeneration == (c1 :> 1) @@ (c2 :> 2)

\* c1 was accepted before the journal had a generation column, c2 asks for
\* an operation no handler is registered for.
LegacyOperation == (c1 :> "Resume") @@ (c2 :> "Reconcile")

\* One command.
OneContainerOf == c1 :> k1
OneOperation == c1 :> "Create"
OneGeneration == c1 :> 1
==============================================================================

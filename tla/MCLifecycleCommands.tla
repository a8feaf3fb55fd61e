------------------------- MODULE MCLifecycleCommands -------------------------
(* Small instances of LifecycleCommands: up to four commands on one container. *)
EXTENDS LifecycleCommands, TLC

CONSTANTS c1, c2, c3, c4

\* The container is made, saved and hibernated.
SaveOperation == (c1 :> "Create") @@ (c2 :> "Hibernate") @@ (c3 :> "Save")
SaveConfig == [c \in {c1, c2, c3} |-> "full"]

\* A Resume without an image, a hibernation whose config does not parse, one
\* that skips the save, and a Delete.
OddOperation ==
    (c1 :> "Resume") @@ (c2 :> "Hibernate") @@ (c3 :> "Hibernate") @@ (c4 :> "Delete")
OddConfig ==
    (c1 :> "no_image") @@ (c2 :> "invalid") @@ (c3 :> "skip_save") @@ (c4 :> "full")
==============================================================================

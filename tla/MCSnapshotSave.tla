--------------------------- MODULE MCSnapshotSave ---------------------------
(* SnapshotSave with a Save and a Hibernate command on one container. *)
EXTENDS SnapshotSave

CONSTANTS save, hibernate

TwoCommands == {save, hibernate}
OneHibernation == {hibernate}
=============================================================================

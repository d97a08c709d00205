---------------------------- MODULE MCSelfUpdate ----------------------------
(* Three releases: two updates, a rollback, and an update over the rollback. *)
EXTENDS SelfUpdate
=============================================================================

-------------------------- MODULE MCChangeStream --------------------------
(* Two lists are enough for a picture to be stale; a subscriber channel and *)
(* a connection that hold two make a full one and a burst.                  *)
EXTENDS ChangeStream
=============================================================================

---------------------------- MODULE MCDiscovery ----------------------------
(* A daemon and its successor, and two clients, so that one of them can     *)
(* sweep what the other has just resolved.                                  *)
EXTENDS Discovery
=============================================================================

---------------------------- MODULE MCDialChain ----------------------------
(* One jump host and a target, and a tuber that dials the target alone.      *)
EXTENDS DialChain
=============================================================================

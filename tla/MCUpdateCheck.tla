--------------------------- MODULE MCUpdateCheck ---------------------------
(* The daemon and one use of the command, over one day and a half.           *)
EXTENDS UpdateCheck
=============================================================================

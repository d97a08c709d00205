------------------------------ MODULE MCDaemon ------------------------------
(***************************************************************************)
(* Two tubers and two ports. The editor's document and the client's tuber  *)
(* disagree on b: adding, renaming to and updating b change its port, put  *)
(* it on the port of a, and meet the file before and after it was loaded.  *)
(***************************************************************************)
EXTENDS Daemon

tuber(n, p, on) == [name |-> n, port |-> p, enabled |-> on]

MCEdits == {Document(<<tuber("b", "p1", TRUE), tuber("a", "p2", FALSE)>>), Garbage, Missing}

MCRequested == {tuber("b", "p2", FALSE)}

MCExample == <<>>
=============================================================================

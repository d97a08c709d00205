----------------------------- MODULE MCHandoff -----------------------------
(* A daemon that is spawned and one that the service manager starts, two    *)
(* tubers, and a file that was edited meanwhile: a tuber of the standalone  *)
(* is the daemon's too, or was disabled, or made remote.                    *)
EXTENDS Handoff

MCConfigs == {c \in [Ports -> {"local", "remote", "off"}] : \E p \in Ports : c[p] = "local"}
=============================================================================

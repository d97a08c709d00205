------------------------------ MODULE MCTuber ------------------------------
(* TLC instances of Tuber, with one caller at a time: the daemon serialises   *)
(* its handlers on Server.mu, the standalone TUI calls from one goroutine.    *)
(* Callers that race are the subject of NoLeaks in TuberProofs.               *)
EXTENDS Tuber

MCConfigs ==
    {[type |-> "local", port |-> p] : p \in Ports}
        \cup {[type |-> "remote", port |-> p] : p \in {CHOOSE p \in Ports : TRUE}}

MCLocalConfigs == {[type |-> "local", port |-> p] : p \in Ports}
=============================================================================

------------------------------- MODULE Tunnel -------------------------------
(***************************************************************************)
(* What a tuber promises to whoever switches it on and off: it is on, or   *)
(* it is being stopped, or nothing of it is left. It has one address at    *)
(* most and one connection at most, an address only from the moment it is  *)
(* switched on, and a connection may come up late, while it is being       *)
(* stopped, but never over a tuber that is off. It may have to wait for a   *)
(* far host, and whether that answers nobody can promise.                  *)
(***************************************************************************)
CONSTANT Addresses

VARIABLES
    phase,       \* "off", "on" or "stopping"
    listening,   \* the local addresses taken
    link,        \* it is connected to its server
    owed         \* a far host owes it an answer

vars == <<phase, listening, link, owed>>

Init == phase = "off" /\ listening = {} /\ link = FALSE /\ owed = FALSE

\* A tuber that listens on its server has no local address.
SwitchOn ==
    /\ phase = "off" /\ phase' = "on"
    /\ listening' \in {{}} \cup {{a} : a \in Addresses}
    /\ UNCHANGED <<link, owed>>

SwitchOff ==
    /\ phase = "on" /\ phase' = "stopping"
    /\ UNCHANGED <<listening, link, owed>>

Unlisten ==
    /\ phase = "stopping" /\ listening # {} /\ listening' = {}
    /\ UNCHANGED <<phase, link, owed>>

Connect ==
    /\ phase # "off" /\ ~link /\ link' = TRUE /\ owed' \in BOOLEAN
    /\ UNCHANGED <<phase, listening>>

Disconnect ==
    /\ link /\ link' = FALSE /\ owed' = FALSE
    /\ UNCHANGED <<phase, listening>>

\* It asks a far host, or has its answer.
Ask ==
    /\ phase # "off" /\ owed' = ~owed
    /\ UNCHANGED <<phase, listening, link>>

Settle ==
    /\ phase = "stopping" /\ phase' = "off"
    /\ listening = {} /\ ~link /\ ~owed
    /\ UNCHANGED <<listening, link, owed>>

Next == SwitchOn \/ SwitchOff \/ Unlisten \/ Connect \/ Disconnect \/ Ask \/ Settle

Spec == Init /\ [][Next]_vars

\* Stopping ends, unless a far host leaves it without an answer for ever: what is
\* left is closed, late connections included.
FairSpec ==
    /\ Spec
    /\ WF_vars(Unlisten)
    /\ WF_vars(phase = "stopping" /\ ~owed /\ Disconnect)
    /\ SF_vars(Settle)
=============================================================================

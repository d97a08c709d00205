---------------------------- MODULE MCSshImport ----------------------------
(* Two aliases that may be one machine, a local and a remote forward, each   *)
(* spelled in two ways, texts of four and six lines that end in one, and two *)
(* commands at a time.                                                       *)
EXTENDS SshImport

CONSTANTS p, q

MCCommands == {p, q}
Symmetry == Permutations(MCCommands)

L == [type |-> "local", bind |-> "loopback"]
B == [type |-> "local", bind |-> "bare"]
R == [type |-> "remote", bind |-> "bare"]
C == [type |-> "remote", bind |-> "colon"]

MCForwards == {L, B, R, C}

\* The included file has a block that is dropped.
MCIncluded == <<Forward(R), MatchExec, Forward(L)>>

\* What stands between a block's header and a forward, once and twice; and two
\* blocks that are, or are not, for one machine.
MCTexts ==
    {<<Host("a"), x, y, Forward(B)>> :
        x \in {Host(Every), MatchAll, MatchExec, Include, HostName("m"), Forward(R)},
        y \in {Host("b"), HostName("m"), Include}}
    \cup {<<Host("b"), HostName("m"), Forward(f), Host("a"), HostName("m"), Forward(L)>> : f \in {B, R}}
    \cup {<<Host("b"), HostName("m"), Forward(C), Host("a"), MatchExec, Forward(L)>>}
=============================================================================

----------------------------- MODULE Discovery -----------------------------
(***************************************************************************)
(* One daemon per user, and how everybody finds it (internal/daemon        *)
(* lock_unix.go, discovery.go, server.go; internal/cmd/stop.go). A flock   *)
(* decides who may serve; a marker file names the owner's pid, a socket    *)
(* file at one canonical path leads to it, a token file admits clients.    *)
(* The lock dies with its holder, the three files do not. A member of      *)
(* Daemons is a process and its pid: it is taken for a new process only    *)
(* when nothing on disk or in a client's hands names it any more.          *)
(***************************************************************************)
EXTENDS Naturals

CONSTANTS
    Daemons,     \* processes that may run `portato daemon`
    Clients,     \* processes that resolve the socket
    None,        \* no process; a file that is missing
    PidReuse     \* the system may give a dead daemon's pid to another program

ASSUME NoneAssumption == None \notin Daemons /\ None \notin Clients
ASSUME PidReuseAssumption == PidReuse \in BOOLEAN

VARIABLES
    pc,          \* where each daemon is
    told,        \* daemons that were sent SIGTERM
    lock,        \* who holds the flock
    marker,      \* the pid the discovery marker records
    sock,        \* the daemon whose listener the socket file leads to
    token,       \* the daemon whose token the token file holds
    reused,      \* pids of dead daemons that now belong to other programs
    client,      \* each client: its step, its errand, the marker it read
    hit          \* history: daemons that lost a file to somebody's sweep

files == <<marker, sock, token>>
dvars == <<pc, told, lock, files, reused, client, hit>>

Steps == {"off", "locked", "probing", "checked", "bound", "marked", "ready",
          "serving", "drained", "cleaned"}
Looking == {"idle", "probe", "sweepMarker", "sweepSocket", "fallback", "found",
            "lost", "unmark", "waiting", "waitingPid"}
OrNone(S) == S \cup {None}

DTypeOK ==
    /\ pc \in [Daemons -> Steps] /\ told \in SUBSET Daemons
    /\ lock \in OrNone(Daemons) /\ marker \in OrNone(Daemons)
    /\ sock \in OrNone(Daemons) /\ token \in OrNone(Daemons)
    /\ reused \in SUBSET Daemons /\ hit \in SUBSET Daemons
    /\ client \in [Clients -> [at : Looking, errand : {"find", "stop"}, saw : OrNone(Daemons)]]

DInit ==
    /\ pc = [d \in Daemons |-> "off"] /\ told = {} /\ lock = None
    /\ marker = None /\ sock = None /\ token = None
    /\ reused = {} /\ hit = {}
    /\ client = [c \in Clients |-> [at |-> "idle", errand |-> "find", saw |-> None]]

-----------------------------------------------------------------------------

Running(d) == pc[d] # "off"

\* pidAlive: kill -0 cannot tell a daemon from a program that got its pid.
PidAlive(d) == Running(d) \/ d \in reused

\* probeSocket is answered by a daemon that serves behind the socket file to
\* whoever brings the token of its token file. A daemon that has bound its
\* socket and does not serve yet lets the probe run into its time-out.
Answers == sock # None /\ pc[sock] = "serving" /\ token = sock

\* (A token file that names it will be overwritten before it serves.)
Unreferenced(d) ==
    /\ d \notin {marker, sock}
    /\ \A c \in Clients : client[c].saw # d

Step(d, from, to) == pc[d] = from /\ pc' = [pc EXCEPT ![d] = to]
Enter(d, to) == pc' = [pc EXCEPT ![d] = to]

\* A process that ends gives back the lock; signals for it are gone.
Exits(d) ==
    /\ Enter(d, "off")
    /\ lock' = IF lock = d THEN None ELSE lock
    /\ told' = told \ {d}

-----------------------------------------------------------------------------
(* The daemon.                                                               *)

\* Mutant: the lock is not asked for.
Acquire_NoFlock(d) ==
    /\ Unreferenced(d)
    /\ Step(d, "off", "locked")
    /\ lock' = d /\ hit' = hit \ {d} /\ reused' = reused \ {d}
    /\ UNCHANGED <<told, files, client>>

\* acquireInstanceLock; a start that finds the lock taken changes nothing.
Acquire(d) ==
    /\ Unreferenced(d) /\ lock = None
    /\ Step(d, "off", "locked")
    /\ lock' = d /\ hit' = hit \ {d} /\ reused' = reused \ {d}
    /\ UNCHANGED <<told, files, client>>

\* ensureNotRunning without a marker: a stray socket file goes.
NoMarker(d) ==
    /\ marker = None
    /\ Step(d, "locked", "checked")
    /\ sock' = None
    /\ UNCHANGED <<told, lock, marker, token, reused, client, hit>>

\* With a marker whose pid answers kill -0 the start is refused.
Refused(d) ==
    /\ pc[d] = "locked" /\ marker # None /\ PidAlive(marker)
    /\ Exits(d)
    /\ UNCHANGED <<files, reused, client, hit>>

DeadMarker(d) ==
    /\ marker # None /\ ~PidAlive(marker)
    /\ Step(d, "locked", "probing")
    /\ UNCHANGED <<told, lock, files, reused, client, hit>>

Stale(d) ==
    /\ ~Answers
    /\ Step(d, "probing", "checked")
    /\ marker' = None /\ sock' = None
    /\ UNCHANGED <<told, lock, token, reused, client, hit>>

\* openListener: a file in the way makes the bind fail, and the process end.
Listen(d) ==
    /\ pc[d] = "checked"
    /\ IF sock = None THEN sock' = d /\ Enter(d, "bound") /\ UNCHANGED <<told, lock>>
                      ELSE Exits(d) /\ UNCHANGED sock
    /\ UNCHANGED <<marker, token, reused, client, hit>>

Mark(d) ==
    /\ Step(d, "bound", "marked")
    /\ marker' = d
    /\ UNCHANGED <<told, lock, sock, token, reused, client, hit>>

WriteToken(d) ==
    /\ Step(d, "marked", "ready")
    /\ token' = d
    /\ UNCHANGED <<told, lock, marker, sock, reused, client, hit>>

\* StartEnabledWith, then Serve.
Serve(d) ==
    /\ Step(d, "ready", "serving")
    /\ UNCHANGED <<told, lock, files, reused, client, hit>>

\* Mutant: Shutdown waits for a socket file that is its own.
Drain_NeedsSocket(d) ==
    /\ d \in told /\ sock = d
    /\ Step(d, "serving", "drained")
    /\ sock' = None
    /\ UNCHANGED <<told, lock, marker, token, reused, client, hit>>

\* Shutdown: closing the listener unlinks the socket path, whoever's it is.
Drain(d) ==
    /\ d \in told
    /\ Step(d, "serving", "drained")
    /\ sock' = None
    /\ UNCHANGED <<told, lock, marker, token, reused, client, hit>>

Cleanup(d) ==
    /\ Step(d, "drained", "cleaned")
    /\ sock' = None /\ marker' = None /\ token' = None
    /\ UNCHANGED <<told, lock, reused, client, hit>>

Unlock(d) ==
    /\ pc[d] = "cleaned"
    /\ Exits(d)
    /\ UNCHANGED <<files, reused, client, hit>>

\* kill -9, a panic, the power: the files stay.
Crash(d) ==
    /\ Running(d)
    /\ Exits(d)
    /\ UNCHANGED <<files, reused, client, hit>>

-----------------------------------------------------------------------------
(* The system.                                                               *)

\* The service manager stops its daemon, the user presses Ctrl-C, a machine
\* goes down.
Interrupted(d) ==
    /\ Running(d) /\ d \notin told
    /\ told' = told \cup {d}
    /\ UNCHANGED <<pc, lock, files, reused, client, hit>>

\* A temporary directory is reaped: the socket file goes, its daemon lives.
Reap ==
    /\ sock # None /\ pc[sock] = "serving"
    /\ sock' = None /\ hit' = hit \cup {sock}
    /\ UNCHANGED <<pc, told, lock, marker, token, reused, client>>

\* A pid is not handed out again while a command holds it in its hands.
TakePid(d) ==
    /\ PidReuse /\ ~Running(d) /\ marker = d
    /\ \A c \in Clients : client[c].at = "idle"
    /\ reused' = reused \cup {d}
    /\ UNCHANGED <<pc, told, lock, files, client, hit>>

-----------------------------------------------------------------------------
(* A client: ResolveSocket, and what `portato stop` makes of its answer.     *)

Goes(c, from, to) == client[c].at = from /\ client' = [client EXCEPT ![c].at = to]
Rests(c) == client' = [client EXCEPT ![c].at = "idle", ![c].saw = None]

Look(c, errand) ==
    /\ client[c].at = "idle"
    /\ client' = [client EXCEPT ![c] =
         [at |-> IF marker = None THEN "fallback" ELSE "probe", errand |-> errand, saw |-> marker]]
    /\ UNCHANGED <<pc, told, lock, files, reused, hit>>

ProbeAnswered(c) ==
    /\ Answers
    /\ Goes(c, "probe", "found")
    /\ UNCHANGED <<pc, told, lock, files, reused, hit>>

\* Silent, or not answered within probeTimeout.
ProbeSilent(c) ==
    /\ Goes(c, "probe", IF PidAlive(client[c].saw) THEN "fallback" ELSE "sweepMarker")
    /\ UNCHANGED <<pc, told, lock, files, reused, hit>>

\* What is removed is what lies there now.
SweepMarker(c) ==
    /\ Goes(c, "sweepMarker", "sweepSocket")
    /\ marker' = None
    /\ hit' = IF marker # None /\ Running(marker) THEN hit \cup {marker} ELSE hit
    /\ UNCHANGED <<pc, told, lock, sock, token, reused>>

SweepSocket(c) ==
    /\ Goes(c, "sweepSocket", "fallback")
    /\ sock' = None
    /\ hit' = IF sock # None /\ Running(sock) THEN hit \cup {sock} ELSE hit
    /\ UNCHANGED <<pc, told, lock, marker, token, reused>>

Fallback(c) ==
    /\ Goes(c, "fallback", "lost") \/ (Answers /\ Goes(c, "fallback", "found"))
    /\ UNCHANGED <<pc, told, lock, files, reused, hit>>

Leave(c) ==
    /\ client[c].errand = "find" /\ client[c].at \in {"found", "lost"}
    /\ Rests(c)
    /\ UNCHANGED <<pc, told, lock, files, reused, hit>>

Signals(d) == told' = IF Running(d) \/ d \in reused THEN told \cup {d} ELSE told

\* stopReachableDaemon: without a marker there is nobody to signal.
StopReachable(c) ==
    /\ client[c].errand = "stop" /\ client[c].at = "found"
    /\ IF marker = None THEN Rests(c) /\ UNCHANGED told
       ELSE /\ Signals(marker)
            /\ client' = [client EXCEPT ![c].at = "waiting", ![c].saw = marker]
    /\ UNCHANGED <<pc, lock, files, reused, hit>>

\* Mutant: every live pid is taken for portato.
IsPortato_Any(d) == PidAlive(d)

\* processIsPortato: a pid that was reused is left alone.
IsPortato(d) == Running(d)

\* Nobody answers: a living portato the marker names is wedged and signalled,
\* else the marker goes.
StopLost(c) ==
    /\ client[c].errand = "stop" /\ client[c].at = "lost"
    /\ IF marker # None /\ PidAlive(marker) /\ IsPortato(marker)
       THEN /\ Signals(marker)
            /\ client' = [client EXCEPT ![c].at = "waitingPid", ![c].saw = marker]
       ELSE client' = [client EXCEPT ![c].at = "unmark"] /\ UNCHANGED told
    /\ UNCHANGED <<pc, lock, files, reused, hit>>

StopDone(c) ==
    \/ /\ client[c].at = "waiting"
       /\ Rests(c)
    \/ /\ client[c].at = "waitingPid" /\ PidAlive(client[c].saw)   \* out of time
       /\ Rests(c)
    \/ /\ client[c].at = "waitingPid" /\ ~PidAlive(client[c].saw)
       /\ client' = [client EXCEPT ![c].at = "unmark"]

StopWaits(c) ==
    /\ StopDone(c)
    /\ UNCHANGED <<pc, told, lock, files, reused, hit>>

Unmark(c) ==
    /\ client[c].at = "unmark"
    /\ Rests(c)
    /\ marker' = None
    /\ hit' = IF marker # None /\ Running(marker) THEN hit \cup {marker} ELSE hit
    /\ UNCHANGED <<pc, told, lock, sock, token, reused>>

-----------------------------------------------------------------------------

DaemonStep(d) ==
    \/ NoMarker(d) \/ Refused(d) \/ DeadMarker(d) \/ Stale(d)
    \/ Listen(d) \/ Mark(d) \/ WriteToken(d) \/ Serve(d)
    \/ Drain(d) \/ Cleanup(d) \/ Unlock(d)

ClientStep(c) ==
    \/ ProbeAnswered(c) \/ ProbeSilent(c) \/ SweepMarker(c) \/ SweepSocket(c)
    \/ Fallback(c) \/ Leave(c)
    \/ StopReachable(c) \/ StopLost(c) \/ StopWaits(c) \/ Unmark(c)

DNext ==
    \/ \E d \in Daemons : Acquire(d) \/ DaemonStep(d) \/ Crash(d) \/ TakePid(d) \/ Interrupted(d)
    \/ \E c \in Clients : (\E e \in {"find", "stop"} : Look(c, e)) \/ ClientStep(c)
    \/ Reap

DSpec == DInit /\ [][DNext]_dvars

\* A daemon that runs goes on, unless it crashes: its tubers stop, which takes
\* an answer of every far host they wait for (Tuber's Unanswered).
DFairSpec == DSpec /\ \A d \in Daemons : WF_dvars(DaemonStep(d))

-----------------------------------------------------------------------------
(* What must hold.                                                           *)

\* The three files lead to the daemon that serves: none of them is left over
\* from, or was removed by, one that started or ended before it. Only a sweep
\* can take them away.
OwnFiles ==
    \A d \in Daemons : (pc[d] = "serving" /\ d \notin hit) =>
        marker = d /\ sock = d /\ token = d

\* `portato stop` signals portato, never a program that got a dead one's pid.
NeverSignalsStranger == told \cap reused = {}

\* A daemon that was signalled ends, serving, still starting or waiting for a
\* hand-off, if no far host keeps its tubers from stopping.
SignalledEnds == \A d \in Daemons : (d \in told) ~> (pc[d] = "off")
=============================================================================

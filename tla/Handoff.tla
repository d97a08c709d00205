------------------------------ MODULE Handoff ------------------------------
(***************************************************************************)
(* The standalone process leaves, and hands its tubers to a daemon it      *)
(* spawns (internal/tui handoff.go, internal/fdpass, internal/cmd          *)
(* daemon.go, Engine.StartEnabledWith). The listening sockets travel as    *)
(* descriptors over a transfer socket; a port stays taken as long as       *)
(* somebody, or a message under way, holds a descriptor of it.             *)
(***************************************************************************)
EXTENDS Discovery, FiniteSets

CONSTANTS
    Ports,       \* one per local or dynamic tuber of the standalone
    Standalone,  \* the standalone process, as a client that polls
    MaxFDs,      \* fdpass.maxFDs
    Configs      \* what a daemon may find in the file: each port's tuber is
                 \* "local", "remote" (no port of its own) or "off"

ASSUME StandaloneAssumption == Standalone \in Clients
ASSUME MaxFDsAssumption == MaxFDs \in Nat
ASSUME HoldersAssumption == Daemons \cap {"tubers", "files", "message"} = {}
ASSUME ConfigsAssumption == Configs \subseteq [Ports -> {"local", "remote", "off"}]

VARIABLES
    spc,         \* the standalone: "up", "polling", "joining", "gone"
    path,        \* "none", "fds" or "legacy"
    outcome,     \* "none", "ready" or "failed"
    spawnee,     \* the daemon it spawned, None once that lost the lock
    xfer,        \* the transfer socket: "none", "open", "dialed", "closed"
    sender,      \* the goroutine: "none", "accept", "ended"
    sent,        \* the ports whose descriptors went into the message
    recv,        \* the daemon's adoptPassedListeners: "not", "waiting", "done"
    adopted,     \* the listeners that came out of it
    held,        \* who holds a descriptor of each port
    conf,        \* the configuration of the daemon that has the lock
    tuber        \* its tubers: "none", "up", "error"

hand == <<spc, path, outcome, spawnee, xfer, sender, sent>>
ports == <<recv, adopted, held, conf, tuber>>
hvars == <<dvars, hand, ports>>

Holders == Daemons \cup {"tubers", "files", "message"}

TypeOK ==
    /\ DTypeOK
    /\ spc \in {"up", "polling", "joining", "gone"}
    /\ path \in {"none", "fds", "legacy"} /\ outcome \in {"none", "ready", "failed"}
    /\ spawnee \in OrNone(Daemons) /\ xfer \in {"none", "open", "dialed", "closed"}
    /\ sender \in {"none", "accept", "ended"} /\ sent \in SUBSET Ports
    /\ recv \in {"not", "waiting", "done"} /\ adopted \in SUBSET Ports
    /\ held \in [Ports -> SUBSET Holders]
    /\ conf \in Configs /\ tuber \in [Ports -> {"none", "up", "error"}]

\* Some tubers of the standalone run; no daemon was found.
Init ==
    /\ DInit
    /\ spc = "up" /\ path = "none" /\ outcome = "none" /\ spawnee = None
    /\ xfer = "none" /\ sender = "none" /\ sent = {}
    /\ recv = "not" /\ adopted = {}
    /\ held \in [Ports -> {{}, {"tubers"}}]
    /\ conf \in Configs /\ tuber = [p \in Ports |-> "none"]

HeldBy(h) == {p \in Ports : h \in held[p]}
Drop(gone) == [p \in Ports |-> held[p] \ gone]
Move(ps, from, to) ==
    [p \in Ports |-> IF p \in ps THEN (held[p] \ {from}) \cup {to} ELSE held[p] \ {from}]

\* unix.CmsgSpace(maxFDs) counts bytes, and a descriptor takes four.
Fits(n) == n <= MaxFDs \div 4

-----------------------------------------------------------------------------
(* The standalone.                                                           *)

Free(d) == pc[d] = "off" /\ Unreferenced(d)

\* handoffWithFDs: duplicates of the live listeners, a transfer socket, a child.
BeginFds ==
    /\ spc = "up" /\ HeldBy("tubers") # {}
    /\ held' = [p \in Ports |-> IF "tubers" \in held[p] THEN held[p] \cup {"files"} ELSE held[p]]
    /\ \E d \in Daemons : Free(d) /\ spawnee' = d
    /\ spc' = "polling" /\ path' = "fds" /\ xfer' = "open" /\ sender' = "accept"
    /\ UNCHANGED <<dvars, outcome, sent, recv, adopted, conf, tuber>>

\* Nothing to pass, or a step before the child failed: close, then spawn.
BeginLegacy ==
    /\ spc = "up"
    /\ held' = Drop({"tubers"})
    /\ \E d \in Daemons : Free(d) /\ spawnee' = d
    /\ spc' = "polling" /\ path' = "legacy" /\ sender' = "ended" /\ xfer' = "closed"
    /\ UNCHANGED <<dvars, outcome, sent, recv, adopted, conf, tuber>>

\* The child cannot be spawned at all.
BeginFails ==
    /\ spc = "up"
    /\ held' = Drop({"tubers"})
    /\ spc' = "gone" /\ path' = "legacy" /\ outcome' = "failed"
    /\ UNCHANGED <<dvars, spawnee, xfer, sender, sent, recv, adopted, conf, tuber>>

\* The daemon dialed: Send puts every descriptor into one message, or fails
\* and closes them. Either way the connection ends after it.
Send ==
    /\ sender = "accept" /\ xfer = "dialed"
    /\ sender' = "ended"
    /\ \/ /\ Cardinality(HeldBy("files")) <= MaxFDs
          /\ sent' = HeldBy("files")
          /\ held' = Move(sent', "files", "message")
          /\ spawnee # None
       \/ held' = Drop({"files"}) /\ UNCHANGED sent
    /\ UNCHANGED <<dvars, spc, path, outcome, spawnee, xfer, recv, adopted, conf, tuber>>

\* cleanupSocket closed the listener under Accept.
AcceptFails ==
    /\ sender = "accept" /\ xfer = "closed"
    /\ sender' = "ended"
    /\ UNCHANGED <<dvars, spc, path, outcome, spawnee, xfer, sent, ports>>

\* waitForDaemon polls ResolveSocket...
Poll ==
    /\ spc = "polling"
    /\ Look(Standalone, "find")
    /\ UNCHANGED <<hand, ports>>

StopsPolling_KeepsSocket(result) ==
    /\ spc = "polling"
    /\ spc' = "joining" /\ outcome' = result
    /\ UNCHANGED <<path, spawnee, xfer, sender, sent, ports>>

StopsPolling(result) ==
    /\ spc = "polling"
    /\ spc' = "joining" /\ outcome' = result /\ xfer' = "closed"
    /\ UNCHANGED <<path, spawnee, sender, sent, ports>>

\* ... until a daemon, any daemon, answers, ...
Ready ==
    /\ client[Standalone].at = "found" /\ Leave(Standalone)
    /\ StopsPolling("ready")

\* ... or five seconds have passed.
GivesUp ==
    /\ client[Standalone].at \in {"idle", "lost"}
    /\ IF client[Standalone].at = "lost" THEN Leave(Standalone) ELSE UNCHANGED dvars
    /\ StopsPolling("failed")

\* <-sendErr, ctrl.Close, and the screen quits whatever the outcome.
Join ==
    /\ spc = "joining" /\ sender = "ended"
    /\ spc' = "gone"
    /\ held' = Drop({"tubers", "files"})
    /\ UNCHANGED <<dvars, path, outcome, spawnee, xfer, sender, sent, recv, adopted, conf, tuber>>

-----------------------------------------------------------------------------
(* The daemons, with what they hold.                                         *)

Hands(d) == d = spawnee /\ path = "fds"

Starts(d) ==
    /\ Acquire(d)
    /\ conf' \in Configs
    /\ recv' = "not" /\ adopted' = {} /\ tuber' = [p \in Ports |-> "none"]
    /\ UNCHANGED <<hand, held>>

\* Another daemon has the lock, or the configuration does not load: the child
\* ends before it did anything.
ChildEnds ==
    /\ spawnee # None /\ pc[spawnee] = "off"
    /\ spawnee' = None
    /\ UNCHANGED <<dvars, spc, path, outcome, xfer, sender, sent, ports>>

Prepares(d) ==
    /\ NoMarker(d) \/ DeadMarker(d) \/ Stale(d) \/ Mark(d) \/ WriteToken(d)
    /\ UNCHANGED <<hand, ports>>

Dial(d) ==
    /\ Hands(d) /\ pc[d] = "checked" /\ recv = "not"
    /\ IF xfer = "open" THEN xfer' = "dialed" /\ recv' = "waiting"
                        ELSE recv' = "done" /\ UNCHANGED xfer
    /\ UNCHANGED <<dvars, spc, path, outcome, spawnee, sender, sent, adopted, held, conf, tuber>>

\* Mutant: one descriptor of the message is lost.
Recv_ForgetsLast(d) ==
    /\ Hands(d) /\ recv = "waiting" /\ sender = "ended"
    /\ recv' = "done"
    /\ LET arrived == HeldBy("message") IN
         /\ adopted' = IF arrived = {} THEN {} ELSE arrived \ {CHOOSE p \in arrived : TRUE}
         /\ held' = Move(adopted', "message", d)
    /\ UNCHANGED <<dvars, hand, conf, tuber>>

\* Mutant: a sender that ends without a message leaves the receiver waiting.
Recv_Waits(d) ==
    /\ Hands(d) /\ recv = "waiting" /\ HeldBy("message") # {}
    /\ recv' = "done" /\ adopted' = HeldBy("message")
    /\ held' = Move(adopted', "message", d)
    /\ UNCHANGED <<dvars, hand, conf, tuber>>

\* Recv: the message, or nothing when Send failed or never ran. Of a message
\* that does not fit the kernel has installed the first descriptors when Recv
\* returns its error, and nobody closes them.
Recv(d) ==
    /\ Hands(d) /\ recv = "waiting" /\ sender = "ended"
    /\ recv' = "done"
    /\ LET arrived == HeldBy("message") IN
         IF Fits(Cardinality(arrived))
         THEN adopted' = arrived /\ held' = Move(arrived, "message", d)
         ELSE /\ adopted' = {}
              /\ \E first \in SUBSET arrived :
                   Cardinality(first) = MaxFDs \div 4 /\ held' = Move(first, "message", d)
    /\ UNCHANGED <<dvars, hand, conf, tuber>>

Binds(d) ==
    /\ Listen(d) /\ (Hands(d) => recv = "done")
    /\ held' = IF pc'[d] = "off" THEN Drop({d}) ELSE held
    /\ UNCHANGED <<hand, recv, adopted, conf, tuber>>

\* Mutant: a listener without a tuber is not closed.
EngineStarts_KeepsUnused(d) ==
    /\ Serve(d)
    /\ tuber' = [p \in Ports |->
         CASE conf[p] = "off" -> "none"
           [] conf[p] = "remote" -> "up"
           [] conf[p] = "local" /\ (p \in adopted \/ held[p] = {}) -> "up"
           [] OTHER -> "error"]
    /\ held' = [p \in Ports |->
         IF conf[p] = "local" /\ held[p] = {} THEN {d} ELSE held[p]]
    /\ UNCHANGED <<hand, recv, adopted, conf>>

\* StartEnabledWith: an adopted listener is used by its tuber, closed without
\* one, and forgotten if the tuber became remote; other tubers bind, and a port somebody holds is an error for good.
EngineStarts(d) ==
    /\ Serve(d)
    /\ tuber' = [p \in Ports |->
         CASE conf[p] = "off" -> "none"
           [] conf[p] = "remote" -> "up"
           [] conf[p] = "local" /\ (p \in adopted \/ held[p] = {}) -> "up"
           [] OTHER -> "error"]
    /\ held' = [p \in Ports |->
         CASE conf[p] = "off" /\ p \in adopted -> held[p] \ {d}
           [] conf[p] = "local" /\ held[p] = {} -> {d}
           [] OTHER -> held[p]]
    /\ UNCHANGED <<hand, recv, adopted, conf>>

\* A listener nothing refers to is closed by the garbage collector.
Collect(d) ==
    /\ pc[d] = "serving"
    /\ \E p \in adopted :
         /\ conf[p] = "remote" /\ d \in held[p]
         /\ held' = [held EXCEPT ![p] = @ \ {d}]
    /\ UNCHANGED <<dvars, hand, recv, adopted, conf, tuber>>

\* Shutdown stops the tubers before it cleans up.
Stops(d) ==
    /\ Drain(d)
    /\ tuber' = [p \in Ports |-> "none"]
    /\ held' = [p \in Ports |-> IF tuber[p] = "up" /\ conf[p] = "local" THEN held[p] \ {d} ELSE held[p]]
    /\ UNCHANGED <<hand, recv, adopted, conf>>

CleansUp(d) == Cleanup(d) /\ UNCHANGED <<hand, ports>>

\* The process ends: its descriptors are closed, and a message nobody took.
Ends(d) ==
    /\ Unlock(d) \/ Refused(d) \/ Crash(d)
    /\ held' = Drop(IF Hands(d) THEN {d, "message"} ELSE {d})
    /\ tuber' = [p \in Ports |-> "none"] /\ adopted' = {}
    /\ spawnee' = IF d = spawnee THEN None ELSE spawnee
    /\ UNCHANGED <<spc, path, outcome, xfer, sender, sent, recv, conf>>

PollGoesOn ==
    /\ spc = "polling" /\ client[Standalone].at # "found"
    /\ ClientStep(Standalone)
    /\ UNCHANGED <<hand, ports>>

Others ==
    /\ \/ \E c \in Clients \ {Standalone} : (\E e \in {"find", "stop"} : Look(c, e)) \/ ClientStep(c)
       \/ Reap
       \/ \E d \in Daemons : TakePid(d) \/ Interrupted(d)
    /\ UNCHANGED <<hand, ports>>

DaemonGoesOn(d) ==
    \/ Prepares(d) \/ Dial(d) \/ Recv(d) \/ Binds(d) \/ EngineStarts(d)
    \/ Stops(d) \/ CleansUp(d)

Next ==
    \/ BeginFds \/ BeginLegacy \/ BeginFails \/ Send \/ AcceptFails
    \/ Poll \/ PollGoesOn \/ Ready \/ GivesUp \/ Join \/ ChildEnds \/ Others
    \/ \E d \in Daemons : Starts(d) \/ DaemonGoesOn(d) \/ Collect(d) \/ Ends(d)

Spec == Init /\ [][Next]_hvars

\* Goroutines and processes that run go on, tubers that are stopped included (no
\* far host keeps them, Tuber's Unanswered); the poll ends with its deadline.
\* Nothing makes a user leave, a daemon start or crash, a client look.
FairSpec ==
    /\ Spec
    /\ WF_hvars(Send) /\ WF_hvars(AcceptFails) /\ SF_hvars(Ready \/ GivesUp) /\ WF_hvars(Join)
    /\ WF_hvars(PollGoesOn)
    /\ \A d \in Daemons :
         WF_hvars(DaemonGoesOn(d)) /\ WF_hvars((Unlock(d) \/ Refused(d)) /\ Ends(d))

-----------------------------------------------------------------------------
(* What must hold.                                                           *)

\* A port whose descriptor went into a message that fits is never let go of:
\* the message or the daemon has it, whatever the standalone does meanwhile,
\* and once the daemon serves its tuber is up.
PortsStayUp ==
    (spawnee # None /\ Fits(Cardinality(sent)) /\ pc[spawnee] \notin {"drained", "cleaned"}) =>
        \A p \in sent : conf[p] = "local" =>
            /\ "message" \in held[p] \/ spawnee \in held[p]
            /\ pc[spawnee] = "serving" => tuber[p] = "up"

\* The port's tuber listens on it, ...
Used(p) == conf[p] = "local" /\ tuber[p] = "up"

\* ... or it was handed over for a tuber that has become remote: StartWith
\* refuses the listener, and nobody closes it, against server.go:246. The port
\* stays taken until the garbage collector comes by.
Garbage(p) == conf[p] = "remote" /\ p \in adopted

\* A daemon that serves holds no port in vain: every listener it was handed is
\* its tuber's, or was closed; one that is garbage is the exception.
NothingLeaks ==
    (lock # None /\ pc[lock] = "serving" /\ Fits(Cardinality(sent))) =>
        \A p \in HeldBy(lock) : Used(p) \/ Garbage(p)

\* The standalone always gets away: closing the transfer socket frees the
\* goroutine it waits for. (Its tubers are stopped on the way; a far host that
\* never answers one of them keeps it, as it keeps Stop.)
HandoffEnds == (spc # "up") ~> (spc = "gone")
=============================================================================

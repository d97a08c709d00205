--------------------------- MODULE HandoffProofs ---------------------------
(***************************************************************************)
(* One daemon per user, for any number of daemons and clients. The lock    *)
(* alone makes the three files safe: whoever holds it is the only process  *)
(* past acquireInstanceLock, it has cleared the files of the dead before   *)
(* it writes its own, and clients only take files away. A marker that      *)
(* names a reused pid keeps every daemon from serving, so nobody finds one *)
(* and signals the stranger.                                               *)
(***************************************************************************)
EXTENDS Handoff, TLAPS, FiniteSetTheorems

USE NoneAssumption DEF OrNone, Steps, Looking

\* The lock is held by whoever runs, and nobody else runs.
Exclusive == \A d \in Daemons : Running(d) => lock = d

\* How far the holder of the lock has come, and whose the files are by then.
MarkerPlace ==
    \A d \in Daemons :
        /\ pc[d] \in {"checked", "bound"} => marker = None
        /\ pc[d] \in {"marked", "ready", "serving", "drained"} =>
               marker \in {d, None} /\ (d \notin hit => marker = d)

SocketPlace ==
    \A d \in Daemons :
        /\ pc[d] = "checked" => sock = None
        /\ pc[d] \in {"bound", "marked", "ready", "serving"} =>
               sock \in {d, None} /\ (d \notin hit => sock = d)

TokenPlace == \A d \in Daemons : pc[d] \in {"ready", "serving"} => token = d

\* Only a living daemon is told to end, and no living daemon's pid is another's.
Pids ==
    /\ \A d \in told : Running(d)
    /\ \A d \in reused : ~Running(d)
    /\ \A c \in Clients : client[c].at = "found" => marker \notin reused

Order == Exclusive /\ MarkerPlace /\ SocketPlace /\ TokenPlace /\ Pids

LEMMA InitOrder == DInit => DTypeOK /\ Order
  BY DEF DInit, DTypeOK, Order, Exclusive, MarkerPlace, SocketPlace, TokenPlace, Pids, Running

\* What a step of a daemon may change.
LEMMA DaemonTypes ==
    ASSUME DTypeOK, NEW d \in Daemons, Acquire(d) \/ DaemonStep(d) \/ Crash(d) \/ TakePid(d) \/ Interrupted(d)
    PROVE  DTypeOK'
<1> USE DEF DTypeOK, files, Step, Enter
<1>1. CASE Acquire(d)
  BY <1>1 DEF Acquire
<1>2. CASE NoMarker(d) \/ DeadMarker(d) \/ Stale(d) \/ Mark(d) \/ WriteToken(d) \/ Serve(d)
  BY <1>2 DEF NoMarker, DeadMarker, Stale, Mark, WriteToken, Serve
<1>3. CASE Listen(d)
  BY <1>3 DEF Listen, Exits
<1>4. CASE Drain(d) \/ Cleanup(d)
  BY <1>4 DEF Drain, Cleanup
<1>5. CASE Refused(d) \/ Unlock(d) \/ Crash(d)
  BY <1>5 DEF Refused, Unlock, Crash, Exits
<1>6. CASE TakePid(d) \/ Interrupted(d)
  BY <1>6 DEF TakePid, Interrupted
<1> QED
  BY <1>1, <1>2, <1>3, <1>4, <1>5, <1>6 DEF DaemonStep

LEMMA ClientTypes ==
    ASSUME DTypeOK,
           Reap \/ \E c \in Clients : (\E e \in {"find", "stop"} : Look(c, e)) \/ ClientStep(c)
    PROVE  DTypeOK'
<1> USE DEF DTypeOK, files, Goes, Rests, Signals
<1>1. CASE Reap
  BY <1>1 DEF Reap
<1>2. ASSUME NEW c \in Clients, NEW e \in {"find", "stop"}, Look(c, e) PROVE DTypeOK'
  BY <1>2 DEF Look
<1>3. ASSUME NEW c \in Clients, ClientStep(c) PROVE DTypeOK'
  <2>1. CASE ProbeAnswered(c) \/ ProbeSilent(c) \/ Fallback(c) \/ Leave(c)
    BY <2>1 DEF ProbeAnswered, ProbeSilent, Fallback, Leave
  <2>2. CASE SweepMarker(c) \/ SweepSocket(c) \/ Unmark(c)
    BY <2>2 DEF SweepMarker, SweepSocket, Unmark
  <2>3. CASE StopReachable(c)
    BY <2>3 DEF StopReachable
  <2>4. CASE StopLost(c)
    BY <2>4 DEF StopLost
  <2>5. CASE StopWaits(c)
    BY <2>5 DEF StopWaits, StopDone
  <2> QED
    BY <1>3, <2>1, <2>2, <2>3, <2>4, <2>5 DEF ClientStep
<1> QED
  BY <1>1, <1>2, <1>3

\* A daemon that goes on holds the lock: no other one runs.
LEMMA DaemonOrder ==
    ASSUME DTypeOK, Order, NEW d \in Daemons,
           Acquire(d) \/ DaemonStep(d) \/ Crash(d) \/ TakePid(d) \/ Interrupted(d)
    PROVE  Order'
<1> USE DEF DTypeOK, Order, Exclusive, MarkerPlace, SocketPlace, TokenPlace, Pids,
            files, Step, Enter, Running
<1>1. CASE Acquire(d)
  BY <1>1 DEF Acquire, Unreferenced
<1>2. CASE NoMarker(d)
  BY <1>2 DEF NoMarker
<1>3. CASE DeadMarker(d)
  BY <1>3 DEF DeadMarker
<1>4. CASE Stale(d)
  BY <1>4 DEF Stale
<1>5. CASE Listen(d)
  BY <1>5 DEF Listen, Exits
<1>6. CASE Mark(d)
  BY <1>6 DEF Mark
<1>7. CASE WriteToken(d)
  BY <1>7 DEF WriteToken
<1>8. CASE Serve(d)
  BY <1>8 DEF Serve
<1>9. CASE Drain(d)
  BY <1>9 DEF Drain
<1>10. CASE Cleanup(d)
  BY <1>10 DEF Cleanup
<1>11. CASE Refused(d) \/ Unlock(d) \/ Crash(d)
  BY <1>11 DEF Refused, Unlock, Crash, Exits
<1>12. CASE TakePid(d) \/ Interrupted(d)
  BY <1>12 DEF TakePid, Interrupted
<1> QED
  BY <1>1, <1>2, <1>3, <1>4, <1>5, <1>6, <1>7, <1>8, <1>9, <1>10, <1>11, <1>12 DEF DaemonStep

\* Whoever answers runs, and the marker beside it names it, or was swept.
LEMMA Found ==
    ASSUME DTypeOK, Order, Answers
    PROVE  marker \notin reused
  BY DEF DTypeOK, Order, MarkerPlace, Pids, Running, Answers

LEMMA ClientOrder ==
    ASSUME DTypeOK, Order,
           Reap \/ \E c \in Clients : (\E e \in {"find", "stop"} : Look(c, e)) \/ ClientStep(c)
    PROVE  Order'
<1> USE DEF DTypeOK, Order, Exclusive, MarkerPlace, SocketPlace, TokenPlace, Pids,
            files, Goes, Rests, Running
<1>1. CASE Reap
  BY <1>1 DEF Reap
<1>2. ASSUME NEW c \in Clients, NEW e \in {"find", "stop"}, Look(c, e) PROVE Order'
  BY <1>2 DEF Look
<1>3. ASSUME NEW c \in Clients, ClientStep(c) PROVE Order'
  <2>1. CASE ProbeAnswered(c)
    BY <2>1, Found DEF ProbeAnswered
  <2>2. CASE ProbeSilent(c)
    BY <2>2 DEF ProbeSilent
  <2>3. CASE Fallback(c)
    BY <2>3, Found DEF Fallback
  <2>4. CASE Leave(c)
    BY <2>4 DEF Leave
  <2>5. CASE SweepMarker(c)
    BY <2>5 DEF SweepMarker
  <2>6. CASE SweepSocket(c)
    BY <2>6 DEF SweepSocket
  <2>7. CASE Unmark(c)
    BY <2>7 DEF Unmark
  <2>8. CASE StopReachable(c)
    BY <2>8 DEF StopReachable, Signals
  <2>9. CASE StopLost(c)
    BY <2>9 DEF StopLost, Signals, IsPortato
  <2>10. CASE StopWaits(c)
    BY <2>10 DEF StopWaits, StopDone
  <2> QED
    BY <1>3, <2>1, <2>2, <2>3, <2>4, <2>5, <2>6, <2>7, <2>8, <2>9, <2>10 DEF ClientStep
<1> QED
  BY <1>1, <1>2, <1>3

LEMMA OrderHolds == DSpec => [](DTypeOK /\ Order)
<1>1. DTypeOK /\ Order /\ [DNext]_dvars => (DTypeOK /\ Order)'
  <2>1. DTypeOK /\ Order /\ UNCHANGED dvars => (DTypeOK /\ Order)'
    BY DEF DTypeOK, Order, Exclusive, MarkerPlace, SocketPlace, TokenPlace, Pids, Running,
           dvars, files
  <2> QED
    BY <2>1, DaemonTypes, ClientTypes, DaemonOrder, ClientOrder DEF DNext
<1> QED
  BY <1>1, InitOrder, PTL DEF DSpec

\* Every variable keeps its type.
THEOREM DiscoveryTypeCorrect == DSpec => []DTypeOK
  BY OrderHolds, PTL

\* The three files lead to the daemon that serves, unless a sweep took one away:
\* acquireInstanceLock, ensureNotRunning and Run leave no other way.
THEOREM FilesAreOwn == DSpec => []OwnFiles
<1>1. DTypeOK /\ Order => OwnFiles
  BY DEF Order, MarkerPlace, SocketPlace, TokenPlace, OwnFiles
<1> QED
  BY <1>1, OrderHolds, PTL

\* `portato stop` signals no program that was given a dead daemon's pid
\* (stopReachableDaemon, processIsPortato).
THEOREM StrangersAreSafe == DSpec => []NeverSignalsStranger
<1>1. DTypeOK /\ Order => NeverSignalsStranger
  BY DEF Order, Pids, NeverSignalsStranger
<1> QED
  BY <1>1, OrderHolds, PTL

-----------------------------------------------------------------------------
(***************************************************************************)
(* The hand-off, for any number of ports, daemons and clients. It runs on  *)
(* top of Discovery: each of its steps is a step of Discovery or touches   *)
(* nothing of it, so what is shown above of the lock holds here and        *)
(* the daemon that was spawned is the only one as long as it runs.         *)
(***************************************************************************)

LEMMA InitStarts == Init => DInit
  BY DEF Init

\* A step of the hand-off is a step of Discovery, or leaves it alone.
LEMMA StepRefines == [Next]_hvars => [DNext]_dvars
<1> SUFFICES ASSUME [Next]_hvars PROVE DNext \/ UNCHANGED dvars
  OBVIOUS
<1>1. CASE \/ BeginFds \/ BeginLegacy \/ BeginFails \/ Send \/ AcceptFails \/ Join \/ ChildEnds
           \/ \E d \in Daemons : Dial(d) \/ Recv(d) \/ Collect(d)
  BY <1>1 DEF BeginFds, BeginLegacy, BeginFails, Send, AcceptFails, Join, ChildEnds,
              Dial, Recv, Collect
<1>2. CASE Poll \/ PollGoesOn \/ Ready \/ GivesUp
  BY <1>2, StandaloneAssumption
     DEF Poll, PollGoesOn, Ready, GivesUp, DNext, ClientStep
<1>3. CASE Others
  BY <1>3 DEF Others, DNext
<1>4. ASSUME NEW d \in Daemons,
             \/ Starts(d) \/ Prepares(d) \/ Binds(d) \/ EngineStarts(d)
             \/ Stops(d) \/ CleansUp(d) \/ Ends(d)
      PROVE  DNext
  <2>1. Acquire(d) \/ DaemonStep(d) \/ Crash(d)
    BY <1>4 DEF Starts, Prepares, Binds, EngineStarts, Stops, CleansUp, Ends, DaemonStep
  <2> QED
    BY <2>1 DEF DNext
<1>5. CASE UNCHANGED hvars
  BY <1>5 DEF hvars
<1> QED
  BY <1>1, <1>2, <1>3, <1>4, <1>5 DEF Next, DaemonGoesOn

\* A hand-off is a behaviour of Discovery: spawning a daemon and passing it
\* descriptors goes around neither the lock nor the files (runHandoff, Run).
THEOREM HandoffIsDiscovery == Spec => DSpec
  BY InitStarts, StepRefines, PTL DEF Spec, DSpec

\* So a hand-off cannot make `portato stop` signal a stranger.
THEOREM HandoffSparesStrangers == Spec => []NeverSignalsStranger
  BY HandoffIsDiscovery, StrangersAreSafe, PTL

LEMMA OrderKept == Spec => [](DTypeOK /\ Order)
  BY HandoffIsDiscovery, OrderHolds, PTL

-----------------------------------------------------------------------------
(* The types.                                                                *)

LEMMA HolderKinds ==
    Daemons \subseteq Holders /\ {"tubers", "files", "message"} \subseteq Holders
  BY DEF Holders

\* Letting go of descriptors, and passing them on.
LEMMA HeldTypes ==
    ASSUME held \in [Ports -> SUBSET Holders]
    PROVE  /\ \A gone : Drop(gone) \in [Ports -> SUBSET Holders]
           /\ \A ps, from : \A to \in Holders : Move(ps, from, to) \in [Ports -> SUBSET Holders]
  BY DEF Drop, Move

LEMMA InitTypes == Init => TypeOK
<1> SUFFICES ASSUME Init PROVE TypeOK
  OBVIOUS
<1>1. held \in [Ports -> SUBSET Holders]
  BY HolderKinds DEF Init
<1>2. tuber \in [Ports -> {"none", "up", "error"}]
  BY DEF Init
<1> QED
  BY <1>1, <1>2, InitOrder DEF Init, TypeOK, OrNone

LEMMA StandaloneTypes ==
    ASSUME TypeOK, DTypeOK',
           \/ BeginFds \/ BeginLegacy \/ BeginFails \/ Send \/ AcceptFails
           \/ Poll \/ PollGoesOn \/ Ready \/ GivesUp \/ Join \/ ChildEnds \/ Others
    PROVE  TypeOK'
<1>a. held \in [Ports -> SUBSET Holders]
  BY DEF TypeOK
<1> USE DEF TypeOK, hand, ports, OrNone
<1>1. CASE BeginFds
  <2>1. held' \in [Ports -> SUBSET Holders]
    BY <1>1, <1>a, HolderKinds DEF BeginFds
  <2> QED
    BY <1>1, <2>1 DEF BeginFds
<1>2. CASE BeginLegacy \/ BeginFails
  BY <1>2, <1>a, HeldTypes DEF BeginLegacy, BeginFails
<1>3. CASE Send
  <2>1. held' \in [Ports -> SUBSET Holders]
    BY <1>3, <1>a, HeldTypes, HolderKinds DEF Send
  <2>2. sent' \in SUBSET Ports
    BY <1>3 DEF Send, HeldBy
  <2> QED
    BY <1>3, <2>1, <2>2 DEF Send
<1>4. CASE AcceptFails \/ ChildEnds
  BY <1>4 DEF AcceptFails, ChildEnds
<1>5. CASE Poll \/ PollGoesOn \/ Others
  BY <1>5 DEF Poll, PollGoesOn, Others
<1>6. CASE Ready \/ GivesUp
  BY <1>6 DEF Ready, GivesUp, StopsPolling
<1>7. CASE Join
  BY <1>7, <1>a, HeldTypes DEF Join
<1> QED
  BY <1>1, <1>2, <1>3, <1>4, <1>5, <1>6, <1>7

LEMMA DaemonSideTypes ==
    ASSUME TypeOK, DTypeOK', NEW d \in Daemons,
           Starts(d) \/ DaemonGoesOn(d) \/ Collect(d) \/ Ends(d)
    PROVE  TypeOK'
<1>a. held \in [Ports -> SUBSET Holders] /\ d \in Holders
  BY HolderKinds DEF TypeOK
<1> USE DEF TypeOK, hand, ports, OrNone
<1>1. CASE Starts(d) \/ Prepares(d) \/ CleansUp(d)
  BY <1>1 DEF Starts, Prepares, CleansUp
<1>2. CASE Dial(d)
  BY <1>2 DEF Dial
<1>3. CASE Recv(d)
  <2>1. held' \in [Ports -> SUBSET Holders]
    BY <1>3, <1>a, HeldTypes DEF Recv
  <2>2. adopted' \in SUBSET Ports
    BY <1>3 DEF Recv, HeldBy
  <2> QED
    BY <1>3, <2>1, <2>2 DEF Recv
<1>4. CASE Binds(d)
  BY <1>4, <1>a, HeldTypes DEF Binds
<1>5. CASE EngineStarts(d)
  <2>1. tuber' \in [Ports -> {"none", "up", "error"}]
    BY <1>5 DEF EngineStarts
  <2>2. held' \in [Ports -> SUBSET Holders]
    BY <1>5, <1>a DEF EngineStarts
  <2> QED
    BY <1>5, <2>1, <2>2 DEF EngineStarts
<1>6. CASE Collect(d)
  BY <1>6, <1>a DEF Collect
<1>7. CASE Stops(d)
  <2>1. held' \in [Ports -> SUBSET Holders]
    BY <1>7, <1>a DEF Stops
  <2> QED
    BY <1>7, <2>1 DEF Stops
<1>8. CASE Ends(d)
  BY <1>8, <1>a, HeldTypes DEF Ends
<1> QED
  BY <1>1, <1>2, <1>3, <1>4, <1>5, <1>6, <1>7, <1>8 DEF DaemonGoesOn

LEMMA NextTypes == TypeOK /\ DTypeOK' /\ [Next]_hvars => TypeOK'
<1>1. TypeOK /\ DTypeOK' /\ UNCHANGED hvars => TypeOK'
  BY DEF TypeOK, hvars, hand, ports
<1> QED
  BY <1>1, StandaloneTypes, DaemonSideTypes DEF Next

\* Every variable keeps its type.
THEOREM HandoffTypeCorrect == Spec => []TypeOK
<1>1. TypeOK /\ (DTypeOK /\ Order)' /\ [Next]_hvars => TypeOK'
  BY NextTypes
<1> QED
  BY <1>1, InitTypes, OrderKept, PTL DEF Spec

LEMMA Kept == Spec => [](TypeOK /\ Order)
  BY HandoffTypeCorrect, OrderKept, PTL

-----------------------------------------------------------------------------
(* The descriptors. They travel from the standalone into one message, from   *)
(* the message to the daemon that was spawned, and there to their tubers; as *)
(* that daemon alone runs, no other one is asked for the ports meanwhile.    *)

Early == {"locked", "probing", "checked", "bound", "marked", "ready"}
Fit == Fits(Cardinality(sent))

\* Nothing has begun.
Fresh ==
    spc = "up" => /\ path = "none" /\ spawnee = None /\ xfer = "none" /\ sender = "none"
                  /\ sent = {} /\ recv = "not"

\* How far the message is.
Message ==
    /\ sender # "ended" => sent = {}
    /\ HeldBy("message") = (IF spawnee # None /\ recv = "waiting" THEN sent ELSE {})
    /\ spawnee # None /\ recv # "not" => path = "fds" /\ Running(spawnee)
    /\ spawnee # None /\ recv = "not" => sent = {}
    /\ spawnee # None /\ xfer = "dialed" /\ sender = "accept" => recv = "waiting"

\* What came out of it.
Arrival ==
    /\ recv # "done" => adopted = {}
    /\ \A d \in Daemons : Running(d) /\ d # spawnee => recv = "not"
    /\ \A d \in Daemons :
           Hands(d) /\ pc[d] \in {"bound", "marked", "ready", "serving"} => recv = "done"
    /\ spawnee # None /\ recv = "done" /\ Fit => adopted = sent

\* What a daemon holds before its engine starts, and after.
Holding ==
    \A d \in Daemons :
        /\ ~Running(d) => HeldBy(d) = {}
        /\ pc[d] \in Early /\ Fit => HeldBy(d) \subseteq adopted
        /\ d = spawnee /\ pc[d] \in Early /\ Fit /\ recv = "done" => sent \subseteq HeldBy(d)
        /\ pc[d] = "serving" /\ Fit => \A p \in HeldBy(d) : Used(p) \/ Garbage(p)
        /\ d = spawnee /\ pc[d] = "serving" /\ Fit =>
               \A p \in sent : conf[p] = "local" => d \in held[p] /\ tuber[p] = "up"

Passing == Fresh /\ Message /\ Arrival /\ Holding

USE DEF Used, Garbage

\* A message of nothing fits.
LEMMA FitNothing == Fits(Cardinality({}))
  BY FS_EmptySet, MaxFDsAssumption DEF Fits

LEMMA InitPassing == Init => Passing
  BY NoneAssumption, HoldersAssumption
     DEF Init, DInit, Passing, Fresh, Message, Arrival, Holding, HeldBy, Running, Early, Hands

LEMMA PassingShows == TypeOK /\ Order /\ Passing => PortsStayUp /\ NothingLeaks
<1> SUFFICES ASSUME TypeOK, Order, Passing PROVE PortsStayUp /\ NothingLeaks
  OBVIOUS
<1>1. NothingLeaks
  BY NoneAssumption DEF TypeOK, DTypeOK, OrNone, Passing, Holding, NothingLeaks, Fit
<1>2. PortsStayUp
  <2> SUFFICES ASSUME spawnee # None, Fit, pc[spawnee] \notin {"drained", "cleaned"},
                      NEW p \in sent, conf[p] = "local"
               PROVE  /\ "message" \in held[p] \/ spawnee \in held[p]
                      /\ pc[spawnee] = "serving" => tuber[p] = "up"
    BY DEF PortsStayUp, Fit
  <2>1. spawnee \in Daemons /\ p \in Ports /\ pc[spawnee] \in Steps /\ recv \in {"not", "waiting", "done"}
    BY DEF TypeOK, DTypeOK, OrNone
  <2>2. recv # "not" /\ Running(spawnee) /\ Hands(spawnee)
    BY DEF Passing, Message, Hands
  <2>3. CASE recv = "waiting"
    BY <2>1, <2>2, <2>3 DEF Passing, Message, Arrival, HeldBy
  <2>4. CASE recv = "done"
    <3>1. pc[spawnee] \in Early \/ pc[spawnee] = "serving"
      BY <2>1, <2>2 DEF Running, Steps, Early
    <3> QED
      BY <2>1, <2>4, <3>1 DEF Passing, Holding, HeldBy, Early
  <2> QED
    BY <2>1, <2>2, <2>3, <2>4
<1> QED
  BY <1>1, <1>2

\* Steps that leave the daemons and the descriptors in them alone.
LEMMA Unmoved ==
    ASSUME Passing, UNCHANGED <<spawnee, path, sent, recv, adopted, conf, tuber, pc>>,
           \A h \in Daemons \cup {"message"} : HeldBy(h)' = HeldBy(h),
           \A p \in Ports, d \in Daemons : d \in held[p] => d \in held'[p],
           sent \subseteq Ports,
           spc' = "up" => spc = "up" /\ UNCHANGED <<xfer, sender>>,
           sender' # "ended" => sender # "ended",
           xfer' = "dialed" /\ sender' = "accept" => xfer = "dialed" /\ sender = "accept"
    PROVE  Passing'
<1>1. Fresh' /\ Message' /\ Arrival'
  BY DEF Passing, Fresh, Message, Arrival, Hands, Running, Fit
<1>2. Holding'
  BY DEF Passing, Holding, Running, Fit
<1> QED
  BY <1>1, <1>2 DEF Passing

LEMMA StandalonePasses ==
    ASSUME TypeOK, Order, Passing,
           \/ BeginFds \/ BeginLegacy \/ BeginFails \/ Send \/ AcceptFails
           \/ Poll \/ PollGoesOn \/ Ready \/ GivesUp \/ Join \/ ChildEnds
    PROVE  Passing'
<1>a. /\ held \in [Ports -> SUBSET Holders] /\ pc \in [Daemons -> Steps] /\ sent \subseteq Ports
      /\ spawnee \in Daemons \cup {None} /\ xfer \in {"none", "open", "dialed", "closed"}
      /\ sender \in {"none", "accept", "ended"} /\ recv \in {"not", "waiting", "done"}
  BY DEF TypeOK, DTypeOK, OrNone
<1>b. {"tubers", "files", "message"} \cap Daemons = {}
  BY HoldersAssumption
<1>1. CASE BeginFds
  <2>1. /\ \A h \in Daemons \cup {"message"} : HeldBy(h)' = HeldBy(h)
        /\ UNCHANGED <<pc, sent, recv, adopted, conf, tuber>>
        /\ sent = {} /\ recv = "not" /\ spawnee = None
    BY <1>1, <1>a, <1>b DEF BeginFds, HeldBy, Passing, Fresh, dvars
  <2>2. PICK d \in Daemons : spawnee' = d /\ pc[d] = "off"
    BY <1>1 DEF BeginFds, Free
  <2>3. Fresh' /\ Message'
    BY <1>1, <2>1, <2>2, NoneAssumption DEF BeginFds, Passing, Fresh, Message
  <2>4. Arrival' /\ Holding'
    BY <1>1, <2>1, <2>2, NoneAssumption
       DEF Passing, Arrival, Holding, Hands, Running, Fit, Early
  <2> QED
    BY <2>3, <2>4 DEF Passing
<1>2. CASE BeginLegacy
  <2>1. /\ \A h \in Daemons \cup {"message"} : HeldBy(h)' = HeldBy(h)
        /\ UNCHANGED <<pc, sent, recv, adopted, conf, tuber>>
        /\ sent = {} /\ recv = "not" /\ spawnee = None
    BY <1>2, <1>a, <1>b DEF BeginLegacy, HeldBy, Drop, Passing, Fresh, dvars
  <2>2. PICK d \in Daemons : spawnee' = d /\ pc[d] = "off"
    BY <1>2 DEF BeginLegacy, Free
  <2>3. Fresh' /\ Message'
    BY <1>2, <2>1, <2>2, NoneAssumption DEF BeginLegacy, Passing, Fresh, Message
  <2>4. Arrival' /\ Holding'
    BY <1>2, <2>1, <2>2, NoneAssumption
       DEF Passing, Arrival, Holding, Hands, Running, Fit, Early
  <2> QED
    BY <2>3, <2>4 DEF Passing
<1>3. CASE BeginFails
  <2>1. /\ \A h \in Daemons \cup {"message"} : HeldBy(h)' = HeldBy(h)
        /\ spawnee = None /\ spawnee' = None /\ sent = {} /\ spc' # "up"
        /\ UNCHANGED <<pc, xfer, sender, sent, recv, adopted, conf, tuber>>
    BY <1>3, <1>a, <1>b DEF BeginFails, HeldBy, Drop, Passing, Fresh, dvars
  <2>2. Fresh' /\ Message'
    BY <2>1 DEF Passing, Fresh, Message
  <2>3. Arrival' /\ Holding'
    BY <2>1, NoneAssumption DEF Passing, Arrival, Holding, Hands, Running, Fit
  <2> QED
    BY <2>2, <2>3 DEF Passing
<1>4. CASE Send
  <2>1. /\ sent = {} /\ spc # "up" /\ spc' # "up" /\ sender' = "ended"
        /\ UNCHANGED <<pc, spawnee, path, xfer, recv, adopted, conf, tuber>>
    BY <1>4 DEF Send, Passing, Fresh, Message, dvars
  <2>2. CASE held' = Drop({"files"}) /\ UNCHANGED sent
    <3>1. /\ \A h \in Daemons \cup {"message"} : HeldBy(h)' = HeldBy(h)
          /\ \A p \in Ports, d \in Daemons : d \in held[p] => d \in held'[p]
      BY <2>2, <1>a, <1>b DEF HeldBy, Drop
    <3> QED
      BY <1>a, <2>1, <2>2, <3>1, Unmoved
  <2>3. CASE sent' = HeldBy("files") /\ held' = Move(sent', "files", "message") /\ spawnee # None
    <3>1. recv = "waiting" /\ path = "fds" /\ Running(spawnee) /\ spawnee \in Daemons
      BY <1>4, <1>a, <2>3 DEF Send, Passing, Message
    <3>2. HeldBy("message") = {}
      BY <2>1 DEF Passing, Message
    <3>3. /\ HeldBy("message")' = sent' /\ \A d \in Daemons : HeldBy(d)' = HeldBy(d)
      BY <1>a, <1>b, <2>3, <3>2 DEF HeldBy, Move
    <3>4. adopted = {} /\ pc[spawnee] \notin {"bound", "marked", "ready", "serving"}
      BY <3>1 DEF Passing, Arrival, Hands
    <3>5. \A d \in Daemons : d # spawnee => ~Running(d)
      BY <3>1 DEF Passing, Arrival
    <3>6. Fit
      BY <2>1, FitNothing DEF Fit
    <3>7. pc[spawnee] \in Early => HeldBy(spawnee) = {}
      BY <3>1, <3>4, <3>6 DEF Passing, Holding
    <3>8. Fresh' /\ Message'
      BY <2>1, <2>3, <3>1, <3>3 DEF Passing, Fresh, Message, Running
    <3>9. Arrival'
      BY <2>1, <3>1 DEF Passing, Arrival, Hands, Running
    <3>10. Holding'
      BY <2>1, <3>1, <3>3, <3>4, <3>5, <3>7 DEF Passing, Holding, Running, Early
    <3> QED
      BY <3>8, <3>9, <3>10 DEF Passing
  <2> QED
    BY <1>4, <2>2, <2>3 DEF Send
<1>5. CASE AcceptFails
  BY <1>5, <1>a, Unmoved DEF AcceptFails, Passing, Fresh, ports, dvars, HeldBy
<1>6. CASE Poll \/ PollGoesOn
  <2>1. UNCHANGED <<pc, hand, ports>>
    BY <1>6 DEF Poll, PollGoesOn, Look, ClientStep, ProbeAnswered, ProbeSilent, SweepMarker,
         SweepSocket, Fallback, Leave, StopReachable, StopLost, StopWaits, Unmark
  <2> QED
    BY <1>a, <2>1, Unmoved DEF hand, ports, HeldBy
<1>7. CASE Ready \/ GivesUp
  <2>1. UNCHANGED <<pc, path, spawnee, sender, sent, ports>> /\ xfer' = "closed" /\ spc' = "joining"
    BY <1>7 DEF Ready, GivesUp, StopsPolling, Leave, dvars
  <2> QED
    BY <1>a, <2>1, Unmoved DEF ports, HeldBy
<1>8. CASE Join
  <2>1. /\ \A h \in Daemons \cup {"message"} : HeldBy(h)' = HeldBy(h)
        /\ \A p \in Ports, d \in Daemons : d \in held[p] => d \in held'[p]
    BY <1>8, <1>a, <1>b DEF Join, HeldBy, Drop
  <2> QED
    BY <1>8, <1>a, <2>1, Unmoved DEF Join, dvars
<1>9. CASE ChildEnds
  <2>1. /\ pc[spawnee] = "off" /\ spawnee # None /\ spawnee' = None
        /\ UNCHANGED <<pc, spc, path, xfer, sender, sent, ports>>
    BY <1>9 DEF ChildEnds, dvars
  <2>2. recv = "not" /\ sent = {} /\ spc # "up"
    BY <1>a, <2>1, NoneAssumption DEF Passing, Fresh, Message, Running
  <2>3. Fresh' /\ Message'
    BY <2>1, <2>2 DEF Passing, Fresh, Message, ports, HeldBy
  <2>4. Arrival' /\ Holding'
    BY <2>1, <2>2, NoneAssumption
       DEF Passing, Arrival, Holding, Hands, Running, Fit, ports, HeldBy
  <2> QED
    BY <2>3, <2>4 DEF Passing
<1> QED
  BY <1>1, <1>2, <1>3, <1>4, <1>5, <1>6, <1>7, <1>8, <1>9

LEMMA OthersPass ==
    ASSUME TypeOK, Order, Passing, Others
    PROVE  Passing'
<1>1. sent \subseteq Ports
  BY DEF TypeOK
<1>2. UNCHANGED <<pc, hand, ports>>
  BY DEF Others, Look, ClientStep, ProbeAnswered, ProbeSilent, SweepMarker, SweepSocket, Fallback,
         Leave, StopReachable, StopLost, StopWaits, Unmark, Reap, TakePid, Interrupted
<1> QED
  BY <1>1, <1>2, Unmoved DEF hand, ports, HeldBy

\* A daemon of its own is the only one that runs.
LEMMA Alone ==
    ASSUME Order, NEW d \in Daemons, Running(d)
    PROVE  \A e \in Daemons \ {d} : ~Running(e)
  BY DEF Order, Exclusive

\* A daemon takes the lock: it holds nothing, and nothing is under way.
LEMMA StartPasses ==
    ASSUME TypeOK, Order, Order', Passing, NEW d \in Daemons, Starts(d)
    PROVE  Passing'
<1>1. /\ pc[d] = "off" /\ pc' = [pc EXCEPT ![d] = "locked"] /\ pc \in [Daemons -> Steps]
      /\ spawnee \in Daemons \cup {None}
      /\ UNCHANGED <<hand, held>> /\ recv' = "not" /\ adopted' = {}
  BY DEF Starts, Acquire, Step, TypeOK, DTypeOK, OrNone
<1>2. \A e \in Daemons : ~Running(e)
  BY <1>1, NoneAssumption DEF Starts, Acquire, Order, Exclusive
<1>3. (spawnee # None => recv = "not" /\ sent = {}) /\ HeldBy("message") = {}
  BY <1>1, <1>2 DEF Passing, Message
<1>4. \A e \in Daemons : HeldBy(e) = {}
  BY <1>2 DEF Passing, Holding
<1>5. Fresh' /\ Message'
  BY <1>1, <1>3 DEF Passing, Fresh, Message, hand, HeldBy
<1>6. Arrival'
  BY <1>1, <1>2 DEF Passing, Arrival, hand, Hands, Running, Fit
<1>7. Holding'
  BY <1>1, <1>2, <1>4 DEF Passing, Holding, hand, HeldBy, Running, Fit, Early
<1> QED
  BY <1>5, <1>6, <1>7 DEF Passing

\* A process that ends gives back its descriptors and those nobody took.
LEMMA EndPasses ==
    ASSUME TypeOK, Order, Order', Passing, NEW d \in Daemons, Ends(d)
    PROVE  Passing'
<1>1. /\ Running(d) /\ pc' = [pc EXCEPT ![d] = "off"] /\ pc \in [Daemons -> Steps]
      /\ spawnee \in Daemons \cup {None} /\ held \in [Ports -> SUBSET Holders]
      /\ UNCHANGED <<spc, path, xfer, sender, sent, recv, conf>> /\ adopted' = {}
      /\ spawnee' = (IF d = spawnee THEN None ELSE spawnee)
  BY DEF Ends, Unlock, Refused, Crash, Exits, Enter, Running, TypeOK, DTypeOK, OrNone
<1>2. \A e \in Daemons : pc'[e] = "off"
  BY <1>1, Alone DEF Running
<1>3. /\ \A e \in Daemons : HeldBy(e)' = {}
      /\ HeldBy("message")' = {} \/ (HeldBy("message")' = HeldBy("message") /\ ~Hands(d))
  <2>1. \A e \in Daemons : e # d => HeldBy(e) = {}
    BY <1>1, Alone DEF Passing, Holding
  <2> QED
    BY <1>1, <2>1, HoldersAssumption DEF Ends, HeldBy, Drop
<1>4. Fresh'
  BY <1>1 DEF Passing, Fresh
<1>5. Message'
  <2>1. CASE d = spawnee
    <3>1. ~Hands(d) => HeldBy("message") = {}
      BY <1>1, <2>1 DEF Passing, Message, Hands
    <3> QED
      BY <1>1, <1>3, <2>1, <3>1 DEF Passing, Message
  <2>2. CASE d # spawnee
    <3>1. spawnee # None => recv = "not" /\ sent = {}
      BY <1>1, <2>2 DEF Passing, Message, Arrival
    <3>2. HeldBy("message") = {} /\ HeldBy("message")' = {}
      BY <1>3, <3>1 DEF Passing, Message
    <3> QED
      BY <1>1, <2>2, <3>1, <3>2 DEF Passing, Message
  <2> QED
    BY <2>1, <2>2
<1>6. Arrival'
  <2>1. \A e \in Daemons : ~Running(e)'
    BY <1>2 DEF Running
  <2>2. spawnee' # None => recv # "done"
    BY <1>1, <2>1 DEF Passing, Message, Arrival
  <2> QED
    BY <1>1, <1>2, <2>1, <2>2 DEF Passing, Arrival
<1>7. Holding'
  BY <1>2, <1>3 DEF Holding, Running, Early
<1> QED
  BY <1>4, <1>5, <1>6, <1>7 DEF Passing

\* A daemon goes on before its engine starts, and holds what it held.
LEMMA EarlyPasses ==
    ASSUME TypeOK, Order, Passing, NEW d \in Daemons, Prepares(d) \/ Binds(d)
    PROVE  Passing'
<1>1. /\ pc[d] \in Early /\ pc'[d] \in Early /\ pc' = [pc EXCEPT ![d] = pc'[d]]
      /\ pc[d] \notin {"bound", "marked"} =>
             pc'[d] \notin {"bound", "marked", "ready"} \/ (Hands(d) => recv = "done")
      /\ UNCHANGED <<hand, ports>> /\ pc \in [Daemons -> Steps]
  <2>1. CASE Prepares(d)
    BY <2>1 DEF Prepares, NoMarker, DeadMarker, Stale, Mark, WriteToken, Step, TypeOK, DTypeOK,
                Early
  <2>2. CASE Binds(d)
    <3>1. pc[d] = "checked" /\ sock = None
      BY <2>2 DEF Binds, Listen, Order, SocketPlace
    <3>2. pc' = [pc EXCEPT ![d] = "bound"] /\ pc \in [Daemons -> Steps]
      BY <2>2, <3>1 DEF Binds, Listen, Enter, TypeOK, DTypeOK
    <3> QED
      BY <2>2, <3>1, <3>2 DEF Binds, ports, Early
  <2> QED
    BY <2>1, <2>2
<1>2. Fresh' /\ Message'
  <2>1. spawnee \in Daemons \cup {None}
    BY DEF TypeOK, OrNone
  <2> QED
    BY <1>1, <2>1 DEF Passing, Fresh, Message, hand, ports, HeldBy, Running, Early
<1>3. Arrival'
  BY <1>1 DEF Passing, Arrival, hand, ports, Hands, Running, Fit, Early
<1>4. Holding'
  BY <1>1 DEF Passing, Holding, hand, ports, HeldBy, Running, Fit, Early
<1> QED
  BY <1>2, <1>3, <1>4 DEF Passing

LEMMA DialPasses ==
    ASSUME TypeOK, Order, Passing, NEW d \in Daemons, Dial(d)
    PROVE  Passing'
<1>1. /\ d = spawnee /\ spawnee # None /\ path = "fds" /\ pc[d] = "checked" /\ recv = "not"
      /\ UNCHANGED <<pc, spc, path, spawnee, sender, sent, adopted, held, conf, tuber>>
      /\ \/ xfer = "open" /\ xfer' = "dialed" /\ recv' = "waiting"
         \/ xfer # "open" /\ recv' = "done" /\ xfer' = xfer
  BY NoneAssumption DEF Dial, Hands, dvars
<1>2. sent = {} /\ adopted = {} /\ HeldBy("message") = {} /\ spc # "up"
  BY <1>1 DEF Passing, Fresh, Message, Arrival
<1>3. \A e \in Daemons : e # d => ~Running(e)
  BY <1>1, Alone DEF Running
<1>4. Fresh' /\ Message'
  BY <1>1, <1>2 DEF Passing, Fresh, Message, HeldBy, Running
<1>5. Arrival'
  BY <1>1, <1>2, <1>3 DEF Passing, Arrival, Hands, Running, Fit
<1>6. Holding'
  BY <1>1, <1>2 DEF Passing, Holding, HeldBy, Running, Fit, Early
<1> QED
  BY <1>4, <1>5, <1>6 DEF Passing

\* The message arrives, whole if it fits.
LEMMA RecvPasses ==
    ASSUME TypeOK, Order, Passing, NEW d \in Daemons, Recv(d)
    PROVE  Passing'
<1>1. /\ d = spawnee /\ spawnee # None /\ path = "fds" /\ recv = "waiting" /\ recv' = "done"
      /\ UNCHANGED <<pc, spc, path, spawnee, xfer, sender, sent, conf, tuber>>
      /\ held \in [Ports -> SUBSET Holders] /\ pc \in [Daemons -> Steps]
      /\ sent \subseteq Ports /\ sender = "ended"
  BY NoneAssumption DEF Recv, Hands, dvars, hand, TypeOK, DTypeOK
<1>2. HeldBy("message") = sent /\ adopted = {} /\ Running(d) /\ spc # "up"
  BY <1>1 DEF Passing, Fresh, Message, Arrival
<1>3. \A e \in Daemons : e # d => ~Running(e)
  BY <1>2, Alone
<1>4. pc[d] \notin {"bound", "marked", "ready", "serving"}
  BY <1>1 DEF Passing, Arrival, Hands
<1>5. PICK moved \in SUBSET sent :
          /\ held' = Move(moved, "message", d)
          /\ Fit => moved = sent /\ adopted' = sent
  BY <1>2 DEF Recv, Fit
<1>6. /\ HeldBy("message")' = {} /\ HeldBy(d)' = HeldBy(d) \cup moved
      /\ \A e \in Daemons : e # d => HeldBy(e)' = HeldBy(e)
  BY <1>1, <1>5, HoldersAssumption DEF HeldBy, Move
<1>7. Fresh' /\ Message'
  BY <1>1, <1>2, <1>6 DEF Passing, Fresh, Message, Running
<1>8. Arrival'
  BY <1>1, <1>3, <1>5 DEF Passing, Arrival, Hands, Running, Fit
<1>9. Holding'
  BY <1>1, <1>2, <1>3, <1>4, <1>5, <1>6 DEF Passing, Holding, Running, Fit, Early
<1> QED
  BY <1>7, <1>8, <1>9 DEF Passing

\* The engine starts: what was adopted goes to a tuber, is closed, or is garbage.
LEMMA EnginePasses ==
    ASSUME TypeOK, Order, Passing, NEW d \in Daemons, EngineStarts(d)
    PROVE  Passing'
<1>1. /\ pc[d] = "ready" /\ pc' = [pc EXCEPT ![d] = "serving"] /\ pc \in [Daemons -> Steps]
      /\ UNCHANGED <<hand, recv, adopted, conf>> /\ held \in [Ports -> SUBSET Holders]
      /\ conf \in [Ports -> {"local", "remote", "off"}]
      /\ sent \subseteq Ports /\ spawnee \in Daemons \cup {None}
  BY ConfigsAssumption DEF EngineStarts, Serve, Step, TypeOK, DTypeOK, OrNone
<1>2. \A e \in Daemons : e # d => ~Running(e)
  BY <1>1, Alone DEF Running
<1>3. /\ HeldBy("message")' = HeldBy("message")
      /\ \A e \in Daemons : e # d => HeldBy(e)' = HeldBy(e)
  BY <1>1, HoldersAssumption DEF EngineStarts, HeldBy
<1>4. Fit => HeldBy(d) \subseteq adopted
  BY <1>1 DEF Passing, Holding, Early
<1>5. \A p \in Ports :
          d \in held'[p] /\ (d \in held[p] => p \in adopted) => Used(p)' \/ Garbage(p)'
  BY <1>1 DEF EngineStarts
<1>6. \A p \in Ports : conf[p] = "local" /\ d \in held[p] /\ p \in adopted =>
          d \in held'[p] /\ tuber'[p] = "up"
  BY <1>1 DEF EngineStarts
<1>7. d = spawnee /\ Fit => sent \subseteq adopted /\ sent \subseteq HeldBy(d)
  <2> SUFFICES ASSUME d = spawnee, Fit, sent # {} PROVE sent \subseteq adopted /\ sent \subseteq HeldBy(d)
    OBVIOUS
  <2>1. spawnee # None /\ recv # "not" /\ path = "fds"
    BY NoneAssumption DEF Passing, Message
  <2>2. recv = "done"
    BY <1>1, <2>1 DEF Passing, Arrival, Hands
  <2> QED
    BY <1>1, <2>1, <2>2 DEF Passing, Arrival, Holding, Early
<1>8. Fresh' /\ Message'
  BY <1>1, <1>3 DEF Passing, Fresh, Message, hand, Running
<1>9. Arrival'
  BY <1>1 DEF Passing, Arrival, hand, Hands, Running, Fit
<1>10. Holding'
  <2>1. \A e \in Daemons : pc'[e] \notin Early
    BY <1>1, <1>2 DEF Running, Early
  <2>2. Fit => \A p \in HeldBy(d)' : Used(p)' \/ Garbage(p)'
    BY <1>4, <1>5 DEF HeldBy
  <2>3. d = spawnee /\ Fit => \A p \in sent : conf[p] = "local" => d \in held'[p] /\ tuber'[p] = "up"
    BY <1>1, <1>6, <1>7 DEF HeldBy
  <2> QED
    BY <1>1, <1>2, <1>3, <2>1, <2>2, <2>3 DEF Passing, Holding, hand, Running, Fit
<1> QED
  BY <1>8, <1>9, <1>10 DEF Passing

\* A daemon that serves or stops lets go of descriptors.
LEMMA LatePasses ==
    ASSUME TypeOK, Order, Passing, NEW d \in Daemons, Collect(d) \/ Stops(d) \/ CleansUp(d)
    PROVE  Passing'
<1>1. /\ UNCHANGED <<hand, recv, adopted, conf>> /\ held \in [Ports -> SUBSET Holders]
      /\ pc \in [Daemons -> Steps] /\ pc[d] \in {"serving", "drained"}
      /\ sent \subseteq Ports
  BY DEF Collect, Stops, Drain, CleansUp, Cleanup, Step, ports, TypeOK, DTypeOK
<1>2. \A e \in Daemons : e # d => ~Running(e)
  BY <1>1, Alone DEF Running
<1>3. \A h \in Daemons \cup {"message"} : h # d => HeldBy(h)' = HeldBy(h)
  BY <1>1, HoldersAssumption DEF Collect, Stops, CleansUp, ports, HeldBy
<1>4. \/ /\ pc' = pc /\ tuber' = tuber /\ HeldBy(d)' \subseteq HeldBy(d)
         /\ \A p \in Ports : conf[p] = "local" /\ d \in held[p] => d \in held'[p]
      \/ pc' = [pc EXCEPT ![d] = "drained"] \/ pc' = [pc EXCEPT ![d] = "cleaned"]
  BY <1>1 DEF Collect, Stops, Drain, CleansUp, Cleanup, Step, dvars, HeldBy
<1>5. Fresh' /\ Message'
  <2>1. spawnee \in Daemons \cup {None}
    BY DEF TypeOK, OrNone
  <2>2. spawnee # None /\ Running(spawnee) => Running(spawnee)'
    BY <1>1, <1>4, <2>1 DEF hand, Running
  <2>3. HeldBy("message")' = HeldBy("message")
    BY <1>3, HoldersAssumption
  <2> QED
    BY <1>1, <2>2, <2>3 DEF Passing, Fresh, Message, hand
<1>6. Arrival'
  BY <1>1, <1>4 DEF Passing, Arrival, hand, Hands, Running, Fit
<1>7. Holding'
  <2>1. \A e \in Daemons : e # d => HeldBy(e)' = {} /\ pc'[e] = "off"
    BY <1>1, <1>2, <1>3, <1>4 DEF Passing, Holding, Running
  <2>2. pc'[d] \notin Early /\ Running(d)'
    BY <1>1, <1>4 DEF Early, Running
  <2>3. pc'[d] = "serving" => pc' = pc
    BY <1>1, <1>4
  <2> QED
    BY <1>1, <1>4, <2>1, <2>2, <2>3 DEF Passing, Holding, hand, Running, Fit, Early, HeldBy
<1> QED
  BY <1>5, <1>6, <1>7 DEF Passing

LEMMA NextPasses == TypeOK /\ Order /\ Order' /\ Passing /\ [Next]_hvars => Passing'
<1> SUFFICES ASSUME TypeOK, Order, Order', Passing, [Next]_hvars PROVE Passing'
  OBVIOUS
<1>1. CASE UNCHANGED hvars
  BY <1>1, Unmoved DEF hvars, dvars, hand, ports, HeldBy, TypeOK
<1>2. ASSUME NEW d \in Daemons, DaemonGoesOn(d) PROVE Passing'
  BY <1>2, EarlyPasses, DialPasses, RecvPasses, EnginePasses, LatePasses DEF DaemonGoesOn
<1>3. ASSUME NEW d \in Daemons, Starts(d) \/ Collect(d) \/ Ends(d) PROVE Passing'
  BY <1>3, StartPasses, LatePasses, EndPasses
<1> QED
  BY <1>1, <1>2, <1>3, StandalonePasses, OthersPass DEF Next

LEMMA PassingHolds == Spec => []Passing
<1>1. TypeOK /\ Order /\ Passing /\ (TypeOK /\ Order)' /\ [Next]_hvars => Passing'
  BY NextPasses
<1> QED
  BY <1>1, InitPassing, Kept, PTL DEF Spec

\* No port that was passed on is let go of, whenever the standalone gives up,
\* and the daemon's tubers are up on them (sendListeners, StartEnabledWith).
THEOREM PassedPortsStayUp == Spec => []PortsStayUp
  BY PassingShows, PassingHolds, Kept, PTL

\* A daemon that serves holds no listener but its tubers' own, and one it was
\* handed for a tuber that became remote, which is garbage (StartEnabledWith).
THEOREM NoPortLeaks == Spec => []NothingLeaks
  BY PassingShows, PassingHolds, Kept, PTL
=============================================================================

---------------------------- MODULE ChangeStream ----------------------------
(***************************************************************************)
(* How a front end hears of a change (internal/forward engine.go,          *)
(* internal/daemon server.go, internal/client, internal/controller,        *)
(* internal/tui). Signals carry nothing: each is a hint to list the tubers *)
(* again. In a standalone process the engine's subscriber channel feeds    *)
(* the controller; attached, the daemon's event stream stands in between,  *)
(* and the controller dials it again whenever it breaks.                   *)
(***************************************************************************)
EXTENDS Naturals

CONSTANTS
    Values,      \* what GET /tubers may answer
    NoList,      \* the empty list a failed request is turned into
    Buffer,      \* subscriberBuffer
    MaxWire      \* bound: frames written and not read yet

ASSUME NoListAssumption == NoList \notin Values
ASSUME ValuesAssumption == Values \cap {"none", "asked", "failed"} = {}
ASSUME ChannelBounds == Buffer \in Nat \ {0} /\ MaxWire \in Nat \ {0}

VARIABLES
    mode,        \* "attach" or "standalone", and whether daemons make tokens
    daemon,      \* the process that holds the engine is "up" or "down"
    admitted,    \* the token the client was built with is this daemon's
    status,      \* what the engine would list now
    untold,      \* a tuber changed and has not called notify yet
    handler,     \* handleEvents; "streaming" from its Subscribe on
    queue,       \* signals in its subscriber channel
    wire,        \* frames written that the client has not read
    loop,        \* streamLoop, or the goroutine forward
    signal,      \* the channel changes, of capacity 1, holds a signal
    quit,        \* "no", "closing" once Close cancelled, "closed" once it returned
    tick,        \* the waiter for a change: "armed", "queued", "running"
    fetch,       \* List: "none", "asked", "failed" or the list answered
    picture,     \* Model.list
    late,        \* history: the last list request to end timed out
    missed       \* history: the last change fell in a gap, where nobody is told

server == <<daemon, admitted, status, untold, handler, queue>>
client == <<loop, signal, quit>>
screen == <<tick, fetch, picture, late>>
vars == <<mode, server, wire, client, screen, missed>>

Modes == [attach : BOOLEAN, tokens : BOOLEAN]

CTypeOK ==
    /\ mode \in Modes /\ daemon \in {"up", "down"} /\ admitted \in BOOLEAN
    /\ status \in Values /\ untold \in BOOLEAN
    /\ handler \in {"none", "greeting", "subscribing", "streaming"}
    /\ queue \in 0 .. Buffer /\ wire \in 0 .. MaxWire
    /\ loop \in {"connect", "scan", "sleep", "done"}
    /\ signal \in BOOLEAN /\ quit \in {"no", "closing", "closed"}
    /\ tick \in {"armed", "queued", "running"}
    /\ fetch \in Values \cup {"none", "asked", "failed"}
    /\ picture \in Values \cup {NoList} /\ late \in BOOLEAN /\ missed \in BOOLEAN

\* New has listed the tubers; Init is about to call Changes.
CInit ==
    /\ mode \in Modes
    /\ daemon = "up" /\ admitted = TRUE
    /\ status \in Values /\ untold = FALSE
    /\ handler = "none" /\ queue = 0 /\ wire = 0
    /\ loop = "connect" /\ signal = FALSE /\ quit = "no"
    /\ tick = "armed" /\ fetch = "none" /\ picture = status
    /\ late = FALSE /\ missed = FALSE

-----------------------------------------------------------------------------
(* The engine.                                                               *)

Change ==
    /\ daemon = "up"
    /\ \E v \in Values \ {status} : status' = v
    /\ untold' = TRUE
    /\ UNCHANGED <<mode, daemon, admitted, handler, queue, wire, client, screen, missed>>

\* Nobody is subscribed, and nobody who comes will ask anew: the handler has
\* sent its first frame, or the interface has listed and not subscribed yet.
Gap == handler = "subscribing" \/ (~mode.attach /\ handler # "streaming")

\* Mutant: a full channel is emptied.
Notify_DropsAll ==
    /\ daemon = "up" /\ untold
    /\ untold' = FALSE
    /\ queue' = IF handler = "streaming" /\ queue < Buffer THEN queue + 1 ELSE 0
    /\ missed' = (missed \/ Gap)
    /\ UNCHANGED <<mode, daemon, admitted, status, handler, wire, client, screen>>

\* notify: a full channel keeps what it has. Who is not subscribed is not told.
Notify ==
    /\ daemon = "up" /\ untold
    /\ untold' = FALSE
    /\ queue' = IF handler = "streaming" /\ queue < Buffer THEN queue + 1 ELSE queue
    /\ missed' = (missed \/ Gap)
    /\ UNCHANGED <<mode, daemon, admitted, status, handler, wire, client, screen>>

-----------------------------------------------------------------------------
(* The daemon's side of a stream, and the daemon.                            *)

\* handleEvents flushes one frame before anything happened...
Greet ==
    /\ handler = "greeting" /\ wire < MaxWire
    /\ wire' = wire + 1 /\ handler' = "subscribing"
    /\ UNCHANGED <<mode, daemon, admitted, status, untold, queue, client, screen, missed>>

\* ... and subscribes after it.
Subscribe ==
    /\ handler = "subscribing"
    /\ handler' = "streaming" /\ queue' = 0
    /\ UNCHANGED <<mode, daemon, admitted, status, untold, wire, client, screen, missed>>

WriteFrame ==
    /\ mode.attach /\ handler = "streaming" /\ queue > 0 /\ wire < MaxWire
    /\ queue' = queue - 1 /\ wire' = wire + 1
    /\ UNCHANGED <<mode, daemon, admitted, status, untold, handler, client, screen, missed>>

\* The connection is lost: the handler's context ends, it unsubscribes, and
\* frames under way may be lost with it.
StreamBroken == handler' = "none" /\ queue' = 0 /\ wire' \in 0 .. wire

Break ==
    /\ mode.attach /\ handler # "none"
    /\ StreamBroken
    /\ UNCHANGED <<mode, daemon, admitted, status, untold, client, screen, missed>>

DaemonStops ==
    /\ mode.attach /\ daemon = "up"
    /\ daemon' = "down" /\ admitted' = FALSE /\ untold' = FALSE
    /\ StreamBroken
    /\ fetch' = IF fetch = "asked" THEN "failed" ELSE fetch
    /\ late' = (late /\ fetch # "asked")
    /\ UNCHANGED <<mode, status, client, tick, picture, missed>>

\* Every start generates a token, unless tokens are off; the client keeps the
\* one it read when it was built.
DaemonStarts ==
    /\ daemon = "down"
    /\ daemon' = "up" /\ admitted' = ~mode.tokens
    /\ status' \in Values
    /\ UNCHANGED <<mode, untold, handler, queue, wire, client, screen, missed>>

-----------------------------------------------------------------------------
(* The controller.                                                           *)

\* Local.Changes subscribes; nothing is sent ahead of the first change.
SubscribeLocal ==
    /\ ~mode.attach /\ loop = "connect" /\ quit = "no"
    /\ loop' = "scan" /\ handler' = "streaming" /\ queue' = 0
    /\ UNCHANGED <<mode, daemon, admitted, status, untold, wire, signal, quit, screen, missed>>

Connect ==
    /\ mode.attach /\ loop = "connect" /\ quit = "no"
    /\ daemon = "up" /\ admitted
    /\ loop' = "scan" /\ handler' = "greeting" /\ wire' = 0
    /\ UNCHANGED <<mode, daemon, admitted, status, untold, queue, signal, quit, screen, missed>>

\* Refused, or 401.
ConnectFails ==
    /\ mode.attach /\ loop = "connect" /\ quit = "no"
    /\ daemon = "down" \/ ~admitted
    /\ loop' = "sleep"
    /\ UNCHANGED <<mode, server, wire, signal, quit, screen, missed>>

\* A frame, or a signal of the engine: one more signal, if none is pending.
Forward ==
    /\ loop = "scan"
    /\ IF mode.attach THEN wire > 0 /\ wire' = wire - 1 /\ UNCHANGED queue
                      ELSE queue > 0 /\ queue' = queue - 1 /\ UNCHANGED wire
    /\ signal' = TRUE
    /\ UNCHANGED <<mode, daemon, admitted, status, untold, handler, loop, quit, screen, missed>>

StreamEnds ==
    /\ loop = "scan" /\ handler = "none" /\ wire = 0 /\ quit = "no"
    /\ loop' = "sleep"
    /\ UNCHANGED <<mode, server, wire, signal, quit, screen, missed>>

Wake ==
    /\ loop = "sleep" /\ quit = "no"
    /\ loop' = "connect"
    /\ UNCHANGED <<mode, server, wire, signal, quit, screen, missed>>

\* The user leaves: Close cancels the context, ...
Close ==
    /\ quit = "no"
    /\ quit' = "closing"
    /\ UNCHANGED <<mode, server, wire, loop, signal, screen, missed>>

\* ... which ends the loop wherever it is, and the stream with it, ...
LoopEnds ==
    /\ quit = "closing" /\ loop # "done"
    /\ loop' = "done"
    /\ StreamBroken
    /\ UNCHANGED <<mode, daemon, admitted, status, untold, signal, quit, screen, missed>>

\* ... and closes the channel once the loop is gone. (It waits two seconds at
\* most; a cancelled loop needs far less.)
Closed ==
    /\ quit = "closing" /\ loop = "done"
    /\ quit' = "closed"
    /\ UNCHANGED <<mode, server, wire, loop, signal, screen, missed>>

-----------------------------------------------------------------------------
(* The screen. Update runs one message at a time.                            *)

TickArrives ==
    /\ quit = "no" /\ tick = "armed" /\ signal
    /\ signal' = FALSE /\ tick' = "queued"
    /\ UNCHANGED <<mode, server, wire, loop, quit, fetch, picture, late, missed>>

TickHandled ==
    /\ quit = "no" /\ tick = "queued" /\ fetch = "none"
    /\ tick' = "running" /\ fetch' = "asked"
    /\ UNCHANGED <<mode, server, wire, client, picture, late, missed>>

\* Most keys list the tubers again after what they did.
HandleKey ==
    /\ quit = "no" /\ fetch = "none"
    /\ fetch' = "asked"
    /\ UNCHANGED <<mode, server, wire, client, tick, picture, late, missed>>

Answer ==
    /\ fetch = "asked"
    /\ fetch' = IF daemon = "up" /\ admitted THEN status ELSE "failed"
    /\ late' = FALSE
    /\ UNCHANGED <<mode, server, wire, client, tick, picture, missed>>

\* A daemon may be up and take longer than defaultTimeout.
TimesOut ==
    /\ mode.attach /\ fetch = "asked"
    /\ fetch' = "failed" /\ late' = TRUE
    /\ UNCHANGED <<mode, server, wire, client, tick, picture, missed>>

\* Mutant: a tick is not armed again.
Show_NotRearmed ==
    /\ fetch \notin {"none", "asked"}
    /\ picture' = (IF fetch = "failed" THEN NoList ELSE fetch)
    /\ missed' = (missed /\ picture' # status)
    /\ fetch' = "none"
    /\ UNCHANGED <<mode, server, wire, client, tick, late>>

\* List turns an error into an empty list; a tick arms the next one.
Show ==
    /\ fetch \notin {"none", "asked"}
    /\ picture' = (IF fetch = "failed" THEN NoList ELSE fetch)
    /\ missed' = (missed /\ picture' # status)
    /\ fetch' = "none"
    /\ tick' = IF tick = "running" THEN "armed" ELSE tick
    /\ UNCHANGED <<mode, server, wire, client, late>>

CNext ==
    \/ Change \/ Notify
    \/ Greet \/ Subscribe \/ WriteFrame \/ Break \/ DaemonStops \/ DaemonStarts
    \/ SubscribeLocal \/ Connect \/ ConnectFails \/ Forward \/ StreamEnds \/ Wake
    \/ Close \/ LoopEnds \/ Closed
    \/ TickArrives \/ TickHandled \/ HandleKey \/ Answer \/ TimesOut \/ Show

CSpec == CInit /\ [][CNext]_vars

\* Goroutines go on, requests are answered or fail, a sleep ends. Nothing makes
\* a tuber change, a connection break, the daemon stop or start, or a user act.
FairSpec ==
    /\ CSpec
    /\ WF_vars(Notify) /\ WF_vars(Greet) /\ WF_vars(Subscribe) /\ WF_vars(WriteFrame)
    /\ WF_vars(SubscribeLocal) /\ WF_vars(Connect) /\ WF_vars(ConnectFails)
    /\ WF_vars(Forward) /\ WF_vars(StreamEnds) /\ WF_vars(Wake)
    /\ WF_vars(LoopEnds) /\ WF_vars(Closed)
    /\ WF_vars(TickArrives) /\ SF_vars(TickHandled) /\ WF_vars(Answer) /\ WF_vars(Show)

-----------------------------------------------------------------------------
(* What must hold.                                                           *)

\* The client's token is not the daemon's: every request of it is refused from
\* now on, and so is every stream.
Refused == mode.attach /\ ~admitted

\* A change is on its way to the screen: a signal, a frame or a list carries
\* it, or a stream that is admitted will be opened and greet.
OnItsWay ==
    \/ untold \/ queue > 0 \/ wire > 0 \/ signal
    \/ tick = "queued" \/ fetch \in {"asked", status}
    \/ mode.attach /\ (handler = "greeting" \/ (handler = "none" /\ admitted))

\* A picture that is not what the engine would list now is stale only while a
\* signal is on its way: neither coalescing in three bounded channels, nor a
\* stream that breaks, nor a daemon that restarts loses a last change. There are
\* three exceptions, where the code tells nobody. The change fell in the Gap
\* around a subscription (server.go:464); the daemon was restarted with a token
\* the client does not read again (client.go:44); the list that was to show it
\* timed out, and is shown as an empty one (remote.go:67).
StaleIsTold ==
    (quit = "no" /\ daemon = "up" /\ picture # status) => (OnItsWay \/ missed \/ Refused \/ late)

\* While the subscription lives, the screen ends up showing what the engine
\* ends up in, with two of those exceptions (a stream that lives is admitted).
PictureCatchesUp ==
    \A v \in Values :
        <>[](status = v /\ handler = "streaming" /\ quit = "no" /\ ~missed /\ ~late)
            => []<>(picture = v)
=============================================================================

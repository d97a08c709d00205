------------------------------- MODULE Tuber -------------------------------
(***************************************************************************)
(* The life of one tuber (internal/forward/tuber.go): the callers of       *)
(* Start, StartWith, Stop, Restart and Reconfigure, interleaved with the   *)
(* run loops (goroutines run and runRemote) that Start spawns.             *)
(*                                                                         *)
(* t.mu is held for one step at a time, so every critical section of the   *)
(* code is one action here, and what the code does between two critical    *)
(* sections (cancel, Close, <-done, a dial, a sleep) is an action of its   *)
(* own.  A goroutine that has returned frees its identity in Runs for a    *)
(* later Start, as the garbage collector does for the real object, so the  *)
(* model needs no bound on the number of Starts.                           *)
(***************************************************************************)
EXTENDS Naturals, FiniteSets

CONSTANTS
    Callers,     \* goroutines that call the tuber's methods
    Runs,        \* identities of run loops
    NoRun,       \* nil, for listener, client and done
    Ports,       \* local listen addresses a configuration may name
    Configs,     \* configurations: [type : {"local","remote"}, port : Ports]
    Adopting,    \* the process is a daemon that may adopt listeners
    Secrets,     \* what a dial may have to ask for: "passphrase", "password"
    MaxRejects   \* bound on the wrong secrets submitted during one dial

ASSUME NoRunAssumption == NoRun \notin Runs
ASSUME ConfigAssumption ==
    Configs # {} /\ Configs \subseteq [type : {"local", "remote"}, port : Ports]
ASSUME AdoptingAssumption == Adopting \in BOOLEAN
ASSUME SecretAssumption == Secrets \subseteq {"passphrase", "password"}
ASSUME BoundAssumption == MaxRejects \in Nat

States == {"Off", "Connecting", "Connected", "Reconnecting", "Error"}

VARIABLES
    \* fields of Tuber, guarded by t.mu
    state,        \* t.state
    err,          \* t.errMsg # ""
    running,      \* t.running
    listener,     \* t.listener: the run it was opened for, or NoRun
    client,       \* t.client: the run that dialled it, or NoRun
    owner,        \* t.done and t.cancel: the run they belong to, or NoRun
    cfg,          \* t.cfg
    pendingHost,  \* t.pendingHost # ""
    pending,      \* t.pendingPassphrase # "", t.pendingPassword # ""
    attempts,     \* t.passphraseAttempts, t.passwordAttempts
    stray,        \* history: the passphrase prompt outlived the dial's wait
    \* run loops
    pc,           \* where each run loop is; "Exited" once done is closed
    asking,       \* the secret the dial of a run is obtaining
    ctxDone,      \* runs whose own context was cancelled
    baseDone,     \* the engine's context was cancelled
    open,         \* runs whose local listener is open
    started,      \* the configuration a run was started with: its type picks
                  \* run or runRemote, its port is where the listener is bound
    clients,      \* runs whose SSH client is open
    \* callers
    cpc,          \* where each caller is
    held,         \* the locals of Stop: what it took out of the tuber
    \* history
    unseen,       \* Status changed since the last notifyChange
    rejects       \* wrong secrets submitted to the current dial

tuberVars  == <<state, err, running, listener, client, owner, cfg>>
promptVars == <<pendingHost, pending, attempts, stray>>
runVars    == <<pc, asking, ctxDone, open, started, clients>>
callerVars == <<cpc, held>>
vars == <<tuberVars, promptVars, runVars, callerVars, baseDone, unseen, rejects>>

RunPoints ==
    {"Exited", "Check", "Announce", "Clear", "Keys", "Get", "Ask", "Wait", "Try",
     "Net", "Hop", "Handshake", "Dialed", "FailClear", "FailErr", "Backoff", "Retry",
     "Serve", "Drop", "CloseClient", "Recheck", "Reconnect", "Pause"}

CallerPoints ==
    {"Idle", "Cancel", "CloseListener", "CloseClient", "AwaitExit", "Restart", "Start"}

Nothing == [run |-> NoRun, listener |-> NoRun, client |-> NoRun, again |-> FALSE]

SomeConfig == CHOOSE k \in Configs : TRUE

NoSecrets == [s \in Secrets |-> FALSE]
NoAttempts == [s \in Secrets |-> 0]

Live == {r \in Runs : pc[r] # "Exited"}

\* The context handed to a run: its own, derived from the engine's.
Cancelled(r) == r \in ctxDone \/ baseDone

\* An identity nobody refers to any more.
Fresh(r) ==
    /\ pc[r] = "Exited"
    /\ r \notin {listener, client, owner}
    /\ r \notin open
    /\ r \notin ctxDone
    /\ \A c \in Callers : r \notin {held[c].run, held[c].listener, held[c].client}

\* net.Listen fails on an address another run of this tuber still listens
\* on, and may fail on any other one: programs and tubers we do not model
\* come and go.
MayBind(p) == \A r \in open : started[r].port # p

NothingPending ==
    ~pendingHost /\ pending = NoSecrets /\ attempts = NoAttempts

Init ==
    /\ state = "Off" /\ err = FALSE /\ running = FALSE
    /\ listener = NoRun /\ client = NoRun /\ owner = NoRun
    /\ cfg \in Configs
    /\ pendingHost = FALSE /\ pending = NoSecrets /\ attempts = NoAttempts /\ stray = FALSE
    /\ pc = [r \in Runs |-> "Exited"]
    /\ asking = [r \in Runs |-> "none"]
    /\ ctxDone = {} /\ baseDone = FALSE
    /\ open = {}
    /\ started = [r \in Runs |-> SomeConfig]
    /\ clients = {}
    /\ cpc = [c \in Callers |-> "Idle"]
    /\ held = [c \in Callers |-> Nothing]
    /\ unseen = FALSE
    /\ rejects = NoAttempts

-----------------------------------------------------------------------------
(* Callers: Start, StartWith, Stop, Restart, Reconfigure.                   *)

Go(c, l) == cpc' = [cpc EXCEPT ![c] = l]

ClearPending ==
    pendingHost' = FALSE /\ pending' = NoSecrets /\ attempts' = NoAttempts /\ stray' = FALSE

\* The critical section of Start and StartWith that creates a run.
Spawn(r, ln) ==
    /\ Fresh(r)
    /\ running' = TRUE /\ state' = "Connecting" /\ err' = FALSE
    /\ owner' = r /\ listener' = ln
    /\ pc' = [pc EXCEPT ![r] = "Check"]
    /\ started' = [started EXCEPT ![r] = cfg]
    /\ open' = IF ln = NoRun THEN open ELSE open \cup {ln}
    /\ unseen' = FALSE
    /\ UNCHANGED <<client, cfg, promptVars, asking, ctxDone, clients, held, baseDone, rejects>>

\* A caller of Start, or of Restart once its Stop has returned.
Starting(c) == cpc[c] \in {"Idle", "Start"} /\ Go(c, "Idle")

StartRemote(c) ==
    /\ Starting(c) /\ ~running /\ cfg.type = "remote"
    /\ \E r \in Runs : Spawn(r, NoRun)

StartLocal(c) ==
    /\ Starting(c) /\ ~running /\ cfg.type = "local" /\ MayBind(cfg.port)
    /\ \E r \in Runs : Spawn(r, r)

\* net.Listen failed: the tuber shows Error and is not running.
StartBindFails(c) ==
    /\ Starting(c) /\ ~running /\ cfg.type = "local"
    /\ state' = "Error" /\ err' = TRUE /\ unseen' = FALSE
    /\ UNCHANGED <<running, listener, client, owner, cfg, promptVars, runVars, held,
                   baseDone, rejects>>

\* The second half of a Restart finds that another caller started the tuber.
StartRefused(c) ==
    /\ cpc[c] = "Start" /\ Go(c, "Idle") /\ running
    /\ UNCHANGED <<tuberVars, promptVars, runVars, held, baseDone, unseen, rejects>>

\* A hand-off gives the daemon the socket on which the standalone process
\* listens for this tuber: nothing is bound, so nothing fails.
StartWith(c) ==
    /\ Adopting /\ cpc[c] = "Idle" /\ Go(c, "Idle") /\ ~running /\ cfg.type = "local"
    /\ \E r \in Runs : Spawn(r, r)

\* The critical section of Stop on a running tuber.
StopRunning(c, restart) ==
    /\ running
    /\ running' = FALSE /\ state' = "Off" /\ err' = FALSE
    /\ ClearPending
    /\ held' = [held EXCEPT ![c] = [run |-> owner, listener |-> listener,
                                    client |-> client, again |-> restart]]
    /\ listener' = NoRun /\ client' = NoRun /\ owner' = NoRun
    /\ unseen' = FALSE
    /\ Go(c, "Cancel")
    /\ UNCHANGED <<cfg, runVars, baseDone, rejects>>

\* Stop on a tuber that is not running returns at once.  The || in
\* "changed := ..." reaches clearPendingLocked only from a clean Off.
StopIdle(c, restart) ==
    /\ ~running
    /\ state' = "Off" /\ err' = FALSE
    /\ IF state = "Off" /\ ~err
       THEN /\ ClearPending
            /\ unseen' = (unseen /\ NothingPending)
       ELSE unseen' = FALSE /\ UNCHANGED promptVars
    /\ Go(c, IF restart THEN "Start" ELSE "Idle")
    /\ UNCHANGED <<running, listener, client, owner, cfg, runVars, held, baseDone,
                   rejects>>

Stop(c) == cpc[c] = "Idle" /\ (StopRunning(c, FALSE) \/ StopIdle(c, FALSE))

Restart(c) ==
    cpc[c] \in {"Idle", "Restart"} /\ (StopRunning(c, TRUE) \/ StopIdle(c, TRUE))

\* What Stop does after it released t.mu.
StopCancel(c) ==
    /\ cpc[c] = "Cancel" /\ Go(c, "CloseListener")
    /\ ctxDone' = ctxDone \cup ({held[c].run} \ {NoRun})
    /\ UNCHANGED <<tuberVars, promptVars, pc, asking, open, started, clients, held,
                   baseDone, unseen, rejects>>

\* Mutant: Stop forgets the listener.
StopCloseListener_Forgets(c) ==
    /\ cpc[c] = "CloseListener" /\ Go(c, "CloseClient")
    /\ UNCHANGED <<tuberVars, promptVars, runVars, held, baseDone, unseen, rejects>>

StopCloseListener(c) ==
    /\ cpc[c] = "CloseListener" /\ Go(c, "CloseClient")
    /\ open' = open \ {held[c].listener}
    /\ UNCHANGED <<tuberVars, promptVars, pc, asking, ctxDone, started, clients, held,
                   baseDone, unseen, rejects>>

StopCloseClient(c) ==
    /\ cpc[c] = "CloseClient" /\ Go(c, "AwaitExit")
    /\ clients' = clients \ {held[c].client}
    /\ UNCHANGED <<tuberVars, promptVars, pc, asking, ctxDone, open, started, held,
                   baseDone, unseen, rejects>>

\* <-done.  The run is garbage from here on, and its identity is reset.
StopReturns(c) ==
    LET r == held[c].run IN
    /\ cpc[c] = "AwaitExit" /\ r \notin Live
    /\ Go(c, IF held[c].again THEN "Start" ELSE "Idle")
    /\ held' = [held EXCEPT ![c] = Nothing]
    /\ asking' = [asking EXCEPT ![r] = "none"]
    /\ started' = [started EXCEPT ![r] = SomeConfig]
    /\ ctxDone' = ctxDone \ {r}
    /\ UNCHANGED <<tuberVars, promptVars, pc, open, clients, baseDone, unseen, rejects>>

\* Mutant: a connection-relevant edit is treated like UpdateMetadata.
Reconfigure_MetadataOnly(c) ==
    /\ cpc[c] = "Idle" /\ cfg' \in Configs
    /\ UNCHANGED <<state, err, running, listener, client, owner, promptVars, runVars,
                   callerVars, baseDone, unseen, rejects>>

\* The critical section of Reconfigure: a running tuber is restarted next,
\* any other one is reset to a clean Off.
Reconfigure(c) ==
    /\ cpc[c] = "Idle"
    /\ cfg' \in Configs
    /\ IF running
       THEN Go(c, "Restart") /\ UNCHANGED <<state, err, promptVars, unseen>>
       ELSE /\ Go(c, "Idle")
            /\ state' = "Off" /\ err' = FALSE /\ ClearPending
            /\ unseen' = (unseen /\ state = "Off" /\ ~err /\ NothingPending)
    /\ UNCHANGED <<running, listener, client, owner, runVars, held, baseDone, rejects>>

CallerStep(c) ==
    \/ StopCancel(c) \/ StopCloseListener(c) \/ StopCloseClient(c) \/ StopReturns(c)
    \/ cpc[c] = "Restart" /\ Restart(c)
    \/ cpc[c] = "Start" /\ (\/ StartRemote(c) \/ StartLocal(c)
                            \/ StartBindFails(c) \/ StartRefused(c))

CallerCalls(c) ==
    \/ cpc[c] = "Idle" /\ (StartRemote(c) \/ StartLocal(c) \/ StartBindFails(c))
    \/ StartWith(c) \/ Stop(c)
    \/ cpc[c] = "Idle" /\ Restart(c)
    \/ Reconfigure(c)

-----------------------------------------------------------------------------
(* The run loop.  One iteration: announce, clear the prompts, dial, then    *)
(* either serve the client until it drops or report the failure and sleep.  *)

At(r, l) == pc[r] = l
Goto(r, l) == pc' = [pc EXCEPT ![r] = l]

\* What a step of a run loop that touches only its own pc leaves alone.
OnlyPc ==
    UNCHANGED <<tuberVars, promptVars, asking, ctxDone, open, started, clients,
                callerVars, baseDone, unseen, rejects>>

\* setState: nothing else changes, and subscribers are told.
SetState(s) ==
    /\ state' = s /\ unseen' = FALSE
    /\ UNCHANGED <<err, running, listener, client, owner, cfg, promptVars, asking, ctxDone,
                   open, started, clients, callerVars, baseDone, rejects>>

RunCheck(r) ==
    /\ At(r, "Check")
    /\ Goto(r, IF Cancelled(r) THEN "Exited" ELSE "Announce")
    /\ OnlyPc

RunAnnounce(r) ==
    At(r, "Announce") /\ Goto(r, "Clear") /\ SetState("Connecting")

\* clearPendingHost is silent; the two others notify if they cleared anything.
RunClear(r) ==
    /\ At(r, "Clear") /\ Goto(r, "Keys")
    /\ ClearPending
    /\ unseen' = ((unseen \/ pendingHost) /\ pending = NoSecrets /\ attempts = NoAttempts)
    /\ rejects' = NoAttempts
    /\ UNCHANGED <<tuberVars, asking, ctxDone, open, started, clients, callerVars,
                   baseDone>>

\* authMethods: an identity protected by a passphrase has to be unlocked first.
RunKeys(r) ==
    /\ At(r, "Keys")
    /\ \/ Goto(r, "Net") /\ asking' = [asking EXCEPT ![r] = "none"]
       \/ /\ "passphrase" \in Secrets
          /\ Goto(r, "Get") /\ asking' = [asking EXCEPT ![r] = "passphrase"]
    /\ UNCHANGED <<tuberVars, promptVars, ctxDone, open, started, clients, callerVars,
                   baseDone, unseen, rejects>>

\* A passphrase is tried on the key, a password on the server.
WithSecret(r) == IF asking[r] = "password" THEN "Net" ELSE "Try"

\* Without a secret the password dial fails, and the passphrase dial goes on
\* without that key.
WithoutSecret(r) == IF asking[r] = "password" THEN "FailClear" ELSE "Net"

\* The head of the loops of dialWithPasswordPrompt and
\* loadIdentityWithPassphrase: the store may hold a secret already.
SecretGet(r) ==
    /\ At(r, "Get")
    /\ \/ Cancelled(r) /\ Goto(r, WithoutSecret(r))
       \/ ~Cancelled(r) /\ (Goto(r, WithSecret(r)) \/ Goto(r, "Ask"))
    /\ OnlyPc

\* passphraseSink and passwordSink with a name: asking again while the prompt
\* is still up means that the last submission was rejected.
SecretAsk(r) ==
    LET s == asking[r] IN
    /\ At(r, "Ask") /\ Goto(r, "Wait")
    /\ attempts' = IF pending[s] THEN [attempts EXCEPT ![s] = @ + 1] ELSE attempts
    /\ pending' = [pending EXCEPT ![s] = TRUE]
    /\ unseen' = FALSE
    /\ UNCHANGED <<tuberVars, pendingHost, stray, asking, ctxDone, open, started, clients,
                   callerVars, baseDone, rejects>>

\* Wait: the user submits the secret, or the wait is over without one.
SecretArrives(r) == At(r, "Wait") /\ Goto(r, WithSecret(r)) /\ OnlyPc

\* Mutant: Wait does not watch the context.
SecretGivenUp_Never(r) == At(r, "Wait") /\ FALSE /\ UNCHANGED vars

SecretGivenUp(r) ==
    /\ At(r, "Wait") /\ Cancelled(r) /\ Goto(r, WithoutSecret(r)) /\ OnlyPc

\* A submission wakes the wait, but another tuber's dial, which shares the key,
\* deletes it before this one reads it: Wait returns none under a live context.
\* The password dial fails. loadIdentityWithPassphrase returns neither a key nor
\* an error, and the dial goes on with its prompt up.
SecretTakenBack(r) ==
    /\ At(r, "Wait") /\ ~Cancelled(r) /\ Goto(r, WithoutSecret(r))
    /\ stray' = (stray \/ (asking[r] = "passphrase" /\ pending["passphrase"]))
    /\ UNCHANGED <<tuberVars, pendingHost, pending, attempts, asking, ctxDone, open, started,
                   clients, callerVars, baseDone, unseen, rejects>>

\* The passphrase unlocked the key: the sink is called with an empty name.
PassphraseAccepted(r) ==
    /\ At(r, "Try") /\ Goto(r, "Net")
    /\ pending' = [pending EXCEPT !["passphrase"] = FALSE] /\ stray' = FALSE
    /\ unseen' = FALSE
    /\ UNCHANGED <<tuberVars, pendingHost, attempts, asking, ctxDone, open, started, clients,
                   callerVars, baseDone, rejects>>

\* A wrong secret is deleted from the store, and its loop repeats.
SecretRejected(r) ==
    LET s == asking[r] IN
    /\ At(r, "Try") \/ (At(r, "Handshake") /\ s = "password")
    /\ Goto(r, "Get")
    /\ rejects[s] < MaxRejects
    /\ rejects' = [rejects EXCEPT ![s] = @ + 1]
    /\ UNCHANGED <<tuberVars, promptVars, asking, ctxDone, open, started, clients,
                   callerVars, baseDone, unseen>>

\* DialContext does not connect once the context is done; what follows does not
\* look at the context again. With a jump chain the hops come first.
DialConnects(r) ==
    /\ At(r, "Net") /\ ~Cancelled(r) /\ (Goto(r, "Handshake") \/ Goto(r, "Hop")) /\ OnlyPc

\* The last hop connected to the target.
DialHops(r) == At(r, "Hop") /\ Goto(r, "Handshake") /\ OnlyPc

\* With a password the dial also dismisses the prompt: passwordSink("").
DialSucceeds(r) ==
    /\ At(r, "Handshake") /\ Goto(r, "Dialed")
    /\ clients' = clients \cup {r}
    /\ IF asking[r] = "password"
       THEN pending' = [pending EXCEPT !["password"] = FALSE] /\ unseen' = FALSE
       ELSE UNCHANGED <<pending, unseen>>
    /\ UNCHANGED <<tuberVars, pendingHost, attempts, stray, asking, ctxDone, open, started,
                   callerVars, baseDone, rejects>>

\* The keys were rejected by a trusted host, and password_auth is on.
DialNeedsPassword(r) ==
    /\ pc[r] \in {"Hop", "Handshake"} /\ asking[r] # "password" /\ "password" \in Secrets
    /\ Goto(r, "Get")
    /\ asking' = [asking EXCEPT ![r] = "password"]
    /\ UNCHANGED <<tuberVars, promptVars, ctxDone, open, started, clients, callerVars,
                   baseDone, unseen, rejects>>

DialFails(r) == pc[r] \in {"Net", "Hop", "Handshake"} /\ Goto(r, "FailClear") /\ OnlyPc

\* The host-key callback records the unknown key, without a notification,
\* and the handshake fails.
DialUnknownHost(r) ==
    /\ pc[r] \in {"Hop", "Handshake"} /\ Goto(r, "FailClear")
    /\ pendingHost' = TRUE /\ unseen' = TRUE
    /\ UNCHANGED <<tuberVars, pending, attempts, stray, asking, ctxDone, open, started, clients,
                   callerVars, baseDone, rejects>>

\* The dial no longer waits for a secret; pendingHost is kept for the prompt.
RunFailClear(r) ==
    /\ At(r, "FailClear") /\ Goto(r, "FailErr")
    /\ pending' = NoSecrets /\ attempts' = NoAttempts /\ stray' = FALSE
    /\ unseen' = (unseen /\ pending = NoSecrets /\ attempts = NoAttempts)
    /\ UNCHANGED <<tuberVars, pendingHost, asking, ctxDone, open, started, clients,
                   callerVars, baseDone, rejects>>

\* Mutant: setStateErr does not notify.
RunFailErr_Silent(r) ==
    /\ At(r, "FailErr") /\ Goto(r, "Backoff")
    /\ state' = "Error" /\ err' = TRUE /\ unseen' = TRUE
    /\ UNCHANGED <<running, listener, client, owner, cfg, promptVars, asking, ctxDone, open,
                   started, clients, callerVars, baseDone, rejects>>

\* setStateErr
RunFailErr(r) ==
    /\ At(r, "FailErr") /\ Goto(r, "Backoff")
    /\ state' = "Error" /\ err' = TRUE /\ unseen' = FALSE
    /\ UNCHANGED <<running, listener, client, owner, cfg, promptVars, asking, ctxDone, open,
                   started, clients, callerVars, baseDone, rejects>>

\* client.Listen failed on the server of a type=remote tuber.
RemoteListenFails(r) ==
    /\ At(r, "Dialed") /\ started[r].type = "remote" /\ Goto(r, "Backoff")
    /\ state' = "Error" /\ err' = TRUE /\ unseen' = FALSE
    /\ clients' = clients \ {r}
    /\ UNCHANGED <<running, listener, client, owner, cfg, promptVars, asking, ctxDone, open,
                   started, callerVars, baseDone, rejects>>

\* t.sleep: the timer fires, or the context is done (a tie may go either way).
RunSleeps(r, l, next) ==
    /\ At(r, l)
    /\ Goto(r, next) \/ (Cancelled(r) /\ Goto(r, "Exited"))
    /\ OnlyPc

\* Mutant: a failed dial is final.
RunBackoff_Final(r) == At(r, "Backoff") /\ Goto(r, "Exited") /\ OnlyPc

RunBackoff(r) == RunSleeps(r, "Backoff", "Retry")

RunRetry(r) == At(r, "Retry") /\ Goto(r, "Check") /\ SetState("Reconnecting")

\* The dial (and client.Listen on the server) succeeded.
RunPublish(r) ==
    /\ At(r, "Dialed") /\ Goto(r, "Serve")
    /\ client' = r /\ err' = FALSE /\ state' = "Connected" /\ unseen' = FALSE
    /\ UNCHANGED <<running, listener, owner, cfg, promptVars, asking, ctxDone, open, started, clients, callerVars, baseDone, rejects>>

\* The server, the network or a failed keepalive ends the connection.
ConnDrops(r) ==
    /\ r \in clients /\ clients' = clients \ {r}
    /\ UNCHANGED <<tuberVars, promptVars, pc, asking, ctxDone, open, started, callerVars,
                   baseDone, unseen, rejects>>

\* serveConnected returns: client.Wait returned, or the context is done.
RunServeEnds(r) ==
    /\ At(r, "Serve") /\ (r \notin clients \/ Cancelled(r))
    /\ Goto(r, "Drop") /\ OnlyPc

\* Mutant: t.client keeps the dropped client.
RunDrop_Keeps(r) == At(r, "Drop") /\ Goto(r, "CloseClient") /\ OnlyPc

RunDrop(r) ==
    /\ At(r, "Drop") /\ Goto(r, "CloseClient")
    /\ client' = NoRun
    /\ UNCHANGED <<state, err, running, listener, owner, cfg, promptVars, asking, ctxDone,
                   open, started, clients, callerVars, baseDone, unseen, rejects>>

RunCloseClient(r) ==
    /\ At(r, "CloseClient") /\ Goto(r, "Recheck")
    /\ clients' = clients \ {r}
    /\ UNCHANGED <<tuberVars, promptVars, asking, ctxDone, open, started, callerVars,
                   baseDone, unseen, rejects>>

RunRecheck(r) ==
    /\ At(r, "Recheck")
    /\ Goto(r, IF Cancelled(r) THEN "Exited" ELSE "Reconnect")
    /\ OnlyPc

RunReconnect(r) == At(r, "Reconnect") /\ Goto(r, "Pause") /\ SetState("Reconnecting")

RunPause(r) == RunSleeps(r, "Pause", "Check")

\* What a run loop does by itself, and what only its surroundings can do.
RunStep(r) ==
    \/ RunCheck(r) \/ RunAnnounce(r) \/ RunClear(r) \/ RunKeys(r)
    \/ SecretGet(r) \/ SecretAsk(r) \/ SecretGivenUp(r) \/ PassphraseAccepted(r)
    \/ SecretRejected(r) \/ DialConnects(r) \/ DialHops(r)
    \/ DialSucceeds(r) \/ DialNeedsPassword(r) \/ DialFails(r) \/ DialUnknownHost(r)
    \/ RunFailClear(r) \/ RunFailErr(r) \/ RemoteListenFails(r) \/ RunBackoff(r)
    \/ RunRetry(r) \/ RunPublish(r) \/ RunServeEnds(r) \/ RunDrop(r)
    \/ RunCloseClient(r) \/ RunRecheck(r) \/ RunReconnect(r) \/ RunPause(r)

RunInput(r) == SecretArrives(r) \/ SecretTakenBack(r) \/ ConnDrops(r)

\* The context given to NewEngine is cancelled (Server.Shutdown, Local.Close).
BaseCancel ==
    /\ ~baseDone /\ baseDone' = TRUE
    /\ UNCHANGED <<tuberVars, promptVars, runVars, callerVars, unseen, rejects>>

Next ==
    \/ \E c \in Callers : CallerStep(c) \/ CallerCalls(c)
    \/ \E r \in Runs : RunStep(r) \/ RunInput(r)
    \/ BaseCancel

Spec == Init /\ [][Next]_vars

\* A run loop waits for an answer of a far host, with neither a time-out nor a
\* look at its context: for the connection a jump host makes, for the listener a
\* server opens, and for that listener's end, if nobody closed the client.
Unanswered(r) ==
    \/ At(r, "Hop")
    \/ /\ started[r].type = "remote" /\ r \in clients
       /\ At(r, "Dialed") \/ (At(r, "Serve") /\ Cancelled(r))

\* The Go scheduler runs every goroutine that can run; a connection attempt, a
\* handshake and a sleep are bounded by timeouts.  Callers, users, servers, jump
\* hosts and other programs owe nothing.
FairSpec ==
    /\ Spec
    /\ \A c \in Callers : WF_vars(CallerStep(c))
    /\ \A r \in Runs : WF_vars(~Unanswered(r) /\ RunStep(r))

-----------------------------------------------------------------------------
(* Properties.                                                              *)

\* Every variable keeps its type.
TypeOK ==
    /\ state \in States /\ err \in BOOLEAN /\ running \in BOOLEAN
    /\ listener \in Runs \cup {NoRun}
    /\ client \in Runs \cup {NoRun}
    /\ owner \in Runs \cup {NoRun}
    /\ cfg \in Configs
    /\ pendingHost \in BOOLEAN
    /\ pending \in [Secrets -> BOOLEAN]
    /\ attempts \in [Secrets -> Nat] /\ stray \in BOOLEAN
    /\ pc \in [Runs -> RunPoints]
    /\ asking \in [Runs -> Secrets \cup {"none"}]
    /\ ctxDone \subseteq Runs
    /\ baseDone \in BOOLEAN
    /\ open \subseteq Runs
    /\ started \in [Runs -> Configs]
    /\ clients \subseteq Runs
    /\ cpc \in [Callers -> CallerPoints]
    /\ held \in [Callers -> [run : Runs \cup {NoRun}, listener : Runs \cup {NoRun},
                             client : Runs \cup {NoRun}, again : BOOLEAN]]
    /\ unseen \in BOOLEAN
    /\ rejects \in [Secrets -> 0..MaxRejects]

\* A caller is inside the teardown of Stop, before step l returned.
Tearing(c) == cpc[c] \in {"Cancel", "CloseListener", "CloseClient", "AwaitExit"}

\* No listener leaks: an open local listener is the tuber's own, or a Stop
\* in progress is about to close it.  A leaked one holds the port for ever.
ListenerOwned ==
    \A r \in open : \/ running /\ listener = r
                    \/ \E c \in Callers : /\ cpc[c] \in {"Cancel", "CloseListener"}
                                          /\ held[c].listener = r

\* No run loop leaks: one that has not returned is the tuber's own, so the
\* next Stop cancels it, or a Stop in progress waits for it.
RunOwned ==
    \A r \in Live : \/ running /\ owner = r
                    \/ \E c \in Callers : Tearing(c) /\ held[c].run = r

\* No SSH client leaks: whatever way a run loop returns, its client is closed.
ClientOwned == clients \subseteq Live

\* Nothing leaks, however many callers race.
NothingLeaks == ListenerOwned /\ RunOwned /\ ClientOwned

\* Status never shows Error without a message, nor a stale message on a tuber
\* that is off or connected, whoever wrote the state last.
ErrorShown ==
    /\ state = "Error" => err
    /\ state \in {"Off", "Connected"} => ~err

Quiet == \A c \in Callers : cpc[c] = "Idle"

\* Two run loops never compete for one tuber's fields: the old one has
\* returned before Restart or Reconfigure starts the next.
OneRunLoop == \A q, r \in Live : q = r

\* A dial that has a prompt up and will take it down: it obtains the secret, has
\* a password tried, or is about to fail.
Asks(r, s) ==
    \/ pc[r] = "FailClear"
    \/ /\ asking[r] = s
       /\ \/ pc[r] \in {"Get", "Ask", "Wait", "Try"}
          \/ pc[r] \in {"Net", "Hop", "Handshake"} /\ (s = "password" \/ Cancelled(r))

\* A prompt for a secret is up only while a dial is there to receive it: no
\* modal opens over a tuber that is off, retrying or connected. The exception is
\* a passphrase prompt whose wait came back empty-handed (SecretTakenBack): it
\* stays up with nobody behind it until the next dial, failure or stop.
PromptHasAsker ==
    \A s \in Secrets : pending[s] =>
        (\E r \in Live : Asks(r, s)) \/ (s = "passphrase" /\ stray)

\* "Wrong password" is displayed only for secrets the user really submitted
\* and the dial really rejected.
HintIsHonest == \A s \in Secrets : attempts[s] <= rejects[s]

\* An edit takes effect: between calls a running tuber runs the loop of its
\* configured type, and listens on its configured address.
EditTakesEffect ==
    (Quiet /\ running) =>
        /\ started[owner] = cfg
        /\ IF cfg.type = "local"
           THEN listener = owner /\ owner \in open
           ELSE listener = NoRun

\* Wherever a run loop may rest for long, subscribers were told of the last
\* change of Status (a dial still on the network excepted).
SubscribersCaughtUp ==
    (Quiet /\ \A r \in Live : pc[r] \in {"Wait", "Serve", "Backoff", "Pause"}) => ~unseen

\* What Status shows is true, its error, its prompts and its hints, and the
\* subscribers know it.
StatusIsHonest == ErrorShown /\ PromptHasAsker /\ HintIsHonest /\ SubscribersCaughtUp

\* Once Stop returns nothing of the run is left: no loop, no listener, no
\* connection, no client in the tuber.
StopIsComplete ==
    [][\A c \in Callers : (cpc[c] = "AwaitExit" /\ cpc'[c] # "AwaitExit") =>
            Live \cup open \cup clients = {} /\ client' = NoRun]_vars

\* A tuber that is up never gives up: after a failure or a disconnect it
\* dials again, unless it is being stopped.
DialsAgain ==
    \A r \in Runs : (pc[r] \in {"Backoff", "Pause", "Drop"}) ~> (pc[r] = "Keys" \/ Cancelled(r))

-----------------------------------------------------------------------------
(* With one caller at a time, a tuber is a Tunnel: it is stopping while a     *)
(* Stop tears it down.                                                        *)

Phase ==
    IF running THEN "on" ELSE IF \E c \in Callers : Tearing(c) THEN "stopping" ELSE "off"

T == INSTANCE Tunnel WITH
        Addresses <- Ports,
        phase <- Phase,
        listening <- {started[r].port : r \in open},
        link <- clients # {},
        owed <- \E r \in Live : Unanswered(r)

\* Between calls nothing is left of a tuber that is off, whatever its dial was
\* doing when it was stopped. Stop gets there even when the loop blocks in a
\* prompt, a handshake or a sleep: the only thing it may wait for without end is
\* the answer of a jump host (ssh.go:185) or of the server of a remote tuber
\* (tuber.go:700, 771).
ImplementsTunnel == T!FairSpec

-----------------------------------------------------------------------------
(* What comments and tests of the repository say, and the code does not do. *)

\* A stopped tuber is Off: the state Stop wrote is the state it leaves.
StopLeavesOff ==
    [][\A c \in Callers : (cpc[c] = "AwaitExit" /\ cpc'[c] = "Idle") => state' = "Off"]_vars
=============================================================================

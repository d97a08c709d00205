----------------------------- MODULE DialChain -----------------------------
(***************************************************************************)
(* One tuber's way to its server (internal/forward ssh.go, password.go,    *)
(* probe.go, knownhosts.go): a chain of SSH connections, each inside the   *)
(* one before, the last of them the tuber's client. Every hop's host key   *)
(* is checked, every handshake runs in a goroutine of its own and races a  *)
(* timer, and the tuber may be stopped, or any connection lost, meanwhile. *)
(* Jump hosts are shown keys only; passwords are for the last hop.         *)
(***************************************************************************)
EXTENDS Naturals, FiniteSets

CONSTANTS
    MaxHops,     \* bound: hops of the longest chain
    MaxDials     \* bound: chains that are dialed, one after the other

ASSUME BoundsAssumption == MaxHops \in Nat \ {0} /\ MaxDials \in Nat \ {0}

VARIABLES
    setup,       \* the chain's length, accept_new_hosts, a usable key, the caller
    server,      \* what each hop's server is like; it does not change
    known,       \* the hops with a line in known_hosts
    trusted,     \* known_hosts as hostKeyCallback loaded it
    stage,       \* what the caller is doing
    dial,        \* the number of the dialConn call
    at,          \* the hop it is working on
    step,        \* "connect", "shake", "abort" after a time-out, "over"
    worker,      \* the goroutine of newClientConn, or the result it has sent
    link,        \* each call's hops: "none", "raw", "up", "down"
    error,       \* what the last call returned
    password,    \* the provider's: "none", "right", "wrong"
    pending,     \* the hop whose key the user is asked about, or 0
    shown,       \* history: hops that were shown a password
    stopped      \* the tuber's context was cancelled

caller == <<stage, password, pending, stopped>>
chain == <<dial, at, step, worker, link, error>>
vars == <<setup, server, known, trusted, caller, chain, shown>>

Hops == 1 .. MaxHops
Dials == 1 .. MaxDials
Kinds == {"keysOnly", "passwords", "doctor"}
Setups == [hops : Hops, acceptNew : BOOLEAN, key : BOOLEAN, kind : Kinds]

\* A server whose key differs from its line in known_hosts, and what it takes.
Servers == [changed : BOOLEAN, takes : {"none", "key", "password", "other"}]

Working == {"kex", "auth"}
Results == {"ok", "unknown", "mismatch", "denied", "lost"}
Errors == {"unknown", "mismatch", "denied", "lost", "timeout"}

TypeOK ==
    /\ setup \in Setups /\ server \in [Hops -> Servers]
    /\ known \in SUBSET Hops /\ trusted \in SUBSET Hops
    /\ stage \in {"idle", "probe", "verify", "asking", "password", "serving"}
    /\ dial \in 0 .. MaxDials /\ at \in Hops
    /\ step \in {"connect", "shake", "abort", "over"}
    /\ worker \in Working \cup Results \cup {"none"}
    /\ link \in [Dials -> [Hops -> {"none", "raw", "up", "down"}]]
    /\ error \in Errors \cup {"none"}
    /\ password \in {"none", "right", "wrong"}
    /\ pending \in Hops \cup {0}
    /\ shown \in SUBSET Hops /\ stopped \in BOOLEAN

\* Without a key only a tuber with password_auth dials at all.
Init ==
    /\ setup \in Setups /\ (setup.key \/ setup.kind = "passwords")
    /\ server \in [Hops -> Servers]
    /\ known \in SUBSET Hops /\ \A h \in Hops : server[h].changed => h \in known
    /\ trusted = {}
    /\ stage = "idle" /\ pending = 0 /\ stopped = FALSE
    /\ password \in (IF setup.kind = "passwords" THEN {"none", "right", "wrong"} ELSE {"none"})
    /\ dial = 0 /\ at = 1 /\ step = "over" /\ worker = "none" /\ error = "none"
    /\ link = [d \in Dials |-> [h \in Hops |-> "none"]]
    /\ shown = {}

Target == setup.hops
Open(d) == {h \in Hops : link[d][h] \in {"raw", "up"}}

\* A connection that ends takes the ones inside it along.
Fall(links, h) == [g \in Hops |-> IF g >= h /\ links[g] \in {"raw", "up"} THEN "down" ELSE links[g]]

-----------------------------------------------------------------------------
(* dialConn.                                                                 *)

\* hostKeyCallback reads known_hosts once for all the hops of a call.
Begin(s) ==
    /\ dial < MaxDials
    /\ stage' = s /\ dial' = dial + 1 /\ at' = 1 /\ step' = "connect"
    /\ trusted' = known /\ error' = "none"

Returns(e) == step' = "over" /\ error' = e /\ worker' = "none"

\* Hop 0 over TCP, later ones through a channel of the hop before.
Connects ==
    /\ step = "connect" /\ (at > 1 => link[dial][at - 1] = "up")
    /\ link' = [link EXCEPT ![dial][at] = "raw"]
    /\ step' = "shake" /\ worker' = "kex"
    /\ UNCHANGED <<setup, server, known, trusted, caller, dial, at, error, shown>>

\* Refused, prohibited, cancelled, lost: the hops dialed so far are closed.
ConnectFails ==
    /\ step = "connect"
    /\ link' = [link EXCEPT ![dial] = Fall(@, 1)]
    /\ Returns("lost")
    /\ UNCHANGED <<setup, server, known, trusted, caller, dial, at, shown>>

\* wrapHostKey. A new key is appended when the configuration says so, unless
\* the file cannot be written, and else put before the user.
HostKey ==
    /\ worker = "kex" /\ link[dial][at] = "raw"
    /\ \/ /\ at \in trusted
          /\ worker' = IF server[at].changed THEN "mismatch" ELSE "auth"
          /\ UNCHANGED <<known, pending>>
       \/ /\ at \notin trusted /\ setup.acceptNew
          /\ worker' = "auth" /\ known' = known \cup {at}
          /\ UNCHANGED pending
       \/ /\ at \notin trusted
          /\ worker' = "unknown"
          /\ pending' = IF setup.kind = "doctor" THEN pending ELSE at
          /\ UNCHANGED known
    /\ UNCHANGED <<setup, server, trusted, stage, password, stopped,
                   dial, at, step, link, error, shown>>

\* The methods a call offers a hop.
\* Mutant: the password is offered to every hop.
OffersPassword_All(h) == stage = "password"
OffersPassword(h) == stage = "password" /\ h = Target
OffersKey(h) == setup.key /\ (stage = "password" => h # Target)

Takes(h) ==
    \/ server[h].takes = "none"
    \/ server[h].takes = "key" /\ OffersKey(h)
    \/ server[h].takes = "password" /\ OffersPassword(h) /\ password = "right"

Authenticate ==
    /\ worker = "auth" /\ link[dial][at] = "raw"
    /\ worker' = IF Takes(at) THEN "ok" ELSE "denied"
    /\ shown' = IF OffersPassword(at) /\ server[at].takes = "password" THEN shown \cup {at} ELSE shown
    /\ UNCHANGED <<setup, server, known, trusted, caller, dial, at, step, link, error>>

\* The connection under a handshake is gone.
Aborted ==
    /\ worker \in Working /\ link[dial][at] = "down"
    /\ worker' = "lost"
    /\ UNCHANGED <<setup, server, known, trusted, caller, dial, at, step, link, error, shown>>

\* newClientConn's select takes the result, ...
NextHop ==
    /\ step = "shake" /\ worker = "ok" /\ at < Target
    /\ link' = [link EXCEPT ![dial][at] = IF @ = "raw" THEN "up" ELSE @]
    /\ at' = at + 1 /\ step' = "connect" /\ worker' = "none"
    /\ UNCHANGED <<setup, server, known, trusted, caller, dial, error, shown>>

\* ... of the last hop, whose client goes to the caller with a leash on the
\* hops before it, ...
Chained ==
    /\ step = "shake" /\ worker = "ok" /\ at = Target
    /\ link' = [link EXCEPT ![dial][at] = IF @ = "raw" THEN "up" ELSE @]
    /\ step' = "over" /\ worker' = "none" /\ stage' = "serving"
    /\ UNCHANGED <<setup, server, known, trusted, password, pending, stopped, dial, at, error, shown>>

\* ... or of a hop that failed.
HandshakeFails ==
    /\ step = "shake" /\ worker \in Results \ {"ok"}
    /\ link' = [link EXCEPT ![dial] = Fall(@, 1)]
    /\ Returns(worker)
    /\ UNCHANGED <<setup, server, known, trusted, caller, dial, at, shown>>

\* Mutant: the call does not wait for the goroutine.
TimesOut_Returns ==
    /\ step = "shake"
    /\ link' = [link EXCEPT ![dial] = Fall(@, 1)]
    /\ step' = "over" /\ error' = "timeout"
    /\ UNCHANGED <<setup, server, known, trusted, caller, dial, at, worker, shown>>

\* Or the timer was first: the connection is closed to get the goroutine out, ...
TimesOut ==
    /\ step = "shake"
    /\ link' = [link EXCEPT ![dial] = Fall(@, at)]
    /\ step' = "abort"
    /\ UNCHANGED <<setup, server, known, trusted, caller, dial, at, worker, error, shown>>

\* ... whose result, a success that raced the timer too, is dropped.
TimedOut ==
    /\ step = "abort" /\ worker \in Results
    /\ link' = [link EXCEPT ![dial] = Fall(@, 1)]
    /\ Returns("timeout")
    /\ UNCHANGED <<setup, server, known, trusted, caller, dial, at, shown>>

\* Mutant: the hops before the last are closed when the chain stands.
Leash_AtOnce(d) ==
    /\ Open(d) \ {Target} # {} /\ (d < dial \/ stage = "serving")
    /\ link' = [link EXCEPT ![d] = [h \in Hops |-> IF h < Target THEN "down" ELSE @[h]]]
    /\ UNCHANGED <<setup, server, known, trusted, caller, dial, at, step, worker, error, shown>>

\* final.Wait() returned: the goroutine closes the hops before it. The caller
\* may be dialing the next chain by then.
Leash(d) ==
    /\ link[d][Target] = "down" /\ Open(d) # {}
    /\ d < dial \/ step = "over"
    /\ link' = [link EXCEPT ![d] = Fall(@, 1)]
    /\ UNCHANGED <<setup, server, known, trusted, caller, dial, at, step, worker, error, shown>>

-----------------------------------------------------------------------------
(* The callers: a tuber's run loop, by way of dialSSH, or `portato doctor`.  *)

Over == step = "over" /\ worker = "none"
Rest == /\ stage' = "idle"
        /\ UNCHANGED <<setup, server, known, trusted, chain, shown, password, pending, stopped>>

\* dialSSH and ProbeForwarding call once, with keys. With password_auth the
\* keys are probed, or, with none and no jump, the host key.
Dial ==
    /\ stage = "idle" /\ ~stopped
    /\ setup.key \/ setup.hops = 1
    /\ Begin(IF setup.key THEN "probe" ELSE "verify")
    /\ pending' = 0
    /\ UNCHANGED <<setup, server, known, password, stopped, worker, link, shown>>

\* An error other than a failed authentication goes back to the run loop.
GivesUp ==
    /\ stage \in {"probe", "verify", "password"} /\ Over
    /\ error # "denied" \/ setup.kind # "passwords"
    /\ Rest

\* A password that is cached is tried; else the user is asked, whoever denied
\* us, ...
NeedsPassword ==
    /\ stage \in {"probe", "verify"} /\ Over
    /\ error = "denied" /\ setup.kind = "passwords" /\ ~stopped
    /\ IF password = "none"
       THEN stage' = "asking" /\ UNCHANGED <<dial, at, step, trusted, error>>
       ELSE Begin("password")
    /\ UNCHANGED <<setup, server, known, password, pending, stopped, worker, link, shown>>

\* ... and Wait ends with an answer, right or wrong, or with the context.
Answers ==
    /\ stage = "asking" /\ ~stopped
    /\ \E p \in {"right", "wrong"} : password' = p
    /\ Begin("password")
    /\ UNCHANGED <<setup, server, known, pending, stopped, worker, link, shown>>

\* passwordAuthAvailable: the target had a password to compare. The provider
\* forgets it and the user is asked again.
Rejected == stage = "password" /\ Over /\ error = "denied" /\ at = Target /\ server[Target].takes = "password"

AsksAgain ==
    /\ Rejected
    /\ stage' = "asking" /\ password' = "none"
    /\ UNCHANGED <<setup, server, known, trusted, chain, shown, pending, stopped>>

NoPasswordOffered == stage = "password" /\ Over /\ error = "denied" /\ ~Rejected

\* Mutant: Wait does not watch the context.
BailsOut_WaitsOn ==
    /\ NoPasswordOffered \/ (stage \in {"probe", "verify"} /\ Over /\ error = "denied" /\ stopped)
    /\ Rest

\* A server that offers no password, or a context that ended.
BailsOut ==
    /\ \/ NoPasswordOffered
       \/ stage \in {"probe", "verify"} /\ Over /\ error = "denied" /\ stopped
       \/ stage = "asking" /\ stopped
    /\ Rest

\* The tuber is done with its client: stopped, a failed keep-alive, a lost
\* connection; doctor after one channel.
Hangs ==
    /\ stage = "serving"
    /\ stage' = "idle"
    /\ link' = [link EXCEPT ![dial] = Fall(@, Target)]
    /\ UNCHANGED <<setup, server, known, trusted, password, pending, stopped,
                   dial, at, step, worker, error, shown>>

-----------------------------------------------------------------------------
(* The rest of the world.                                                    *)

\* A connection is lost.
Break ==
    /\ \E d \in Dials, h \in Hops :
         link[d][h] \in {"raw", "up"} /\ link' = [link EXCEPT ![d] = Fall(@, h)]
    /\ UNCHANGED <<setup, server, known, trusted, caller, dial, at, step, worker, error, shown>>

\* The user accepts the key: the line that was recorded is appended.
AcceptHost ==
    /\ pending # 0
    /\ known' = known \cup {pending} /\ pending' = 0
    /\ UNCHANGED <<setup, server, trusted, stage, password, stopped, chain, shown>>

Stop ==
    /\ ~stopped /\ setup.kind # "doctor"
    /\ stopped' = TRUE
    /\ UNCHANGED <<setup, server, known, trusted, stage, password, pending, chain, shown>>

Next ==
    \/ Connects \/ ConnectFails \/ HostKey \/ Authenticate \/ Aborted
    \/ NextHop \/ Chained \/ HandshakeFails \/ TimesOut \/ TimedOut
    \/ \E d \in Dials : Leash(d)
    \/ Dial \/ GivesUp \/ NeedsPassword \/ Answers \/ AsksAgain \/ BailsOut \/ Hangs
    \/ Break \/ AcceptHost \/ Stop

Spec == Init /\ [][Next]_vars

\* prev.Dial waits for the jump host, with neither a time-out nor a look at the
\* context; only the end of the connection to that host gets it out.
AtJumpHost == step = "connect" /\ at > 1 /\ link[dial][at - 1] = "up"

\* The program goes on, a timer fires, a goroutine whose connection is closed
\* ends, and the TCP dial of the first hop is bounded. Servers need not finish a
\* handshake, jump hosts need not answer, and users need not do anything.
FairSpec ==
    /\ Spec
    /\ WF_vars(~AtJumpHost /\ (Connects \/ ConnectFails)) /\ WF_vars(Aborted)
    /\ WF_vars(NextHop \/ Chained \/ HandshakeFails \/ TimesOut) /\ WF_vars(TimedOut)
    /\ WF_vars(GivesUp \/ NeedsPassword \/ AsksAgain \/ BailsOut)
    /\ WF_vars(stopped /\ Hangs)
    /\ \A d \in Dials : WF_vars(Leash(d))

-----------------------------------------------------------------------------
(* What must hold.                                                           *)

\* A call that returned an error left nothing behind: no connection of any hop
\* it had reached, no goroutine that may still write known_hosts or ask the
\* user about a key.
NothingLeftBehind ==
    (step = "over" /\ error # "none") => Open(dial) = {} /\ worker = "none"

\* No hop is closed under a client that is in use, and every hop the client
\* goes through has shown the key known_hosts has for it.
ChainStands ==
    \A d \in Dials, h \in Hops : link[d][h] = "up" =>
        /\ \A g \in 1 .. h : link[d][g] = "up"
        /\ h \in known /\ ~server[h].changed

\* The target's password is shown to the target alone, and only after its key
\* was checked.
PasswordForTarget == shown \subseteq {Target} \cap known

\* A stopped tuber gets its dial back, and everything it had opened is closed,
\* whatever servers do in a handshake: there is no wait but the one for a jump
\* host's connection (ssh.go:185) that can keep it for ever.
StopClosesAll ==
    \/ stopped ~> (stage = "idle" /\ \A d \in Dials : Open(d) = {})
    \/ <>[]AtJumpHost
=============================================================================

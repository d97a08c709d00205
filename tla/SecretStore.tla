---------------------------- MODULE SecretStore ----------------------------
(***************************************************************************)
(* One key of the secret store (internal/secret/secret.go): the dials that *)
(* need the secret filed under it (the loops of loadIdentityWithPassphrase *)
(* and dialWithPasswordPrompt), the handler that provides or forgets it,   *)
(* and the OS keyring, which the CLI writes too.                           *)
(*                                                                         *)
(* Store.mu is held for one step at a time; the keyring is read and        *)
(* written outside it.  The handlers hold Server.mu (the standalone TUI is *)
(* one goroutine), so there is one of them at a time.                      *)
(***************************************************************************)
EXTENDS Naturals, FiniteSets

CONSTANTS
    Dials,         \* dials that need this secret: tubers may share a key
    Secrets,       \* values a user may submit
    Good,          \* the values that unlock the key, or the account
    NoSecret,      \* no value
    Forgets,       \* the user may forget the identity
    KeyringFails,  \* a keyring operation may fail
    MaxOps         \* bound on what the user does

ASSUME SecretsAssumption == Good \subseteq Secrets /\ NoSecret \notin Secrets
ASSUME SwitchAssumption == Forgets \in BOOLEAN /\ KeyringFails \in BOOLEAN
ASSUME OpsAssumption == MaxOps \in Nat

VARIABLES
    cache,      \* s.cache[path]
    keyring,    \* what the OS keyring holds
    waiters,    \* dials whose channel is in s.waiters[path]
    woken,      \* dials whose channel is closed
    \* dials
    pc,         \* where each dial is
    phase,      \* which Get it runs: the loop's, Wait's first, Wait's second
    pass,       \* the secret it obtained
    cancelled,  \* dials whose context is done
    result,     \* what it returned
    \* the handler of a submission or of forget-identity
    hpc, hval,
    waking,     \* the dials whose channels it took out to close
    \* bound
    ops         \* what the user did so far

storeVars   == <<cache, keyring, waiters, woken>>
dialVars    == <<pc, phase, pass, cancelled, result>>
handlerVars == <<hpc, hval, waking>>
vars == <<storeVars, dialVars, handlerVars, ops>>

Values == Secrets \cup {NoSecret}

DialPoints == {"Idle", "Check", "Get", "ReadKeyring", "Cache", "Register", "Blocked",
               "Unregister", "Try", "Forget", "ForgetKeyring"}
Phases == {"Loop", "Wait", "Woken"}
Results == {"none", "accepted", "error", "nothing"}
HandlerPoints == {"Idle", "Wake", "Persist", "ClearKeyring"}

Init ==
    /\ cache = NoSecret /\ keyring \in Values
    /\ waiters = {} /\ woken = {}
    /\ pc = [d \in Dials |-> "Idle"]
    /\ phase = [d \in Dials |-> "Loop"]
    /\ pass = [d \in Dials |-> NoSecret]
    /\ cancelled = {}
    /\ result = [d \in Dials |-> "none"]
    /\ hpc = "Idle" /\ hval = NoSecret /\ waking = {}
    /\ ops = 0

-----------------------------------------------------------------------------
(* Dials.                                                                   *)

At(d, l) == pc[d] = l
Goto(d, l) == pc' = [pc EXCEPT ![d] = l]
Enter(d, p) == phase' = [phase EXCEPT ![d] = p]
Obtain(d, v) == pass' = [pass EXCEPT ![d] = v]
Return(d, v) == Goto(d, "Idle") /\ result' = [result EXCEPT ![d] = v]

DialStarts(d) ==
    /\ At(d, "Idle") /\ Goto(d, "Check")
    /\ Enter(d, "Loop") /\ Obtain(d, NoSecret)
    /\ result' = [result EXCEPT ![d] = "none"]
    /\ cancelled' = cancelled \ {d}
    /\ UNCHANGED <<storeVars, handlerVars, ops>>

\* The tuber is disabled or restarted, or the process shuts down.
DialCancelled(d) ==
    /\ ~At(d, "Idle") /\ d \notin cancelled
    /\ cancelled' = cancelled \cup {d}
    /\ UNCHANGED <<storeVars, pc, phase, pass, result, handlerVars, ops>>

\* The head of both loops.
Check(d) ==
    /\ At(d, "Check")
    /\ IF d \in cancelled
       THEN Return(d, "error") /\ UNCHANGED phase
       ELSE Goto(d, "Get") /\ Enter(d, "Loop") /\ UNCHANGED result
    /\ UNCHANGED <<storeVars, pass, cancelled, handlerVars, ops>>

\* Get found a value: in the second Get of Wait, the waiter is removed next.
Found(d) == Goto(d, IF phase[d] = "Woken" THEN "Unregister" ELSE "Try") /\ UNCHANGED phase

\* Get found none: the loop surfaces the need and calls Wait, which gets
\* again, then registers; the Get of a woken Wait gives up.
Missed(d) ==
    /\ pass' = [pass EXCEPT ![d] = NoSecret]
    /\ \/ phase[d] = "Loop" /\ Goto(d, "Get") /\ Enter(d, "Wait")
       \/ phase[d] = "Wait" /\ Goto(d, "Register") /\ UNCHANGED phase
       \/ phase[d] = "Woken" /\ Goto(d, "Unregister") /\ UNCHANGED phase

GetCache(d) ==
    /\ At(d, "Get")
    /\ IF cache # NoSecret
       THEN Obtain(d, cache) /\ Found(d)
       ELSE Goto(d, "ReadKeyring") /\ UNCHANGED <<phase, pass>>
    /\ UNCHANGED <<storeVars, cancelled, result, handlerVars, ops>>

ReadKeyring(d) ==
    /\ At(d, "ReadKeyring")
    /\ \/ keyring # NoSecret /\ Obtain(d, keyring) /\ Goto(d, "Cache") /\ UNCHANGED phase
       \/ (keyring = NoSecret \/ KeyringFails) /\ Missed(d)
    /\ UNCHANGED <<storeVars, cancelled, result, handlerVars, ops>>

\* What the keyring held then is cached now.
CacheKeyring(d) ==
    /\ At(d, "Cache") /\ cache' = pass[d] /\ Found(d)
    /\ UNCHANGED <<keyring, waiters, woken, pass, cancelled, result, handlerVars, ops>>

Register(d) ==
    /\ At(d, "Register") /\ Goto(d, "Blocked") /\ waiters' = waiters \cup {d}
    /\ UNCHANGED <<cache, keyring, woken, phase, pass, cancelled, result, handlerVars,
                   ops>>

Awakened(d) ==
    /\ At(d, "Blocked") /\ d \in woken
    /\ Goto(d, "Get") /\ Enter(d, "Woken")
    /\ UNCHANGED <<storeVars, pass, cancelled, result, handlerVars, ops>>

WaitCancelled(d) ==
    /\ At(d, "Blocked") /\ d \in cancelled /\ Goto(d, "Unregister")
    /\ UNCHANGED <<storeVars, phase, pass, cancelled, result, handlerVars, ops>>

\* Mutant: the waiter is left in the map.
Unregister_Leaks(d) ==
    /\ At(d, "Unregister")
    /\ IF pass[d] # NoSecret
       THEN Goto(d, "Try") /\ UNCHANGED result
       ELSE Return(d, IF d \in cancelled THEN "error" ELSE "nothing")
    /\ Enter(d, "Loop") /\ woken' = woken \ {d}
    /\ UNCHANGED <<cache, keyring, waiters, pass, cancelled, handlerVars, ops>>

\* removeWaiter, deferred by Wait.  Without a value the loop returns ctx.Err(),
\* which is nil, an error that says nothing, while the context is live.
Unregister(d) ==
    /\ At(d, "Unregister")
    /\ waiters' = waiters \ {d} /\ woken' = woken \ {d} /\ waking' = waking \ {d}
    /\ IF pass[d] # NoSecret
       THEN Goto(d, "Try") /\ UNCHANGED result
       ELSE Return(d, IF d \in cancelled THEN "error" ELSE "nothing")
    /\ Enter(d, "Loop")
    /\ UNCHANGED <<cache, keyring, pass, cancelled, hpc, hval, ops>>

\* The secret unlocks the key, or is tried on the server; a dial may also fail
\* for a reason that has nothing to do with it.
Try(d) ==
    /\ At(d, "Try")
    /\ \/ pass[d] \in Good /\ Return(d, "accepted")
       \/ pass[d] \notin Good /\ Goto(d, "Forget") /\ UNCHANGED result
       \/ Return(d, "error")
    /\ UNCHANGED <<storeVars, phase, pass, cancelled, handlerVars, ops>>

\* Mutant: a rejected secret stays in the cache.
Forget_KeyringOnly(d) ==
    /\ At(d, "Forget") /\ Goto(d, "ForgetKeyring")
    /\ UNCHANGED <<storeVars, phase, pass, cancelled, result, handlerVars, ops>>

\* Store.Delete of a rejected secret, whatever the cache holds by now.
Forget(d) ==
    /\ At(d, "Forget") /\ Goto(d, "ForgetKeyring")
    /\ cache' = NoSecret
    /\ UNCHANGED <<keyring, waiters, woken, phase, pass, cancelled, result, handlerVars, ops>>

\* Its error is ignored.
ForgetKeyring(d) ==
    /\ At(d, "ForgetKeyring") /\ Goto(d, "Check")
    /\ keyring' = NoSecret \/ (KeyringFails /\ UNCHANGED keyring)
    /\ UNCHANGED <<cache, waiters, woken, phase, pass, cancelled, result, handlerVars,
                   ops>>

DialStep(d) ==
    \/ Check(d) \/ GetCache(d) \/ ReadKeyring(d) \/ CacheKeyring(d) \/ Register(d)
    \/ Awakened(d) \/ WaitCancelled(d) \/ Unregister(d) \/ Try(d)
    \/ Forget(d) \/ ForgetKeyring(d)

-----------------------------------------------------------------------------
(* The handler, and the CLI.                                                *)

UserActs == ops < MaxOps /\ ops' = ops + 1

\* setCacheAndWake, up to the unlock.
SetSecret(v) ==
    /\ UserActs /\ hpc = "Idle" /\ hpc' = "Wake" /\ hval' = v
    /\ cache' = v
    /\ waking' = waiters /\ waiters' = {}
    /\ UNCHANGED <<keyring, woken, dialVars>>

\* Mutant: only one of the waiters is woken.
Wake_First ==
    /\ hpc = "Wake" /\ hpc' = "Persist"
    /\ woken' = woken \cup {d \in waking : d = CHOOSE e \in waking : TRUE}
    /\ waking' = {}
    /\ UNCHANGED <<cache, keyring, waiters, dialVars, hval, ops>>

Wake ==
    /\ hpc = "Wake" /\ hpc' = "Persist"
    /\ woken' = woken \cup waking /\ waking' = {}
    /\ UNCHANGED <<cache, keyring, waiters, dialVars, hval, ops>>

\* The keyring is written if the configuration says so at this moment.
Persist ==
    /\ hpc = "Persist" /\ hpc' = "Idle" /\ hval' = NoSecret
    /\ keyring' \in {keyring, hval}
    /\ UNCHANGED <<cache, waiters, woken, dialVars, waking, ops>>

ForgetIdentity ==
    /\ Forgets /\ UserActs /\ hpc = "Idle" /\ hpc' = "ClearKeyring"
    /\ cache' = NoSecret
    /\ UNCHANGED <<keyring, waiters, woken, dialVars, hval, waking>>

ClearKeyring ==
    /\ hpc = "ClearKeyring" /\ hpc' = "Idle"
    /\ keyring' = NoSecret \/ (KeyringFails /\ UNCHANGED keyring)
    /\ UNCHANGED <<cache, waiters, woken, dialVars, hval, waking, ops>>

HandlerStep == Wake \/ Persist \/ ClearKeyring

\* add-identity and forget-identity write the keyring before they call the
\* daemon, if there is one.
CliWritesKeyring(v) ==
    /\ UserActs /\ keyring' = v
    /\ v = NoSecret => Forgets
    /\ UNCHANGED <<cache, waiters, woken, dialVars, handlerVars>>

Next ==
    \/ \E d \in Dials : DialStep(d) \/ DialStarts(d) \/ DialCancelled(d)
    \/ HandlerStep
    \/ ForgetIdentity
    \/ \E v \in Secrets : SetSecret(v)
    \/ \E v \in Values : CliWritesKeyring(v)

Spec == Init /\ [][Next]_vars

\* Goroutines run, and keyring calls return; users and tubers owe nothing.
FairSpec ==
    /\ Spec
    /\ \A d \in Dials : WF_vars(DialStep(d))
    /\ WF_vars(HandlerStep)

-----------------------------------------------------------------------------
(* Properties.                                                              *)

\* Every variable keeps its type.
TypeOK ==
    /\ cache \in Values /\ keyring \in Values
    /\ waiters \subseteq Dials /\ woken \subseteq Dials /\ waking \subseteq Dials
    /\ pc \in [Dials -> DialPoints]
    /\ phase \in [Dials -> Phases]
    /\ pass \in [Dials -> Values]
    /\ cancelled \subseteq Dials
    /\ result \in [Dials -> Results]
    /\ hpc \in HandlerPoints /\ hval \in Values
    /\ ops \in 0..MaxOps

Waiting(d) == pc[d] \in {"Blocked", "Unregister"} \/ phase[d] = "Woken"

\* No wait is lost or leaked: exactly the dials inside Wait have a channel, and
\* it is where the next Set finds it, in the hands of a Set, or closed.
WaitersExact == waiters \cup waking \cup woken = {d \in Dials : Waiting(d)}

\* A submission reaches every dial that was waiting for one.
SubmissionWakes == \A d \in Dials : (d \in waking) ~> (pc[d] # "Blocked")

\* "Delete invalidates a wrong passphrase so the next Wait blocks for a fresh
\* submission" (passphrase.go:18-19): after a rejection the user is asked, unless
\* the keyring has kept the secret or was given another.
PromptsAgain ==
    \A d \in Dials : (pc[d] = "Forget" /\ keyring = NoSecret)
                        ~> (pc[d] \in {"Blocked", "Idle"} \/ keyring # NoSecret)
=============================================================================

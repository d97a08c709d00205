----------------------------- MODULE TuberProofs -----------------------------
(* Proofs about Tuber for every set of callers, runs and configurations.    *)
EXTENDS Tuber, TLAPS

\* Counting one more keeps a table of counters a table of counters (attempts).
LEMMA CountOne ==
    ASSUME NEW S, NEW f \in [S -> Nat], NEW x
    PROVE  [f EXCEPT ![x] = @ + 1] \in [S -> Nat]
<1> DEFINE g == [f EXCEPT ![x] = @ + 1]
<1>1. ASSUME NEW y \in S
      PROVE  g[y] \in Nat
  <2>1. f[y] \in Nat
    OBVIOUS
  <2>2. g[y] = f[y] \/ g[y] = f[y] + 1
    OBVIOUS
  <2> QED
    BY <2>1, <2>2
<1> QED
  BY <1>1

\* The same for counters with a bound that is not reached yet (rejects).
LEMMA CountOneBelow ==
    ASSUME NEW S, NEW N \in Nat, NEW f \in [S -> 0..N], NEW x, f[x] < N
    PROVE  [f EXCEPT ![x] = @ + 1] \in [S -> 0..N]
<1> DEFINE g == [f EXCEPT ![x] = @ + 1]
<1>1. ASSUME NEW y \in S
      PROVE  g[y] \in 0..N
  <2>1. f[y] \in 0..N
    OBVIOUS
  <2>2. g[y] = f[y] \/ (y = x /\ g[y] = f[y] + 1)
    OBVIOUS
  <2> QED
    BY <2>1, <2>2
<1> QED
  BY <1>1

\* A step of the type invariant's proof for the actions of a caller.
LEMMA CallerKeepsTypes ==
    ASSUME TypeOK, NEW c \in Callers, CallerStep(c) \/ CallerCalls(c)
    PROVE  TypeOK'
<1> USE DEF Go, ClearPending, tuberVars, promptVars, runVars, callerVars,
            CallerPoints, States, NoSecrets, NoAttempts
<1> DEFINE Held == [run : Runs \cup {NoRun}, listener : Runs \cup {NoRun},
                    client : Runs \cup {NoRun}, again : BOOLEAN]
<1>1. /\ SomeConfig \in Configs
      /\ Nothing \in Held
  BY ConfigAssumption DEF SomeConfig, Nothing
<1>2. ASSUME NEW r \in Runs, NEW ln \in {r, NoRun}, Spawn(r, ln), Starting(c)
      PROVE  TypeOK'
  BY <1>2 DEF TypeOK, Spawn, Starting, RunPoints
<1>3. CASE StartRemote(c)
  BY <1>2, <1>3 DEF StartRemote
<1>4. CASE StartLocal(c)
  BY <1>2, <1>4 DEF StartLocal
<1>5. CASE StartBindFails(c)
  BY <1>5 DEF TypeOK, StartBindFails, Starting
<1>6. CASE StartRefused(c)
  BY <1>6 DEF TypeOK, StartRefused
<1>7. CASE StartWith(c)
  BY <1>2, <1>7 DEF StartWith, Starting
<1>8. ASSUME NEW b \in BOOLEAN, StopRunning(c, b)
      PROVE  TypeOK'
  BY <1>8 DEF TypeOK, StopRunning
<1>9. ASSUME NEW b \in BOOLEAN, StopIdle(c, b)
      PROVE  TypeOK'
  <2>1. unseen' \in BOOLEAN
    BY <1>9, Zenon DEF TypeOK, StopIdle
  <2>2. /\ state' = "Off" /\ err' = FALSE
        /\ ClearPending \/ UNCHANGED promptVars
        /\ Go(c, IF b THEN "Start" ELSE "Idle")
        /\ UNCHANGED <<running, listener, client, owner, cfg, runVars, held, baseDone,
                       rejects>>
    BY <1>9, Zenon DEF StopIdle
  <2>3. CASE ClearPending
    BY <2>1, <2>2, <2>3 DEF TypeOK
  <2>4. CASE UNCHANGED promptVars
    BY <2>1, <2>2, <2>4 DEF TypeOK
  <2> QED
    BY <2>2, <2>3, <2>4
<1>10. CASE StopCancel(c)
  BY <1>10 DEF TypeOK, StopCancel
<1>11. CASE StopCloseListener(c)
  BY <1>11 DEF TypeOK, StopCloseListener
<1>12. CASE StopCloseClient(c)
  BY <1>12 DEF TypeOK, StopCloseClient
<1>13. CASE StopReturns(c)
  <2>1. /\ Go(c, IF held[c].again THEN "Start" ELSE "Idle")
        /\ held' = [held EXCEPT ![c] = Nothing]
        /\ \E r : /\ asking' = [asking EXCEPT ![r] = "none"]
                  /\ started' = [started EXCEPT ![r] = SomeConfig]
                  /\ ctxDone' = ctxDone \ {r}
        /\ UNCHANGED <<tuberVars, promptVars, pc, open, clients, baseDone, unseen, rejects>>
    BY <1>13, Zenon DEF StopReturns
  <2>2. held' \in [Callers -> Held]
    BY <1>1, <2>1 DEF TypeOK
  <2>3. cpc' \in [Callers -> CallerPoints]
    BY <2>1 DEF TypeOK
  <2>4. asking' \in [Runs -> Secrets \cup {"none"}]
    BY <2>1 DEF TypeOK
  <2>5. started' \in [Runs -> Configs]
    <3>1. PICK r : started' = [started EXCEPT ![r] = SomeConfig]
      BY <2>1
    <3>2. started \in [Runs -> Configs] /\ SomeConfig \in Configs
      BY <1>1 DEF TypeOK
    <3> QED
      BY <3>1, <3>2
  <2>6. ctxDone' \subseteq Runs
    BY <2>1 DEF TypeOK
  <2> QED
    BY <2>1, <2>2, <2>3, <2>4, <2>5, <2>6 DEF TypeOK
<1>14. CASE Reconfigure(c)
  <2>1. unseen' \in BOOLEAN
    BY <1>14, Zenon DEF TypeOK, Reconfigure
  <2>2. /\ cfg' \in Configs
        /\ UNCHANGED <<running, listener, client, owner, runVars, held, baseDone, rejects>>
    BY <1>14, Zenon DEF Reconfigure
  <2>3. CASE running
    BY <1>14, <2>1, <2>2, <2>3 DEF TypeOK, Reconfigure
  <2>4. CASE ~running
    <3>1. Go(c, "Idle") /\ state' = "Off" /\ err' = FALSE /\ ClearPending
      BY <1>14, <2>4, Zenon DEF Reconfigure
    <3> QED
      BY <2>1, <2>2, <3>1 DEF TypeOK
  <2> QED
    BY <2>3, <2>4
<1> QED
  BY <1>3, <1>4, <1>5, <1>6, <1>7, <1>8, <1>9, <1>10, <1>11, <1>12, <1>13, <1>14
  DEF CallerStep, CallerCalls, Stop, Restart

\* The same for the actions of a run loop and of its surroundings.
LEMMA RunKeepsTypes ==
    ASSUME TypeOK, NEW r \in Runs, RunStep(r) \/ RunInput(r)
    PROVE  TypeOK'
<1> USE SecretAssumption, BoundAssumption
    DEF At, Goto, OnlyPc, SetState, RunPoints, States, NoSecrets, NoAttempts,
        tuberVars, promptVars, runVars, callerVars
<1>1. CASE \/ RunCheck(r) \/ SecretGet(r) \/ SecretGivenUp(r) \/ SecretArrives(r)
           \/ DialConnects(r) \/ DialHops(r) \/ DialFails(r) \/ RunBackoff(r)
           \/ RunServeEnds(r) \/ RunRecheck(r) \/ RunPause(r)
  BY <1>1
  DEF TypeOK, RunCheck, SecretGet, SecretGivenUp, SecretArrives, DialConnects, DialHops,
      DialFails, RunBackoff, RunServeEnds, RunRecheck, RunPause, RunSleeps, WithSecret, WithoutSecret
<1>2. CASE RunAnnounce(r) \/ RunRetry(r) \/ RunReconnect(r)
  <2>1. CASE RunAnnounce(r)
    BY <2>1 DEF TypeOK, RunAnnounce
  <2>2. CASE RunRetry(r)
    BY <2>2 DEF TypeOK, RunRetry
  <2>3. CASE RunReconnect(r)
    BY <2>3 DEF TypeOK, RunReconnect
  <2> QED
    BY <1>2, <2>1, <2>2, <2>3
<1>3. CASE RunClear(r)
  <2>1. unseen' \in BOOLEAN
    BY <1>3, Zenon DEF TypeOK, RunClear
  <2>2. /\ Goto(r, "Keys") /\ ClearPending /\ rejects' = NoAttempts
        /\ UNCHANGED <<tuberVars, asking, ctxDone, open, started, clients, callerVars,
                       baseDone>>
    BY <1>3, Zenon DEF RunClear
  <2>3. rejects' \in [Secrets -> 0..MaxRejects]
    BY <2>2
  <2>4. /\ pendingHost' \in BOOLEAN
        /\ pending' \in [Secrets -> BOOLEAN]
        /\ attempts' \in [Secrets -> Nat] /\ stray' \in BOOLEAN
    BY <2>2 DEF ClearPending
  <2>5. pc' \in [Runs -> RunPoints]
    BY <2>2 DEF TypeOK
  <2>6. TypeOK /\ UNCHANGED <<tuberVars, asking, ctxDone, open, started, clients,
                              callerVars, baseDone>>
    BY <2>2
  <2> QED
    BY <2>1, <2>3, <2>4, <2>5, <2>6, Zenon DEF TypeOK
<1>4. CASE RunKeys(r) \/ DialNeedsPassword(r)
  BY <1>4 DEF TypeOK, RunKeys, DialNeedsPassword
<1>5. CASE SecretAsk(r)
  <2>1. attempts \in [Secrets -> Nat]
    BY DEF TypeOK
  <2>2. [attempts EXCEPT ![asking[r]] = @ + 1] \in [Secrets -> Nat]
    BY <2>1, CountOne, Zenon
  <2>3. attempts' \in [Secrets -> Nat]
    BY <1>5, <2>1, <2>2, Zenon DEF SecretAsk
  <2>4. /\ Goto(r, "Wait") /\ unseen' = FALSE
        /\ pending' = [pending EXCEPT ![asking[r]] = TRUE]
        /\ UNCHANGED <<tuberVars, pendingHost, stray, asking, ctxDone, open, started, clients,
                       callerVars, baseDone, rejects>>
    BY <1>5, Zenon DEF SecretAsk
  <2>5. pending' \in [Secrets -> BOOLEAN]
    BY <2>4 DEF TypeOK
  <2>6. pc' \in [Runs -> RunPoints]
    BY <2>4 DEF TypeOK
  <2>7. unseen' \in BOOLEAN
    BY <2>4
  <2>8. TypeOK /\ UNCHANGED <<tuberVars, pendingHost, stray, asking, ctxDone, open, started,
                              clients, callerVars, baseDone, rejects>>
    BY <2>4
  <2> QED
    BY <2>3, <2>5, <2>6, <2>7, <2>8 DEF TypeOK
<1>6. CASE PassphraseAccepted(r)
  <2>1. /\ Goto(r, "Net") /\ unseen' = FALSE /\ stray' = FALSE
        /\ pending' = [pending EXCEPT !["passphrase"] = FALSE]
        /\ UNCHANGED <<tuberVars, pendingHost, attempts, asking, ctxDone, open, started,
                       clients, callerVars, baseDone, rejects>>
    BY <1>6, Zenon DEF PassphraseAccepted
  <2>2. pending' \in [Secrets -> BOOLEAN]
    BY <2>1 DEF TypeOK
  <2>3. pc' \in [Runs -> RunPoints]
    BY <2>1 DEF TypeOK
  <2>4. unseen' \in BOOLEAN /\ stray' \in BOOLEAN
    BY <2>1
  <2>5. TypeOK /\ UNCHANGED <<tuberVars, pendingHost, attempts, asking, ctxDone, open,
                              started, clients, callerVars, baseDone, rejects>>
    BY <2>1
  <2> QED
    BY <2>2, <2>3, <2>4, <2>5 DEF TypeOK
<1>7. CASE SecretRejected(r)
  <2>1. rejects \in [Secrets -> 0..MaxRejects] /\ rejects[asking[r]] < MaxRejects
    BY <1>7 DEF TypeOK, SecretRejected
  <2>2. [rejects EXCEPT ![asking[r]] = @ + 1] \in [Secrets -> 0..MaxRejects]
    BY <2>1, CountOneBelow, BoundAssumption, Zenon
  <2>3. rejects' \in [Secrets -> 0..MaxRejects]
    BY <1>7, <2>2, Zenon DEF SecretRejected
  <2>4. Goto(r, "Get")
        /\ UNCHANGED <<tuberVars, promptVars, asking, ctxDone, open, started, clients,
                       callerVars, baseDone, unseen>>
    BY <1>7, Zenon DEF SecretRejected
  <2> QED
    BY <2>3, <2>4 DEF TypeOK
<1>8. CASE DialSucceeds(r)
  <2>1. Goto(r, "Dialed") /\ clients' = clients \cup {r}
        /\ UNCHANGED <<tuberVars, pendingHost, attempts, stray, asking, ctxDone, open, started,
                       callerVars, baseDone, rejects>>
    BY <1>8, Zenon DEF DialSucceeds
  <2>2. unseen' \in BOOLEAN
    BY <1>8 DEF TypeOK, DialSucceeds
  <2>3. pending' \in [Secrets -> BOOLEAN]
    BY <1>8 DEF TypeOK, DialSucceeds
  <2> QED
    BY <2>1, <2>2, <2>3 DEF TypeOK
<1>9. CASE DialUnknownHost(r)
  BY <1>9 DEF TypeOK, DialUnknownHost
<1>10. CASE RunFailClear(r)
  <2>1. unseen' \in BOOLEAN
    BY <1>10, Zenon DEF TypeOK, RunFailClear
  <2>2. /\ Goto(r, "FailErr") /\ pending' = NoSecrets /\ attempts' = NoAttempts
        /\ stray' = FALSE
        /\ UNCHANGED <<tuberVars, pendingHost, asking, ctxDone, open, started, clients,
                       callerVars, baseDone, rejects>>
    BY <1>10, Zenon DEF RunFailClear
  <2> QED
    BY <2>1, <2>2 DEF TypeOK
<1>11. CASE RunFailErr(r) \/ RemoteListenFails(r)
  BY <1>11 DEF TypeOK, RunFailErr, RemoteListenFails
<1>12. CASE RunPublish(r) \/ RunDrop(r) \/ RunCloseClient(r) \/ ConnDrops(r)
  <2>1. CASE RunPublish(r)
    BY <2>1 DEF TypeOK, RunPublish
  <2>2. CASE RunDrop(r)
    BY <2>2 DEF TypeOK, RunDrop
  <2>3. CASE RunCloseClient(r)
    BY <2>3 DEF TypeOK, RunCloseClient
  <2>4. CASE ConnDrops(r)
    BY <2>4 DEF TypeOK, ConnDrops
  <2> QED
    BY <1>12, <2>1, <2>2, <2>3, <2>4
<1>13. CASE SecretTakenBack(r)
  <2>1. stray' \in BOOLEAN
    BY <1>13, Zenon DEF TypeOK, SecretTakenBack
  <2>2. /\ Goto(r, WithoutSecret(r))
        /\ UNCHANGED <<tuberVars, pendingHost, pending, attempts, asking, ctxDone, open, started,
                       clients, callerVars, baseDone, unseen, rejects>>
    BY <1>13, Zenon DEF SecretTakenBack
  <2> QED
    BY <2>1, <2>2 DEF TypeOK, WithoutSecret
<1> QED
  BY <1>1, <1>2, <1>3, <1>4, <1>5, <1>6, <1>7, <1>8, <1>9, <1>10, <1>11, <1>12, <1>13
  DEF RunStep, RunInput

\* Every variable keeps its type, whatever the callers and run loops do.
THEOREM TypeCorrect == Spec => []TypeOK
<1>1. Init => TypeOK
  <2> SUFFICES ASSUME Init
               PROVE  TypeOK
    OBVIOUS
  <2> USE NoRunAssumption, ConfigAssumption, BoundAssumption DEF Init
  <2>1. pending \in [Secrets -> BOOLEAN] /\ attempts \in [Secrets -> Nat]
    BY DEF NoSecrets, NoAttempts
  <2>2. rejects \in [Secrets -> 0..MaxRejects]
    BY DEF NoAttempts
  <2>3. /\ pc \in [Runs -> RunPoints]
        /\ asking \in [Runs -> Secrets \cup {"none"}]
        /\ started \in [Runs -> Configs]
    BY DEF RunPoints, SomeConfig
  <2>4. /\ cpc \in [Callers -> CallerPoints]
        /\ held \in [Callers -> [run : Runs \cup {NoRun}, listener : Runs \cup {NoRun},
                                 client : Runs \cup {NoRun}, again : BOOLEAN]]
    BY DEF CallerPoints, Nothing
  <2> QED
    BY <2>1, <2>2, <2>3, <2>4 DEF TypeOK, States
<1>2. TypeOK /\ [Next]_vars => TypeOK'
  <2> SUFFICES ASSUME TypeOK, [Next]_vars
               PROVE  TypeOK'
    OBVIOUS
  <2>1. CASE Next
    BY <2>1, CallerKeepsTypes, RunKeepsTypes
    DEF Next, BaseCancel, TypeOK, tuberVars, promptVars, runVars, callerVars
  <2>2. CASE UNCHANGED vars
    BY <2>2 DEF TypeOK, vars, tuberVars, promptVars, runVars, callerVars
  <2> QED
    BY <2>1, <2>2
<1> QED
  BY <1>1, <1>2, PTL DEF Spec

-----------------------------------------------------------------------------
(* Ownership.  These proofs need no assumption on the number of callers.    *)

\* A run loop never touches what only callers change, never moves another
\* run loop, and never comes back to life.
LEMMA RunLeavesCallers ==
    ASSUME TypeOK, NEW r \in Runs, RunStep(r) \/ RunInput(r)
    PROVE  /\ UNCHANGED <<running, listener, owner, cfg, open, ctxDone, started, cpc, held,
                          baseDone>>
           /\ \E l \in RunPoints : pc' = [pc EXCEPT ![r] = l]
           /\ pc[r] = "Exited" => pc'[r] = "Exited"
<1> USE DEF At, Goto, OnlyPc, SetState, RunSleeps, WithSecret, WithoutSecret, RunPoints,
            tuberVars, promptVars, runVars, callerVars
<1>1. CASE ConnDrops(r)
  <2>1. pc' = [pc EXCEPT ![r] = pc[r]]
    BY <1>1 DEF ConnDrops, TypeOK
  <2> QED
    BY <1>1, <2>1 DEF ConnDrops, TypeOK
<1>2. CASE \/ RunCheck(r) \/ RunAnnounce(r) \/ RunKeys(r) \/ SecretGet(r)
           \/ SecretAsk(r) \/ SecretGivenUp(r) \/ PassphraseAccepted(r)
           \/ SecretRejected(r) \/ SecretArrives(r) \/ SecretTakenBack(r) \/ DialHops(r)
  <2>1. pc[r] # "Exited" /\ \E l \in RunPoints : Goto(r, l)
    BY <1>2
    DEF RunCheck, RunAnnounce, RunKeys, SecretGet, SecretAsk, SecretGivenUp,
        PassphraseAccepted, SecretRejected, SecretArrives, SecretTakenBack, DialHops
  <2>2. UNCHANGED <<running, listener, owner, cfg, open, ctxDone, started, cpc, held, baseDone>>
    BY <1>2, Zenon
    DEF RunCheck, RunAnnounce, RunKeys, SecretGet, SecretAsk, SecretGivenUp,
        PassphraseAccepted, SecretRejected, SecretArrives, SecretTakenBack, DialHops
  <2> QED
    BY <2>1, <2>2
<1>3. CASE \/ DialConnects(r) \/ DialSucceeds(r) \/ DialNeedsPassword(r) \/ DialFails(r)
           \/ DialUnknownHost(r) \/ RunFailErr(r) \/ RemoteListenFails(r) \/ RunBackoff(r)
           \/ RunRetry(r) \/ RunPublish(r) \/ RunServeEnds(r) \/ RunDrop(r)
           \/ RunCloseClient(r) \/ RunRecheck(r) \/ RunReconnect(r) \/ RunPause(r)
  <2>1. pc[r] # "Exited" /\ \E l \in RunPoints : Goto(r, l)
    BY <1>3
    DEF DialConnects, DialSucceeds, DialNeedsPassword, DialFails, DialUnknownHost,
        RunFailErr, RemoteListenFails, RunBackoff, RunRetry, RunPublish, RunServeEnds,
        RunDrop, RunCloseClient, RunRecheck, RunReconnect, RunPause
  <2>2. UNCHANGED <<running, listener, owner, cfg, open, ctxDone, started, cpc, held, baseDone>>
    BY <1>3, Zenon
    DEF DialConnects, DialSucceeds, DialNeedsPassword, DialFails, DialUnknownHost,
        RunFailErr, RemoteListenFails, RunBackoff, RunRetry, RunPublish, RunServeEnds,
        RunDrop, RunCloseClient, RunRecheck, RunReconnect, RunPause
  <2> QED
    BY <2>1, <2>2
<1>4. CASE RunClear(r) \/ RunFailClear(r)
  <2>1. /\ pc[r] # "Exited" /\ (Goto(r, "Keys") \/ Goto(r, "FailErr"))
        /\ UNCHANGED <<running, listener, owner, cfg, open, ctxDone, started, cpc, held,
                       baseDone>>
    BY <1>4, Zenon DEF RunClear, RunFailClear
  <2> QED
    BY <2>1
<1> QED
  BY <1>1, <1>2, <1>3, <1>4 DEF RunStep, RunInput
\* The calls that neither start a run loop nor tear one down.
LEMMA CallerLeavesRuns ==
    ASSUME TypeOK, NEW c \in Callers,
           \/ StartBindFails(c) \/ StartRefused(c) \/ Reconfigure(c)
           \/ \E b \in BOOLEAN : StopIdle(c, b) /\ cpc[c] \in {"Idle", "Restart", "Start"}
    PROVE  /\ UNCHANGED <<running, listener, owner, client, held, pc, open, clients, started>>
           /\ cpc[c] \in {"Idle", "Restart", "Start"}
           /\ \E l \in {"Idle", "Restart", "Start"} : cpc' = [cpc EXCEPT ![c] = l]
<1>1. UNCHANGED <<running, listener, owner, client, held, pc, open, clients, started>>
  BY Zenon DEF StartBindFails, StartRefused, Reconfigure, StopIdle, tuberVars, runVars
<1>2. cpc[c] \in {"Idle", "Restart", "Start"}
  BY DEF StartBindFails, StartRefused, Reconfigure, Starting
<1>3. \/ Go(c, "Idle") \/ Go(c, "Restart") \/ Go(c, "Start")
  BY Zenon DEF StartBindFails, StartRefused, Reconfigure, StopIdle, Starting
<1> QED
  BY <1>1, <1>2, <1>3 DEF Go

LEMMA CallerKeepsOwners ==
    ASSUME TypeOK, ListenerOwned, RunOwned, NEW c \in Callers, CallerStep(c) \/ CallerCalls(c)
    PROVE  ListenerOwned' /\ RunOwned'
<1> USE NoRunAssumption DEF Go, Tearing, Live, tuberVars, promptVars, runVars, callerVars
<1>1. ASSUME NEW r \in Runs, NEW ln \in {r, NoRun}, Spawn(r, ln), Starting(c), ~running
      PROVE  ListenerOwned' /\ RunOwned'
  <2>1. /\ cpc[c] \in {"Idle", "Start"} /\ cpc' = [cpc EXCEPT ![c] = "Idle"] /\ held' = held
        /\ running' /\ owner' = r /\ listener' = ln
        /\ pc' = [pc EXCEPT ![r] = "Check"]
        /\ \A q \in open' : q \in open \/ q = ln
    BY <1>1 DEF Spawn, Starting
  <2>2. \A d \in Callers : cpc[d] \notin {"Idle", "Start"} => cpc'[d] = cpc[d]
    BY <2>1 DEF TypeOK
  <2>3. ListenerOwned'
    BY <1>1, <2>1, <2>2 DEF TypeOK, ListenerOwned
  <2>4. RunOwned'
    BY <1>1, <2>1, <2>2 DEF TypeOK, RunOwned
  <2> QED
    BY <2>3, <2>4
<1>2. ASSUME NEW b \in BOOLEAN, StopRunning(c, b), cpc[c] \in {"Idle", "Restart"}
      PROVE  ListenerOwned' /\ RunOwned'
  <2>1. /\ cpc' = [cpc EXCEPT ![c] = "Cancel"]
        /\ held'[c].run = owner /\ held'[c].listener = listener
        /\ \A d \in Callers \ {c} : held'[d] = held[d] /\ cpc'[d] = cpc[d]
        /\ cpc'[c] = "Cancel"
        /\ open' = open /\ pc' = pc
    BY <1>2 DEF StopRunning, TypeOK
  <2>2. ListenerOwned'
    BY <1>2, <2>1 DEF TypeOK, ListenerOwned
  <2>3. RunOwned'
    BY <1>2, <2>1 DEF TypeOK, RunOwned
  <2> QED
    BY <2>2, <2>3
<1>3. CASE \/ StartBindFails(c) \/ StartRefused(c) \/ Reconfigure(c)
           \/ \E b \in BOOLEAN : StopIdle(c, b) /\ cpc[c] \in {"Idle", "Restart", "Start"}
  <2>1. /\ UNCHANGED <<running, listener, owner, held, pc, open>>
        /\ \A d \in Callers : Tearing(d) => cpc'[d] = cpc[d]
    BY <1>3, CallerLeavesRuns DEF TypeOK
  <2> QED
    BY <2>1 DEF ListenerOwned, RunOwned
<1>4. CASE StopCancel(c)
  BY <1>4 DEF TypeOK, ListenerOwned, RunOwned, StopCancel
<1>5. CASE StopCloseListener(c)
  <2>1. ListenerOwned'
    BY <1>5 DEF TypeOK, ListenerOwned, StopCloseListener
  <2>2. RunOwned'
    BY <1>5 DEF TypeOK, RunOwned, StopCloseListener
  <2> QED
    BY <2>1, <2>2
<1>6. CASE StopCloseClient(c)
  BY <1>6 DEF TypeOK, ListenerOwned, RunOwned, StopCloseClient
<1>7. CASE StopReturns(c)
  <2>1. /\ UNCHANGED <<running, listener, owner, pc, open>>
        /\ cpc[c] = "AwaitExit" /\ held[c].run \notin Live
        /\ \A d \in Callers \ {c} : held'[d] = held[d] /\ cpc'[d] = cpc[d]
    BY <1>7 DEF TypeOK, StopReturns
  <2> QED
    BY <2>1 DEF ListenerOwned, RunOwned
<1> QED
  BY <1>1, <1>2, <1>3, <1>4, <1>5, <1>6, <1>7
  DEF CallerStep, CallerCalls, Stop, Restart, StartRemote, StartLocal, StartWith, Starting

LEMMA OwnersInductive ==
    TypeOK /\ ListenerOwned /\ RunOwned /\ [Next]_vars => (ListenerOwned /\ RunOwned)'
<1> SUFFICES ASSUME TypeOK, ListenerOwned, RunOwned, [Next]_vars
             PROVE  ListenerOwned' /\ RunOwned'
  OBVIOUS
<1>1. ASSUME NEW r \in Runs, RunStep(r) \/ RunInput(r)
      PROVE  ListenerOwned' /\ RunOwned'
  BY <1>1, RunLeavesCallers DEF TypeOK, ListenerOwned, RunOwned, Live, Tearing
<1>2. CASE BaseCancel \/ UNCHANGED vars
  BY <1>2
  DEF BaseCancel, vars, tuberVars, runVars, callerVars, ListenerOwned, RunOwned, Live, Tearing
<1> QED
  BY <1>1, <1>2, CallerKeepsOwners DEF Next

LEMMA OwnersInit == Init => ListenerOwned /\ RunOwned
  BY DEF Init, ListenerOwned, RunOwned, Live

\* No listener leaks: whatever callers race, every open local listener is the
\* tuber's own or about to be closed by a Stop (tuber.go:226-247).
THEOREM NoListenerLeaks == Spec => []ListenerOwned
<1>1. Spec => [](ListenerOwned /\ RunOwned)
  BY OwnersInit, OwnersInductive, TypeCorrect, PTL DEF Spec
<1> QED
  BY <1>1, PTL

\* No run loop leaks: one that has not returned is reachable by the next
\* Stop, or a Stop is waiting for it (tuber.go:226-254).
THEOREM NoRunLoopLeaks == Spec => []RunOwned
<1>1. Spec => [](ListenerOwned /\ RunOwned)
  BY OwnersInit, OwnersInductive, TypeCorrect, PTL DEF Spec
<1> QED
  BY <1>1, PTL

-----------------------------------------------------------------------------
(* SSH clients, and the error shown.                                        *)

\* A client is open only from the end of the dial to the Close after serving,
\* and the tuber holds it only while it is served.
ClientPhases ==
    /\ \A r \in clients : pc[r] \in {"Dialed", "Serve", "Drop", "CloseClient"}
    /\ client # NoRun => pc[client] \in {"Serve", "Drop"}

LEMMA RunKeepsClientPhases ==
    ASSUME TypeOK, ClientPhases, NEW r \in Runs, RunStep(r) \/ RunInput(r)
    PROVE  ClientPhases'
<1> USE NoRunAssumption
    DEF At, Goto, OnlyPc, SetState, RunSleeps, WithSecret, WithoutSecret, ClientPhases,
        tuberVars, promptVars, runVars, callerVars
<1>1. CASE \/ RunCheck(r) \/ RunAnnounce(r) \/ RunClear(r) \/ RunKeys(r) \/ SecretGet(r)
           \/ SecretAsk(r) \/ SecretGivenUp(r) \/ PassphraseAccepted(r) \/ SecretArrives(r)
           \/ SecretRejected(r) \/ DialConnects(r) \/ DialNeedsPassword(r) \/ DialFails(r)
           \/ DialUnknownHost(r) \/ RunFailClear(r) \/ RunFailErr(r) \/ RunBackoff(r)
           \/ RunRetry(r) \/ RunRecheck(r) \/ RunReconnect(r) \/ RunPause(r)
           \/ SecretTakenBack(r) \/ DialHops(r)
  <2>1. /\ pc[r] \notin {"Dialed", "Serve", "Drop", "CloseClient"}
        /\ UNCHANGED <<client, clients>>
    BY <1>1, Zenon
    DEF RunCheck, RunAnnounce, RunClear, RunKeys, SecretGet, SecretAsk, SecretGivenUp,
        PassphraseAccepted, SecretArrives, SecretRejected, DialConnects, DialNeedsPassword,
        DialFails, DialUnknownHost, RunFailClear, RunFailErr, RunBackoff, RunRetry,
        RunRecheck, RunReconnect, RunPause, SecretTakenBack, DialHops
  <2> QED
    BY <2>1, RunLeavesCallers DEF TypeOK
<1>2. CASE RunServeEnds(r)
  BY <1>2 DEF TypeOK, RunServeEnds
<1>3. CASE DialSucceeds(r)
  <2>1. pc[r] = "Handshake" /\ Goto(r, "Dialed") /\ clients' = clients \cup {r} /\ client' = client
    BY <1>3, Zenon DEF DialSucceeds
  <2> QED
    BY <2>1 DEF TypeOK
<1>4. CASE RemoteListenFails(r)
  BY <1>4 DEF TypeOK, RemoteListenFails
<1>5. CASE RunPublish(r)
  BY <1>5 DEF TypeOK, RunPublish
<1>6. CASE RunDrop(r)
  BY <1>6 DEF TypeOK, RunDrop
<1>7. CASE RunCloseClient(r)
  BY <1>7 DEF TypeOK, RunCloseClient
<1>8. CASE ConnDrops(r)
  BY <1>8 DEF TypeOK, ConnDrops
<1> QED
  BY <1>1, <1>2, <1>3, <1>4, <1>5, <1>6, <1>7, <1>8 DEF RunStep, RunInput

LEMMA CallerKeepsClientPhases ==
    ASSUME TypeOK, ClientPhases, NEW c \in Callers, CallerStep(c) \/ CallerCalls(c)
    PROVE  ClientPhases'
<1> USE NoRunAssumption DEF ClientPhases, tuberVars, promptVars, runVars, callerVars
<1>1. ASSUME NEW r \in Runs, NEW ln \in {r, NoRun}, Spawn(r, ln)
      PROVE  ClientPhases'
  BY <1>1 DEF TypeOK, Spawn, Fresh
<1>2. ASSUME NEW b \in BOOLEAN, StopRunning(c, b)
      PROVE  ClientPhases'
  <2>1. client' = NoRun /\ UNCHANGED <<clients, pc>>
    BY <1>2, Zenon DEF StopRunning
  <2> QED
    BY <2>1
<1>3. CASE \/ StartBindFails(c) \/ StartRefused(c) \/ Reconfigure(c)
           \/ \E b \in BOOLEAN : StopIdle(c, b) /\ cpc[c] \in {"Idle", "Restart", "Start"}
  BY <1>3, CallerLeavesRuns, Zenon
<1>4. CASE StopCancel(c) \/ StopCloseListener(c) \/ StopCloseClient(c) \/ StopReturns(c)
  <2>1. UNCHANGED <<client, pc>> /\ \A r \in clients' : r \in clients
    BY <1>4 DEF StopCancel, StopCloseListener, StopCloseClient, StopReturns
  <2> QED
    BY <2>1
<1> QED
  BY <1>1, <1>2, <1>3, <1>4
  DEF CallerStep, CallerCalls, Stop, Restart, StartRemote, StartLocal, StartWith

LEMMA ClientPhasesHold == Spec => []ClientPhases
<1>1. Init => ClientPhases
  BY DEF Init, ClientPhases
<1>2. TypeOK /\ ClientPhases /\ [Next]_vars => ClientPhases'
  <2>1. BaseCancel \/ UNCHANGED vars => UNCHANGED <<client, clients, pc>>
    BY DEF BaseCancel, vars, tuberVars, runVars
  <2> QED
    BY <2>1, RunKeepsClientPhases, CallerKeepsClientPhases DEF Next, ClientPhases
<1> QED
  BY <1>1, <1>2, TypeCorrect, PTL DEF Spec

\* No SSH client leaks: a run loop that has returned left no open client,
\* whichever of its exits it took (tuber.go:557, 703).
THEOREM NoClientLeaks == Spec => []ClientOwned
<1>1. TypeOK /\ ClientPhases => ClientOwned
  BY DEF TypeOK, ClientPhases, ClientOwned, Live
<1> QED
  BY <1>1, TypeCorrect, ClientPhasesHold, PTL

-----------------------------------------------------------------------------
(* One caller at a time, as in the daemon (Server.mu) and the TUI.          *)

OneCaller == \A c, d \in Callers : c = d

\* The tuber is not running while its only caller tears it down, or is
\* between the two halves of Restart; and what runs is what was configured,
\* unless Reconfigure is about to restart it.
SerialInv ==
    /\ \A c \in Callers : (Tearing(c) \/ cpc[c] = "Start") => ~running
    /\ (running /\ \A c \in Callers : cpc[c] # "Restart") =>
        /\ owner \in Runs /\ started[owner] = cfg
        /\ IF cfg.type = "local"
           THEN listener = owner /\ owner \in open
           ELSE listener = NoRun

LEMMA CallerKeepsSerial ==
    ASSUME OneCaller, TypeOK, SerialInv, NEW c \in Callers, CallerStep(c) \/ CallerCalls(c)
    PROVE  SerialInv'
<1> USE NoRunAssumption
    DEF OneCaller, Go, Tearing, SerialInv, tuberVars, promptVars, runVars, callerVars
<1>1. ASSUME NEW r \in Runs, NEW ln \in {r, NoRun}, Spawn(r, ln), Starting(c),
             ln = IF cfg.type = "local" THEN r ELSE NoRun
      PROVE  SerialInv'
  <2>1. cpc'[c] = "Idle" /\ owner' = r /\ cfg' = cfg /\ started'[r] = cfg /\ listener' = ln
    BY <1>1 DEF Spawn, Starting, TypeOK
  <2>2. ln = r => r \in open'
    BY <1>1 DEF Spawn
  <2> QED
    BY <1>1, <2>1, <2>2
<1>2. ASSUME NEW b \in BOOLEAN, StopRunning(c, b)
      PROVE  SerialInv'
  <2>1. ~running'
    BY <1>2 DEF StopRunning
  <2> QED
    BY <2>1
<1>3. ASSUME NEW b \in BOOLEAN, StopIdle(c, b)
      PROVE  SerialInv'
  <2>1. ~running'
    BY <1>3, Zenon DEF StopIdle
  <2> QED
    BY <2>1
<1>4. CASE StartBindFails(c) \/ StartRefused(c)
  BY <1>4 DEF TypeOK, StartBindFails, StartRefused, Starting
<1>5. CASE StopCancel(c) \/ StopCloseListener(c) \/ StopCloseClient(c) \/ StopReturns(c)
  <2>1. ~running /\ running' = running
    BY <1>5 DEF StopCancel, StopCloseListener, StopCloseClient, StopReturns
  <2> QED
    BY <2>1
<1>6. CASE Reconfigure(c)
  <2>1. CASE running
    <3>1. cpc'[c] = "Restart" /\ running' = running
      BY <1>6, <2>1 DEF Reconfigure, TypeOK
    <3> QED
      BY <3>1
  <2>2. CASE ~running
    <3>1. ~running'
      BY <1>6, <2>2, Zenon DEF Reconfigure
    <3> QED
      BY <3>1
  <2> QED
    BY <2>1, <2>2
<1>7. ConfigAssumption /\ cfg \in Configs
  BY ConfigAssumption DEF TypeOK
<1> QED
  BY <1>1, <1>2, <1>3, <1>4, <1>5, <1>6, <1>7
  DEF CallerStep, CallerCalls, Stop, Restart, StartRemote, StartLocal, StartWith, Starting

LEMMA SerialInvHolds ==
    ASSUME OneCaller
    PROVE  Spec => []SerialInv
<1>1. Init => SerialInv
  BY DEF Init, SerialInv, Tearing
<1>2. TypeOK /\ SerialInv /\ [Next]_vars => SerialInv'
  <2> SUFFICES ASSUME TypeOK, SerialInv, [Next]_vars
               PROVE  SerialInv'
    OBVIOUS
  <2>1. ASSUME UNCHANGED <<running, listener, owner, cfg, open, started, cpc>>
        PROVE  SerialInv'
    BY <2>1 DEF SerialInv, Tearing
  <2>2. CASE BaseCancel \/ UNCHANGED vars
    BY <2>1, <2>2, Zenon DEF BaseCancel, vars, tuberVars, runVars, callerVars
  <2>3. ASSUME NEW r \in Runs, RunStep(r) \/ RunInput(r)
        PROVE  SerialInv'
    BY <2>1, <2>3, RunLeavesCallers, Zenon
  <2> QED
    BY <2>2, <2>3, CallerKeepsSerial DEF Next
<1> QED
  BY <1>1, <1>2, TypeCorrect, PTL DEF Spec

\* With one caller two run loops never write one tuber's fields: Restart and
\* Reconfigure start the next one after the old one returned (tuber.go:257-263).
THEOREM OneLoopAtATime ==
    ASSUME OneCaller
    PROVE  Spec => []OneRunLoop
<1>1. TypeOK /\ RunOwned /\ SerialInv => OneRunLoop
  BY DEF TypeOK, OneCaller, RunOwned, SerialInv, OneRunLoop, Live
<1> QED
  BY <1>1, TypeCorrect, NoRunLoopLeaks, SerialInvHolds, PTL

\* With one caller an edit takes effect: between calls a running tuber runs
\* the loop, and holds the listener, of its configuration (tuber.go:265-297).
THEOREM EditsTakeEffect ==
    ASSUME OneCaller
    PROVE  Spec => []EditTakesEffect
<1>1. SerialInv => EditTakesEffect
  BY DEF SerialInv, EditTakesEffect, Quiet
<1> QED
  BY <1>1, SerialInvHolds, PTL

\* With one caller nothing of the run is left when Stop returns
\* (tuber.go:206-255).
THEOREM StopCompletes ==
    ASSUME OneCaller
    PROVE  Spec => StopIsComplete
<1> DEFINE Complete(c) ==
        (cpc[c] = "AwaitExit" /\ cpc'[c] # "AwaitExit") =>
            Live \cup open \cup clients = {} /\ client' = NoRun
<1>1. TypeOK /\ ListenerOwned /\ RunOwned /\ ClientPhases /\ SerialInv /\ [Next]_vars
        => \A c \in Callers : Complete(c)
  <2> SUFFICES ASSUME TypeOK, ListenerOwned, RunOwned, ClientPhases, SerialInv, [Next]_vars,
                      NEW c \in Callers, cpc[c] = "AwaitExit", cpc'[c] # "AwaitExit"
               PROVE  Live \cup open \cup clients = {} /\ client' = NoRun
    OBVIOUS
  <2>1. StopReturns(c)
    <3>1. ~(BaseCancel \/ UNCHANGED vars)
      BY DEF BaseCancel, vars, callerVars
    <3>2. ASSUME NEW r \in Runs, RunStep(r) \/ RunInput(r)
          PROVE  FALSE
      BY <3>2, RunLeavesCallers
    <3>3. \E d \in Callers : CallerStep(d) \/ CallerCalls(d)
      BY <3>1, <3>2 DEF Next
    <3>4. CallerStep(c) \/ CallerCalls(c)
      BY <3>3 DEF OneCaller
    <3> QED
      BY <3>4
      DEF CallerStep, CallerCalls, StopCancel, StopCloseListener, StopCloseClient, StartWith,
          Stop, Reconfigure
  <2>2. ~running
    BY DEF SerialInv, Tearing
  <2>3. Live = {}
    BY <2>1, <2>2 DEF RunOwned, StopReturns, Live, OneCaller
  <2>4. open = {}
    BY <2>2 DEF ListenerOwned, OneCaller, TypeOK
  <2>5. clients = {} /\ client = NoRun
    BY <2>3 DEF ClientPhases, TypeOK, Live
  <2> QED
    BY <2>1, <2>3, <2>4, <2>5 DEF StopReturns, tuberVars
<1> QED
  BY <1>1, TypeCorrect, NoListenerLeaks, NoRunLoopLeaks, ClientPhasesHold, SerialInvHolds, PTL
  DEF Spec, StopIsComplete

-----------------------------------------------------------------------------
(* The refinement: a tuber is a Tunnel.                                      *)

Owned == TypeOK /\ ListenerOwned /\ RunOwned /\ ClientPhases /\ SerialInv

LEMMA OwnedHolds ==
    ASSUME OneCaller
    PROVE  Spec => []Owned
  BY TypeCorrect, NoListenerLeaks, NoRunLoopLeaks, ClientPhasesHold, SerialInvHolds, PTL DEF Owned

\* The phase is the only caller's.
LEMMA PhaseOf ==
    ASSUME OneCaller, NEW c \in Callers
    PROVE  /\ Phase = IF running THEN "on" ELSE IF Tearing(c) THEN "stopping" ELSE "off"
           /\ Phase' = IF running' THEN "on" ELSE IF Tearing(c)' THEN "stopping" ELSE "off"
  BY DEF OneCaller, Phase

\* A tuber that is off has nothing left.
LEMMA OffIsEmpty ==
    ASSUME Owned, Phase = "off"
    PROVE  open = {} /\ clients = {}
  BY DEF Owned, TypeOK, ListenerOwned, RunOwned, ClientPhases, Phase, Tearing, Live

\* A far host owes the tuber an answer, and it waits.
Owed == \E r \in Live : Unanswered(r)

\* Only a tuber that is not off waits for anybody.
LEMMA OwedIsLive ==
    ASSUME Owned, Owed
    PROVE  Phase # "off"
  BY DEF Owned, RunOwned, Owed, Phase

\* A step that leaves phase, addresses and link alone asks a far host at most.
LEMMA OnlyAsks ==
    ASSUME Owned, Owned', UNCHANGED <<Phase, {started[q].port : q \in open}, clients # {}>>
    PROVE  [T!Next]_(T!vars)
<1>1. CASE Owed' = Owed
  BY <1>1 DEF T!vars, Owed
<1>2. CASE Owed' # Owed
  <2>1. Phase # "off"
    <3>1. CASE Owed
      BY <3>1, OwedIsLive
    <3>2. CASE ~Owed
      <4>1. Owed'
        BY <1>2, <3>2 DEF Owed
      <4>2. Phase' # "off"
        BY <4>1 DEF Owned, RunOwned, Owed, Phase
      <4> QED
        BY <4>2
    <3> QED
      BY <3>1, <3>2
  <2>2. Owed' = ~Owed
    BY <1>2 DEF Owed
  <2> QED
    BY <2>1, <2>2 DEF T!Next, T!Ask, Owed
<1> QED
  BY <1>1, <1>2

\* With one loop, no loop waits for a jump host while a client is open, nor once
\* the last client is closed.
LEMMA ClosedOwesNothing ==
    ASSUME OneCaller, Owned, clients # {}, clients' = {},
           \A q \in Runs : pc'[q] = "Hop" => pc[q] = "Hop"
    PROVE  ~Owed'
<1>1. PICK r \in clients : r \in Runs
  BY DEF Owned, TypeOK
<1>2. r \in Live /\ pc[r] # "Hop"
  BY <1>1 DEF Owned, TypeOK, ClientPhases, Live
<1>3. \A q \in Live : q = r
  BY <1>2 DEF Owned, TypeOK, RunOwned, SerialInv, OneCaller, Live
<1>4. \A q \in Runs : pc[q] # "Hop"
  BY <1>2, <1>3 DEF Live
<1> QED
  BY <1>4 DEF Owed, Unanswered, At, Live

\* A run loop only connects and disconnects, and asks far hosts.
LEMMA RunIsTunnel ==
    ASSUME OneCaller, Owned, Owned', NEW r \in Runs, RunStep(r) \/ RunInput(r)
    PROVE  [T!Next]_(T!vars)
<1>1. UNCHANGED <<running, cpc, open, started>>
  BY RunLeavesCallers DEF Owned
<1>2. UNCHANGED <<Phase, {started[q].port : q \in open}>>
  BY <1>1 DEF Phase, Tearing
<1>3. CASE (clients # {})' = (clients # {})
  BY <1>2, <1>3, OnlyAsks
<1>4. CASE clients # {} /\ clients' = {}
  <2>1. \/ RunCloseClient(r) \/ RemoteListenFails(r) \/ ConnDrops(r)
    <3>1. clients' # clients
      BY <1>4
    <3>2. ~DialSucceeds(r)
      BY <1>4 DEF DialSucceeds
    <3> QED
      BY <3>1, <3>2
      DEF RunStep, RunInput, RunCheck, RunAnnounce, RunClear, RunKeys, SecretGet, SecretAsk,
          SecretGivenUp, SecretArrives, SecretTakenBack, PassphraseAccepted, SecretRejected,
          DialConnects, DialHops, DialNeedsPassword, DialFails, DialUnknownHost, RunFailClear,
          RunFailErr, RunBackoff, RunRetry, RunPublish, RunServeEnds, RunDrop, RunRecheck,
          RunReconnect, RunPause, RunSleeps, OnlyPc, SetState
  <2>2. \A q \in Runs : pc'[q] = "Hop" => pc[q] = "Hop"
    BY <2>1 DEF RunCloseClient, RemoteListenFails, ConnDrops, Goto, Owned, TypeOK
  <2>3. ~Owed'
    BY <1>4, <2>2, ClosedOwesNothing
  <2> QED
    BY <1>2, <1>4, <2>3 DEF T!Next, T!Disconnect, Owed
<1>5. CASE clients = {} /\ clients' # {}
  <2>1. \E q \in Live' : TRUE
    BY <1>5 DEF Owned, TypeOK, ClientPhases, Live
  <2>2. Phase' # "off"
    BY <2>1 DEF Owned, RunOwned, Phase
  <2> QED
    BY <1>2, <1>5, <2>2 DEF T!Next, T!Connect
<1> QED
  BY <1>3, <1>4, <1>5
\* Start from rest switches on.
LEMMA SpawnIsSwitchOn ==
    ASSUME OneCaller, Owned, NEW c \in Callers, NEW r \in Runs, NEW ln \in {r, NoRun},
           Spawn(r, ln), Starting(c), ~running
    PROVE  T!SwitchOn
<1> USE NoRunAssumption
<1>1. /\ cpc[c] \in {"Idle", "Start"} /\ running' /\ clients' = clients
      /\ started' = [started EXCEPT ![r] = cfg]
      /\ open' = IF ln = NoRun THEN open ELSE open \cup {ln}
  BY DEF Spawn, Starting
<1>2. Phase = "off" /\ Phase' = "on"
  BY <1>1, PhaseOf DEF Tearing
<1>3. open = {}
  BY <1>2, OffIsEmpty
<1>4. cfg.port \in Ports
  BY ConfigAssumption DEF Owned, TypeOK
<1>5. {started[q].port : q \in open} = {}
  BY <1>3
<1>6. ~Owed /\ ~Owed'
  <2>1. Live = {}
    BY <1>2 DEF Owned, RunOwned, Phase
  <2>2. pc' = [pc EXCEPT ![r] = "Check"]
    BY DEF Spawn
  <2>3. \A q \in Live' : pc'[q] = "Check"
    BY <2>1, <2>2 DEF Live, Owned, TypeOK
  <2> QED
    BY <2>1, <2>3 DEF Owed, Unanswered, At
<1>7. {started'[q].port : q \in open'} \in {{}} \cup {{a} : a \in Ports}
  <2>1. CASE ln = NoRun
    BY <1>1, <1>3, <2>1
  <2>2. CASE ln = r
    <3>1. open' = {r} /\ started'[r] = cfg
      BY <1>1, <1>3, <2>2 DEF Owned, TypeOK
    <3>2. {started'[q].port : q \in open'} = {cfg.port}
      BY <3>1
    <3> QED
      BY <1>4, <3>2
  <2> QED
    BY <2>1, <2>2
<1> QED
  BY <1>1, <1>2, <1>6, <1>7 DEF T!SwitchOn, Owed

LEMMA CallerIsTunnel ==
    ASSUME OneCaller, Owned, Owned', NEW c \in Callers, CallerStep(c) \/ CallerCalls(c)
    PROVE  [T!Next]_(T!vars)
<1> USE DEF Go, tuberVars, promptVars, runVars, callerVars
<1> DEFINE Listening == {started[q].port : q \in open}
<1>1. cpc \in [Callers -> CallerPoints]
  BY DEF Owned, TypeOK
<1>2. ASSUME UNCHANGED <<running, open, started, clients>>, Tearing(c)' = Tearing(c)
      PROVE  [T!Next]_(T!vars)
  BY <1>2, PhaseOf, OnlyAsks
<1>3. ASSUME NEW r \in Runs, NEW ln \in {r, NoRun}, Spawn(r, ln), Starting(c), ~running
      PROVE  [T!Next]_(T!vars)
  BY <1>3, SpawnIsSwitchOn DEF T!Next
<1>4. ASSUME NEW b \in BOOLEAN, StopRunning(c, b)
      PROVE  [T!Next]_(T!vars)
  <2>1. running /\ ~running' /\ cpc'[c] = "Cancel"
        /\ UNCHANGED <<open, started, clients, pc, ctxDone, baseDone>>
    BY <1>1, <1>4 DEF StopRunning
  <2>2. Phase = "on" /\ Phase' = "stopping"
    BY <2>1, PhaseOf DEF Tearing
  <2>3. Owed' = Owed
    BY <2>1 DEF Owed, Live, Unanswered, At, Cancelled
  <2> QED
    BY <2>1, <2>2, <2>3 DEF T!Next, T!SwitchOff, Owed
<1>5. ASSUME NEW b \in BOOLEAN, StopIdle(c, b), cpc[c] \in {"Idle", "Restart"}
      PROVE  [T!Next]_(T!vars)
  <2>1. cpc'[c] \in {"Idle", "Start"} /\ UNCHANGED <<running, open, started, clients>>
    BY <1>1, <1>5, Zenon DEF StopIdle
  <2> QED
    BY <1>2, <1>5, <2>1 DEF Tearing
<1>6. CASE StartBindFails(c) \/ StartRefused(c)
  <2>1. /\ cpc[c] \in {"Idle", "Start"} /\ cpc'[c] = "Idle"
        /\ UNCHANGED <<running, open, started, clients>>
    BY <1>1, <1>6 DEF StartBindFails, StartRefused, Starting
  <2> QED
    BY <1>2, <2>1 DEF Tearing
<1>7. CASE StopCancel(c)
  <2>1. Tearing(c) /\ Tearing(c)' /\ UNCHANGED <<running, open, started, clients>>
    BY <1>1, <1>7 DEF StopCancel, Tearing
  <2> QED
    BY <1>2, <2>1
<1>8. ASSUME Tearing(c)
      PROVE  ~running /\ Phase = "stopping"
  BY <1>8, PhaseOf DEF Owned, SerialInv
<1>9. CASE StopCloseListener(c)
  <2>1. Tearing(c) /\ Tearing(c)'
        /\ UNCHANGED <<running, started, clients, pc, ctxDone, baseDone>>
    BY <1>1, <1>9 DEF StopCloseListener, Tearing
  <2>2. Phase = "stopping" /\ Phase' = "stopping"
    BY <1>8, <2>1, PhaseOf
  <2>3. open' = {}
    BY <1>8, <1>9, <2>1 DEF StopCloseListener, Owned, ListenerOwned, OneCaller
  <2>4. Listening' = {}
    BY <2>3
  <2>5. CASE Listening = {}
    BY <2>1, <2>2, <2>4, <2>5, OnlyAsks
  <2>6. CASE Listening # {}
    <3>1. Owed' = Owed
      BY <2>1 DEF Owed, Live, Unanswered, At, Cancelled
    <3> QED
      BY <2>1, <2>2, <2>4, <2>6, <3>1 DEF T!Next, T!Unlisten, Owed
  <2> QED
    BY <2>5, <2>6
<1>10. CASE StopCloseClient(c)
  <2>1. /\ Tearing(c) /\ Tearing(c)' /\ UNCHANGED <<running, open, started, pc>>
        /\ clients' = clients \ {held[c].client}
    BY <1>1, <1>10 DEF StopCloseClient, Tearing
  <2>2. Phase' = Phase
    BY <2>1, PhaseOf
  <2>3. CASE (clients # {}) = (clients' # {})
    BY <2>1, <2>2, <2>3, OnlyAsks
  <2>4. CASE clients # {} /\ clients' = {}
    <3>1. ~Owed'
      BY <2>1, <2>4, ClosedOwesNothing
    <3> QED
      BY <2>1, <2>2, <2>4, <3>1 DEF T!Next, T!Disconnect, Owed
  <2> QED
    BY <2>1, <2>3, <2>4
<1>11. CASE StopReturns(c)
  <2>1. /\ Tearing(c) /\ ~Tearing(c)' /\ UNCHANGED <<running, open, clients, pc>>
        /\ cpc[c] = "AwaitExit" /\ held[c].run \notin Live
    BY <1>1, <1>11 DEF StopReturns, Tearing
  <2>2. Phase = "stopping" /\ Phase' = "off"
    BY <1>8, <2>1, PhaseOf
  <2>3. open = {} /\ Live = {}
    BY <1>8, <2>1 DEF Owned, TypeOK, ListenerOwned, RunOwned, OneCaller, Live
  <2>4. clients = {}
    BY <2>3 DEF Owned, TypeOK, ClientPhases, Live
  <2>5. Listening = {} /\ Listening' = {}
    BY <2>1, <2>3
  <2>6. ~Owed /\ ~Owed'
    BY <2>1, <2>3 DEF Owed, Live
  <2> QED
    BY <2>1, <2>2, <2>4, <2>5, <2>6 DEF T!Next, T!Settle, Owed
<1>12. CASE Reconfigure(c)
  <2>1. /\ cpc[c] = "Idle" /\ cpc'[c] \in {"Idle", "Restart"}
        /\ UNCHANGED <<running, open, started, clients>>
    BY <1>1, <1>12, Zenon DEF Reconfigure
  <2> QED
    BY <1>2, <2>1 DEF Tearing
<1> QED
  BY <1>3, <1>4, <1>5, <1>6, <1>7, <1>9, <1>10, <1>11, <1>12
  DEF CallerStep, CallerCalls, Stop, Restart, StartRemote, StartLocal, StartWith, Starting

\* With one caller every step of a tuber is a step of a Tunnel or none: what is
\* switched off is emptied before it is off, and a dial that ends late connects
\* nothing over a tuber that is off (tuber.go:206-255, 541-546).
THEOREM TuberIsTunnel ==
    ASSUME OneCaller
    PROVE  Spec => T!Spec
<1>1. Init => T!Init
  BY DEF Init, T!Init, Phase, Tearing, Live
<1>2. Owned /\ Owned' /\ [Next]_vars => [T!Next]_(T!vars)
  <2> SUFFICES ASSUME Owned, Owned', [Next]_vars
               PROVE  [T!Next]_(T!vars)
    OBVIOUS
  <2>1. CASE BaseCancel \/ UNCHANGED vars
    <3>1. UNCHANGED <<running, cpc, open, started, clients>>
      BY <2>1 DEF BaseCancel, vars, tuberVars, runVars, callerVars
    <3>2. UNCHANGED <<Phase, {started[q].port : q \in open}, clients # {}>>
      BY <3>1 DEF Phase, Tearing
    <3> QED
      BY <3>2, OnlyAsks
  <2> QED
    BY <2>1, RunIsTunnel, CallerIsTunnel DEF Next
<1> QED
  BY <1>1, <1>2, OwnedHolds, PTL DEF Spec, T!Spec

-----------------------------------------------------------------------------
(* Named as the runs name them.                                              *)

\* Nothing leaks, however many callers race: a listener, a loop and a client
\* are the tuber's own or a Stop in progress ends them (tuber.go:226-254).
THEOREM NoLeaks == Spec => []NothingLeaks
  BY NoListenerLeaks, NoRunLoopLeaks, NoClientLeaks, PTL DEF NothingLeaks

-----------------------------------------------------------------------------
(* What Status shows is true.                                                *)

\* Every write of the state writes the message that goes with it, or keeps it on
\* a state that may have one: no assumption on the callers is needed.
THEOREM ErrorIsShown == Spec => []ErrorShown
<1>1. Init => ErrorShown
  BY DEF Init, ErrorShown
<1>2. ErrorShown /\ [Next]_vars => ErrorShown'
  <2> SUFFICES ASSUME ErrorShown, [Next]_vars PROVE ErrorShown'
    OBVIOUS
  <2>1. ASSUME UNCHANGED <<state, err>> PROVE ErrorShown'
    BY <2>1 DEF ErrorShown
  <2>2. ASSUME state' \in {"Connecting", "Reconnecting"} PROVE ErrorShown'
    BY <2>2 DEF ErrorShown
  <2>3. ASSUME state' \in {"Off", "Connected"}, err' = FALSE PROVE ErrorShown'
    BY <2>3 DEF ErrorShown
  <2>4. ASSUME state' = "Error", err' = TRUE PROVE ErrorShown'
    BY <2>4 DEF ErrorShown
  <2>5. ASSUME NEW c \in Callers, CallerStep(c) \/ CallerCalls(c) PROVE ErrorShown'
    <3>1. ASSUME NEW r, NEW ln, Spawn(r, ln) PROVE ErrorShown'
      BY <2>2, <3>1 DEF Spawn
    <3>2. ASSUME NEW b, StopRunning(c, b) PROVE ErrorShown'
      BY <2>3, <3>2 DEF StopRunning
    <3>3. ASSUME NEW b, StopIdle(c, b) PROVE ErrorShown'
      <4>1. state' = "Off" /\ err' = FALSE
        BY <3>3, Zenon DEF StopIdle
      <4> QED
        BY <2>3, <4>1
    <3>4. CASE StartBindFails(c)
      BY <2>4, <3>4 DEF StartBindFails
    <3>5. CASE StartRefused(c) \/ StopCancel(c) \/ StopCloseListener(c) \/ StopCloseClient(c) \/ StopReturns(c)
      BY <2>1, <3>5, Zenon
      DEF StartRefused, StopCancel, StopCloseListener, StopCloseClient, StopReturns, tuberVars
    <3>6. CASE Reconfigure(c)
      <4>1. UNCHANGED <<state, err>> \/ (state' = "Off" /\ err' = FALSE)
        BY <3>6, Zenon DEF Reconfigure
      <4> QED
        BY <2>1, <2>3, <4>1
    <3> QED
      BY <2>5, <3>1, <3>2, <3>3, <3>4, <3>5, <3>6
      DEF CallerStep, CallerCalls, Stop, Restart, StartRemote, StartLocal, StartWith
  <2>6. ASSUME NEW r \in Runs, RunStep(r) \/ RunInput(r) PROVE ErrorShown'
    <3>1. CASE RunAnnounce(r) \/ RunRetry(r) \/ RunReconnect(r)
      BY <2>2, <3>1 DEF RunAnnounce, RunRetry, RunReconnect, SetState
    <3>2. CASE RunFailErr(r) \/ RemoteListenFails(r)
      BY <2>4, <3>2 DEF RunFailErr, RemoteListenFails
    <3>3. CASE RunPublish(r)
      BY <2>3, <3>3 DEF RunPublish
    <3>4. CASE \/ RunCheck(r) \/ RunClear(r) \/ RunKeys(r) \/ SecretGet(r) \/ SecretAsk(r)
               \/ SecretGivenUp(r) \/ PassphraseAccepted(r) \/ SecretRejected(r)
               \/ DialConnects(r) \/ DialSucceeds(r) \/ DialNeedsPassword(r) \/ DialFails(r)
               \/ DialUnknownHost(r) \/ RunFailClear(r) \/ DialHops(r)
      <4>1. UNCHANGED <<state, err>>
        BY <3>4, Zenon
        DEF RunCheck, RunClear, RunKeys, SecretGet, SecretAsk, SecretGivenUp, PassphraseAccepted,
            SecretRejected, DialConnects, DialSucceeds, DialNeedsPassword, DialFails,
            DialUnknownHost, RunFailClear, DialHops, OnlyPc, tuberVars
      <4> QED
        BY <2>1, <4>1
    <3>5. CASE \/ RunBackoff(r) \/ RunServeEnds(r) \/ RunDrop(r) \/ RunCloseClient(r)
               \/ RunRecheck(r) \/ RunPause(r) \/ RunInput(r)
      <4>1. UNCHANGED <<state, err>>
        BY <3>5, Zenon
        DEF RunBackoff, RunServeEnds, RunDrop, RunCloseClient, RunRecheck, RunPause, RunSleeps,
            RunInput, SecretArrives, SecretTakenBack, ConnDrops, OnlyPc, tuberVars
      <4> QED
        BY <2>1, <4>1
    <3> QED
      BY <2>6, <3>1, <3>2, <3>3, <3>4, <3>5 DEF RunStep
  <2>7. CASE BaseCancel \/ UNCHANGED vars
    BY <2>1, <2>7, Zenon DEF BaseCancel, vars, tuberVars
  <2> QED
    BY <2>5, <2>6, <2>7 DEF Next
<1> QED
  BY <1>1, <1>2, PTL DEF Spec

\* Where a loop has yet to pass a notification on.
Silent == {"Keys", "Get", "Ask", "Try", "Net", "Hop", "Handshake", "Dialed", "FailClear", "FailErr"}

\* What subscribers were not told is about to be told: a loop is on its way from
\* where a change is silent to where it is not.
Told == unseen => \E r \in Live : pc[r] \in Silent

\* It gets there, whatever the callers do meanwhile.
LEMMA ToldHolds == Spec => []Told
<1>1. Init => Told
  BY DEF Init, Told
<1>2. TypeOK /\ Told /\ [Next]_vars => Told'
  <2> SUFFICES ASSUME TypeOK, Told, [Next]_vars PROVE Told'
    OBVIOUS
  <2> DEFINE Way == \E r \in Live : pc[r] \in Silent
  <2>1. ASSUME unseen' => unseen, pc' = pc PROVE Told'
    BY <2>1, Zenon DEF Told, Live
  <2>2. ASSUME unseen' = FALSE PROVE Told'
    BY <2>2 DEF Told
  <2>3. ASSUME NEW c \in Callers, CallerStep(c) \/ CallerCalls(c) PROVE Told'
    <3>1. ASSUME NEW r, NEW ln, Spawn(r, ln) PROVE Told'
      BY <2>2, <3>1, Zenon DEF Spawn
    <3>2. ASSUME NEW b, StopRunning(c, b) PROVE Told'
      BY <2>2, <3>2, Zenon DEF StopRunning
    <3>3. ASSUME NEW b, StopIdle(c, b) PROVE Told'
      <4>1. (unseen' => unseen) /\ pc' = pc
        BY <3>3, Zenon DEF StopIdle, runVars
      <4> QED
        BY <2>1, <4>1, Zenon
    <3>4. CASE StartBindFails(c)
      BY <2>2, <3>4, Zenon DEF StartBindFails
    <3>5. CASE StartRefused(c) \/ StopCancel(c) \/ StopCloseListener(c) \/ StopCloseClient(c) \/ StopReturns(c)
      <4>1. unseen' = unseen /\ pc' = pc
        BY <3>5, Zenon
        DEF StartRefused, StopCancel, StopCloseListener, StopCloseClient, StopReturns, runVars
      <4> QED
        BY <2>1, <4>1, Zenon
    <3>6. CASE Reconfigure(c)
      <4>1. (unseen' => unseen) /\ pc' = pc
        BY <3>6, Zenon DEF Reconfigure, runVars
      <4> QED
        BY <2>1, <4>1, Zenon
    <3> QED
      BY <2>3, <3>1, <3>2, <3>3, <3>4, <3>5, <3>6, Zenon
      DEF CallerStep, CallerCalls, Stop, Restart, StartRemote, StartLocal, StartWith
  <2>4. ASSUME NEW r \in Runs, RunStep(r) \/ RunInput(r) PROVE Told'
    <3>1. ASSUME NEW l \in Silent, Goto(r, l) PROVE Told'
      <4>1. pc'[r] \in Silent /\ pc'[r] # "Exited"
        BY <3>1 DEF Goto, TypeOK, Silent
      <4> QED
        BY <4>1 DEF Told, Live
    <3>2. ASSUME unseen' = unseen, pc[r] \notin Silent, NEW l, Goto(r, l) PROVE Told'
      <4>1. \A q \in Runs : q # r => pc'[q] = pc[q]
        BY <3>2 DEF Goto, TypeOK
      <4>2. \A q \in Live : pc[q] \in Silent => pc'[q] = pc[q]
        BY <3>2, <4>1 DEF Live
      <4>3. (\E q \in Live : pc[q] \in Silent) => \E q \in Live' : pc'[q] \in Silent
        BY <4>2 DEF Live
      <4> QED
        BY <3>2, <4>3, Zenon DEF Told
    <3>3. CASE \/ RunAnnounce(r) \/ RunRetry(r) \/ RunReconnect(r) \/ SecretAsk(r)
               \/ RunFailErr(r) \/ RemoteListenFails(r) \/ RunPublish(r)
      BY <2>2, <3>3, Zenon
      DEF RunAnnounce, RunRetry, RunReconnect, SetState, SecretAsk, RunFailErr,
          RemoteListenFails, RunPublish
    <3>4. CASE \/ RunClear(r) \/ SecretRejected(r) \/ DialConnects(r) \/ DialSucceeds(r)
               \/ DialNeedsPassword(r) \/ DialFails(r) \/ DialUnknownHost(r)
               \/ RunFailClear(r) \/ PassphraseAccepted(r) \/ DialHops(r)
      <4>1. \E l \in Silent : Goto(r, l)
        BY <3>4
        DEF RunClear, SecretRejected, DialConnects, DialSucceeds, DialNeedsPassword, DialFails,
            DialUnknownHost, RunFailClear, PassphraseAccepted, DialHops, Silent
      <4> QED
        BY <3>1, <4>1
    <3>5. CASE \/ RunKeys(r) \/ SecretGivenUp(r) \/ SecretArrives(r)
               \/ SecretTakenBack(r) \/ SecretGet(r)
      <4>1. \E l \in Silent : Goto(r, l)
        BY <3>5
        DEF RunKeys, SecretGivenUp, SecretArrives, SecretTakenBack, SecretGet, WithSecret,
            WithoutSecret, Silent
      <4> QED
        BY <3>1, <4>1
    <3>6. CASE \/ RunCheck(r) \/ RunBackoff(r) \/ RunServeEnds(r) \/ RunDrop(r)
               \/ RunCloseClient(r) \/ RunRecheck(r) \/ RunPause(r)
      <4>1. pc[r] \notin Silent /\ \E l : Goto(r, l)
        BY <3>6
        DEF RunCheck, RunBackoff, RunServeEnds, RunDrop, RunCloseClient, RunRecheck, RunPause,
            RunSleeps, At, Silent
      <4>2. unseen' = unseen
        BY <3>6, Zenon
        DEF RunCheck, RunBackoff, RunServeEnds, RunDrop, RunCloseClient, RunRecheck, RunPause,
            RunSleeps, OnlyPc
      <4> QED
        BY <3>2, <4>1, <4>2
    <3>7. CASE ConnDrops(r)
      BY <2>1, <3>7, Zenon DEF ConnDrops
    <3> QED
      BY <2>4, <3>3, <3>4, <3>5, <3>6, <3>7, Zenon DEF RunStep, RunInput
  <2>5. CASE BaseCancel \/ UNCHANGED vars
    <3>1. unseen' = unseen /\ pc' = pc
      BY <2>5, Zenon DEF BaseCancel, vars, runVars
    <3> QED
      BY <2>1, <3>1, Zenon
  <2> QED
    BY <2>3, <2>4, <2>5, Zenon DEF Next
<1> QED
  BY <1>1, <1>2, TypeCorrect, PTL DEF Spec

\* Wherever a run loop may rest for long, subscribers know the Status.
THEOREM SubscribersAreTold == Spec => []SubscribersCaughtUp
<1>1. Told => SubscribersCaughtUp
  <2> SUFFICES ASSUME Told, unseen, Quiet, \A r \in Live : pc[r] \in {"Wait", "Serve", "Backoff", "Pause"}
               PROVE  FALSE
    BY Zenon DEF SubscribersCaughtUp
  <2> QED
    BY DEF Told, Silent
<1> QED
  BY <1>1, ToldHolds, PTL

\* A run loop whose dial will take down the prompt for a secret: it is asking
\* for it, or about to give up; one that was cancelled while it asked for a
\* passphrase does not get past the network.
Receives(r, s) ==
    \/ pc[r] = "FailClear"
    \/ /\ pc[r] \in {"Get", "Ask", "Wait", "Try", "Net", "Hop", "Handshake"} /\ asking[r] = s
       /\ pc[r] = "Net" /\ s = "passphrase" => Cancelled(r)
       /\ pc[r] \in {"Hop", "Handshake"} => s # "passphrase"

\* A prompt is up that did not outlive its wait.
Up(s) == pending[s] /\ ~(s = "passphrase" /\ stray)

\* A prompt that is up has a loop that takes it down.
Asked == \A s \in Secrets : Up(s) => \E r \in Live : Receives(r, s)

\* While a passphrase prompt is left over, no loop is about to ask for one.
Strays ==
    stray => \A r \in Live :
        /\ pc[r] # "Keys"
        /\ pc[r] \in {"Get", "Ask", "Wait", "Try"} => asking[r] # "passphrase"

\* A loop that obtains a secret knows which, and tries passphrases only.
Known ==
    \A r \in Runs : /\ pc[r] \in {"Get", "Ask", "Wait", "Try"} => asking[r] \in Secrets
                    /\ pc[r] = "Try" => asking[r] = "passphrase"

\* A loop about to ask again for a secret has seen one more rejected than the
\* tuber displays.
Behind(r) ==
    \A s \in Secrets :
        pc[r] \in {"Get", "Ask"} /\ asking[r] = s /\ pending[s] => attempts[s] < rejects[s]

Hints == HintIsHonest /\ \A r \in Runs : Behind(r)

\* What the run loops know of the prompts, together.
Prompts == Asked /\ Known /\ Hints /\ Strays

\* A dial that has nothing on the screen, of the only loop.
LEMMA NothingAsked ==
    ASSUME OneRunLoop, Asked, NEW r \in Live, \A s \in Secrets : ~Receives(r, s)
    PROVE  \A s \in Secrets : ~Up(s)
<1> SUFFICES ASSUME NEW s \in Secrets, Up(s) PROVE FALSE
  OBVIOUS
<1>1. PICK q \in Live : Receives(q, s)
  BY DEF Asked
<1>2. q = r
  BY DEF OneRunLoop
<1> QED
  BY <1>1, <1>2

\* When no prompt is up or comes up, only what the loop knows is in question.
LEMMA Unprompted ==
    ASSUME TypeOK, \A s \in Secrets : ~Up(s)', Known', HintIsHonest', Strays'
    PROVE  Prompts'
<1>1. Asked'
  BY DEF Asked
<1>2. \A r \in Runs : Behind(r)'
  BY DEF Behind, Strays, Up, Live
<1> QED
  BY <1>1, <1>2 DEF Prompts, Hints

\* The only loop moves, and what it was asking for it still is.
LEMMA Moved ==
    ASSUME TypeOK, OneRunLoop, Prompts, NEW r \in Live, NEW l \in RunPoints \ {"Exited"}, Goto(r, l),
           \A s \in Secrets : Up(s)' => Receives(r, s)',
           stray' => l # "Keys" /\ (l \in {"Get", "Ask", "Wait", "Try"} => asking'[r] # "passphrase"),
           l \in {"Get", "Ask", "Wait", "Try"} => asking'[r] \in Secrets,
           l = "Try" => asking'[r] = "passphrase",
           \A q \in Runs : q # r => asking'[q] = asking[q],
           HintIsHonest', Behind(r)'
    PROVE  Prompts'
<1>1. r \in Runs /\ pc'[r] = l /\ \A q \in Runs : q # r => pc'[q] = pc[q]
  BY DEF Goto, TypeOK, Live
<1>2. r \in Live'
  BY <1>1 DEF Live
<1>3. Asked'
  BY <1>2 DEF Asked
<1>4. Known'
  BY <1>1 DEF Prompts, Known
<1>5. ASSUME NEW q \in Runs PROVE Behind(q)'
  <2>1. CASE q = r
    BY <2>1
  <2>2. CASE q # r
    <3>1. pc'[q] = "Exited"
      BY <1>1, <2>2 DEF OneRunLoop, Live
    <3> QED
      BY <3>1 DEF Behind
  <2> QED
    BY <2>1, <2>2
<1>6. Strays'
  <2>1. \A q \in Live' : q = r
    BY <1>1 DEF OneRunLoop, Live
  <2> QED
    BY <1>1, <2>1 DEF Strays
<1> QED
  BY <1>3, <1>4, <1>5, <1>6 DEF Prompts, Hints

\* The steps of a run loop away from the prompts.
LEMMA QuietRunKeepsPrompts ==
    ASSUME TypeOK, OneRunLoop, Prompts, NEW r \in Runs,
           \/ RunCheck(r) \/ RunAnnounce(r) \/ RunClear(r) \/ RunFailClear(r)
           \/ RunFailErr(r) \/ RemoteListenFails(r) \/ RunBackoff(r)
           \/ RunRetry(r) \/ RunPublish(r) \/ RunServeEnds(r) \/ RunDrop(r)
           \/ RunCloseClient(r) \/ RunRecheck(r) \/ RunReconnect(r) \/ RunPause(r)
    PROVE  Prompts'
<1> DEFINE Out == {"Exited", "Check", "Announce", "Clear", "Keys", "FailErr", "Backoff", "Retry",
                   "Serve", "Drop", "CloseClient", "Recheck", "Reconnect", "Pause"}
<1>1. ASSUME NEW l \in Out, Goto(r, l), asking' = asking, stray' => stray /\ l # "Keys"
      PROVE  Known' /\ Strays'
  <2>1. pc'[r] = l /\ \A q \in Runs : q # r => pc'[q] = pc[q]
    BY <1>1 DEF Goto, TypeOK
  <2> QED
    BY <1>1, <2>1 DEF Prompts, Known, Strays, Live
<1>2. CASE \/ RunCheck(r) \/ RunAnnounce(r) \/ RunFailErr(r) \/ RemoteListenFails(r)
           \/ RunBackoff(r) \/ RunRetry(r) \/ RunPublish(r) \/ RunServeEnds(r) \/ RunDrop(r)
           \/ RunCloseClient(r) \/ RunRecheck(r) \/ RunReconnect(r) \/ RunPause(r)
  <2>1. /\ pc[r] \in Out \cup {"Dialed"} /\ pc[r] # "Exited"
        /\ \E l \in Out \ {"Keys"} : Goto(r, l)
    BY <1>2
    DEF RunCheck, RunAnnounce, RunFailErr, RemoteListenFails, RunBackoff, RunRetry, RunPublish,
        RunServeEnds, RunDrop, RunCloseClient, RunRecheck, RunReconnect, RunPause, RunSleeps, At
  <2>2. UNCHANGED <<asking, pending, attempts, stray, rejects>>
    BY <1>2, Zenon
    DEF RunCheck, RunAnnounce, RunFailErr, RemoteListenFails, RunBackoff, RunRetry, RunPublish,
        RunServeEnds, RunDrop, RunCloseClient, RunRecheck, RunReconnect, RunPause, RunSleeps,
        SetState, OnlyPc, promptVars
  <2>3. r \in Live /\ \A s \in Secrets : ~Receives(r, s)
    BY <2>1 DEF Live, Receives
  <2>4. \A s \in Secrets : ~Up(s)'
    BY <2>2, <2>3, NothingAsked DEF Prompts, Up
  <2>5. Known' /\ Strays'
    BY <1>1, <2>1, <2>2
  <2>6. HintIsHonest'
    BY <2>2 DEF Prompts, Hints, HintIsHonest
  <2> QED
    BY <2>4, <2>5, <2>6, Unprompted
<1>3. CASE RunClear(r) \/ RunFailClear(r)
  <2>1. /\ pending' = NoSecrets /\ attempts' = NoAttempts /\ asking' = asking /\ stray' = FALSE
        /\ Goto(r, "Keys") \/ Goto(r, "FailErr")
    BY <1>3, Zenon DEF RunClear, RunFailClear, ClearPending
  <2>2. rejects' = rejects \/ rejects' = NoAttempts
    BY <1>3, Zenon DEF RunClear, RunFailClear
  <2>3. \A s \in Secrets : ~Up(s)'
    BY <2>1 DEF NoSecrets, Up
  <2>4. HintIsHonest'
    <3>1. \A s \in Secrets : attempts'[s] = 0 /\ rejects'[s] \in Nat
      BY <2>1, <2>2, BoundAssumption DEF NoAttempts, TypeOK
    <3> QED
      BY <3>1 DEF HintIsHonest
  <2>5. Known' /\ Strays'
    BY <1>1, <2>1
  <2> QED
    BY <2>3, <2>4, <2>5, Unprompted
<1> QED
  BY <1>2, <1>3

\* The steps of a dial: what it puts on the screen it answers for.
LEMMA DialKeepsPrompts ==
    ASSUME TypeOK, OneRunLoop, Prompts, NEW r \in Runs,
           \/ RunKeys(r) \/ SecretGet(r) \/ SecretAsk(r) \/ SecretGivenUp(r) \/ SecretArrives(r)
           \/ PassphraseAccepted(r) \/ SecretRejected(r) \/ DialConnects(r) \/ DialSucceeds(r)
           \/ DialNeedsPassword(r) \/ DialFails(r) \/ DialUnknownHost(r)
           \/ SecretTakenBack(r) \/ DialHops(r)
    PROVE  Prompts'
<1> USE DEF At
<1>1. r \in Live
  BY DEF RunKeys, SecretGet, SecretAsk, SecretGivenUp, SecretArrives, PassphraseAccepted,
         SecretRejected, DialConnects, DialSucceeds, DialNeedsPassword, DialFails,
         DialUnknownHost, SecretTakenBack, DialHops, Live
<1>2. \A s \in Secrets : Up(s) => Receives(r, s)
  <2> SUFFICES ASSUME NEW s \in Secrets, Up(s) PROVE Receives(r, s)
    OBVIOUS
  <2>1. PICK q \in Live : Receives(q, s)
    BY DEF Prompts, Asked
  <2>2. q = r
    BY <1>1 DEF OneRunLoop
  <2> QED
    BY <2>1, <2>2
<1>3. /\ pc[r] \in {"Get", "Ask", "Wait", "Try"} => asking[r] \in Secrets
      /\ pc[r] = "Try" => asking[r] = "passphrase"
      /\ stray => /\ pc[r] # "Keys"
                  /\ pc[r] \in {"Get", "Ask", "Wait", "Try"} => asking[r] # "passphrase"
  BY <1>1 DEF Prompts, Known, Strays
<1>4. HintIsHonest /\ Behind(r)
  BY DEF Prompts, Hints
<1>5. Secrets \subseteq {"passphrase", "password"} /\ pc \in [Runs -> RunPoints]
      /\ asking \in [Runs -> Secrets \cup {"none"}] /\ pending \in [Secrets -> BOOLEAN]
      /\ attempts \in [Secrets -> Nat] /\ rejects \in [Secrets -> 0 .. MaxRejects]
  BY SecretAssumption DEF TypeOK
<1> DEFINE Points ==
        {"Get", "Ask", "Wait", "Try", "Net", "Hop", "Handshake", "Dialed", "FailClear"}
<1>6. ASSUME NEW l \in Points, Goto(r, l)
      PROVE  l \in RunPoints \ {"Exited"} /\ pc'[r] = l
  BY <1>5, <1>6 DEF Goto, RunPoints
<1>7. ASSUME UNCHANGED <<pending, attempts, rejects>> PROVE HintIsHonest'
  BY <1>4, <1>7 DEF HintIsHonest
<1>8. ASSUME pc'[r] \notin {"Get", "Ask"} PROVE Behind(r)'
  BY <1>8 DEF Behind
<1>9. ASSUME UNCHANGED <<asking, pending, attempts, stray, rejects, ctxDone, baseDone>>,
             NEW l \in Points, Goto(r, l),
             \A s \in Secrets : Receives(r, s) => Receives(r, s)',
             l \in {"Get", "Ask", "Wait", "Try"} => asking[r] \in Secrets,
             l = "Try" => asking[r] = "passphrase",
             l \in {"Get", "Ask", "Wait", "Try"} => pc[r] \in {"Get", "Ask", "Wait", "Try"},
             l \notin {"Get", "Ask"} \/ pc[r] \in {"Get", "Ask"}
      PROVE  Prompts'
  <2>1. \A s \in Secrets : Up(s)' => Receives(r, s)'
    BY <1>2, <1>9 DEF Up
  <2>2. Behind(r)'
    BY <1>4, <1>6, <1>9 DEF Behind
  <2> QED
    BY <1>1, <1>3, <1>6, <1>7, <1>9, <2>1, <2>2, Moved
<1>10. CASE RunKeys(r)
  <2>1. PICK l \in {"Net", "Get"} : Goto(r, l) /\ (l = "Get" => "passphrase" \in Secrets /\ asking' = [asking EXCEPT ![r] = "passphrase"])
    BY <1>10 DEF RunKeys
  <2>2. UNCHANGED <<pending, attempts, stray, rejects>>
        /\ \A q \in Runs : q # r => asking'[q] = asking[q]
    BY <1>5, <1>10 DEF RunKeys, promptVars
  <2>3. pc[r] = "Keys" /\ ~stray
    BY <1>3, <1>10 DEF RunKeys
  <2>4. \A s \in Secrets : ~pending[s]
    BY <1>2, <2>3 DEF Receives, Up
  <2>5. \A s \in Secrets : ~pending'[s]
    BY <2>2, <2>4
  <2>6. Behind(r)'
    BY <2>5 DEF Behind
  <2>7. l = "Get" => asking'[r] \in Secrets
    BY <1>1, <1>5, <2>1 DEF Live
  <2>8. l \in Points
    BY <2>1
  <2> QED
    BY <1>1, <1>6, <1>7, <2>1, <2>2, <2>3, <2>5, <2>6, <2>7, <2>8, Moved DEF Up
<1>11. CASE SecretGet(r)
  <2>1. pc[r] = "Get" /\ asking[r] \in Secrets
    BY <1>3, <1>11 DEF SecretGet
  <2>2. UNCHANGED <<asking, pending, attempts, stray, rejects, ctxDone, baseDone>>
    BY <1>11, Zenon DEF SecretGet, OnlyPc, promptVars
  <2>3. CASE Cancelled(r) /\ Goto(r, WithoutSecret(r))
    <3>1. PICK l \in {"FailClear", "Net"} : Goto(r, l)
      BY <2>3 DEF WithoutSecret
    <3>2. pc'[r] = l /\ Cancelled(r)'
      BY <1>6, <2>2, <2>3, <3>1 DEF Cancelled
    <3>3. \A s \in Secrets : Receives(r, s) => Receives(r, s)'
      BY <2>1, <2>2, <3>2 DEF Receives
    <3> QED
      BY <1>9, <2>2, <3>1, <3>3
  <2>4. CASE Goto(r, WithSecret(r))
    <3>1. PICK l \in {"Net", "Try"} : Goto(r, l) /\ (l = "Net" => asking[r] = "password")
                                      /\ (l = "Try" => asking[r] # "password")
      BY <2>4 DEF WithSecret
    <3>2. pc'[r] = l
      BY <1>6, <3>1
    <3>3. \A s \in Secrets : Receives(r, s) => Receives(r, s)'
      BY <2>1, <2>2, <3>1, <3>2 DEF Receives
    <3>4. l = "Try" => asking[r] = "passphrase"
      BY <1>5, <2>1, <3>1
    <3> QED
      BY <1>9, <2>1, <2>2, <3>1, <3>3, <3>4
  <2>5. CASE Goto(r, "Ask")
    <3>1. \A s \in Secrets : Receives(r, s) => Receives(r, s)'
      BY <1>6, <2>1, <2>2, <2>5 DEF Receives
    <3> QED
      BY <1>9, <2>1, <2>2, <2>5, <3>1
  <2> QED
    BY <1>11, <2>3, <2>4, <2>5 DEF SecretGet
<1>12. CASE SecretAsk(r)
  <2> DEFINE a == asking[r]
  <2>1. /\ pc[r] = "Ask" /\ a \in Secrets /\ Goto(r, "Wait") /\ asking' = asking /\ rejects' = rejects
        /\ pending' = [pending EXCEPT ![a] = TRUE] /\ stray' = stray
        /\ attempts' = IF pending[a] THEN [attempts EXCEPT ![a] = @ + 1] ELSE attempts
    BY <1>3, <1>12 DEF SecretAsk
  <2>2. \A s \in Secrets : Up(s)' => Up(s) \/ s = a
    BY <1>5, <2>1 DEF Up
  <2>3. pc'[r] = "Wait"
    BY <1>6, <2>1
  <2>4. \A s \in Secrets : Up(s)' => Receives(r, s)'
    BY <1>2, <2>1, <2>2, <2>3 DEF Receives
  <2>5. HintIsHonest'
    <3> SUFFICES ASSUME NEW s \in Secrets PROVE attempts'[s] <= rejects'[s]
      BY DEF HintIsHonest
    <3>1. attempts[s] <= rejects[s] /\ attempts[s] \in Nat /\ rejects[s] \in Nat
      BY <1>4, <1>5, BoundAssumption DEF HintIsHonest
    <3>2. CASE s = a /\ pending[a]
      <4>1. attempts[s] < rejects[s]
        BY <1>4, <2>1, <3>2 DEF Behind
      <4>2. attempts'[s] = attempts[s] + 1
        BY <1>5, <2>1, <3>2
      <4> QED
        BY <2>1, <3>1, <4>1, <4>2
    <3>3. CASE ~(s = a /\ pending[a])
      <4>1. attempts'[s] = attempts[s]
        BY <1>5, <2>1, <3>3
      <4> QED
        BY <2>1, <3>1, <4>1
    <3> QED
      BY <3>2, <3>3
  <2>6. Behind(r)'
    BY <1>8, <2>3
  <2> QED
    BY <1>1, <1>3, <1>6, <2>1, <2>4, <2>5, <2>6, Moved
<1>13. CASE SecretArrives(r) \/ SecretGivenUp(r)
  <2>1. pc[r] = "Wait" /\ asking[r] \in Secrets
    BY <1>3, <1>13 DEF SecretArrives, SecretGivenUp
  <2>2. UNCHANGED <<asking, pending, attempts, stray, rejects, ctxDone, baseDone>>
    BY <1>13, Zenon DEF SecretArrives, SecretGivenUp, OnlyPc, promptVars
  <2>3. CASE Cancelled(r) /\ Goto(r, WithoutSecret(r))
    <3>1. PICK l \in {"FailClear", "Net"} : Goto(r, l)
      BY <2>3 DEF WithoutSecret
    <3>2. pc'[r] = l /\ Cancelled(r)'
      BY <1>6, <2>2, <2>3, <3>1 DEF Cancelled
    <3>3. \A s \in Secrets : Receives(r, s) => Receives(r, s)'
      BY <2>1, <2>2, <3>2 DEF Receives
    <3> QED
      BY <1>9, <2>2, <3>1, <3>3
  <2>4. CASE Goto(r, WithSecret(r))
    <3>1. PICK l \in {"Net", "Try"} : Goto(r, l) /\ (l = "Net" => asking[r] = "password")
                                      /\ (l = "Try" => asking[r] # "password")
      BY <2>4 DEF WithSecret
    <3>2. pc'[r] = l
      BY <1>6, <3>1
    <3>3. \A s \in Secrets : Receives(r, s) => Receives(r, s)'
      BY <2>1, <2>2, <3>1, <3>2 DEF Receives
    <3>4. l = "Try" => asking[r] = "passphrase"
      BY <1>5, <2>1, <3>1
    <3> QED
      BY <1>9, <2>1, <2>2, <3>1, <3>3, <3>4
  <2> QED
    BY <1>13, <2>3, <2>4 DEF SecretArrives, SecretGivenUp
<1>14. CASE PassphraseAccepted(r)
  <2>1. /\ pc[r] = "Try" /\ asking[r] = "passphrase" /\ Goto(r, "Net")
        /\ pending' = [pending EXCEPT !["passphrase"] = FALSE] /\ stray' = FALSE
        /\ UNCHANGED <<asking, attempts, rejects>>
    BY <1>3, <1>14, Zenon DEF PassphraseAccepted
  <2>2. \A s \in Secrets : Up(s)' => Up(s) /\ s # "passphrase"
    BY <1>5, <2>1 DEF Up
  <2>3. \A s \in Secrets : ~Up(s)'
    BY <1>2, <2>1, <2>2 DEF Receives
  <2>4. HintIsHonest'
    BY <1>4, <2>1 DEF HintIsHonest
  <2>5. Behind(r)'
    BY <1>6, <1>8, <2>1
  <2> QED
    BY <1>1, <1>6, <2>1, <2>3, <2>4, <2>5, Moved
<1>15. CASE SecretRejected(r)
  <2> DEFINE a == asking[r]
  <2>1. /\ pc[r] = "Try" \/ (pc[r] = "Handshake" /\ a = "password")
        /\ Goto(r, "Get") /\ rejects' = [rejects EXCEPT ![a] = @ + 1]
        /\ UNCHANGED <<asking, pending, attempts, stray>>
    BY <1>15, Zenon DEF SecretRejected, promptVars
  <2>2. pc'[r] = "Get"
    BY <1>6, <2>1
  <2>3. a \in Secrets
    BY <1>3, <1>5, <2>1
  <2>4. \A s \in Secrets : Up(s)' => Receives(r, s)'
    BY <1>2, <2>1, <2>2 DEF Receives, Up
  <2>5. \A s \in Secrets : attempts[s] <= rejects[s] /\ attempts[s] \in Nat /\ rejects[s] \in Nat
    BY <1>4, <1>5, BoundAssumption DEF HintIsHonest
  <2>6. \A s \in Secrets : rejects'[s] = IF s = a THEN rejects[s] + 1 ELSE rejects[s]
    BY <1>5, <2>1
  <2>7. HintIsHonest' /\ Behind(r)'
    BY <2>1, <2>5, <2>6 DEF HintIsHonest, Behind
  <2> QED
    BY <1>1, <1>3, <1>6, <2>1, <2>2, <2>3, <2>4, <2>7, Moved
<1>16. CASE DialConnects(r)
  <2>1. pc[r] = "Net" /\ ~Cancelled(r) /\ \E l \in {"Hop", "Handshake"} : Goto(r, l)
    BY <1>16 DEF DialConnects
  <2>2. UNCHANGED <<asking, pending, attempts, stray, rejects, ctxDone, baseDone>>
    BY <1>16, Zenon DEF DialConnects, OnlyPc, promptVars
  <2>3. PICK l \in {"Hop", "Handshake"} : Goto(r, l)
    BY <2>1
  <2>4. pc'[r] = l
    BY <1>6, <2>3
  <2>5. \A s \in Secrets : Receives(r, s) => Receives(r, s)'
    BY <2>1, <2>2, <2>4 DEF Receives
  <2> QED
    BY <1>9, <2>2, <2>3, <2>5
<1>20. CASE DialHops(r)
  <2>1. pc[r] = "Hop" /\ Goto(r, "Handshake")
    BY <1>20 DEF DialHops
  <2>2. UNCHANGED <<asking, pending, attempts, stray, rejects, ctxDone, baseDone>>
    BY <1>20, Zenon DEF DialHops, OnlyPc, promptVars
  <2>3. \A s \in Secrets : Receives(r, s) => Receives(r, s)'
    BY <1>6, <2>1, <2>2 DEF Receives
  <2> QED
    BY <1>9, <2>1, <2>2, <2>3
<1>21. CASE SecretTakenBack(r)
  <2>1. /\ pc[r] = "Wait" /\ Goto(r, WithoutSecret(r)) /\ asking[r] \in Secrets
        /\ stray' = (stray \/ (asking[r] = "passphrase" /\ pending["passphrase"]))
        /\ UNCHANGED <<asking, pending, attempts, rejects, ctxDone, baseDone>>
    BY <1>3, <1>21, Zenon DEF SecretTakenBack
  <2>2. PICK l \in {"FailClear", "Net"} :
            Goto(r, l) /\ (l = "Net" => asking[r] = "passphrase")
    BY <1>5, <2>1 DEF WithoutSecret
  <2>3. pc'[r] = l
    BY <1>6, <2>2
  <2>4. \A s \in Secrets : Up(s)' => Receives(r, s)'
    <3>1. CASE l = "FailClear"
      BY <2>3, <3>1 DEF Receives
    <3>2. CASE l = "Net"
      <4>1. \A s \in Secrets : Up(s)' => s # "passphrase" /\ Up(s)
        BY <2>1, <2>2, <3>2 DEF Up
      <4>2. \A s \in Secrets : Up(s) => s = "passphrase"
        BY <1>2, <2>1, <2>2, <3>2 DEF Receives
      <4> QED
        BY <4>1, <4>2
    <3> QED
      BY <3>1, <3>2
  <2>5. HintIsHonest' /\ Behind(r)'
    BY <1>7, <1>8, <2>1, <2>3
  <2> QED
    BY <1>1, <1>6, <2>1, <2>2, <2>3, <2>4, <2>5, Moved
<1>17. CASE DialSucceeds(r)
  <2>1. /\ pc[r] = "Handshake" /\ Goto(r, "Dialed")
        /\ UNCHANGED <<asking, attempts, stray, rejects>>
        /\ IF asking[r] = "password" THEN pending' = [pending EXCEPT !["password"] = FALSE]
                                     ELSE pending' = pending
    BY <1>17, Zenon DEF DialSucceeds
  <2>2. \A s \in Secrets : Up(s)' => Up(s) /\ (asking[r] = "password" => s # "password")
    BY <1>5, <2>1 DEF Up
  <2>3. \A s \in Secrets : ~Up(s)'
    BY <1>2, <1>5, <2>1, <2>2 DEF Receives
  <2>4. HintIsHonest'
    BY <1>4, <2>1 DEF HintIsHonest
  <2>5. Behind(r)'
    BY <1>6, <1>8, <2>1
  <2> QED
    BY <1>1, <1>6, <2>1, <2>3, <2>4, <2>5, Moved
<1>18. CASE DialNeedsPassword(r)
  <2>1. /\ pc[r] \in {"Hop", "Handshake"} /\ asking[r] # "password"
        /\ "password" \in Secrets /\ Goto(r, "Get")
        /\ asking' = [asking EXCEPT ![r] = "password"]
        /\ UNCHANGED <<pending, attempts, stray, rejects>>
    BY <1>18, Zenon DEF DialNeedsPassword, promptVars
  <2>2. \A s \in Secrets : ~Up(s)
    BY <1>2, <1>5, <2>1 DEF Receives
  <2>3. \A s \in Secrets : ~Up(s)'
    BY <2>1, <2>2 DEF Up
  <2>4. /\ asking'[r] = "password" /\ asking'[r] \in Secrets
        /\ \A q \in Runs : q # r => asking'[q] = asking[q]
    BY <1>1, <1>5, <2>1 DEF Live
  <2>5. Behind(r)'
    BY <2>3, <2>4 DEF Behind, Up
  <2> QED
    BY <1>1, <1>6, <1>7, <2>1, <2>3, <2>4, <2>5, Moved
<1>19. CASE DialFails(r) \/ DialUnknownHost(r)
  <2>1. /\ Goto(r, "FailClear")
        /\ UNCHANGED <<asking, pending, attempts, stray, rejects, ctxDone, baseDone>>
    BY <1>19, Zenon DEF DialFails, DialUnknownHost, OnlyPc, promptVars
  <2>2. \A s \in Secrets : Receives(r, s)'
    BY <1>6, <2>1 DEF Receives
  <2> QED
    BY <1>9, <2>1, <2>2
<1> QED
  BY <1>10, <1>11, <1>12, <1>13, <1>14, <1>15, <1>16, <1>17, <1>18, <1>19, <1>20, <1>21

\* Callers take prompts down, and never put one up.
LEMMA CallerKeepsPrompts ==
    ASSUME OneCaller, Owned, Prompts, NEW c \in Callers, CallerStep(c) \/ CallerCalls(c)
    PROVE  Prompts'
<1>1. /\ TypeOK /\ RunOwned /\ SerialInv
      /\ pc \in [Runs -> RunPoints] /\ asking \in [Runs -> Secrets \cup {"none"}]
      /\ attempts \in [Secrets -> Nat] /\ rejects \in [Secrets -> 0 .. MaxRejects]
  BY DEF Owned, TypeOK
<1>2. ASSUME UNCHANGED <<pc, asking, rejects>>, ClearPending PROVE Prompts'
  <2>1. \A s \in Secrets : ~Up(s)' /\ attempts'[s] = 0 /\ rejects'[s] \in Nat
    BY <1>1, <1>2, BoundAssumption DEF ClearPending, NoSecrets, NoAttempts, Up
  <2>2. HintIsHonest'
    BY <2>1 DEF HintIsHonest
  <2>3. Known' /\ Strays'
    BY <1>2 DEF Prompts, Known, Strays, ClearPending
  <2> QED
    BY <1>1, <2>1, <2>2, <2>3, Unprompted
<1>3. ASSUME UNCHANGED <<pc, pending, attempts, stray, rejects, baseDone>>,
             \A r \in Runs : pc[r] # "Exited" => asking'[r] = asking[r],
             \A r \in Runs : pc[r] # "Exited" /\ r \in ctxDone => r \in ctxDone'
      PROVE  Prompts'
  <2>1. \A r \in Live, s \in Secrets : Receives(r, s) => Receives(r, s)'
    BY <1>3 DEF Receives, Cancelled, Live
  <2>2. Live' = Live
    BY <1>3 DEF Live
  <2>3. Asked'
    BY <1>3, <2>1, <2>2 DEF Prompts, Asked, Up
  <2>4. Known' /\ Strays'
    BY <1>3 DEF Prompts, Known, Strays, Live
  <2>5. HintIsHonest'
    BY <1>3 DEF Prompts, Hints, HintIsHonest
  <2>6. \A r \in Runs : Behind(r)'
    BY <1>3 DEF Prompts, Hints, Behind
  <2> QED
    BY <2>3, <2>4, <2>5, <2>6 DEF Prompts, Hints
<1>4. ASSUME NEW r \in Runs, NEW ln, Spawn(r, ln), Starting(c), ~running PROVE Prompts'
  <2>1. Live = {}
    BY <1>1, <1>4 DEF RunOwned, OneCaller, Tearing, Starting
  <2>2. \A s \in Secrets : ~Up(s)
    BY <2>1 DEF Prompts, Asked
  <2>3. /\ UNCHANGED <<asking, pending, attempts, stray, rejects>>
        /\ pc' = [pc EXCEPT ![r] = "Check"]
    BY <1>4, Zenon DEF Spawn, promptVars
  <2>4. Known' /\ Strays'
    BY <1>1, <2>1, <2>3 DEF Prompts, Known, Strays, Live
  <2>5. HintIsHonest'
    BY <2>3 DEF Prompts, Hints, HintIsHonest
  <2>6. \A s \in Secrets : ~Up(s)'
    BY <2>2, <2>3 DEF Up
  <2> QED
    BY <1>1, <2>4, <2>5, <2>6, Unprompted
<1>5. ASSUME NEW b, StopRunning(c, b) PROVE Prompts'
  BY <1>2, <1>5, Zenon DEF StopRunning, runVars
<1>6. ASSUME UNCHANGED <<promptVars, runVars, baseDone, rejects>> PROVE Prompts'
  BY <1>3, <1>6 DEF promptVars, runVars
<1>7. ASSUME NEW b, StopIdle(c, b) PROVE Prompts'
  <2>1. /\ UNCHANGED <<runVars, baseDone, rejects>>
        /\ ClearPending \/ UNCHANGED promptVars
    BY <1>7, Zenon DEF StopIdle
  <2> QED
    BY <1>2, <1>6, <2>1, Zenon DEF runVars
<1>8. CASE StartBindFails(c) \/ StartRefused(c)
  BY <1>6, <1>8, Zenon DEF StartBindFails, StartRefused
<1>9. CASE StopCancel(c)
  BY <1>3, <1>9 DEF StopCancel, promptVars
<1>10. CASE StopCloseListener(c) \/ StopCloseClient(c)
  BY <1>3, <1>10 DEF StopCloseListener, StopCloseClient, promptVars
<1>11. CASE StopReturns(c)
  <2>1. PICK q : /\ q \notin Live /\ asking' = [asking EXCEPT ![q] = "none"]
                 /\ ctxDone' = ctxDone \ {q}
                 /\ UNCHANGED <<pc, pending, attempts, stray, rejects, baseDone>>
    BY <1>11 DEF StopReturns, promptVars
  <2>2. \A r \in Runs : pc[r] # "Exited" => r # q
    BY <2>1 DEF Live
  <2>3. \A r \in Runs : pc[r] # "Exited" => asking'[r] = asking[r]
    BY <1>1, <2>1, <2>2
  <2> QED
    BY <1>3, <2>1, <2>2, <2>3
<1>12. CASE Reconfigure(c)
  <2>1. /\ UNCHANGED <<runVars, baseDone, rejects>>
        /\ ClearPending \/ UNCHANGED promptVars
    BY <1>12, Zenon DEF Reconfigure
  <2> QED
    BY <1>2, <1>6, <2>1, Zenon DEF runVars
<1> QED
  BY <1>4, <1>5, <1>7, <1>8, <1>9, <1>10, <1>11, <1>12
  DEF CallerStep, CallerCalls, Stop, Restart, StartRemote, StartLocal, StartWith, Starting

\* With one caller a prompt is always somebody's, and what it says of earlier
\* attempts is so.
LEMMA PromptsHold ==
    ASSUME OneCaller
    PROVE  Spec => []Prompts
<1>1. Init => Prompts
  <2> SUFFICES ASSUME Init PROVE Prompts
    OBVIOUS
  <2>1. stray = FALSE /\ \A s \in Secrets : ~pending[s] /\ attempts[s] = 0 /\ rejects[s] = 0
    BY DEF Init, NoSecrets, NoAttempts
  <2>2. \A r \in Runs : pc[r] = "Exited"
    BY DEF Init
  <2> QED
    BY <2>1, <2>2 DEF Prompts, Asked, Up, Known, Hints, HintIsHonest, Behind, Strays
<1>2. Owned /\ OneRunLoop /\ Prompts /\ [Next]_vars => Prompts'
  <2> SUFFICES ASSUME Owned, OneRunLoop, Prompts, [Next]_vars PROVE Prompts'
    OBVIOUS
  <2>1. TypeOK
    BY DEF Owned
  <2>2. ASSUME NEW r \in Runs, RunStep(r) \/ RunInput(r) PROVE Prompts'
    <3>1. CASE ConnDrops(r)
      <4>1. UNCHANGED <<pc, asking, pending, attempts, stray, rejects, ctxDone, baseDone>>
        BY <3>1, Zenon DEF ConnDrops, promptVars
      <4> QED
        BY <4>1
        DEF Prompts, Asked, Up, Known, Hints, HintIsHonest, Behind, Strays, Receives, Cancelled, Live
    <3> QED
      BY <2>1, <2>2, <3>1, QuietRunKeepsPrompts, DialKeepsPrompts DEF RunStep, RunInput
  <2>3. CASE BaseCancel \/ UNCHANGED vars
    <3>1. /\ UNCHANGED <<pc, asking, pending, attempts, stray, rejects, ctxDone>>
          /\ baseDone' = baseDone \/ baseDone' = TRUE
      BY <2>3, Zenon DEF BaseCancel, vars, promptVars, runVars
    <3>2. \A r \in Runs : Cancelled(r) => Cancelled(r)'
      BY <3>1 DEF Cancelled
    <3>3. \A r \in Live, s \in Secrets : Receives(r, s) => Receives(r, s)'
      BY <3>1, <3>2 DEF Receives, Live
    <3>4. Live' = Live
      BY <3>1 DEF Live
    <3>5. Asked'
      BY <3>1, <3>3, <3>4 DEF Prompts, Asked, Up
    <3>6. Known' /\ Hints' /\ Strays'
      BY <3>1, <3>4 DEF Prompts, Known, Hints, HintIsHonest, Behind, Strays
    <3> QED
      BY <3>5, <3>6 DEF Prompts
  <2> QED
    BY <2>2, <2>3, CallerKeepsPrompts DEF Next
<1> QED
  BY <1>1, <1>2, OwnedHolds, OneLoopAtATime, PTL DEF Spec

\* With one caller what Status shows is true: no error without a message and no
\* stale one, no prompt without a dial that takes it down, but for a passphrase
\* prompt whose wait came back empty-handed (passphrase.go:67-69), no rejection
\* that did not happen, and subscribers that know it wherever a loop rests
\* (tuber.go:206-255, 299-390, 541-690).
THEOREM StatusIsTrue ==
    ASSUME OneCaller
    PROVE  Spec => []StatusIsHonest
<1>1. Prompts => PromptHasAsker /\ HintIsHonest
  BY SecretAssumption DEF Prompts, Asked, Up, Receives, Asks, Hints, PromptHasAsker
<1> QED
  BY <1>1, PromptsHold, ErrorIsShown, SubscribersAreTold, PTL DEF StatusIsHonest
==============================================================================

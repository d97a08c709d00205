-------------------------- MODULE SecretStoreProofs --------------------------
(* Proofs about SecretStore for any number of dials and any secrets.        *)
EXTENDS SecretStore, TLAPS

LEMMA DialKeepsTypes ==
    ASSUME TypeOK, NEW d \in Dials, DialStep(d) \/ DialStarts(d) \/ DialCancelled(d)
    PROVE  TypeOK'
<1> USE DEF At, Goto, Enter, Obtain, Return, Found, Missed, Values, DialPoints, Phases,
            Results, storeVars, dialVars, handlerVars
<1>1. CASE DialStarts(d) \/ DialCancelled(d)
  BY <1>1 DEF TypeOK, DialStarts, DialCancelled
<1>2. CASE Check(d)
  BY <1>2 DEF TypeOK, Check
<1>3. CASE GetCache(d) \/ ReadKeyring(d)
  BY <1>3 DEF TypeOK, GetCache, ReadKeyring
<1>4. CASE CacheKeyring(d)
  BY <1>4 DEF TypeOK, CacheKeyring
<1>5. CASE Register(d) \/ Awakened(d) \/ WaitCancelled(d)
  BY <1>5 DEF TypeOK, Register, Awakened, WaitCancelled
<1>6. CASE Unregister(d)
  BY <1>6 DEF TypeOK, Unregister
<1>7. CASE Try(d)
  BY <1>7 DEF TypeOK, Try
<1>8. CASE Forget(d) \/ ForgetKeyring(d)
  BY <1>8 DEF TypeOK, Forget, ForgetKeyring
<1> QED
  BY <1>1, <1>2, <1>3, <1>4, <1>5, <1>6, <1>7, <1>8 DEF DialStep

LEMMA HandlerKeepsTypes ==
    ASSUME TypeOK,
           \/ HandlerStep
           \/ ForgetIdentity
           \/ \E v \in Secrets : SetSecret(v)
           \/ \E v \in Values : CliWritesKeyring(v)
    PROVE  TypeOK'
<1> USE OpsAssumption
    DEF TypeOK, UserActs, Values, HandlerPoints, storeVars, dialVars, handlerVars
<1>1. CASE Wake \/ Persist
  BY <1>1 DEF Wake, Persist
<1>2. CASE ClearKeyring
  BY <1>2 DEF ClearKeyring
<1>3. CASE ForgetIdentity
  BY <1>3 DEF ForgetIdentity
<1>4. ASSUME NEW v \in Secrets, SetSecret(v)
      PROVE  TypeOK'
  <2>1. ops' \in 0..MaxOps
    BY <1>4 DEF SetSecret
  <2>2. /\ hpc' = "Wake" /\ hval' = v /\ cache' = v /\ waking' = waiters /\ waiters' = {}
        /\ UNCHANGED <<keyring, woken, dialVars>>
    BY <1>4, Zenon DEF SetSecret
  <2> QED
    BY <2>1, <2>2
<1>5. ASSUME NEW v \in Values, CliWritesKeyring(v)
      PROVE  TypeOK'
  <2>1. ops' \in 0..MaxOps
    BY <1>5 DEF CliWritesKeyring
  <2>2. /\ keyring' = v
        /\ UNCHANGED <<cache, waiters, woken, dialVars, handlerVars>>
    BY <1>5, Zenon DEF CliWritesKeyring
  <2> QED
    BY <2>1, <2>2
<1> QED
  BY <1>1, <1>2, <1>3, <1>4, <1>5 DEF HandlerStep

\* Every variable keeps its type.
THEOREM TypeCorrect == Spec => []TypeOK
<1>1. Init => TypeOK
  <2> SUFFICES ASSUME Init
               PROVE  TypeOK
    OBVIOUS
  <2> USE DEF Init, Values
  <2>1. /\ pc \in [Dials -> DialPoints] /\ phase \in [Dials -> Phases]
        /\ pass \in [Dials -> Values] /\ result \in [Dials -> Results]
    BY DEF DialPoints, Phases, Results
  <2>2. ops \in 0..MaxOps /\ hpc \in HandlerPoints
    BY OpsAssumption DEF HandlerPoints
  <2> QED
    BY <2>1, <2>2 DEF TypeOK
<1>2. TypeOK /\ [Next]_vars => TypeOK'
  <2>1. TypeOK /\ UNCHANGED vars => TypeOK'
    BY DEF TypeOK, vars, storeVars, dialVars, handlerVars
  <2> QED
    BY <2>1, DialKeepsTypes, HandlerKeepsTypes DEF Next
<1> QED
  BY <1>1, <1>2, PTL DEF Spec

-----------------------------------------------------------------------------
(* The waiters.                                                             *)

\* A woken Wait is in its Get, or about to remove its channel; and a Set that
\* is over has no channel left to close.
PhaseInv ==
    /\ \A d \in Dials :
           phase[d] = "Woken" => pc[d] \in {"Get", "ReadKeyring", "Cache", "Unregister"}
    /\ hpc # "Wake" => waking = {}

\* Steps of a dial that neither enter nor leave Wait.
LEMMA DialKeepsWaiters ==
    ASSUME TypeOK, PhaseInv, WaitersExact, NEW d \in Dials,
           DialStep(d) \/ DialStarts(d) \/ DialCancelled(d)
    PROVE  PhaseInv' /\ WaitersExact'
<1> USE DEF At, Goto, Enter, Obtain, Return, Found, Missed, PhaseInv, WaitersExact, Waiting,
            storeVars, dialVars, handlerVars
<1>1. CASE DialStarts(d) \/ DialCancelled(d)
  BY <1>1 DEF TypeOK, DialStarts, DialCancelled
<1>2. CASE Check(d)
  BY <1>2 DEF TypeOK, Check
<1>3. CASE GetCache(d)
  BY <1>3 DEF TypeOK, GetCache
<1>4. CASE ReadKeyring(d)
  BY <1>4 DEF TypeOK, ReadKeyring
<1>5. CASE CacheKeyring(d)
  BY <1>5 DEF TypeOK, CacheKeyring
<1>6. CASE Register(d)
  BY <1>6 DEF TypeOK, Register
<1>7. CASE Awakened(d) \/ WaitCancelled(d)
  BY <1>7 DEF TypeOK, Awakened, WaitCancelled
<1>8. CASE Unregister(d)
  <2>1. /\ waiters' \cup waking' \cup woken' = (waiters \cup waking \cup woken) \ {d}
        /\ phase'[d] = "Loop" /\ pc'[d] \in {"Try", "Idle"}
        /\ \A e \in Dials \ {d} : pc'[e] = pc[e] /\ phase'[e] = phase[e]
        /\ waking' = waking \ {d} /\ hpc' = hpc
    BY <1>8 DEF TypeOK, Unregister
  <2>2. PhaseInv'
    BY <2>1
  <2>3. {e \in Dials : Waiting(e)'} = {e \in Dials : Waiting(e)} \ {d}
    BY <2>1
  <2> QED
    BY <2>1, <2>2, <2>3
<1>9. CASE Try(d)
  BY <1>9 DEF TypeOK, Try
<1>10. CASE Forget(d) \/ ForgetKeyring(d)
  BY <1>10 DEF TypeOK, Forget, ForgetKeyring
<1> QED
  BY <1>1, <1>2, <1>3, <1>4, <1>5, <1>6, <1>7, <1>8, <1>9, <1>10 DEF DialStep

LEMMA WaitersHold == Spec => [](PhaseInv /\ WaitersExact)
<1>1. Init => PhaseInv /\ WaitersExact
  BY DEF Init, PhaseInv, WaitersExact, Waiting
<1>2. TypeOK /\ PhaseInv /\ WaitersExact /\ [Next]_vars => (PhaseInv /\ WaitersExact)'
  <2> SUFFICES ASSUME TypeOK, PhaseInv, WaitersExact, [Next]_vars
               PROVE  PhaseInv' /\ WaitersExact'
    OBVIOUS
  <2>1. ASSUME UNCHANGED <<pc, phase>>, hpc' # "Wake" => waking' = {},
               waiters' \cup waking' \cup woken' = waiters \cup waking \cup woken
        PROVE  PhaseInv' /\ WaitersExact'
    BY <2>1 DEF PhaseInv, WaitersExact, Waiting
  <2>2. CASE Wake
    BY <2>1, <2>2 DEF Wake, dialVars
  <2>3. ASSUME NEW v \in Secrets, SetSecret(v)
        PROVE  PhaseInv' /\ WaitersExact'
    <3>1. /\ hpc = "Idle" /\ hpc' = "Wake" /\ waking' = waiters /\ waiters' = {}
          /\ UNCHANGED <<woken, pc, phase>>
      BY <2>3 DEF SetSecret, dialVars
    <3>2. waking = {}
      BY <3>1 DEF PhaseInv
    <3> QED
      BY <2>1, <3>1, <3>2
  <2>4. CASE \/ Persist \/ ClearKeyring \/ ForgetIdentity \/ UNCHANGED vars
             \/ \E v \in Values : CliWritesKeyring(v)
    <3>1. UNCHANGED <<pc, phase, waiters, waking, woken>>
      BY <2>4, Zenon
      DEF Persist, ClearKeyring, ForgetIdentity, CliWritesKeyring, vars, storeVars, dialVars,
          handlerVars
    <3>2. hpc # "Wake" \/ hpc' = hpc
      BY <2>4
      DEF Persist, ClearKeyring, ForgetIdentity, CliWritesKeyring, vars, handlerVars
    <3> QED
      BY <2>1, <3>1, <3>2 DEF PhaseInv
  <2> QED
    BY <2>2, <2>3, <2>4, DialKeepsWaiters DEF Next, HandlerStep
<1> QED
  BY <1>1, <1>2, TypeCorrect, PTL DEF Spec

\* No wait is lost or leaked, whatever number of tubers share the key:
\* Register, removeWaiter and setCacheAndWake keep the waiters exact
\* (secret.go:122-198).
THEOREM WaitersAreExact == Spec => []WaitersExact
  BY WaitersHold, PTL
=============================================================================

---------------------------- MODULE DaemonProofs ----------------------------
(* Proofs about Daemon for every set of names, ports, edits and requests.   *)
EXTENDS Daemon, SequenceTheorems, WellFoundedInduction, TLAPS

-----------------------------------------------------------------------------
(* Lists of tubers.                                                          *)

\* A list of tubers names n once, with its flag at on.
Holds(s, n, on) ==
    \E i \in DOMAIN s : /\ s[i].name = n /\ s[i].enabled = on
                        /\ \A j \in DOMAIN s : s[j].name = n => j = i

\* A set of numbers that is not empty has a least element.
LEMMA LeastExists ==
    ASSUME NEW T, T \subseteq Nat, T # {}
    PROVE  Min(T) \in T
<1>1. PICK x \in T : \A y \in T : <<y, x>> \notin OpToRel(<, Nat)
  BY NatLessThanWellFounded, WFMin
<1>2. \A y \in T : ~(y < x)
  BY <1>1 DEF OpToRel
<1>3. \A y \in T : x =< y
  BY <1>2
<1> QED
  BY <1>3 DEF Min

\* IndexOf finds a tuber of that name, if there is one.
LEMMA IndexOfNamed ==
    ASSUME NEW s \in Seq(Entry), NEW n \in NamesIn(s)
    PROVE  IndexOf(s, n) \in 1..Len(s) /\ s[IndexOf(s, n)].name = n
<1> DEFINE I == {k \in 1..Len(s) : s[k].name = n}
<1>1. I # {} /\ I \subseteq Nat
  BY LenProperties DEF NamesIn
<1>2. IndexOf(s, n) = Min(I)
  BY <1>1 DEF IndexOf, SelectInSeq
<1>3. Min(I) \in I
  BY <1>1, LeastExists
<1> QED
  BY <1>2, <1>3

\* It finds the one tuber of that name.
LEMMA HoldsNamed ==
    ASSUME NEW s \in Seq(Entry), NEW n, NEW on, Holds(s, n, on)
    PROVE  n \in NamesIn(s) /\ Named(s, n).enabled = on
<1>1. n \in NamesIn(s)
  BY DEF Holds, NamesIn
<1>2. IndexOf(s, n) \in DOMAIN s /\ s[IndexOf(s, n)].name = n
  BY <1>1, IndexOfNamed, LenProperties
<1> QED
  BY <1>1, <1>2 DEF Holds, Named

LEMMA ValidHolds ==
    ASSUME NEW s \in Seq(Entry), Valid(s), NEW n \in NamesIn(s)
    PROVE  Holds(s, n, Named(s, n).enabled)
<1>1. IndexOf(s, n) \in DOMAIN s /\ s[IndexOf(s, n)].name = n
  BY IndexOfNamed, LenProperties
<1> QED
  BY <1>1 DEF Holds, Named, Valid

LEMMA NamedIsEntry ==
    ASSUME NEW s \in Seq(Entry), NEW n \in NamesIn(s)
    PROVE  Named(s, n) \in Entry /\ Named(s, n).name = n
BY IndexOfNamed, ElementOfSeq DEF Named

LEMMA NamesAreNames ==
    ASSUME NEW s \in Seq(Entry)
    PROVE  NamesIn(s) \subseteq Names
<1>1. ASSUME NEW n \in NamesIn(s)
      PROVE  n \in Names
  BY NamedIsEntry DEF Entry
<1> QED
  BY <1>1

\* What the edits of patch.go and setEnabled make of a list.
LEMMA AppendHolds ==
    ASSUME NEW s \in Seq(Entry), NEW t \in Entry
    PROVE  /\ AddTuberNode(s, t) \in Seq(Entry)
           /\ \A n, on : Holds(s, n, on) /\ n # t.name => Holds(AddTuberNode(s, t), n, on)
<1> DEFINE u == Append(s, t)
<1>1. /\ u \in Seq(Entry) /\ Len(u) = Len(s) + 1 /\ Len(s) \in Nat
      /\ \A i \in 1..Len(s) : u[i] = s[i]
      /\ u[Len(s) + 1] = t
  BY AppendProperties, LenProperties
<1>2. DOMAIN u = 1..(Len(s) + 1) /\ DOMAIN s = 1..Len(s)
  BY <1>1, LenProperties
<1>3. ASSUME NEW n, NEW on, Holds(s, n, on), n # t.name
      PROVE  Holds(u, n, on)
  <2>1. PICK i \in 1..Len(s) : /\ s[i].name = n /\ s[i].enabled = on
                               /\ \A j \in 1..Len(s) : s[j].name = n => j = i
    BY <1>2, <1>3 DEF Holds
  <2>2. \A j \in DOMAIN u : u[j].name = n => j = i
    BY <1>1, <1>2, <1>3, <2>1
  <2> QED
    BY <1>1, <1>2, <2>1, <2>2 DEF Holds
<1> QED
  BY <1>1, <1>3 DEF AddTuberNode

LEMMA ReplaceHolds ==
    ASSUME NEW s \in Seq(Entry), NEW k \in NamesIn(s), NEW t \in Entry
    PROVE  /\ ReplaceTuberNode(s, k, t) \in Seq(Entry)
           /\ \A n, on : Holds(s, n, on) /\ n # k /\ n # t.name
                => Holds(ReplaceTuberNode(s, k, t), n, on)
<1> DEFINE u == [s EXCEPT ![IndexOf(s, k)] = t]
<1>1. IndexOf(s, k) \in 1..Len(s) /\ s[IndexOf(s, k)].name = k
  BY IndexOfNamed
<1>2. /\ u \in Seq(Entry) /\ Len(u) = Len(s)
      /\ \A j \in 1..Len(s) : u[j] = IF j = IndexOf(s, k) THEN t ELSE s[j]
  BY <1>1, ExceptSeq
<1>3. DOMAIN u = 1..Len(s) /\ DOMAIN s = 1..Len(s)
  BY <1>2, LenProperties
<1>4. ASSUME NEW n, NEW on, Holds(s, n, on), n # k, n # t.name
      PROVE  Holds(u, n, on)
  BY <1>1, <1>2, <1>3, <1>4 DEF Holds
<1> QED
  BY <1>2, <1>4 DEF ReplaceTuberNode, ReplaceAt

\* What follows position x of a list.
LEMMA TailAfter ==
    ASSUME NEW S, NEW s \in Seq(S), NEW x \in 1..Len(s)
    PROVE  /\ SubSeq(s, x + 1, Len(s)) \in Seq(S)
           /\ Len(SubSeq(s, x + 1, Len(s))) = Len(s) - x
           /\ \A i \in 1..(Len(s) - x) : SubSeq(s, x + 1, Len(s))[i] = s[x + i]
OBVIOUS

LEMMA DeleteHolds ==
    ASSUME NEW s \in Seq(Entry), NEW k \in NamesIn(s)
    PROVE  /\ DeleteTuberNode(s, k) \in Seq(Entry)
           /\ \A n, on : Holds(s, n, on) /\ n # k => Holds(DeleteTuberNode(s, k), n, on)
<1> DEFINE x == IndexOf(s, k)
           a == SubSeq(s, 1, x - 1)
           b == SubSeq(s, x + 1, Len(s))
           u == a \o b
<1>1. x \in 1..Len(s) /\ s[x].name = k
  BY IndexOfNamed
<1>2. /\ Len(s) \in Nat /\ DOMAIN s = 1..Len(s)
      /\ \A i \in 1..Len(s) : s[i] \in Entry
  BY LenProperties, ElementOfSeq
<1> HIDE DEF x
<1>3. /\ a \in Seq(Entry) /\ Len(a) = x - 1
      /\ \A i \in 1..(x - 1) : a[i] = s[i]
  <2>1. 1 \in Int /\ x - 1 \in Int /\ \A i \in 1..(x - 1) : s[i] \in Entry
    BY <1>1, <1>2
  <2>2. /\ a \in Seq(Entry) /\ Len(a) = (IF 1 <= x - 1 THEN x - 1 - 1 + 1 ELSE 0)
        /\ \A i \in 1..(x - 1 - 1 + 1) : a[i] = s[1 + i - 1]
    BY <2>1, SubSeqProperties
  <2> HIDE DEF a
  <2> QED
    BY <1>1, <1>2, <2>2
<1>4. /\ b \in Seq(Entry) /\ Len(b) = Len(s) - x
      /\ \A i \in 1..(Len(s) - x) : b[i] = s[x + i]
  BY <1>1, TailAfter
<1> HIDE DEF a, b
<1>5. /\ u \in Seq(Entry) /\ Len(u) = Len(s) - 1
      /\ \A i \in 1..(Len(s) - 1) : u[i] = IF i < x THEN s[i] ELSE s[i + 1]
  <2>1. /\ u \in Seq(Entry) /\ Len(u) = Len(a) + Len(b)
        /\ \A i \in 1..(Len(a) + Len(b)) : u[i] = IF i <= Len(a) THEN a[i] ELSE b[i - Len(a)]
    BY <1>3, <1>4, ConcatProperties
  <2> HIDE DEF u
  <2>2. ASSUME NEW i \in 1..(Len(s) - 1)
        PROVE  u[i] = IF i < x THEN s[i] ELSE s[i + 1]
    <3> i \in 1..(Len(a) + Len(b)) /\ Len(a) = x - 1
      BY <1>1, <1>2, <1>3, <1>4
    <3> u[i] = IF i <= Len(a) THEN a[i] ELSE b[i - Len(a)]
      BY <2>1
    <3>1. CASE i < x
      <4>1. i <= Len(a) /\ i \in 1..(x - 1)
        BY <1>1, <3>1
      <4> QED
        BY <1>3, <3>1, <4>1
    <3>2. CASE i >= x
      <4>1. u[i] = b[i - (x - 1)]
        <5>1. ~(i <= Len(a))
          BY <1>1, <3>2
        <5> QED
          BY <5>1
      <4>2. i - (x - 1) \in 1..(Len(s) - x) /\ x + (i - (x - 1)) = i + 1
        BY <1>1, <1>2, <3>2
      <4> QED
        BY <1>1, <1>2, <1>4, <3>2, <4>1, <4>2
    <3> QED
      BY <1>1, <1>2, <3>1, <3>2
  <2> QED
    BY <1>1, <1>2, <1>3, <1>4, <2>1, <2>2
<1>6. DOMAIN u = 1..(Len(s) - 1)
  BY <1>5, LenProperties
<1> HIDE DEF u
<1>7. ASSUME NEW n, NEW on, Holds(s, n, on), n # k
      PROVE  Holds(u, n, on)
  <2>1. PICK i \in 1..Len(s) : /\ s[i].name = n /\ s[i].enabled = on
                               /\ \A j \in 1..Len(s) : s[j].name = n => j = i
    BY <1>2, <1>7 DEF Holds
  <2>2. i # x
    BY <1>1, <1>7, <2>1
  <2> DEFINE h == IF i < x THEN i ELSE i - 1
  <2>3. h \in 1..(Len(s) - 1) /\ u[h] = s[i]
    BY <1>1, <1>2, <1>5, <2>1, <2>2
  <2>4. ASSUME NEW j \in 1..(Len(s) - 1), u[j].name = n
        PROVE  j = h
    BY <1>1, <1>2, <1>5, <2>1, <2>2, <2>4
  <2> HIDE DEF h
  <2> QED
    BY <1>6, <2>1, <2>3, <2>4 DEF Holds
<1> QED
  BY <1>5, <1>7 DEF DeleteTuberNode, RemoveAt, u, a, b, x

LEMMA MoveHolds ==
    ASSUME NEW s \in Seq(Entry), NEW k \in NamesIn(s), NEW to \in DOMAIN s
    PROVE  /\ MoveTuberNode(s, k, to) \in Seq(Entry)
           /\ \A n, on : Holds(s, n, on) => Holds(MoveTuberNode(s, k, to), n, on)
<1> DEFINE from == IndexOf(s, k)
           v == [s EXCEPT ![from] = s[to]]
           u == [s EXCEPT ![from] = s[to], ![to] = s[from]]
<1>1. from \in 1..Len(s) /\ to \in 1..Len(s) /\ DOMAIN s = 1..Len(s)
  BY IndexOfNamed, LenProperties
<1>2. s[from] \in Entry /\ s[to] \in Entry
  BY <1>1, ElementOfSeq
<1> HIDE DEF from
<1>3. v \in Seq(Entry) /\ Len(v) = Len(s)
      /\ \A j \in 1..Len(s) : v[j] = IF j = from THEN s[to] ELSE s[j]
  BY <1>1, <1>2, ExceptSeq
<1>4. u = [v EXCEPT ![to] = s[from]]
  OBVIOUS
<1> HIDE DEF v
<1>5. u \in Seq(Entry) /\ Len(u) = Len(s)
      /\ \A j \in 1..Len(s) : u[j] = IF j = to THEN s[from] ELSE v[j]
  <2> HIDE DEF u
  <2> QED
    BY <1>1, <1>2, <1>3, <1>4, ExceptSeq
<1>6. DOMAIN u = 1..Len(s)
  BY <1>5, LenProperties
<1> HIDE DEF u
<1>7. ASSUME NEW n, NEW on, Holds(s, n, on)
      PROVE  Holds(u, n, on)
  <2>1. PICK i \in 1..Len(s) : /\ s[i].name = n /\ s[i].enabled = on
                               /\ \A j \in 1..Len(s) : s[j].name = n => j = i
    BY <1>1, <1>7 DEF Holds
  <2> DEFINE h == IF i = from THEN to ELSE IF i = to THEN from ELSE i
  <2>2. h \in 1..Len(s) /\ u[h] = s[i]
    BY <1>1, <1>3, <1>5, <2>1
  <2>3. ASSUME NEW j \in 1..Len(s), u[j].name = n
        PROVE  j = h
    BY <1>1, <1>3, <1>5, <2>1, <2>3
  <2> HIDE DEF h
  <2> QED
    BY <1>6, <2>1, <2>2, <2>3 DEF Holds
<1> QED
  BY <1>5, <1>7 DEF MoveTuberNode, u, from

LEMMA SetEnabledHolds ==
    ASSUME NEW s \in Seq(Entry), Valid(s), NEW k \in NamesIn(s), NEW v \in BOOLEAN
    PROVE  /\ SetEnabled(s, k, v) \in Seq(Entry) /\ Valid(SetEnabled(s, k, v))
           /\ NamesIn(SetEnabled(s, k, v)) = NamesIn(s)
           /\ Holds(SetEnabled(s, k, v), k, v)
           /\ \A n, on : Holds(s, n, on) /\ n # k => Holds(SetEnabled(s, k, v), n, on)
<1> DEFINE x == IndexOf(s, k)
           e == [s[x] EXCEPT !.enabled = v]
           u == [s EXCEPT ![x] = e]
<1>1. x \in 1..Len(s) /\ s[x].name = k /\ DOMAIN s = 1..Len(s)
  BY IndexOfNamed, LenProperties
<1>2. s[x] \in Entry
  BY <1>1, ElementOfSeq
<1>3. e \in Entry /\ e.name = k /\ e.enabled = v
  BY <1>1, <1>2 DEF Entry
<1> HIDE DEF x, e
<1>4. /\ u \in Seq(Entry) /\ Len(u) = Len(s)
      /\ \A j \in 1..Len(s) : u[j] = IF j = x THEN e ELSE s[j]
  BY <1>1, <1>3, ExceptSeq
<1>5. DOMAIN u = 1..Len(s)
  BY <1>4, LenProperties
<1> HIDE DEF u
<1>6. \A j \in 1..Len(s) : u[j].name = s[j].name
  BY <1>1, <1>3, <1>4
<1>7. Valid(u) /\ NamesIn(u) = NamesIn(s)
  BY <1>1, <1>5, <1>6 DEF Valid, NamesIn
<1>8. Holds(u, k, v)
  BY <1>1, <1>3, <1>4, <1>5, <1>6 DEF Holds, Valid
<1>9. \A n, on : Holds(s, n, on) /\ n # k => Holds(u, n, on)
  BY <1>1, <1>4, <1>5, <1>6 DEF Holds
<1> QED
  BY <1>4, <1>7, <1>8, <1>9 DEF SetEnabled, u, e, x

-----------------------------------------------------------------------------
(* The engine, the reload and the request under way.                        *)

EngineTuber == [cfg: Entry, state: {"Off", "Up", "Error"}]

\* What the engine holds are tubers, whatever start or fail to.
LEMMA StartedKeeps ==
    ASSUME NEW ts, NEW S, NEW us \in Started(ts, S), \A n \in DOMAIN ts : ts[n] \in EngineTuber
    PROVE  /\ DOMAIN us = DOMAIN ts
           /\ \A n \in DOMAIN ts : us[n] \in EngineTuber /\ us[n].cfg = ts[n].cfg
<1>1. PICK how \in [S -> {"Up", "Error"}] :
        us = [n \in DOMAIN ts |-> [ts[n] EXCEPT !.state = IF n \in S THEN how[n] ELSE @]]
  BY DEF Started
<1> QED
  BY <1>1 DEF EngineTuber

\* A reload leaves exactly the tubers of the new list.
LEMMA ReloadedMatches ==
    ASSUME TypeOK, NEW new \in Seq(Entry), NEW us \in Reloaded(new)
    PROVE  /\ DOMAIN us = NamesIn(new)
           /\ \A n \in NamesIn(new) : us[n] \in EngineTuber /\ us[n].cfg = Named(new, n)
<1> DEFINE known(n) == n \in DOMAIN tubers
           base == [n \in NamesIn(new) |->
                      [cfg |-> Named(new, n), state |-> IF known(n) THEN tubers[n].state ELSE "Off"]]
           restarts == {n \in NamesIn(new) :
                          IF known(n) THEN tubers[n].state = "Up" /\ Changed(tubers[n].cfg, Named(new, n))
                                      ELSE Named(new, n).enabled}
<1>1. us \in Started(base, restarts)
  BY DEF Reloaded
<1>2. ASSUME NEW n \in NamesIn(new)
      PROVE  base[n] \in EngineTuber /\ base[n].cfg = Named(new, n)
  <2>1. Named(new, n) \in Entry
    BY NamedIsEntry
  <2>2. known(n) => tubers[n].state \in {"Off", "Up", "Error"}
    BY DEF TypeOK
  <2> QED
    BY <2>1, <2>2 DEF EngineTuber
<1>3. DOMAIN base = NamesIn(new)
  OBVIOUS
<1> HIDE DEF base, restarts
<1> QED
  BY <1>1, <1>2, <1>3, StartedKeeps

\* applyReload loads the file, its replacement included, or changes nothing.
LEMMA ApplyReloadLoads ==
    ASSUME TypeOK, ApplyReload
    PROVE  \/ /\ ~Loads(file)
              /\ UNCHANGED <<file, mem, tubers, unsaved>>
           \/ /\ file' \in Files /\ (file' = file \/ file = Missing)
              /\ mem' = file'.tubers /\ mem' \in Seq(Entry) /\ Valid(mem')
              /\ DOMAIN tubers' = NamesIn(mem')
              /\ \A n \in DOMAIN tubers' : tubers'[n] \in EngineTuber /\ tubers'[n].cfg = Named(mem', n)
              /\ unsaved' = {}
<1>1. file \in Files /\ file.tubers \in Seq(Entry)
  BY DEF TypeOK, Files
<1>2. CASE file = Missing
  <2>1. mem' = Example /\ tubers' \in Reloaded(Example) /\ file' = Document(Example) /\ unsaved' = {}
    BY <1>2 DEF ApplyReload
  <2>2. file' \in Files /\ file'.tubers = Example
    BY <2>1, ExampleAssumption DEF Document, Files
  <2> QED
    BY <1>2, <2>1, <2>2, ExampleAssumption, ReloadedMatches
<1>3. CASE file # Missing /\ Loads(file)
  <2>1. mem' = file.tubers /\ tubers' \in Reloaded(file.tubers) /\ file' = file /\ unsaved' = {}
    BY <1>3 DEF ApplyReload
  <2>2. Valid(file.tubers)
    BY <1>3 DEF Loads
  <2> QED
    BY <1>1, <2>1, <2>2, ReloadedMatches
<1>4. CASE file # Missing /\ ~Loads(file)
  BY <1>4 DEF ApplyReload
<1> QED
  BY <1>2, <1>3, <1>4

LEMMA ApplyReloadKeepsTypes ==
    ASSUME TypeOK, ApplyReload
    PROVE  /\ file' \in Files /\ mem' \in Seq(Entry) /\ Valid(mem')
           /\ DOMAIN tubers' \subseteq Names
           /\ \A n \in DOMAIN tubers' : tubers'[n] \in EngineTuber
           /\ unsaved' \subseteq Names
<1>1. CASE UNCHANGED <<file, mem, tubers, unsaved>>
  BY <1>1 DEF TypeOK, EngineTuber
<1>2. CASE ~UNCHANGED <<file, mem, tubers, unsaved>>
  <2>1. /\ file' \in Files /\ mem' \in Seq(Entry) /\ Valid(mem') /\ unsaved' = {}
        /\ DOMAIN tubers' = NamesIn(mem')
        /\ \A n \in DOMAIN tubers' : tubers'[n] \in EngineTuber
    BY <1>2, ApplyReloadLoads
  <2> QED
    BY <2>1, NamesAreNames
<1> QED
  BY <1>1, <1>2

\* A request is under way only in a daemon that serves.
IdleInv == phase # "up" => op = NoOp

LEMMA ClientServed ==
    ASSUME Client
    PROVE  op = NoOp /\ phase = "up" /\ UNCHANGED <<file, phase, watch, promised>>
<1>1. op = NoOp /\ phase = "up"
  BY DEF Client, EnableUp, EnableOff, EnableFails, Disable, Restart, DeleteTuber, MoveTuber,
         UpdateTuber, AddTuber, ReloadRequest, Serving
<1>2. UNCHANGED <<file, phase, watch, promised>>
  BY DEF Client, EnableUp, EnableOff, EnableFails, Disable, Restart, DeleteTuber, MoveTuber,
         UpdateTuber, AddTuber, ReloadRequest, SaveEnabled, PatchFile
<1> QED
  BY <1>1, <1>2

LEMMA IdleHolds == Spec => []IdleInv
<1>1. Init => IdleInv
  BY DEF Init, IdleInv
<1>2. IdleInv /\ [Next]_vars => IdleInv'
  <2> SUFFICES ASSUME IdleInv, [Next]_vars
               PROVE  IdleInv'
    OBVIOUS
  <2>1. CASE Client
    BY <2>1, ClientServed DEF IdleInv
  <2>2. CASE Handler
    <3>1. op.step \in {"save", "patch", "reload"}
      BY <2>2 DEF Handler, Save, WritePatch, WriteRefused, WriteCutShort, ReloadStep
    <3>2. phase' = phase
      BY <2>2 DEF Handler, Save, WritePatch, WriteRefused, WriteCutShort, ReloadStep
    <3>3. NoOp.step = "none"
      BY DEF NoOp
    <3> QED
      BY <3>1, <3>2, <3>3 DEF IdleInv
  <2>3. CASE Poll \/ WatchReload \/ Boot \/ StartEnabled \/ StartWatcher \/ Dies
    BY <2>3 DEF Poll, WatchReload, Boot, StartEnabled, StartWatcher, Dies, IdleInv
  <2>4. CASE \E f \in Edits : EditorSaves(f)
    BY <2>4 DEF EditorSaves, IdleInv
  <2>5. CASE UNCHANGED vars
    BY <2>5 DEF vars, IdleInv
  <2> QED
    BY <2>1, <2>2, <2>3, <2>4, <2>5 DEF Next
<1> QED
  BY <1>1, <1>2, PTL DEF Spec

\* A request that saves holds the configuration in memory as it is, with its
\* own flag set.
SaveInv ==
    op.step = "save" =>
        /\ op.doc = mem
        /\ op.answer \in {"enabled", "disabled"}
        /\ Holds(mem, op.name, op.answer = "enabled")

TypeInv == TypeOK /\ SaveInv

LEMMA ClientKeepsTypes ==
    ASSUME TypeInv, Client
    PROVE  TypeInv'
<1> USE DEF TypeInv
<1>1. /\ op = NoOp /\ file \in Files /\ file.tubers \in Seq(Entry) /\ mem \in Seq(Entry) /\ Valid(mem)
      /\ UNCHANGED <<file, phase, watch, promised>>
  BY ClientServed DEF TypeOK, Files
<1> DEFINE Engine == /\ DOMAIN tubers' = DOMAIN tubers
                     /\ \A n \in DOMAIN tubers' : tubers'[n] \in EngineTuber
<1>2. ASSUME NEW n, n \in NamesIn(mem), NEW v \in BOOLEAN, SaveEnabled(n, v), Engine
      PROVE  TypeInv'
  <2>1. /\ mem' \in Seq(Entry) /\ Valid(mem') /\ Holds(mem', n, v)
        /\ unsaved' = unsaved \cup {n}
        /\ op' = [step |-> "save", name |-> n, doc |-> mem', answer |-> IF v THEN "enabled" ELSE "disabled"]
    BY <1>1, <1>2, SetEnabledHolds DEF SaveEnabled
  <2>2. n \in Names
    BY <1>1, <1>2, NamesAreNames
  <2>3. SaveInv'
    BY <2>1 DEF SaveInv
  <2>4. TypeOK'
    BY <1>1, <1>2, <2>1, <2>2 DEF TypeOK, EngineTuber
  <2> QED
    BY <2>3, <2>4
<1>3. ASSUME NEW n, NEW doc \in Seq(Entry), PatchFile(n, doc)
      PROVE  TypeInv'
  BY <1>1, <1>3 DEF PatchFile, TypeOK, SaveInv
<1>4. ASSUME op' = [NoOp EXCEPT !.step = "reload"], UNCHANGED <<mem, tubers, unsaved>>
      PROVE  TypeInv'
  BY <1>1, <1>4, EmptySeq DEF TypeOK, SaveInv, NoOp
<1>5. ASSUME Engine, UNCHANGED <<mem, op, unsaved>>
      PROVE  TypeInv'
  BY <1>1, <1>5 DEF TypeOK, SaveInv, EngineTuber
<1>6. \A n \in DOMAIN tubers : tubers[n] \in EngineTuber
  BY DEF TypeOK, EngineTuber
<1>7. ASSUME NEW n, NEW st \in {"Off", "Up", "Error"}, tubers' = [tubers EXCEPT ![n].state = st]
      PROVE  Engine
  BY <1>6, <1>7 DEF EngineTuber
<1>8. ASSUME NEW n \in Names, EnableUp(n)
      PROVE  TypeInv'
  BY <1>2, <1>6, <1>8 DEF EnableUp
<1>9. ASSUME NEW n \in Names, EnableOff(n)
      PROVE  TypeInv'
  BY <1>2, <1>7, <1>9 DEF EnableOff
<1>10. ASSUME NEW n \in Names, EnableFails(n)
       PROVE  TypeInv'
  BY <1>5, <1>7, <1>10 DEF EnableFails
<1>11. ASSUME NEW n \in Names, Disable(n)
       PROVE  TypeInv'
  <2>1. PICK left \in {"Off", "Error"} : tubers' = [tubers EXCEPT ![n].state = left]
    BY <1>11 DEF Disable
  <2>2. Engine
    BY <1>7, <2>1
  <2> QED
    BY <1>2, <1>11, <2>2 DEF Disable
<1>12. ASSUME NEW n \in Names, Restart(n)
       PROVE  TypeInv'
  <2> DEFINE ts == [tubers EXCEPT ![n].state = "Off"]
  <2>1. DOMAIN ts = DOMAIN tubers /\ \A m \in DOMAIN ts : ts[m] \in EngineTuber
    BY <1>6 DEF EngineTuber
  <2>2. tubers' \in Started(ts, {n}) /\ UNCHANGED <<mem, op, unsaved>>
    BY <1>12 DEF Restart
  <2> HIDE DEF ts
  <2>3. Engine
    BY <2>1, <2>2, StartedKeeps
  <2> QED
    BY <1>5, <2>2, <2>3
<1>13. ASSUME NEW n \in Names, DeleteTuber(n)
       PROVE  TypeInv'
  BY <1>1, <1>3, <1>13, DeleteHolds DEF DeleteTuber
<1>14. ASSUME NEW n \in Names, NEW delta \in {-1, 1}, MoveTuber(n, delta)
       PROVE  TypeInv'
  <2> DEFINE to == IndexOf(file.tubers, n) + delta
  <2>1. CASE to \in DOMAIN file.tubers
    <3>1. n \in NamesIn(file.tubers) /\ PatchFile(n, MoveTuberNode(file.tubers, n, to))
      BY <1>14, <2>1 DEF MoveTuber
    <3> HIDE DEF to
    <3>2. MoveTuberNode(file.tubers, n, to) \in Seq(Entry)
      BY <1>1, <2>1, <3>1, MoveHolds
    <3> QED
      BY <1>3, <3>1, <3>2
  <2>2. CASE to \notin DOMAIN file.tubers
    BY <1>4, <1>14, <2>2 DEF MoveTuber
  <2> QED
    BY <2>1, <2>2
<1>15. ASSUME NEW n \in Names, NEW t \in Requested, UpdateTuber(n, t)
       PROVE  TypeInv'
  BY <1>1, <1>3, <1>15, ReplaceHolds, RequestedAssumption DEF UpdateTuber
<1>16. ASSUME NEW t \in Requested, AddTuber(t)
       PROVE  TypeInv'
  BY <1>1, <1>3, <1>16, AppendHolds, RequestedAssumption DEF AddTuber
<1>17. CASE ReloadRequest
  BY <1>4, <1>17 DEF ReloadRequest
<1> QED
  BY <1>8, <1>9, <1>10, <1>11, <1>12, <1>13, <1>14, <1>15, <1>16, <1>17 DEF Client

LEMMA WrittenKeepsTypes ==
    ASSUME TypeOK, NEW f \in Files, Written(f)
    PROVE  /\ file' \in Files
           /\ watch' \in [pc: {"poll", "reload"}, armed: BOOLEAN, stable: BOOLEAN, last: BOOLEAN,
                           cur: BOOLEAN]
BY DEF Written, TypeOK

LEMMA HandlerKeepsTypes ==
    ASSUME TypeInv, Handler
    PROVE  TypeInv'
<1> USE DEF TypeInv
<1>1. NoOp.doc \in Seq(Entry) /\ NoOp.step = "none" /\ Blank \in Files
  BY EmptySeq DEF NoOp, Blank, Files
<1>2. op.doc \in Seq(Entry) => Document(op.doc) \in Files
  BY DEF Document, Files
<1>3. [n \in Names |-> "nothing"] \in [Names -> {"nothing", "enabled", "disabled"}]
  OBVIOUS
<1>4. CASE Save
  <2>1. op.answer \in {"enabled", "disabled"} /\ Document(op.doc) \in Files
    BY <1>2, <1>4 DEF Save, SaveInv, TypeOK
  <2>2. promised' \in [Names -> {"nothing", "enabled", "disabled"}]
    BY <1>4, <2>1 DEF Save, TypeOK
  <2> QED
    BY <1>1, <1>4, <2>1, <2>2, WrittenKeepsTypes DEF Save, Answered, TypeOK, SaveInv
<1>5. CASE WritePatch
  <2>1. Document(op.doc) \in Files
    BY <1>2 DEF TypeOK
  <2>2. promised' \in [Names -> {"nothing", "enabled", "disabled"}]
    BY <1>5 DEF WritePatch, TypeOK
  <2>3. op'.step = "reload" /\ op'.doc \in Seq(Entry)
    BY <1>1, <1>5 DEF WritePatch, NoOp
  <2> QED
    BY <1>5, <2>1, <2>2, <2>3, WrittenKeepsTypes DEF WritePatch, TypeOK, SaveInv
<1>6. CASE WriteRefused
  <2>1. promised' \in [Names -> {"nothing", "enabled", "disabled"}]
    BY <1>6 DEF WriteRefused, TypeOK
  <2> QED
    BY <1>1, <1>6, <2>1 DEF WriteRefused, Answered, TypeOK, SaveInv
<1>7. CASE WriteCutShort
  BY <1>1, <1>3, <1>7, WrittenKeepsTypes DEF WriteCutShort, Answered, TypeOK, SaveInv, NoPromises
<1>8. CASE ReloadStep
  <2>1. watch' \in [pc: {"poll", "reload"}, armed: BOOLEAN, stable: BOOLEAN, last: BOOLEAN, cur: BOOLEAN]
    BY <1>8 DEF ReloadStep, TypeOK
  <2>2. ApplyReload /\ op' = NoOp /\ UNCHANGED <<phase, promised>>
    BY <1>8 DEF ReloadStep, Answered
  <2> QED
    BY <1>1, <2>1, <2>2, ApplyReloadKeepsTypes DEF TypeOK, SaveInv, EngineTuber
<1> QED
  BY <1>4, <1>5, <1>6, <1>7, <1>8 DEF Handler

\* The watcher, the process and the editor.
LEMMA OthersKeepTypes ==
    ASSUME TypeInv, IdleInv,
           \/ Poll \/ WatchReload \/ Boot \/ StartEnabled \/ StartWatcher \/ Dies
           \/ \E f \in Edits : EditorSaves(f)
    PROVE  TypeInv'
<1> USE DEF TypeInv
<1>1. NoOp.doc \in Seq(Entry) /\ NoOp.step = "none" /\ Blank \in Files
  BY EmptySeq DEF NoOp, Blank, Files
<1>2. FreshWatch \in [pc: {"poll", "reload"}, armed: BOOLEAN, stable: BOOLEAN, last: BOOLEAN, cur: BOOLEAN]
  BY DEF FreshWatch
<1>3. \A n \in DOMAIN tubers : tubers[n] \in EngineTuber
  BY DEF TypeOK, EngineTuber
<1>4. CASE Poll
  BY <1>4 DEF Poll, TypeOK, SaveInv
<1>5. CASE WatchReload
  <2>1. watch' \in [pc: {"poll", "reload"}, armed: BOOLEAN, stable: BOOLEAN, last: BOOLEAN, cur: BOOLEAN]
    <3> DEFINE still == watch.cur /\ file' = file
    <3>1. still \in BOOLEAN
      OBVIOUS
    <3>2. watch' = [pc |-> "poll", armed |-> FALSE, stable |-> still, last |-> still, cur |-> FALSE]
      BY <1>5 DEF WatchReload
    <3> HIDE DEF still
    <3> QED
      BY <3>1, <3>2
  <2>2. ApplyReload /\ op = NoOp /\ UNCHANGED <<phase, op, promised>>
    BY <1>5 DEF WatchReload
  <2> QED
    BY <1>1, <2>1, <2>2, ApplyReloadKeepsTypes DEF TypeOK, SaveInv, EngineTuber
<1>6. CASE Boot
  <2>1. /\ file' \in Files /\ mem' = file'.tubers /\ mem' \in Seq(Entry) /\ Valid(mem')
    <3>1. CASE file = Missing
      BY <1>6, <3>1, ExampleAssumption DEF Boot, Document, Files
    <3>2. CASE file # Missing
      BY <1>6, <3>2 DEF Boot, Loads, TypeOK, Files
    <3> QED
      BY <3>1, <3>2
  <2>2. tubers' = [n \in NamesIn(mem') |-> [cfg |-> Named(mem', n), state |-> "Off"]]
    BY <1>6 DEF Boot
  <2>3. DOMAIN tubers' \subseteq Names /\ \A n \in DOMAIN tubers' : tubers'[n] \in EngineTuber
    BY <2>1, <2>2, NamesAreNames, NamedIsEntry DEF EngineTuber
  <2>4. phase' = "loaded" /\ UNCHANGED <<op, watch, promised, unsaved>>
    BY <1>6 DEF Boot
  <2>5. SaveInv'
    BY <1>1, <1>6, <2>4 DEF Boot, IdleInv, SaveInv
  <2> QED
    BY <2>1, <2>3, <2>4, <2>5 DEF TypeOK, EngineTuber
<1>7. CASE StartEnabled
  <2>1. DOMAIN tubers' = DOMAIN tubers /\ \A n \in DOMAIN tubers' : tubers'[n] \in EngineTuber
    BY <1>3, <1>7, StartedKeeps DEF StartEnabled
  <2> QED
    BY <1>7, <2>1 DEF StartEnabled, TypeOK, SaveInv, EngineTuber
<1>8. CASE StartWatcher
  BY <1>2, <1>8 DEF StartWatcher, TypeOK, SaveInv
<1>9. CASE Dies
  <2>1. file' \in Files /\ promised' \in [Names -> {"nothing", "enabled", "disabled"}]
    BY <1>1, <1>9 DEF Dies, NoPromises, TypeOK
  <2>2. /\ phase' = "down" /\ mem' = <<>> /\ tubers' = NoTubers /\ op' = NoOp
        /\ watch' = FreshWatch /\ unsaved' = {}
    BY <1>9 DEF Dies
  <2>3. Valid(<<>>) /\ <<>> \in Seq(Entry) /\ DOMAIN NoTubers = {}
    BY EmptySeq, LenProperties DEF Valid, NoTubers
  <2> QED
    BY <1>1, <1>2, <2>1, <2>2, <2>3 DEF TypeOK, SaveInv
<1>10. ASSUME NEW f \in Edits, EditorSaves(f)
       PROVE  TypeInv'
  BY <1>10, EditsAssumption, WrittenKeepsTypes DEF EditorSaves, NoPromises, TypeOK, SaveInv
<1> QED
  BY <1>4, <1>5, <1>6, <1>7, <1>8, <1>9, <1>10

LEMMA TypesHold == Spec => []TypeInv
<1>1. Init => TypeInv
  <2> SUFFICES ASSUME Init PROVE TypeInv
    OBVIOUS
  <2>1. Valid(<<>>) /\ <<>> \in Seq(Entry) /\ DOMAIN NoTubers = {}
    BY EmptySeq, LenProperties DEF Valid, NoTubers
  <2> QED
    BY <2>1, EditsAssumption DEF Init, TypeInv, TypeOK, SaveInv, NoOp, FreshWatch, NoPromises
<1>2. TypeInv /\ IdleInv /\ [Next]_vars => TypeInv'
  <2>1. TypeInv /\ IdleInv /\ Next => TypeInv'
    BY ClientKeepsTypes, HandlerKeepsTypes, OthersKeepTypes DEF Next
  <2>2. TypeInv /\ UNCHANGED vars => TypeInv'
    BY DEF TypeInv, TypeOK, SaveInv, vars
  <2> QED
    BY <2>1, <2>2
<1> QED
  BY <1>1, <1>2, IdleHolds, PTL DEF Spec

\* Every variable of the daemon keeps its type; in particular the configuration
\* in memory stays valid, whatever editors and clients write.
THEOREM DaemonTypeCorrect == Spec => []TypeOK
BY TypesHold, PTL DEF TypeInv

-----------------------------------------------------------------------------
(* The engine holds what is configured.                                     *)

\* Setting a flag changes no other field of any tuber.
LEMMA SetEnabledPoints ==
    ASSUME NEW s \in Seq(Entry), Valid(s), NEW k \in NamesIn(s), NEW v \in BOOLEAN
    PROVE  /\ DOMAIN SetEnabled(s, k, v) = DOMAIN s
           /\ \A i \in DOMAIN s :
                IF s[i].name = k THEN SetEnabled(s, k, v)[i] = [s[i] EXCEPT !.enabled = v]
                                 ELSE SetEnabled(s, k, v)[i] = s[i]
           /\ \A n \in NamesIn(s) : Named(SetEnabled(s, k, v), n).port = Named(s, n).port
<1> DEFINE x == IndexOf(s, k)
           u == [s EXCEPT ![x].enabled = v]
<1>1. x \in DOMAIN s /\ s[x].name = k /\ \A i \in DOMAIN s : s[i].name = k => i = x
  BY IndexOfNamed, LenProperties DEF Valid
<1>2. \A i \in DOMAIN s : s[i] \in Entry
  BY LenProperties, ElementOfSeq
<1>3. u = SetEnabled(s, k, v)
  BY DEF SetEnabled
<1> HIDE DEF x
<1>4. DOMAIN u = DOMAIN s /\ \A i \in DOMAIN s : u[i] = IF i = x THEN [s[i] EXCEPT !.enabled = v] ELSE s[i]
  BY <1>1
<1> HIDE DEF u
<1>5. \A i \in DOMAIN s : u[i].name = s[i].name /\ u[i].port = s[i].port
  BY <1>2, <1>4 DEF Entry
<1>6. ASSUME NEW n \in NamesIn(s)
      PROVE  Named(u, n).port = Named(s, n).port
  <2>1. u \in Seq(Entry) /\ n \in NamesIn(u)
    BY <1>3, SetEnabledHolds
  <2>2. IndexOf(u, n) \in DOMAIN u /\ u[IndexOf(u, n)].name = n
    BY <2>1, IndexOfNamed, LenProperties
  <2>3. IndexOf(s, n) \in DOMAIN s /\ s[IndexOf(s, n)].name = n
    BY IndexOfNamed, LenProperties
  <2>4. IndexOf(u, n) = IndexOf(s, n)
    BY <1>4, <1>5, <2>2, <2>3 DEF Valid
  <2> QED
    BY <1>5, <2>3, <2>4 DEF Named
<1> QED
  BY <1>1, <1>3, <1>4, <1>6

\* The engine follows the configuration in memory through every request,
\* reload, start and death.
THEOREM EngineFollows == Spec => []EngineMatches
<1>1. Init => EngineMatches
  BY LenProperties DEF Init, EngineMatches, NoTubers, NamesIn
<1>2. TypeInv /\ EngineMatches /\ [Next]_vars => EngineMatches'
  <2> SUFFICES ASSUME TypeInv, EngineMatches, [Next]_vars
               PROVE  EngineMatches'
    OBVIOUS
  <2> DEFINE SameEngine == /\ DOMAIN tubers' = DOMAIN tubers
                           /\ \A n \in DOMAIN tubers : tubers'[n].cfg = tubers[n].cfg
  <2>1. mem \in Seq(Entry) /\ Valid(mem) /\ file.tubers \in Seq(Entry)
        /\ \A n \in DOMAIN tubers : tubers[n] \in EngineTuber
    BY DEF TypeInv, TypeOK, EngineTuber, Files
  <2>2. ASSUME SameEngine, mem' = mem
        PROVE  EngineMatches'
    BY <2>2 DEF EngineMatches
  <2>3. ASSUME NEW n \in NamesIn(mem), NEW v \in BOOLEAN, SaveEnabled(n, v), SameEngine
        PROVE  EngineMatches'
    <3>1. mem' = SetEnabled(mem, n, v)
      BY <2>3 DEF SaveEnabled
    <3>2. NamesIn(mem') = NamesIn(mem)
          /\ \A m \in NamesIn(mem) : Named(mem', m).port = Named(mem, m).port
      BY <2>1, <3>1, SetEnabledHolds, SetEnabledPoints
    <3> QED
      BY <2>3, <3>2 DEF EngineMatches
  <2>4. ASSUME NEW n, NEW st, tubers' = [tubers EXCEPT ![n].state = st]
        PROVE  SameEngine
    BY <2>1, <2>4 DEF EngineTuber
  <2>5. ASSUME NEW n \in Names, EnableUp(n)
        PROVE  EngineMatches'
    BY <2>3, <2>5 DEF EnableUp
  <2>6. ASSUME NEW n \in Names, EnableOff(n)
        PROVE  EngineMatches'
    BY <2>3, <2>4, <2>6 DEF EnableOff
  <2>7. ASSUME NEW n \in Names, EnableFails(n)
        PROVE  EngineMatches'
    BY <2>2, <2>4, <2>7 DEF EnableFails
  <2>8. ASSUME NEW n \in Names, Disable(n)
        PROVE  EngineMatches'
    <3>1. SameEngine
      BY <2>4, <2>8 DEF Disable
    <3> QED
      BY <2>3, <2>8, <3>1 DEF Disable
  <2>9. ASSUME NEW n \in Names, Restart(n)
        PROVE  EngineMatches'
    <3> DEFINE ts == [tubers EXCEPT ![n].state = "Off"]
    <3>1. /\ DOMAIN ts = DOMAIN tubers
          /\ \A m \in DOMAIN ts : ts[m] \in EngineTuber /\ ts[m].cfg = tubers[m].cfg
      BY <2>1 DEF EngineTuber
    <3>2. tubers' \in Started(ts, {n}) /\ mem' = mem
      BY <2>9 DEF Restart
    <3> HIDE DEF ts
    <3> QED
      BY <2>2, <3>1, <3>2, StartedKeeps
  <2>10. ASSUME NEW n \in Names, \/ DeleteTuber(n) \/ \E t \in Requested : UpdateTuber(n, t)
                                 \/ \E delta \in {-1, 1} : MoveTuber(n, delta)
         PROVE  EngineMatches'
    BY <2>2, <2>10 DEF DeleteTuber, UpdateTuber, MoveTuber, PatchFile
  <2>11. CASE ReloadRequest \/ \E t \in Requested : AddTuber(t)
    BY <2>2, <2>11 DEF ReloadRequest, AddTuber, PatchFile
  <2>12. CASE Save \/ WritePatch \/ WriteRefused \/ WriteCutShort \/ Poll \/ StartWatcher
              \/ \E f \in Edits : EditorSaves(f)
    BY <2>2, <2>12
    DEF Save, WritePatch, WriteRefused, WriteCutShort, Poll, StartWatcher, EditorSaves
  <2>13. CASE ReloadStep \/ WatchReload
    <3>1. ApplyReload
      BY <2>13 DEF ReloadStep, WatchReload
    <3>2. CASE UNCHANGED <<mem, tubers>>
      BY <3>2 DEF EngineMatches
    <3>3. CASE /\ DOMAIN tubers' = NamesIn(mem')
               /\ \A n \in DOMAIN tubers' : tubers'[n].cfg = Named(mem', n)
      BY <3>3 DEF EngineMatches
    <3> QED
      BY <3>1, <3>2, <3>3, ApplyReloadLoads DEF TypeInv
  <2>14. CASE Boot
    <3>1. tubers' = [n \in NamesIn(mem') |-> [cfg |-> Named(mem', n), state |-> "Off"]]
      BY <2>14 DEF Boot
    <3> QED
      BY <3>1 DEF EngineMatches
  <2>15. CASE StartEnabled
    <3>1. SameEngine
      BY <2>1, <2>15, StartedKeeps DEF StartEnabled
    <3> QED
      BY <2>2, <2>15, <3>1 DEF StartEnabled
  <2>16. CASE Dies
    <3>1. mem' = <<>> /\ tubers' = NoTubers
      BY <2>16 DEF Dies
    <3> QED
      BY <3>1, LenProperties DEF EngineMatches, NoTubers, NamesIn
  <2>17. CASE UNCHANGED vars
    BY <2>17 DEF vars, EngineMatches
  <2>18. CASE Client
    BY <2>5, <2>6, <2>7, <2>8, <2>9, <2>10, <2>11, <2>18 DEF Client
  <2>19. CASE Handler
    BY <2>12, <2>13, <2>19 DEF Handler
  <2> QED
    BY <2>12, <2>13, <2>14, <2>15, <2>16, <2>17, <2>18, <2>19 DEF Next
<1> QED
  BY <1>1, <1>2, TypesHold, PTL DEF Spec

-----------------------------------------------------------------------------
(* The configuration in memory and the file.                                *)

LEMMA SameReflexive ==
    ASSUME NEW S, NEW s
    PROVE  SameBut(S, s, s)
BY DEF SameBut

\* Setting a flag makes a list differ in that flag at most.
LEMMA SetEnabledSame ==
    ASSUME NEW a \in Seq(Entry), Valid(a), NEW b \in Seq(Entry), NEW S, SameBut(S, a, b),
           NEW k \in NamesIn(a), NEW v \in BOOLEAN
    PROVE  SameBut(S \cup {k}, SetEnabled(a, k, v), b)
<1> DEFINE u == SetEnabled(a, k, v)
<1>1. DOMAIN u = DOMAIN a /\ DOMAIN a = DOMAIN b
  BY SetEnabledPoints DEF SameBut
<1>2. \A i \in DOMAIN a : IF a[i].name = k THEN u[i] = [a[i] EXCEPT !.enabled = v] ELSE u[i] = a[i]
  BY SetEnabledPoints
<1> HIDE DEF u
<1>3. ASSUME NEW i \in DOMAIN a
      PROVE  u[i] = b[i] \/ (u[i].name \in S \cup {k} /\ u[i] = [b[i] EXCEPT !.enabled = ~@])
  <2>1. a[i] \in Entry /\ b[i] \in Entry
    BY <1>1, LenProperties, ElementOfSeq
  <2>2. a[i] = b[i] \/ (a[i].name \in S /\ a[i] = [b[i] EXCEPT !.enabled = ~@])
    BY DEF SameBut
  <2>3. CASE a[i].name # k
    <3>1. u[i] = a[i]
      BY <1>2, <2>3
    <3> QED
      BY <2>2, <3>1
  <2>4. CASE a[i].name = k
    <3>1. u[i] = [a[i] EXCEPT !.enabled = v]
      BY <1>2, <2>4
    <3>2. u[i] \in Entry /\ u[i].name = k /\ u[i].port = b[i].port /\ b[i].name = k
      BY <2>1, <2>2, <2>4, <3>1 DEF Entry
    <3>3. CASE u[i].enabled = b[i].enabled
      BY <2>1, <3>2, <3>3 DEF Entry
    <3>4. CASE u[i].enabled # b[i].enabled
      <4>1. u[i] = [b[i] EXCEPT !.enabled = ~@]
        BY <2>1, <3>2, <3>4 DEF Entry
      <4> QED
        BY <3>2, <4>1
    <3> QED
      BY <3>3, <3>4
  <2> QED
    BY <2>3, <2>4
<1> QED
  BY <1>1, <1>3 DEF SameBut, u

\* Between its load and the watcher's start the daemon has the file as it is;
\* from then on for as long as the watcher sees the signature it reloaded at,
\* and in the middle of a request too.
SyncInv ==
    /\ phase \in {"loaded", "started"} => mem = file.tubers
    /\ phase = "up" /\ watch.stable /\ Loads(file) => SameBut(unsaved, mem, file.tubers)

LEMMA ApplyReloadSyncs ==
    ASSUME TypeOK, SyncInv, phase = "up", phase' = "up", ApplyReload,
           watch'.stable => watch.stable \/ ~Loads(file) \/ mem' = file'.tubers
    PROVE  SyncInv'
<1>1. CASE ~Loads(file) /\ UNCHANGED <<file, mem, tubers, unsaved>>
  BY <1>1 DEF SyncInv, Loads
<1>2. CASE mem' = file'.tubers
  BY <1>2, SameReflexive DEF SyncInv
<1> QED
  BY <1>1, <1>2, ApplyReloadLoads

\* If the file cannot change between its load and the watcher's start, nothing
\* an editor saves is taken for loaded without being so.
THEOREM MemoryInSync ==
    ASSUME ~BootEdits
    PROVE  Spec => []InSync
<1>1. Init => SyncInv
  BY DEF Init, SyncInv
<1>2. TypeInv /\ IdleInv /\ SyncInv /\ [Next]_vars => SyncInv'
  <2> SUFFICES ASSUME TypeInv, IdleInv, SyncInv, [Next]_vars
               PROVE  SyncInv'
    OBVIOUS
  <2>1. mem \in Seq(Entry) /\ Valid(mem) /\ file.tubers \in Seq(Entry) /\ TypeOK
    BY DEF TypeInv, TypeOK, Files
  <2>2. ASSUME UNCHANGED <<file, phase, mem, unsaved>>, watch'.stable = watch.stable
        PROVE  SyncInv'
    BY <2>2 DEF SyncInv, Loads
  <2>3. ASSUME NEW f, Written(f), phase \notin {"loaded", "started"}, phase' = phase
        PROVE  SyncInv'
    <3>1. watch'.stable = FALSE
      BY <2>1, <2>3 DEF Written, TypeOK
    <3> QED
      BY <2>3, <3>1 DEF SyncInv
  <2>4. ASSUME NEW n \in NamesIn(mem), NEW v \in BOOLEAN, SaveEnabled(n, v), phase = "up"
        PROVE  SyncInv'
    <3>1. /\ mem' = SetEnabled(mem, n, v) /\ unsaved' = unsaved \cup {n}
          /\ UNCHANGED <<file, phase, watch>>
      BY <2>4 DEF SaveEnabled
    <3>2. phase = "up" /\ watch.stable /\ Loads(file) => SameBut(unsaved', mem', file.tubers)
      BY <2>1, <3>1, SetEnabledSame DEF SyncInv
    <3> QED
      BY <2>4, <3>1, <3>2 DEF SyncInv, Loads
  <2>5. ASSUME NEW n \in Names, EnableUp(n) \/ EnableOff(n) \/ Disable(n)
        PROVE  SyncInv'
    BY <2>4, <2>5 DEF EnableUp, EnableOff, Disable, Serving
  <2>6. ASSUME NEW n \in Names, \/ EnableFails(n) \/ Restart(n) \/ DeleteTuber(n)
                                \/ \E t \in Requested : UpdateTuber(n, t)
                                \/ \E delta \in {-1, 1} : MoveTuber(n, delta)
        PROVE  SyncInv'
    BY <2>2, <2>6 DEF EnableFails, Restart, DeleteTuber, UpdateTuber, MoveTuber, PatchFile
  <2>7. CASE ReloadRequest \/ \E t \in Requested : AddTuber(t)
    BY <2>2, <2>7 DEF ReloadRequest, AddTuber, PatchFile
  <2>8. CASE Client
    BY <2>5, <2>6, <2>7, <2>8 DEF Client
  <2>9. CASE Save \/ WritePatch \/ WriteCutShort
    <3>1. op.step \in {"save", "patch"} /\ NoOp.step = "none"
      BY <2>9 DEF Save, WritePatch, WriteCutShort, NoOp
    <3>2. phase = "up"
      BY <3>1 DEF IdleInv
    <3> QED
      BY <2>3, <2>9, <3>2 DEF Save, WritePatch, WriteCutShort
  <2>10. CASE WriteRefused
    BY <2>2, <2>10 DEF WriteRefused
  <2>11. CASE ReloadStep
    <3>1. op.step = "reload" /\ NoOp.step = "none"
      BY <2>11 DEF ReloadStep, NoOp
    <3>2. phase = "up" /\ phase' = phase /\ ApplyReload
      BY <2>11, <3>1 DEF IdleInv, ReloadStep
    <3>3. watch'.stable => watch.stable
      BY <2>1, <2>11 DEF ReloadStep, TypeOK
    <3> QED
      BY <2>1, <3>2, <3>3, ApplyReloadSyncs
  <2>12. CASE Handler
    BY <2>9, <2>10, <2>11, <2>12 DEF Handler
  <2>13. CASE Poll
    <3>1. watch'.stable = watch.stable
      BY <2>1, <2>13 DEF Poll, TypeOK
    <3> QED
      BY <2>2, <2>13, <3>1 DEF Poll
  <2>14. CASE WatchReload
    <3>1. phase = "up" /\ phase' = phase /\ ApplyReload
      BY <2>14 DEF WatchReload
    <3>2. ~Loads(file) \/ mem' = file'.tubers
      BY <2>1, <3>1, ApplyReloadLoads
    <3> QED
      BY <2>1, <3>1, <3>2, ApplyReloadSyncs
  <2>15. CASE Boot
    <3>1. phase' = "loaded" /\ mem' = file'.tubers
      BY <2>15 DEF Boot, Document
    <3> QED
      BY <3>1 DEF SyncInv
  <2>16. CASE StartEnabled
    BY <2>16 DEF StartEnabled, SyncInv
  <2>17. CASE StartWatcher
    <3>1. phase = "started" /\ phase' = "up" /\ UNCHANGED <<file, mem, unsaved>>
      BY <2>17 DEF StartWatcher
    <3> QED
      BY <3>1, SameReflexive DEF SyncInv
  <2>18. CASE Dies
    BY <2>18 DEF Dies, SyncInv
  <2>19. ASSUME NEW f \in Edits, EditorSaves(f)
         PROVE  SyncInv'
    BY <2>3, <2>19 DEF EditorSaves
  <2>20. CASE UNCHANGED vars
    BY <2>2, <2>20 DEF vars
  <2> QED
    BY <2>8, <2>12, <2>13, <2>14, <2>15, <2>16, <2>17, <2>18, <2>19, <2>20 DEF Next
<1>3. SyncInv => InSync
  BY DEF SyncInv, InSync
<1> QED
  BY <1>1, <1>2, <1>3, TypesHold, IdleHolds, PTL DEF Spec

-----------------------------------------------------------------------------
(* What was answered is on the disk.                                        *)

Promises(s, S) ==
    \A n \in S : promised[n] # "nothing" => Holds(s, n, promised[n] = "enabled")

\* A promised name is once in the file with its flag, and once in memory: so
\* the next save writes it again, and no request may add that name or rename
\* to it. A patch under way loses no other tuber's flag.
PromiseInv ==
    /\ Promises(file.tubers, Names)
    /\ phase # "down" => Promises(mem, {n \in Names : ~(op.step = "save" /\ op.name = n)})
    /\ op.step = "patch" => Promises(op.doc, NamesIn(op.doc) \ {op.name})

LEMMA NoPromisesKept ==
    ASSUME promised' = NoPromises, op'.step # "patch" \/ op'.doc \in Seq(Entry)
    PROVE  PromiseInv'
<1>1. \A n \in Names : promised'[n] = "nothing"
  BY DEF NoPromises
<1>2. op'.step = "patch" => NamesIn(op'.doc) \subseteq Names
  BY NamesAreNames
<1> QED
  BY <1>1, <1>2 DEF PromiseInv, Promises

LEMMA ClientKeepsPromises ==
    ASSUME TypeInv, PromiseInv, Client
    PROVE  PromiseInv'
<1>1. /\ op = NoOp /\ NoOp.step = "none" /\ phase = "up" /\ UNCHANGED <<file, phase, watch, promised>>
      /\ mem \in Seq(Entry) /\ Valid(mem) /\ file.tubers \in Seq(Entry)
  BY ClientServed DEF NoOp, TypeInv, TypeOK, Files
<1>2. Promises(mem, Names) /\ Promises(file.tubers, Names)
  BY <1>1 DEF PromiseInv, Promises
<1>3. ASSUME NEW n \in NamesIn(mem), NEW v \in BOOLEAN, SaveEnabled(n, v)
      PROVE  PromiseInv'
  <2>1. mem' = SetEnabled(mem, n, v) /\ op'.step = "save" /\ op'.name = n
    BY <1>3 DEF SaveEnabled
  <2>2. ASSUME NEW m \in Names, m # n, promised[m] # "nothing"
        PROVE  Holds(mem', m, promised[m] = "enabled")
    <3>1. Holds(mem, m, promised[m] = "enabled")
      BY <1>2, <2>2 DEF Promises
    <3> QED
      BY <1>1, <2>1, <2>2, <3>1, SetEnabledHolds
  <2> QED
    BY <1>1, <1>2, <2>1, <2>2 DEF PromiseInv, Promises
<1>4. ASSUME mem' = mem, op'.step \notin {"save", "patch"}
      PROVE  PromiseInv'
  BY <1>1, <1>2, <1>4 DEF PromiseInv, Promises
<1>5. ASSUME NEW n, NEW doc \in Seq(Entry), PatchFile(n, doc),
             \A m \in Names : /\ m # n /\ promised[m] # "nothing" /\ m \in NamesIn(doc)
                              /\ Holds(file.tubers, m, promised[m] = "enabled")
                              /\ Holds(mem, m, promised[m] = "enabled")
                             => Holds(doc, m, promised[m] = "enabled")
      PROVE  PromiseInv'
  <2>1. op'.step = "patch" /\ op'.name = n /\ op'.doc = doc /\ mem' = mem
    BY <1>5 DEF PatchFile
  <2>2. NamesIn(doc) \subseteq Names
    BY NamesAreNames
  <2>3. Promises(doc, NamesIn(doc) \ {n})
    BY <1>2, <1>5, <2>2 DEF Promises
  <2> QED
    BY <1>1, <1>2, <2>1, <2>3 DEF PromiseInv, Promises
<1>6. ASSUME NEW n \in Names, EnableUp(n) \/ EnableOff(n) \/ Disable(n)
      PROVE  PromiseInv'
  BY <1>3, <1>6 DEF EnableUp, EnableOff, Disable
<1>7. ASSUME NEW n \in Names, EnableFails(n) \/ Restart(n)
      PROVE  PromiseInv'
  BY <1>1, <1>4, <1>7 DEF EnableFails, Restart
<1>8. ASSUME NEW n \in Names, DeleteTuber(n)
      PROVE  PromiseInv'
  BY <1>1, <1>5, <1>8, DeleteHolds DEF DeleteTuber
<1>9. ASSUME NEW n \in Names, NEW delta \in {-1, 1}, MoveTuber(n, delta)
      PROVE  PromiseInv'
  <2> DEFINE to == IndexOf(file.tubers, n) + delta
  <2>1. CASE to \in DOMAIN file.tubers
    <3>1. n \in NamesIn(file.tubers) /\ PatchFile(n, MoveTuberNode(file.tubers, n, to))
      BY <1>9, <2>1 DEF MoveTuber
    <3> HIDE DEF to
    <3>2. /\ MoveTuberNode(file.tubers, n, to) \in Seq(Entry)
          /\ \A m, on : Holds(file.tubers, m, on) => Holds(MoveTuberNode(file.tubers, n, to), m, on)
      BY <1>1, <2>1, <3>1, MoveHolds
    <3> QED
      BY <1>5, <3>1, <3>2
  <2>2. CASE to \notin DOMAIN file.tubers
    <3>1. mem' = mem /\ op'.step = "reload"
      BY <1>9, <2>2 DEF MoveTuber, NoOp
    <3> QED
      BY <1>4, <3>1
  <2> QED
    BY <2>1, <2>2
<1>10. ASSUME NEW n \in Names, NEW t \in Requested, UpdateTuber(n, t)
       PROVE  PromiseInv'
  <2>1. t \in Entry /\ n \in NamesIn(mem) /\ n \in NamesIn(file.tubers)
        /\ Valid(ReplaceTuberNode(mem, n, t)) /\ PatchFile(n, ReplaceTuberNode(file.tubers, n, t))
    BY <1>10, RequestedAssumption DEF UpdateTuber
  <2>2. ASSUME NEW m, m # n, NEW on, Holds(mem, m, on)
        PROVE  m # t.name
    <3>1. SUFFICES ASSUME m = t.name
                   PROVE  FALSE
      OBVIOUS
    <3> DEFINE x == IndexOf(mem, n)
    <3>2. x \in 1..Len(mem) /\ mem[x].name = n /\ DOMAIN mem = 1..Len(mem)
      BY <1>1, <2>1, IndexOfNamed, LenProperties
    <3>3. PICK i \in 1..Len(mem) : mem[i].name = m
      BY <2>2, <3>2 DEF Holds
    <3> DEFINE u == [mem EXCEPT ![x] = t]
    <3>4. u = ReplaceTuberNode(mem, n, t)
      BY DEF ReplaceTuberNode, ReplaceAt
    <3> HIDE DEF x
    <3>5. DOMAIN u = 1..Len(mem) /\ u[x] = t /\ \A j \in 1..Len(mem) : j # x => u[j] = mem[j]
      BY <3>2
    <3> HIDE DEF u
    <3>6. i # x /\ u[i].name = m /\ u[x].name = m
      BY <2>2, <3>1, <3>2, <3>3, <3>5
    <3> QED
      BY <2>1, <3>2, <3>3, <3>4, <3>5, <3>6 DEF Valid
  <2> QED
    BY <1>1, <1>5, <2>1, <2>2, ReplaceHolds
<1>11. ASSUME NEW t \in Requested, AddTuber(t)
       PROVE  PromiseInv'
  BY <1>1, <1>5, <1>11, AppendHolds, RequestedAssumption DEF AddTuber
<1>12. CASE ReloadRequest
  <2>1. mem' = mem /\ op'.step = "reload"
    BY <1>12 DEF ReloadRequest, NoOp
  <2> QED
    BY <1>4, <2>1
<1> QED
  BY <1>6, <1>7, <1>8, <1>9, <1>10, <1>11, <1>12 DEF Client

\* A reload takes the promises of the file over into memory.
LEMMA ApplyReloadKeepsPromises ==
    ASSUME TypeOK, PromiseInv, ApplyReload, op.step # "save", op' = NoOp, UNCHANGED <<phase, promised>>
    PROVE  PromiseInv'
<1>1. op'.step = "none"
  BY DEF NoOp
<1>2. Promises(file.tubers, Names) /\ (phase # "down" => Promises(mem, Names))
  BY DEF PromiseInv, Promises
<1>3. CASE UNCHANGED <<file, mem>>
  BY <1>1, <1>2, <1>3 DEF PromiseInv, Promises
<1>4. CASE mem' = file'.tubers /\ file' = file
  BY <1>1, <1>2, <1>4 DEF PromiseInv, Promises
<1>5. CASE mem' = file'.tubers /\ file = Missing
  <2>1. \A n \in Names : promised[n] = "nothing"
    BY <1>2, <1>5, HoldsNamed, EmptySeq, LenProperties DEF Promises, Missing, Holds
  <2> QED
    BY <1>1, <2>1 DEF PromiseInv, Promises
<1> QED
  BY <1>3, <1>4, <1>5, ApplyReloadLoads

LEMMA HandlerKeepsPromises ==
    ASSUME TypeInv, IdleInv, PromiseInv, Handler
    PROVE  PromiseInv'
<1>1. NoOp.step = "none" /\ op.step # "none" /\ phase = "up" /\ phase' = phase /\ TypeOK
  <2>1. NoOp.step = "none"
    BY DEF NoOp
  <2>2. op.step \in {"save", "patch", "reload"}
    BY DEF Handler, Save, WritePatch, WriteRefused, WriteCutShort, ReloadStep
  <2>3. phase' = phase
    BY DEF Handler, Save, WritePatch, WriteRefused, WriteCutShort, ReloadStep
  <2> QED
    BY <2>1, <2>2, <2>3 DEF IdleInv, TypeInv
<1>2. /\ Promises(file.tubers, Names)
      /\ Promises(mem, {n \in Names : ~(op.step = "save" /\ op.name = n)})
      /\ op.step = "patch" => Promises(op.doc, NamesIn(op.doc) \ {op.name})
  BY <1>1 DEF PromiseInv
<1>3. CASE Save
  <2>1. /\ op.step = "save" /\ op.doc = mem /\ Holds(mem, op.name, op.answer = "enabled")
        /\ op.answer \in {"enabled", "disabled"}
    BY <1>3 DEF Save, TypeInv, SaveInv
  <2>2. file' = Document(mem) /\ promised' = [promised EXCEPT ![op.name] = op.answer] /\ op' = NoOp
        /\ mem' = mem
    BY <1>3, <2>1 DEF Save, Written, Answered
  <2>3. file'.tubers = mem
    BY <2>2 DEF Document
  <2>4. ASSUME NEW n \in Names, promised'[n] # "nothing"
        PROVE  Holds(mem, n, promised'[n] = "enabled")
    <3>1. CASE n = op.name
      <4>1. promised'[n] = op.answer
        BY <1>1, <2>2, <3>1 DEF TypeOK
      <4> QED
        BY <2>1, <3>1, <4>1
    <3>2. CASE n # op.name
      <4>1. promised'[n] = promised[n]
        BY <1>1, <2>2, <3>2 DEF TypeOK
      <4> QED
        BY <1>2, <2>4, <3>2, <4>1 DEF Promises
    <3> QED
      BY <3>1, <3>2
  <2> QED
    BY <1>1, <2>2, <2>3, <2>4 DEF PromiseInv, Promises
<1>4. CASE WritePatch
  <2>1. /\ op.step = "patch" /\ file'.tubers = op.doc /\ mem' = mem
        /\ promised' = [n \in Names |-> IF n = op.name \/ n \notin NamesIn(op.doc) THEN "nothing"
                                                                             ELSE promised[n]]
        /\ op'.step = "reload"
    BY <1>4 DEF WritePatch, Written, Document, NoOp
  <2>2. ASSUME NEW n \in Names, promised'[n] # "nothing"
        PROVE  n # op.name /\ n \in NamesIn(op.doc) /\ promised'[n] = promised[n]
    BY <2>1, <2>2
  <2> QED
    BY <1>1, <1>2, <2>1, <2>2 DEF PromiseInv, Promises
<1>5. CASE WriteRefused
  <2>1. UNCHANGED <<file, mem>> /\ op' = NoOp
    BY <1>5 DEF WriteRefused, Answered
  <2>2. ASSUME NEW n \in Names, promised'[n] # "nothing"
        PROVE  promised'[n] = promised[n] /\ ~(op.step = "save" /\ op.name = n)
    BY <1>1, <1>5, <2>2 DEF WriteRefused, TypeOK
  <2> QED
    BY <1>1, <1>2, <2>1, <2>2 DEF PromiseInv, Promises
<1>6. CASE WriteCutShort
  BY <1>1, <1>6, NoPromisesKept DEF WriteCutShort, Answered
<1>7. CASE ReloadStep
  BY <1>1, <1>7, ApplyReloadKeepsPromises DEF ReloadStep, Answered
<1> QED
  BY <1>3, <1>4, <1>5, <1>6, <1>7 DEF Handler

\* An answered enable or disable is on the disk until somebody edits that tuber
\* or a write is cut short.
THEOREM PromisesAreKept == Spec => []PromiseKept
<1>1. Init => PromiseInv
  <2> SUFFICES ASSUME Init PROVE PromiseInv
    OBVIOUS
  <2>1. \A n \in Names : promised[n] = "nothing"
    BY DEF Init, NoPromises
  <2>2. op.step = "none" /\ phase = "down"
    BY DEF Init, NoOp
  <2> QED
    BY <2>1, <2>2 DEF PromiseInv, Promises
<1>2. TypeInv /\ IdleInv /\ PromiseInv /\ [Next]_vars => PromiseInv'
  <2> SUFFICES ASSUME TypeInv, IdleInv, PromiseInv, [Next]_vars
               PROVE  PromiseInv'
    OBVIOUS
  <2>1. TypeOK /\ NoOp.step = "none" /\ Promises(file.tubers, Names)
    BY DEF TypeInv, NoOp, PromiseInv
  <2>2. CASE Poll \/ StartEnabled \/ StartWatcher \/ UNCHANGED vars
    <3>1. /\ UNCHANGED <<file, mem, op, promised>>
          /\ phase' # "down" => phase # "down"
      BY <2>2 DEF Poll, StartEnabled, StartWatcher, vars
    <3> QED
      BY <3>1 DEF PromiseInv, Promises
  <2>3. CASE WatchReload
    <3>1. ApplyReload /\ op = NoOp /\ UNCHANGED <<phase, op, promised>>
      BY <2>3 DEF WatchReload
    <3> QED
      BY <2>1, <3>1, ApplyReloadKeepsPromises
  <2>4. CASE Boot
    <3>1. phase = "down" /\ op = NoOp /\ op' = op /\ promised' = promised
      BY <2>4 DEF Boot, IdleInv
    <3>2. CASE file = Missing
      <4>1. \A n \in Names : promised[n] = "nothing"
        BY <2>1, <3>2, EmptySeq, LenProperties DEF Promises, Missing, Holds
      <4> QED
        BY <2>1, <3>1, <4>1 DEF PromiseInv, Promises
    <3>3. CASE file # Missing
      <4>1. mem' = file.tubers /\ file' = file
        BY <2>4, <3>3 DEF Boot
      <4> QED
        BY <2>1, <3>1, <4>1 DEF PromiseInv, Promises
    <3> QED
      BY <3>2, <3>3
  <2>5. CASE Dies
    <3>1. phase' = "down" /\ op' = NoOp
      BY <2>5 DEF Dies
    <3>2. CASE UNCHANGED <<file, promised>>
      BY <2>1, <3>1, <3>2 DEF PromiseInv, Promises
    <3>3. CASE promised' = NoPromises
      BY <2>1, <3>1, <3>3, NoPromisesKept
    <3> QED
      BY <2>5, <3>2, <3>3 DEF Dies
  <2>6. ASSUME NEW f \in Edits, EditorSaves(f)
        PROVE  PromiseInv'
    <3>1. promised' = NoPromises /\ op' = op
      BY <2>6 DEF EditorSaves
    <3> QED
      BY <2>1, <3>1, NoPromisesKept DEF TypeOK
  <2> QED
    BY <2>2, <2>3, <2>4, <2>5, <2>6, ClientKeepsPromises, HandlerKeepsPromises DEF Next
<1>3. TypeInv /\ PromiseInv => PromiseKept
  <2> SUFFICES ASSUME TypeInv, PromiseInv, NEW n \in Names, promised[n] # "nothing"
               PROVE  n \in NamesIn(file.tubers)
                      /\ Named(file.tubers, n).enabled = (promised[n] = "enabled")
    BY DEF PromiseKept
  <2>1. file.tubers \in Seq(Entry)
    BY DEF TypeInv, TypeOK, Files
  <2>2. Holds(file.tubers, n, promised[n] = "enabled")
    BY DEF PromiseInv, Promises
  <2> QED
    BY <2>1, <2>2, HoldsNamed
<1> QED
  BY <1>1, <1>2, <1>3, TypesHold, IdleHolds, PTL DEF Spec

\* The reload that follows a write of the daemon's own restarts nothing: the
\* engine already has the ports of the file.
THEOREM OwnReloadsAreQuiet == Spec => OwnWritesAreQuiet
<1> DEFINE Quiet == (WatchReload /\ file.kind = "Document" /\ mem = file.tubers)
                        => \A n \in DOMAIN tubers : tubers'[n].state = tubers[n].state
<1>1. TypeInv /\ EngineMatches => Quiet
  <2> SUFFICES ASSUME TypeInv, EngineMatches, WatchReload, file.kind = "Document", mem = file.tubers,
                      NEW n \in DOMAIN tubers
               PROVE  tubers'[n].state = tubers[n].state
    OBVIOUS
  <2> DEFINE known(m) == m \in DOMAIN tubers
             base == [m \in NamesIn(mem) |->
                        [cfg |-> Named(mem, m), state |-> IF known(m) THEN tubers[m].state ELSE "Off"]]
             restarts == {m \in NamesIn(mem) :
                            IF known(m) THEN tubers[m].state = "Up" /\ Changed(tubers[m].cfg, Named(mem, m))
                                        ELSE Named(mem, m).enabled}
  <2>1. file # Missing /\ Loads(file)
    BY DEF Missing, Loads, TypeInv, TypeOK
  <2>2. tubers' \in Started(base, restarts)
    BY <2>1 DEF WatchReload, ApplyReload, Reloaded
  <2>3. restarts = {}
    BY DEF EngineMatches, Changed
  <2>4. n \in DOMAIN base /\ base[n] = [cfg |-> Named(mem, n), state |-> tubers[n].state]
    BY DEF EngineMatches
  <2> HIDE DEF base, restarts
  <2>5. PICK how : tubers' = [m \in DOMAIN base |->
                                [base[m] EXCEPT !.state = IF m \in restarts THEN how[m] ELSE @]]
    BY <2>2 DEF Started
  <2> QED
    BY <2>3, <2>4, <2>5
<1>2. TypeInv /\ EngineMatches /\ [Next]_vars => [Quiet]_vars
  BY <1>1
<1> QED
  BY <1>2, TypesHold, EngineFollows, PTL DEF Spec, OwnWritesAreQuiet
=============================================================================

---------------------------- MODULE ScreenProofs ----------------------------
(***************************************************************************)
(* Proofs about the terminal interface (module Screen) and about how it    *)
(* hears of a change (module ChangeStream).                                *)
(*                                                                         *)
(* Screen: the invariant ScreenInv says that at most one screen or prompt  *)
(* is open, that a hand-off the Model waits for is running, and that with  *)
(* no tick outstanding the picture is what the engine lists and every open *)
(* secret prompt belongs to a tuber that asks. The first part gives that   *)
(* what is drawn takes the keys, the last one that a prompt is wanted and  *)
(* that a quit without a question leaves nothing running.                  *)
(*                                                                         *)
(* ChangeStream: StreamInv says what carries the news of the last change.  *)
(***************************************************************************)
EXTENDS Screen, ChangeStream, SequenceTheorems, FiniteSetTheorems, WellFoundedInduction, TLAPS

-----------------------------------------------------------------------------
(* Smallest and largest rows.                                                *)

\* A row of a set of rows has a first one.
LEMMA MinRow ==
    ASSUME NEW S \in SUBSET Nat, S # {}
    PROVE  Min(S) \in S /\ \A y \in S : Min(S) <= y
<1>1. PICK x \in S : \A y \in S : <<y, x>> \notin OpToRel(<, Nat)
  BY NatLessThanWellFounded, WFMin
<1>2. \A y \in S : ~(y < x)
  BY <1>1 DEF OpToRel
<1>3. \A y \in S : x <= y
  BY <1>2
<1> QED
  BY <1>3 DEF Min

\* A row of a bounded set of rows has a last one: the first from the end.
LEMMA MaxRow ==
    ASSUME NEW n \in Nat, NEW S \in SUBSET (0 .. n), S # {}
    PROVE  Max(S) \in S /\ \A y \in S : Max(S) >= y
<1> DEFINE R == {k \in Nat : n - k \in S}
<1>1. R # {}
  <2>1. PICK y \in S : TRUE
    OBVIOUS
  <2>2. n - y \in R
    BY <2>1
  <2> QED
    BY <2>2
<1>2. Min(R) \in R /\ \A k \in R : Min(R) <= k
  BY <1>1, MinRow
<1> DEFINE x == n - Min(R)
<1>3. x \in S /\ \A y \in S : x >= y
  <2>1. \A y \in S : n - y \in R
    OBVIOUS
  <2> QED
    BY <1>2, <2>1
<1> HIDE DEF x
<1> QED
  BY <1>3 DEF Max

-----------------------------------------------------------------------------
(* Lists of tubers.                                                          *)

\* What a list of tubers is: rows one after the other, no name twice.
LEMMA ListShape ==
    ASSUME NEW s \in Lists
    PROVE  /\ s \in Seq(Tubers) /\ Len(s) \in Nat /\ DOMAIN s = 1 .. Len(s)
           /\ \A i \in DOMAIN s : s[i] \in Tubers /\ s[i].name \in Names
           /\ \A i, j \in DOMAIN s : s[i].name = s[j].name => i = j
<1>1. s \in Seq(Tubers) /\ \A i, j \in DOMAIN s : s[i].name = s[j].name => i = j
  BY DEF Lists
<1>2. Len(s) \in Nat /\ DOMAIN s = 1 .. Len(s) /\ s \in [1 .. Len(s) -> Tubers]
  BY <1>1, LenProperties
<1> QED
  BY <1>1, <1>2 DEF Tubers

\* A list with the same names in the same places is a list too.
LEMMA SameNames ==
    ASSUME NEW s \in Lists, NEW t, t = [i \in DOMAIN s |-> t[i]],
           \A i \in DOMAIN s : t[i] \in Tubers /\ t[i].name = s[i].name
    PROVE  t \in Lists
<1>1. t \in [1 .. Len(s) -> Tubers]
  BY ListShape
<1>2. t \in Seq(Tubers)
  BY <1>1, ListShape, SeqDef
<1> QED
  BY <1>2, ListShape DEF Lists

\* The rows of a tuber.
LEMMA RowOf ==
    ASSUME NEW s \in Lists, NEW n, Has(s, n)
    PROVE  Row(s, n) \in DOMAIN s /\ s[Row(s, n)].name = n /\ n \in Names
  BY ListShape DEF Has, Row

\* A tuber that got another state, or another count.
LEMMA SetTuber ==
    ASSUME NEW t \in Tubers, NEW st \in States, NEW k \in 0 .. MaxTries
    PROVE  /\ [t EXCEPT !.st = st, !.tries = k] \in Tubers
           /\ [t EXCEPT !.st = st, !.tries = k].name = t.name
  BY DEF Tubers

\* A tuber that got another state leaves a list, ...
LEMMA WithList ==
    ASSUME NEW s \in Lists, NEW n, NEW st \in States
    PROVE  With(s, n, st) \in Lists
<1>1. \A i \in DOMAIN s : With(s, n, st)[i] \in Tubers /\ With(s, n, st)[i].name = s[i].name
  <2> SUFFICES ASSUME NEW i \in DOMAIN s
               PROVE  With(s, n, st)[i] \in Tubers /\ With(s, n, st)[i].name = s[i].name
    OBVIOUS
  <2>1. s[i] \in Tubers /\ 0 \in 0 .. MaxTries
    BY ListShape, BoundsAssumption
  <2>2. /\ [s[i] EXCEPT !.st = st, !.tries = 0] \in Tubers
        /\ [s[i] EXCEPT !.st = st, !.tries = 0].name = s[i].name
    BY <2>1, SetTuber
  <2>3. With(s, n, st)[i] \in {s[i], [s[i] EXCEPT !.st = st, !.tries = 0]}
    BY DEF With
  <2> QED
    BY <2>1, <2>2, <2>3
<1> QED
  BY <1>1, SameNames DEF With

\* ... and so do the calls of the controller: Enable, ...
LEMMA EnabledList ==
    ASSUME NEW s \in Lists, NEW S
    PROVE  Enabled(s, S) \in Lists
<1>1. ASSUME NEW i \in DOMAIN s
      PROVE  Enabled(s, S)[i] \in Tubers /\ Enabled(s, S)[i].name = s[i].name
  <2>1. s[i] \in Tubers
    BY ListShape
  <2>2. [s[i] EXCEPT !.st = "live"] \in Tubers /\ [s[i] EXCEPT !.st = "live"].name = s[i].name
    BY <2>1 DEF Tubers, States
  <2>3. Enabled(s, S)[i] \in {s[i], [s[i] EXCEPT !.st = "live"]}
    BY DEF Enabled
  <2> QED
    BY <2>1, <2>2, <2>3
<1> QED
  BY <1>1, SameNames DEF Enabled

\* ... Disable, ...
LEMMA DisabledList ==
    ASSUME NEW s \in Lists, NEW S
    PROVE  Disabled(s, S) \in Lists
<1>1. ASSUME NEW i \in DOMAIN s
      PROVE  Disabled(s, S)[i] \in Tubers /\ Disabled(s, S)[i].name = s[i].name
  <2>1. s[i] \in Tubers /\ 0 \in 0 .. MaxTries /\ "off" \in States
    BY ListShape, BoundsAssumption DEF States
  <2>2. /\ [s[i] EXCEPT !.st = "off", !.tries = 0] \in Tubers
        /\ [s[i] EXCEPT !.st = "off", !.tries = 0].name = s[i].name
    BY <2>1, SetTuber
  <2>3. Disabled(s, S)[i] \in {s[i], [s[i] EXCEPT !.st = "off", !.tries = 0]}
    BY DEF Disabled
  <2> QED
    BY <2>1, <2>2, <2>3
<1> QED
  BY <1>1, SameNames DEF Disabled

\* ... Restart and AcceptHost.
LEMMA RestartedList ==
    ASSUME NEW s \in Lists, NEW n
    PROVE  Restarted(s, n) \in Lists /\ AcceptedHost(s, n) \in Lists
  BY WithList DEF Restarted, AcceptedHost, States

\* A tuber that is new to the engine.
LEMMA NewTuber ==
    ASSUME NEW n \in Names, NEW on
    PROVE  New(n, on) \in Tubers /\ New(n, on).name = n
  BY BoundsAssumption DEF New, Tubers, States

\* A new tuber comes last, and only if no tuber has its name.
LEMMA AddedList ==
    ASSUME NEW s \in Lists, NEW n \in Names, NEW on
    PROVE  Added(s, n, on) \in Lists
<1> DEFINE u == Append(s, New(n, on))
<1>1. /\ u \in Seq(Tubers) /\ Len(u) = Len(s) + 1
      /\ \A i \in 1 .. Len(s) : u[i] = s[i]
      /\ u[Len(s) + 1] = New(n, on)
  BY ListShape, NewTuber, AppendProperties
<1>2. Len(s) \in Nat /\ DOMAIN s = 1 .. Len(s)
  BY ListShape
<1>3. DOMAIN u = 1 .. (Len(s) + 1)
  BY <1>1, LenProperties
<1> HIDE DEF u
<1>4. ASSUME ~Has(s, n) PROVE u \in Lists
  <2>1. \A i \in 1 .. Len(s) : u[i].name = s[i].name /\ s[i].name # n
    BY <1>1, <1>2, <1>4 DEF Has
  <2>2. u[Len(s) + 1].name = n
    BY <1>1, NewTuber
  <2>3. \A i \in DOMAIN u : i \in 1 .. Len(s) \/ i = Len(s) + 1
    BY <1>2, <1>3
  <2>4. \A i, j \in DOMAIN u : u[i].name = u[j].name => i = j
    BY <1>2, <2>1, <2>2, <2>3, ListShape
  <2> QED
    BY <1>1, <2>4 DEF Lists
<1> QED
  BY <1>4 DEF Added, u

\* What is left of a list without one of its rows.
LEMMA RemovedRow ==
    ASSUME NEW s \in Lists, NEW x \in DOMAIN s
    PROVE  /\ RemoveAt(s, x) \in Seq(Tubers)
           /\ DOMAIN RemoveAt(s, x) = 1 .. (Len(s) - 1)
           /\ \A i \in 1 .. (Len(s) - 1) :
                  RemoveAt(s, x)[i] = IF i < x THEN s[i] ELSE s[i + 1]
<1> DEFINE a == SubSeq(s, 1, x - 1)
           b == SubSeq(s, x + 1, Len(s))
           u == a \o b
<1>1. /\ Len(s) \in Nat /\ DOMAIN s = 1 .. Len(s) /\ x \in 1 .. Len(s)
      /\ \A i \in 1 .. Len(s) : s[i] \in Tubers
  BY ListShape
<1>2. /\ a \in Seq(Tubers) /\ Len(a) = x - 1
      /\ \A i \in 1 .. (x - 1) : a[i] = s[i]
  <2>1. 1 \in Int /\ x - 1 \in Int /\ \A i \in 1 .. (x - 1) : s[i] \in Tubers
    BY <1>1
  <2>2. /\ a \in Seq(Tubers) /\ Len(a) = (IF 1 <= x - 1 THEN x - 1 - 1 + 1 ELSE 0)
        /\ \A i \in 1 .. (x - 1 - 1 + 1) : a[i] = s[1 + i - 1]
    BY <2>1, SubSeqProperties
  <2> HIDE DEF a
  <2> QED
    BY <1>1, <2>2
<1>3. /\ b \in Seq(Tubers) /\ Len(b) = Len(s) - x
      /\ \A i \in 1 .. (Len(s) - x) : b[i] = s[x + i]
  <2>1. x + 1 \in Int /\ Len(s) \in Int /\ \A i \in (x + 1) .. Len(s) : s[i] \in Tubers
    BY <1>1
  <2>2. /\ b \in Seq(Tubers) /\ Len(b) = (IF x + 1 <= Len(s) THEN Len(s) - (x + 1) + 1 ELSE 0)
        /\ \A i \in 1 .. (Len(s) - (x + 1) + 1) : b[i] = s[x + 1 + i - 1]
    BY <2>1, SubSeqProperties
  <2> HIDE DEF b
  <2>3. Len(b) = Len(s) - x
    BY <1>1, <2>2
  <2>4. ASSUME NEW i \in 1 .. (Len(s) - x) PROVE b[i] = s[x + i]
    <3>1. i \in 1 .. (Len(s) - (x + 1) + 1) /\ x + 1 + i - 1 = x + i
      BY <1>1
    <3> QED
      BY <2>2, <3>1
  <2> QED
    BY <2>2, <2>3, <2>4
<1> HIDE DEF a, b
<1>4. /\ u \in Seq(Tubers) /\ Len(u) = Len(a) + Len(b)
      /\ \A i \in 1 .. (Len(a) + Len(b)) : u[i] = IF i <= Len(a) THEN a[i] ELSE b[i - Len(a)]
  BY <1>2, <1>3, ConcatProperties
<1> HIDE DEF u
<1>5. Len(u) = Len(s) - 1 /\ DOMAIN u = 1 .. (Len(s) - 1)
  BY <1>1, <1>2, <1>3, <1>4, LenProperties
<1>6. ASSUME NEW i \in 1 .. (Len(s) - 1)
      PROVE  u[i] = IF i < x THEN s[i] ELSE s[i + 1]
  <2>1. u[i] = IF i <= x - 1 THEN a[i] ELSE b[i - (x - 1)]
    BY <1>1, <1>2, <1>3, <1>4
  <2>2. CASE i < x
    BY <1>1, <1>2, <2>1, <2>2
  <2>3. CASE i >= x
    <3>1. i - (x - 1) \in 1 .. (Len(s) - x) /\ x + (i - (x - 1)) = i + 1
      BY <1>1, <2>3
    <3>2. b[i - (x - 1)] = s[x + (i - (x - 1))]
      BY <1>3, <3>1
    <3> QED
      BY <1>1, <2>1, <2>3, <3>1, <3>2
  <2> QED
    BY <1>1, <2>2, <2>3
<1>7. u = RemoveAt(s, x)
  BY DEF u, a, b, RemoveAt
<1> QED
  BY <1>4, <1>5, <1>6, <1>7

\* A tuber is deleted: the rows after it move up, no name comes twice.
LEMMA DeletedList ==
    ASSUME NEW s \in Lists, NEW n
    PROVE  Deleted(s, n) \in Lists
<1> DEFINE x == Row(s, n)
           u == RemoveAt(s, x)
<1>1. ASSUME Has(s, n) PROVE u \in Lists
  <2>1. x \in DOMAIN s
    BY <1>1, RowOf
  <2> HIDE DEF x
  <2>2. /\ u \in Seq(Tubers) /\ DOMAIN u = 1 .. (Len(s) - 1)
        /\ \A i \in 1 .. (Len(s) - 1) : u[i] = IF i < x THEN s[i] ELSE s[i + 1]
    BY <2>1, RemovedRow
  <2> HIDE DEF u
  <2>3. ASSUME NEW i \in DOMAIN u, NEW j \in DOMAIN u, u[i].name = u[j].name
        PROVE  i = j
    <3> DEFINE o(k) == IF k < x THEN k ELSE k + 1
    <3>1. ASSUME NEW k \in DOMAIN u PROVE o(k) \in DOMAIN s /\ u[k] = s[o(k)]
      BY <2>1, <2>2, ListShape
    <3>2. o(i) = o(j)
      BY <2>3, <3>1, ListShape
    <3> QED
      BY <2>1, <2>2, <3>2, ListShape
  <2> QED
    BY <2>2, <2>3 DEF Lists
<1> QED
  BY <1>1 DEF Deleted

\* An edited tuber keeps its place, and no other has its new name.
LEMMA UpdatedList ==
    ASSUME NEW s \in Lists, NEW old, NEW new \in Names, NEW on
    PROVE  Updated(s, old, new, on) \in Lists
<1> DEFINE u == Updated(s, old, new, on)
<1>1. CASE ~Has(s, old) \/ (new # old /\ Has(s, new))
  BY <1>1 DEF Updated
<1>2. CASE Has(s, old) /\ new # old /\ ~Has(s, new)
  <2>1. u = [i \in DOMAIN s |-> IF s[i].name # old THEN s[i] ELSE New(new, on)]
    BY <1>2 DEF Updated
  <2> HIDE DEF u
  <2>2. u \in [1 .. Len(s) -> Tubers]
    BY <2>1, ListShape, NewTuber
  <2>3. u \in Seq(Tubers)
    BY <2>2, ListShape, SeqDef
  <2>4. \A i, j \in DOMAIN u : u[i].name = u[j].name => i = j
    BY <1>2, <2>1, ListShape, NewTuber DEF Has
  <2> QED
    BY <2>3, <2>4 DEF Lists, u
<1>3. CASE Has(s, old) /\ new = old
  <2>1. u = [i \in DOMAIN s |-> IF s[i].name # old THEN s[i]
                ELSE [s[i] EXCEPT !.st = IF @ = "off" THEN @ ELSE "live", !.tries = 0]]
    BY <1>3 DEF Updated
  <2> HIDE DEF u
  <2>2. ASSUME NEW i \in DOMAIN s PROVE u[i] \in Tubers /\ u[i].name = s[i].name
    <3> DEFINE st == IF s[i].st = "off" THEN s[i].st ELSE "live"
    <3>1. s[i] \in Tubers /\ 0 \in 0 .. MaxTries /\ st \in States
      BY ListShape, BoundsAssumption DEF States, Tubers
    <3>2. u[i] \in {s[i], [s[i] EXCEPT !.st = st, !.tries = 0]}
      BY <2>1
    <3> HIDE DEF st
    <3>3. /\ [s[i] EXCEPT !.st = st, !.tries = 0] \in Tubers
          /\ [s[i] EXCEPT !.st = st, !.tries = 0].name = s[i].name
      BY <3>1, SetTuber
    <3> QED
      BY <3>1, <3>2, <3>3
  <2> QED
    BY <2>1, <2>2, SameNames DEF u
<1> QED
  BY <1>1, <1>2, <1>3

\* Two neighbours change places.
LEMMA MovedList ==
    ASSUME NEW s \in Lists, NEW n, NEW up
    PROVE  Moved(s, n, up) \in Lists
<1> DEFINE i == Row(s, n)
           j == IF up THEN i - 1 ELSE i + 1
           u == [k \in DOMAIN s |-> IF k = i THEN s[j] ELSE IF k = j THEN s[i] ELSE s[k]]
<1>1. ASSUME Has(s, n), j \in DOMAIN s PROVE u \in Lists
  <2>1. i \in DOMAIN s
    BY <1>1, RowOf
  <2> HIDE DEF i, j
  <2>2. u \in [1 .. Len(s) -> Tubers]
    BY <1>1, <2>1, ListShape
  <2>3. u \in Seq(Tubers)
    BY <2>2, ListShape, SeqDef
  <2>4. \A k, l \in DOMAIN u : u[k].name = u[l].name => k = l
    BY <1>1, <2>1, ListShape
  <2> QED
    BY <2>3, <2>4 DEF Lists
<1> QED
  BY <1>1 DEF Moved

\* A rejection is counted.
LEMMA RejectedList ==
    ASSUME NEW s \in Lists, NEW x \in DOMAIN s, s[x].tries < MaxTries
    PROVE  [s EXCEPT ![x].tries = @ + 1] \in Lists
<1> DEFINE t == [s[x] EXCEPT !.tries = @ + 1]
           u == [s EXCEPT ![x] = t]
<1>1. s[x] \in Tubers
  BY ListShape
<1>2. t \in Tubers /\ t.name = s[x].name
  BY <1>1, BoundsAssumption DEF Tubers
<1> HIDE DEF t
<1>3. u \in Lists
  BY <1>2, ListShape, SameNames
<1> QED
  BY <1>3 DEF t

-----------------------------------------------------------------------------
(* Who takes a key.                                                          *)

\* The first of one row.
LEMMA MinOne == ASSUME NEW k \in Nat PROVE Min({k}) = k
  BY DEF Min

\* The order lists every screen and prompt once.
LEMMA TakerOrder ==
    /\ DOMAIN Takers = 1 .. 9
    /\ \A i, j \in 1 .. 9 : Takers[i] = Takers[j] => i = j
    /\ \A i \in 1 .. 9 : Takers[i] # "list"
  BY DEF Takers

\* At most one screen or prompt is open.
One(open) == open \subseteq Range(Takers) /\ \A x, y \in open : x = y

\* The one that is open takes the key.
LEMMA TakerIs ==
    ASSUME One(m.open)
    PROVE  \/ m.open = {} /\ Taker = "list"
           \/ m.open = {Taker} /\ Taker # "list"
<1>1. CASE m.open = {}
  BY <1>1 DEF Taker
<1>2. CASE m.open # {}
  <2>1. PICK x : m.open = {x} /\ x \in Range(Takers)
    BY <1>2 DEF One
  <2>2. PICK k \in 1 .. 9 : x = Takers[k]
    BY <2>1, TakerOrder DEF Range
  <2>3. {i \in DOMAIN Takers : Takers[i] \in m.open} = {k}
    BY <2>1, <2>2, TakerOrder
  <2>4. Taker = x
    BY <2>2, <2>3, MinOne DEF Taker
  <2> QED
    BY <2>1, <2>2, <2>4, TakerOrder
<1> QED
  BY <1>1, <1>2

-----------------------------------------------------------------------------
(* The Model's helpers.                                                      *)

\* Every secret prompt that is open belongs to a tuber that asks for it.
Fresh(mm, e) ==
    mm.list = e /\ \A what \in Secrets : what \in mm.open => Asks(e, mm.target[what], what)

\* A Model that only what is open, and the cursor, may tell from another.
Stays(mm, nn) ==
    nn \in Models /\ nn.list = mm.list /\ nn.handoffing = mm.handoffing /\ nn.quit = mm.quit

\* ... and that has the same prompts open.
StaysOpen(mm, nn) == Stays(mm, nn) /\ nn.open = mm.open /\ nn.target = mm.target

\* The names of the screens and prompts.
LEMMA TakerNames ==
    /\ {"editor", "logs", "help", "filter", "quit"} \subseteq Range(Takers)
    /\ Targeted \subseteq Range(Takers) /\ Secrets \subseteq Targeted
<1>1. /\ Takers[1] = "editor" /\ Takers[2] = "logs" /\ Takers[3] = "help"
      /\ Takers[4] = "delete" /\ Takers[5] = "accept" /\ Takers[6] = "passphrase"
      /\ Takers[7] = "password" /\ Takers[8] = "filter" /\ Takers[9] = "quit"
  BY DEF Takers
<1>2. \A i \in 1 .. 9 : Takers[i] \in Range(Takers)
  BY TakerOrder DEF Range
<1>3. /\ 1 \in 1 .. 9 /\ 2 \in 1 .. 9 /\ 3 \in 1 .. 9 /\ 4 \in 1 .. 9 /\ 5 \in 1 .. 9
      /\ 6 \in 1 .. 9 /\ 7 \in 1 .. 9 /\ 8 \in 1 .. 9 /\ 9 \in 1 .. 9
  OBVIOUS
<1>4. /\ "editor" \in Range(Takers) /\ "logs" \in Range(Takers) /\ "help" \in Range(Takers)
      /\ "delete" \in Range(Takers) /\ "accept" \in Range(Takers)
      /\ "passphrase" \in Range(Takers) /\ "password" \in Range(Takers)
      /\ "filter" \in Range(Takers) /\ "quit" \in Range(Takers)
  BY <1>1, <1>2, <1>3, Zenon
<1> QED
  BY <1>4 DEF Targeted, Secrets

\* What opening a screen leaves of the Model, ...
LEMMA OpenStays ==
    ASSUME NEW mm \in Models, NEW what \in Range(Takers)
    PROVE  /\ Stays(mm, Open(mm, what))
           /\ Open(mm, what).open = mm.open \cup {what}
           /\ Open(mm, what).target = mm.target
  BY DEF Models, Stays, Open

\* ... opening a prompt on a tuber, ...
LEMMA OpenOnStays ==
    ASSUME NEW mm \in Models, NEW what \in Targeted, NEW n \in Names
    PROVE  /\ Stays(mm, OpenOn(mm, what, n))
           /\ OpenOn(mm, what, n).open = mm.open \cup {what}
           /\ OpenOn(mm, what, n).target[what] = n
<1> DEFINE oo == Open(mm, what)
<1>1. oo \in Models /\ Stays(mm, oo) /\ oo.open = mm.open \cup {what}
  BY OpenStays, TakerNames DEF Stays
<1> HIDE DEF oo
<1>2. OpenOn(mm, what, n) = [oo EXCEPT !.target[what] = n]
  BY DEF OpenOn, oo
<1> QED
  BY <1>1, <1>2 DEF Models, Stays

\* ... closing a screen, ...
LEMMA ShutStays ==
    ASSUME NEW mm \in Models, NEW what
    PROVE  /\ Stays(mm, Shut(mm, what))
           /\ Shut(mm, what).open = mm.open \ {what}
           /\ Shut(mm, what).target = mm.target
  BY DEF Models, Stays, Shut

\* ... closing a prompt, ...
LEMMA ShutOnStays ==
    ASSUME NEW mm \in Models, NEW what \in Targeted
    PROVE  /\ Stays(mm, ShutOn(mm, what))
           /\ ShutOn(mm, what).open = mm.open \ {what}
<1> DEFINE oo == Shut(mm, what)
<1>1. oo \in Models /\ Stays(mm, oo) /\ oo.open = mm.open \ {what}
  BY ShutStays DEF Stays
<1> HIDE DEF oo
<1>2. ShutOn(mm, what) = [oo EXCEPT !.target[what] = None]
  BY DEF ShutOn, oo
<1> QED
  BY <1>1, <1>2 DEF Models, Stays

\* ... closing a prompt for a secret, ...
LEMMA ShutSecretStays ==
    ASSUME NEW mm \in Models, NEW what \in Secrets
    PROVE  /\ Stays(mm, ShutSecret(mm, what))
           /\ ShutSecret(mm, what).open = mm.open \ {what}
<1> DEFINE oo == ShutOn(mm, what)
<1>1. oo \in Models /\ Stays(mm, oo) /\ oo.open = mm.open \ {what}
  BY ShutOnStays, TakerNames DEF Stays
<1> HIDE DEF oo
<1>2. ShutSecret(mm, what) = [oo EXCEPT !.base[what] = None]
  BY DEF ShutSecret, oo
<1> QED
  BY <1>1, <1>2 DEF Models, Stays

\* ... listing the tubers again, ...
LEMMA RefreshStays ==
    ASSUME NEW mm \in Models, NEW e \in Lists
    PROVE  /\ Refresh(mm, e) \in Models /\ Refresh(mm, e).list = e
           /\ Refresh(mm, e).open = mm.open /\ Refresh(mm, e).target = mm.target
           /\ Refresh(mm, e).handoffing = mm.handoffing /\ Refresh(mm, e).quit = mm.quit
  BY DEF Models, Refresh

\* ... and moving the cursor to a row.
LEMMA CursorStays ==
    ASSUME NEW mm \in Models, NEW c \in Nat \ {0}
    PROVE  StaysOpen(mm, [mm EXCEPT !.cursor = c])
  BY DEF Models, Stays, StaysOpen

\* The rows that the filter shows are rows of the picture.
LEMMA VisibleRows ==
    ASSUME NEW mm \in Models
    PROVE  Len(mm.list) \in Nat /\ mm.list \in Lists /\ Visible(mm) \subseteq 1 .. Len(mm.list)
<1>1. mm.list \in Lists
  BY DEF Models
<1> QED
  BY <1>1, ListShape DEF Visible

\* clampCursor moves nothing but the cursor, and not before the first row.
LEMMA ClampStays ==
    ASSUME NEW mm \in Models
    PROVE  StaysOpen(mm, Clamp(mm))
<1> DEFINE c == Max({1, Min({mm.cursor, Len(mm.list)})})
           after == {i \in Visible(mm) : i >= c}
           d == IF after # {} THEN Min(after)
                ELSE IF Visible(mm) # {} THEN Max(Visible(mm)) ELSE c
<1>1. c \in Nat \ {0}
  <2> DEFINE k == Min({mm.cursor, Len(mm.list)})
  <2>1. mm.cursor \in Nat /\ Len(mm.list) \in Nat
    BY VisibleRows DEF Models
  <2>2. k \in Nat
    BY <2>1, MinRow
  <2> HIDE DEF k
  <2>3. {1, k} \in SUBSET (0 .. (k + 1)) /\ {1, k} # {} /\ k + 1 \in Nat
    BY <2>2
  <2>4. c \in {1, k} /\ c >= 1
    BY <2>3, MaxRow DEF k
  <2> QED
    BY <2>2, <2>4
<1> HIDE DEF c
<1>2. Visible(mm) \subseteq 1 .. Len(mm.list) /\ Len(mm.list) \in Nat
  BY VisibleRows
<1>3. d \in Nat \ {0}
  <2>1. CASE after # {}
    <3>1. Min(after) \in after
      BY <1>2, <2>1, MinRow
    <3> QED
      BY <1>2, <2>1, <3>1
  <2>2. CASE after = {} /\ Visible(mm) # {}
    <3>1. Visible(mm) \in SUBSET (0 .. Len(mm.list))
      BY <1>2
    <3>2. Max(Visible(mm)) \in Visible(mm)
      BY <1>2, <2>2, <3>1, MaxRow
    <3> QED
      BY <1>2, <2>2, <3>2
  <2>3. CASE after = {} /\ Visible(mm) = {}
    BY <1>1, <2>3
  <2> QED
    BY <2>1, <2>2, <2>3
<1> HIDE DEF d
<1>4. Clamp(mm) = [mm EXCEPT !.cursor = d]
  BY DEF Clamp, d, c
<1> QED
  BY <1>3, <1>4, CursorStays

\* The row under the cursor.
LEMMA CurrentRow ==
    ASSUME NEW mm \in Models, HasCurrent(mm)
    PROVE  /\ mm.list \in Lists /\ mm.cursor \in DOMAIN mm.list
           /\ Current(mm) \in Tubers /\ Current(mm).name \in Names
           /\ Matches(mm, Current(mm).name)
           /\ Asks(mm.list, Current(mm).name, Current(mm).st)
<1>1. mm.list \in Lists /\ mm.cursor \in DOMAIN mm.list /\ Matches(mm, Current(mm).name)
  BY DEF Models, HasCurrent
<1> QED
  BY <1>1, ListShape DEF Current, Asks

\* What the picture says a tuber asks for.
LEMMA PendingKeyIs ==
    ASSUME NEW mm \in Models, NEW n
    PROVE  /\ PendingKey(mm, n) \in Keys
           /\ PendingKey(mm, n) # None =>
                /\ PendingKey(mm, n)[1] \in Asking
                /\ Asks(mm.list, n, PendingKey(mm, n)[1])
<1>1. CASE \E what \in Asking : Asks(mm.list, n, what)
  <2> DEFINE w == CHOOSE what \in Asking : Asks(mm.list, n, what)
  <2>1. w \in Asking /\ Asks(mm.list, n, w)
    BY <1>1
  <2> HIDE DEF w
  <2>2. n \in Names
    BY <2>1, ListShape DEF Models, Asks
  <2>3. PendingKey(mm, n) = <<w, n>>
    BY <1>1 DEF PendingKey, w
  <2> QED
    BY <2>1, <2>2, <2>3 DEF Keys
<1>2. CASE ~\E what \in Asking : Asks(mm.list, n, what)
  BY <1>2 DEF PendingKey, Keys
<1> QED
  BY <1>1, <1>2

\* The prompt that esc closed last, ...
LEMMA DismissedStays ==
    ASSUME NEW mm \in Models, NEW k \in Keys
    PROVE  StaysOpen(mm, [mm EXCEPT !.dismissed = k])
  BY DEF Models, Stays, StaysOpen

\* ... and the rejections counted at a submit, tell no Models apart here.
LEMMA BaseStays ==
    ASSUME NEW mm \in Models, NEW what \in Secrets, NEW k \in 0 .. MaxTries \cup {None}
    PROVE  StaysOpen(mm, [mm EXCEPT !.base[what] = k])
  BY DEF Models, Stays, StaysOpen

\* What the picture says of rejections is within the bound.
LEMMA TriesCount ==
    ASSUME NEW mm \in Models, NEW n
    PROVE  Tries(mm, n) \in 0 .. MaxTries
<1>1. mm.list \in Lists /\ 0 \in 0 .. MaxTries
  BY BoundsAssumption DEF Models
<1>2. ASSUME Has(mm.list, n) PROVE mm.list[Row(mm.list, n)].tries \in 0 .. MaxTries
  BY <1>1, <1>2, RowOf, ListShape DEF Tubers
<1> QED
  BY <1>1, <1>2 DEF Tries

\* A prompt opens only where nothing else is, and for a tuber that asks.
LEMMA AutoOpenStays ==
    ASSUME NEW mm \in Models, One(mm.open)
    PROVE  /\ Stays(mm, AutoOpenIfPending(mm)) /\ One(AutoOpenIfPending(mm).open)
           /\ Fresh(mm, mm.list) => Fresh(AutoOpenIfPending(mm), mm.list)
<1> DEFINE n == Current(mm).name
           key == PendingKey(mm, n)
           what == IF key[1] = "host" THEN "accept" ELSE key[1]
<1>1. CASE IsBusy(mm) \/ ~HasCurrent(mm) \/ key = None \/ key = mm.dismissed
  <2>1. AutoOpenIfPending(mm) = mm
    BY <1>1 DEF AutoOpenIfPending
  <2> QED
    BY <2>1 DEF Stays
<1>2. CASE ~(IsBusy(mm) \/ ~HasCurrent(mm) \/ key = None \/ key = mm.dismissed)
  <2>1. AutoOpenIfPending(mm) = OpenOn(mm, what, n)
    BY <1>2 DEF AutoOpenIfPending
  <2>2. n \in Names /\ mm.open = {}
    BY <1>2, CurrentRow DEF IsBusy
  <2>3. key[1] \in Asking /\ Asks(mm.list, n, key[1])
    BY <1>2, PendingKeyIs
  <2>4. what \in Targeted /\ (what \in Secrets => Asks(mm.list, n, what))
    BY <2>3 DEF Asking, Targeted, Secrets
  <2> HIDE DEF n, key, what
  <2>5. /\ Stays(mm, OpenOn(mm, what, n)) /\ OpenOn(mm, what, n).open = {what}
        /\ OpenOn(mm, what, n).target[what] = n
    BY <2>2, <2>4, OpenOnStays
  <2>6. One({what})
    BY <2>4, TakerNames DEF One
  <2>7. Fresh(OpenOn(mm, what, n), mm.list)
    BY <2>4, <2>5 DEF Fresh, Stays
  <2> QED
    BY <2>1, <2>5, <2>6, <2>7
<1> QED
  BY <1>1, <1>2

\* After a tick, a secret prompt that is still open belongs to a tuber that asks.
LEMMA SettleStays ==
    ASSUME NEW mm \in Models, One(mm.open), NEW what \in Secrets
    PROVE  /\ Stays(mm, Settle(mm, what)) /\ One(Settle(mm, what).open)
           /\ Settle(mm, what).open \subseteq mm.open
           /\ what \in Settle(mm, what).open => Asks(mm.list, Settle(mm, what).target[what], what)
           /\ \A other \in Secrets \ {what} : other \in Settle(mm, what).open =>
                    Settle(mm, what).target[other] = mm.target[other]
<1>1. CASE what \notin mm.open
  BY <1>1 DEF Settle, Stays
<1>2. CASE what \in mm.open /\ ~Asks(mm.list, mm.target[what], what)
  <2>1. Settle(mm, what) = ShutSecret(mm, what)
    BY <1>2 DEF Settle
  <2>2. Stays(mm, ShutSecret(mm, what)) /\ ShutSecret(mm, what).open = {}
    BY <1>2, ShutSecretStays DEF One
  <2> QED
    BY <2>1, <2>2 DEF One
<1>3. CASE what \in mm.open /\ Asks(mm.list, mm.target[what], what)
  <2>1. Settle(mm, what) =
            IF mm.base[what] # None /\ Tries(mm, mm.target[what]) > mm.base[what]
            THEN [mm EXCEPT !.base[what] = None] ELSE mm
    BY <1>3 DEF Settle
  <2> DEFINE nn == [mm EXCEPT !.base[what] = None]
  <2>2. StaysOpen(mm, nn) /\ StaysOpen(mm, mm)
    BY BaseStays DEF StaysOpen, Stays
  <2>3. Settle(mm, what) = mm \/ Settle(mm, what) = nn
    BY <2>1
  <2> HIDE DEF nn
  <2>4. StaysOpen(mm, Settle(mm, what))
    BY <2>2, <2>3 DEF StaysOpen, Stays
  <2> QED
    BY <1>3, <2>4 DEF StaysOpen, Stays
<1> QED
  BY <1>1, <1>2, <1>3

\* Forgetting a dismissed prompt opens nothing.
LEMMA ForgetStays ==
    ASSUME NEW mm \in Models
    PROVE  StaysOpen(mm, Forget(mm))
<1>1. Forget(mm) \in {mm, [mm EXCEPT !.dismissed = None]} /\ None \in Keys
  BY DEF Forget, Keys
<1> QED
  BY <1>1, DismissedStays DEF StaysOpen, Stays

\* What quits, and what asks first.
LEMMA AskQuitIs ==
    ASSUME NEW mm \in Models
    PROVE  /\ AskQuit(mm) \in Models /\ AskQuit(mm).list = mm.list
           /\ AskQuit(mm).handoffing = mm.handoffing /\ AskQuit(mm).target = mm.target
           /\ \/ (attach \/ ~HasLiveTubers(mm)) /\ AskQuit(mm).quit = TRUE
                 /\ AskQuit(mm).open = mm.open
              \/ AskQuit(mm).quit = mm.quit /\ AskQuit(mm).open = mm.open \cup {"quit"}
<1>1. CASE attach \/ ~HasLiveTubers(mm)
  <2>1. AskQuit(mm) = [mm EXCEPT !.quit = TRUE]
    BY <1>1 DEF AskQuit
  <2>2. /\ AskQuit(mm) \in Models /\ AskQuit(mm).list = mm.list
        /\ AskQuit(mm).handoffing = mm.handoffing /\ AskQuit(mm).target = mm.target
        /\ AskQuit(mm).quit = TRUE /\ AskQuit(mm).open = mm.open
    BY <2>1 DEF Models
  <2> QED
    BY <1>1, <2>2
<1>2. CASE ~(attach \/ ~HasLiveTubers(mm))
  <2>1. AskQuit(mm) = Open(mm, "quit")
    BY <1>2 DEF AskQuit
  <2>2. "quit" \in Range(Takers)
    BY TakerNames
  <2>3. /\ AskQuit(mm) \in Models /\ AskQuit(mm).list = mm.list
        /\ AskQuit(mm).handoffing = mm.handoffing /\ AskQuit(mm).target = mm.target
        /\ AskQuit(mm).quit = mm.quit /\ AskQuit(mm).open = mm.open \cup {"quit"}
    BY <2>1, <2>2, OpenStays DEF Stays
  <2> QED
    BY <2>3
<1> QED
  BY <1>1, <1>2

-----------------------------------------------------------------------------
(* The invariant. When every change has had its tick and none was lost, the  *)
(* picture is what the engine lists; so a prompt that was opened from the    *)
(* picture, or kept by the tick, belongs to a tuber that asks.               *)

ScreenInv ==
    /\ TypeOK /\ One(m.open)
    /\ m.handoffing => handoffs > 0
    /\ lost => attach
    /\ behind = 0 /\ ~lost /\ ~m.handoffing /\ ~m.quit => Fresh(m, engine)

\* Where the list takes a key, nothing is open, ...
LEMMA OnListIs ==
    ASSUME ScreenInv, OnList
    PROVE  m \in Models /\ engine \in Lists /\ m.open = {} /\ ~m.quit
  BY TakerIs DEF OnList, ScreenInv, TypeOK

\* ... and where a screen takes it, that screen is open.
LEMMA OnIs ==
    ASSUME ScreenInv, NEW what \in Range(Takers), On(what)
    PROVE  m \in Models /\ engine \in Lists /\ m.open = {what} /\ ~m.quit
<1>1. what # "list"
  BY TakerOrder DEF Range
<1> QED
  BY <1>1, TakerIs DEF On, ScreenInv, TypeOK

\* A key that leaves the picture as fresh as it was.
LEMMA BecomesInv ==
    ASSUME ScreenInv, ~m.quit, NEW e \in Lists, NEW mm \in Models, Becomes(mm, e),
           One(mm.open), mm.handoffing = m.handoffing,
           e = engine /\ Fresh(m, engine) => Fresh(mm, engine)
    PROVE  ScreenInv'
<1>1. m' = mm /\ engine' = e /\ attach' = attach /\ handoffs' = handoffs
  BY DEF Becomes
<1>2. /\ behind' \in 0 .. MaxBehind /\ lost' \in BOOLEAN /\ (lost' => attach')
      /\ behind' = 0 /\ ~lost' => behind = 0 /\ ~lost /\ e = engine
  <2>1. CASE behind' = (IF behind = 0 /\ e # engine THEN 1 ELSE behind) /\ lost' = lost
    <3>1. behind' \in 0 .. MaxBehind /\ (behind' = 0 => behind = 0 /\ e = engine)
      BY <2>1, BoundsAssumption DEF ScreenInv, TypeOK
    <3> QED
      BY <1>1, <2>1, <3>1, Zenon DEF ScreenInv, TypeOK
  <2>2. CASE Untold
    BY <1>1, <2>2, Zenon DEF Untold, ScreenInv, TypeOK
  <2> QED
    BY <2>1, <2>2 DEF Becomes
<1>3. TypeOK'
  BY <1>1, <1>2 DEF ScreenInv, TypeOK
<1>4. behind' = 0 /\ ~lost' /\ ~m'.handoffing /\ ~m'.quit => Fresh(m', engine')
  BY <1>1, <1>2 DEF ScreenInv
<1>5. One(m'.open) /\ (m'.handoffing => handoffs' > 0) /\ (lost' => attach')
  BY <1>1, <1>2 DEF ScreenInv
<1> QED
  BY <1>3, <1>4, <1>5 DEF ScreenInv, One

\* ... because no secret prompt is open after it, and the picture is the old
\* one or a new one.
LEMMA QuietInv ==
    ASSUME ScreenInv, ~m.quit, NEW e \in Lists, NEW mm \in Models, Becomes(mm, e),
           One(mm.open), mm.handoffing = m.handoffing,
           mm.open \cap Secrets = {}, mm.list = m.list \/ mm.list = e
    PROVE  ScreenInv'
<1>1. e = engine /\ Fresh(m, engine) => Fresh(mm, engine)
  BY DEF Fresh
<1> QED
  BY <1>1, BecomesInv

\* ... and a key of the list that opens nothing, or something but a secret prompt.
Plain == {"editor", "logs", "help", "delete", "accept", "filter", "quit"}

\* Such a screen is the only thing open, and no secret prompt.
LEMMA PlainOpens ==
    ASSUME NEW what \in Plain
    PROVE  what \in Range(Takers) /\ One({what}) /\ {what} \cap Secrets = {}
  BY TakerNames DEF Plain, One, Targeted, Secrets

\* Nothing open is at most one thing.
LEMMA NothingOpens == One({}) /\ {} \cap Secrets = {}
  BY DEF One

\* So the invariant survives such a key.
LEMMA ListKeyInv ==
    ASSUME ScreenInv, OnList, NEW e \in Lists, NEW mm \in Models, Becomes(mm, e),
           mm.handoffing = m.handoffing, mm.list = m.list \/ mm.list = e,
           mm.open = {} \/ \E what \in Plain : mm.open = {what}
    PROVE  ScreenInv'
<1>1. One(mm.open) /\ mm.open \cap Secrets = {}
  BY PlainOpens, NothingOpens
<1> QED
  BY <1>1, OnListIs, QuietInv

\* The text of the filter, ...
LEMMA QueryStays ==
    ASSUME NEW mm \in Models, NEW q \in Queries \cup {None}
    PROVE  StaysOpen(mm, [mm EXCEPT !.query = q])
  BY DEF Models, Stays, StaysOpen

\* ... and the tuber an editor was opened on, open nothing.
LEMMA OriginalStays ==
    ASSUME NEW mm \in Models, NEW n \in Names \cup {None}
    PROVE  StaysOpen(mm, [mm EXCEPT !.original = n])
  BY DEF Models, Stays, StaysOpen

\* Keys of the list that only open something.
LEMMA OpeningInv ==
    ASSUME ScreenInv, HelpKey \/ SlashKey \/ NewKey \/ LogsKey
    PROVE  ScreenInv'
<1>1. PICK what \in Plain : OnList /\ Becomes(Open(m, what), engine)
  BY Zenon DEF HelpKey, SlashKey, NewKey, LogsKey, Plain
<1>2. m \in Models /\ engine \in Lists /\ m.open = {} /\ what \in Range(Takers)
  BY <1>1, OnListIs, PlainOpens
<1>3. Stays(m, Open(m, what)) /\ Open(m, what).open = {what}
  BY <1>2, OpenStays
<1> HIDE DEF Plain
<1> QED
  BY <1>1, <1>2, <1>3, ListKeyInv DEF Stays

\* The editor opens (handleEdit).
LEMMA EditInv ==
    ASSUME ScreenInv, EditKey
    PROVE  ScreenInv'
<1> DEFINE n == Current(m).name
           o == IF Has(engine, n) THEN n ELSE None
           oo == Open(m, "editor")
<1>1. OnList /\ HasCurrent(m) /\ Becomes([oo EXCEPT !.original = o], engine)
  BY DEF EditKey
<1>2. m \in Models /\ engine \in Lists /\ m.open = {} /\ o \in Names \cup {None}
  BY <1>1, OnListIs, CurrentRow
<1>3. Stays(m, oo) /\ oo.open = {"editor"}
  BY <1>2, OpenStays, TakerNames
<1> HIDE DEF oo, o
<1>4. StaysOpen(oo, [oo EXCEPT !.original = o])
  BY <1>2, <1>3, OriginalStays DEF Stays
<1>5. "editor" \in Plain
  BY DEF Plain
<1> QED
  BY <1>1, <1>2, <1>3, <1>4, <1>5, ListKeyInv DEF Stays, StaysOpen

\* The question whether to delete opens.
LEMMA DeleteKeyInv ==
    ASSUME ScreenInv, DeleteKey
    PROVE  ScreenInv'
<1> DEFINE n == Current(m).name
           mm == OpenOn(m, "delete", n)
<1>1. OnList /\ HasCurrent(m) /\ Becomes(mm, engine)
  BY DEF DeleteKey
<1>2. m \in Models /\ engine \in Lists /\ m.open = {} /\ n \in Names
  BY <1>1, OnListIs, CurrentRow
<1>3. Stays(m, mm) /\ mm.open = {"delete"}
  BY <1>2, OpenOnStays DEF Targeted
<1>4. "delete" \in Plain
  BY DEF Plain
<1> HIDE DEF mm
<1> QED
  BY <1>1, <1>2, <1>3, <1>4, ListKeyInv DEF Stays

\* q and ctrl+c quit, or ask.
LEMMA QuitKeyInv ==
    ASSUME ScreenInv, QuitKey
    PROVE  ScreenInv'
<1>1. OnList /\ Becomes(AskQuit(m), engine)
  BY DEF QuitKey
<1>2. m \in Models /\ engine \in Lists /\ m.open = {} /\ "quit" \in Plain
  BY <1>1, OnListIs DEF Plain
<1>3. /\ AskQuit(m) \in Models /\ AskQuit(m).list = m.list
      /\ AskQuit(m).handoffing = m.handoffing
      /\ AskQuit(m).open = {} \/ AskQuit(m).open = {"quit"}
  BY <1>2, AskQuitIs
<1> QED
  BY <1>1, <1>2, <1>3, ListKeyInv

\* esc clears a filter that was applied.
LEMMA ClearFilterInv ==
    ASSUME ScreenInv, ClearFilterKey
    PROVE  ScreenInv'
<1> DEFINE qq == [m EXCEPT !.query = None]
<1>1. OnList /\ Becomes(Clamp(qq), engine)
  BY DEF ClearFilterKey
<1>2. m \in Models /\ engine \in Lists /\ m.open = {}
  BY <1>1, OnListIs
<1>3. StaysOpen(m, qq)
  BY <1>2, QueryStays
<1> HIDE DEF qq
<1>4. StaysOpen(qq, Clamp(qq))
  BY <1>3, ClampStays DEF Stays, StaysOpen
<1> QED
  BY <1>1, <1>2, <1>3, <1>4, ListKeyInv DEF Stays, StaysOpen

\* The cursor moves to a row that is shown.
LEMMA NavInv ==
    ASSUME ScreenInv, NEW up \in BOOLEAN, NavKey(up)
    PROVE  ScreenInv'
<1> DEFINE there == {i \in Visible(m) : IF up THEN i < m.cursor ELSE i > m.cursor}
           c == IF up THEN Max(there) ELSE Min(there)
<1>1. OnList /\ there # {} /\ Becomes([m EXCEPT !.cursor = c], engine)
  BY DEF NavKey
<1>2. m \in Models /\ engine \in Lists /\ m.open = {}
  BY <1>1, OnListIs
<1>3. there \in SUBSET (1 .. Len(m.list)) /\ Len(m.list) \in Nat
  BY <1>2, VisibleRows
<1> HIDE DEF there
<1>4. c \in there
  <2>1. there \in SUBSET (0 .. Len(m.list)) /\ there \in SUBSET Nat
    BY <1>3
  <2> QED
    BY <1>1, <1>3, <2>1, MaxRow, MinRow
<1> HIDE DEF c
<1>5. c \in Nat \ {0}
  BY <1>3, <1>4
<1>6. StaysOpen(m, [m EXCEPT !.cursor = c])
  BY <1>2, <1>5, CursorStays
<1> QED
  BY <1>1, <1>2, <1>6, ListKeyInv DEF Stays, StaysOpen

\* A tuber keeps its name where it moves to.
LEMMA MovedHas ==
    ASSUME NEW s \in Lists, NEW n, Has(s, n), NEW up
    PROVE  Has(Moved(s, n, up), n)
<1> DEFINE i == Row(s, n)
           j == IF up THEN i - 1 ELSE i + 1
           u == [k \in DOMAIN s |-> IF k = i THEN s[j] ELSE IF k = j THEN s[i] ELSE s[k]]
<1>1. i \in DOMAIN s /\ s[i].name = n
  BY RowOf
<1>2. CASE j \in DOMAIN s
  <2>1. Moved(s, n, up) = u
    BY <1>2 DEF Moved
  <2> HIDE DEF i, j
  <2>2. u[j].name = n /\ j \in DOMAIN u
    BY <1>1, <1>2
  <2> HIDE DEF u
  <2> QED
    BY <2>1, <2>2 DEF Has
<1>3. CASE j \notin DOMAIN s
  BY <1>3 DEF Moved
<1> QED
  BY <1>2, <1>3

\* A tuber moves up or down, and the cursor with it.
LEMMA ReorderInv ==
    ASSUME ScreenInv, NEW up \in BOOLEAN, ReorderKey(up)
    PROVE  ScreenInv'
<1> DEFINE n == Current(m).name
           e == Moved(engine, n, up)
           mm == Refresh(m, e)
           c == Row(mm.list, n)
<1>1. OnList /\ Has(engine, n) /\ Becomes([mm EXCEPT !.cursor = c], e)
  BY DEF ReorderKey
<1>2. m \in Models /\ engine \in Lists /\ m.open = {}
  BY <1>1, OnListIs
<1>3. e \in Lists /\ Has(e, n)
  BY <1>1, <1>2, MovedList, MovedHas
<1> HIDE DEF e
<1>4. /\ mm \in Models /\ mm.list = e /\ mm.open = {}
      /\ mm.handoffing = m.handoffing /\ mm.quit = m.quit
  BY <1>2, <1>3, RefreshStays
<1> HIDE DEF mm
<1>5. c \in Nat \ {0}
  BY <1>3, <1>4, RowOf, ListShape
<1> HIDE DEF c
<1>6. StaysOpen(mm, [mm EXCEPT !.cursor = c])
  BY <1>4, <1>5, CursorStays
<1> QED
  BY <1>1, <1>2, <1>3, <1>4, <1>6, ListKeyInv DEF Stays, StaysOpen

\* Keys of the list after which the tubers are listed again.
LEMMA RefreshInv ==
    ASSUME ScreenInv, OnList, NEW e \in Lists, Becomes(Refresh(m, e), e)
    PROVE  ScreenInv'
<1>1. m \in Models /\ m.open = {}
  BY OnListIs
<1>2. /\ Refresh(m, e) \in Models /\ Refresh(m, e).list = e /\ Refresh(m, e).open = {}
      /\ Refresh(m, e).handoffing = m.handoffing
  BY <1>1, RefreshStays
<1> QED
  BY <1>2, ListKeyInv

\* r, a and x restart, enable and disable.
LEMMA TogglingInv ==
    ASSUME ScreenInv, RestartKey \/ EnableAll \/ DisableAll
    PROVE  ScreenInv'
<1>1. OnList
  BY DEF RestartKey, EnableAll, DisableAll
<1>2. engine \in Lists
  BY <1>1, OnListIs
<1>3. PICK e \in Lists : Becomes(Refresh(m, e), e)
  <2>1. CASE RestartKey
    BY <1>2, <2>1, RestartedList DEF RestartKey
  <2>2. CASE EnableAll
    BY <1>2, <2>2, EnabledList DEF EnableAll
  <2>3. CASE DisableAll
    BY <1>2, <2>3, DisabledList DEF DisableAll
  <2> QED
    BY <2>1, <2>2, <2>3
<1> QED
  BY <1>1, <1>3, RefreshInv

\* space toggles, or opens the prompt for a host key.
LEMMA SpaceInv ==
    ASSUME ScreenInv, SpaceKey
    PROVE  ScreenInv'
<1> DEFINE n == Current(m).name
           mm == OpenOn(m, "accept", n)
<1>1. OnList /\ HasCurrent(m)
  BY DEF SpaceKey
<1>2. m \in Models /\ engine \in Lists /\ m.open = {} /\ n \in Names
  BY <1>1, OnListIs, CurrentRow
<1>3. CASE Current(m).st = "host"
  <2>1. Becomes(mm, engine)
    BY <1>3 DEF SpaceKey
  <2>2. Stays(m, mm) /\ mm.open = {"accept"}
    BY <1>2, OpenOnStays DEF Targeted
  <2>3. "accept" \in Plain
    BY DEF Plain
  <2> HIDE DEF mm
  <2> QED
    BY <1>1, <1>2, <2>1, <2>2, <2>3, ListKeyInv DEF Stays
<1>4. CASE Current(m).st # "host"
  <2>1. PICK e \in {engine, Enabled(engine, {n}), Disabled(engine, {n})} : Becomes(Refresh(m, e), e)
    BY <1>4 DEF SpaceKey
  <2>2. e \in Lists
    BY <1>2, EnabledList, DisabledList
  <2> QED
    BY <1>1, <2>1, <2>2, RefreshInv
<1> QED
  BY <1>3, <1>4

\* p and o open the prompt of a tuber that the picture shows to ask.
LEMMA SecretKeyInv ==
    ASSUME ScreenInv, NEW what \in Secrets, SecretKey(what)
    PROVE  ScreenInv'
<1> DEFINE n == Current(m).name
           mm == OpenOn(m, what, n)
<1>1. OnList /\ HasCurrent(m) /\ Current(m).st = what /\ Becomes(mm, engine)
  BY DEF SecretKey
<1>2. m \in Models /\ engine \in Lists /\ m.open = {} /\ ~m.quit
  BY <1>1, OnListIs
<1>3. n \in Names /\ Asks(m.list, n, what)
  BY <1>1, <1>2, CurrentRow
<1> HIDE DEF n
<1>4. Stays(m, mm) /\ mm.open = {what} /\ mm.target[what] = n
  BY <1>2, <1>3, OpenOnStays, TakerNames
<1> HIDE DEF mm
<1>5. One({what})
  BY TakerNames DEF One
<1>6. Fresh(m, engine) => Fresh(mm, engine)
  BY <1>3, <1>4 DEF Fresh, Stays
<1> QED
  BY <1>1, <1>2, <1>4, <1>5, <1>6, BecomesInv DEF Stays

\* What an editor of the file or another client does leaves a list.
LEMMA EditsAreLists ==
    ASSUME NEW s \in Lists, NEW e \in Edits(s) \cup Toggles(s)
    PROVE  e \in Lists
<1>1. CASE \E n \in Names, on \in BOOLEAN : e = Added(s, n, on)
  BY <1>1, AddedList
<1>2. CASE \E n \in Names : e = Deleted(s, n) \/ e = Enabled(s, {n}) \/ e = Disabled(s, {n})
  BY <1>2, DeletedList, EnabledList, DisabledList
<1>3. e \in Edits(s) => \/ \E n \in Names, on \in BOOLEAN : e = Added(s, n, on)
                        \/ \E n \in Names : e = Deleted(s, n)
  BY DEF Edits
<1>4. e \in Toggles(s) => \E n \in Names : e = Enabled(s, {n}) \/ e = Disabled(s, {n})
  BY DEF Toggles
<1> QED
  BY <1>1, <1>2, <1>3, <1>4

\* A picture that is refreshed and whose cursor is clamped.
LEMMA ClampRefresh ==
    ASSUME NEW mm \in Models, NEW e \in Lists
    PROVE  /\ Clamp(Refresh(mm, e)) \in Models /\ Clamp(Refresh(mm, e)).list = e
           /\ Clamp(Refresh(mm, e)).open = mm.open
           /\ Clamp(Refresh(mm, e)).target = mm.target
           /\ Clamp(Refresh(mm, e)).handoffing = mm.handoffing
           /\ Clamp(Refresh(mm, e)).quit = mm.quit
<1> DEFINE rr == Refresh(mm, e)
<1>1. /\ rr \in Models /\ rr.list = e /\ rr.open = mm.open /\ rr.target = mm.target
      /\ rr.handoffing = mm.handoffing /\ rr.quit = mm.quit
  BY RefreshStays
<1> HIDE DEF rr
<1>2. StaysOpen(rr, Clamp(rr))
  BY <1>1, ClampStays
<1>3. /\ Clamp(rr) \in Models /\ Clamp(rr).list = e /\ Clamp(rr).open = mm.open
      /\ Clamp(rr).target = mm.target
      /\ Clamp(rr).handoffing = mm.handoffing /\ Clamp(rr).quit = mm.quit
  BY <1>1, <1>2 DEF StaysOpen, Stays
<1> QED
  BY <1>3 DEF rr

\* R reads the file again.
LEMMA ReloadInv ==
    ASSUME ScreenInv, ReloadKey
    PROVE  ScreenInv'
<1>1. PICK e \in Edits(engine) \cup {engine} : OnList /\ Becomes(Clamp(Refresh(m, e)), e)
  BY DEF ReloadKey
<1>2. m \in Models /\ engine \in Lists /\ m.open = {}
  BY <1>1, OnListIs
<1>3. e \in Lists
  BY <1>2, EditsAreLists
<1> DEFINE mm == Clamp(Refresh(m, e))
<1>4. mm \in Models /\ mm.list = e /\ mm.open = {} /\ mm.handoffing = m.handoffing
  BY <1>2, <1>3, ClampRefresh
<1> HIDE DEF mm
<1> QED
  BY <1>1, <1>3, <1>4, ListKeyInv DEF mm

\* What closes leaves nothing open.
LEMMA ClosingInv ==
    ASSUME ScreenInv, ~m.quit, NEW e \in Lists, NEW mm \in Models, Becomes(mm, e),
           mm.open = {}, mm.handoffing = m.handoffing, mm.list = m.list \/ mm.list = e
    PROVE  ScreenInv'
  BY QuietInv, NothingOpens

\* The editor closes.
LEMMA EditorClosesStays ==
    ASSUME m \in Models, m.open = {"editor"}
    PROVE  Stays(m, EditorCloses) /\ EditorCloses.open = {}
<1> DEFINE ss == Shut(m, "editor")
<1>1. Stays(m, ss) /\ ss.open = {}
  BY ShutStays
<1> HIDE DEF ss
<1>2. StaysOpen(ss, [ss EXCEPT !.original = None])
  BY <1>1, OriginalStays DEF Stays
<1>3. EditorCloses = [ss EXCEPT !.original = None]
  BY DEF EditorCloses, ss
<1> QED
  BY <1>1, <1>2, <1>3 DEF Stays, StaysOpen

\* ctrl+s saves, esc does not; the editor closes.
LEMMA EditorInv ==
    ASSUME ScreenInv, EditorSaves \/ EditorEsc
    PROVE  ScreenInv'
<1>1. On("editor") /\ "editor" \in Range(Takers)
  BY TakerNames DEF EditorSaves, EditorEsc
<1>2. m \in Models /\ engine \in Lists /\ m.open = {"editor"} /\ ~m.quit
  BY <1>1, OnIs
<1>3. PICK e \in Lists : Becomes(EditorCloses, e)
  <2>1. CASE EditorEsc
    BY <1>2, <2>1 DEF EditorEsc
  <2>2. CASE EditorSaves
    <3>1. PICK n \in Names, on \in BOOLEAN :
             \/ Becomes(EditorCloses, Added(engine, n, on))
             \/ Becomes(EditorCloses, Updated(engine, m.original, n, on))
      BY <2>2 DEF EditorSaves
    <3>2. Added(engine, n, on) \in Lists /\ Updated(engine, m.original, n, on) \in Lists
      BY <1>2, AddedList, UpdatedList
    <3> QED
      BY <3>1, <3>2
  <2> QED
    BY <2>1, <2>2
<1> QED
  BY <1>2, <1>3, EditorClosesStays, ClosingInv DEF Stays

\* The log, the help and the quit question close.
LEMMA ClosesInv ==
    ASSUME ScreenInv, LogsClose \/ HelpClose \/ ConfirmEsc
    PROVE  ScreenInv'
<1>1. PICK what \in Plain : On(what) /\ Becomes(Shut(m, what), engine)
  BY Zenon DEF LogsClose, HelpClose, ConfirmEsc, Plain
<1>2. m \in Models /\ engine \in Lists /\ m.open = {what} /\ ~m.quit
  BY <1>1, OnIs, PlainOpens
<1>3. Stays(m, Shut(m, what)) /\ Shut(m, what).open = {}
  BY <1>2, ShutStays
<1> QED
  BY <1>1, <1>2, <1>3, ClosingInv DEF Stays

\* y deletes the tuber the question was about, n does not.
LEMMA DeleteConfirmInv ==
    ASSUME ScreenInv, NEW yes \in BOOLEAN, DeleteConfirm(yes)
    PROVE  ScreenInv'
<1> DEFINE ss == ShutOn(m, "delete")
<1>1. On("delete") /\ "delete" \in Range(Takers)
  BY TakerNames DEF DeleteConfirm, Targeted
<1>2. m \in Models /\ engine \in Lists /\ m.open = {"delete"} /\ ~m.quit
  BY <1>1, OnIs
<1>3. Stays(m, ss) /\ ss.open = {}
  BY <1>2, ShutOnStays DEF Targeted
<1>4. CASE yes
  <2>1. PICK e \in {engine, Deleted(engine, m.target["delete"])} : Becomes(Clamp(Refresh(ss, e)), e)
    BY <1>4 DEF DeleteConfirm
  <2>2. e \in Lists
    BY <1>2, DeletedList
  <2> HIDE DEF ss
  <2> DEFINE mm == Clamp(Refresh(ss, e))
  <2>3. mm \in Models /\ mm.list = e /\ mm.open = {} /\ mm.handoffing = m.handoffing
    BY <1>3, <2>2, ClampRefresh DEF Stays
  <2> HIDE DEF mm
  <2> QED
    BY <1>2, <2>1, <2>2, <2>3, ClosingInv DEF mm
<1>5. CASE ~yes
  <2>1. Becomes(ss, engine)
    BY <1>5 DEF DeleteConfirm
  <2> HIDE DEF ss
  <2> QED
    BY <1>2, <1>3, <2>1, ClosingInv DEF Stays
<1> QED
  BY <1>4, <1>5

\* y accepts the host key, n dismisses the prompt.
LEMMA AcceptConfirmInv ==
    ASSUME ScreenInv, NEW yes \in BOOLEAN, AcceptConfirm(yes)
    PROVE  ScreenInv'
<1> DEFINE ss == ShutOn(m, "accept")
           n == m.target["accept"]
           k == PendingKey(m, n)
<1>1. On("accept") /\ "accept" \in Range(Takers)
  BY TakerNames DEF AcceptConfirm, Targeted
<1>2. m \in Models /\ engine \in Lists /\ m.open = {"accept"} /\ ~m.quit
  BY <1>1, OnIs
<1>3. Stays(m, ss) /\ ss.open = {}
  BY <1>2, ShutOnStays DEF Targeted
<1>4. CASE yes
  <2>1. PICK e \in {engine, AcceptedHost(engine, n)} : Becomes(Refresh(ss, e), e)
    BY <1>4 DEF AcceptConfirm
  <2>2. e \in Lists
    BY <1>2, RestartedList
  <2> HIDE DEF ss
  <2> DEFINE mm == Refresh(ss, e)
  <2>3. mm \in Models /\ mm.list = e /\ mm.open = {} /\ mm.handoffing = m.handoffing
    BY <1>3, <2>2, RefreshStays DEF Stays
  <2> HIDE DEF mm
  <2> QED
    BY <1>2, <2>1, <2>2, <2>3, ClosingInv DEF mm
<1>5. CASE ~yes
  <2>1. Becomes([ss EXCEPT !.dismissed = k], engine)
    BY <1>5 DEF AcceptConfirm
  <2>2. k \in Keys
    BY <1>2, PendingKeyIs
  <2> HIDE DEF ss, k
  <2>3. StaysOpen(ss, [ss EXCEPT !.dismissed = k])
    BY <1>3, <2>2, DismissedStays DEF Stays
  <2> QED
    BY <1>2, <1>3, <2>1, <2>3, ClosingInv DEF Stays, StaysOpen
<1> QED
  BY <1>4, <1>5

\* A secret is handed in, or its prompt is closed.
LEMMA SecretInv ==
    ASSUME ScreenInv, NEW what \in Secrets, SecretSubmit(what) \/ SecretEsc(what)
    PROVE  ScreenInv'
<1> DEFINE ss == ShutSecret(m, what)
           k == PendingKey(m, m.target[what])
           b == Tries(m, m.target[what])
           bb == [m EXCEPT !.base[what] = b]
<1>1. On(what) /\ what \in Range(Takers)
  BY TakerNames DEF SecretSubmit, SecretEsc
<1>2. m \in Models /\ engine \in Lists /\ m.open = {what} /\ ~m.quit
  BY <1>1, OnIs
<1>3. CASE SecretEsc(what)
  <2>1. Becomes([ss EXCEPT !.dismissed = k], engine)
    BY <1>3 DEF SecretEsc
  <2>2. k \in Keys
    BY <1>2, PendingKeyIs
  <2>3. Stays(m, ss) /\ ss.open = {}
    BY <1>2, ShutSecretStays
  <2> HIDE DEF ss, k
  <2>4. StaysOpen(ss, [ss EXCEPT !.dismissed = k])
    BY <2>2, <2>3, DismissedStays DEF Stays
  <2> QED
    BY <1>2, <2>1, <2>3, <2>4, ClosingInv DEF Stays, StaysOpen
<1>4. CASE SecretSubmit(what)
  <2>1. Becomes(Refresh(bb, engine), engine)
    BY <1>4 DEF SecretSubmit
  <2>2. b \in 0 .. MaxTries \cup {None}
    BY <1>2, TriesCount
  <2> HIDE DEF b
  <2>3. StaysOpen(m, bb)
    BY <1>2, <2>2, BaseStays
  <2> HIDE DEF bb
  <2> DEFINE mm == Refresh(bb, engine)
  <2>4. /\ mm \in Models /\ mm.list = engine /\ mm.open = m.open /\ mm.target = m.target
        /\ mm.handoffing = m.handoffing
    BY <1>2, <2>3, RefreshStays DEF Stays, StaysOpen
  <2> HIDE DEF mm
  <2>5. Fresh(m, engine) => Fresh(mm, engine)
    BY <2>4 DEF Fresh
  <2>6. One(mm.open)
    BY <2>4 DEF ScreenInv
  <2> QED
    BY <1>2, <2>1, <2>4, <2>5, <2>6, BecomesInv DEF mm
<1> QED
  BY <1>3, <1>4

\* The filter stays open, or closes, and the cursor goes to a row that it shows.
LEMMA FilterInv ==
    ASSUME ScreenInv, HandleFilterKey
    PROVE  ScreenInv'
<1>1. On("filter") /\ "filter" \in Range(Takers) /\ "filter" \in Plain /\ "quit" \in Plain
  BY TakerNames DEF HandleFilterKey, Plain
<1>2. m \in Models /\ engine \in Lists /\ m.open = {"filter"} /\ ~m.quit
  BY <1>1, OnIs
<1> DEFINE ss == Shut(m, "filter")
           qq == AskQuit(m)
           Kind(mm) == /\ mm \in Models /\ mm.list = m.list /\ mm.handoffing = m.handoffing
                       /\ mm.open \in {{}, {"filter"}, {"quit"}}
<1>3. ASSUME NEW mm, Kind(mm), Becomes(mm, engine) PROVE ScreenInv'
  <2>1. One(mm.open) /\ mm.open \cap Secrets = {}
    BY <1>1, <1>3, PlainOpens, NothingOpens
  <2> QED
    BY <1>2, <1>3, <2>1, QuietInv
<1>4. Stays(m, ss) /\ ss.open = {}
  BY <1>2, ShutStays
<1>5. /\ qq \in Models /\ qq.list = m.list /\ qq.handoffing = m.handoffing
      /\ \/ qq.quit = TRUE /\ qq.open = {"filter"}
         \/ qq.quit = FALSE /\ qq.open = {"filter", "quit"}
  <2>1. m.quit = FALSE
    BY <1>2 DEF Models
  <2> QED
    BY <1>2, <2>1, AskQuitIs
<1> HIDE DEF ss, qq
<1>6. ASSUME NEW mm, Kind(mm) PROVE Kind(Clamp(mm))
  BY <1>6, ClampStays DEF Stays, StaysOpen
<1>7. CASE \E q \in Queries \cup {None} : Becomes(Clamp([m EXCEPT !.query = q]), engine)
  <2>1. PICK q \in Queries \cup {None} : Becomes(Clamp([m EXCEPT !.query = q]), engine)
    BY <1>7
  <2> DEFINE mm == [m EXCEPT !.query = q]
  <2>2. Kind(mm)
    BY <1>2, QueryStays DEF Stays, StaysOpen
  <2> HIDE DEF mm, Kind
  <2> QED
    BY <1>3, <1>6, <2>1, <2>2 DEF mm
<1>8. CASE Becomes(Clamp([ss EXCEPT !.query = None]), engine)
  <2> DEFINE mm == [ss EXCEPT !.query = None]
  <2>1. Kind(mm)
    BY <1>4, QueryStays DEF Stays, StaysOpen
  <2> HIDE DEF mm, Kind
  <2> QED
    BY <1>3, <1>6, <1>8, <2>1 DEF mm
<1>9. CASE Becomes(Clamp(ss), engine)
  <2>1. Kind(ss)
    BY <1>4 DEF Stays
  <2> HIDE DEF Kind
  <2> QED
    BY <1>3, <1>6, <1>9, <2>1
<1>10. CASE Becomes(IF qq.quit THEN qq ELSE Shut(qq, "filter"), engine)
  <2>1. CASE qq.quit = TRUE
    <3>1. Kind(qq)
      BY <1>5, <2>1
    <3> HIDE DEF Kind
    <3> QED
      BY <1>3, <1>10, <2>1, <3>1
  <2>2. CASE qq.quit = FALSE
    <3>1. Kind(Shut(qq, "filter"))
      BY <1>5, <2>2, ShutStays DEF Stays
    <3> HIDE DEF Kind
    <3> QED
      BY <1>3, <1>10, <2>2, <3>1
  <2> QED
    BY <1>5, <2>1, <2>2
<1> QED
  BY <1>7, <1>8, <1>9, <1>10 DEF HandleFilterKey, ss, qq

\* The user does not want a daemon: quit.
LEMMA ConfirmNoInv ==
    ASSUME ScreenInv, ConfirmNo
    PROVE  ScreenInv'
<1> DEFINE ss == Shut(m, "quit")
           mm == [ss EXCEPT !.quit = TRUE]
<1>1. On("quit") /\ "quit" \in Range(Takers) /\ Becomes(mm, engine)
  BY TakerNames DEF ConfirmNo
<1>2. m \in Models /\ engine \in Lists /\ m.open = {"quit"} /\ ~m.quit
  BY <1>1, OnIs
<1>3. Stays(m, ss) /\ ss.open = {}
  BY <1>2, ShutStays
<1> HIDE DEF ss
<1>4. mm \in Models /\ mm.list = m.list /\ mm.open = {} /\ mm.handoffing = m.handoffing
  BY <1>3 DEF Models, Stays
<1> HIDE DEF mm
<1> QED
  BY <1>1, <1>2, <1>4, ClosingInv

\* The user wants a daemon: a hand-off runs.
LEMMA ConfirmYesInv ==
    ASSUME ScreenInv, ConfirmYes
    PROVE  ScreenInv'
<1> DEFINE ss == Shut(m, "quit")
           mm == [ss EXCEPT !.handoffing = TRUE]
<1>1. On("quit") /\ "quit" \in Range(Takers)
  BY TakerNames DEF ConfirmYes
<1>2. m \in Models /\ m.open = {"quit"}
  BY <1>1, OnIs
<1>3. Stays(m, ss) /\ ss.open = {}
  BY <1>2, ShutStays
<1>4. /\ handoffs < MaxHandoffs /\ m' = mm /\ handoffs' = handoffs + 1
      /\ UNCHANGED <<attach, engine, behind, lost>>
  BY DEF ConfirmYes
<1> HIDE DEF ss
<1>5. mm \in Models /\ mm.open = {} /\ mm.handoffing = TRUE
  BY <1>3 DEF Models, Stays
<1> HIDE DEF mm
<1>6. handoffs' \in 0 .. MaxHandoffs /\ handoffs' > 0
  BY <1>4, BoundsAssumption DEF ScreenInv, TypeOK
<1>7. TypeOK'
  BY <1>4, <1>5, <1>6 DEF ScreenInv, TypeOK
<1> QED
  BY <1>4, <1>5, <1>6, <1>7, NothingOpens DEF ScreenInv, One

\* A hand-off is over: quit.
LEMMA HandoffDoneInv ==
    ASSUME ScreenInv, HandleHandoffDone
    PROVE  ScreenInv'
<1> DEFINE mm == [m EXCEPT !.handoffing = FALSE, !.quit = TRUE]
<1>1. /\ handoffs > 0 /\ m' = mm /\ handoffs' = handoffs - 1
      /\ UNCHANGED <<attach, engine, behind, lost>>
  BY DEF HandleHandoffDone
<1>2. mm \in Models /\ mm.open = m.open /\ mm.handoffing = FALSE /\ mm.quit = TRUE
  BY DEF ScreenInv, TypeOK, Models
<1> HIDE DEF mm
<1>3. handoffs' \in 0 .. MaxHandoffs
  BY <1>1, BoundsAssumption DEF ScreenInv, TypeOK
<1>4. TypeOK'
  BY <1>1, <1>2, <1>3 DEF ScreenInv, TypeOK
<1> QED
  BY <1>1, <1>2, <1>4 DEF ScreenInv, One

\* The tick: the picture is what the engine lists, a prompt may open, and one
\* that nobody waits for closes.
LEMMA TickInv ==
    ASSUME ScreenInv, HandleTick
    PROVE  ScreenInv'
<1> DEFINE m1 == Clamp(Refresh(m, engine))
           m2 == AutoOpenIfPending(m1)
           m3 == Settle(m2, "passphrase")
           m4 == Settle(m3, "password")
           m5 == Forget(m4)
<1>1. /\ m \in Models /\ engine \in Lists /\ One(m.open) /\ ~m.quit /\ behind' = 0 /\ lost' = FALSE
      /\ m' = (IF m.handoffing THEN m ELSE m5)
      /\ UNCHANGED <<attach, engine, handoffs>>
  BY DEF HandleTick, ScreenInv, TypeOK
<1>2. /\ m1 \in Models /\ m1.list = engine /\ m1.open = m.open
      /\ m1.handoffing = m.handoffing /\ m1.quit = m.quit
  BY <1>1, ClampRefresh
<1> HIDE DEF m1
<1>3. Stays(m1, m2) /\ One(m2.open)
  BY <1>1, <1>2, AutoOpenStays
<1> HIDE DEF m2
<1>4. /\ Stays(m2, m3) /\ One(m3.open)
      /\ "passphrase" \in m3.open => Asks(engine, m3.target["passphrase"], "passphrase")
  BY <1>2, <1>3, SettleStays DEF Stays, Secrets
<1> HIDE DEF m3
<1>5. /\ Stays(m3, m4) /\ One(m4.open) /\ m4.open \subseteq m3.open
      /\ "password" \in m4.open => Asks(engine, m4.target["password"], "password")
      /\ "passphrase" \in m4.open => m4.target["passphrase"] = m3.target["passphrase"]
  BY <1>2, <1>3, <1>4, SettleStays DEF Stays, Secrets
<1> HIDE DEF m4
<1>6. StaysOpen(m4, m5)
  BY <1>5, ForgetStays DEF Stays
<1> HIDE DEF m5
<1>7. /\ m5 \in Models /\ m5.list = engine /\ One(m5.open)
      /\ m5.handoffing = m.handoffing /\ m5.quit = m.quit
  BY <1>2, <1>3, <1>4, <1>5, <1>6 DEF Stays, StaysOpen
<1>8. Fresh(m5, engine)
  BY <1>4, <1>5, <1>6, <1>7 DEF Fresh, StaysOpen, Secrets
<1>9. m' \in Models /\ One(m'.open) /\ m'.handoffing = m.handoffing
  BY <1>1, <1>7
<1>10. TypeOK'
  <2>1. behind' \in 0 .. MaxBehind
    BY <1>1, BoundsAssumption
  <2> QED
    BY <1>1, <1>9, <2>1, Zenon DEF ScreenInv, TypeOK
<1>11. ~m'.handoffing => Fresh(m', engine')
  BY <1>1, <1>8, <1>9
<1> QED
  BY <1>1, <1>9, <1>10, <1>11 DEF ScreenInv, One

\* The engine moves: the tick that tells of it is on its way, or lost.
LEMMA MovesInv ==
    ASSUME ScreenInv, NEW e \in Lists, Moves(e)
    PROVE  ScreenInv'
<1>1. engine' = e /\ behind < MaxBehind /\ UNCHANGED <<attach, m, handoffs>>
  BY DEF Moves
<1>2. /\ behind' \in 0 .. MaxBehind /\ lost' \in BOOLEAN /\ (lost' => attach')
      /\ behind' # 0 \/ lost'
  <2>1. CASE behind' = behind + 1 /\ lost' = lost
    <3>1. behind' \in 0 .. MaxBehind /\ behind' # 0
      BY <1>1, <2>1, BoundsAssumption DEF ScreenInv, TypeOK
    <3> QED
      BY <1>1, <2>1, <3>1, Zenon DEF ScreenInv, TypeOK
  <2>2. CASE Untold
    BY <1>1, <2>2, Zenon DEF Untold, ScreenInv, TypeOK
  <2> QED
    BY <2>1, <2>2 DEF Moves
<1>3. TypeOK'
  BY <1>1, <1>2 DEF ScreenInv, TypeOK
<1> QED
  BY <1>1, <1>2, <1>3 DEF ScreenInv, One

\* Both modes open with the picture of what New has just listed.
LEMMA InitScreen == Init => ScreenInv
<1> SUFFICES ASSUME Init PROVE ScreenInv
  OBVIOUS
<1>1. PICK order \in SetToSeqs(Names), up \in SUBSET Names :
        engine = [i \in DOMAIN order |-> New(order[i], order[i] \in up)]
  BY DEF Init
<1> DEFINE n == Cardinality(Names)
<1>2. n \in Nat
  BY NamesAssumption, FS_CardinalityType
<1>3. /\ order \in [1 .. n -> Names]
      /\ \A i, j \in 1 .. n : i # j => order[i] # order[j]
  BY DEF SetToSeqs
<1> HIDE DEF n
<1>4. engine \in [1 .. n -> Tubers] /\ \A i \in 1 .. n : engine[i].name = order[i]
  BY <1>1, <1>3, NewTuber
<1>5. engine \in Seq(Tubers)
  BY <1>2, <1>4, SeqDef
<1>6. engine \in Lists
  BY <1>3, <1>4, <1>5 DEF Lists
<1>7. Blank(engine) \in Models
  BY <1>6 DEF Blank, Models, Keys
<1>8. /\ attach \in BOOLEAN /\ behind = 0 /\ lost = FALSE /\ handoffs = 0 /\ m = Blank(engine)
      /\ m.list = engine /\ m.open = {} /\ m.handoffing = FALSE
  BY DEF Init, Blank
<1>9. TypeOK
  <2>1. 0 \in 0 .. MaxBehind /\ 0 \in 0 .. MaxHandoffs
    BY BoundsAssumption
  <2> QED
    BY <1>6, <1>7, <1>8, <2>1, Zenon DEF TypeOK
<1>10. One(m.open) /\ Fresh(m, engine)
  BY <1>8, NothingOpens DEF Fresh
<1> QED
  BY <1>8, <1>9, <1>10 DEF ScreenInv

\* A dial asks, goes on, or counts a rejection.
LEMMA DialInv ==
    ASSUME ScreenInv, NEW i \in DOMAIN engine, Dial(engine[i])
    PROVE  ScreenInv'
<1> DEFINE t == engine[i]
<1>1. engine \in Lists /\ t \in Tubers
  BY ListShape DEF ScreenInv, TypeOK
<1>2. t.name \in Names /\ Prompts[t.name] \subseteq States /\ "live" \in States
  BY <1>1, PromptsAssumption DEF Tubers, States, Asking, Secrets
<1>3. CASE t.st = "live" /\ \E what \in Prompts[t.name] : Moves(With(engine, t.name, what))
  BY <1>1, <1>2, <1>3, WithList, MovesInv
<1>4. CASE Moves(With(engine, t.name, "live"))
  BY <1>1, <1>2, <1>4, WithList, MovesInv
<1>5. CASE t.tries < MaxTries /\ Moves([engine EXCEPT ![Row(engine, t.name)].tries = @ + 1])
  <2> DEFINE x == Row(engine, t.name)
  <2>1. Has(engine, t.name)
    BY DEF Has
  <2>2. x \in DOMAIN engine /\ engine[x].name = t.name
    BY <1>1, <2>1, RowOf
  <2>3. x = i
    BY <1>1, <2>2, ListShape
  <2>4. [engine EXCEPT ![i].tries = @ + 1] \in Lists
    BY <1>1, <1>5, RejectedList
  <2> QED
    BY <1>5, <2>3, <2>4, MovesInv
<1> QED
  BY <1>3, <1>4, <1>5 DEF Dial

\* Another client of the daemon, or an edit of its file.
LEMMA OtherClientInv ==
    ASSUME ScreenInv, OtherClient
    PROVE  ScreenInv'
<1>1. PICK e \in Edits(engine) \cup Toggles(engine) : Moves(e)
  BY DEF OtherClient
<1>2. e \in Lists
  BY EditsAreLists DEF ScreenInv, TypeOK
<1> QED
  BY <1>1, <1>2, MovesInv

\* The invariant is inductive.
LEMMA NextScreen == ScreenInv /\ [Next]_svars => ScreenInv'
<1> SUFFICES ASSUME ScreenInv, [Next]_svars PROVE ScreenInv'
  OBVIOUS
<1>1. ASSUME ListKey PROVE ScreenInv'
  <2>1. CASE HelpKey \/ SlashKey \/ NewKey \/ LogsKey
    BY <2>1, OpeningInv
  <2>2. CASE RestartKey \/ EnableAll \/ DisableAll
    BY <2>2, TogglingInv
  <2>3. CASE \E up \in BOOLEAN : NavKey(up) \/ ReorderKey(up)
    BY <2>3, NavInv, ReorderInv
  <2>4. CASE \E what \in Secrets : SecretKey(what)
    BY <2>4, SecretKeyInv
  <2>5. CASE QuitKey \/ ClearFilterKey \/ EditKey \/ SpaceKey \/ DeleteKey
    BY <2>5, QuitKeyInv, ClearFilterInv, EditInv, SpaceInv, DeleteKeyInv
  <2> QED
    BY <1>1, <2>1, <2>2, <2>3, <2>4, <2>5 DEF ListKey
<1>2. ASSUME ModalKey PROVE ScreenInv'
  <2>1. CASE EditorSaves \/ EditorEsc
    BY <2>1, EditorInv
  <2>2. CASE LogsClose \/ HelpClose \/ ConfirmEsc
    BY <2>2, ClosesInv
  <2>3. CASE \E yes \in BOOLEAN : DeleteConfirm(yes) \/ AcceptConfirm(yes)
    BY <2>3, DeleteConfirmInv, AcceptConfirmInv
  <2>4. CASE HandlePassphraseKey \/ HandlePasswordKey
    BY <2>4, SecretInv DEF HandlePassphraseKey, HandlePasswordKey, Secrets
  <2>5. CASE HandleFilterKey \/ ConfirmYes \/ ConfirmNo
    BY <2>5, FilterInv, ConfirmYesInv, ConfirmNoInv
  <2> QED
    BY <1>2, <2>1, <2>2, <2>3, <2>4, <2>5 DEF ModalKey
<1>3. CASE UNCHANGED svars
  <2>1. UNCHANGED <<attach, engine, behind, lost, m, handoffs>>
    BY <1>3 DEF svars
  <2> QED
    BY <2>1 DEF ScreenInv, TypeOK, One, Fresh
<1> QED
  BY <1>1, <1>2, <1>3, HandoffDoneInv, TickInv, ReloadInv, DialInv, OtherClientInv DEF Next

\* The invariant holds in every state.
LEMMA ScreenInvariance == Spec => []ScreenInv
  BY InitScreen, NextScreen, PTL DEF Spec

-----------------------------------------------------------------------------
(* What follows.                                                             *)

\* The Model, the list of the engine and the counters keep their types: the
\* names of a list stay distinct, and the cursor is never before the first row.
THEOREM ScreenTypeCorrect == Spec => []TypeOK
<1>1. ScreenInv => TypeOK
  BY DEF ScreenInv
<1> QED
  BY <1>1, ScreenInvariance, PTL

\* At most one screen or prompt is open, whatever keys and ticks come (isBusy).
THEOREM OneThingOnly == Spec => []OneThingAtATime
<1>1. ASSUME One(m.open) PROVE OneThingAtATime
  <2>1. CASE m.open = {}
    BY <2>1, FS_EmptySet DEF OneThingAtATime
  <2>2. CASE m.open # {}
    <3>1. PICK x : m.open = {x}
      BY <1>1, <2>2 DEF One
    <3> QED
      BY <3>1, FS_Singleton DEF OneThingAtATime
  <2> QED
    BY <2>1, <2>2
<1>2. ScreenInv => OneThingAtATime
  BY <1>1 DEF ScreenInv
<1> QED
  BY <1>2, ScreenInvariance, PTL

\* An open secret prompt has a tuber that asks, or a tick on its way that closes
\* it (handleTick), unless an attached interface was not told of a change.
THEOREM PromptsAreWanted == Spec => []PromptIsWanted
<1>1. ScreenInv => PromptIsWanted
  <2> SUFFICES ASSUME ScreenInv, NEW what \in Secrets, what \in m.open, ~m.handoffing, ~m.quit,
                      ~(behind > 0), ~(attach /\ lost)
               PROVE  Asks(engine, m.target[what], what)
    BY DEF PromptIsWanted
  <2>1. behind = 0 /\ ~lost
    BY DEF ScreenInv, TypeOK
  <2> QED
    BY <2>1 DEF ScreenInv, Fresh
<1> QED
  BY <1>1, ScreenInvariance, PTL

-----------------------------------------------------------------------------
(* What a step does not do.                                                  *)

\* A key of the list that leaves the engine alone, or changes in place only
\* tubers that the filter shows.
InSight(e) ==
    DOMAIN e = DOMAIN engine
        /\ \A i \in DOMAIN engine : ~Matches(m, engine[i].name) => e[i] = engine[i]

\* Enable and Disable of shown tubers, ...
LEMMA TogglesInSight ==
    ASSUME NEW S, \A n \in S : Matches(m, n)
    PROVE  InSight(Enabled(engine, S)) /\ InSight(Disabled(engine, S))
<1>1. \A i \in DOMAIN engine : ~Matches(m, engine[i].name) => engine[i].name \notin S
  OBVIOUS
<1>2. /\ DOMAIN Enabled(engine, S) = DOMAIN engine
      /\ \A i \in DOMAIN engine : engine[i].name \notin S => Enabled(engine, S)[i] = engine[i]
  BY DEF Enabled
<1>3. /\ DOMAIN Disabled(engine, S) = DOMAIN engine
      /\ \A i \in DOMAIN engine : engine[i].name \notin S => Disabled(engine, S)[i] = engine[i]
  BY DEF Disabled
<1> QED
  BY <1>1, <1>2, <1>3 DEF InSight

\* ... and Restart of one, are such keys.
LEMMA RestartsInSight ==
    ASSUME NEW n, Matches(m, n)
    PROVE  InSight(Restarted(engine, n))
<1>1. /\ DOMAIN Restarted(engine, n) = DOMAIN engine
      /\ \A i \in DOMAIN engine : engine[i].name # n => Restarted(engine, n)[i] = engine[i]
  BY DEF Restarted, With
<1> QED
  BY <1>1 DEF InSight

\* No key of the list view starts, stops, restarts or moves a tuber that the
\* filter hides (handleKeyPress, matches, hasCurrent).
THEOREM HiddenTubersAreUntouched == Spec => HiddenUntouched
<1> DEFINE Same == \A i \in DOMAIN engine :
                       ~Matches(m, engine[i].name) => i \in DOMAIN engine' /\ engine'[i] = engine[i]
<1>1. ASSUME NEW mm, NEW e, InSight(e), Becomes(mm, e) PROVE Same
  BY <1>1 DEF InSight, Becomes
<1>2. InSight(engine)
  BY DEF InSight
<1>3. ListKey => Same
  <2> HIDE DEF Same
  <2>1. CASE QuitKey \/ HelpKey \/ ClearFilterKey \/ SlashKey \/ NewKey \/ EditKey \/ LogsKey \/ DeleteKey
    BY <1>1, <1>2, <2>1
       DEF QuitKey, HelpKey, ClearFilterKey, SlashKey, NewKey, EditKey, LogsKey, DeleteKey
  <2>2. CASE \E up \in BOOLEAN : NavKey(up)
    BY <1>1, <1>2, <2>2 DEF NavKey
  <2>3. CASE \E what \in Secrets : SecretKey(what)
    BY <1>1, <1>2, <2>3 DEF SecretKey
  <2>4. CASE \E up \in BOOLEAN : ReorderKey(up)
    <3>1. \A n : Matches(m, n)
      BY <2>4 DEF ReorderKey, Matches
    <3> QED
      BY <3>1 DEF Same
  <2>5. CASE SpaceKey
    <3>1. Matches(m, Current(m).name)
      BY <2>5 DEF SpaceKey, HasCurrent
    <3>2. PICK e \in {engine, Enabled(engine, {Current(m).name}), Disabled(engine, {Current(m).name})} :
             \E mm : Becomes(mm, e)
      BY <2>5, Zenon DEF SpaceKey
    <3>3. InSight(e)
      BY <1>2, <3>1, TogglesInSight
    <3> QED
      BY <1>1, <3>2, <3>3
  <2>6. CASE RestartKey
    <3>1. Matches(m, Current(m).name)
      BY <2>6 DEF RestartKey, HasCurrent
    <3>2. PICK e \in {engine, Restarted(engine, Current(m).name)} : Becomes(Refresh(m, e), e)
      BY <2>6 DEF RestartKey
    <3>3. InSight(e)
      BY <1>2, <3>1, RestartsInSight
    <3> QED
      BY <1>1, <3>2, <3>3
  <2>7. CASE EnableAll
    <3>1. PICK S \in SUBSET Shown(TRUE) : Becomes(Refresh(m, Enabled(engine, S)), Enabled(engine, S))
      BY <2>7 DEF EnableAll
    <3>2. \A n \in S : Matches(m, n)
      BY DEF Shown
    <3> QED
      BY <1>1, <3>1, <3>2, TogglesInSight
  <2>8. CASE DisableAll
    <3>1. PICK S \in SUBSET Shown(FALSE) : Becomes(Refresh(m, Disabled(engine, S)), Disabled(engine, S))
      BY <2>8 DEF DisableAll
    <3>2. \A n \in S : Matches(m, n)
      BY DEF Shown
    <3> QED
      BY <1>1, <3>1, <3>2, TogglesInSight
  <2> QED
    BY <2>1, <2>2, <2>3, <2>4, <2>5, <2>6, <2>7, <2>8 DEF ListKey
<1>4. [Next]_svars => [ListKey => Same]_svars
  BY <1>3
<1> QED
  BY <1>4, PTL DEF Spec, HiddenUntouched

\* A Model that goes on, or stops, as the other does.
GoesOn(mm, nn) == "quit" \in DOMAIN nn /\ nn.quit = mm.quit

\* What the Model's helpers leave of it.
LEMMA HelpersGoOn ==
    ASSUME NEW mm, "quit" \in DOMAIN mm
    PROVE  /\ \A e : GoesOn(mm, Refresh(mm, e))
           /\ GoesOn(mm, Clamp(mm)) /\ GoesOn(mm, Forget(mm)) /\ GoesOn(mm, AutoOpenIfPending(mm))
           /\ \A what : /\ GoesOn(mm, Open(mm, what)) /\ GoesOn(mm, Shut(mm, what))
                        /\ GoesOn(mm, ShutOn(mm, what)) /\ GoesOn(mm, ShutSecret(mm, what))
                        /\ GoesOn(mm, Settle(mm, what))
           /\ \A what, n : GoesOn(mm, OpenOn(mm, what, n))
<1>1. \A e : GoesOn(mm, Refresh(mm, e))
  BY DEF GoesOn, Refresh
<1>2. GoesOn(mm, Clamp(mm))
  BY DEF GoesOn, Clamp
<1>3. GoesOn(mm, Forget(mm))
  BY DEF GoesOn, Forget
<1>4. \A what, n : GoesOn(mm, OpenOn(mm, what, n)) /\ GoesOn(mm, Open(mm, what))
  BY DEF GoesOn, Open, OpenOn
<1>5. GoesOn(mm, AutoOpenIfPending(mm))
  BY <1>4 DEF AutoOpenIfPending, GoesOn
<1>6. \A what : GoesOn(mm, Shut(mm, what)) /\ GoesOn(mm, ShutOn(mm, what)) /\ GoesOn(mm, ShutSecret(mm, what))
  BY DEF GoesOn, Shut, ShutOn, ShutSecret
<1>7. \A what : GoesOn(mm, Settle(mm, what))
  <2> TAKE what
  <2>1. GoesOn(mm, [mm EXCEPT !.base[what] = None])
    BY DEF GoesOn
  <2> QED
    BY <1>6, <2>1 DEF Settle, GoesOn
<1> QED
  BY <1>1, <1>2, <1>3, <1>4, <1>5, <1>6, <1>7

\* The steps that do not stop the program.
Stops == QuitKey \/ HandleFilterKey \/ ConfirmNo \/ HandleHandoffDone

\* Every other step leaves the program as it was.
LEMMA OthersGoOn ==
    ASSUME ScreenInv, [Next]_svars
    PROVE  Stops \/ m'.quit = m.quit
<1>0. "quit" \in DOMAIN m
  BY DEF ScreenInv, TypeOK, Models
<1> USE <1>0
<1> DEFINE Goes == m'.quit = m.quit
<1>1. ASSUME NEW mm, NEW e, GoesOn(m, mm), Becomes(mm, e) PROVE Goes
  BY <1>1 DEF GoesOn, Becomes
<1>2. ASSUME NEW mm, NEW nn, GoesOn(m, mm), GoesOn(mm, nn) PROVE GoesOn(m, nn)
  BY <1>2 DEF GoesOn
<1>3. ASSUME NEW mm, GoesOn(m, mm) PROVE "quit" \in DOMAIN mm
  BY <1>3 DEF GoesOn
<1>4. HelpKey \/ SlashKey \/ NewKey \/ LogsKey \/ DeleteKey => Goes
  <2> HIDE DEF Goes
  <2> QED
    BY <1>1, HelpersGoOn DEF HelpKey, SlashKey, NewKey, LogsKey, DeleteKey
<1>5. EditKey => Goes
  BY HelpersGoOn DEF EditKey, Becomes, GoesOn
<1>6. ClearFilterKey => Goes
  <2>1. GoesOn(m, [m EXCEPT !.query = None])
    BY DEF GoesOn
  <2> HIDE DEF Goes
  <2> QED
    BY <1>1, <1>2, <1>3, <2>1, HelpersGoOn DEF ClearFilterKey
<1>7. ASSUME NEW up, NavKey(up) \/ ReorderKey(up) PROVE Goes
  BY <1>7, HelpersGoOn DEF NavKey, ReorderKey, Becomes, GoesOn
<1>8. SpaceKey \/ RestartKey \/ EnableAll \/ DisableAll => Goes
  <2> HIDE DEF Goes
  <2> QED
    BY <1>1, HelpersGoOn DEF SpaceKey, RestartKey, EnableAll, DisableAll
<1>9. ASSUME NEW what, SecretKey(what) PROVE Goes
  <2> HIDE DEF Goes
  <2> QED
    BY <1>1, <1>9, HelpersGoOn DEF SecretKey
<1>10. ReloadKey => Goes
  <2> HIDE DEF Goes
  <2> QED
    BY <1>1, <1>2, <1>3, HelpersGoOn DEF ReloadKey
<1>11. EditorSaves \/ EditorEsc => Goes
  <2>1. GoesOn(m, EditorCloses)
    BY HelpersGoOn DEF GoesOn, EditorCloses
  <2> HIDE DEF Goes
  <2> QED
    BY <1>1, <2>1 DEF EditorSaves, EditorEsc
<1>12. LogsClose \/ HelpClose \/ ConfirmEsc => Goes
  <2> HIDE DEF Goes
  <2> QED
    BY <1>1, HelpersGoOn DEF LogsClose, HelpClose, ConfirmEsc
<1>13. ASSUME NEW yes, DeleteConfirm(yes) PROVE Goes
  <2>1. PICK mm, e : Becomes(mm, e) /\ mm \in {Clamp(Refresh(ShutOn(m, "delete"), e)), ShutOn(m, "delete")}
    BY <1>13 DEF DeleteConfirm
  <2>2. GoesOn(m, mm)
    BY <1>2, <1>3, <2>1, HelpersGoOn
  <2> QED
    BY <1>1, <2>1, <2>2
<1>14. ASSUME NEW yes, AcceptConfirm(yes) PROVE Goes
  <2> DEFINE ss == ShutOn(m, "accept")
             k == PendingKey(m, m.target["accept"])
  <2>1. PICK mm, e : Becomes(mm, e) /\ mm \in {Refresh(ss, e), [ss EXCEPT !.dismissed = k]}
    BY <1>14 DEF AcceptConfirm
  <2>2. GoesOn(m, ss)
    BY HelpersGoOn
  <2> HIDE DEF ss, k
  <2>3. GoesOn(ss, [ss EXCEPT !.dismissed = k]) /\ GoesOn(ss, Refresh(ss, e))
    BY <1>3, <2>2, HelpersGoOn DEF GoesOn
  <2>4. GoesOn(m, mm)
    BY <1>2, <2>1, <2>2, <2>3
  <2> QED
    BY <1>1, <2>1, <2>4
<1>15. ASSUME NEW what, SecretSubmit(what) \/ SecretEsc(what) PROVE Goes
  <2> DEFINE ss == ShutSecret(m, what)
             k == PendingKey(m, m.target[what])
             bb == [m EXCEPT !.base[what] = Tries(m, m.target[what])]
  <2>1. GoesOn(m, ss) /\ GoesOn(m, bb)
    BY HelpersGoOn DEF GoesOn
  <2>2. SecretEsc(what) => Becomes([ss EXCEPT !.dismissed = k], engine)
    BY DEF SecretEsc
  <2>3. SecretSubmit(what) => Becomes(Refresh(bb, engine), engine)
    BY DEF SecretSubmit
  <2> HIDE DEF ss, k, bb
  <2>4. GoesOn(ss, [ss EXCEPT !.dismissed = k]) /\ GoesOn(bb, Refresh(bb, engine))
    BY <1>3, <2>1, HelpersGoOn DEF GoesOn
  <2> HIDE DEF Goes
  <2> QED
    BY <1>1, <1>2, <1>15, <2>1, <2>2, <2>3, <2>4
<1>16. ConfirmYes => Goes
  BY HelpersGoOn DEF ConfirmYes, GoesOn
<1>17. HandleTick => Goes
  <2> DEFINE m1 == Refresh(m, engine)
             m2 == Clamp(m1)
             m3 == AutoOpenIfPending(m2)
             m4 == Settle(m3, "passphrase")
             m5 == Settle(m4, "password")
             m6 == Forget(m5)
  <2>1. HandleTick => m' = m \/ m' = m6
    BY DEF HandleTick
  <2>2. GoesOn(m, m1) /\ GoesOn(m1, m2)
    BY <1>3, HelpersGoOn
  <2>3. GoesOn(m, m2)
    BY <1>2, <2>2
  <2> HIDE DEF m1, m2
  <2>4. GoesOn(m, m3)
    BY <1>2, <1>3, <2>3, HelpersGoOn
  <2> HIDE DEF m3
  <2>5. GoesOn(m, m4)
    BY <1>2, <1>3, <2>4, HelpersGoOn
  <2> HIDE DEF m4
  <2>6. GoesOn(m, m5)
    BY <1>2, <1>3, <2>5, HelpersGoOn
  <2> HIDE DEF m5
  <2>7. GoesOn(m, m6)
    BY <1>2, <1>3, <2>6, HelpersGoOn
  <2> HIDE DEF m6
  <2> QED
    BY <2>1, <2>7 DEF GoesOn
<1>18. ASSUME NEW i, Dial(engine[i]) PROVE Goes
  BY <1>18 DEF Dial, Moves
<1>19. OtherClient \/ UNCHANGED svars => Goes
  BY DEF OtherClient, Moves, svars
<1>20. ListKey => Stops \/ Goes
  <2> HIDE DEF Goes
  <2> QED
    BY <1>4, <1>5, <1>6, <1>7, <1>8, <1>9 DEF ListKey, Stops
<1>21. ModalKey => Stops \/ Goes
  <2> HIDE DEF Goes
  <2> QED
    BY <1>11, <1>12, <1>13, <1>14, <1>15, <1>16
       DEF ModalKey, Stops, HandlePassphraseKey, HandlePasswordKey
<1> HIDE DEF Goes
<1>22. Stops \/ Goes
  BY <1>10, <1>17, <1>18, <1>19, <1>20, <1>21 DEF Next, Stops
<1> QED
  BY <1>22 DEF Goes

\* A standalone interface that quits without having asked, and without a
\* hand-off, leaves no tuber behind that runs, retries or asks (hasLiveTubers).
THEOREM NothingIsLeftBehind == Spec => NoSilentQuit
<1> DEFINE Silent == ~attach /\ m'.quit /\ ~m.quit /\ "quit" \notin m.open /\ handoffs = 0 /\ behind = 0
           Quiet == \A i \in DOMAIN engine : engine[i].st = "off"
<1>1. ASSUME ScreenInv, [Next]_svars, Silent PROVE Quiet
  <2>1. m \in Models /\ m.list = engine /\ m.quit \in BOOLEAN /\ "quit" \in DOMAIN m
    BY <1>1 DEF ScreenInv, TypeOK, Models, Fresh
  <2>2. AskQuit(m).quit => Quiet
    <3>1. CASE HasLiveTubers(m)
      <4>1. AskQuit(m) = Open(m, "quit") /\ GoesOn(m, Open(m, "quit"))
        BY <1>1, <2>1, <3>1, HelpersGoOn DEF AskQuit
      <4> QED
        BY <1>1, <4>1 DEF GoesOn
    <3>2. CASE ~HasLiveTubers(m)
      BY <2>1, <3>2 DEF HasLiveTubers
    <3> QED
      BY <3>1, <3>2
  <2>3. Stops
    BY <1>1, OthersGoOn
  <2>4. CASE QuitKey
    BY <1>1, <2>2, <2>4 DEF QuitKey, Becomes
  <2>5. CASE HandleFilterKey
    <3> DEFINE ss == Shut(m, "filter")
               qq == AskQuit(m)
    <3>1. \/ \E q \in Queries \cup {None} : m' = Clamp([m EXCEPT !.query = q])
          \/ m' = Clamp([ss EXCEPT !.query = None]) \/ m' = Clamp(ss)
          \/ m' = (IF qq.quit THEN qq ELSE Shut(qq, "filter"))
      BY <2>5 DEF HandleFilterKey, Becomes
    <3>2. GoesOn(m, ss) /\ "quit" \in DOMAIN qq
      BY <2>1, HelpersGoOn, AskQuitIs DEF Models
    <3> HIDE DEF ss, qq
    <3>3. ASSUME NEW q PROVE GoesOn(m, Clamp([m EXCEPT !.query = q]))
      <4>1. GoesOn(m, [m EXCEPT !.query = q])
        BY <2>1 DEF GoesOn
      <4> QED
        BY <4>1, HelpersGoOn DEF GoesOn
    <3>4. GoesOn(m, Clamp([ss EXCEPT !.query = None]))
      <4>1. GoesOn(m, [ss EXCEPT !.query = None])
        BY <3>2 DEF GoesOn
      <4> QED
        BY <4>1, HelpersGoOn DEF GoesOn
    <3>5. GoesOn(m, Clamp(ss)) /\ GoesOn(qq, Shut(qq, "filter"))
      BY <3>2, HelpersGoOn DEF GoesOn
    <3>6. m' = qq /\ qq.quit
      BY <1>1, <3>1, <3>3, <3>4, <3>5 DEF GoesOn
    <3> QED
      BY <2>2, <3>6 DEF qq
  <2>6. CASE ConfirmNo
    <3>1. m.open = {"quit"}
      BY <1>1, <2>6, OnIs, TakerNames DEF ConfirmNo
    <3> QED
      BY <1>1, <3>1
  <2>7. CASE HandleHandoffDone
    BY <1>1, <2>7 DEF HandleHandoffDone
  <2> QED
    BY <2>3, <2>4, <2>5, <2>6, <2>7 DEF Stops
<1>2. ScreenInv /\ [Next]_svars => [Silent => Quiet]_svars
  BY <1>1
<1> QED
  BY <1>2, ScreenInvariance, PTL DEF Spec, NoSilentQuit

-----------------------------------------------------------------------------
(* How the interface hears of a change (module ChangeStream). Between the    *)
(* engine's notify and the screen's Show there are three bounded channels;   *)
(* the invariant follows what carries the last change through them.          *)

USE ValuesAssumption, NoListAssumption, ChannelBounds
USE DEF server, client, screen, vars, Modes

\* A signal on its way to the screen, or an admitted stream that will be opened.
Carried ==
    \/ untold \/ queue > 0 \/ wire > 0 \/ signal
    \/ tick = "queued" \/ fetch = "asked"
    \/ mode.attach /\ (handler = "greeting" \/ (handler = "none" /\ admitted))

\* What the next Show will leave is what the engine lists.
Caught == IF fetch = "none" THEN picture = status ELSE fetch = status

\* The code tells nobody: the three exceptions of StaleIsTold.
Untellable == missed \/ Refused \/ late

\* A daemon that is down, or that does not know the client, has no stream.
Streams ==
    /\ daemon = "down" \/ ~admitted => mode.attach /\ handler = "none"
    /\ loop \in {"connect", "sleep"} => handler = "none"
    /\ handler # "streaming" => queue = 0

\* The screen shows, or is about to show, what the engine lists, or the news is
\* on its way, or it is one that the code does not tell.
Told == quit = "no" /\ daemon = "up" => Carried \/ Untellable \/ Caught

StreamInv == CTypeOK /\ Streams /\ Told

\* A screen that opens shows what New has just listed.
LEMMA InitStream == CInit => StreamInv
<1> SUFFICES ASSUME CInit PROVE StreamInv
  OBVIOUS
<1>1. 0 \in 0 .. Buffer /\ 0 \in 0 .. MaxWire
  OBVIOUS
<1>2. CTypeOK
  BY <1>1, Zenon DEF CInit, CTypeOK
<1>3. Streams
  BY DEF CInit, Streams
<1>4. Told
  BY DEF CInit, Told, Caught, Untellable
<1> QED
  BY <1>2, <1>3, <1>4 DEF StreamInv

\* A lost connection leaves the client without a subscription.
LEMMA BrokenStream ==
    ASSUME StreamInv, StreamBroken
    PROVE  /\ queue' = 0 /\ handler' = "none"
           /\ queue' \in 0 .. Buffer /\ wire' \in 0 .. MaxWire
  BY DEF StreamInv, CTypeOK, StreamBroken

\* The invariant is inductive.
LEMMA NextStream == StreamInv /\ [CNext]_vars => StreamInv'
<1> SUFFICES ASSUME StreamInv, [CNext]_vars PROVE StreamInv'
  OBVIOUS
<1> USE DEF StreamInv, CTypeOK, Streams, Told, Caught, Carried, Untellable, Refused
<1>1. CASE Change
  BY <1>1 DEF Change
<1>2. CASE Notify
  <2>1. queue' \in 0 .. Buffer
    BY <1>2 DEF Notify
  <2>2. missed' \in BOOLEAN
    BY <1>2, Zenon DEF Notify, Gap
  <2>3. untold' = FALSE /\ UNCHANGED <<mode, daemon, admitted, status, handler, wire, client, screen>>
    BY <1>2 DEF Notify
  <2>4. CTypeOK'
    <3>1. mode' \in Modes /\ admitted' \in BOOLEAN /\ untold' \in BOOLEAN /\ signal' \in BOOLEAN
      BY <2>3
    <3>2. wire' \in 0 .. MaxWire /\ fetch' \in Values \cup {"none", "asked", "failed"}
      BY <2>3
    <3> QED
      BY <2>1, <2>2, <2>3, <3>1, <3>2, Zenon
  <2>5. Streams' /\ Told'
    BY <1>2 DEF Notify, Gap
  <2> QED
    BY <2>4, <2>5
<1>3. CASE Greet
  BY <1>3 DEF Greet
<1>4. CASE Subscribe
  BY <1>4 DEF Subscribe
<1>5. CASE WriteFrame
  BY <1>5 DEF WriteFrame
<1>6. CASE Break
  BY <1>6, BrokenStream DEF Break
<1>7. CASE DaemonStops
  BY <1>7, BrokenStream DEF DaemonStops
<1>8. CASE DaemonStarts
  BY <1>8 DEF DaemonStarts
<1>9. CASE SubscribeLocal
  BY <1>9 DEF SubscribeLocal
<1>10. CASE Connect
  <2>1. CTypeOK'
    BY <1>10 DEF Connect
  <2>2. Streams' /\ Told'
    BY <1>10 DEF Connect
  <2> QED
    BY <2>1, <2>2
<1>11. CASE ConnectFails
  BY <1>11 DEF ConnectFails
<1>12. CASE Forward
  BY <1>12 DEF Forward
<1>13. CASE StreamEnds
  BY <1>13 DEF StreamEnds
<1>14. CASE Wake
  BY <1>14 DEF Wake
<1>15. CASE Close
  BY <1>15 DEF Close
<1>16. CASE LoopEnds
  BY <1>16, BrokenStream DEF LoopEnds
<1>17. CASE Closed
  BY <1>17 DEF Closed
<1>18. CASE TickArrives
  <2>1. CTypeOK'
    <3>1. /\ mode' \in Modes /\ daemon' \in {"up", "down"} /\ admitted' \in BOOLEAN
          /\ status' \in Values /\ untold' \in BOOLEAN
          /\ handler' \in {"none", "greeting", "subscribing", "streaming"}
          /\ queue' \in 0 .. Buffer /\ wire' \in 0 .. MaxWire
      BY <1>18 DEF TickArrives
    <3>2. /\ loop' \in {"connect", "scan", "sleep", "done"}
          /\ signal' \in BOOLEAN /\ quit' \in {"no", "closing", "closed"}
          /\ tick' \in {"armed", "queued", "running"}
      BY <1>18 DEF TickArrives
    <3>3. /\ fetch' \in Values \cup {"none", "asked", "failed"}
          /\ picture' \in Values \cup {NoList} /\ late' \in BOOLEAN /\ missed' \in BOOLEAN
      BY <1>18 DEF TickArrives
    <3> QED
      BY <3>1, <3>2, <3>3
  <2>2. Streams' /\ Told'
    BY <1>18 DEF TickArrives
  <2> QED
    BY <2>1, <2>2
<1>19. CASE TickHandled
  BY <1>19 DEF TickHandled
<1>20. CASE HandleKey
  BY <1>20 DEF HandleKey
<1>21. CASE Answer
  <2>1. fetch' \in Values \cup {"none", "asked", "failed"}
    BY <1>21 DEF Answer
  <2>2. CTypeOK'
    <3>1. /\ mode' \in Modes /\ daemon' \in {"up", "down"} /\ admitted' \in BOOLEAN
          /\ status' \in Values /\ untold' \in BOOLEAN
          /\ handler' \in {"none", "greeting", "subscribing", "streaming"}
          /\ queue' \in 0 .. Buffer /\ wire' \in 0 .. MaxWire
      BY <1>21 DEF Answer
    <3>2. /\ loop' \in {"connect", "scan", "sleep", "done"}
          /\ signal' \in BOOLEAN /\ quit' \in {"no", "closing", "closed"}
          /\ tick' \in {"armed", "queued", "running"}
      BY <1>21 DEF Answer
    <3>3. picture' \in Values \cup {NoList} /\ late' \in BOOLEAN /\ missed' \in BOOLEAN
      BY <1>21 DEF Answer
    <3> QED
      BY <2>1, <3>1, <3>2, <3>3
  <2>3. Streams' /\ Told'
    BY <1>21 DEF Answer
  <2> QED
    BY <2>2, <2>3
<1>22. CASE TimesOut
  BY <1>22 DEF TimesOut
<1>23. CASE Show
  BY <1>23 DEF Show
<1>24. CASE UNCHANGED vars
  BY <1>24
<1> HIDE DEF StreamInv
<1> QED
  BY <1>1, <1>2, <1>3, <1>4, <1>5, <1>6, <1>7, <1>8, <1>9, <1>10, <1>11, <1>12,
     <1>13, <1>14, <1>15, <1>16, <1>17, <1>18, <1>19, <1>20, <1>21, <1>22, <1>23, <1>24 DEF CNext

\* The invariant holds in every state.
LEMMA StreamInvariance == CSpec => []StreamInv
  BY InitStream, NextStream, PTL DEF CSpec

\* The channels stay within their capacity, whatever breaks: the engine's
\* subscriber channel, the frames on the wire, the one signal of Changes.
THEOREM StreamTypeCorrect == CSpec => []CTypeOK
<1>1. StreamInv => CTypeOK
  BY DEF StreamInv
<1> QED
  BY <1>1, StreamInvariance, PTL

\* Coalescing, breaks and restarts lose no last change: a picture that differs
\* from what the engine lists has a signal, a frame, a tick or a list on its way,
\* or an admitted stream that will be dialled again, unless the code tells nobody:
\* a change in the gap around a subscription, a client whose token is refused, a
\* list that timed out (notify, handleEvents, streamLoop, List).
THEOREM StaleIsAlwaysTold == CSpec => []StaleIsTold
<1>1. StreamInv => StaleIsTold
  BY DEF StreamInv, CTypeOK, Told, Caught, Carried, Untellable, StaleIsTold, OnItsWay
<1> QED
  BY <1>1, StreamInvariance, PTL
=============================================================================

--------------------------- MODULE SshImportProofs ---------------------------
(***************************************************************************)
(* Proofs about the import of ssh forwards (modules SshConfig, SshImport). *)
(* The filter, the reader, the scan and the plan each go through a sequence *)
(* from its first element to its last; CountUp and StepsExist are what is   *)
(* needed of such definitions, both from the fact that a set of numbers     *)
(* has a least one. Over them:                                              *)
(*   - the filter and OpenSSH go through a file side by side (Alongside),   *)
(*     so what is kept for an alias says what is read for it (TextReads),   *)
(*     unless what follows an Include may stand in a block of the included  *)
(*     file (WellIncluded);                                                 *)
(*   - hence the import takes only what OpenSSH sets up (MeansTheSame), and *)
(*     hosts that are compared are hosts that are reached (HostsAgree);     *)
(*   - a plan is apart from the file it was made of and apart in itself     *)
(*     (PlanIs), and stays so while it is written (PlanInv), so nothing is  *)
(*     imported twice (NothingTwice).                                       *)
(***************************************************************************)
EXTENDS SshImport, SequenceTheorems, FiniteSetTheorems, WellFoundedInduction, TLAPS

-----------------------------------------------------------------------------
(* Counting up, and definitions that count up.                               *)

\* A set of indices has a first one.
LEMMA MinIndex ==
    ASSUME NEW S \in SUBSET Nat, S # {}
    PROVE  Min(S) \in S /\ \A y \in S : Min(S) <= y
<1>1. PICK x \in S : \A y \in S : <<y, x>> \notin OpToRel(<, Nat)
  BY NatLessThanWellFounded, WFMin
<1>2. \A y \in S : ~(y < x)
  BY <1>1 DEF OpToRel
<1>3. \A y \in S : x <= y
  BY <1>2
<1> QED
  BY <1>3 DEF Min

\* ... and it is the one that is before every other.
LEMMA MinIs ==
    ASSUME NEW S \in SUBSET Nat, NEW x \in S, \A y \in S : x <= y
    PROVE  Min(S) = x
<1>1. Min(S) \in S /\ Min(S) <= x
  BY MinIndex
<1>2. x <= Min(S) /\ x \in Nat /\ Min(S) \in Nat
  BY <1>1
<1> HIDE DEF Min
<1> QED
  BY <1>1, <1>2

\* A bounded set of indices has a last one: the first from the end.
LEMMA MaxIndex ==
    ASSUME NEW n \in Nat, NEW S \in SUBSET (0 .. n), S # {}
    PROVE  Max(S) \in S /\ \A y \in S : Max(S) >= y
<1> DEFINE R == {k \in Nat : n - k \in S}
<1>1. R # {}
  <2>1. PICK y \in S : TRUE
    OBVIOUS
  <2>2. n - y \in R
    BY <2>1
  <2> QED
    BY <2>2
<1>2. Min(R) \in R /\ \A k \in R : Min(R) <= k
  BY <1>1, MinIndex
<1> DEFINE x == n - Min(R)
<1>3. x \in S /\ \A y \in S : x >= y
  <2>1. \A y \in S : n - y \in R
    OBVIOUS
  <2> QED
    BY <1>2, <2>1
<1> HIDE DEF x
<1> QED
  BY <1>3 DEF Max

\* What holds of 0 and goes on from each number to the next holds up to N.
LEMMA CountUp ==
    ASSUME NEW N \in Nat, NEW T, 0 \in T, \A n \in 1 .. N : n - 1 \in T => n \in T
    PROVE  0 .. N \subseteq T
<1> SUFFICES ASSUME (0 .. N) \ T # {} PROVE FALSE
  OBVIOUS
<1> DEFINE S == (0 .. N) \ T
           x == Min(S)
<1>1. x \in S /\ \A y \in S : x <= y
  BY MinIndex
<1> HIDE DEF x
<1>2. x \in 1 .. N /\ x - 1 \in 0 .. N
  BY <1>1
<1>3. x - 1 \notin S
  BY <1>1, <1>2
<1> QED
  BY <1>1, <1>2, <1>3

\* What counting up to N makes of a start, one step at a time.
Steps(g, N, S, base, step) ==
    /\ g \in [0 .. N -> S] /\ g[0] = base
    /\ \A n \in 1 .. N : g[n] = step[<<n, g[n - 1]>>]

\* A step that stays in S counts up from any start in S.
LEMMA StepsExist ==
    ASSUME NEW N \in Nat, NEW S, NEW base \in S, NEW step \in [(1 .. N) \X S -> S]
    PROVE  \E g : Steps(g, N, S, base, step)
<1> DEFINE Good(n, g) == /\ g \in [0 .. n -> S] /\ g[0] = base
                         /\ \A k \in 1 .. n : g[k] = step[<<k, g[k - 1]>>]
           T == {n \in 0 .. N : \E g : Good(n, g)}
<1>1. 0 \in T
  <2>1. Good(0, [k \in 0 .. 0 |-> base]) /\ 0 \in 0 .. N
    OBVIOUS
  <2> HIDE DEF Good
  <2> QED
    BY <2>1
<1>2. ASSUME NEW n \in 1 .. N, n - 1 \in T PROVE n \in T
  <2>1. PICK g : Good(n - 1, g)
    BY <1>2
  <2> DEFINE v == step[<<n, g[n - 1]>>]
             h == [k \in 0 .. n |-> IF k = n THEN v ELSE g[k]]
  <2>2. n - 1 \in 0 .. (n - 1) /\ g[n - 1] \in S
    BY <2>1
  <2>3. v \in S
    BY <2>2
  <2> HIDE DEF v
  <2>4. h \in [0 .. n -> S] /\ h[0] = base
    BY <2>1, <2>3
  <2>5. ASSUME NEW k \in 1 .. n PROVE h[k] = step[<<k, h[k - 1]>>]
    <3>1. CASE k = n
      <4>1. h[n] = v /\ h[n - 1] = g[n - 1]
        BY <2>2
      <4> QED
        BY <3>1, <4>1 DEF v
    <3>2. CASE k # n
      BY <2>1, <3>2
    <3> QED
      BY <3>1, <3>2
  <2> HIDE DEF h
  <2>6. Good(n, h)
    BY <2>4, <2>5
  <2>7. n \in 0 .. N
    OBVIOUS
  <2> HIDE DEF Good
  <2> QED
    BY <2>6, <2>7
<1> HIDE DEF Good
<1>3. N \in T
  <2>1. 0 .. N \subseteq T
    BY <1>1, <1>2, CountUp
  <2> QED
    BY <2>1
<1> QED
  BY <1>3 DEF Good, Steps

-----------------------------------------------------------------------------
(* The filter.                                                               *)

\* The filter's state: whether it is in a dropped block, and what it keeps.
Filters == [skipping : BOOLEAN, out : Seq(Lines)]

\* A line makes of what is kept so far lines that are kept.
LEMMA FilterLineKeeps ==
    ASSUME NEW s \in Filters, NEW line \in Lines, NEW included \in Seq(Lines)
    PROVE  FilterLine(s, line, included) \in Filters
<1>1. s.out \in Seq(Lines) /\ s.skipping \in BOOLEAN
  BY DEF Filters
<1>2. Append(s.out, line) \in Seq(Lines) /\ <<line>> \in Seq(Lines)
  BY <1>1, AppendProperties
<1>3. s.out \o included \in Seq(Lines) /\ s.out \o <<line>> \in Seq(Lines)
  BY <1>1, <1>2, ConcatProperties
<1> QED
  BY <1>1, <1>2, <1>3 DEF FilterLine, Filters

\* The filter goes through the file line by line.
LEMMA FilterFileSteps ==
    ASSUME NEW lines \in Seq(Lines), NEW included \in Seq(Lines)
    PROVE  \E f \in [0 .. Len(lines) -> Filters] :
              /\ f[0] = [skipping |-> FALSE, out |-> <<>>]
              /\ \A n \in 1 .. Len(lines) : f[n] = FilterLine(f[n - 1], lines[n], included)
              /\ FilterFile(lines, included) = f[Len(lines)].out
<1> DEFINE N == Len(lines)
           base == [skipping |-> FALSE, out |-> <<>>]
           step == [p \in (1 .. N) \X Filters |-> FilterLine(p[2], lines[p[1]], included)]
           Body(g) == [n \in 0 .. N |-> IF n = 0 THEN base ELSE FilterLine(g[n - 1], lines[n], included)]
           after == CHOOSE g : g = Body(g)
<1>1. N \in Nat /\ \A n \in 1 .. N : lines[n] \in Lines
  BY LenProperties
<1>2. base \in Filters
  BY EmptySeq DEF Filters
<1>3. step \in [(1 .. N) \X Filters -> Filters]
  BY <1>1, FilterLineKeeps
<1>4. FilterFile(lines, included) = after[N].out
  BY DEF FilterFile
<1> HIDE DEF N, base
<1>5. PICK g : Steps(g, N, Filters, base, step)
  <2> HIDE DEF step
  <2> QED
    BY <1>1, <1>2, <1>3, StepsExist
<1>6. ASSUME NEW n \in 1 .. N
      PROVE  g[n] = FilterLine(g[n - 1], lines[n], included)
  <2>1. n - 1 \in 0 .. N
    BY <1>1
  <2> QED
    BY <1>5, <2>1 DEF Steps
<1>7. g = Body(g)
  <2>1. ASSUME NEW n \in 0 .. N
        PROVE  g[n] = IF n = 0 THEN base ELSE FilterLine(g[n - 1], lines[n], included)
    BY <1>1, <1>5, <1>6 DEF Steps
  <2> QED
    BY <1>5, <2>1 DEF Steps
<1>8. after = Body(after)
  BY <1>7
<1> HIDE DEF after, step
<1>9. /\ after[0] = base
      /\ \A n \in 1 .. N : after[n] = FilterLine(after[n - 1], lines[n], included)
  BY <1>1, <1>8
<1>10. \A n \in 0 .. N : after[n] \in Filters
  <2> DEFINE T == {n \in 0 .. N : after[n] \in Filters}
  <2>1. 0 \in T
    BY <1>1, <1>2, <1>9
  <2>2. ASSUME NEW n \in 1 .. N, n - 1 \in T PROVE n \in T
    <3>1. after[n - 1] \in Filters /\ lines[n] \in Lines /\ n \in 0 .. N
      BY <1>1, <2>2
    <3>2. after[n] \in Filters
      BY <1>9, <3>1, FilterLineKeeps
    <3> QED
      BY <3>1, <3>2
  <2> HIDE DEF T
  <2>3. 0 .. N \subseteq T
    BY <1>1, <2>1, <2>2, CountUp
  <2> QED
    BY <2>3 DEF T
<1>11. after \in [0 .. N -> Filters]
  BY <1>8, <1>10
<1> QED
  BY <1>4, <1>9, <1>11 DEF N, base

-----------------------------------------------------------------------------
(* The scan.                                                                 *)

\* What a header and a forward look like.
LEMMA LineForms ==
    ASSUME NEW line \in Lines
    PROVE  /\ line.word = "Host" => \E p \in Aliases \cup {Every} : line = Host(p)
           /\ line.word = "Forward" => \E f \in Forwards : line = Forward(f)
           /\ line.word \in {"Host", "Match", "Include", "HostName", "Forward"}
           /\ line.word = "Include" <=> line = Include
           /\ line.word = "HostName" => line.arg \in Machines
  BY DEF Lines, Host, MatchAll, MatchExec, Include, HostName, Forward

\* The header of a line is a header of its file, or the preamble's.
LEMMA HeaderIs ==
    ASSUME NEW lines \in Seq(Lines), NEW i \in 0 .. Len(lines)
    PROVE  /\ HeaderOf(lines, i) \in Lines
           /\ HeaderOf(lines, i).word \in {"Host", "Match"}
<1> DEFINE above == {j \in 1 .. i : IsHeader(lines[j])}
<1>1. CASE above = {}
  BY <1>1 DEF HeaderOf, Lines, Host
<1>2. CASE above # {}
  <2>1. above \in SUBSET (0 .. i) /\ i \in Nat
    BY LenProperties
  <2>2. Max(above) \in above
    BY <1>2, <2>1, MaxIndex
  <2>3. HeaderOf(lines, i) = lines[Max(above)]
    BY <1>2 DEF HeaderOf
  <2>4. Max(above) \in 1 .. Len(lines)
    BY <2>2, LenProperties
  <2> QED
    BY <2>2, <2>3, <2>4, ElementOfSeq DEF IsHeader
<1> QED
  BY <1>1, <1>2

\* What a file declares: a forward in a block that names an alias.
Declared(lines) ==
    {c \in [ssh : Aliases, forward : Forwards] :
        \E i \in DOMAIN lines : lines[i] = Forward(c.forward) /\ HeaderOf(lines, i) = Host(c.ssh)}

\* The scan finds what the file declares.
LEMMA ScanFinds ==
    ASSUME NEW lines \in Seq(Lines)
    PROVE  Scan(lines) \in Seq(Declared(lines))
<1> DEFINE N == Len(lines)
           S == Seq(Declared(lines))
           c(n) == [ssh |-> HeaderOf(lines, n).arg, forward |-> lines[n].arg]
           new(n, s) == /\ lines[n].word = "Forward" /\ Named(HeaderOf(lines, n))
                        /\ ~Contains(s, c(n))
           next(n, s) == IF new(n, s) THEN Append(s, c(n)) ELSE s
           step == [p \in (1 .. N) \X S |-> next(p[1], p[2])]
           Body(g) == [n \in 0 .. N |-> IF n = 0 THEN <<>> ELSE next(n, g[n - 1])]
           found == CHOOSE g : g = Body(g)
<1>1. N \in Nat /\ DOMAIN lines = 1 .. N /\ \A n \in 1 .. N : lines[n] \in Lines
  BY LenProperties
<1>2. ASSUME NEW n \in 1 .. N, NEW s \in S PROVE next(n, s) \in S
  <2> SUFFICES ASSUME new(n, s) PROVE Append(s, c(n)) \in S
    OBVIOUS
  <2>1. n \in 0 .. N /\ n \in DOMAIN lines
    BY <1>1
  <2>2. PICK f \in Forwards : lines[n] = Forward(f)
    BY <1>1, LineForms
  <2>3. PICK p \in Aliases \cup {Every} : HeaderOf(lines, n) = Host(p)
    BY <2>1, HeaderIs, LineForms DEF Named
  <2>4. p \in Aliases /\ c(n) = [ssh |-> p, forward |-> f]
    BY <2>2, <2>3 DEF Host, Forward, Named
  <2>5. c(n) \in Declared(lines)
    BY <2>1, <2>2, <2>3, <2>4 DEF Declared
  <2> HIDE DEF c
  <2> QED
    BY <2>5, AppendProperties
<1>3. Scan(lines) = found[N]
  BY DEF Scan
<1>4. <<>> \in S
  BY EmptySeq
<1>5. step \in [(1 .. N) \X S -> S]
  <2> HIDE DEF new, next, c, S, N
  <2> QED
    BY <1>2
<1> HIDE DEF new, next, c, S, N
<1>6. PICK g : Steps(g, N, S, <<>>, step)
  <2> HIDE DEF step
  <2> QED
    BY <1>1, <1>4, <1>5, StepsExist
<1>7. g = Body(g)
  <2>1. ASSUME NEW n \in 1 .. N
        PROVE  g[n] = next(n, g[n - 1])
    <3>1. n - 1 \in 0 .. N
      BY <1>1
    <3> QED
      BY <1>6, <3>1 DEF Steps
  <2>2. ASSUME NEW n \in 0 .. N
        PROVE  g[n] = IF n = 0 THEN <<>> ELSE next(n, g[n - 1])
    BY <1>1, <1>6, <2>1 DEF Steps
  <2> QED
    BY <1>6, <2>2 DEF Steps
<1>8. found = Body(found)
  BY <1>7
<1> HIDE DEF found, step
<1>9. /\ found[0] = <<>>
      /\ \A n \in 1 .. N : found[n] = next(n, found[n - 1])
  BY <1>1, <1>8
<1> DEFINE T == {n \in 0 .. N : found[n] \in S}
<1>10. 0 \in T
  BY <1>1, <1>4, <1>9
<1>11. ASSUME NEW n \in 1 .. N, n - 1 \in T PROVE n \in T
  <2>1. found[n - 1] \in S /\ n \in 0 .. N
    BY <1>1, <1>11
  <2>2. found[n] \in S
    BY <1>2, <1>9, <2>1
  <2> QED
    BY <2>1, <2>2
<1>12. N \in T
  <2> HIDE DEF T
  <2>1. 0 .. N \subseteq T
    BY <1>1, <1>10, <1>11, CountUp
  <2> QED
    BY <1>1, <2>1
<1> QED
  BY <1>3, <1>12 DEF S

-----------------------------------------------------------------------------
(* The plan.                                                                 *)

\* A tuber that is not what another is for, the hosts being what they are, and
\* not called like it.
Apart(h, t, u) ==
    t.name # u.name /\ <<t.type, ListenAddr(t), h[t.ssh]>> # <<u.type, ListenAddr(u), h[u.ssh]>>

\* The names of a file are finitely many.
LEMMA NamesFinite ==
    ASSUME NEW s \in Seq(Tubers)
    PROVE  /\ IsFiniteSet(Names(s)) /\ Cardinality(Names(s)) \in Nat
           /\ Names(s) \subseteq TuberNames
<1> DEFINE f == [i \in 1 .. Len(s) |-> s[i].name]
<1>1. Len(s) \in Nat /\ DOMAIN s = 1 .. Len(s) /\ \A i \in 1 .. Len(s) : s[i] \in Tubers
  BY LenProperties
<1>2. f \in Surjection(1 .. Len(s), Names(s))
  BY <1>1 DEF Surjection, Names
<1>3. IsFiniteSet(1 .. Len(s))
  BY <1>1, FS_Interval
<1> HIDE DEF f
<1>4. IsFiniteSet(Names(s))
  BY <1>2, <1>3, FS_Surjection
<1> QED
  BY <1>1, <1>4, FS_CardinalityType DEF Names, Tubers

\* There is a free number, so tuberName's loop ends, and takes the first.
LEMMA TuberNameIsFree ==
    ASSUME NEW s \in Seq(Tubers), NEW c \in Candidates
    PROVE  TuberName(c, Names(s)) \in TuberNames /\ TuberName(c, Names(s)) \notin Names(s)
<1> DEFINE taken == Names(s)
           k == Cardinality(taken)
           b == Base(c)
           free == {n \in 1 .. k + 1 : <<b, n>> \notin taken}
<1>1. IsFiniteSet(taken) /\ k \in Nat
  BY NamesFinite
<1>2. free # {}
  <2> SUFFICES ASSUME \A n \in 1 .. k + 1 : <<b, n>> \in taken PROVE FALSE
    OBVIOUS
  <2> DEFINE f == [n \in 1 .. k + 1 |-> <<b, n>>]
  <2>1. f \in [1 .. k + 1 -> taken]
    OBVIOUS
  <2>2. IsFiniteSet(1 .. k + 1) /\ Cardinality(1 .. k + 1) = k + 1
    <3> HIDE DEF k
    <3>1. 1 \in Int /\ k + 1 \in Int /\ ~(1 > k + 1) /\ k + 1 - 1 + 1 = k + 1
      BY <1>1
    <3> QED
      BY <3>1, FS_Interval
  <2>3. Cardinality(taken) < Cardinality(1 .. k + 1)
    BY <1>1, <2>2
  <2> HIDE DEF f, k, taken
  <2>4. \E x, y \in 1 .. k + 1 : x # y /\ f[x] = f[y]
    BY <1>1, <2>1, <2>2, <2>3, FS_PigeonHole
  <2> QED
    BY <2>4 DEF f
<1>3. free \in SUBSET Nat
  BY <1>1
<1>4. Min(free) \in free
  BY <1>2, <1>3, MinIndex
<1>5. TuberName(c, taken) = <<b, Min(free)>>
  BY DEF TuberName
<1>6. b \in Aliases \X {"local", "remote"}
  BY FormsAssumption DEF Candidates, Base
<1> HIDE DEF b, taken, k
<1>7. Min(free) \in Nat \ {0}
  BY <1>1, <1>4
<1> QED
  BY <1>4, <1>5, <1>6, <1>7 DEF TuberNames, taken

\* What is planned for a candidate is a tuber with a name of its own.
LEMMA PlannedIs ==
    ASSUME NEW s \in Seq(Tubers), NEW c \in Candidates
    PROVE  Planned(s, c) \in Tubers /\ \A i \in DOMAIN s : s[i].name # Planned(s, c).name
<1> DEFINE name == TuberName(c, Names(s))
<1>1. name \in TuberNames /\ name \notin Names(s)
  BY TuberNameIsFree
<1> HIDE DEF name
<1>2. c.ssh \in Targets /\ c.forward.type \in {"local", "remote"}
      /\ c.forward.bind \in {"bare", "loopback", "wildcard", "colon"}
  BY FormsAssumption DEF Candidates, Targets
<1>3. ParseForward(c.forward) \in {"bare", "colon", "loopback", "wildcard", "malformed"}
  BY <1>2 DEF ParseForward
<1>4. Planned(s, c) = [name |-> name, ssh |-> c.ssh, type |-> c.forward.type,
                       listen |-> ParseForward(c.forward)]
  BY DEF Planned, Tuber, name
<1> QED
  BY <1>1, <1>2, <1>3, <1>4 DEF Tubers, Names

\* The file and the tubers planned behind it: each of these is apart from all
\* that come before.
Grown(s, all) ==
    /\ all \in Seq(Tubers) /\ Len(s) <= Len(all)
    /\ \A i \in 1 .. Len(s) : all[i] = s[i]
    /\ \A i, j \in 1 .. Len(all) : i < j /\ Len(s) < j => Apart(host, all[i], all[j])

\* A candidate makes it no less so.
LEMMA AddGrows ==
    ASSUME NEW s \in Seq(Tubers), NEW all, Grown(s, all), NEW c \in Candidates
    PROVE  Grown(s, AddUnlessCovered(all, c))
<1> DEFINE p == Planned(all, c)
           u == Append(all, p)
<1>1. /\ Len(s) \in Nat /\ Len(all) \in Nat /\ DOMAIN all = 1 .. Len(all)
      /\ all \in Seq(Tubers) /\ Len(s) <= Len(all)
      /\ \A i \in 1 .. Len(s) : all[i] = s[i]
      /\ \A i, j \in 1 .. Len(all) : i < j /\ Len(s) < j => Apart(host, all[i], all[j])
  BY LenProperties DEF Grown
<1>2. p \in Tubers /\ \A i \in 1 .. Len(all) : all[i].name # p.name
  BY <1>1, PlannedIs
<1>3. CASE \E t \in ToSet(all) : CoverageKey(t) = CoverageKey(p)
  BY <1>3 DEF AddUnlessCovered
<1>4. CASE ~\E t \in ToSet(all) : CoverageKey(t) = CoverageKey(p)
  <2>1. AddUnlessCovered(all, c) = u
    BY <1>4 DEF AddUnlessCovered
  <2>2. \A i \in 1 .. Len(all) : CoverageKey(all[i]) # CoverageKey(p)
    BY <1>1, <1>4 DEF ToSet
  <2> HIDE DEF p
  <2>3. \A i \in 1 .. Len(all) : Apart(host, all[i], p)
    BY <1>2, <2>2 DEF Apart, CoverageKey
  <2>4. /\ u \in Seq(Tubers) /\ Len(u) = Len(all) + 1
        /\ \A i \in 1 .. Len(all) : u[i] = all[i]
        /\ u[Len(all) + 1] = p
    BY <1>1, <1>2, AppendProperties
  <2> HIDE DEF u
  <2>5. ASSUME NEW i \in 1 .. Len(u), NEW j \in 1 .. Len(u), i < j, Len(s) < j
        PROVE  Apart(host, u[i], u[j])
    <3>1. i \in 1 .. Len(all)
      BY <1>1, <2>4, <2>5
    <3>2. CASE j = Len(all) + 1
      BY <2>3, <2>4, <3>1, <3>2
    <3>3. CASE j # Len(all) + 1
      <4>1. j \in 1 .. Len(all)
        BY <1>1, <2>4, <3>3
      <4> QED
        BY <1>1, <2>4, <2>5, <3>1, <4>1
    <3> QED
      BY <3>2, <3>3
  <2>6. \A i \in 1 .. Len(s) : u[i] = s[i]
    BY <1>1, <2>4
  <2>7. Len(s) <= Len(u)
    BY <1>1, <2>4
  <2> QED
    BY <2>1, <2>4, <2>5, <2>6, <2>7 DEF Grown
<1> QED
  BY <1>3, <1>4

\* The plan goes through the candidates one by one.
LEMMA PlanGrows ==
    ASSUME NEW s \in Seq(Tubers), cands \in Seq(Candidates)
    PROVE  \E all : Grown(s, all) /\ PlanImport(s) = SubSeq(all, Len(s) + 1, Len(all))
<1> DEFINE N == Len(cands)
           S == {all \in Seq(Tubers) : Grown(s, all)}
           step == [p \in (1 .. N) \X S |-> AddUnlessCovered(p[2], cands[p[1]])]
           Body(g) == [n \in 0 .. N |-> IF n = 0 THEN s ELSE AddUnlessCovered(g[n - 1], cands[n])]
           sofar == CHOOSE g : g = Body(g)
<1>1. N \in Nat /\ \A n \in 1 .. N : cands[n] \in Candidates
  BY LenProperties
<1>2. ASSUME NEW all \in S, NEW c \in Candidates PROVE AddUnlessCovered(all, c) \in S
  BY AddGrows DEF Grown
<1>3. s \in S
  BY LenProperties DEF Grown
<1>4. PlanImport(s) = SubSeq(sofar[N], Len(s) + 1, Len(sofar[N]))
  BY DEF PlanImport
<1> HIDE DEF N, S
<1>5. step \in [(1 .. N) \X S -> S]
  BY <1>1, <1>2
<1>6. PICK g : Steps(g, N, S, s, step)
  <2> HIDE DEF step
  <2> QED
    BY <1>1, <1>3, <1>5, StepsExist
<1>7. g = Body(g)
  <2>1. ASSUME NEW n \in 1 .. N PROVE g[n] = AddUnlessCovered(g[n - 1], cands[n])
    <3>1. n - 1 \in 0 .. N
      BY <1>1
    <3> QED
      BY <1>6, <3>1 DEF Steps
  <2>2. ASSUME NEW n \in 0 .. N
        PROVE  g[n] = IF n = 0 THEN s ELSE AddUnlessCovered(g[n - 1], cands[n])
    BY <1>1, <1>6, <2>1 DEF Steps
  <2> QED
    BY <1>6, <2>2 DEF Steps
<1>8. sofar = Body(sofar)
  BY <1>7
<1> HIDE DEF sofar, step
<1>9. sofar[0] = s /\ \A n \in 1 .. N : sofar[n] = AddUnlessCovered(sofar[n - 1], cands[n])
  BY <1>1, <1>8
<1> DEFINE T == {n \in 0 .. N : sofar[n] \in S}
<1>10. 0 \in T
  BY <1>1, <1>3, <1>9
<1>11. ASSUME NEW n \in 1 .. N, n - 1 \in T PROVE n \in T
  <2>1. sofar[n - 1] \in S /\ n \in 0 .. N /\ cands[n] \in Candidates
    BY <1>1, <1>11
  <2>2. sofar[n] \in S
    BY <1>2, <1>9, <2>1
  <2> QED
    BY <2>1, <2>2
<1>12. sofar[N] \in S
  <2> HIDE DEF T
  <2>1. 0 .. N \subseteq T
    BY <1>1, <1>10, <1>11, CountUp
  <2> QED
    BY <1>1, <2>1 DEF T
<1> QED
  BY <1>4, <1>12 DEF S

\* What the plan adds: tubers, each apart from the file and from the others.
LEMMA PlanIs ==
    ASSUME NEW s \in Seq(Tubers), cands \in Seq(Candidates)
    PROVE  /\ PlanImport(s) \in Seq(Tubers)
           /\ \A i \in DOMAIN s, j \in DOMAIN PlanImport(s) : Apart(host, s[i], PlanImport(s)[j])
           /\ \A i, j \in DOMAIN PlanImport(s) : i < j => Apart(host, PlanImport(s)[i], PlanImport(s)[j])
<1>1. PICK all : Grown(s, all) /\ PlanImport(s) = SubSeq(all, Len(s) + 1, Len(all))
  BY PlanGrows
<1> DEFINE p == PlanImport(s)
           a == Len(s)
           z == Len(all)
<1>2. /\ a \in Nat /\ z \in Nat /\ a <= z /\ DOMAIN s = 1 .. a
      /\ \A i \in 1 .. z : all[i] \in Tubers
      /\ \A i \in 1 .. a : all[i] = s[i]
      /\ \A i, j \in 1 .. z : i < j /\ a < j => Apart(host, all[i], all[j])
  BY <1>1, LenProperties DEF Grown
<1> HIDE DEF a, z
<1>3. /\ p \in Seq(Tubers) /\ Len(p) = (IF a + 1 <= z THEN z - (a + 1) + 1 ELSE 0)
      /\ \A i \in 1 .. (z - (a + 1) + 1) : p[i] = all[a + 1 + i - 1]
  <2>1. p = SubSeq(all, a + 1, z)
    BY <1>1 DEF a, z
  <2>2. a + 1 \in Int /\ z \in Int /\ \A i \in a + 1 .. z : all[i] \in Tubers
    BY <1>2
  <2> HIDE DEF p
  <2> QED
    BY <2>1, <2>2, SubSeqProperties
<1> HIDE DEF p
<1>4. DOMAIN p = 1 .. z - a
  BY <1>2, <1>3, LenProperties
<1>5. \A i \in 1 .. z - a : p[i] = all[a + i] /\ a + i \in 1 .. z /\ a < a + i
  <2> TAKE i \in 1 .. z - a
  <2>1. i \in 1 .. (z - (a + 1) + 1) /\ a + 1 + i - 1 = a + i
    BY <1>2
  <2> QED
    BY <1>2, <1>3, <2>1
<1>6. ASSUME NEW i \in DOMAIN s, NEW j \in DOMAIN p PROVE Apart(host, s[i], p[j])
  <2>1. i \in 1 .. z /\ i < a + j /\ all[i] = s[i]
    BY <1>2, <1>4
  <2> QED
    BY <1>2, <1>4, <1>5, <2>1
<1>7. ASSUME NEW i \in DOMAIN p, NEW j \in DOMAIN p, i < j PROVE Apart(host, p[i], p[j])
  <2>1. a + i < a + j
    BY <1>2, <1>4, <1>7
  <2> QED
    BY <1>2, <1>4, <1>5, <2>1
<1> QED
  BY <1>3, <1>6, <1>7 DEF p

-----------------------------------------------------------------------------
(* What portato reads of a file is what OpenSSH reads of it.                 *)

\* OpenSSH's state: whether the block is for the alias, and what it has read.
Reads == [active : BOOLEAN, read : Seq(Lines)]

\* OpenSSH goes on from one line to the next.
LEMMA ReadLineGoesOn ==
    ASSUME NEW s \in Reads, NEW line \in Lines, NEW alias, NEW included \in Seq(Lines)
    PROVE  ReadLine(s, line, alias, included) \in Reads
<1>1. s.read \in Seq(Lines) /\ s.active \in BOOLEAN
  BY DEF Reads
<1>2. <<line>> \in Seq(Lines)
  OBVIOUS
<1>3. s.read \o included \in Seq(Lines) /\ s.read \o <<line>> \in Seq(Lines)
  BY <1>1, <1>2, ConcatProperties
<1>4. (Evaluable(line) /\ Matches(line, alias)) \in BOOLEAN
  BY DEF Evaluable, Matches
<1>5. CASE IsHeader(line)
  BY <1>1, <1>4, <1>5 DEF ReadLine, Reads
<1>6. CASE ~IsHeader(line)
  BY <1>1, <1>3, <1>6 DEF ReadLine, Reads
<1> QED
  BY <1>5, <1>6

\* It goes through the file line by line.
LEMMA ReadSteps ==
    ASSUME NEW lines \in Seq(Lines), NEW alias, NEW included \in Seq(Lines)
    PROVE  \E f \in [0 .. Len(lines) -> Reads] :
              /\ f[0] = [active |-> TRUE, read |-> <<>>]
              /\ \A n \in 1 .. Len(lines) : f[n] = ReadLine(f[n - 1], lines[n], alias, included)
              /\ ReadByOpenSSH(lines, alias, included) = f[Len(lines)].read
<1> DEFINE N == Len(lines)
           base == [active |-> TRUE, read |-> <<>>]
           step == [p \in (1 .. N) \X Reads |-> ReadLine(p[2], lines[p[1]], alias, included)]
           Body(g) == [n \in 0 .. N |-> IF n = 0 THEN base ELSE ReadLine(g[n - 1], lines[n], alias, included)]
           after == CHOOSE g : g = Body(g)
<1>1. N \in Nat /\ \A n \in 1 .. N : lines[n] \in Lines
  BY LenProperties
<1>2. base \in Reads
  BY EmptySeq DEF Reads
<1>3. step \in [(1 .. N) \X Reads -> Reads]
  BY <1>1, ReadLineGoesOn
<1>4. ReadByOpenSSH(lines, alias, included) = after[N].read
  BY DEF ReadByOpenSSH
<1> HIDE DEF N, base
<1>5. PICK g : Steps(g, N, Reads, base, step)
  <2> HIDE DEF step
  <2> QED
    BY <1>1, <1>2, <1>3, StepsExist
<1>6. ASSUME NEW n \in 1 .. N
      PROVE  g[n] = ReadLine(g[n - 1], lines[n], alias, included)
  <2>1. n - 1 \in 0 .. N
    BY <1>1
  <2> QED
    BY <1>5, <2>1 DEF Steps
<1>7. g = Body(g)
  <2>1. ASSUME NEW n \in 0 .. N
        PROVE  g[n] = IF n = 0 THEN base ELSE ReadLine(g[n - 1], lines[n], alias, included)
    BY <1>1, <1>5, <1>6 DEF Steps
  <2> QED
    BY <1>5, <2>1 DEF Steps
<1>8. after = Body(after)
  BY <1>7
<1> HIDE DEF after, step
<1>9. /\ after[0] = base
      /\ \A n \in 1 .. N : after[n] = ReadLine(after[n - 1], lines[n], alias, included)
  BY <1>1, <1>8
<1>10. \A n \in 0 .. N : after[n] \in Reads
  <2> DEFINE T == {n \in 0 .. N : after[n] \in Reads}
  <2>1. 0 \in T
    BY <1>1, <1>2, <1>9
  <2>2. ASSUME NEW n \in 1 .. N, n - 1 \in T PROVE n \in T
    <3>1. after[n - 1] \in Reads /\ lines[n] \in Lines /\ n \in 0 .. N
      BY <1>1, <2>2
    <3>2. after[n] \in Reads
      BY <1>9, <3>1, ReadLineGoesOn
    <3> QED
      BY <3>1, <3>2
  <2> HIDE DEF T
  <2>3. 0 .. N \subseteq T
    BY <1>1, <2>1, <2>2, CountUp
  <2> QED
    BY <2>3 DEF T
<1>11. after \in [0 .. N -> Reads]
  BY <1>8, <1>10
<1> QED
  BY <1>4, <1>9, <1>11 DEF N, base

\* A line of two texts one after the other is one of the first or of the second.
LEMMA FirstOrSecond ==
    ASSUME NEW m \in Nat, NEW n \in Nat, NEW i \in 1 .. m + n
    PROVE  i \in 1 .. m \/ \E j \in 1 .. n : i = m + j
<1>1. CASE i <= m
  BY <1>1
<1>2. CASE i > m
  <2>1. i - m \in 1 .. n /\ i = m + (i - m)
    BY <1>2
  <2> QED
    BY <2>1
<1> QED
  BY <1>1, <1>2

\* Lines among which no block begins.
Headless(e) == \A i \in DOMAIN e : ~IsHeader(e[i])

\* Two texts one after the other.
LEMMA Concatenated ==
    ASSUME NEW s \in Seq(Lines), NEW e \in Seq(Lines)
    PROVE  /\ s \o e \in Seq(Lines) /\ Len(s) \in Nat /\ Len(e) \in Nat
           /\ DOMAIN s = 1 .. Len(s) /\ DOMAIN e = 1 .. Len(e)
           /\ DOMAIN (s \o e) = 1 .. Len(s) + Len(e) /\ Len(s \o e) = Len(s) + Len(e)
           /\ \A i \in 1 .. Len(s) : (s \o e)[i] = s[i]
           /\ \A j \in 1 .. Len(e) : (s \o e)[Len(s) + j] = e[j]
<1>1. /\ Len(s) \in Nat /\ Len(e) \in Nat /\ DOMAIN s = 1 .. Len(s) /\ DOMAIN e = 1 .. Len(e)
      /\ s \o e \in Seq(Lines) /\ Len(s \o e) = Len(s) + Len(e)
      /\ \A i \in 1 .. Len(s) + Len(e) : (s \o e)[i] = IF i <= Len(s) THEN s[i] ELSE e[i - Len(s)]
  BY LenProperties, ConcatProperties
<1>2. DOMAIN (s \o e) = 1 .. Len(s) + Len(e)
  BY <1>1, LenProperties
<1>3. \A i \in 1 .. Len(s) : (s \o e)[i] = s[i]
  BY <1>1
<1>4. ASSUME NEW j \in 1 .. Len(e) PROVE (s \o e)[Len(s) + j] = e[j]
  <2>1. Len(s) + j \in 1 .. Len(s) + Len(e) /\ ~(Len(s) + j <= Len(s)) /\ Len(s) + j - Len(s) = j
    BY <1>1
  <2> QED
    BY <1>1, <2>1
<1> QED
  BY <1>1, <1>2, <1>3, <1>4

\* Headers of two texts that have the same headers up to a line.
LEMMA SameHeader ==
    ASSUME NEW s \in Seq(Lines), NEW t \in Seq(Lines), NEW i \in 0 .. Len(s), NEW k \in 0 .. Len(t),
           {j \in 1 .. i : IsHeader(s[j])} = {j \in 1 .. k : IsHeader(t[j])},
           \A j \in 1 .. i : IsHeader(s[j]) => s[j] = t[j]
    PROVE  HeaderOf(s, i) = HeaderOf(t, k)
<1> DEFINE above == {j \in 1 .. i : IsHeader(s[j])}
<1>1. HeaderOf(s, i) = IF above = {} THEN Host(Every) ELSE s[Max(above)]
  BY DEF HeaderOf
<1>2. HeaderOf(t, k) = IF above = {} THEN Host(Every) ELSE t[Max(above)]
  BY DEF HeaderOf
<1>3. ASSUME above # {} PROVE Max(above) \in above
  <2>1. above \in SUBSET (0 .. i) /\ i \in Nat
    BY LenProperties
  <2> QED
    BY <1>3, <2>1, MaxIndex
<1> QED
  BY <1>1, <1>2, <1>3

\* Lines that begin no block belong to the last one before them.
LEMMA HeaderBehind ==
    ASSUME NEW s \in Seq(Lines), NEW e \in Seq(Lines), Headless(e), NEW i \in 0 .. Len(s) + Len(e)
    PROVE  HeaderOf(s \o e, i) = HeaderOf(s, IF i <= Len(s) THEN i ELSE Len(s))
<1> DEFINE k == IF i <= Len(s) THEN i ELSE Len(s)
           u == s \o e
<1>1. /\ u \in Seq(Lines) /\ Len(s) \in Nat /\ Len(e) \in Nat /\ Len(u) = Len(s) + Len(e)
      /\ DOMAIN e = 1 .. Len(e)
      /\ \A j \in 1 .. Len(s) : u[j] = s[j]
      /\ \A j \in 1 .. Len(e) : u[Len(s) + j] = e[j]
  BY Concatenated
<1> HIDE DEF u
<1>2. ASSUME NEW j \in 1 .. i, IsHeader(u[j]) PROVE j \in 1 .. k /\ u[j] = s[j]
  <2>1. CASE j <= Len(s)
    BY <1>1, <2>1
  <2>2. CASE j > Len(s)
    <3>1. j - Len(s) \in 1 .. Len(e) /\ Len(s) + (j - Len(s)) = j
      BY <1>1, <2>2
    <3>2. u[j] = e[j - Len(s)]
      BY <1>1, <3>1
    <3> QED
      BY <1>1, <1>2, <3>1, <3>2 DEF Headless
  <2> QED
    BY <1>1, <2>1, <2>2
<1>3. \A j \in 1 .. k : j \in 1 .. i /\ u[j] = s[j]
  BY <1>1
<1>4. {j \in 1 .. i : IsHeader(u[j])} = {j \in 1 .. k : IsHeader(s[j])}
  BY <1>2, <1>3
<1>5. k \in 0 .. Len(s) /\ i \in 0 .. Len(u)
  BY <1>1
<1> HIDE DEF k
<1>6. HeaderOf(u, i) = HeaderOf(s, k)
  BY <1>1, <1>2, <1>4, <1>5, SameHeader
<1> QED
  BY <1>6 DEF u, k

\* ... and so the block does not end with them.
LEMMA HeaderStays ==
    ASSUME NEW s \in Seq(Lines), NEW e \in Seq(Lines), Headless(e)
    PROVE  HeaderOf(s \o e, Len(s \o e)) = HeaderOf(s, Len(s))
<1>1. /\ Len(s) \in Nat /\ Len(e) \in Nat /\ Len(s \o e) = Len(s) + Len(e)
  BY Concatenated
<1>2. Len(s) + Len(e) \in 0 .. Len(s) + Len(e)
  BY <1>1
<1>3. HeaderOf(s \o e, Len(s) + Len(e)) =
        HeaderOf(s, IF Len(s) + Len(e) <= Len(s) THEN Len(s) + Len(e) ELSE Len(s))
  BY <1>2, HeaderBehind
<1>4. (IF Len(s) + Len(e) <= Len(s) THEN Len(s) + Len(e) ELSE Len(s)) = Len(s)
  BY <1>1
<1> QED
  BY <1>1, <1>3, <1>4

\* A line that begins a block is its header.
LEMMA HeaderItself ==
    ASSUME NEW s \in Seq(Lines), NEW line \in Lines, IsHeader(line)
    PROVE  /\ \A i \in 1 .. Len(s) : HeaderOf(s \o <<line>>, i) = HeaderOf(s, i)
           /\ HeaderOf(s \o <<line>>, Len(s) + 1) = line
<1> DEFINE u == s \o <<line>>
           n == Len(s) + 1
<1>1. /\ u \in Seq(Lines) /\ Len(s) \in Nat /\ Len(u) = n /\ u[n] = line
      /\ \A j \in 1 .. Len(s) : u[j] = s[j]
  <2>1. <<line>> \in Seq(Lines) /\ Len(<<line>>) = 1 /\ <<line>>[1] = line /\ 1 \in 1 .. 1
    OBVIOUS
  <2> QED
    BY <2>1, Concatenated
<1> HIDE DEF u
<1>2. ASSUME NEW i \in 1 .. Len(s) PROVE HeaderOf(u, i) = HeaderOf(s, i)
  <2>1. \A j \in 1 .. i : u[j] = s[j]
    BY <1>1
  <2>2. {j \in 1 .. i : IsHeader(u[j])} = {j \in 1 .. i : IsHeader(s[j])}
    BY <2>1
  <2>3. i \in 0 .. Len(u) /\ i \in 0 .. Len(s)
    BY <1>1
  <2> QED
    BY <1>1, <2>1, <2>2, <2>3, SameHeader
<1>3. HeaderOf(u, n) = line
  <2> DEFINE above == {j \in 1 .. n : IsHeader(u[j])}
  <2>1. n \in above /\ above \in SUBSET (0 .. n) /\ n \in Nat
    BY <1>1
  <2>2. Max(above) \in above /\ Max(above) >= n
    BY <2>1, MaxIndex
  <2>3. Max(above) = n
    <3> HIDE DEF above
    <3>1. Max(above) \in 0 .. n
      BY <2>1, <2>2
    <3> QED
      BY <2>1, <2>2, <3>1
  <2> QED
    BY <1>1, <2>1, <2>3 DEF HeaderOf
<1> QED
  BY <1>2, <1>3 DEF u

\* Headers of two texts one after the other: the first one's lines keep theirs, ...
LEMMA HeaderBefore ==
    ASSUME NEW s \in Seq(Lines), NEW e \in Seq(Lines), NEW i \in 1 .. Len(s)
    PROVE  HeaderOf(s \o e, i) = HeaderOf(s, i)
<1> DEFINE u == s \o e
<1>1. /\ u \in Seq(Lines) /\ Len(s) \in Nat /\ Len(e) \in Nat /\ Len(u) = Len(s) + Len(e)
      /\ \A j \in 1 .. Len(s) : u[j] = s[j]
  BY Concatenated
<1> HIDE DEF u
<1>2. \A j \in 1 .. i : u[j] = s[j]
  BY <1>1
<1>3. {j \in 1 .. i : IsHeader(u[j])} = {j \in 1 .. i : IsHeader(s[j])}
  BY <1>2
<1>4. i \in 0 .. Len(u) /\ i \in 0 .. Len(s)
  BY <1>1
<1> QED
  BY <1>1, <1>2, <1>3, <1>4, SameHeader DEF u

\* ... and the second one's as well, except for its preamble, which belongs to
\* the first one's last block.
LEMMA HeaderAfter ==
    ASSUME NEW s \in Seq(Lines), NEW e \in Seq(Lines), NEW j \in 1 .. Len(e)
    PROVE  IF \E k \in 1 .. j : IsHeader(e[k])
           THEN HeaderOf(s \o e, Len(s) + j) = HeaderOf(e, j)
           ELSE /\ HeaderOf(s \o e, Len(s) + j) = HeaderOf(s, Len(s))
                /\ HeaderOf(e, j) = Host(Every)
<1> DEFINE u == s \o e
           n == Len(s) + j
           top == {k \in 1 .. j : IsHeader(e[k])}
           all == {k \in 1 .. n : IsHeader(u[k])}
<1>1. /\ u \in Seq(Lines) /\ Len(s) \in Nat /\ Len(e) \in Nat /\ Len(u) = Len(s) + Len(e)
      /\ \A k \in 1 .. Len(s) : u[k] = s[k]
      /\ \A k \in 1 .. Len(e) : u[Len(s) + k] = e[k]
  BY Concatenated
<1> HIDE DEF u
<1>2. \A k \in 1 .. j : Len(s) + k \in 1 .. n /\ u[Len(s) + k] = e[k]
  BY <1>1
<1>3. \A i \in 1 .. n : i \in 1 .. Len(s) \/ \E k \in 1 .. j : i = Len(s) + k
  <2>1. Len(s) \in Nat /\ j \in Nat
    BY <1>1
  <2> QED
    BY <2>1, FirstOrSecond
<1>4. CASE top # {}
  <2>1. top \in SUBSET (0 .. j) /\ all \in SUBSET (0 .. n) /\ j \in Nat /\ n \in Nat
    BY <1>1
  <2> DEFINE x == Max(top)
  <2>2. x \in top /\ \A y \in top : x >= y
    BY <1>4, <2>1, MaxIndex
  <2>3. x \in 1 .. j
    BY <2>2
  <2>4. Len(s) + x \in all
    BY <1>2, <2>2, <2>3
  <2>5. Max(all) \in all /\ \A y \in all : Max(all) >= y
    BY <2>1, <2>4, MaxIndex
  <2>6. ASSUME NEW y \in all PROVE y <= Len(s) + x
    <3>1. CASE y \in 1 .. Len(s)
      BY <1>1, <2>3, <3>1
    <3>2. CASE \E k \in 1 .. j : y = Len(s) + k
      <4>1. PICK k \in 1 .. j : y = Len(s) + k
        BY <3>2
      <4>2. k \in top
        BY <1>2, <4>1
      <4> QED
        BY <1>1, <2>2, <2>3, <4>1, <4>2
    <3> QED
      BY <1>3, <3>1, <3>2
  <2>7. Max(all) = Len(s) + x
    <3> HIDE DEF all, x
    <3>1. Max(all) <= Len(s) + x /\ Max(all) >= Len(s) + x
      BY <2>4, <2>5, <2>6
    <3>2. Max(all) \in 0 .. n /\ n \in Nat
      BY <2>1, <2>5
    <3>3. Max(all) \in Nat /\ Len(s) + x \in Nat
      BY <1>1, <2>3, <3>2
    <3> QED
      BY <3>1, <3>3
  <2>8. HeaderOf(u, n) = u[Max(all)]
    BY <2>4 DEF HeaderOf
  <2>9. HeaderOf(e, j) = e[x]
    BY <1>4 DEF HeaderOf
  <2> QED
    BY <1>2, <1>4, <2>3, <2>7, <2>8, <2>9 DEF u
<1>5. CASE top = {}
  <2>1. HeaderOf(e, j) = Host(Every)
    BY <1>5 DEF HeaderOf
  <2>2. all = {k \in 1 .. Len(s) : IsHeader(s[k])}
    <3>1. \A k \in 1 .. Len(s) : k \in 1 .. n
      BY <1>1
    <3>2. \A k \in 1 .. j : ~IsHeader(e[k])
      BY <1>5
    <3> QED
      BY <1>1, <1>2, <1>3, <3>1, <3>2
  <2>3. \A k \in 1 .. n : IsHeader(u[k]) => u[k] = s[k]
    BY <1>1, <1>2, <1>3, <1>5
  <2>4. n \in 0 .. Len(u) /\ Len(s) \in 0 .. Len(s)
    BY <1>1
  <2>5. HeaderOf(u, n) = HeaderOf(s, Len(s))
    BY <1>1, <2>2, <2>3, <2>4, SameHeader
  <2> QED
    BY <1>5, <2>1, <2>5 DEF u
<1> QED
  BY <1>4, <1>5

-----------------------------------------------------------------------------
(* The first HostName.                                                       *)

\* Where a HostName stands.
Hits(s, where) == {i \in where : s[i].word = "HostName"}

\* Nowhere does one.
NoHits(s, where) == Hits(s, where) = {}

\* It depends on the lines that have one only.
LEMMA SameHits ==
    ASSUME NEW s, NEW t, NEW V, NEW W \in SUBSET Nat, NEW alias,
           Hits(s, V) = Hits(t, W), \A i \in Hits(t, W) : s[i] = t[i]
    PROVE  FirstHostName(s, V, alias) = FirstHostName(t, W, alias)
<1> DEFINE h == Hits(t, W)
<1>1. FirstHostName(s, V, alias) = IF h = {} THEN alias ELSE s[Min(h)].arg
  BY DEF FirstHostName, Hits
<1>2. FirstHostName(t, W, alias) = IF h = {} THEN alias ELSE t[Min(h)].arg
  BY DEF FirstHostName, Hits
<1>3. h \in SUBSET Nat
  BY DEF Hits
<1>4. h # {} => Min(h) \in h
  <2> HIDE DEF h
  <2> QED
    BY <1>3, MinIndex
<1> QED
  BY <1>1, <1>2, <1>4

\* Some lines of the one text and some of the one after it.
With(s, W, V) == W \cup {Len(s) + j : j \in V}

\* Two texts one after the other have none if neither has.
LEMMA HitsOfTwo ==
    ASSUME NEW s \in Seq(Lines), NEW e \in Seq(Lines), NEW W, NEW X, W \subseteq DOMAIN s, X \subseteq DOMAIN e
    PROVE  NoHits(s \o e, With(s, W, X)) <=> NoHits(s, W) /\ NoHits(e, X)
<1> DEFINE u == s \o e
<1>1. /\ DOMAIN s = 1 .. Len(s) /\ DOMAIN e = 1 .. Len(e)
      /\ \A j \in 1 .. Len(s) : u[j] = s[j]
      /\ \A j \in 1 .. Len(e) : u[Len(s) + j] = e[j]
  BY Concatenated
<1> HIDE DEF u
<1>2. NoHits(u, With(s, W, X)) <=> NoHits(s, W) /\ NoHits(e, X)
  BY <1>1 DEF NoHits, Hits, With
<1> QED
  BY <1>2 DEF u

\* Of two texts one after the other it is the first one's, if that has any.
LEMMA FirstOfTwo ==
    ASSUME NEW s \in Seq(Lines), NEW e \in Seq(Lines), NEW W, NEW X, W \subseteq DOMAIN s, X \subseteq DOMAIN e,
           NEW alias
    PROVE  FirstHostName(s \o e, With(s, W, X), alias) =
               IF ~NoHits(s, W) THEN FirstHostName(s, W, alias) ELSE FirstHostName(e, X, alias)
<1> DEFINE V == With(s, W, X)
           u == s \o e
           a == Hits(s, W)
           b == Hits(e, X)
           h == Hits(u, V)
<1>1. /\ Len(s) \in Nat /\ Len(e) \in Nat /\ DOMAIN s = 1 .. Len(s) /\ DOMAIN e = 1 .. Len(e)
      /\ \A j \in 1 .. Len(s) : u[j] = s[j]
      /\ \A j \in 1 .. Len(e) : u[Len(s) + j] = e[j]
  BY Concatenated
<1> HIDE DEF u
<1>2. a \in SUBSET (1 .. Len(s)) /\ b \in SUBSET (1 .. Len(e))
  BY <1>1 DEF Hits
<1>3. /\ FirstHostName(u, V, alias) = IF h = {} THEN alias ELSE u[Min(h)].arg
      /\ FirstHostName(s, W, alias) = IF a = {} THEN alias ELSE s[Min(a)].arg
      /\ FirstHostName(e, X, alias) = IF b = {} THEN alias ELSE e[Min(b)].arg
  BY DEF FirstHostName, Hits
<1>4. /\ a \in SUBSET (1 .. Len(s)) /\ b \in SUBSET (1 .. Len(e))
      /\ \A i \in a : i \in h /\ u[i] = s[i]
      /\ \A j \in b : Len(s) + j \in h /\ u[Len(s) + j] = e[j]
      /\ \A i \in h : i \in a \/ \E j \in b : i = Len(s) + j
  BY <1>1, <1>2 DEF Hits, With
<1> HIDE DEF a, b, h, V
<1>5. h \in SUBSET Nat
  <2> SUFFICES ASSUME NEW i \in h PROVE i \in Nat
    OBVIOUS
  <2>1. CASE i \in a
    BY <1>2, <2>1
  <2>2. CASE \E j \in b : i = Len(s) + j
    BY <1>1, <1>2, <2>2
  <2> QED
    BY <1>4, <2>1, <2>2
<1>6. h = {} <=> a = {} /\ b = {}
  BY <1>4
<1>7. ASSUME a # {} PROVE Min(h) = Min(a) /\ Min(a) \in a
  <2>1. Min(a) \in a /\ \A y \in a : Min(a) <= y
    <3>1. a \in SUBSET Nat
      BY <1>1, <1>4
    <3> QED
      BY <1>7, <3>1, MinIndex
  <2>2. ASSUME NEW y \in h PROVE Min(a) <= y
    <3>1. Min(a) \in 1 .. Len(s)
      BY <1>4, <2>1
    <3>2. CASE y \in a
      BY <2>1, <3>2
    <3>3. CASE \E j \in b : y = Len(s) + j
      <4>1. PICK j \in b : y = Len(s) + j
        BY <3>3
      <4>2. j \in 1 .. Len(e)
        BY <1>4
      <4> QED
        BY <1>1, <3>1, <4>1, <4>2
    <3> QED
      BY <1>4, <3>2, <3>3
  <2>3. Min(a) \in h
    BY <1>4, <2>1
  <2> QED
    BY <1>5, <2>1, <2>2, <2>3, MinIs
<1>8. ASSUME a = {}, b # {} PROVE Min(h) = Len(s) + Min(b) /\ Min(b) \in b
  <2>1. Min(b) \in b /\ \A y \in b : Min(b) <= y
    <3>1. b \in SUBSET Nat
      BY <1>1, <1>4
    <3> QED
      BY <1>8, <3>1, MinIndex
  <2>2. ASSUME NEW y \in h PROVE Len(s) + Min(b) <= y
    <3>1. PICK j \in b : y = Len(s) + j
      BY <1>4, <1>8
    <3>2. Min(b) <= j
      BY <2>1
    <3>3. j \in 1 .. Len(e) /\ Min(b) \in 1 .. Len(e)
      BY <1>4, <2>1
    <3> QED
      BY <1>1, <3>1, <3>2, <3>3
  <2>3. Len(s) + Min(b) \in h
    BY <1>4, <2>1
  <2> QED
    BY <1>5, <2>1, <2>2, <2>3, MinIs
<1>9. FirstHostName(u, V, alias) = IF a # {} THEN FirstHostName(s, W, alias)
                                   ELSE FirstHostName(e, X, alias)
  <2>1. CASE a # {}
    BY <1>4, <1>3, <1>6, <1>7, <2>1
  <2>2. CASE a = {} /\ b # {}
    BY <1>4, <1>3, <1>6, <1>8, <2>2
  <2>3. CASE a = {} /\ b = {}
    BY <1>3, <1>6, <2>3
  <2> QED
    BY <2>1, <2>2, <2>3
<1> QED
  BY <1>9 DEF u, V, a, NoHits

-----------------------------------------------------------------------------
(* The filtered file beside the one OpenSSH reads.                           *)

\* The lines that stand in a block for an alias.
For(out, alias) == {i \in DOMAIN out : Matches(HeaderOf(out, i), alias)}

\* What is kept for an alias says what is read for it.
SameRead(out, read, alias) ==
    /\ FirstHostName(out, For(out, alias), alias) = FirstHostName(read, DOMAIN read, alias)
    /\ NoHits(out, For(out, alias)) <=> NoHits(read, DOMAIN read)
    /\ \A i \in For(out, alias) : ~IsHeader(out[i]) => \E j \in DOMAIN read : read[j] = out[i]

\* A header changes nothing yet.
LEMMA ReadHeader ==
    ASSUME NEW out \in Seq(Lines), NEW read \in Seq(Lines), NEW alias, SameRead(out, read, alias),
           NEW line \in Lines, IsHeader(line)
    PROVE  SameRead(out \o <<line>>, read, alias)
<1> DEFINE u == out \o <<line>>
           n == Len(out) + 1
<1>1. /\ Len(out) \in Nat /\ DOMAIN out = 1 .. Len(out) /\ DOMAIN u = 1 .. n
      /\ \A j \in 1 .. Len(out) : u[j] = out[j]
      /\ u[n] = line
  <2>1. <<line>> \in Seq(Lines) /\ Len(<<line>>) = 1 /\ <<line>>[1] = line /\ 1 \in 1 .. 1
    OBVIOUS
  <2> QED
    BY <2>1, Concatenated
<1>2. \A i \in 1 .. Len(out) : HeaderOf(u, i) = HeaderOf(out, i)
  BY HeaderItself
<1> HIDE DEF u
<1>3. /\ \A i \in For(out, alias) : i \in For(u, alias) /\ u[i] = out[i]
      /\ \A i \in For(u, alias) : i \in For(out, alias) \/ i = n
  <2>1. \A i \in 1 .. n : i \in 1 .. Len(out) \/ i = n
    BY <1>1
  <2>2. \A i \in 1 .. Len(out) : i \in 1 .. n
    BY <1>1
  <2> QED
    BY <1>1, <1>2, <2>1, <2>2 DEF For
<1>4. line.word # "HostName"
  BY DEF IsHeader
<1>5. /\ Hits(u, For(u, alias)) = Hits(out, For(out, alias))
      /\ \A i \in Hits(out, For(out, alias)) : u[i] = out[i]
  BY <1>1, <1>3, <1>4 DEF Hits
<1>6. For(u, alias) \in SUBSET Nat /\ For(out, alias) \in SUBSET Nat
  BY <1>1 DEF For
<1>7. FirstHostName(u, For(u, alias), alias) = FirstHostName(out, For(out, alias), alias)
  BY <1>5, <1>6, SameHits
<1>8. ASSUME NEW i \in For(u, alias), ~IsHeader(u[i])
      PROVE  \E j \in DOMAIN read : read[j] = u[i]
  BY <1>1, <1>3, <1>8 DEF SameRead
<1>9. NoHits(u, For(u, alias)) <=> NoHits(out, For(out, alias))
  BY <1>5 DEF NoHits
<1>10. SameRead(u, read, alias)
  BY <1>7, <1>8, <1>9 DEF SameRead
<1> QED
  BY <1>10 DEF u

\* Lines in a block for another alias are not read.
LEMMA ReadPast ==
    ASSUME NEW out \in Seq(Lines), NEW read \in Seq(Lines), NEW alias, SameRead(out, read, alias),
           NEW e \in Seq(Lines), Headless(e), ~Matches(HeaderOf(out, Len(out)), alias)
    PROVE  SameRead(out \o e, read, alias)
<1> DEFINE u == out \o e
<1>1. /\ Len(out) \in Nat /\ Len(e) \in Nat /\ DOMAIN out = 1 .. Len(out)
      /\ DOMAIN u = 1 .. Len(out) + Len(e)
      /\ \A j \in 1 .. Len(out) : u[j] = out[j]
  BY Concatenated
<1>2. \A i \in 0 .. Len(out) + Len(e) : HeaderOf(u, i) = HeaderOf(out, IF i <= Len(out) THEN i ELSE Len(out))
  BY HeaderBehind
<1> HIDE DEF u
<1>3. \A i \in 1 .. Len(out) : i \in 1 .. Len(out) + Len(e) /\ HeaderOf(u, i) = HeaderOf(out, i)
  BY <1>1, <1>2
<1>4. \A i \in 1 .. Len(out) + Len(e) : i \in 1 .. Len(out) \/ HeaderOf(u, i) = HeaderOf(out, Len(out))
  BY <1>1, <1>2
<1>5. For(u, alias) = For(out, alias)
  BY <1>1, <1>3, <1>4 DEF For
<1>6. For(out, alias) \in SUBSET Nat /\ \A i \in For(out, alias) : u[i] = out[i]
  BY <1>1 DEF For
<1>7. Hits(u, For(u, alias)) = Hits(out, For(out, alias))
  BY <1>5, <1>6 DEF Hits
<1>8. \A i \in Hits(out, For(out, alias)) : u[i] = out[i]
  BY <1>6 DEF Hits
<1>9. FirstHostName(u, For(u, alias), alias) = FirstHostName(out, For(out, alias), alias)
  BY <1>5, <1>6, <1>7, <1>8, SameHits
<1>10. NoHits(u, For(u, alias)) <=> NoHits(out, For(out, alias))
  BY <1>7 DEF NoHits
<1>11. SameRead(u, read, alias)
  BY <1>5, <1>6, <1>9, <1>10 DEF SameRead
<1> QED
  BY <1>11 DEF u

\* Where a block is for the alias, what is kept and what is read of a file go on
\* from there.
LEMMA ReadBoth ==
    ASSUME NEW out \in Seq(Lines), NEW read \in Seq(Lines), NEW alias, SameRead(out, read, alias),
           NEW more \in Seq(Lines), NEW rest \in Seq(Lines), SameRead(more, rest, alias),
           Matches(HeaderOf(out, Len(out)), alias)
    PROVE  SameRead(out \o more, read \o rest, alias)
<1> DEFINE u == out \o more
           v == read \o rest
           O == For(out, alias)
           E == For(more, alias)
           D == DOMAIN read
           F == DOMAIN rest
           U == With(out, O, E)
           V == With(read, D, F)
<1>1. /\ Len(out) \in Nat /\ Len(more) \in Nat /\ DOMAIN out = 1 .. Len(out) /\ DOMAIN more = 1 .. Len(more)
      /\ DOMAIN u = 1 .. Len(out) + Len(more)
      /\ \A j \in 1 .. Len(out) : u[j] = out[j]
      /\ \A j \in 1 .. Len(more) : u[Len(out) + j] = more[j]
  BY Concatenated
<1>2. /\ Len(read) \in Nat /\ Len(rest) \in Nat /\ DOMAIN read = 1 .. Len(read) /\ DOMAIN rest = 1 .. Len(rest)
      /\ DOMAIN v = 1 .. Len(read) + Len(rest)
      /\ \A j \in 1 .. Len(read) : v[j] = read[j]
      /\ \A j \in 1 .. Len(rest) : v[Len(read) + j] = rest[j]
  BY Concatenated
<1>3. \A i \in 1 .. Len(out) : HeaderOf(u, i) = HeaderOf(out, i)
  BY HeaderBefore
<1>4. \A j \in 1 .. Len(more) : Matches(HeaderOf(u, Len(out) + j), alias) <=> Matches(HeaderOf(more, j), alias)
  <2> TAKE j \in 1 .. Len(more)
  <2>1. CASE \E k \in 1 .. j : IsHeader(more[k])
    BY <2>1, HeaderAfter
  <2>2. CASE ~ \E k \in 1 .. j : IsHeader(more[k])
    <3>1. HeaderOf(u, Len(out) + j) = HeaderOf(out, Len(out)) /\ HeaderOf(more, j) = Host(Every)
      BY <2>2, HeaderAfter
    <3> QED
      BY <3>1 DEF Matches, Host
  <2> QED
    BY <2>1, <2>2
<1>5. /\ O \in SUBSET (DOMAIN out) /\ E \in SUBSET (DOMAIN more)
      /\ D \in SUBSET (DOMAIN read) /\ F \in SUBSET (DOMAIN rest)
  BY DEF For
<1>6. /\ FirstHostName(out, O, alias) = FirstHostName(read, D, alias)
      /\ NoHits(out, O) <=> NoHits(read, D)
      /\ \A i \in O : ~IsHeader(out[i]) => \E j \in D : read[j] = out[i]
      /\ FirstHostName(more, E, alias) = FirstHostName(rest, F, alias)
      /\ NoHits(more, E) <=> NoHits(rest, F)
      /\ \A i \in E : ~IsHeader(more[i]) => \E j \in F : rest[j] = more[i]
  BY DEF SameRead
<1>7. For(u, alias) = U
  <2>1. \A i \in 1 .. Len(out) : i \in 1 .. Len(out) + Len(more)
    BY <1>1
  <2>2. \A j \in 1 .. Len(more) : Len(out) + j \in 1 .. Len(out) + Len(more)
    BY <1>1
  <2>3. \A i \in 1 .. Len(out) + Len(more) : i \in 1 .. Len(out) \/ \E j \in 1 .. Len(more) : i = Len(out) + j
    BY <1>1, FirstOrSecond
  <2> HIDE DEF u
  <2>4. \A i : i \in For(u, alias) => i \in U
    BY <1>1, <1>3, <1>4, <2>1, <2>3 DEF For, With
  <2>5. \A i : i \in U => i \in For(u, alias)
    BY <1>1, <1>3, <1>4, <2>1, <2>2 DEF For, With
  <2> QED
    BY <2>4, <2>5
<1>8. DOMAIN v = V
  <2>1. \A i \in 1 .. Len(read) + Len(rest) : i \in 1 .. Len(read) \/ \E j \in 1 .. Len(rest) : i = Len(read) + j
    BY <1>2, FirstOrSecond
  <2>2. \A i \in 1 .. Len(read) : i \in 1 .. Len(read) + Len(rest)
    BY <1>2
  <2>3. \A j \in 1 .. Len(rest) : Len(read) + j \in 1 .. Len(read) + Len(rest)
    BY <1>2
  <2> HIDE DEF v
  <2>4. \A i : i \in DOMAIN v => i \in V
    BY <1>2, <2>1 DEF With
  <2>5. \A i : i \in V => i \in DOMAIN v
    BY <1>2, <2>2, <2>3 DEF With
  <2> QED
    BY <2>4, <2>5
<1> HIDE DEF O, E, D, F
<1>9. /\ FirstHostName(u, U, alias) = IF ~NoHits(out, O) THEN FirstHostName(out, O, alias)
                                      ELSE FirstHostName(more, E, alias)
      /\ NoHits(u, U) <=> NoHits(out, O) /\ NoHits(more, E)
  <2>1. O \subseteq DOMAIN out /\ E \subseteq DOMAIN more
    BY <1>5
  <2> QED
    BY <2>1, FirstOfTwo, HitsOfTwo
<1>10. /\ FirstHostName(v, V, alias) = IF ~NoHits(read, D) THEN FirstHostName(read, D, alias)
                                       ELSE FirstHostName(rest, F, alias)
       /\ NoHits(v, V) <=> NoHits(read, D) /\ NoHits(rest, F)
  <2>1. D \subseteq DOMAIN read /\ F \subseteq DOMAIN rest
    BY <1>5
  <2> QED
    BY <2>1, FirstOfTwo, HitsOfTwo
<1> HIDE DEF u, v
<1>11. ASSUME NEW i \in U, ~IsHeader(u[i]) PROVE \E j \in V : v[j] = u[i]
  <2>1. CASE i \in O
    <3>1. u[i] = out[i]
      BY <1>1, <1>5, <2>1
    <3>2. PICK j \in D : read[j] = out[i]
      BY <1>6, <1>11, <2>1, <3>1
    <3>3. j \in V /\ v[j] = read[j]
      BY <1>2, <1>5, <3>2 DEF With
    <3> QED
      BY <3>1, <3>2, <3>3
  <2>2. CASE \E j \in E : i = Len(out) + j
    <3>1. PICK j \in E : i = Len(out) + j
      BY <2>2
    <3>2. u[i] = more[j]
      BY <1>1, <1>5, <3>1
    <3>3. PICK k \in F : rest[k] = more[j]
      BY <1>6, <1>11, <3>1, <3>2
    <3>4. v[Len(read) + k] = rest[k] /\ Len(read) + k \in V
      BY <1>2, <1>5, <3>3 DEF With
    <3> QED
      BY <3>2, <3>3, <3>4
  <2> QED
    BY <2>1, <2>2 DEF With
<1>12. SameRead(u, v, alias)
  <2> HIDE DEF U, V
  <2>1. FirstHostName(u, U, alias) = FirstHostName(v, V, alias)
    BY <1>6, <1>9, <1>10
  <2>2. NoHits(u, U) <=> NoHits(v, V)
    BY <1>6, <1>9, <1>10
  <2> QED
    BY <1>7, <1>8, <1>11, <2>1, <2>2 DEF SameRead
<1> QED
  BY <1>12 DEF u, v

\* Lines that begin no block are for every alias.
LEMMA HeadlessReads ==
    ASSUME NEW e \in Seq(Lines), Headless(e), NEW alias
    PROVE  SameRead(e, e, alias)
<1>1. DOMAIN e = 1 .. Len(e) /\ Len(e) \in Nat
  BY LenProperties
<1>2. \A i \in 1 .. Len(e) : \A j \in 1 .. i : j \in 1 .. Len(e)
  BY <1>1
<1>3. \A i \in DOMAIN e : HeaderOf(e, i) = Host(Every)
  BY <1>1, <1>2 DEF HeaderOf, Headless
<1>4. \A i \in DOMAIN e : Matches(HeaderOf(e, i), alias)
  BY <1>3 DEF Matches, Host
<1>5. For(e, alias) = DOMAIN e
  BY <1>4 DEF For
<1> QED
  BY <1>5 DEF SameRead

\* Lines in a block for the alias are read.
LEMMA ReadMore ==
    ASSUME NEW out \in Seq(Lines), NEW read \in Seq(Lines), NEW alias, SameRead(out, read, alias),
           NEW e \in Seq(Lines), Headless(e), Matches(HeaderOf(out, Len(out)), alias)
    PROVE  SameRead(out \o e, read \o e, alias)
  BY HeadlessReads, ReadBoth

\* The filter and OpenSSH, the same number of lines into a file.
Alongside(f, g, alias) ==
    /\ f \in Filters /\ g \in Reads
    /\ g.active <=> ~f.skipping /\ Matches(HeaderOf(f.out, Len(f.out)), alias)
    /\ SameRead(f.out, g.read, alias)

\* A header brings them together, whatever was kept and read so long as it says
\* the same, and is the one they are under.
LEMMA AtHeader ==
    ASSUME NEW f \in Filters, NEW g \in Reads, NEW alias, SameRead(f.out, g.read, alias),
           NEW line \in Lines, IsHeader(line), NEW kept \in Seq(Lines), NEW included \in Seq(Lines)
    PROVE  /\ Alongside(FilterLine(f, line, kept), ReadLine(g, line, alias, included), alias)
           /\ ~FilterLine(f, line, kept).skipping
                => HeaderOf(FilterLine(f, line, kept).out, Len(FilterLine(f, line, kept).out)) = line
<1> DEFINE out == f.out
           read == g.read
           ff == FilterLine(f, line, kept)
           gg == ReadLine(g, line, alias, included)
<1>1. out \in Seq(Lines) /\ read \in Seq(Lines)
  BY DEF Filters, Reads
<1>2. SameRead(out, read, alias)
  OBVIOUS
<1>3. ff \in Filters /\ gg \in Reads
  BY FilterLineKeeps, ReadLineGoesOn
<1>4. CASE Evaluable(line)
  <2>1. ff = [skipping |-> FALSE, out |-> Append(out, line)]
    BY <1>4 DEF FilterLine
  <2>2. gg = [active |-> Evaluable(line) /\ Matches(line, alias), read |-> read]
    BY <1>4 DEF ReadLine
  <2>3. Append(out, line) = out \o <<line>>
    BY <1>1, AppendIsConcat
  <2>4. SameRead(out \o <<line>>, read, alias)
    BY <1>1, <1>2, <1>4, ReadHeader
  <2>5. Len(out \o <<line>>) = Len(out) + 1
    <3>1. <<line>> \in Seq(Lines) /\ Len(<<line>>) = 1
      OBVIOUS
    <3> QED
      BY <1>1, <3>1, Concatenated
  <2>6. HeaderOf(out \o <<line>>, Len(out \o <<line>>)) = line
    BY <1>1, <1>4, <2>5, HeaderItself
  <2>7. ff.skipping = FALSE /\ ff.out = out \o <<line>> /\ gg.read = read
    BY <2>1, <2>2, <2>3
  <2>8. gg.active <=> Matches(line, alias)
    <3> DEFINE v == Evaluable(line) /\ Matches(line, alias)
    <3>1. gg = [active |-> v, read |-> read]
      BY <2>2
    <3> HIDE DEF v, gg
    <3>2. gg.active = v
      BY <3>1
    <3> QED
      BY <1>4, <3>2 DEF v
  <2> HIDE DEF ff, gg, out, read
  <2> QED
    BY <1>3, <2>4, <2>6, <2>7, <2>8 DEF Alongside, ff, gg
<1>5. CASE ~Evaluable(line)
  <2>1. ff = [skipping |-> TRUE, out |-> out]
    BY <1>5 DEF FilterLine
  <2>2. gg = [active |-> Evaluable(line) /\ Matches(line, alias), read |-> read]
    BY <1>5 DEF ReadLine
  <2>3. ff.skipping = TRUE /\ ff.out = out /\ gg.read = read
    BY <2>1, <2>2
  <2>4. ~gg.active
    <3> DEFINE v == Evaluable(line) /\ Matches(line, alias)
    <3>1. gg = [active |-> v, read |-> read]
      BY <2>2
    <3> HIDE DEF v, gg
    <3>2. gg.active = v
      BY <3>1
    <3> QED
      BY <1>5, <3>2 DEF v
  <2> HIDE DEF ff, gg, out, read
  <2> QED
    BY <1>2, <1>3, <2>3, <2>4 DEF Alongside, ff, gg
<1> QED
  BY <1>4, <1>5

\* They stay together from one line to the next, an Include standing for lines
\* that begin no block.
LEMMA AlongsideStays ==
    ASSUME NEW f, NEW g, NEW alias, Alongside(f, g, alias), NEW line \in Lines,
           NEW included \in Seq(Lines), Headless(included)
    PROVE  Alongside(FilterLine(f, line, included), ReadLine(g, line, alias, included), alias)
<1> DEFINE out == f.out
           read == g.read
           e == IF line = Include THEN included ELSE <<line>>
<1>1. /\ f \in Filters /\ g \in Reads /\ out \in Seq(Lines) /\ read \in Seq(Lines)
      /\ f.skipping \in BOOLEAN /\ g.active \in BOOLEAN
  BY DEF Alongside, Filters, Reads
<1>2. SameRead(out, read, alias)
  BY DEF Alongside
<1>3. g.active <=> ~f.skipping /\ Matches(HeaderOf(out, Len(out)), alias)
  BY DEF Alongside
<1>4. FilterLine(f, line, included) \in Filters /\ ReadLine(g, line, alias, included) \in Reads
  BY <1>1, FilterLineKeeps, ReadLineGoesOn
<1> DEFINE ff == FilterLine(f, line, included)
           gg == ReadLine(g, line, alias, included)
<1>5. CASE IsHeader(line)
  BY <1>1, <1>2, <1>5, AtHeader
<1>6. CASE ~IsHeader(line) /\ f.skipping
  <2>1. ff = f /\ gg = g
    BY <1>3, <1>6 DEF FilterLine, ReadLine
  <2> QED
    BY <2>1
<1>7. CASE ~IsHeader(line) /\ ~f.skipping
  <2>1. e \in Seq(Lines) /\ Headless(e)
    <3>1. <<line>> \in Seq(Lines)
      OBVIOUS
    <3>2. Headless(<<line>>)
      BY <1>7 DEF Headless
    <3> QED
      BY <3>1, <3>2
  <2>2. ff = [skipping |-> FALSE, out |-> out \o e]
    BY <1>7 DEF FilterLine
  <2> HIDE DEF e
  <2>3. ff.skipping = FALSE /\ ff.out = out \o e
    BY <2>2
  <2>4. HeaderOf(out \o e, Len(out \o e)) = HeaderOf(out, Len(out))
    BY <1>1, <2>1, HeaderStays
  <2>5. CASE g.active
    <3>1. gg = [active |-> TRUE, read |-> read \o e]
      BY <1>7, <2>5 DEF ReadLine, e
    <3>2. gg.active = TRUE /\ gg.read = read \o e
      BY <3>1
    <3>3. SameRead(out \o e, read \o e, alias)
      BY <1>1, <1>2, <1>3, <2>1, <2>5, ReadMore
    <3> HIDE DEF ff, gg, out, read
    <3> QED
      BY <1>3, <1>4, <2>3, <2>4, <2>5, <3>2, <3>3 DEF Alongside, ff, gg
  <2>6. CASE ~g.active
    <3>1. gg = g
      BY <1>7, <2>6 DEF ReadLine
    <3>2. ~Matches(HeaderOf(out, Len(out)), alias)
      BY <1>3, <1>7, <2>6
    <3>3. SameRead(out \o e, read, alias)
      BY <1>1, <1>2, <2>1, <3>2, ReadPast
    <3>4. ~gg.active /\ gg.read = read
      BY <2>6, <3>1
    <3> HIDE DEF ff, gg, out, read
    <3> QED
      BY <1>4, <2>3, <2>4, <3>2, <3>3, <3>4 DEF Alongside, ff, gg
  <2> QED
    BY <2>5, <2>6
<1> QED
  BY <1>5, <1>6, <1>7

\* What the filter keeps of a file says for an alias what OpenSSH reads of it.
LEMMA FilterReads ==
    ASSUME NEW lines \in Seq(Lines), NEW alias, NEW included \in Seq(Lines), Headless(included)
    PROVE  /\ FilterFile(lines, included) \in Seq(Lines)
           /\ ReadByOpenSSH(lines, alias, included) \in Seq(Lines)
           /\ SameRead(FilterFile(lines, included), ReadByOpenSSH(lines, alias, included), alias)
<1> DEFINE N == Len(lines)
<1>1. PICK f \in [0 .. N -> Filters] :
        /\ f[0] = [skipping |-> FALSE, out |-> <<>>]
        /\ \A n \in 1 .. N : f[n] = FilterLine(f[n - 1], lines[n], included)
        /\ FilterFile(lines, included) = f[N].out
  BY FilterFileSteps
<1>2. PICK g \in [0 .. N -> Reads] :
        /\ g[0] = [active |-> TRUE, read |-> <<>>]
        /\ \A n \in 1 .. N : g[n] = ReadLine(g[n - 1], lines[n], alias, included)
        /\ ReadByOpenSSH(lines, alias, included) = g[N].read
  BY ReadSteps
<1>3. N \in Nat /\ \A n \in 1 .. N : lines[n] \in Lines
  BY LenProperties
<1> HIDE DEF N
<1> DEFINE T == {n \in 0 .. N : Alongside(f[n], g[n], alias)}
<1>4. 0 \in T
  <2>1. HeaderOf(<<>>, 0) = Host(Every)
    BY DEF HeaderOf
  <2>2. Matches(HeaderOf(<<>>, 0), alias)
    BY <2>1 DEF Matches, Host
  <2>3. For(<<>>, alias) = {} /\ DOMAIN << >> = {} /\ Len(<<>>) = 0
    BY DEF For
  <2>4. SameRead(<<>>, <<>>, alias)
    BY <2>3 DEF SameRead
  <2>5. f[0].skipping = FALSE /\ f[0].out = <<>> /\ g[0].active = TRUE /\ g[0].read = <<>>
    BY <1>1, <1>2
  <2>6. f[0] \in Filters /\ g[0] \in Reads /\ 0 \in 0 .. N
    <3>1. 0 \in 0 .. N
      BY <1>3
    <3> QED
      BY <3>1
  <2>7. Alongside(f[0], g[0], alias)
    BY <2>2, <2>3, <2>4, <2>5, <2>6 DEF Alongside
  <2> QED
    BY <2>6, <2>7
<1>5. ASSUME NEW n \in 1 .. N, n - 1 \in T PROVE n \in T
  <2>1. Alongside(f[n - 1], g[n - 1], alias) /\ lines[n] \in Lines /\ n \in 0 .. N
    BY <1>3, <1>5
  <2>2. Alongside(f[n], g[n], alias)
    BY <1>1, <1>2, <2>1, AlongsideStays
  <2> QED
    BY <2>1, <2>2
<1>6. Alongside(f[N], g[N], alias)
  <2> HIDE DEF T
  <2>1. 0 .. N \subseteq T
    BY <1>3, <1>4, <1>5, CountUp
  <2> QED
    BY <1>3, <2>1 DEF T
<1> QED
  BY <1>1, <1>2, <1>6 DEF Alongside, Filters, Reads

\* The included file begins no block that portato keeps: it has a block of its
\* own only where OpenSSH could not be followed. (After a Host line in it, what
\* follows the Include would stand in another block here than for OpenSSH.)
PlainInclude == \A i \in DOMAIN Included : IsHeader(Included[i]) => ~Evaluable(Included[i])

\* Of such a file the same lines are kept as are read, and they begin no block.
LEMMA PlainFile ==
    ASSUME PlainInclude, NEW alias
    PROVE  /\ FilterFile(Included, <<>>) \in Seq(Lines) /\ Headless(FilterFile(Included, <<>>))
           /\ FilterFile(Included, <<>>) = ReadByOpenSSH(Included, alias, <<>>)
<1> DEFINE N == Len(Included)
           Same(f, g) == /\ f.out = g.read /\ f.out \in Seq(Lines) /\ Headless(f.out)
                         /\ f.skipping \in BOOLEAN
                         /\ g.active <=> ~f.skipping
<1>1. Included \in Seq(Lines) /\ <<>> \in Seq(Lines)
  BY IncludedAssumption, EmptySeq
<1>2. PICK f \in [0 .. N -> Filters] :
        /\ f[0] = [skipping |-> FALSE, out |-> <<>>]
        /\ \A n \in 1 .. N : f[n] = FilterLine(f[n - 1], Included[n], <<>>)
        /\ FilterFile(Included, <<>>) = f[N].out
  BY <1>1, FilterFileSteps
<1>3. PICK g \in [0 .. N -> Reads] :
        /\ g[0] = [active |-> TRUE, read |-> <<>>]
        /\ \A n \in 1 .. N : g[n] = ReadLine(g[n - 1], Included[n], alias, <<>>)
        /\ ReadByOpenSSH(Included, alias, <<>>) = g[N].read
  BY <1>1, ReadSteps
<1>4. /\ N \in Nat
      /\ \A n \in 1 .. N : Included[n] \in Lines /\ (IsHeader(Included[n]) => ~Evaluable(Included[n]))
  BY <1>1, LenProperties DEF PlainInclude
<1>5. ASSUME NEW f0 \in Filters, NEW g0 \in Reads, Same(f0, g0), NEW line \in Lines,
             IsHeader(line) => ~Evaluable(line)
      PROVE  Same(FilterLine(f0, line, <<>>), ReadLine(g0, line, alias, <<>>))
  <2> DEFINE ff == FilterLine(f0, line, <<>>)
             gg == ReadLine(g0, line, alias, <<>>)
             e == IF line = Include THEN <<>> ELSE <<line>>
  <2>1. CASE IsHeader(line)
    <3>1. ff = [skipping |-> TRUE, out |-> f0.out]
      BY <1>5, <2>1 DEF FilterLine
    <3>2. gg.read = g0.read /\ ~gg.active
      <4> DEFINE v == Evaluable(line) /\ Matches(line, alias)
      <4>1. gg = [active |-> v, read |-> g0.read]
        BY <2>1 DEF ReadLine
      <4> HIDE DEF v, gg
      <4>2. gg.active = v /\ gg.read = g0.read
        BY <4>1
      <4> QED
        BY <1>5, <2>1, <4>2 DEF v
    <3>3. ff.skipping = TRUE /\ ff.out = f0.out
      BY <3>1
    <3> HIDE DEF ff, gg
    <3> QED
      BY <1>5, <3>2, <3>3 DEF ff, gg
  <2>2. CASE ~IsHeader(line) /\ f0.skipping
    <3>1. ff = f0 /\ gg = g0
      BY <1>5, <2>2 DEF FilterLine, ReadLine
    <3> QED
      BY <1>5, <3>1
  <2>3. CASE ~IsHeader(line) /\ ~f0.skipping
    <3>1. ff = [skipping |-> FALSE, out |-> f0.out \o e]
      BY <2>3 DEF FilterLine
    <3>2. gg = [active |-> TRUE, read |-> g0.read \o e]
      BY <1>5, <2>3 DEF ReadLine
    <3>3. e \in Seq(Lines) /\ Headless(e)
      <4>1. <<>> \in Seq(Lines) /\ <<line>> \in Seq(Lines)
        BY <1>1
      <4>2. Headless(<<>>) /\ Headless(<<line>>)
        BY <2>3 DEF Headless
      <4> QED
        BY <4>1, <4>2
    <3> HIDE DEF e
    <3>4. ff.skipping = FALSE /\ ff.out = f0.out \o e /\ gg.active = TRUE /\ gg.read = g0.read \o e
      BY <3>1, <3>2
    <3>5. f0.out \o e \in Seq(Lines) /\ Headless(f0.out \o e)
      <4> DEFINE s == f0.out
                 u == s \o e
      <4>1. /\ u \in Seq(Lines) /\ DOMAIN u = 1 .. Len(s) + Len(e) /\ Len(s) \in Nat /\ Len(e) \in Nat
            /\ DOMAIN s = 1 .. Len(s) /\ DOMAIN e = 1 .. Len(e)
            /\ \A i \in 1 .. Len(s) : u[i] = s[i]
            /\ \A j \in 1 .. Len(e) : u[Len(s) + j] = e[j]
        BY <1>5, <3>3, Concatenated
      <4>2. Headless(s)
        BY <1>5
      <4> HIDE DEF s, u
      <4>3. ASSUME NEW i \in 1 .. Len(s) + Len(e) PROVE ~IsHeader(u[i])
        <5>1. CASE i <= Len(s)
          <6>1. i \in 1 .. Len(s)
            BY <4>1, <5>1
          <6> QED
            BY <4>1, <4>2, <6>1 DEF Headless
        <5>2. CASE i > Len(s)
          <6>1. i - Len(s) \in 1 .. Len(e) /\ Len(s) + (i - Len(s)) = i
            BY <4>1, <5>2
          <6>2. u[i] = e[i - Len(s)]
            BY <4>1, <6>1
          <6> QED
            BY <3>3, <4>1, <6>1, <6>2 DEF Headless
        <5> QED
          BY <4>1, <5>1, <5>2
      <4> QED
        BY <4>1, <4>3 DEF Headless, u, s
    <3> HIDE DEF ff, gg
    <3> QED
      BY <1>5, <3>4, <3>5 DEF ff, gg
  <2> QED
    BY <1>5, <2>1, <2>2, <2>3
<1> HIDE DEF N
<1> DEFINE T == {n \in 0 .. N : Same(f[n], g[n])}
<1>6. 0 \in T
  <2>1. f[0].skipping = FALSE /\ f[0].out = <<>> /\ g[0].active = TRUE /\ g[0].read = <<>>
    BY <1>2, <1>3
  <2>2. Headless(<<>>) /\ 0 \in 0 .. N
    BY <1>4 DEF Headless
  <2> QED
    BY <1>1, <2>1, <2>2
<1> HIDE DEF Same
<1>7. ASSUME NEW n \in 1 .. N, n - 1 \in T PROVE n \in T
  <2>1. /\ Same(f[n - 1], g[n - 1]) /\ n - 1 \in 0 .. N /\ n \in 0 .. N
        /\ Included[n] \in Lines /\ (IsHeader(Included[n]) => ~Evaluable(Included[n]))
    BY <1>4, <1>7
  <2>2. f[n - 1] \in Filters /\ g[n - 1] \in Reads
    BY <2>1
  <2>3. Same(FilterLine(f[n - 1], Included[n], <<>>), ReadLine(g[n - 1], Included[n], alias, <<>>))
    BY <1>5, <2>1, <2>2
  <2> QED
    BY <1>2, <1>3, <2>1, <2>3
<1>8. Same(f[N], g[N])
  <2> HIDE DEF T
  <2>1. 0 .. N \subseteq T
    BY <1>4, <1>6, <1>7, CountUp
  <2> QED
    BY <1>4, <2>1 DEF T
<1> QED
  BY <1>2, <1>3, <1>8 DEF Same

\* An Include is where no alias is named, and the last line of its block.
IncludesLast(lines) ==
    \A i \in DOMAIN lines : lines[i] = Include =>
        /\ HeaderOf(lines, i).word = "Match" \/ HeaderOf(lines, i).arg = Every
        /\ i < Len(lines) => IsHeader(lines[i + 1])

\* A line is under itself or where the line before it is.
LEMMA HeaderGoesOn ==
    ASSUME NEW s \in Seq(Lines), NEW n \in 1 .. Len(s)
    PROVE  HeaderOf(s, n) = IF IsHeader(s[n]) THEN s[n] ELSE HeaderOf(s, n - 1)
<1>1. Len(s) \in Nat /\ n \in Nat
  BY LenProperties
<1>2. CASE IsHeader(s[n])
  <2> DEFINE above == {j \in 1 .. n : IsHeader(s[j])}
  <2>1. n \in above /\ above \in SUBSET (0 .. n)
    BY <1>1, <1>2
  <2>2. Max(above) \in above /\ Max(above) >= n
    BY <1>1, <2>1, MaxIndex
  <2>3. Max(above) = n
    <3> HIDE DEF above
    <3>1. Max(above) \in 0 .. n
      BY <2>1, <2>2
    <3> QED
      BY <1>1, <2>2, <3>1
  <2> QED
    BY <1>2, <2>1, <2>3 DEF HeaderOf
<1>3. CASE ~IsHeader(s[n])
  <2>1. \A j \in 1 .. n : j \in 1 .. n - 1 \/ j = n
    BY <1>1
  <2>2. \A j \in 1 .. n - 1 : j \in 1 .. n
    BY <1>1
  <2>3. {j \in 1 .. n : IsHeader(s[j])} = {j \in 1 .. n - 1 : IsHeader(s[j])}
    BY <1>3, <2>1, <2>2
  <2>4. n \in 0 .. Len(s) /\ n - 1 \in 0 .. Len(s)
    BY <1>1
  <2> QED
    BY <1>3, <2>3, <2>4, SameHeader
<1> QED
  BY <1>2, <1>3

\* At an Include that is for every alias, what is kept of the file says what is
\* read of it.
LEMMA AtInclude ==
    ASSUME NEW f, NEW g, NEW alias, Alongside(f, g, alias),
           ~f.skipping => Matches(HeaderOf(f.out, Len(f.out)), alias),
           NEW kept \in Seq(Lines), NEW included \in Seq(Lines), SameRead(kept, included, alias)
    PROVE  SameRead(FilterLine(f, Include, kept).out, ReadLine(g, Include, alias, included).read, alias)
<1> DEFINE out == f.out
           read == g.read
<1>1. /\ out \in Seq(Lines) /\ read \in Seq(Lines) /\ SameRead(out, read, alias)
      /\ g.active <=> ~f.skipping
  BY DEF Alongside, Filters, Reads
<1>2. ~IsHeader(Include)
  BY DEF IsHeader, Include
<1>3. CASE f.skipping
  BY <1>1, <1>2, <1>3 DEF FilterLine, ReadLine
<1>4. CASE ~f.skipping
  <2>1. FilterLine(f, Include, kept).out = out \o kept
    BY <1>2, <1>4 DEF FilterLine
  <2>2. ReadLine(g, Include, alias, included).read = read \o included
    BY <1>1, <1>2, <1>4 DEF ReadLine
  <2>3. SameRead(out \o kept, read \o included, alias)
    BY <1>1, <1>4, ReadBoth
  <2> QED
    BY <2>1, <2>2, <2>3
<1> QED
  BY <1>3, <1>4

\* So a text whose includes come last may include a file with blocks of its own.
LEMMA IncludedReads ==
    ASSUME NEW lines \in Seq(Lines), IncludesLast(lines), NEW alias,
           NEW kept \in Seq(Lines), NEW included \in Seq(Lines), SameRead(kept, included, alias)
    PROVE  /\ ReadByOpenSSH(lines, alias, included) \in Seq(Lines)
           /\ SameRead(FilterFile(lines, kept), ReadByOpenSSH(lines, alias, included), alias)
<1> DEFINE N == Len(lines)
<1>1. PICK f \in [0 .. N -> Filters] :
        /\ f[0] = [skipping |-> FALSE, out |-> <<>>]
        /\ \A n \in 1 .. N : f[n] = FilterLine(f[n - 1], lines[n], kept)
        /\ FilterFile(lines, kept) = f[N].out
  BY FilterFileSteps
<1>2. PICK g \in [0 .. N -> Reads] :
        /\ g[0] = [active |-> TRUE, read |-> <<>>]
        /\ \A n \in 1 .. N : g[n] = ReadLine(g[n - 1], lines[n], alias, included)
        /\ ReadByOpenSSH(lines, alias, included) = g[N].read
  BY ReadSteps
<1>3. N \in Nat /\ N = Len(lines) /\ DOMAIN lines = 1 .. N /\ \A n \in 1 .. N : lines[n] \in Lines
  BY LenProperties
<1> HIDE DEF N
<1> DEFINE Same(n) == SameRead(f[n].out, g[n].read, alias)
           Under(n) == Alongside(f[n], g[n], alias)
                         /\ (~f[n].skipping => HeaderOf(f[n].out, Len(f[n].out)) = HeaderOf(lines, n))
           T == {n \in 0 .. N : Same(n) /\ (n = 0 \/ lines[n] # Include => Under(n))}
<1>4. 0 \in T
  <2>1. HeaderOf(<<>>, 0) = Host(Every) /\ HeaderOf(lines, 0) = Host(Every) /\ Len(<<>>) = 0
    BY DEF HeaderOf
  <2>2. Matches(HeaderOf(<<>>, 0), alias)
    BY <2>1 DEF Matches, Host
  <2>3. SameRead(<<>>, <<>>, alias)
    <3>1. <<>> \in Seq(Lines) /\ Headless(<<>>)
      BY DEF Headless
    <3> QED
      BY <3>1, HeadlessReads
  <2>4. f[0].skipping = FALSE /\ f[0].out = <<>> /\ g[0].active = TRUE /\ g[0].read = <<>>
    BY <1>1, <1>2
  <2>5. f[0] \in Filters /\ g[0] \in Reads /\ 0 \in 0 .. N
    <3>1. 0 \in 0 .. N
      BY <1>3
    <3> QED
      BY <3>1
  <2>6. Same(0) /\ Under(0)
    BY <2>1, <2>2, <2>3, <2>4, <2>5 DEF Alongside
  <2> QED
    BY <2>5, <2>6
<1>5. ASSUME NEW n \in 1 .. N, n - 1 \in T PROVE n \in T
  <2>a. n \in 0 .. N /\ n - 1 \in 0 .. N /\ n # 0 /\ n \in 1 .. N
    BY <1>3
  <2>b. f[n - 1] \in Filters /\ g[n - 1] \in Reads
    BY <2>a
  <2>c. f[n] = FilterLine(f[n - 1], lines[n], kept)
    BY <1>1
  <2>d. g[n] = ReadLine(g[n - 1], lines[n], alias, included)
    BY <1>2
  <2>1. /\ n \in 0 .. N /\ n - 1 \in 0 .. N /\ n # 0 /\ n \in 1 .. Len(lines)
        /\ lines[n] \in Lines
        /\ f[n - 1] \in Filters /\ g[n - 1] \in Reads
        /\ f[n] = FilterLine(f[n - 1], lines[n], kept)
        /\ g[n] = ReadLine(g[n - 1], lines[n], alias, included)
    BY <1>3, <2>a, <2>b, <2>c, <2>d
  <2>2. HeaderOf(lines, n) = IF IsHeader(lines[n]) THEN lines[n] ELSE HeaderOf(lines, n - 1)
    BY <2>1, HeaderGoesOn
  <2>3. Same(n - 1)
    BY <1>5
  <2>4. CASE IsHeader(lines[n])
    <3>1. Under(n)
      BY <2>1, <2>2, <2>3, <2>4, AtHeader
    <3>2. Same(n)
      BY <3>1 DEF Alongside
    <3> QED
      BY <2>1, <3>1, <3>2
  <2>5. CASE ~IsHeader(lines[n])
    <3>1. Under(n - 1)
      <4>1. CASE n - 1 = 0
        BY <1>5, <4>1
      <4>2. CASE n - 1 # 0
        <5>1. n - 1 \in DOMAIN lines /\ n - 1 < Len(lines) /\ n - 1 + 1 = n
          BY <1>3, <4>2
        <5>2. lines[n - 1] # Include
          BY <2>5, <5>1 DEF IncludesLast
        <5> QED
          BY <1>5, <5>2
      <4> QED
        BY <4>1, <4>2
    <3>2. CASE lines[n] = Include
      <4>1. HeaderOf(lines, n).word = "Match" \/ HeaderOf(lines, n).arg = Every
        BY <1>3, <3>2 DEF IncludesLast
      <4>2. Matches(HeaderOf(lines, n - 1), alias)
        BY <2>2, <2>5, <4>1 DEF Matches
      <4>3. Same(n)
        BY <2>1, <3>1, <3>2, <4>2, AtInclude
      <4> QED
        BY <2>1, <3>2, <4>3
    <3>3. CASE lines[n] # Include
      <4>1. <<>> \in Seq(Lines) /\ Headless(<<>>) /\ <<lines[n]>> \in Seq(Lines) /\ Headless(<<lines[n]>>)
        BY <2>1, <2>5 DEF Headless
      <4>2. /\ f[n] = FilterLine(f[n - 1], lines[n], <<>>)
            /\ g[n] = ReadLine(g[n - 1], lines[n], alias, <<>>)
        BY <2>1, <3>3 DEF FilterLine, ReadLine
      <4>3. Alongside(f[n], g[n], alias)
        BY <2>1, <3>1, <4>1, <4>2, AlongsideStays
      <4>4. ASSUME ~f[n].skipping PROVE HeaderOf(f[n].out, Len(f[n].out)) = HeaderOf(lines, n)
        <5>1. ~f[n - 1].skipping
          BY <2>1, <2>5, <4>4 DEF FilterLine
        <5>2. f[n].out = f[n - 1].out \o <<lines[n]>>
          BY <2>1, <2>5, <3>3, <5>1 DEF FilterLine
        <5>3. f[n - 1].out \in Seq(Lines)
          BY <2>1 DEF Filters
        <5>4. HeaderOf(f[n].out, Len(f[n].out)) = HeaderOf(f[n - 1].out, Len(f[n - 1].out))
          BY <4>1, <5>2, <5>3, HeaderStays
        <5> QED
          BY <2>2, <2>5, <3>1, <5>1, <5>4
      <4>5. Same(n)
        BY <4>3 DEF Alongside
      <4> QED
        BY <2>1, <4>3, <4>4, <4>5
    <3> QED
      BY <3>2, <3>3
  <2> QED
    BY <2>4, <2>5
<1>6. Same(N) /\ g[N] \in Reads
  <2> HIDE DEF T
  <2>1. 0 .. N \subseteq T
    BY <1>3, <1>4, <1>5, CountUp
  <2>2. N \in 0 .. N
    BY <1>3
  <2> QED
    BY <2>1, <2>2 DEF T
<1> QED
  BY <1>1, <1>2, <1>6 DEF Reads

\* Where the filter's textual insertion reads as OpenSSH does: the included file
\* begins no block that is kept, or nothing depends on where it ends.
WellIncluded == PlainInclude \/ \A t \in Texts : IncludesLast(t)

\* So what is kept of the whole text says for an alias what OpenSSH reads of it.
LEMMA TextReads ==
    ASSUME WellIncluded, NEW lines \in Texts, NEW alias
    PROVE  /\ OpenSSH(lines, alias) \in Seq(Lines)
           /\ SameRead(LenientSSHConfig(lines), OpenSSH(lines, alias), alias)
<1> DEFINE kept == FilterFile(Included, <<>>)
           included == ReadByOpenSSH(Included, alias, <<>>)
<1>1. lines \in Seq(Lines) /\ Included \in Seq(Lines) /\ <<>> \in Seq(Lines) /\ Headless(<<>>)
  BY TextsAssumption, IncludedAssumption DEF Headless
<1>2. kept \in Seq(Lines) /\ included \in Seq(Lines) /\ SameRead(kept, included, alias)
  BY <1>1, FilterReads
<1>3. CASE PlainInclude
  <2>1. Headless(kept) /\ kept = included
    BY <1>3, PlainFile
  <2>2. /\ ReadByOpenSSH(lines, alias, kept) \in Seq(Lines)
        /\ SameRead(FilterFile(lines, kept), ReadByOpenSSH(lines, alias, kept), alias)
    BY <1>1, <1>2, <2>1, FilterReads
  <2> QED
    BY <2>1, <2>2 DEF LenientSSHConfig, OpenSSH
<1>4. CASE IncludesLast(lines)
  <2>1. /\ ReadByOpenSSH(lines, alias, included) \in Seq(Lines)
        /\ SameRead(FilterFile(lines, kept), ReadByOpenSSH(lines, alias, included), alias)
    BY <1>1, <1>2, <1>4, IncludedReads
  <2> QED
    BY <2>1 DEF LenientSSHConfig, OpenSSH
<1> QED
  BY <1>3, <1>4 DEF WellIncluded

\* What is kept is a text again, whatever the included file holds.
LEMMA LenientIsText ==
    ASSUME NEW lines \in Seq(Lines)
    PROVE  LenientSSHConfig(lines) \in Seq(Lines)
<1>1. \A inc \in Seq(Lines), s \in Seq(Lines) : FilterFile(s, inc) \in Seq(Lines)
  <2> TAKE inc \in Seq(Lines), s \in Seq(Lines)
  <2>1. PICK f \in [0 .. Len(s) -> Filters] : FilterFile(s, inc) = f[Len(s)].out
    BY FilterFileSteps
  <2>2. Len(s) \in 0 .. Len(s)
    BY LenProperties
  <2>3. f[Len(s)] \in Filters
    BY <2>2
  <2> QED
    BY <2>1, <2>3 DEF Filters
<1>2. Included \in Seq(Lines) /\ <<>> \in Seq(Lines)
  BY IncludedAssumption, EmptySeq
<1>3. FilterFile(Included, <<>>) \in Seq(Lines)
  BY <1>1, <1>2
<1> QED
  BY <1>1, <1>3 DEF LenientSSHConfig

-----------------------------------------------------------------------------
(* The invariants.                                                           *)

\* The scan and the resolved hosts are the text's.
Scanned == /\ text \in Texts /\ text \in Seq(Lines)
           /\ cands = Scan(LenientSSHConfig(text))
           /\ host = [a \in Targets |-> ResolveSSHHost(LenientSSHConfig(text), a)]

\* The marker of the offer has not been lost, and nobody asked beside another.
Kept == ~overlapped /\ "import_offered" \notin lost

\* Who has answered, and is about to write the marker.
Answering(c) == stage[c] \in {"declined", "accepted"}

\* As long as the marker is kept, one launch asks at a time and none has
\* answered before; an answer is marked, or its launch is about to mark it.
OfferInv ==
    /\ \A c \in Commands : Answering(c) => offer[c] /\ answers > 0
    /\ \A c \in Commands : offer[c] => stage[c] = "question" \/ Answering(c)
    /\ ~overlapped => \A c, d \in Commands : offer[c] /\ offer[d] => c = d
    /\ Kept => answers # 2
    /\ Kept /\ answers > 0 => "import_offered" \in markers \/ \E c \in Commands : Answering(c)
    /\ Kept => \A c \in Commands : offer[c] /\ stage[c] = "question" => answers = 0
    /\ "import_offered" \in markers => answers > 0 \/ nothing

\* A command that still has to write has something to write.
Working ==
    \A c \in Commands :
        stage[c] \in {"question", "accepted", "validate", "append"} => plan[c] # <<>>

\* No two tubers of a sequence are for one thing, or called the same.
AllApart(h, s) == \A i, j \in DOMAIN s : i < j => Apart(h, s[i], s[j])

\* A plan behind a file: nothing twice in either, and nothing in both.
Planning(h, tubers, adds) ==
    /\ AllApart(h, tubers) /\ AllApart(h, adds)
    /\ \A i \in DOMAIN tubers, j \in DOMAIN adds : Apart(h, tubers[i], adds[j])

\* What is planned is apart from the file, and apart in itself, unless others
\* have added to the file since. Before there is a file there is no plan.
PlanInv ==
    /\ file = Absent => \A c \in Commands : plan[c] = <<>>
    /\ ~raced => AllApart(host, file)
    /\ ~raced => \A c \in Commands : ~stale[c] => Planning(host, file, plan[c])

\* The text never changes, and so neither do the things read from it.
LEMMA ScannedInit == Init => Scanned
  BY TextsAssumption DEF Init, Scanned

\* ... at any step.
LEMMA ScannedNext == Scanned /\ [Next]_vars => Scanned'
<1> SUFFICES ASSUME Scanned, [Next]_vars PROVE Scanned'
  OBVIOUS
<1>1. text' = text /\ cands' = cands /\ host' = host
  BY DEF Next, vars, ssh, EnsureExample, TouchMarker, Import, Offer, Asks, NothingToOffer,
         Decline, Confirm, Validate, AddTuberNode, Stops, OtherAdds, OtherRemoves
<1> QED
  BY <1>1 DEF Scanned

\* The candidates are forwards of named blocks.
LEMMA CandidatesAre ==
    ASSUME Scanned
    PROVE  cands \in Seq(Candidates)
<1>1. cands \in Seq(Declared(LenientSSHConfig(text)))
  BY LenientIsText, ScanFinds DEF Scanned
<1>2. Declared(LenientSSHConfig(text)) \subseteq Candidates
  BY DEF Declared, Candidates
<1>3. Len(cands) \in Nat /\ \A i \in 1 .. Len(cands) : cands[i] \in Candidates
  BY <1>1, <1>2, LenProperties
<1>4. cands = [i \in 1 .. Len(cands) |-> cands[i]]
  BY <1>1
<1> QED
  BY <1>3, <1>4, SeqDef

-----------------------------------------------------------------------------
(* The type invariant.                                                       *)

\* A configuration starts as nothing, or as exampleConfig.
LEMMA TypeInit == Init => TypeOK /\ Working
<1> SUFFICES ASSUME Init PROVE TypeOK /\ Working
  OBVIOUS
<1>1. Example \in Tubers
  BY DEF Example, Tuber, Tubers, TuberNames, Targets
<1>2. <<>> \in Seq(Tubers) /\ <<Example>> \in Seq(Tubers)
  BY <1>1, EmptySeq
<1>3. file \in Seq(Tubers) /\ plan \in [Commands -> Seq(Tubers)]
  BY <1>2 DEF Init, Absent
<1>4. edits \in 0 .. MaxEdits /\ answers \in 0 .. 2
  BY BoundsAssumption DEF Init
<1>5. stage \in [Commands -> Stages] /\ Working
  BY DEF Init, Stages, Working
<1>6. offer \in [Commands -> BOOLEAN] /\ stale \in [Commands -> BOOLEAN]
  BY DEF Init
<1>7. raced \in BOOLEAN /\ overlapped \in BOOLEAN /\ nothing \in BOOLEAN
  BY DEF Init
<1>8. markers \subseteq Markers /\ lost \subseteq Markers /\ text \in Texts
  BY DEF Init
<1>9. cands \in Seq(Candidates)
  BY ScannedInit, CandidatesAre
<1> QED
  BY <1>3, <1>4, <1>5, <1>6, <1>7, <1>8, <1>9 DEF TypeOK

\* Without its first a sequence is empty if that was all of it.
LEMMA LastOne ==
    ASSUME NEW s \in Seq(Tubers), s # <<>>
    PROVE  Len(s) = 1 <=> Tail(s) = <<>>
<1> DEFINE u == Tail(s)
<1>1. Len(s) \in Nat /\ u \in Seq(Tubers) /\ Len(u) = Len(s) - 1
  BY HeadTailProperties, LenProperties
<1> HIDE DEF u
<1>2. Len(s) = 1 <=> Len(u) = 0
  BY <1>1
<1>3. Len(u) = 0 <=> u = <<>>
  BY <1>1, EmptySeq
<1> QED
  BY <1>2, <1>3 DEF u

\* A function with one value changed.
LEMMA PutIn ==
    ASSUME NEW A, NEW S, NEW f \in [A -> S], NEW a \in A, NEW v \in S
    PROVE  /\ [f EXCEPT ![a] = v] \in [A -> S]
           /\ [f EXCEPT ![a] = v][a] = v
           /\ \A x \in A : x # a => [f EXCEPT ![a] = v][x] = f[x]
  OBVIOUS

\* The types of what a command goes through, and of what it leaves behind.
CommandOK ==
    /\ stage \in [Commands -> Stages] /\ offer \in [Commands -> BOOLEAN]
    /\ plan \in [Commands -> Seq(Tubers)] /\ stale \in [Commands -> BOOLEAN]

FilesOK ==
    /\ file \in Seq(Tubers) /\ edits \in 0 .. MaxEdits /\ raced \in BOOLEAN
    /\ markers \subseteq Markers /\ lost \subseteq Markers
    /\ answers \in 0 .. 2 /\ overlapped \in BOOLEAN /\ nothing \in BOOLEAN

TextOK == text \in Texts /\ cands \in Seq(Candidates)

LEMMA TypeParts == TypeOK <=> TextOK /\ FilesOK /\ CommandOK
  BY DEF TypeOK, TextOK, FilesOK, CommandOK

\* A marker a command owes is one of the two.
LEMMA OwesIs ==
    ASSUME NEW c
    PROVE  /\ Owes(c) \subseteq Markers
           /\ "import_offered" \in Owes(c) => stage[c] \in {"declined", "accepted"}
           /\ stage[c] \in {"declined", "accepted"} => "import_offered" \in Owes(c)
           /\ Owes(c) # {} => stage[c] \in {"bootstrap", "declined", "accepted"}
  BY DEF Owes, Markers

\* A command that is over.
LEMMA EndsType ==
    ASSUME NEW c \in Commands, CommandOK, Working, Ends(c)
    PROVE  CommandOK' /\ Working'
<1>1. "idle" \in Stages /\ <<>> \in Seq(Tubers) /\ FALSE \in BOOLEAN
  BY EmptySeq DEF Stages
<1>2. CommandOK'
  BY <1>1, PutIn DEF CommandOK, Ends, Moves
<1>3. Working'
  BY <1>1, PutIn DEF CommandOK, Ends, Moves, Working
<1> QED
  BY <1>2, <1>3

\* What the plan holds, and what another command adds, are tubers.
LEMMA FilesNext ==
    ASSUME Scanned, TypeOK, Working, [Next]_vars
    PROVE  FilesOK'
<1> USE DEF FilesOK
<1>1. FilesOK /\ CommandOK
  BY TypeParts
<1>2. ASSUME NEW c \in Commands, EnsureExample(c) PROVE FilesOK'
  <2>1. Example \in Tubers
    BY DEF Example, Tuber, Tubers, TuberNames, Targets
  <2>2. <<Example>> \in Seq(Tubers)
    BY <2>1
  <2> QED
    BY <1>1, <1>2, <2>2 DEF EnsureExample, history
<1>3. ASSUME NEW c \in Commands, TouchMarker(c) PROVE FilesOK'
  <2>1. markers' \subseteq Markers /\ lost' \subseteq Markers
    BY <1>1, <1>3, OwesIs DEF TouchMarker, Loses
  <2> QED
    BY <1>1, <1>3, <2>1 DEF TouchMarker
<1>4. ASSUME NEW c \in Commands, NEW b \in BOOLEAN, Asks(c, b), overlapped' \in BOOLEAN PROVE FilesOK'
  BY <1>1, <1>4 DEF Asks
<1>5. ASSUME NEW c \in Commands, NothingToOffer(c) PROVE FilesOK'
  BY <1>1, <1>5 DEF NothingToOffer, Markers
<1>6. ASSUME NEW c \in Commands, Answered(c),
             UNCHANGED <<file, markers, raced, edits, overlapped, nothing, lost>>
      PROVE  FilesOK'
  <2>1. answers' \in 0 .. 2
    BY <1>1, <1>6 DEF Answered
  <2> QED
    BY <1>1, <1>6, <2>1
<1>7. ASSUME NEW c \in Commands, AddTuberNode(c) PROVE FilesOK'
  <2>1. plan[c] \in Seq(Tubers) /\ plan[c] # <<>>
    BY <1>1, <1>7 DEF AddTuberNode, CommandOK, Working
  <2>2. file' \in Seq(Tubers)
    BY <1>1, <1>7, <2>1, HeadTailProperties, AppendProperties DEF AddTuberNode
  <2>3. raced' \in BOOLEAN
    BY <1>7 DEF AddTuberNode
  <2> QED
    BY <1>1, <1>7, <2>2, <2>3 DEF AddTuberNode, history
<1>8. ASSUME NEW c \in Commands, Stops(c) PROVE FilesOK'
  <2>1. lost' \subseteq Markers
    BY <1>1, <1>8, OwesIs DEF Stops, Loses
  <2> QED
    BY <1>1, <1>8, <2>1 DEF Stops
<1>9. CASE OtherAdds
  <2>1. PICK a \in Aliases, f \in Forwards :
           file' = Append(file, Tuber(<<<<a, f.type>>, 1>>, a, f.type, f.bind))
    BY <1>9 DEF OtherAdds
  <2>2. Tuber(<<<<a, f.type>>, 1>>, a, f.type, f.bind) \in Tubers
    BY FormsAssumption DEF Tuber, Tubers, TuberNames, Targets
  <2>3. file' \in Seq(Tubers)
    BY <1>1, <2>1, <2>2, AppendProperties
  <2>4. edits' \in 0 .. MaxEdits
    BY <1>1, <1>9, BoundsAssumption DEF OtherAdds
  <2> QED
    BY <1>1, <1>9, <2>3, <2>4 DEF OtherAdds, history
<1>10. CASE OtherRemoves
  <2>1. file # <<>>
    BY <1>10 DEF OtherRemoves
  <2>2. Tail(file) \in Seq(Tubers)
    BY <1>1, <2>1, HeadTailProperties
  <2> QED
    BY <1>1, <1>10, <2>2 DEF OtherRemoves, history
<1>11. CASE UNCHANGED vars
  BY <1>1, <1>11 DEF vars, history
<1>12. ASSUME NEW c \in Commands, Import(c) \/ Offer(c) PROVE FilesOK'
  <2>1. overlapped' \in BOOLEAN
    BY <1>1, <1>12 DEF Import, Offer
  <2> QED
    BY <1>4, <1>12, <2>1 DEF Import, Offer
<1>13. ASSUME NEW c \in Commands, Decline(c) \/ Confirm(c) PROVE FilesOK'
  BY <1>6, <1>13 DEF Decline, Confirm
<1>14. ASSUME NEW c \in Commands, Validate(c) PROVE FilesOK'
  BY <1>1, <1>14 DEF Validate, history
<1> QED
  BY <1>2, <1>3, <1>5, <1>7, <1>8, <1>9, <1>10, <1>11, <1>12, <1>13, <1>14 DEF Next

\* A command goes from stage to stage with a plan to write.
LEMMA CommandNext ==
    ASSUME Scanned, TypeOK, Working, [Next]_vars
    PROVE  CommandOK' /\ Working'
<1>1. FilesOK /\ CommandOK
  BY TypeParts
<1>2. /\ <<>> \in Seq(Tubers)
      /\ {"idle", "bootstrap", "question", "declined", "accepted", "validate", "append"} = Stages
  BY EmptySeq DEF Stages
<1> USE DEF CommandOK, Working, Moves
<1>3. ASSUME NEW c \in Commands, EnsureExample(c) PROVE CommandOK' /\ Working'
  BY <1>1, <1>2, <1>3 DEF EnsureExample
<1>4. ASSUME NEW c \in Commands, TouchMarker(c) PROVE CommandOK' /\ Working'
  <2>1. stage[c] \in {"bootstrap", "declined", "accepted"}
    BY <1>4, OwesIs DEF TouchMarker
  <2> QED
    BY <1>1, <1>2, <1>4, <2>1 DEF TouchMarker
<1>5. ASSUME NEW c \in Commands, NEW b \in BOOLEAN, Asks(c, b) PROVE CommandOK' /\ Working'
  <2>1. PlanImport(file) \in Seq(Tubers) /\ PlanImport(file) # <<>>
    BY <1>1, <1>5, CandidatesAre, PlanIs DEF Asks, FilesOK
  <2>2. plan' \in [Commands -> Seq(Tubers)] /\ plan' = [plan EXCEPT ![c] = PlanImport(file)]
    BY <1>1, <1>5, <2>1 DEF Asks
  <2>3. /\ stage' = [stage EXCEPT ![c] = "question"] /\ stale' = stale
        /\ offer' \in [Commands -> BOOLEAN]
    BY <1>1, <1>5 DEF Asks
  <2> QED
    BY <1>1, <1>2, <2>1, <2>2, <2>3
<1>6. ASSUME NEW c \in Commands, Decline(c) PROVE CommandOK' /\ Working'
  <2>1. /\ plan' \in [Commands -> Seq(Tubers)] /\ plan' = [plan EXCEPT ![c] = <<>>]
        /\ stale' \in [Commands -> BOOLEAN] /\ offer' = offer
    BY <1>1, <1>2, <1>6 DEF Decline
  <2>2. PICK s \in {"declined", "idle"} : stage' = [stage EXCEPT ![c] = s]
    BY <1>6 DEF Decline
  <2> QED
    BY <1>1, <1>2, <2>1, <2>2
<1>7. ASSUME NEW c \in Commands, Confirm(c) PROVE CommandOK' /\ Working'
  <2>1. PICK s \in {"accepted", "validate"} : stage' = [stage EXCEPT ![c] = s]
    BY <1>7 DEF Confirm
  <2> QED
    BY <1>1, <1>2, <1>7, <2>1 DEF Confirm
<1>8. ASSUME NEW c \in Commands, Validate(c) PROVE CommandOK' /\ Working'
  BY <1>1, <1>2, <1>8 DEF Validate
<1>9. ASSUME NEW c \in Commands, AddTuberNode(c) PROVE CommandOK' /\ Working'
  <2> DEFINE rest == Tail(plan[c])
  <2>1. plan[c] \in Seq(Tubers) /\ plan[c] # <<>>
    BY <1>1, <1>9 DEF AddTuberNode
  <2>2. rest \in Seq(Tubers) /\ (Len(plan[c]) = 1 <=> rest = <<>>)
    BY <2>1, HeadTailProperties, LastOne
  <2>3. plan' = [plan EXCEPT ![c] = rest] /\ offer' = offer
    BY <1>9 DEF AddTuberNode
  <2>4. \/ rest = <<>> /\ stage' = [stage EXCEPT ![c] = "idle"]
        \/ rest # <<>> /\ stage' = stage
    BY <1>9, <2>2 DEF AddTuberNode
  <2>5. stale' \in [Commands -> BOOLEAN]
    <3>1. Ages(c) \in [Commands -> BOOLEAN]
      BY DEF Ages
    <3> QED
      BY <1>9, <3>1 DEF AddTuberNode
  <2> HIDE DEF rest
  <2> QED
    BY <1>1, <1>2, <2>2, <2>3, <2>4, <2>5
<1>10. ASSUME NEW c \in Commands, Stops(c) PROVE CommandOK' /\ Working'
  BY <1>1, <1>10, EndsType DEF Stops
<1>11. CASE OtherAdds
  BY <1>1, <1>11 DEF OtherAdds
<1>12. CASE OtherRemoves
  BY <1>1, <1>12 DEF OtherRemoves, command
<1>13. ASSUME NEW c \in Commands, NothingToOffer(c) PROVE CommandOK' /\ Working'
  BY <1>1, <1>13 DEF NothingToOffer, command
<1>14. CASE UNCHANGED vars
  BY <1>1, <1>14 DEF vars, command
<1>15. ASSUME NEW c \in Commands, Import(c) \/ Offer(c) PROVE CommandOK' /\ Working'
  BY <1>5, <1>15 DEF Import, Offer
<1> HIDE DEF CommandOK, Working
<1> QED
  BY <1>3, <1>4, <1>6, <1>7, <1>8, <1>9, <1>10, <1>11, <1>12, <1>13, <1>14, <1>15 DEF Next

LEMMA TypeNext == Scanned /\ TypeOK /\ Working /\ [Next]_vars => TypeOK' /\ Working'
<1> SUFFICES ASSUME Scanned, TypeOK, Working, [Next]_vars PROVE TypeOK' /\ Working'
  OBVIOUS
<1>1. TextOK'
  <2>1. text' = text /\ cands' = cands
    BY DEF Next, vars, ssh, EnsureExample, TouchMarker, Import, Offer, Asks, NothingToOffer,
           Decline, Confirm, Validate, AddTuberNode, Stops, OtherAdds, OtherRemoves
  <2> QED
    BY <2>1 DEF TypeOK, TextOK
<1>2. TypeOK' <=> TextOK' /\ FilesOK' /\ CommandOK'
  BY DEF TypeOK, TextOK, FilesOK, CommandOK
<1> QED
  BY <1>1, <1>2, FilesNext, CommandNext

\* Type correctness: every plan is of tubers, and every candidate's ssh: an
\* alias that a block names.
THEOREM ImportTypeCorrect == Spec => []TypeOK
<1>1. Init => Scanned /\ TypeOK /\ Working
  BY ScannedInit, TypeInit
<1>2. Scanned /\ TypeOK /\ Working /\ [Next]_vars => (Scanned /\ TypeOK /\ Working)'
  BY ScannedNext, TypeNext
<1> QED
  BY <1>1, <1>2, PTL DEF Spec

-----------------------------------------------------------------------------
(* The offer.                                                                *)

\* Nobody asks at first, and there are no markers.
LEMMA OfferInit == Init => OfferInv
  BY DEF Init, OfferInv, Answering, Kept

\* A command's steps that are no concern of the offer.
LEMMA OfferStays ==
    ASSUME OfferInv, UNCHANGED <<markers, history>>,
           \A c \in Commands : /\ offer'[c] = offer[c]
                               /\ offer[c] => stage'[c] = stage[c]
                               /\ Answering(c)' => stage'[c] = stage[c]
    PROVE  OfferInv'
<1>1. \A c \in Commands : Answering(c)' <=> Answering(c)
  BY DEF OfferInv, Answering
<1>2. UNCHANGED <<markers, answers, overlapped, nothing, lost>> /\ (Kept' <=> Kept)
  BY DEF history, Kept
<1> QED
  BY <1>1, <1>2 DEF OfferInv

\* A marker is written, or cannot be.
LEMMA OfferMarked ==
    ASSUME TypeOK, OfferInv, NEW c \in Commands, TouchMarker(c)
    PROVE  OfferInv'
<1>1. /\ stage \in [Commands -> Stages] /\ offer \in [Commands -> BOOLEAN]
      /\ offer' = [offer EXCEPT ![c] = FALSE] /\ UNCHANGED <<answers, overlapped, nothing>>
      /\ \E s \in {"idle", "validate"} : stage' = [stage EXCEPT ![c] = s]
  BY DEF TypeOK, TouchMarker, Moves
<1>2. /\ \A d \in Commands : d # c => offer'[d] = offer[d] /\ stage'[d] = stage[d]
      /\ ~offer'[c] /\ stage'[c] \in {"idle", "validate"}
  BY <1>1
<1>3. /\ "import_offered" \in markers => "import_offered" \in markers'
      /\ "import_offered" \in lost => "import_offered" \in lost'
      /\ Answering(c) => "import_offered" \in markers' \cup lost'
      /\ "import_offered" \in markers' => "import_offered" \in markers \/ Answering(c)
  <2>1. "import_offered" \in Owes(c) <=> Answering(c)
    BY OwesIs DEF Answering
  <2>2. \/ markers' = markers \cup Owes(c) /\ lost' = lost
        \/ lost' = lost \cup (Owes(c) \ markers) /\ markers' = markers
    BY DEF TouchMarker, Loses
  <2> QED
    BY <2>1, <2>2
<1>4. ~Answering(c)' /\ \A d \in Commands : d # c => (Answering(d)' <=> Answering(d))
  BY <1>2 DEF Answering
<1>5. Kept' => Kept
  BY <1>1, <1>3 DEF Kept
<1>6. /\ \A d \in Commands : Answering(d)' => offer'[d] /\ answers' > 0
      /\ \A d \in Commands : offer'[d] => stage'[d] = "question" \/ Answering(d)'
      /\ ~overlapped' => \A d, e \in Commands : offer'[d] /\ offer'[e] => d = e
  BY <1>1, <1>2, <1>4 DEF OfferInv
<1>7. Kept' => answers' # 2
  BY <1>1, <1>5 DEF OfferInv
<1>8. Kept' /\ answers' > 0 => "import_offered" \in markers' \/ \E d \in Commands : Answering(d)'
  <2> SUFFICES ASSUME Kept', answers > 0, ~("import_offered" \in markers')
               PROVE  \E d \in Commands : Answering(d)'
    BY <1>1
  <2>1. PICK d \in Commands : Answering(d)
    BY <1>3, <1>5 DEF OfferInv
  <2>2. d # c
    BY <1>3, <2>1 DEF Kept
  <2> QED
    BY <1>4, <2>1, <2>2
<1>9. Kept' => \A d \in Commands : offer'[d] /\ stage'[d] = "question" => answers' = 0
  BY <1>1, <1>2, <1>5 DEF OfferInv
<1>10. "import_offered" \in markers' => answers' > 0 \/ nothing'
  BY <1>1, <1>3 DEF OfferInv
<1> QED
  BY <1>6, <1>7, <1>8, <1>9, <1>10 DEF OfferInv

\* A launch asks: if nobody else is at it and the marker is kept, nobody has
\* answered.
LEMMA OfferAsks ==
    ASSUME TypeOK, OfferInv, NEW c \in Commands, Offer(c)
    PROVE  OfferInv'
<1>1. /\ stage \in [Commands -> Stages] /\ offer \in [Commands -> BOOLEAN]
      /\ stage' = [stage EXCEPT ![c] = "question"] /\ offer' = [offer EXCEPT ![c] = TRUE]
      /\ stage[c] = "idle" /\ "import_offered" \notin markers
      /\ UNCHANGED <<markers, answers, nothing, lost>>
      /\ overlapped' = (overlapped \/ \E d \in Commands : offer[d])
  BY DEF TypeOK, Offer, Gate, Asks, Moves
<1>2. /\ \A d \in Commands : d # c => offer'[d] = offer[d] /\ stage'[d] = stage[d]
      /\ offer'[c] /\ stage'[c] = "question"
  BY <1>1
<1>3. \A d \in Commands : Answering(d)' <=> Answering(d)
  BY <1>1, <1>2 DEF Answering
<1>4. Kept' => Kept /\ ~overlapped' /\ \A d \in Commands : ~offer[d]
  BY <1>1 DEF Kept
<1>5. /\ \A d \in Commands : Answering(d)' => offer'[d] /\ answers' > 0
      /\ \A d \in Commands : offer'[d] => stage'[d] = "question" \/ Answering(d)'
      /\ ~overlapped' => \A d, e \in Commands : offer'[d] /\ offer'[e] => d = e
  BY <1>1, <1>2, <1>3 DEF OfferInv
<1>6. Kept' => ~(answers > 0)
  BY <1>1, <1>4 DEF OfferInv
<1>7. answers \in 0 .. 2 /\ (Kept' => answers = 0)
  BY <1>6 DEF TypeOK
<1>8. answers' = answers /\ (Kept' => answers' = 0)
  BY <1>1, <1>7
<1>9. "import_offered" \in markers' => answers' > 0 \/ nothing'
  BY <1>1
<1> QED
  BY <1>5, <1>8, <1>9 DEF OfferInv

\* The question is answered.
LEMMA OfferAnswered ==
    ASSUME TypeOK, OfferInv, NEW c \in Commands, Decline(c) \/ Confirm(c)
    PROVE  OfferInv'
<1>1. /\ stage \in [Commands -> Stages] /\ stage[c] = "question" /\ answers \in 0 .. 2
      /\ answers' = IF offer[c] /\ answers < 2 THEN answers + 1 ELSE answers
      /\ \E s \in {"declined", "accepted"}, r \in {"idle", "validate"} :
            stage' = [stage EXCEPT ![c] = IF offer[c] THEN s ELSE r]
      /\ UNCHANGED <<offer, markers, overlapped, nothing, lost>>
  BY DEF TypeOK, Decline, Confirm, Answered, Moves
<1>2. /\ \A d \in Commands : d # c => stage'[d] = stage[d]
      /\ offer[c] => stage'[c] \in {"declined", "accepted"}
      /\ ~offer[c] => stage'[c] \in {"idle", "validate"}
  BY <1>1
<1>3. Answering(c)' <=> offer[c]
  BY <1>2 DEF Answering
<1>4. ~Answering(c) /\ \A d \in Commands : d # c => (Answering(d)' <=> Answering(d))
  BY <1>1, <1>2 DEF Answering
<1>5. (Kept' <=> Kept) /\ (answers > 0 => answers' > 0) /\ (offer[c] => answers' > 0)
  BY <1>1 DEF Kept
<1>6. /\ \A d \in Commands : Answering(d)' => offer'[d] /\ answers' > 0
      /\ \A d \in Commands : offer'[d] => stage'[d] = "question" \/ Answering(d)'
      /\ ~overlapped' => \A d, e \in Commands : offer'[d] /\ offer'[e] => d = e
      /\ "import_offered" \in markers' => answers' > 0 \/ nothing'
  BY <1>1, <1>2, <1>3, <1>4, <1>5 DEF OfferInv
<1>7. CASE offer[c]
  <2>1. Kept => answers = 0
    BY <1>1, <1>7 DEF OfferInv
  <2>2. Kept => answers' = 1
    BY <1>1, <1>7, <2>1
  <2>3. Kept => \A d \in Commands : offer'[d] => d = c
    BY <1>1, <1>7 DEF OfferInv, Kept
  <2>4. Kept' => \A d \in Commands : offer'[d] /\ stage'[d] = "question" => answers' = 0
    BY <1>2, <1>5, <1>7, <2>3
  <2>5. (Kept' => answers' # 2) /\ Answering(c)'
    BY <1>3, <1>5, <1>7, <2>2
  <2> QED
    BY <1>6, <2>4, <2>5 DEF OfferInv
<1>8. CASE ~offer[c]
  <2>1. answers' = answers /\ \A d \in Commands : Answering(d)' <=> Answering(d)
    BY <1>1, <1>3, <1>4, <1>8
  <2>2. Kept' => \A d \in Commands : offer'[d] /\ stage'[d] = "question" => answers' = 0
    BY <1>1, <1>2, <1>5, <1>8, <2>1 DEF OfferInv
  <2>3. /\ Kept' => answers' # 2
        /\ Kept' /\ answers' > 0 => "import_offered" \in markers' \/ \E d \in Commands : Answering(d)'
    BY <1>1, <1>5, <2>1 DEF OfferInv
  <2> QED
    BY <1>6, <2>2, <2>3 DEF OfferInv
<1> QED
  BY <1>7, <1>8

\* A command stops: at its marker it loses it.
LEMMA OfferStops ==
    ASSUME TypeOK, OfferInv, NEW c \in Commands, Stops(c)
    PROVE  OfferInv'
<1>1. /\ stage \in [Commands -> Stages] /\ offer \in [Commands -> BOOLEAN]
      /\ stage' = [stage EXCEPT ![c] = "idle"] /\ offer' = [offer EXCEPT ![c] = FALSE]
      /\ UNCHANGED <<markers, answers, overlapped, nothing>>
      /\ lost' = lost \cup (Owes(c) \ markers)
  BY DEF TypeOK, Stops, Ends, Loses, Moves
<1>2. /\ \A d \in Commands : d # c => offer'[d] = offer[d] /\ stage'[d] = stage[d]
      /\ ~offer'[c] /\ stage'[c] = "idle"
  BY <1>1
<1>3. ~Answering(c)' /\ \A d \in Commands : d # c => (Answering(d)' <=> Answering(d))
  BY <1>2 DEF Answering
<1>4. Answering(c) => "import_offered" \in markers \cup lost'
  BY <1>1, OwesIs DEF Answering
<1>5. Kept' => Kept
  BY <1>1 DEF Kept
<1>6. /\ \A d \in Commands : Answering(d)' => offer'[d] /\ answers' > 0
      /\ \A d \in Commands : offer'[d] => stage'[d] = "question" \/ Answering(d)'
      /\ ~overlapped' => \A d, e \in Commands : offer'[d] /\ offer'[e] => d = e
      /\ "import_offered" \in markers' => answers' > 0 \/ nothing'
  BY <1>1, <1>2, <1>3 DEF OfferInv
<1>7. Kept' /\ answers' > 0 => "import_offered" \in markers' \/ \E d \in Commands : Answering(d)'
  <2> SUFFICES ASSUME Kept', answers > 0, ~("import_offered" \in markers)
               PROVE  \E d \in Commands : Answering(d)'
    BY <1>1
  <2>1. PICK d \in Commands : Answering(d)
    BY <1>5 DEF OfferInv
  <2>2. d # c
    BY <1>4, <2>1 DEF Kept
  <2> QED
    BY <1>3, <2>1, <2>2
<1>8. Kept' => answers' # 2 /\ \A d \in Commands : offer'[d] /\ stage'[d] = "question" => answers' = 0
  BY <1>1, <1>2, <1>5 DEF OfferInv
<1> QED
  BY <1>6, <1>7, <1>8 DEF OfferInv

\* The invariant of the offer is inductive.
LEMMA OfferNext == TypeOK /\ OfferInv /\ [Next]_vars => OfferInv'
<1> SUFFICES ASSUME TypeOK, OfferInv, [Next]_vars PROVE OfferInv'
  OBVIOUS
<1>1. /\ stage \in [Commands -> Stages] /\ offer \in [Commands -> BOOLEAN]
      /\ \A c \in Commands : offer[c] => stage[c] = "question" \/ Answering(c)
      /\ \A c \in Commands : Answering(c) => offer[c]
  BY DEF TypeOK, OfferInv
<1>2. ASSUME NEW c \in Commands, EnsureExample(c) PROVE OfferInv'
  <2>1. UNCHANGED <<markers, history, offer>> /\ stage' = [stage EXCEPT ![c] = "bootstrap"] /\ ~offer[c]
    BY <1>1, <1>2 DEF EnsureExample, Moves, Answering
  <2> QED
    BY <1>1, <2>1, OfferStays DEF Answering
<1>3. ASSUME NEW c \in Commands, Import(c) PROVE OfferInv'
  <2>1. /\ UNCHANGED <<markers, history>> /\ stage' = [stage EXCEPT ![c] = "question"] /\ ~offer[c]
        /\ offer' = [offer EXCEPT ![c] = FALSE]
    BY <1>1, <1>3 DEF Import, Asks, Moves, Answering, history
  <2> QED
    BY <1>1, <2>1, OfferStays DEF Answering
<1>4. ASSUME NEW c \in Commands, NothingToOffer(c) PROVE OfferInv'
  BY <1>4 DEF NothingToOffer, OfferInv, Answering, Kept, command
<1>5. ASSUME NEW c \in Commands, Validate(c) PROVE OfferInv'
  <2>1. UNCHANGED <<markers, history, offer>> /\ stage' = [stage EXCEPT ![c] = "append"] /\ ~offer[c]
    BY <1>1, <1>5 DEF Validate, Moves, Answering
  <2> QED
    BY <1>1, <2>1, OfferStays DEF Answering
<1>6. ASSUME NEW c \in Commands, AddTuberNode(c) PROVE OfferInv'
  <2>1. /\ UNCHANGED <<markers, history, offer>> /\ ~offer[c]
        /\ stage' = stage \/ stage' = [stage EXCEPT ![c] = "idle"]
    BY <1>1, <1>6 DEF AddTuberNode, Moves, Answering
  <2> QED
    BY <1>1, <2>1, OfferStays DEF Answering
<1>7. CASE OtherAdds \/ OtherRemoves \/ UNCHANGED vars
  <2>1. UNCHANGED <<markers, history, offer, stage>>
    BY <1>7 DEF OtherAdds, OtherRemoves, vars, command
  <2> QED
    BY <2>1, OfferStays
<1> QED
  BY <1>2, <1>3, <1>4, <1>5, <1>6, <1>7, OfferMarked, OfferAsks, OfferAnswered, OfferStops DEF Next

\* OfferedOnce: the offer is answered again only when the marker of an answer
\* was not written or launches overlapped, and is spent only by an answer or
\* with nothing to offer (maybeOfferImport, MarkImportOffered).
THEOREM OneOffer == Spec => []OfferedOnce
<1>1. Init => Scanned /\ TypeOK /\ Working /\ OfferInv
  BY ScannedInit, TypeInit, OfferInit
<1>2. Scanned /\ TypeOK /\ Working /\ OfferInv /\ [Next]_vars => (Scanned /\ TypeOK /\ Working /\ OfferInv)'
  BY ScannedNext, TypeNext, OfferNext
<1>3. OfferInv => OfferedOnce
  BY DEF OfferInv, OfferedOnce, Kept
<1> QED
  BY <1>1, <1>2, <1>3, PTL DEF Spec

-----------------------------------------------------------------------------
(* What the import means.                                                    *)

\* An alias stands for the machine OpenSSH connects to.
LEMMA HostsAgree ==
    ASSUME Scanned, WellIncluded, NEW a \in Targets
    PROVE  host[a] = OpenSSHHostName(text, a)
<1>1. SameRead(LenientSSHConfig(text), OpenSSH(text, a), a)
  BY TextReads DEF Scanned
<1>2. host[a] = ResolveSSHHost(LenientSSHConfig(text), a)
  BY DEF Scanned
<1>3. ResolveSSHHost(LenientSSHConfig(text), a)
        = FirstHostName(LenientSSHConfig(text), For(LenientSSHConfig(text), a), a)
  BY DEF ResolveSSHHost, For
<1> QED
  BY <1>1, <1>2, <1>3 DEF SameRead, OpenSSHHostName

\* MeansTheSame: dropping the blocks nobody here can evaluate is
\* behaviour-preserving (LenientSSHConfig), if the included file begins none
\* that is kept or every Include is the last line of a block for all.
THEOREM ImportMeansTheSame == WellIncluded => (Spec => []MeansTheSame)
<1> SUFFICES ASSUME WellIncluded PROVE Spec => []MeansTheSame
  OBVIOUS
<1>1. Scanned => MeansTheSame
  <2> SUFFICES ASSUME Scanned, NEW i \in DOMAIN cands
               PROVE  /\ cands[i].forward \in OpenSSHForwards(text, cands[i].ssh)
                      /\ host[cands[i].ssh] = OpenSSHHostName(text, cands[i].ssh)
    BY DEF MeansTheSame
  <2> DEFINE out == LenientSSHConfig(text)
             c == cands[i]
  <2>1. c \in Declared(out)
    <3>1. cands \in Seq(Declared(out))
      BY LenientIsText, ScanFinds DEF Scanned
    <3> QED
      BY <3>1, ElementOfSeq, LenProperties
  <2> DEFINE read == OpenSSH(text, c.ssh)
  <2>2. SameRead(out, read, c.ssh)
    BY TextReads DEF Scanned
  <2>3. c.ssh \in Aliases
    BY <2>1 DEF Declared
  <2>4. PICK k \in DOMAIN out : out[k] = Forward(c.forward) /\ HeaderOf(out, k) = Host(c.ssh)
    BY <2>1 DEF Declared
  <2> HIDE DEF out, c, read
  <2>5. k \in For(out, c.ssh) /\ ~IsHeader(out[k])
    BY <2>4 DEF For, Matches, Host, Forward, IsHeader
  <2>6. PICK j \in DOMAIN read : read[j] = Forward(c.forward)
    BY <2>2, <2>4, <2>5 DEF SameRead
  <2>7. read[j].word = "Forward" /\ read[j].arg = c.forward
    BY <2>6 DEF Forward
  <2>8. c.forward \in OpenSSHForwards(text, c.ssh)
    BY <2>7 DEF OpenSSHForwards, read
  <2>9. host[c.ssh] = OpenSSHHostName(text, c.ssh)
    BY <2>3, HostsAgree DEF Targets
  <2> QED
    BY <2>8, <2>9 DEF c
<1> QED
  BY <1>1, ScannedInit, ScannedNext, PTL DEF Spec

\* Tubers with one coverage key are for the same forward, and the other way round.
LEMMA KeysAgree ==
    ASSUME Scanned, WellIncluded, NEW t \in Tubers, NEW u \in Tubers
    PROVE  SameForward(t, u) <=> CoverageKey(t) = CoverageKey(u)
<1>1. t.ssh \in Targets /\ u.ssh \in Targets
  BY DEF Tubers
<1>2. /\ host[t.ssh] = OpenSSHHostName(text, t.ssh)
      /\ host[u.ssh] = OpenSSHHostName(text, u.ssh)
  BY <1>1, HostsAgree
<1> QED
  BY <1>2 DEF SameForward, CoverageKey

-----------------------------------------------------------------------------
(* Nothing is imported twice.                                                *)

\* At first there is no plan, and one tuber at most.
LEMMA PlanInit == Init => PlanInv
<1> SUFFICES ASSUME Init PROVE PlanInv
  OBVIOUS
<1>1. (\A c \in Commands : plan[c] = <<>>) /\ (file = <<>> \/ file = <<Example>>)
  BY DEF Init, Absent
<1>2. AllApart(host, <<>>) /\ AllApart(host, <<Example>>)
  <2>1. DOMAIN << >> = {}
    OBVIOUS
  <2>2. DOMAIN <<Example>> = {1}
    OBVIOUS
  <2>3. \A i, j \in {1} : ~(i < j)
    OBVIOUS
  <2> QED
    BY <2>1, <2>2, <2>3 DEF AllApart
<1>3. DOMAIN << >> = {}
  OBVIOUS
<1> QED
  BY <1>1, <1>2, <1>3 DEF PlanInv, Planning

\* One more tuber at the end, apart from all before it.
LEMMA OneMore ==
    ASSUME NEW s \in Seq(Tubers), AllApart(host, s), NEW t \in Tubers, \A i \in DOMAIN s : Apart(host, s[i], t)
    PROVE  /\ AllApart(host, Append(s, t))
           /\ \A i \in DOMAIN Append(s, t) : (\E k \in DOMAIN s : Append(s, t)[i] = s[k]) \/ Append(s, t)[i] = t
<1> DEFINE u == Append(s, t)
<1>1. /\ Len(s) \in Nat /\ DOMAIN s = 1 .. Len(s) /\ DOMAIN u = 1 .. Len(s) + 1
      /\ \A i \in 1 .. Len(s) : u[i] = s[i]
      /\ u[Len(s) + 1] = t
  BY AppendProperties, LenProperties
<1> HIDE DEF u
<1>2. \A i \in DOMAIN u : i \in DOMAIN s \/ i = Len(s) + 1
  BY <1>1
<1>3. ASSUME NEW i \in DOMAIN u, NEW j \in DOMAIN u, i < j PROVE Apart(host, u[i], u[j])
  <2>1. i \in DOMAIN s
    BY <1>1, <1>3
  <2>2. CASE j \in DOMAIN s
    BY <1>1, <1>3, <2>1, <2>2 DEF AllApart
  <2>3. CASE j = Len(s) + 1
    BY <1>1, <2>1, <2>3
  <2> QED
    BY <1>2, <2>2, <2>3
<1>4. \A i \in DOMAIN u : (\E k \in DOMAIN s : u[i] = s[k]) \/ u[i] = t
  BY <1>1, <1>2
<1> QED
  BY <1>3, <1>4 DEF AllApart, u

\* Taking the first away leaves the others as they are.
LEMMA OneLess ==
    ASSUME NEW s \in Seq(Tubers), s # <<>>
    PROVE  /\ Head(s) = s[1] /\ 1 \in DOMAIN s
           /\ \A i \in DOMAIN Tail(s) : i + 1 \in DOMAIN s /\ 1 < i + 1 /\ Tail(s)[i] = s[i + 1]
           /\ AllApart(host, s) => AllApart(host, Tail(s))
<1> DEFINE u == Tail(s)
<1>1. /\ Len(s) \in Nat /\ Len(s) # 0 /\ DOMAIN s = 1 .. Len(s) /\ DOMAIN u = 1 .. Len(s) - 1
      /\ \A i \in 1 .. Len(s) - 1 : u[i] = s[i + 1]
      /\ Head(s) = s[1]
  <2>1. /\ Len(s) \in Nat /\ DOMAIN s = 1 .. Len(s) /\ Head(s) = s[1]
        /\ u \in Seq(Tubers) /\ Len(u) = Len(s) - 1
        /\ \A i \in 1 .. Len(u) : u[i] = s[i + 1]
    BY HeadTailProperties, LenProperties
  <2>2. Len(s) # 0
    BY EmptySeq
  <2>3. DOMAIN u = 1 .. Len(u)
    BY <2>1, LenProperties
  <2> QED
    BY <2>1, <2>2, <2>3
<1> HIDE DEF u
<1>2. \A i \in DOMAIN u : i + 1 \in DOMAIN s /\ 1 < i + 1 /\ u[i] = s[i + 1]
  BY <1>1
<1>3. 1 \in DOMAIN s
  BY <1>1
<1>4. ASSUME AllApart(host, s), NEW i \in DOMAIN u, NEW j \in DOMAIN u, i < j PROVE Apart(host, u[i], u[j])
  <2>1. i + 1 < j + 1
    BY <1>1, <1>4
  <2> QED
    BY <1>2, <1>4, <2>1 DEF AllApart
<1> QED
  BY <1>1, <1>2, <1>3, <1>4 DEF AllApart, u

\* A plan behind a file, when the plan's first goes to the file's end.
LEMMA FirstGoesOver ==
    ASSUME NEW s \in Seq(Tubers), NEW adds \in Seq(Tubers), adds # <<>>, Planning(host, s, adds)
    PROVE  /\ Planning(host, Append(s, Head(adds)), Tail(adds))
           /\ Append(s, Head(adds)) # <<>>
<1> DEFINE one == Head(adds)
           rest == Tail(adds)
           new == Append(s, one)
<1>1. /\ one = adds[1] /\ 1 \in DOMAIN adds
      /\ \A i \in DOMAIN rest : i + 1 \in DOMAIN adds /\ 1 < i + 1 /\ rest[i] = adds[i + 1]
      /\ AllApart(host, adds) => AllApart(host, rest)
  BY OneLess
<1>2. one \in Tubers
  BY HeadTailProperties
<1>3. new # <<>>
  BY <1>2, AppendProperties
<1> HIDE DEF one, rest
<1>4. \A i \in DOMAIN s : Apart(host, s[i], one)
  BY <1>1 DEF Planning
<1>5. /\ AllApart(host, new)
      /\ \A i \in DOMAIN new : (\E k \in DOMAIN s : new[i] = s[k]) \/ new[i] = one
  BY <1>2, <1>4, OneMore DEF Planning
<1> HIDE DEF new
<1>6. ASSUME NEW i \in DOMAIN new, NEW j \in DOMAIN rest PROVE Apart(host, new[i], rest[j])
  <2>1. j + 1 \in DOMAIN adds /\ 1 < j + 1 /\ rest[j] = adds[j + 1]
    BY <1>1
  <2>2. Apart(host, one, adds[j + 1]) /\ \A k \in DOMAIN s : Apart(host, s[k], adds[j + 1])
    BY <1>1, <2>1 DEF Planning, AllApart
  <2> QED
    BY <1>5, <2>1, <2>2
<1>7. Planning(host, new, rest)
  BY <1>1, <1>5, <1>6 DEF Planning
<1> QED
  BY <1>3, <1>7 DEF new, one, rest

\* A file that has lost its first.
LEMMA FirstGoes ==
    ASSUME NEW s \in Seq(Tubers), Len(s) > 1
    PROVE  /\ s # <<>> /\ Tail(s) # <<>>
           /\ AllApart(host, s) => AllApart(host, Tail(s))
           /\ \A adds : Planning(host, s, adds) => Planning(host, Tail(s), adds)
<1> DEFINE new == Tail(s)
<1>1. s # <<>> /\ new # <<>>
  <2>1. s # <<>>
    BY EmptySeq
  <2> DEFINE m == Len(s)
             n == Len(new)
  <2>2. n = m - 1 /\ m \in Nat /\ m > 1
    BY <2>1, HeadTailProperties, LenProperties
  <2>3. n # 0
    <3> HIDE DEF m, n
    <3> QED
      BY <2>2
  <2> HIDE DEF new
  <2> QED
    BY <2>1, <2>3, EmptySeq DEF n
<1>2. /\ \A i \in DOMAIN new : i + 1 \in DOMAIN s /\ 1 < i + 1 /\ new[i] = s[i + 1]
      /\ AllApart(host, s) => AllApart(host, new)
  BY <1>1, OneLess
<1> HIDE DEF new
<1>3. \A adds : Planning(host, s, adds) => Planning(host, new, adds)
  BY <1>2 DEF Planning
<1> QED
  BY <1>1, <1>2, <1>3 DEF new

\* With nothing planned a file is behind the plan as it is.
LEMMA NoPlan == \A s : AllApart(host, s) => Planning(host, s, <<>>)
<1>1. DOMAIN << >> = {}
  OBVIOUS
<1> QED
  BY <1>1 DEF Planning, AllApart

\* Nothing is added to the file, and no plan is made: plans stay, or are
\* dropped.
LEMMA PlanStays ==
    ASSUME PlanInv, UNCHANGED <<host, file, raced>>,
           \A c \in Commands : plan'[c] = <<>> \/ (plan'[c] = plan[c] /\ stale'[c] = stale[c])
    PROVE  PlanInv'
<1>1. file' = Absent => \A c \in Commands : plan'[c] = <<>>
  BY DEF PlanInv
<1>2. ~raced' => AllApart(host', file')
  BY DEF PlanInv
<1>3. ASSUME ~raced', NEW c \in Commands, ~stale'[c] PROVE Planning(host', file', plan'[c])
  <2>1. CASE plan'[c] = <<>>
    BY <1>2, <1>3, <2>1, NoPlan
  <2>2. CASE plan'[c] = plan[c] /\ stale'[c] = stale[c]
    BY <1>3, <2>2 DEF PlanInv
  <2> QED
    BY <2>1, <2>2
<1> QED
  BY <1>1, <1>2, <1>3 DEF PlanInv

\* A command plans.
LEMMA PlanAsks ==
    ASSUME Scanned, TypeOK, PlanInv, NEW c \in Commands, NEW b \in BOOLEAN, Asks(c, b)
    PROVE  PlanInv'
<1> DEFINE new == PlanImport(file)
<1>1. /\ UNCHANGED <<host, file, raced, stale>> /\ file # Absent /\ file \in Seq(Tubers)
      /\ plan' = [plan EXCEPT ![c] = new] /\ plan \in [Commands -> Seq(Tubers)]
  BY DEF Asks, ssh, TypeOK
<1>2. /\ \A i \in DOMAIN file, j \in DOMAIN new : Apart(host, file[i], new[j])
      /\ \A i, j \in DOMAIN new : i < j => Apart(host, new[i], new[j])
  BY <1>1, CandidatesAre, PlanIs
<1> HIDE DEF new
<1>3. AllApart(host, file) => Planning(host, file, new)
  BY <1>2 DEF Planning, AllApart
<1>4. plan'[c] = new /\ \A d \in Commands : d # c => plan'[d] = plan[d]
  BY <1>1
<1> QED
  BY <1>1, <1>3, <1>4 DEF PlanInv

\* A command writes its next tuber: to the plans of the others it comes as a
\* surprise.
LEMMA PlanAdds ==
    ASSUME TypeOK, Working, PlanInv, NEW c \in Commands, AddTuberNode(c)
    PROVE  PlanInv'
<1> DEFINE rest == Tail(plan[c])
           new == Append(file, Head(plan[c]))
<1>1. /\ file \in Seq(Tubers) /\ plan[c] \in Seq(Tubers) /\ plan[c] # <<>>
      /\ plan \in [Commands -> Seq(Tubers)] /\ stale \in [Commands -> BOOLEAN]
  BY DEF TypeOK, Working, AddTuberNode
<1>2. file' = new /\ plan' = [plan EXCEPT ![c] = rest] /\ host' = host
  BY DEF AddTuberNode, ssh
<1>3. raced' <=> raced \/ stale[c]
  BY DEF AddTuberNode
<1>4. \A d \in Commands : d # c => (stale'[d] <=> stale[d] \/ plan[d] # <<>>)
  <2> SUFFICES ASSUME NEW d \in Commands, d # c PROVE stale'[d] <=> stale[d] \/ plan[d] # <<>>
    OBVIOUS
  <2>1. stale'[d] = Ages(c)[d]
    BY DEF AddTuberNode, Ages
  <2>2. Ages(c)[d] = (stale[d] \/ (d # c /\ plan[d] # <<>>))
    BY DEF Ages
  <2> QED
    BY <2>1, <2>2
<1>5. new # <<>>
  <2>1. Head(plan[c]) \in Tubers
    BY <1>1, HeadTailProperties
  <2> QED
    BY <1>1, <2>1, AppendProperties
<1>6. ~raced' => Planning(host, new, rest)
  BY <1>1, <1>3, FirstGoesOver DEF PlanInv
<1> HIDE DEF new, rest
<1>7. plan'[c] = rest /\ \A d \in Commands : d # c => plan'[d] = plan[d]
  BY <1>1, <1>2
<1>8. ~raced' => AllApart(host, new)
  BY <1>6 DEF Planning
<1>9. ASSUME ~raced', NEW d \in Commands, ~stale'[d] PROVE Planning(host, new, plan'[d])
  <2>1. CASE d = c
    BY <1>6, <1>7, <1>9, <2>1
  <2>2. CASE d # c
    <3>1. plan'[d] = <<>>
      BY <1>4, <1>7, <1>9, <2>2
    <3> QED
      BY <1>8, <1>9, <3>1, NoPlan
  <2> QED
    BY <2>1, <2>2
<1> QED
  BY <1>2, <1>5, <1>8, <1>9 DEF PlanInv, Absent

\* Another command adds a tuber, having checked the file it writes to.
LEMMA PlanOthers ==
    ASSUME WellIncluded, Scanned, TypeOK, PlanInv, OtherAdds
    PROVE  PlanInv'
<1>1. PICK a \in Aliases, f \in Forwards :
        LET t == Tuber(<<<<a, f.type>>, 1>>, a, f.type, f.bind)
        IN  /\ t.name \notin Names(file)
            /\ \A u \in ToSet(file) : ~SameForward(u, t)
            /\ file' = Append(file, t)
  BY DEF OtherAdds
<1> DEFINE t == Tuber(<<<<a, f.type>>, 1>>, a, f.type, f.bind)
<1>2. t \in Tubers /\ file \in Seq(Tubers)
  BY FormsAssumption DEF Tuber, Tubers, TuberNames, Targets, TypeOK
<1>3. t.name \notin Names(file) /\ (\A u \in ToSet(file) : ~SameForward(u, t)) /\ file' = Append(file, t)
  BY <1>1
<1> HIDE DEF t
<1>4. /\ UNCHANGED <<host, plan, raced>>
      /\ \A d \in Commands : stale'[d] = (stale[d] \/ plan[d] # <<>>)
  BY DEF OtherAdds, ssh
<1>5. file' # <<>>
  BY <1>2, <1>3, AppendProperties
<1>6. ASSUME ~raced PROVE AllApart(host, file')
  <2>1. AllApart(host, file)
    BY <1>6 DEF PlanInv
  <2>2. ASSUME NEW i \in DOMAIN file PROVE Apart(host, file[i], t)
    <3>1. file[i] \in Tubers /\ file[i] \in ToSet(file) /\ file[i].name \in Names(file)
      BY <1>2, ElementOfSeq, LenProperties DEF ToSet, Names
    <3>2. CoverageKey(file[i]) # CoverageKey(t)
      BY <1>2, <1>3, <3>1, KeysAgree
    <3> QED
      BY <1>3, <3>1, <3>2 DEF Apart, CoverageKey
  <2> QED
    BY <1>2, <1>3, <2>1, <2>2, OneMore
<1>7. ASSUME ~raced', NEW d \in Commands, ~stale'[d] PROVE Planning(host, file', plan'[d])
  <2>1. plan'[d] = <<>>
    BY <1>4, <1>7
  <2> QED
    BY <1>4, <1>6, <1>7, <2>1, NoPlan
<1> QED
  BY <1>4, <1>5, <1>6, <1>7 DEF PlanInv, Absent

\* A command that plans, one that stops and one that writes keep to what is
\* planned; another one checks the file it writes to.
LEMMA PlanNext ==
    ASSUME WellIncluded, Scanned, TypeOK, Working, PlanInv, [Next]_vars
    PROVE  PlanInv'
<1>1. plan \in [Commands -> Seq(Tubers)] /\ stale \in [Commands -> BOOLEAN] /\ file \in Seq(Tubers)
  BY DEF TypeOK
<1>2. ASSUME NEW c \in Commands, EnsureExample(c) PROVE PlanInv'
  <2>1. /\ file' = <<Example>> /\ UNCHANGED <<host, plan, stale, raced>>
        /\ \A d \in Commands : plan[d] = <<>>
    BY <1>2 DEF EnsureExample, PlanInv, ssh
  <2>2. AllApart(host, <<Example>>)
    <3>1. DOMAIN <<Example>> = {1} /\ \A i, j \in {1} : ~(i < j)
      OBVIOUS
    <3> QED
      BY <3>1 DEF AllApart
  <2>3. Planning(host, <<Example>>, <<>>)
    BY <2>2, NoPlan
  <2> QED
    BY <2>1, <2>2, <2>3 DEF PlanInv
<1>3. ASSUME NEW c \in Commands, Import(c) \/ Offer(c) PROVE PlanInv'
  BY <1>3, PlanAsks DEF Import, Offer
<1>4. ASSUME NEW c \in Commands, Decline(c) \/ Stops(c) PROVE PlanInv'
  <2>1. /\ UNCHANGED <<host, file, raced>> /\ plan' = [plan EXCEPT ![c] = <<>>]
        /\ stale' = [stale EXCEPT ![c] = FALSE]
    BY <1>4 DEF Decline, Stops, Ends, ssh
  <2> QED
    BY <1>1, <2>1, PlanStays
<1>5. ASSUME NEW c \in Commands, TouchMarker(c) \/ NothingToOffer(c) \/ Confirm(c) \/ Validate(c)
      PROVE  PlanInv'
  <2>1. UNCHANGED <<host, file, raced, plan, stale>>
    BY <1>5 DEF TouchMarker, NothingToOffer, Confirm, Validate, ssh, command
  <2> QED
    BY <2>1, PlanStays
<1>6. CASE OtherRemoves
  <2>1. /\ file' = Tail(file) /\ Len(file) > 1 /\ UNCHANGED <<host, plan, stale, raced>>
    BY <1>6 DEF OtherRemoves, ssh, command
  <2>2. /\ file' # <<>> /\ (AllApart(host, file) => AllApart(host, file'))
        /\ \A adds : Planning(host, file, adds) => Planning(host, file', adds)
    BY <1>1, <2>1, FirstGoes
  <2> QED
    BY <2>1, <2>2 DEF PlanInv, Absent
<1>7. CASE UNCHANGED vars
  <2>1. UNCHANGED <<host, file, raced, plan, stale>>
    BY <1>7 DEF vars, ssh, command
  <2> QED
    BY <2>1, PlanStays
<1> QED
  BY <1>2, <1>3, <1>4, <1>5, <1>6, <1>7, PlanAdds, PlanOthers DEF Next

\* NothingTwice: however often the import is run, by how many commands and
\* wherever it breaks off, it writes no name twice and covers no forward twice,
\* if the includes are well placed, and unless a plan is written that others
\* have added to the file since.
THEOREM ImportsNothingTwice == WellIncluded => (Spec => []NothingTwice)
<1> SUFFICES ASSUME WellIncluded PROVE Spec => []NothingTwice
  OBVIOUS
<1>1. Init => Scanned /\ TypeOK /\ Working /\ PlanInv
  BY ScannedInit, TypeInit, PlanInit
<1>2. Scanned /\ TypeOK /\ Working /\ PlanInv /\ [Next]_vars
        => (Scanned /\ TypeOK /\ Working /\ PlanInv)'
  BY ScannedNext, TypeNext, PlanNext
<1>3. Scanned /\ TypeOK /\ PlanInv => NothingTwice
  <2> SUFFICES ASSUME Scanned, TypeOK, PlanInv, NEW i \in DOMAIN file, NEW j \in DOMAIN file,
                      i < j, ~raced
               PROVE  file[i].name # file[j].name /\ ~SameForward(file[i], file[j])
    BY DEF NothingTwice
  <2>1. file[i] \in Tubers /\ file[j] \in Tubers
    BY ElementOfSeq, LenProperties DEF TypeOK
  <2>2. Apart(host, file[i], file[j])
    BY DEF PlanInv, AllApart
  <2> QED
    BY <2>1, <2>2, KeysAgree DEF Apart, CoverageKey
<1> QED
  BY <1>1, <1>2, <1>3, PTL DEF Spec
==============================================================================

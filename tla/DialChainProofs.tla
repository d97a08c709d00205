--------------------------- MODULE DialChainProofs ---------------------------
(***************************************************************************)
(* A dial through jump hosts, for chains and numbers of dials of any       *)
(* length. Behind the safety of a chain are three orders: a hop is opened  *)
(* inside hops that are up, no hop beyond the one being worked on has been *)
(* opened, and no handshake goes past a host key that is not in the file.  *)
(***************************************************************************)
EXTENDS DialChain, TLAPS

LEMMA Counting ==
    /\ 1 \in Hops /\ Hops \subseteq Nat \ {0} /\ Dials \subseteq Nat \ {0} /\ 0 \in 0 .. MaxDials
    /\ \A d \in 0 .. MaxDials : d < MaxDials => d + 1 \in 0 .. MaxDials /\ d + 1 \in Dials
    /\ setup \in Setups => Target \in Hops
  BY BoundsAssumption DEF Hops, Dials, Setups, Target

\* The order of the hops.
LEMMA HopOrder ==
    /\ \A g \in Hops : g >= 1
    /\ \A g, h \in Hops : h = g + 1 \/ h > g + 1 => h > g
    /\ \A g, h \in Hops : h >= g => h > g \/ h = g
    /\ \A g, h \in Hops : g < h => h > g /\ ~(g >= h)
    /\ \A g, h \in Hops : g < h => h > 1 /\ h - 1 \in Hops /\ (g = h - 1 \/ g < h - 1)
    /\ \A f, g, h \in Hops : g >= h /\ g < f => f >= h
  BY BoundsAssumption DEF Hops

Links == {"none", "raw", "up", "down"}
Stages == {"idle", "probe", "verify", "asking", "password", "serving"}

\* A connection ends, with those inside it.
LEMMA FallTypes ==
    ASSUME NEW links \in [Hops -> Links], NEW h \in Hops
    PROVE  Fall(links, h) \in [Hops -> Links]
  BY DEF Fall, Links

LEMMA FallsTypes ==
    ASSUME link \in [Dials -> [Hops -> Links]], NEW d, NEW h \in Hops
    PROVE  [link EXCEPT ![d] = Fall(@, h)] \in [Dials -> [Hops -> Links]]
<1>1. CASE d \in Dials
  BY <1>1, FallTypes
<1>2. CASE d \notin Dials
  BY <1>2
<1> QED
  BY <1>1, <1>2

LEMMA OneHopTypes ==
    ASSUME link \in [Dials -> [Hops -> Links]], NEW d, NEW h, NEW l \in Links
    PROVE  [link EXCEPT ![d][h] = l] \in [Dials -> [Hops -> Links]]
<1>1. CASE d \in Dials
  BY <1>1
<1>2. CASE d \notin Dials
  BY <1>2
<1> QED
  BY <1>1, <1>2

\* The type invariant, with the hops of a chain apart.
Typed ==
    /\ setup \in Setups /\ server \in [Hops -> Servers]
    /\ known \in SUBSET Hops /\ trusted \in SUBSET Hops
    /\ stage \in Stages /\ dial \in 0 .. MaxDials /\ at \in Hops
    /\ step \in {"connect", "shake", "abort", "over"}
    /\ worker \in Working \cup Results \cup {"none"}
    /\ error \in Errors \cup {"none"} /\ password \in {"none", "right", "wrong"}
    /\ pending \in Hops \cup {0} /\ shown \in SUBSET Hops /\ stopped \in BOOLEAN

LinksOK == link \in [Dials -> [Hops -> Links]]

LEMMA Parts == (TypeOK <=> Typed /\ LinksOK) /\ (TypeOK' <=> Typed' /\ LinksOK')
  BY DEF TypeOK, Typed, LinksOK, Links, Stages

LEMMA InitTypes == Init => TypeOK
<1> SUFFICES ASSUME Init PROVE Typed /\ LinksOK
  BY Parts
<1>1. LinksOK
  BY DEF Init, LinksOK, Links
<1>2. password \in {"none", "right", "wrong"}
  BY DEF Init
<1>3. Typed
  BY <1>2, Counting DEF Init, Typed, Stages
<1> QED
  BY <1>1, <1>3

\* The steps that open or close connections keep their type.
LEMMA LinkTypes == TypeOK /\ [Next]_vars => LinksOK'
<1> SUFFICES ASSUME LinksOK, at \in Hops, Target \in Hops, [Next]_vars PROVE LinksOK'
  BY Parts, Counting DEF Typed
<1>1. CASE Connects \/ NextHop \/ Chained
  <2>1. CASE dial \in Dials
    <3>1. link[dial][at] \in Links /\ {"raw", "up"} \subseteq Links
      BY <2>1 DEF LinksOK, Links
    <3>2. \E l \in Links : link' = [link EXCEPT ![dial][at] = l]
      BY <1>1, <3>1 DEF Connects, NextHop, Chained
    <3> QED
      BY <3>2, OneHopTypes DEF LinksOK
  <2>2. CASE dial \notin Dials
    BY <1>1, <2>2 DEF Connects, NextHop, Chained, LinksOK
  <2> QED
    BY <2>1, <2>2
<1>2. CASE UNCHANGED link
  BY <1>2 DEF LinksOK
<1>3. ASSUME NEW d, NEW h \in Hops, link' = [link EXCEPT ![d] = Fall(@, h)] PROVE LinksOK'
  BY <1>3, FallsTypes DEF LinksOK
<1>4. ASSUME NEW d \in Dials, Leash(d) PROVE LinksOK'
  BY <1>3, <1>4, Counting DEF Leash
<1> QED
  BY <1>1, <1>2, <1>3, <1>4, Counting
     DEF Next, vars, chain, caller, Rest, ConnectFails, HostKey, Authenticate, Aborted,
         HandshakeFails, TimesOut, TimedOut, Dial, GivesUp, NeedsPassword, Answers, AsksAgain,
         BailsOut, Hangs, Break, AcceptHost, Stop

\* A call begins.
LEMMA Begins ==
    ASSUME Typed, NEW s \in Stages, Begin(s)
    PROVE  /\ stage' \in Stages /\ dial' \in 0 .. MaxDials /\ dial' \in Dials /\ at' \in Hops
           /\ step' = "connect" /\ trusted' \in SUBSET Hops /\ error' = "none"
  BY Counting DEF Begin, Typed

LEMMA OtherTypes == TypeOK /\ [Next]_vars => Typed'
<1> SUFFICES ASSUME Typed, Target \in Hops, [Next]_vars PROVE Typed'
  BY Parts, Counting DEF Typed
<1>a. {"probe", "verify", "asking", "password", "idle", "serving"} \subseteq Stages
  BY DEF Stages
<1>b. /\ {"unknown", "mismatch", "denied", "lost", "timeout"} = Errors
      /\ {"kex", "auth", "ok", "unknown", "mismatch", "denied", "lost"} = Working \cup Results
  BY DEF Errors, Working, Results
<1> USE DEF caller, chain, Returns, Rest
<1>1. CASE Connects \/ ConnectFails \/ TimesOut \/ TimedOut
  BY <1>1, <1>b DEF Typed, Connects, ConnectFails, TimesOut, TimedOut
<1>2. CASE HandshakeFails
  BY <1>2 DEF Typed, HandshakeFails, Results, Errors
<1>3. CASE HostKey
  <2>1. known' \in SUBSET Hops /\ pending' \in Hops \cup {0} /\ worker' \in Working \cup Results
    BY <1>3, <1>b DEF Typed, HostKey
  <2> QED
    BY <1>3, <2>1 DEF Typed, HostKey
<1>4. CASE Authenticate \/ Aborted
  BY <1>4, <1>b DEF Typed, Authenticate, Aborted
<1>5. CASE NextHop
  <2>1. at' \in Hops
    BY <1>5, BoundsAssumption DEF NextHop, Typed, Hops
  <2> QED
    BY <1>5, <2>1 DEF Typed, NextHop
<1>6. CASE Chained
  BY <1>6, <1>a DEF Typed, Chained
<1>7. CASE Dial
  <2>1. \E s \in Stages : Begin(s)
    BY <1>7, <1>a DEF Dial
  <2> QED
    BY <1>7, <2>1, Begins DEF Typed, Dial
<1>8. CASE GivesUp \/ AsksAgain \/ BailsOut \/ Hangs
  BY <1>8, <1>a DEF Typed, GivesUp, AsksAgain, BailsOut, Hangs
<1>9. CASE NeedsPassword
  <2>1. CASE Begin("password")
    BY <1>9, <2>1, <1>a, Begins DEF Typed, NeedsPassword
  <2>2. CASE stage' = "asking" /\ UNCHANGED <<dial, at, step, trusted, error>>
    BY <1>9, <2>2, <1>a DEF Typed, NeedsPassword
  <2> QED
    BY <1>9, <2>1, <2>2 DEF NeedsPassword
<1>10. CASE Answers
  BY <1>10, <1>a, Begins DEF Typed, Answers
<1>11. CASE Break \/ AcceptHost \/ Stop \/ \E d \in Dials : Leash(d)
  BY <1>11 DEF Typed, Break, AcceptHost, Stop, Leash
<1>12. CASE UNCHANGED vars
  BY <1>12 DEF Typed, vars
<1> QED
  BY <1>1, <1>2, <1>3, <1>4, <1>5, <1>6, <1>7, <1>8, <1>9, <1>10, <1>11, <1>12 DEF Next

LEMMA NextTypes == TypeOK /\ [Next]_vars => TypeOK'
  BY LinkTypes, OtherTypes, Parts

\* Every variable keeps its type.
THEOREM DialTypeCorrect == Spec => []TypeOK
  BY InitTypes, NextTypes, PTL DEF Spec

-----------------------------------------------------------------------------
(* The safety of a chain.                                                    *)

\* Where a call is, and what it left when it failed.
Call ==
    /\ step # "over" => dial \in Dials /\ error = "none"
    /\ stage \in {"idle", "asking", "serving"} => step = "over"
    /\ step \in {"connect", "over"} => worker = "none"
    /\ step = "over" /\ error # "none" => Open(dial) = {}

\* The hops are opened in their order, each inside hops that are up.
Ahead ==
    \A d \in Dials, h \in Hops :
        d > dial \/ (d = dial /\ (h > at \/ (h = at /\ step = "connect"))) => link[d][h] = "none"
Nested ==
    \A d \in Dials, h, g \in Hops : link[d][h] \in {"raw", "up"} /\ g < h => link[d][g] = "up"

\* A key that has changed is known, and a call knows it for changed.
Keys ==
    /\ trusted \subseteq known
    /\ \A h \in Hops : server[h].changed => h \in known /\ (step # "over" => h \in trusted)
    /\ worker \in {"auth", "ok"} => at \in known /\ ~server[at].changed
    /\ \A d \in Dials, h \in Hops : link[d][h] = "up" => h \in known /\ ~server[h].changed

ChainInv == Call /\ Ahead /\ Nested /\ Keys /\ PasswordForTarget

LEMMA InitChain == Init => ChainInv
  BY DEF Init, ChainInv, Call, Ahead, Nested, Keys, PasswordForTarget, Open

\* Connections end: what was in order stays in order, and nothing else is touched.
LEMMA Ends ==
    ASSUME Typed, LinksOK, Ahead, Nested, Keys, NEW d, NEW h \in Hops,
           link' = [link EXCEPT ![d] = Fall(@, h)],
           UNCHANGED <<server, known, trusted, dial, at>>,
           step' = "connect" => step = "connect",
           step' # "over" => step # "over",
           worker' \in {"auth", "ok"} => worker \in {"auth", "ok"}
    PROVE  /\ Ahead' /\ Nested' /\ Keys'
           /\ Open(dial)' \subseteq Open(dial)
           /\ h = 1 /\ d \in Dials => Open(d)' = {}
<1>1. \A e \in Dials, g \in Hops :
          \/ link'[e][g] = link[e][g]
          \/ e = d /\ g >= h /\ link'[e][g] = "down" /\ link[e][g] \in {"raw", "up"}
  BY DEF LinksOK, Fall
<1>2. \A g \in Hops : d \in Dials /\ g >= h => link'[d][g] \notin {"raw", "up"}
  BY DEF LinksOK, Fall
<1>3. Ahead'
  BY <1>1 DEF Ahead
<1>4. Nested'
  <2> SUFFICES ASSUME NEW e \in Dials, NEW f \in Hops, NEW g \in Hops,
                      link'[e][f] \in {"raw", "up"}, g < f
               PROVE  link'[e][g] = "up"
    BY DEF Nested
  <2>1. link[e][f] \in {"raw", "up"} /\ link[e][g] = "up"
    BY <1>1 DEF Nested
  <2>2. ~(e = d /\ g >= h)
    BY <1>2, <2>1, HopOrder
  <2> QED
    BY <1>1, <2>1, <2>2
<1>5. Keys'
  BY <1>1 DEF Keys
<1>6. Open(dial)' \subseteq Open(dial)
  <2>1. CASE dial \in Dials
    BY <1>1, <2>1 DEF Open
  <2>2. CASE dial \notin Dials
    BY <2>2 DEF Open, LinksOK
  <2> QED
    BY <2>1, <2>2
<1>7. h = 1 /\ d \in Dials => Open(d)' = {}
  <2> SUFFICES ASSUME h = 1, d \in Dials, NEW g \in Hops PROVE link'[d][g] \notin {"raw", "up"}
    BY DEF Open
  <2>1. g >= h
    BY HopOrder
  <2> QED
    BY <1>2, <2>1
<1> QED
  BY <1>3, <1>4, <1>5, <1>6, <1>7

\* The steps of a call that end connections, or fail before they open one.
LEMMA FailingSteps ==
    ASSUME TypeOK, ChainInv,
           \/ ConnectFails \/ HandshakeFails \/ TimesOut \/ TimedOut \/ Hangs \/ Break
           \/ \E d \in Dials : Leash(d)
    PROVE  ChainInv'
<1>a. Typed /\ LinksOK /\ Target \in Hops /\ 1 \in Hops
  BY Parts, Counting DEF Typed
<1>b. Call /\ Ahead /\ Nested /\ Keys /\ PasswordForTarget
  BY DEF ChainInv
<1>1. CASE ConnectFails \/ HandshakeFails \/ TimedOut
  <2>1. /\ link' = [link EXCEPT ![dial] = Fall(@, 1)] /\ dial \in Dials
        /\ step' = "over" /\ worker' = "none"
        /\ UNCHANGED <<setup, server, known, trusted, caller, dial, at, shown>>
    BY <1>1, <1>b DEF ConnectFails, HandshakeFails, TimedOut, Returns, Call
  <2>2. Ahead' /\ Nested' /\ Keys' /\ Open(dial)' = {}
    BY <1>a, <1>b, <2>1, Ends
  <2>3. Call' /\ PasswordForTarget'
    BY <1>b, <2>1, <2>2 DEF Call, PasswordForTarget, caller, Target
  <2> QED
    BY <2>2, <2>3 DEF ChainInv
<1>2. CASE TimesOut
  <2>1. /\ link' = [link EXCEPT ![dial] = Fall(@, at)] /\ step = "shake" /\ step' = "abort"
        /\ UNCHANGED <<setup, server, known, trusted, caller, dial, at, worker, error, shown>>
    BY <1>2 DEF TimesOut
  <2>2. Ahead' /\ Nested' /\ Keys'
    BY <1>a, <1>b, <2>1, Ends DEF Typed
  <2>3. Call' /\ PasswordForTarget'
    BY <1>b, <2>1 DEF Call, PasswordForTarget, caller, Target
  <2> QED
    BY <2>2, <2>3 DEF ChainInv
<1>3. CASE Hangs \/ Break \/ \E d \in Dials : Leash(d)
  <2>1. /\ \E d, h : h \in Hops /\ link' = [link EXCEPT ![d] = Fall(@, h)]
        /\ UNCHANGED <<setup, server, known, trusted, dial, at, step, worker, error, shown>>
        /\ stage' = stage \/ (stage = "serving" /\ stage' = "idle")
    BY <1>3, <1>a DEF Hangs, Break, Leash, caller
  <2>2. Ahead' /\ Nested' /\ Keys' /\ Open(dial)' \subseteq Open(dial)
    BY <1>a, <1>b, <2>1, Ends
  <2>3. Call' /\ PasswordForTarget'
    BY <1>b, <2>1, <2>2 DEF Call, PasswordForTarget, Target
  <2> QED
    BY <2>2, <2>3 DEF ChainInv
<1> QED
  BY <1>1, <1>2, <1>3

\* A hop is opened inside the one before, or comes up with the key it showed.
LEMMA OpeningSteps ==
    ASSUME TypeOK, ChainInv, Connects \/ NextHop \/ Chained
    PROVE  ChainInv'
<1>a. Typed /\ LinksOK /\ Target \in Hops /\ 1 \in Hops /\ at \in Hops
  BY Parts, Counting DEF Typed
<1>b. Call /\ Ahead /\ Nested /\ Keys /\ PasswordForTarget /\ dial \in Dials
  BY DEF ChainInv, Call, Connects, NextHop, Chained
<1>1. CASE Connects
  <2>1. /\ step = "connect" /\ step' = "shake" /\ worker' = "kex"
        /\ \A d \in Dials, h \in Hops :
               link'[d][h] = IF d = dial /\ h = at THEN "raw" ELSE link[d][h]
        /\ at > 1 => link[dial][at - 1] = "up"
        /\ UNCHANGED <<setup, server, known, trusted, caller, dial, at, error, shown>>
    BY <1>1, <1>a, <1>b DEF Connects, LinksOK
  <2>2. \A h \in Hops : h >= at => link[dial][h] = "none"
    BY <1>a, <1>b, <2>1, HopOrder DEF Ahead
  <2>3. Ahead'
    <3> SUFFICES ASSUME NEW d \in Dials, NEW h \in Hops, d > dial \/ (d = dial /\ h > at)
                 PROVE  link[d][h] = "none" /\ ~(d = dial /\ h = at)
      BY <2>1 DEF Ahead
    <3>1. link[d][h] = "none"
      BY <1>b DEF Ahead
    <3>2. h > at => h # at
      BY <1>a DEF Hops
    <3>3. d > dial => d # dial
      BY <1>b DEF Dials
    <3> QED
      BY <3>1, <3>2, <3>3
  <2>4. Keys'
    BY <1>a, <1>b, <2>1 DEF Keys
  <2>5. Nested'
    <3> SUFFICES ASSUME NEW d \in Dials, NEW h \in Hops, NEW g \in Hops,
                        link'[d][h] \in {"raw", "up"}, g < h
                 PROVE  link'[d][g] = "up"
      BY DEF Nested
    <3>1. CASE d # dial
      BY <1>b, <2>1, <3>1 DEF Nested
    <3>2. CASE d = dial /\ h = at
      <4>1. at > 1 /\ at - 1 \in Hops /\ (g = at - 1 \/ g < at - 1) /\ g # at
        BY <1>a, <3>2, HopOrder DEF Hops
      <4>2. link[dial][g] = "up"
        BY <1>b, <2>1, <4>1 DEF Nested
      <4> QED
        BY <2>1, <3>2, <4>1, <4>2
    <3>3. CASE d = dial /\ h # at
      <4>1. link[dial][h] \in {"raw", "up"} /\ ~(h >= at)
        BY <2>1, <2>2, <3>3
      <4>2. link[dial][g] = "up" /\ g # at
        BY <1>a, <1>b, <4>1 DEF Nested, Hops
      <4> QED
        BY <2>1, <3>3, <4>2
    <3> QED
      BY <3>1, <3>2, <3>3
  <2>6. Call' /\ PasswordForTarget'
    BY <1>b, <2>1 DEF Call, PasswordForTarget, caller, Target
  <2> QED
    BY <2>3, <2>4, <2>5, <2>6 DEF ChainInv
<1>2. CASE NextHop \/ Chained
  <2>1. /\ step = "shake" /\ worker = "ok" /\ worker' = "none"
        /\ \A d \in Dials, h \in Hops :
               link'[d][h] = IF d = dial /\ h = at /\ link[d][h] = "raw" THEN "up" ELSE link[d][h]
        /\ \/ at' = at + 1 /\ step' = "connect" /\ stage' = stage
           \/ at' = at /\ step' = "over" /\ stage' = "serving"
        /\ UNCHANGED <<setup, server, known, trusted, dial, error, shown>>
    BY <1>2, <1>a, <1>b DEF NextHop, Chained, LinksOK, caller
  <2>2. Ahead'
    <3> SUFFICES ASSUME NEW d \in Dials, NEW h \in Hops,
                        d > dial \/ (d = dial /\ (h > at' \/ (h = at' /\ step' = "connect")))
                 PROVE  link'[d][h] = "none"
      BY <2>1 DEF Ahead
    <3>1. d > dial \/ (d = dial /\ h > at)
      BY <1>a, <2>1, HopOrder
    <3>2. link[d][h] = "none"
      BY <1>b, <3>1 DEF Ahead
    <3> QED
      BY <2>1, <3>2
  <2>3. Keys'
    BY <1>a, <1>b, <2>1 DEF Keys
  <2>4. Nested'
    BY <1>b, <2>1 DEF Nested
  <2>5. Call' /\ PasswordForTarget'
    <3>1. error' # "none" /\ step' = "over" => Open(dial)' = {}
      BY <1>2, <1>b, <2>1 DEF Chained, Call
    <3> QED
      BY <1>b, <2>1, <3>1 DEF Call, PasswordForTarget, Target
  <2> QED
    BY <2>2, <2>3, <2>4, <2>5 DEF ChainInv
<1> QED
  BY <1>1, <1>2

\* The goroutine of a handshake: the key is checked, then the user.
LEMMA HandshakeSteps ==
    ASSUME TypeOK, ChainInv, HostKey \/ Authenticate \/ Aborted
    PROVE  ChainInv'
<1>a. Typed /\ LinksOK /\ at \in Hops
  BY Parts DEF Typed
<1>b. Call /\ Ahead /\ Nested /\ Keys /\ PasswordForTarget
  BY DEF ChainInv
<1>1. UNCHANGED <<setup, server, trusted, stage, dial, at, step, link, error>>
  BY DEF HostKey, Authenticate, Aborted, caller
<1>2. step \notin {"connect", "over"}
  BY <1>b DEF Call, HostKey, Authenticate, Aborted, Working
<1>3. known \subseteq known'
  BY DEF HostKey, Authenticate, Aborted
<1>4. worker' \in {"auth", "ok"} => at \in known' /\ ~server[at].changed
  <2>1. CASE HostKey
    BY <1>a, <1>b, <1>2, <2>1 DEF HostKey, Keys
  <2>2. CASE Authenticate
    BY <1>b, <2>2 DEF Authenticate, Keys
  <2>3. CASE Aborted
    BY <2>3 DEF Aborted
  <2> QED
    BY <2>1, <2>2, <2>3
<1>5. shown' \subseteq {Target} \cap known'
  <2>1. CASE Authenticate
    BY <1>b, <2>1 DEF Authenticate, OffersPassword, PasswordForTarget, Keys
  <2>2. CASE HostKey \/ Aborted
    BY <1>3, <1>b, <2>2 DEF HostKey, Aborted, PasswordForTarget
  <2> QED
    BY <2>1, <2>2
<1>6. Call' /\ Ahead' /\ Nested'
  BY <1>b, <1>1, <1>2 DEF Call, Ahead, Nested
<1>7. Keys' /\ PasswordForTarget'
  BY <1>b, <1>1, <1>3, <1>4, <1>5 DEF Keys, PasswordForTarget, Target
<1> QED
  BY <1>6, <1>7 DEF ChainInv

\* A call begins: nothing beyond the calls made so far was ever opened.
LEMMA BeginKeeps ==
    ASSUME TypeOK, ChainInv, NEW s \in {"probe", "verify", "password"}, Begin(s), step = "over",
           UNCHANGED <<setup, server, known, worker, link, shown>>
    PROVE  ChainInv'
<1>a. Typed /\ dial \in 0 .. MaxDials
  BY Parts DEF Typed
<1>b. Call /\ Ahead /\ Nested /\ Keys /\ PasswordForTarget
  BY DEF ChainInv
<1>1. /\ dial' = dial + 1 /\ dial' \in Dials /\ at' = 1 /\ step' = "connect" /\ stage' = s
      /\ trusted' = known /\ error' = "none" /\ worker = "none" /\ worker' = "none"
  BY <1>a, <1>b, Counting DEF Begin, Call
<1>2. Ahead'
  <2> SUFFICES ASSUME NEW d \in Dials, NEW h \in Hops, d >= dial + 1 PROVE link[d][h] = "none"
    BY <1>1, <1>a DEF Ahead, Dials
  <2>1. d > dial
    BY <1>a DEF Dials
  <2> QED
    BY <1>b, <2>1 DEF Ahead
<1>3. Call' /\ Nested'
  BY <1>b, <1>1 DEF Call, Nested
<1>4. Keys' /\ PasswordForTarget'
  BY <1>b, <1>1 DEF Keys, PasswordForTarget, Target
<1> QED
  BY <1>2, <1>3, <1>4 DEF ChainInv

\* The callers.
LEMMA CallerSteps ==
    ASSUME TypeOK, ChainInv,
           \/ Dial \/ GivesUp \/ NeedsPassword \/ Answers \/ AsksAgain \/ BailsOut
           \/ AcceptHost \/ Stop
    PROVE  ChainInv'
<1>b. Call /\ Ahead /\ Nested /\ Keys /\ PasswordForTarget
  BY DEF ChainInv
<1>1. ASSUME UNCHANGED <<setup, server, trusted, dial, at, step, worker, link, error, shown>>,
             known \subseteq known', stage' = stage \/ step = "over"
      PROVE  ChainInv'
  BY <1>1, <1>b DEF ChainInv, Call, Ahead, Nested, Keys, PasswordForTarget, Open, Target
<1>2. CASE Dial
  <2>1. step = "over"
    BY <1>2, <1>b DEF Dial, Call
  <2> QED
    BY <1>2, <2>1, BeginKeeps DEF Dial
<1>3. CASE GivesUp \/ AsksAgain \/ BailsOut
  <2>1. step = "over"
    BY <1>3, <1>b DEF GivesUp, AsksAgain, BailsOut, Rejected, NoPasswordOffered, Over, Call
  <2> QED
    BY <1>1, <1>3, <2>1 DEF GivesUp, AsksAgain, BailsOut, Rest, chain
<1>4. CASE NeedsPassword
  <2>1. step = "over"
    BY <1>4 DEF NeedsPassword, Over
  <2>2. CASE Begin("password")
    BY <1>4, <2>1, <2>2, BeginKeeps DEF NeedsPassword
  <2>3. CASE stage' = "asking" /\ UNCHANGED <<dial, at, step, trusted, error>>
    BY <1>1, <1>4, <2>1, <2>3 DEF NeedsPassword
  <2> QED
    BY <1>4, <2>2, <2>3 DEF NeedsPassword
<1>5. CASE Answers
  <2>1. step = "over"
    BY <1>5, <1>b DEF Answers, Call
  <2> QED
    BY <1>5, <2>1, BeginKeeps DEF Answers
<1>6. CASE AcceptHost \/ Stop
  BY <1>1, <1>6 DEF AcceptHost, Stop, chain
<1> QED
  BY <1>2, <1>3, <1>4, <1>5, <1>6

LEMMA NextChain == TypeOK /\ ChainInv /\ [Next]_vars => ChainInv'
<1>1. ASSUME ChainInv, UNCHANGED vars PROVE ChainInv'
  BY <1>1 DEF ChainInv, Call, Ahead, Nested, Keys, PasswordForTarget, Open, Target,
              vars, caller, chain
<1> QED
  BY <1>1, FailingSteps, OpeningSteps, HandshakeSteps, CallerSteps DEF Next

LEMMA ChainHolds == Spec => [](TypeOK /\ ChainInv)
  BY InitTypes, InitChain, NextTypes, NextChain, PTL DEF Spec

\* A call that failed left no connection and no goroutine behind, whatever hop
\* failed and whichever of the time-out and the handshake was first (dialConn).
THEOREM FailedCallLeavesNothing == Spec => []NothingLeftBehind
<1>1. TypeOK /\ ChainInv => NothingLeftBehind
  BY DEF ChainInv, Call, NothingLeftBehind
<1> QED
  BY <1>1, ChainHolds, PTL

\* A hop is up only inside hops that are, and with the key known_hosts has for
\* it (dialConn, wrapHostKey).
THEOREM ChainsStand == Spec => []ChainStands
<1>1. TypeOK /\ ChainInv => ChainStands
  <2> SUFFICES ASSUME TypeOK, ChainInv, NEW d \in Dials, NEW h \in Hops, link[d][h] = "up"
               PROVE  /\ \A g \in 1 .. h : link[d][g] = "up"
                      /\ h \in known /\ ~server[h].changed
    BY DEF ChainStands
  <2>1. \A g \in 1 .. h : g \in Hops /\ (g < h \/ g = h)
    BY BoundsAssumption DEF Hops
  <2> QED
    BY <2>1 DEF ChainInv, Nested, Keys
<1> QED
  BY <1>1, ChainHolds, PTL

\* A password is shown to the target alone, whose key was checked before
\* (dialWithPasswordPrompt).
THEOREM PasswordsStayWithTarget == Spec => []PasswordForTarget
<1>1. TypeOK /\ ChainInv => PasswordForTarget
  BY DEF ChainInv
<1> QED
  BY <1>1, ChainHolds, PTL
=============================================================================

------------------------------ MODULE SshImport ------------------------------
(***************************************************************************)
(* The import of ~/.ssh/config's forwards into config.yaml (internal/cmd   *)
(* import.go and nudge.go, internal/importer plan.go, internal/config      *)
(* markers.go): `portato import`, and the offer a fresh install makes once.*)
(* The plan is made from the configuration as it was read, shown to the    *)
(* user, validated, and appended tuber by tuber; a write may fail and the  *)
(* process may be killed in between, and another command, a second import  *)
(* or launch among them, may edit the file while the user thinks. A name   *)
(* is the alias and port it was made of, and a number when that is taken.  *)
(***************************************************************************)
EXTENDS SshConfig

CONSTANTS
    Commands,    \* the processes: launches, `portato import`, a daemon
    Texts,       \* the ssh configurations considered
    MaxEdits     \* bound: tubers added by other commands

ASSUME TextsAssumption == Texts \subseteq Seq(Lines)
ASSUME BoundsAssumption == MaxEdits \in Nat

VARIABLES
    text,        \* ~/.ssh/config
    cands,       \* what the scan finds in it
    host,        \* what each alias resolves to
    file,        \* config.yaml: its tubers; Absent before it is created
    markers,     \* the marker files there are
    stage,       \* what each command is doing
    offer,       \* its question is the first-run offer, not yet marked
    plan,        \* the tubers it has still to append
    stale,       \* history: others have added to the file since it planned
    raced,       \* history: a stale plan was written
    edits,       \* tubers added by other commands so far
    answers,     \* history: offers answered, 2 for more than one
    overlapped,  \* history: a launch asked while another was not done asking
    nothing,     \* history: a launch found nothing to offer
    lost         \* history: markers that could not be written, or were not

ssh == <<text, cands, host>>
command == <<stage, offer, plan, stale>>
history == <<answers, overlapped, nothing, lost>>
vars == <<ssh, file, markers, command, raced, edits, history>>

Markers == {"fresh_install", "import_offered"}
Stages == {"idle", "bootstrap", "question", "declined", "accepted", "validate", "append"}

Absent == << >>
Targets == Aliases \cup {"bastion"}

\* The address a tuber will listen on: a port without a host is a loopback one
\* for a local forward and every interface for a remote one.
ListenAddr(t) ==
    IF t.listen \notin {"bare", "colon"} THEN t.listen
    ELSE IF t.type = "local" THEN "loopback" ELSE "wildcard"

\* The declared side of a forward as the tuber's field. A remote forward's bare
\* port is spelled out, OpenSSH binding it to loopback; a bind address without
\* a host is spelled out as well, colon and all.
ParseForward(f) ==
    CASE f.type = "remote" /\ f.bind = "bare" -> "loopback"
      [] f.type = "remote" /\ f.bind = "colon" -> "malformed"
      [] OTHER -> f.bind

Tuber(name, alias, type, listen) ==
    [name |-> name, ssh |-> alias, type |-> type, listen |-> listen]

TuberNames == ((Aliases \X {"local", "remote"}) \cup {<<"db", "stage">>}) \X (Nat \ {0})
Tubers == [name : TuberNames, ssh : Targets, type : {"local", "remote"},
           listen : {"bare", "colon", "loopback", "wildcard", "malformed"}]

\* The type, both addresses and the resolved endpoint. (The destination goes
\* with the forward's type here.)
\* Mutant: addresses and hosts are compared as they are spelled.
CoverageKey_Spelled(t) == <<t.type, t.listen, t.ssh>>
CoverageKey(t) == <<t.type, ListenAddr(t), host[t.ssh]>>

\* What a tuber is for, whatever it is called.
SameForward(t, u) ==
    /\ t.type = u.type /\ ListenAddr(t) = ListenAddr(u)
    /\ OpenSSHHostName(text, t.ssh) = OpenSSHHostName(text, u.ssh)

Names(tubers) == {tubers[i].name : i \in DOMAIN tubers}

\* What the scan makes: a forward and the alias whose block it stands in.
Candidates == [ssh : Aliases, forward : Forwards]

TypeOK ==
    /\ text \in Texts /\ cands \in Seq(Candidates) /\ file \in Seq(Tubers)
    /\ markers \subseteq Markers /\ lost \subseteq Markers
    /\ stage \in [Commands -> Stages] /\ offer \in [Commands -> BOOLEAN]
    /\ plan \in [Commands -> Seq(Tubers)] /\ stale \in [Commands -> BOOLEAN]
    /\ raced \in BOOLEAN /\ edits \in 0 .. MaxEdits
    /\ answers \in 0 .. 2 /\ overlapped \in BOOLEAN /\ nothing \in BOOLEAN

\* exampleConfig.
Example == Tuber(<<<<"db", "stage">>, 1>>, "bastion", "local", "bare")

\* A new user has no file; one who upgrades has one, and no marker.
Init ==
    /\ text \in Texts
    /\ cands = Scan(LenientSSHConfig(text))
    /\ host = [a \in Targets |-> ResolveSSHHost(LenientSSHConfig(text), a)]
    /\ file \in {Absent, <<Example>>}
    /\ markers = {} /\ lost = {}
    /\ stage = [c \in Commands |-> "idle"] /\ offer = [c \in Commands |-> FALSE]
    /\ plan = [c \in Commands |-> <<>>] /\ stale = [c \in Commands |-> FALSE]
    /\ raced = FALSE /\ edits = 0
    /\ answers = 0 /\ overlapped = FALSE /\ nothing = FALSE

Moves(c, s) == stage' = [stage EXCEPT ![c] = s]

\* A command is over, whatever it had planned.
Ends(c) ==
    /\ Moves(c, "idle") /\ plan' = [plan EXCEPT ![c] = <<>>]
    /\ offer' = [offer EXCEPT ![c] = FALSE] /\ stale' = [stale EXCEPT ![c] = FALSE]

\* EnsureExample, by whichever command or daemon comes first.
EnsureExample(c) ==
    /\ stage[c] = "idle" /\ file = Absent
    /\ file' = <<Example>> /\ Moves(c, "bootstrap")
    /\ UNCHANGED <<ssh, markers, offer, plan, stale, raced, edits, history>>

\* The marker a command is about to write, and loses when it cannot.
Owes(c) ==
    CASE stage[c] = "bootstrap" -> {"fresh_install"}
      [] stage[c] \in {"declined", "accepted"} -> {"import_offered"}
      [] OTHER -> {}

Loses(c) == lost' = lost \cup (Owes(c) \ markers)

\* touchMarker: best effort, and the command goes on either way.
TouchMarker(c) ==
    /\ Owes(c) # {}
    /\ \/ markers' = markers \cup Owes(c) /\ UNCHANGED lost
       \/ Loses(c) /\ UNCHANGED markers
    /\ Moves(c, IF stage[c] = "accepted" THEN "validate" ELSE "idle")
    /\ offer' = [offer EXCEPT ![c] = FALSE]
    /\ UNCHANGED <<ssh, file, plan, stale, raced, edits, answers, overlapped, nothing>>

-----------------------------------------------------------------------------
(* PlanImport.                                                               *)

Base(c) == <<c.ssh, c.forward.type>>

\* The first free number.
TuberName(c, taken) ==
    <<Base(c), Min({n \in 1 .. Cardinality(taken) + 1 : <<Base(c), n>> \notin taken})>>

Planned(tubers, c) ==
    Tuber(TuberName(c, Names(tubers)), c.ssh, c.forward.type, ParseForward(c.forward))

\* A candidate is added unless a tuber, of the file or of the plan so far,
\* covers it.
AddUnlessCovered(tubers, c) ==
    IF \E t \in ToSet(tubers) : CoverageKey(t) = CoverageKey(Planned(tubers, c))
    THEN tubers ELSE Append(tubers, Planned(tubers, c))

PlanImport(tubers) ==
    LET sofar[n \in 0 .. Len(cands)] ==
            IF n = 0 THEN tubers ELSE AddUnlessCovered(sofar[n - 1], cands[n])
        all == sofar[Len(cands)]
    IN  SubSeq(all, Len(tubers) + 1, Len(all))

-----------------------------------------------------------------------------
(* The commands.                                                             *)

\* A file with a name twice does not load.
Loads(tubers) == Cardinality(Names(tubers)) = Len(tubers)

Asks(c, isOffer) ==
    /\ stage[c] = "idle" /\ file # Absent /\ Loads(file)
    /\ PlanImport(file) # <<>>
    /\ plan' = [plan EXCEPT ![c] = PlanImport(file)]
    /\ Moves(c, "question") /\ offer' = [offer EXCEPT ![c] = isOffer]
    /\ UNCHANGED <<ssh, file, markers, stale, raced, edits, answers, nothing, lost>>

\* `portato import --all`.
Import(c) == Asks(c, FALSE) /\ UNCHANGED overlapped

Gate == "fresh_install" \in markers /\ "import_offered" \notin markers

\* The interactive launch of a fresh install; nothing keeps a second one away.
Offer(c) ==
    /\ Gate /\ Asks(c, TRUE)
    /\ overlapped' = (overlapped \/ \E d \in Commands : offer[d])

\* With nothing to offer the offer is spent; a marker that cannot be written
\* leaves all as it is.
NothingToOffer(c) ==
    /\ Gate /\ stage[c] = "idle" /\ file # Absent /\ Loads(file) /\ PlanImport(file) = <<>>
    /\ markers' = markers \cup {"import_offered"} /\ nothing' = TRUE
    /\ UNCHANGED <<ssh, file, command, raced, edits, answers, overlapped, lost>>

Answered(c) == answers' = IF offer[c] /\ answers < 2 THEN answers + 1 ELSE answers

\* Mutant: a no is not recorded.
Decline_Later(c) ==
    /\ stage[c] = "question" /\ Answered(c)
    /\ Ends(c)
    /\ UNCHANGED <<ssh, file, markers, raced, edits, overlapped, nothing, lost>>

\* A no, or the end of the input; an offer goes on to its marker.
Decline(c) ==
    /\ stage[c] = "question" /\ Answered(c)
    /\ Moves(c, IF offer[c] THEN "declined" ELSE "idle")
    /\ plan' = [plan EXCEPT ![c] = <<>>] /\ stale' = [stale EXCEPT ![c] = FALSE]
    /\ UNCHANGED <<ssh, file, markers, offer, raced, edits, overlapped, nothing, lost>>

Confirm(c) ==
    /\ stage[c] = "question" /\ Answered(c)
    /\ Moves(c, IF offer[c] THEN "accepted" ELSE "validate")
    /\ UNCHANGED <<ssh, file, markers, offer, plan, stale, raced, edits, overlapped, nothing, lost>>

\* WithTuberAdded validates the plan over the configuration as it was read: the
\* plan itself is all that can be wrong with it, and it is not.
Validate(c) ==
    /\ stage[c] = "validate" /\ Moves(c, "append")
    /\ UNCHANGED <<ssh, file, markers, offer, plan, stale, raced, edits, history>>

\* The plans of the others are no longer made from the file.
Ages(c) == [d \in Commands |-> stale[d] \/ (d # c /\ plan[d] # <<>>)]

\* AddTuberNode, to the file as it is by now, checking nothing.
AddTuberNode(c) ==
    /\ stage[c] = "append"
    /\ file' = Append(file, Head(plan[c])) /\ plan' = [plan EXCEPT ![c] = Tail(plan[c])]
    /\ raced' = (raced \/ stale[c])
    /\ IF Len(plan[c]) = 1 THEN Moves(c, "idle") /\ stale' = [Ages(c) EXCEPT ![c] = FALSE]
                           ELSE stale' = Ages(c) /\ UNCHANGED stage
    /\ UNCHANGED <<ssh, markers, offer, edits, history>>

\* A write fails, or the process is killed; at the question the offer stays.
Stops(c) ==
    /\ stage[c] # "idle" /\ Ends(c) /\ Loses(c)
    /\ UNCHANGED <<ssh, file, markers, raced, edits, answers, overlapped, nothing>>

\* `portato add`, the editor or the daemon adds a tuber of any valid name.
OtherAdds ==
    /\ file # Absent /\ Loads(file) /\ edits < MaxEdits
    /\ \E a \in Aliases, f \in Forwards :
          LET t == Tuber(<<<<a, f.type>>, 1>>, a, f.type, f.bind)
          IN  /\ t.name \notin Names(file)
              /\ \A u \in ToSet(file) : ~SameForward(u, t)
              /\ file' = Append(file, t)
    /\ edits' = edits + 1
    /\ stale' = [d \in Commands |-> stale[d] \/ plan[d] # <<>>]
    /\ UNCHANGED <<ssh, markers, stage, offer, plan, raced, history>>

\* `portato rm`, or an editor.
OtherRemoves ==
    /\ Len(file) > 1
    /\ file' = Tail(file)
    /\ UNCHANGED <<ssh, markers, command, raced, edits, history>>

Next ==
    \/ \E c \in Commands :
          \/ EnsureExample(c) \/ TouchMarker(c)
          \/ Import(c) \/ Offer(c) \/ NothingToOffer(c) \/ Decline(c) \/ Confirm(c)
          \/ Validate(c) \/ AddTuberNode(c) \/ Stops(c)
    \/ OtherAdds \/ OtherRemoves

Spec == Init /\ [][Next]_vars

-----------------------------------------------------------------------------
(* What must hold.                                                           *)

\* Importing is a one-time copy: however often it is run, over whatever an
\* earlier one that broke off has left, it neither covers a forward twice nor
\* writes a name twice, which would keep config.yaml from loading; unless a plan
\* was written after somebody else, another import among them, had added to the
\* file it was made from: nothing locks config.yaml, and the writes check
\* nothing.
NothingTwice ==
    \A i, j \in DOMAIN file :
        i < j /\ ~raced => file[i].name # file[j].name /\ ~SameForward(file[i], file[j])

\* A forward is taken for an alias only if OpenSSH sets it up for that alias,
\* and the alias stands for the machine OpenSSH connects to: dropping a Match
\* block is behaviour-preserving (LenientSSHConfig), as long as no included
\* file ends in a Host block, which would go on behind the Include; Included
\* is chosen so.
MeansTheSame ==
    \A i \in DOMAIN cands :
        /\ cands[i].forward \in OpenSSHForwards(text, cands[i].ssh)
        /\ host[cands[i].ssh] = OpenSSHHostName(text, cands[i].ssh)

\* The offer is made once (maybeOfferImport). It is answered again only if the
\* marker of an answer was not written, its write having failed or its process
\* having been killed before, or two launches were asking at one time; and one
\* that was cut off without an answer is still to be made: the marker is there
\* only after an answer, or when there was nothing to offer.
OfferedOnce ==
    /\ answers = 2 => overlapped \/ "import_offered" \in lost
    /\ "import_offered" \in markers => answers > 0 \/ nothing
=============================================================================

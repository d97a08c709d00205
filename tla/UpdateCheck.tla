---------------------------- MODULE UpdateCheck ----------------------------
(***************************************************************************)
(* The background update check (internal/daemon updatecheck.go,            *)
(* internal/update cache.go and client.go, internal/cmd consent.go and     *)
(* update.go). The daemon's ticker re-reads the user's consent and the     *)
(* cached record of the last check, asks GitHub when a check is due, and   *)
(* saves the record; `portato update check` asks and saves as well. Both   *)
(* write one temporary file and rename it over the cache. An interactive   *)
(* launch asks for the consent while it is absent from config.yaml.        *)
(* A record is the time of its check: which release it names is left out.  *)
(***************************************************************************)
EXTENDS Integers

CONSTANTS
    TTL,         \* updateCheckTTL, in ticks of the daemon's ticker
    MaxTime,     \* bound: ticks
    MaxChecks    \* bound: uses of `portato update check`

ASSUME BoundsAssumption == TTL \in Nat \ {0} /\ MaxTime \in Nat /\ MaxChecks \in Nat

VARIABLES
    clock,       \* ticks so far
    consent,     \* defaults.update_check; "ask" when the key is absent
    prompt,      \* an interactive launch waits for the answer
    cache,       \* update.json: the time of the last check, or None or Torn
    tmp,         \* update.json.tmp
    stage,       \* what the daemon's checker and the command are doing
    stamp,       \* the time of the check each is recording
    file,        \* the file each has open: "none", "tmp", "cache", "unlinked"
    checks,      \* uses of the command so far
    granted,     \* history: the consent was on since the daemon's tick began
    answered,    \* history: when GitHub last answered the daemon, or None
    lost,        \* history: a record has been lost since
    wasted       \* history: it answered again within a TTL although none was

saving == <<cache, tmp, file>>
history == <<answered, lost, wasted>>
vars == <<clock, consent, prompt, saving, stage, stamp, checks, granted, history>>

Daemon == "daemon"
Command == "update check"
Checkers == {Daemon, Command}
Times == 0 .. MaxTime
None == -1
Torn == -2
Saving == {"save", "write", "rename"}
Stages == {"down", "idle", "gate", "read", "ask"} \cup Saving

TypeOK ==
    /\ clock \in Times /\ consent \in {"ask", "on", "off"} /\ prompt \in BOOLEAN
    /\ cache \in Times \cup {None, Torn} /\ tmp \in Times \cup {None, Torn}
    /\ stage \in [Checkers -> Stages] /\ stamp \in [Checkers -> Times]
    /\ file \in [Checkers -> {"none", "tmp", "cache", "unlinked"}]
    /\ checks \in 0 .. MaxChecks /\ granted \in BOOLEAN
    /\ answered \in Times \cup {None} /\ lost \in BOOLEAN /\ wasted \in BOOLEAN

Init ==
    /\ clock = 0 /\ consent \in {"ask", "on", "off"} /\ prompt = FALSE
    /\ cache = None /\ tmp = None
    /\ stage = [c \in Checkers |-> IF c = Daemon THEN "down" ELSE "idle"]
    /\ stamp = [c \in Checkers |-> 0]
    /\ file = [c \in Checkers |-> "none"]
    /\ checks = 0 /\ granted = FALSE
    /\ answered = None /\ lost = FALSE /\ wasted = FALSE

Moves(c, s) == stage' = [stage EXCEPT ![c] = s]

-----------------------------------------------------------------------------
(* The consent.                                                              *)

SetConsent(answer) ==
    /\ consent' = answer
    /\ granted' = (granted \/ answer = "on")

\* `portato update consent`.
ConsentCommand ==
    /\ \E answer \in {"ask", "on", "off"} \ {consent} : SetConsent(answer)
    /\ UNCHANGED <<clock, prompt, saving, stage, stamp, checks, history>>

\* The launcher, install and doctor ask while the key is absent.
Ask ==
    /\ consent = "ask" /\ ~prompt
    /\ prompt' = TRUE
    /\ UNCHANGED <<clock, consent, saving, stage, stamp, checks, granted, history>>

\* The answer is written over whatever the file says by now. A file that cannot
\* be written leaves it as it was.
Answer ==
    /\ prompt /\ prompt' = FALSE
    /\ \/ \E answer \in {"on", "off"} : SetConsent(answer)
       \/ UNCHANGED <<consent, granted>>
    /\ UNCHANGED <<clock, saving, stage, stamp, checks, history>>

\* The end of the input counts as a no.
EndOfInput ==
    /\ prompt /\ prompt' = FALSE
    /\ SetConsent("off")
    /\ UNCHANGED <<clock, saving, stage, stamp, checks, history>>

-----------------------------------------------------------------------------
(* tryCheck.                                                                 *)

BeginsTick == Moves(Daemon, "gate") /\ granted' = (consent = "on")

\* A check is over long before the next tick is due.
Tick ==
    /\ clock < MaxTime /\ stage[Daemon] \in {"idle", "down"} /\ stage[Command] = "idle"
    /\ clock' = clock + 1
    /\ IF stage[Daemon] = "idle" THEN BeginsTick ELSE UNCHANGED <<stage, granted>>
    /\ UNCHANGED <<consent, prompt, saving, stamp, checks, history>>

\* run evaluates the gate at once, before its first tick.
DaemonStarts ==
    /\ stage[Daemon] = "down"
    /\ BeginsTick
    /\ UNCHANGED <<clock, consent, prompt, saving, stamp, checks, history>>

\* Mutant: an absent answer is a consent.
Consented_Absent == stage[Daemon] = "gate" /\ consent # "off"
Consented == stage[Daemon] = "gate" /\ consent = "on"

Gate ==
    /\ Consented /\ Moves(Daemon, "read")
    /\ UNCHANGED <<clock, consent, prompt, saving, stamp, checks, granted, history>>

\* No consent, or a configuration that does not load.
GateShut ==
    /\ stage[Daemon] = "gate" /\ Moves(Daemon, "idle")
    /\ UNCHANGED <<clock, consent, prompt, saving, stamp, checks, granted, history>>

\* NeedsCheck. A cache that does not parse counts as none.
\* Mutant: every tick asks.
NeedsCheck_NoTTL == TRUE
NeedsCheck == cache \in {None, Torn} \/ clock - cache >= TTL

ReadCache ==
    /\ stage[Daemon] = "read"
    /\ Moves(Daemon, IF NeedsCheck THEN "ask" ELSE "idle")
    /\ stamp' = [stamp EXCEPT ![Daemon] = clock]
    /\ UNCHANGED <<clock, consent, prompt, saving, checks, granted, history>>

CommandAsks ==
    /\ stage[Command] = "idle" /\ checks < MaxChecks
    /\ Moves(Command, "ask") /\ checks' = checks + 1
    /\ UNCHANGED <<clock, consent, prompt, saving, stamp, granted, history>>

\* Latest returns the release. The command stamps its record afterwards, and
\* saves none when either version is not of the form vX.Y.Z.
DaemonIsAnswered ==
    /\ stage[Daemon] = "ask" /\ Moves(Daemon, "save")
    /\ answered' = clock /\ lost' = FALSE
    /\ wasted' = (wasted \/ (answered # None /\ clock - answered < TTL /\ ~lost))
    /\ UNCHANGED <<clock, consent, prompt, saving, stamp, checks, granted>>

CommandIsAnswered ==
    /\ stage[Command] = "ask"
    /\ \/ Moves(Command, "save") /\ stamp' = [stamp EXCEPT ![Command] = clock]
       \/ Moves(Command, "idle") /\ UNCHANGED stamp
    /\ UNCHANGED <<clock, consent, prompt, saving, checks, granted, history>>

\* Unreachable, rate limited, malformed, timed out: nothing is recorded.
RequestFails(c) ==
    /\ stage[c] = "ask" /\ Moves(c, "idle")
    /\ UNCHANGED <<clock, consent, prompt, saving, stamp, checks, granted, history>>

-----------------------------------------------------------------------------
(* SaveCache.                                                                *)

Loses(event) == lost' = (lost \/ event) /\ UNCHANGED <<answered, wasted>>

\* WriteFile opens the temporary file and truncates it ...
Truncate(c) ==
    /\ stage[c] = "save" /\ Moves(c, "write")
    /\ tmp' = Torn /\ file' = [file EXCEPT ![c] = "tmp"]
    /\ UNCHANGED <<clock, consent, prompt, cache, stamp, checks, granted, history>>

\* ... and writes the record into the file it has open, wherever that is by
\* now. Over a longer record it leaves a tail that does not parse.
Writes(c, was) == IF was = Torn THEN {stamp[c]} ELSE {stamp[c], Torn}

Write(c) ==
    /\ stage[c] = "write" /\ Moves(c, "rename")
    /\ \/ file[c] = "tmp" /\ tmp' \in Writes(c, tmp) /\ UNCHANGED cache
       \/ file[c] = "cache" /\ cache' \in Writes(c, cache) /\ UNCHANGED tmp
       \/ file[c] = "unlinked" /\ UNCHANGED <<tmp, cache>>
    /\ Loses(cache' = Torn)
    /\ UNCHANGED <<clock, consent, prompt, file, stamp, checks, granted>>

\* Whoever has the renamed file open keeps it, and the old cache is unlinked.
Renamed(f) == CASE f = "tmp" -> "cache" [] f = "cache" -> "unlinked" [] OTHER -> f

Rename(c) ==
    /\ stage[c] = "rename" /\ tmp # None /\ Moves(c, "idle")
    /\ cache' = tmp /\ tmp' = None
    /\ file' = [d \in Checkers |-> IF d = c THEN "none" ELSE Renamed(file[d])]
    /\ Loses(tmp = Torn)
    /\ UNCHANGED <<clock, consent, prompt, stamp, checks, granted>>

\* A step of the save fails. A rename that does removes the temporary file, if
\* the other has not renamed it already.
SaveFails(c) ==
    /\ stage[c] \in Saving /\ Moves(c, "idle")
    /\ tmp' = IF stage[c] = "rename" THEN None ELSE tmp
    /\ file' = [d \in Checkers |->
          CASE d = c -> "none"
            [] d # c /\ stage[c] = "rename" /\ file[d] = "tmp" -> "unlinked"
            [] OTHER -> file[d]]
    /\ Loses(TRUE)
    /\ UNCHANGED <<clock, consent, prompt, cache, stamp, checks, granted>>

\* The process is killed.
Killed(c) ==
    /\ stage[c] \notin {"down", "idle"}
    /\ Moves(c, IF c = Daemon THEN "down" ELSE "idle")
    /\ file' = [file EXCEPT ![c] = "none"]
    /\ Loses(stage[c] \in Saving)
    /\ UNCHANGED <<clock, consent, prompt, cache, tmp, stamp, checks, granted>>

Next ==
    \/ ConsentCommand \/ Ask \/ Answer \/ EndOfInput
    \/ Tick \/ DaemonStarts \/ Gate \/ GateShut \/ ReadCache
    \/ CommandAsks \/ DaemonIsAnswered \/ CommandIsAnswered
    \/ \E c \in Checkers :
          RequestFails(c) \/ Truncate(c) \/ Write(c) \/ Rename(c) \/ SaveFails(c) \/ Killed(c)

Spec == Init /\ [][Next]_vars

-----------------------------------------------------------------------------
(* Properties.                                                               *)

\* A request by the daemon goes back to a consent that was on at some moment
\* since its tick began: a withdrawn consent silences it within one tick, with
\* nothing restarted (updateChecker).
SilentWithoutConsent == stage[Daemon] \in {"read", "ask"} => granted

\* At most one answered poll in 24 hours (updateCheckTTL), and losing the record
\* costs one more (CheckCache): GitHub answers the daemon twice within the TTL
\* only when a record was lost between the two, whatever the command does to
\* the file meanwhile and whoever is killed.
LossCostsOnePoll == ~wasted
=============================================================================

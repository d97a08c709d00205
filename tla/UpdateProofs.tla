-------------------------- MODULE UpdateProofs --------------------------
(***************************************************************************)
(* The update check, for every TTL, clock and number of commands. What     *)
(* makes SilentWithoutConsent inductive is that a tick that is about to    *)
(* read the consent has seen it on if it is on. LossCostsOnePoll rests on  *)
(* the clock, which stands still while a record is being saved.            *)
(***************************************************************************)
EXTENDS UpdateCheck, SelfUpdate, TLAPS

\* A tick before its gate knows of a consent that is on.
GateKnows == stage[Daemon] = "gate" /\ consent = "on" => granted

Inv == TypeOK /\ GateKnows /\ SilentWithoutConsent

\* The clock and the counter of commands stay below their bounds.
LEMMA Counting ==
    /\ 0 \in Times /\ 0 \in 0 .. MaxChecks
    /\ \A t \in Times : t < MaxTime => t + 1 \in Times
    /\ \A n \in 0 .. MaxChecks : n < MaxChecks => n + 1 \in 0 .. MaxChecks
  BY BoundsAssumption DEF Times

\* The invariant holds at first.
LEMMA InitInv == Init => Inv
<1> SUFFICES ASSUME Init PROVE Inv
  OBVIOUS
<1>1. stage \in [Checkers -> Stages] /\ stage[Daemon] = "down"
  BY DEF Init, Stages, Checkers, Daemon
<1>2. stamp \in [Checkers -> Times] /\ file \in [Checkers -> {"none", "tmp", "cache", "unlinked"}]
  BY Counting DEF Init
<1>3. TypeOK
  BY <1>1, <1>2, Counting DEF Init, TypeOK
<1> QED
  BY <1>1, <1>3 DEF Inv, GateKnows, SilentWithoutConsent

\* What the gate and the consent say of one another.
Gated == stage \in [Checkers -> Stages] /\ GateKnows /\ SilentWithoutConsent

\* A checker that goes on past the gate, or saves, or ends, keeps the gate: it
\* changes neither the consent nor what is known of it.
LEMMA MovesInv ==
    ASSUME Gated, NEW c \in Checkers, NEW s \in Stages \ {"gate"}, Moves(c, s),
           UNCHANGED <<consent, granted>>,
           c = Daemon /\ s \in {"read", "ask"} => granted
    PROVE  Gated'
  BY DEF Gated, Moves, GateKnows, SilentWithoutConsent, Stages, Saving, Checkers, Daemon, Command

\* Giving and taking the consent.
LEMMA ConsentInv ==
    ASSUME Gated, NEW answer \in {"ask", "on", "off"}, SetConsent(answer), granted \in BOOLEAN,
           UNCHANGED stage
    PROVE  consent' \in {"ask", "on", "off"} /\ granted' \in BOOLEAN /\ Gated'
  BY DEF Gated, SetConsent, GateKnows, SilentWithoutConsent

\* A tick begins.
LEMMA BeginsInv ==
    ASSUME Gated, BeginsTick, UNCHANGED consent
    PROVE  granted' \in BOOLEAN /\ Gated'
  BY DEF Gated, BeginsTick, Moves, GateKnows, SilentWithoutConsent, Stages, Saving, Checkers,
         Daemon, Command

\* The rest of the type invariant.
Typed ==
    /\ clock \in Times /\ consent \in {"ask", "on", "off"} /\ prompt \in BOOLEAN
    /\ cache \in Times \cup {None, Torn} /\ tmp \in Times \cup {None, Torn}
    /\ stamp \in [Checkers -> Times]
    /\ file \in [Checkers -> {"none", "tmp", "cache", "unlinked"}]
    /\ checks \in 0 .. MaxChecks /\ granted \in BOOLEAN
    /\ answered \in Times \cup {None} /\ lost \in BOOLEAN /\ wasted \in BOOLEAN

LEMMA Parts == (Inv <=> Typed /\ Gated) /\ (Inv' <=> Typed' /\ Gated')
  BY DEF Inv, TypeOK, Typed, Gated

USE DEF vars, saving, history, Typed

\* The steps of the consent and of the daemon's tick.
LEMMA TickInv ==
    ASSUME Inv,
           ConsentCommand \/ Ask \/ Answer \/ EndOfInput \/ Tick \/ DaemonStarts
             \/ Gate \/ GateShut \/ ReadCache \/ CommandAsks \/ DaemonIsAnswered
             \/ CommandIsAnswered
    PROVE  Inv'
<1> SUFFICES Typed' /\ Gated'
  BY Parts
<1>a. Typed /\ Gated
  BY Parts
<1>b. Daemon \in Checkers /\ Command \in Checkers /\ Daemon # Command
  BY DEF Checkers, Daemon, Command
<1>c. {"idle", "read", "ask", "save"} \subseteq Stages \ {"gate"}
  BY DEF Stages, Saving
<1>d. ASSUME UNCHANGED <<stage, consent, granted>> PROVE Gated'
  BY <1>a, <1>d DEF Gated, GateKnows, SilentWithoutConsent
<1>1. CASE ConsentCommand
  BY <1>1, <1>a, ConsentInv DEF ConsentCommand
<1>2. CASE Ask
  BY <1>2, <1>a, <1>d DEF Ask
<1>3. CASE Answer
  <2>1. CASE \E answer \in {"on", "off"} : SetConsent(answer)
    <3>1. PICK answer \in {"on", "off"} : SetConsent(answer)
      BY <2>1
    <3> QED
      BY <1>3, <1>a, <3>1, ConsentInv DEF Answer
  <2>2. CASE UNCHANGED <<consent, granted>>
    BY <1>3, <1>a, <1>d, <2>2 DEF Answer
  <2> QED
    BY <1>3, <2>1, <2>2 DEF Answer
<1>4. CASE EndOfInput
  BY <1>4, <1>a, ConsentInv DEF EndOfInput
<1>5. CASE Tick
  <2>1. clock' \in Times
    BY <1>5, <1>a, Counting DEF Tick
  <2>2. CASE stage[Daemon] = "idle"
    <3>1. BeginsTick
      BY <1>5, <2>2 DEF Tick
    <3>2. granted' \in BOOLEAN /\ Gated'
      BY <1>5, <1>a, <3>1, BeginsInv DEF Tick
    <3> QED
      BY <1>5, <1>a, <2>1, <3>2 DEF Tick
  <2>3. CASE stage[Daemon] # "idle"
    <3>1. UNCHANGED <<stage, consent, granted>>
      BY <1>5, <2>3 DEF Tick
    <3> QED
      BY <1>5, <1>a, <1>d, <2>1, <3>1 DEF Tick
  <2> QED
    BY <2>2, <2>3
<1>6. CASE DaemonStarts
  BY <1>6, <1>a, BeginsInv DEF DaemonStarts
<1>7. CASE Gate
  <2>1. Moves(Daemon, "read") /\ granted
    BY <1>7, <1>a DEF Gate, Consented, Gated, GateKnows
  <2>2. Gated'
    BY <1>7, <1>a, <1>b, <1>c, <2>1, MovesInv DEF Gate
  <2> QED
    BY <1>7, <1>a, <2>2 DEF Gate
<1>8. CASE GateShut
  <2>1. Gated'
    BY <1>8, <1>a, <1>b, <1>c, MovesInv DEF GateShut
  <2> QED
    BY <1>8, <1>a, <2>1 DEF GateShut
<1>9. CASE ReadCache
  <2>1. \E s \in {"ask", "idle"} : Moves(Daemon, s)
    BY <1>9 DEF ReadCache
  <2>2. granted
    BY <1>9, <1>a DEF ReadCache, Gated, SilentWithoutConsent
  <2>3. Gated'
    BY <1>9, <1>a, <1>b, <1>c, <2>1, <2>2, MovesInv DEF ReadCache
  <2> QED
    BY <1>9, <1>a, <2>3 DEF ReadCache
<1>10. CASE CommandAsks
  <2>1. Gated'
    BY <1>10, <1>a, <1>b, <1>c, MovesInv DEF CommandAsks
  <2>2. checks' \in 0 .. MaxChecks
    BY <1>10, <1>a, Counting DEF CommandAsks
  <2> QED
    BY <1>10, <1>a, <2>1, <2>2 DEF CommandAsks
<1>11. CASE DaemonIsAnswered
  <2>1. Gated'
    BY <1>11, <1>a, <1>b, <1>c, MovesInv DEF DaemonIsAnswered
  <2> QED
    BY <1>11, <1>a, <2>1 DEF DaemonIsAnswered
<1>12. CASE CommandIsAnswered
  <2>1. stamp' \in [Checkers -> Times]
    BY <1>12, <1>a DEF CommandIsAnswered
  <2>2. PICK s \in {"save", "idle"} : Moves(Command, s)
    BY <1>12 DEF CommandIsAnswered
  <2>3. Gated'
    BY <1>12, <1>a, <1>b, <1>c, <2>2, MovesInv DEF CommandIsAnswered
  <2> QED
    BY <1>12, <1>a, <2>1, <2>3 DEF CommandIsAnswered
<1> QED
  BY <1>1, <1>2, <1>3, <1>4, <1>5, <1>6, <1>7, <1>8, <1>9, <1>10, <1>11, <1>12

\* The steps of a request that fails, of a save and of a kill: none of them asks.
LEMMA SaveInv ==
    ASSUME Inv, NEW c \in Checkers,
           RequestFails(c) \/ Truncate(c) \/ Write(c) \/ Rename(c) \/ SaveFails(c) \/ Killed(c)
    PROVE  Inv'
<1> SUFFICES Typed' /\ Gated'
  BY Parts
<1>a. Typed /\ Gated
  BY Parts
<1>b. \E s \in {"idle", "down", "write", "rename"} : Moves(c, s)
  BY DEF RequestFails, Truncate, Write, Rename, SaveFails, Killed
<1>c. UNCHANGED <<consent, granted>>
  BY DEF RequestFails, Truncate, Write, Rename, SaveFails, Killed
<1>d. {"idle", "down", "write", "rename"} \subseteq Stages \ {"gate", "read", "ask"}
  BY DEF Stages, Saving
<1>e. Gated'
  BY <1>a, <1>b, <1>c, <1>d, MovesInv
<1>1. CASE RequestFails(c)
  BY <1>1, <1>a, <1>e DEF RequestFails
<1>2. CASE Truncate(c)
  BY <1>2, <1>a, <1>e DEF Truncate
<1>3. CASE Write(c)
  BY <1>3, <1>a, <1>e DEF Write, Writes, Loses
<1>4. CASE Rename(c)
  BY <1>4, <1>a, <1>e DEF Rename, Renamed, Loses
<1>5. CASE SaveFails(c)
  BY <1>5, <1>a, <1>e DEF SaveFails, Loses
<1>6. CASE Killed(c)
  BY <1>6, <1>a, <1>e DEF Killed, Loses
<1> QED
  BY <1>1, <1>2, <1>3, <1>4, <1>5, <1>6

LEMMA NextInv == Inv /\ [Next]_vars => Inv'
<1>1. ASSUME Inv, UNCHANGED vars PROVE Inv'
  <2>1. Typed' /\ Gated'
    BY <1>1, Parts DEF Gated, GateKnows, SilentWithoutConsent
  <2> QED
    BY <2>1, Parts
<1>2. ASSUME Inv, Next PROVE Inv'
  BY <1>2, TickInv, SaveInv DEF Next
<1> QED
  BY <1>1, <1>2

USE DEF Inv, TypeOK, GateKnows, SilentWithoutConsent, Stages, Saving, Checkers, Daemon, Command

LEMMA Invariance == Spec => []Inv
  BY InitInv, NextInv, PTL DEF Spec

\* Every variable keeps its type, whatever two writers do to one temporary file.
THEOREM CheckTypeCorrect == Spec => []TypeOK
  BY Invariance, PTL DEF Inv

\* The daemon asks GitHub nothing without a consent that was on at some moment
\* since its tick began (tryCheck).
THEOREM SilenceIsKept == Spec => []SilentWithoutConsent
  BY Invariance, PTL DEF Inv

-----------------------------------------------------------------------------
(* What a lost record costs. A save is over before the clock moves, so both   *)
(* writers write the present time, whichever file they have open by then;    *)
(* and unless a record was lost, the cache is as new as the last answer.      *)

\* An answer lies in the past.
Past == answered # None => answered <= clock

\* Whoever saves, saves the present time.
Present ==
    /\ \A c \in Checkers : stage[c] \in Saving => stamp[c] = clock
    /\ stage[Daemon] = "ask" => stamp[Daemon] = clock
    /\ (\E c \in Checkers : stage[c] \in {"write", "rename"}) => tmp \in {clock, None, Torn}

\* The last answer was recorded, or lost.
Kept == answered # None /\ ~lost

Recorded == (Kept /\ stage[Daemon] \notin Saving) => cache \in Times /\ answered <= cache

\* A request that may be answered is due.
Due == (Kept /\ stage[Daemon] = "ask") => TTL <= clock - answered

LossInv == Past /\ Present /\ Recorded /\ Due /\ LossCostsOnePoll

\* The arithmetic of the clock.
LEMMA Clocks ==
    /\ None \notin Times /\ Torn \notin Times /\ None # Torn
    /\ \A t \in Times : t <= t /\ t <= t + 1
    /\ \A t, u \in Times : t <= u => t <= u + 1
    /\ \A a, t, u \in Times : a <= t /\ u - t >= TTL => TTL <= u - a
    /\ \A a, u \in Times : TTL <= u - a => ~(u - a < TTL)
  BY BoundsAssumption DEF Times, None, Torn

LEMMA InitLoss == Init => LossInv
  BY Clocks DEF Init, LossInv, Past, Present, Recorded, Due, Kept, LossCostsOnePoll

USE DEF LossInv, Past, Present, Recorded, Due, Kept, LossCostsOnePoll

\* The steps that save nothing.
LEMMA QuietLoss ==
    ASSUME Inv, LossInv,
           ConsentCommand \/ Ask \/ Answer \/ EndOfInput \/ Gate \/ GateShut
             \/ CommandAsks \/ DaemonStarts
    PROVE  LossInv'
<1>1. UNCHANGED <<clock, saving, stamp, history>>
  BY DEF ConsentCommand, Ask, Answer, EndOfInput, Gate, GateShut, CommandAsks, DaemonStarts
<1>2. /\ stage'[Daemon] \notin Saving \cup {"ask"} \/ stage'[Daemon] = stage[Daemon]
      /\ \A c \in Checkers : stage'[c] \in Saving => stage'[c] = stage[c]
      /\ stage'[Daemon] \notin Saving => stage[Daemon] \notin Saving
  BY DEF ConsentCommand, Ask, Answer, EndOfInput, Gate, GateShut, CommandAsks, DaemonStarts,
         Consented, BeginsTick, Moves
<1> QED
  BY <1>1, <1>2

\* The clock moves while nobody saves.
LEMMA TickLoss ==
    ASSUME Inv, LossInv, Tick
    PROVE  LossInv'
<1>1. /\ \A c \in Checkers : stage[c] \notin Saving /\ stage'[c] \notin Saving \cup {"ask"}
      /\ clock' = clock + 1 /\ UNCHANGED <<saving, history>>
  BY DEF Tick, BeginsTick, Moves
<1>2. Past'
  BY <1>1, Clocks
<1> QED
  BY <1>1, <1>2

\* NeedsCheck finds the record, if it was not lost.
LEMMA ReadLoss ==
    ASSUME Inv, LossInv, ReadCache
    PROVE  LossInv'
<1>1. /\ stage[Daemon] = "read" /\ UNCHANGED <<clock, saving, history>>
      /\ stage' = [stage EXCEPT ![Daemon] = IF NeedsCheck THEN "ask" ELSE "idle"]
      /\ stamp' = [stamp EXCEPT ![Daemon] = clock]
  BY DEF ReadCache, Moves
<1>2. Due'
  BY <1>1, Clocks DEF NeedsCheck
<1>3. Present'
  BY <1>1
<1> QED
  BY <1>1, <1>2, <1>3

\* An answer, to either of them.
LEMMA AnswerLoss ==
    ASSUME Inv, LossInv, DaemonIsAnswered \/ CommandIsAnswered
    PROVE  LossInv'
<1>1. CASE DaemonIsAnswered
  <2>1. /\ stage[Daemon] = "ask" /\ stage' = [stage EXCEPT ![Daemon] = "save"]
        /\ answered' = clock /\ UNCHANGED <<clock, saving, stamp>>
    BY <1>1 DEF DaemonIsAnswered, Moves
  <2>2. ~(answered # None /\ clock - answered < TTL /\ ~lost)
    BY <2>1, Clocks
  <2>3. ~wasted'
    BY <1>1, <2>2 DEF DaemonIsAnswered
  <2>4. stamp[Daemon] = clock
    BY <2>1
  <2> QED
    BY <2>1, <2>3, <2>4, Clocks
<1>2. CASE CommandIsAnswered
  BY <1>2 DEF CommandIsAnswered, Moves
<1> QED
  BY <1>1, <1>2

\* A request fails, or a checker is killed: in a save it loses a record.
LEMMA FailLoss ==
    ASSUME Inv, LossInv, NEW c \in Checkers, RequestFails(c) \/ Killed(c) \/ SaveFails(c)
    PROVE  LossInv'
<1>1. \E s \in {"idle", "down"} : stage' = [stage EXCEPT ![c] = s]
  BY DEF RequestFails, Killed, SaveFails, Moves
<1>2. UNCHANGED <<clock, cache, stamp, answered>> /\ tmp' \in {tmp, None}
  BY DEF RequestFails, Killed, SaveFails, Loses
<1>3. (lost => lost') /\ (wasted' => wasted) /\ (stage[c] \in Saving => lost')
  <2>1. CASE RequestFails(c)
    BY <2>1 DEF RequestFails
  <2>2. CASE Killed(c)
    BY <2>2 DEF Killed, Loses
  <2>3. CASE SaveFails(c)
    BY <2>3 DEF SaveFails, Loses
  <2> QED
    BY <2>1, <2>2, <2>3
<1>4. Present'
  BY <1>1, <1>2
<1>5. Recorded'
  BY <1>1, <1>2, <1>3
<1>6. Past' /\ Due' /\ LossCostsOnePoll'
  BY <1>1, <1>2, <1>3
<1> QED
  BY <1>4, <1>5, <1>6

\* The temporary file is truncated.
LEMMA TruncateLoss ==
    ASSUME Inv, LossInv, NEW c \in Checkers, Truncate(c)
    PROVE  LossInv'
  BY DEF Truncate, Moves

\* A record is written, wherever the file it goes to is by now.
LEMMA WriteLoss ==
    ASSUME Inv, LossInv, NEW c \in Checkers, Write(c)
    PROVE  LossInv'
<1>1. /\ stage[c] = "write" /\ stage' = [stage EXCEPT ![c] = "rename"]
      /\ UNCHANGED <<clock, stamp, answered>> /\ (wasted' => wasted)
      /\ stamp[c] = clock
      /\ tmp' \in {clock, Torn, tmp}
      /\ cache' \in {clock, Torn, cache}
      /\ cache' = Torn => lost'
      /\ lost => lost'
  BY DEF Write, Moves, Writes, Loses
<1>2. Recorded'
  BY <1>1, Clocks
<1>3. Present'
  BY <1>1
<1>4. Past' /\ Due' /\ LossCostsOnePoll'
  BY <1>1
<1> QED
  BY <1>2, <1>3, <1>4

\* The temporary file becomes the cache.
LEMMA RenameLoss ==
    ASSUME Inv, LossInv, NEW c \in Checkers, Rename(c)
    PROVE  LossInv'
<1>1. /\ stage[c] = "rename" /\ stage' = [stage EXCEPT ![c] = "idle"]
      /\ UNCHANGED <<clock, stamp, answered>> /\ (wasted' => wasted)
      /\ cache' = tmp /\ tmp' = None /\ tmp # None
      /\ tmp = Torn => lost'
      /\ lost => lost'
  BY DEF Rename, Moves, Loses
<1>2. tmp \in {clock, Torn}
  BY <1>1
<1>3. Recorded'
  BY <1>1, <1>2, Clocks
<1>4. Present'
  BY <1>1
<1>5. Past' /\ Due' /\ LossCostsOnePoll'
  BY <1>1
<1> QED
  BY <1>3, <1>4, <1>5

LEMMA NextLoss == Inv /\ LossInv /\ [Next]_vars => LossInv'
<1>1. ASSUME LossInv, UNCHANGED vars PROVE LossInv'
  BY <1>1
<1> QED
  BY <1>1, QuietLoss, TickLoss, ReadLoss, AnswerLoss, FailLoss, TruncateLoss, WriteLoss,
     RenameLoss DEF Next

\* GitHub answers the daemon twice within the TTL only when the record of the
\* first answer was lost: two writers of one temporary file, requests that fail
\* and kills at any step cost no more (CheckCache, updateCheckTTL).
THEOREM LossesCostOnePoll == Spec => []LossCostsOnePoll
<1>1. Spec => []LossInv
  BY Invariance, InitLoss, NextLoss, PTL DEF Spec
<1> QED
  BY <1>1, PTL

-----------------------------------------------------------------------------
(***************************************************************************)
(* The swap of the binary, for every number of releases. The invariant     *)
(* says, stage by stage, what is on the disk and what has been downloaded: *)
(* nothing but the verified release is ever staged for the swap, and       *)
(* between the two renames the backup is the binary that was replaced.     *)
(***************************************************************************)

\* A stage in which nothing has been downloaded.
Idle == {"away", "gate"} \cup Over

\* What is downloaded: the archive is verified before anything leaves it, and
\* what leaves it is whole before the swap begins.
Downloaded ==
    /\ phase \in Idle => archive = "none" /\ staged = Absent
    /\ phase = "fetch" => staged = Absent
    /\ phase \in {"extract", "drop", "backup", "install"} => archive = "genuine"
    /\ phase \in {"drop", "backup", "install"} => staged = target

\* What is on the disk: between the two renames the backup is the binary.
OnDisk ==
    /\ path \in Binaries \cup {Absent} /\ old \in Binaries \cup {Absent}
    /\ phase \in {"gate", "fetch", "extract", "drop", "backup"} => path = from
    /\ phase = "install" => path = Absent /\ old = from
    /\ phase \in {"fetch", "extract", "drop", "backup", "install"} => target > from

ApplyInv == ATypeOK /\ Downloaded /\ OnDisk /\ AlwaysABinary /\ OutcomeIsTrue

\* The invariant holds before the first command.
LEMMA InitApply == AInit => ApplyInv
  BY MaxVersionAssumption
  DEF AInit, ApplyInv, ATypeOK, Downloaded, OnDisk, AlwaysABinary, OutcomeIsTrue, Idle, Over,
      Binaries, Files, Versions, Odd, Absent, Part, Foreign, Installs, Flags, NoFlags

\* What each step does to the invariant.
USE DEF ApplyInv, ATypeOK, Downloaded, OnDisk, AlwaysABinary, OutcomeIsTrue, Idle,
        Binaries, Files, Versions, Odd, Absent, Part, Foreign,
        Over, avars, setting, disk, run, download

\* The end of a command, however it comes, forgets what was downloaded, and
\* leaves the disk in one of four ways: as it was before the swap, with the
\* backup moved back or left where it is, or with the release installed.
LEMMA EndsApply ==
    ASSUME ApplyInv, NEW outcome \in {"away"} \cup Over, Ends(outcome),
           \/ outcome = "away" /\ UNCHANGED disk
           \/ outcome = "failed" /\ path = from /\ UNCHANGED disk
           \/ outcome = "failed" /\ old = from /\ path' = old /\ old' = Absent
           \/ outcome = "unrestored" /\ phase = "install" /\ UNCHANGED disk
           \/ outcome = "done" /\ phase = "install" /\ path' = staged /\ UNCHANGED old
    PROVE  ApplyInv'
  BY MaxVersionAssumption DEF Ends

\* The invariant is inductive.
LEMMA NextApply == ApplyInv /\ [ANext]_avars => ApplyInv'
<1> SUFFICES ASSUME ApplyInv, [ANext]_avars PROVE ApplyInv'
  OBVIOUS
<1>1. CASE Release
  BY <1>1, MaxVersionAssumption DEF Release
<1>2. CASE Start
  BY <1>2, MaxVersionAssumption DEF Start
<1>3. CASE Proceed
  BY <1>3, MaxVersionAssumption DEF Proceed, Goes, Newer
<1>4. CASE Refuse
  BY <1>4, EndsApply DEF Refuse
<1>5. CASE Download
  BY <1>5, MaxVersionAssumption DEF Download
<1>6. CASE Aborts
  BY <1>6, EndsApply DEF Aborts
<1>7. CASE Verify
  BY <1>7, MaxVersionAssumption DEF Verify, Verified
<1>8. CASE Mismatch
  BY <1>8, EndsApply DEF Mismatch
<1>9. CASE Extract
  BY <1>9, MaxVersionAssumption DEF Extract, Extracted
<1>10. CASE DropBackup
  BY <1>10, MaxVersionAssumption DEF DropBackup
<1>11. CASE Backup
  BY <1>11, MaxVersionAssumption DEF Backup
<1>12. CASE BackupFails
  BY <1>12, EndsApply DEF BackupFails
<1>13. CASE Install
  BY <1>13, EndsApply DEF Install
<1>14. CASE InstallFails
  BY <1>14, EndsApply DEF InstallFails
<1>15. CASE Return
  BY <1>15, MaxVersionAssumption DEF Return
<1>16. CASE ApplyKilled
  BY <1>16, EndsApply DEF ApplyKilled
<1>17. CASE Rollback
  BY <1>17, MaxVersionAssumption DEF Rollback
<1>18. CASE UNCHANGED avars
  BY <1>18, MaxVersionAssumption
<1> QED
  BY <1>1, <1>2, <1>3, <1>4, <1>5, <1>6, <1>7, <1>8, <1>9, <1>10, <1>11, <1>12,
     <1>13, <1>14, <1>15, <1>16, <1>17, <1>18 DEF ANext

\* The invariant holds always.
LEMMA ApplyInvariance == ASpec => []ApplyInv
  BY InitApply, NextApply, PTL DEF ASpec

\* Every variable keeps its type, and what is staged is the release, a part
\* of it or nothing: never what another archive holds (downloadVerified).
THEOREM UpdateTypeCorrect == ASpec => []ATypeOK
  BY ApplyInvariance, PTL DEF ApplyInv

\* Wherever `portato update apply` fails or is killed, a whole binary of the
\* program is installed, or the rollback puts one back (SwapBinary).
THEOREM ABinaryRemains == ASpec => []AlwaysABinary
  BY ApplyInvariance, PTL DEF ApplyInv

\* A command that reports success has installed its release over the binary
\* that is now the backup; one that reports failure has left that binary where
\* it was or, when moving it back failed too, as the backup.
THEOREM OutcomesAreTrue == ASpec => []OutcomeIsTrue
  BY ApplyInvariance, PTL DEF ApplyInv
=============================================================================

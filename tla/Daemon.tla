------------------------------- MODULE Daemon -------------------------------
(***************************************************************************)
(* The daemon between its clients and config.yaml (internal/daemon         *)
(* server.go and watcher.go over internal/forward engine.go): handlers     *)
(* that change the engine, the configuration in memory and the file; the   *)
(* watcher that polls the file; an editor that saves it at any time; the   *)
(* process that dies and boots again.                                      *)
(*                                                                         *)
(* Handlers and the watcher's reload hold Server.mu to the end, so one     *)
(* request is under way at a time; what interleaves with its steps is the  *)
(* editor, the watcher's stat and the death of the process.                *)
(* A tuber is Off, Up (its run loop lives, whatever it shows) or Error:    *)
(* no run loop, and not Off, as a failed bind leaves it, or a Stop that    *)
(* raced the dial (module Tuber, StopLeavesOff).                           *)
(***************************************************************************)
EXTENDS ConfigFile

CONSTANTS
    Edits,          \* the files an editor may leave
    Requested,      \* the tubers a client may send
    Example,        \* the tubers of the example configuration
    BootEdits,      \* the file may change between Load and the watcher's start
    MaxTubers       \* bound: the longest list a request may grow

ASSUME EditsAssumption == Edits \subseteq Files /\ Edits # {}
ASSUME RequestedAssumption == Requested \subseteq Entry
ASSUME ExampleAssumption == Example \in Seq(Entry) /\ Valid(Example)
ASSUME BoundsAssumption == BootEdits \in BOOLEAN /\ MaxTubers \in Nat

VARIABLES
    file,       \* the file
    phase,      \* the process: down, loaded (config read), started, up
    mem,        \* Server.cfg.Tubers, aliased by Engine.cfg
    tubers,     \* Engine.tubers and Engine.configs: name |-> [cfg, state]
    op,         \* the request that holds Server.mu, between two of its steps
    watch,      \* the watcher; its file signatures are kept as "still the file's"
    promised,   \* per name: the last answer to enable / disable, while it binds
    unsaved     \* names whose flag in memory a failed save left out of the file

vars == <<file, phase, mem, tubers, op, watch, promised, unsaved>>

NoOp == [step |-> "none", name |-> "", answer |-> "", doc |-> <<>>]

\* pc: "poll", or "reload" once a poll decided so. stable, last and cur hold a
\* signature (size, mtime) that is, or is no longer, the one of the file.
FreshWatch == [pc |-> "poll", armed |-> FALSE, stable |-> TRUE, last |-> TRUE, cur |-> FALSE]

NoPromises == [n \in Names |-> "nothing"]

NoTubers == [n \in {} |-> FreshWatch]

TypeOK ==
    /\ file \in Files
    /\ phase \in {"down", "loaded", "started", "up"}
    /\ mem \in Seq(Entry) /\ Valid(mem)
    /\ DOMAIN tubers \subseteq Names
    /\ \A n \in DOMAIN tubers : tubers[n] \in [cfg: Entry, state: {"Off", "Up", "Error"}]
    /\ op.step \in {"none", "save", "patch", "reload"} /\ op.doc \in Seq(Entry)
    /\ watch \in [pc: {"poll", "reload"}, armed: BOOLEAN, stable: BOOLEAN, last: BOOLEAN, cur: BOOLEAN]
    /\ promised \in [Names -> {"nothing", "enabled", "disabled"}]
    /\ unsaved \subseteq Names

Init ==
    /\ file \in Edits
    /\ phase = "down" /\ mem = <<>> /\ tubers = NoTubers
    /\ op = NoOp /\ watch = FreshWatch
    /\ promised = NoPromises /\ unsaved = {}

-----------------------------------------------------------------------------
(* The file changes: no signature taken before is the file's any more. *)
Written(f) ==
    /\ file' = f
    /\ watch' = [watch EXCEPT !.stable = FALSE, !.last = FALSE, !.cur = FALSE]

EditorSaves(f) ==
    /\ f # file
    /\ phase \in {"loaded", "started"} => BootEdits
    /\ Written(f)
    /\ promised' = NoPromises
    /\ UNCHANGED <<phase, mem, tubers, op, unsaved>>

-----------------------------------------------------------------------------
(* The engine, over the tubers it holds. *)

Up(ts) == {n \in DOMAIN ts : ts[n].state = "Up"}

\* One tuber at most listens on a port.
PortsApart(ts) == \A m, n \in Up(ts) : ts[m].cfg.port = ts[n].cfg.port => m = n

\* What starting the tubers S of ts may leave: each binds its port or fails to.
Started(ts, S) ==
    {us \in {[n \in DOMAIN ts |-> [ts[n] EXCEPT !.state = IF n \in S THEN how[n] ELSE @]]
                 : how \in [S -> {"Up", "Error"}]} : PortsApart(us)}

\* Start of a running tuber changes nothing; preflight refuses a taken port.
PortTaken(n) == \E m \in Up(tubers) \ {n} : tubers[m].cfg.port = tubers[n].cfg.port

Changed_AllFields(old, new) == old # new

\* tuberChanged: the enabled flag is no part of the connection.
Changed(old, new) == old.port # new.port

Reloaded_KeepsDropped(new) ==
    LET known(n) == n \in DOMAIN tubers
        base == [n \in NamesIn(new) \cup DOMAIN tubers |->
                   IF n \in NamesIn(new)
                   THEN [cfg |-> Named(new, n), state |-> IF known(n) THEN tubers[n].state ELSE "Off"]
                   ELSE tubers[n]]
        restarts == {n \in NamesIn(new) :
                       IF known(n) THEN tubers[n].state = "Up" /\ Changed(tubers[n].cfg, Named(new, n))
                                   ELSE Named(new, n).enabled}
    IN  Started(base, restarts)

\* Reload over a new list: the tubers it lacks are stopped and dropped, new
\* ones start when enabled, a changed one restarts if its loop was running.
Reloaded(new) ==
    LET known(n) == n \in DOMAIN tubers
        base == [n \in NamesIn(new) |->
                   [cfg |-> Named(new, n), state |-> IF known(n) THEN tubers[n].state ELSE "Off"]]
        restarts == {n \in NamesIn(new) :
                       IF known(n) THEN tubers[n].state = "Up" /\ Changed(tubers[n].cfg, Named(new, n))
                                   ELSE Named(new, n).enabled}
    IN  Started(base, restarts)

\* applyReload: Load the file, hand it to the engine, swap the configuration;
\* a file that does not load changes nothing, one that is gone is recreated.
ApplyReload ==
    LET loaded == IF file = Missing THEN Example ELSE file.tubers
    IN  IF Loads(file) \/ file = Missing
        THEN /\ mem' = loaded /\ tubers' \in Reloaded(loaded) /\ unsaved' = {}
             /\ file' = IF file = Missing THEN Document(Example) ELSE file
        ELSE UNCHANGED <<file, mem, tubers, unsaved>>

-----------------------------------------------------------------------------
(* Requests. A refused one (404, 409, 400) changes nothing and is no step.   *)

Serving == phase = "up" /\ op = NoOp

\* The request is answered: Server.mu is free again.
Answered == op' = NoOp

SaveEnabled_SavesFirst(n, enabled) ==
    /\ mem' = SetEnabled(mem, n, enabled)
    /\ unsaved' = unsaved \cup {n}
    /\ op' = [step |-> "save", name |-> n, doc |-> mem,
              answer |-> IF enabled THEN "enabled" ELSE "disabled"]
    /\ UNCHANGED <<file, phase, watch, promised>>

\* setEnabled in memory, then Save of the whole configuration in memory.
SaveEnabled(n, enabled) ==
    LET doc == SetEnabled(mem, n, enabled)
    IN  /\ mem' = doc
        /\ unsaved' = unsaved \cup {n}
        /\ op' = [step |-> "save", name |-> n, doc |-> doc,
                  answer |-> IF enabled THEN "enabled" ELSE "disabled"]
        /\ UNCHANGED <<file, phase, watch, promised>>

\* handleEnable leaves a tuber that is not Off alone.
EnableUp(n) ==
    /\ Serving /\ n \in NamesIn(mem)
    /\ tubers[n].state # "Off"
    /\ SaveEnabled(n, TRUE)
    /\ UNCHANGED tubers

EnableOff(n) ==
    /\ Serving /\ n \in NamesIn(mem)
    /\ tubers[n].state = "Off" /\ ~PortTaken(n)
    /\ tubers' = [tubers EXCEPT ![n].state = "Up"]
    /\ SaveEnabled(n, TRUE)

\* The bind fails: 500, and the tuber shows the error.
EnableFails(n) ==
    /\ Serving /\ n \in NamesIn(mem)
    /\ tubers[n].state = "Off" /\ ~PortTaken(n)
    /\ tubers' = [tubers EXCEPT ![n].state = "Error"]
    /\ UNCHANGED <<file, phase, mem, op, watch, promised, unsaved>>

\* Stop leaves a running tuber Off, or Error when its dial reports last.
Disable(n) ==
    /\ Serving /\ n \in NamesIn(mem)
    /\ \E left \in IF tubers[n].state = "Up" THEN {"Off", "Error"} ELSE {"Off"} :
         tubers' = [tubers EXCEPT ![n].state = left]
    /\ SaveEnabled(n, FALSE)

\* restart, and accept-host for a tuber that shows an unknown key.
Restart(n) ==
    /\ Serving /\ n \in NamesIn(mem)
    /\ tubers' \in Started([tubers EXCEPT ![n].state = "Off"], {n})
    /\ UNCHANGED <<file, phase, mem, op, watch, promised, unsaved>>

Save ==
    /\ op.step = "save"
    /\ Written(Document(op.doc))
    /\ promised' = [promised EXCEPT ![op.name] = op.answer]
    /\ unsaved' = {} /\ Answered
    /\ UNCHANGED <<phase, mem, tubers>>

\* 500: a write fails before it truncates the file, or after. The engine and
\* the configuration in memory keep the change.
WriteRefused ==
    /\ op.step \in {"save", "patch"}
    /\ promised' = IF op.step = "save" THEN [promised EXCEPT ![op.name] = "nothing"] ELSE promised
    /\ Answered
    /\ UNCHANGED <<file, phase, mem, tubers, watch, unsaved>>

WriteCutShort ==
    /\ op.step \in {"save", "patch"}
    /\ Written(Blank)
    /\ promised' = NoPromises
    /\ Answered
    /\ UNCHANGED <<phase, mem, tubers, unsaved>>

\* A patch was validated against the configuration in memory, and is applied
\* to the document that is on the disk.
PatchFile(n, doc) ==
    /\ op' = [step |-> "patch", name |-> n, doc |-> doc, answer |-> "nothing"]
    /\ UNCHANGED <<file, phase, mem, tubers, watch, promised, unsaved>>

AddTuber(t) ==
    /\ Serving /\ t.name \notin NamesIn(mem)
    /\ Patchable(file) /\ Len(file.tubers) < MaxTubers
    /\ PatchFile(t.name, AddTuberNode(file.tubers, t))

UpdateTuber(n, t) ==
    /\ Serving /\ n \in NamesIn(mem)
    /\ Valid(ReplaceTuberNode(mem, n, t))
    /\ Patchable(file) /\ n \in NamesIn(file.tubers)
    /\ PatchFile(n, ReplaceTuberNode(file.tubers, n, t))

DeleteTuber(n) ==
    /\ Serving /\ n \in NamesIn(mem)
    /\ Patchable(file) /\ n \in NamesIn(file.tubers)
    /\ PatchFile(n, DeleteTuberNode(file.tubers, n))

\* A move out of the list writes nothing, and reloads all the same.
MoveTuber(n, delta) ==
    /\ Serving /\ n \in NamesIn(mem)
    /\ Patchable(file) /\ n \in NamesIn(file.tubers)
    /\ LET to == IndexOf(file.tubers, n) + delta
       IN  IF to \in DOMAIN file.tubers
           THEN PatchFile(n, MoveTuberNode(file.tubers, n, to))
           ELSE /\ op' = [NoOp EXCEPT !.step = "reload"]
                /\ UNCHANGED <<file, phase, mem, tubers, watch, promised, unsaved>>

WritePatch ==
    /\ op.step = "patch"
    /\ Written(Document(op.doc))
    /\ promised' = [n \in Names |-> IF n = op.name \/ n \notin NamesIn(op.doc) THEN "nothing" ELSE promised[n]]
    /\ op' = [NoOp EXCEPT !.step = "reload"]
    /\ UNCHANGED <<phase, mem, tubers, unsaved>>

ReloadRequest ==
    /\ Serving
    /\ op' = [NoOp EXCEPT !.step = "reload"]
    /\ UNCHANGED <<file, phase, mem, tubers, watch, promised, unsaved>>

ReloadStep ==
    /\ op.step = "reload"
    /\ ApplyReload /\ Answered
    /\ watch' = IF file' = file THEN watch
                ELSE [watch EXCEPT !.stable = FALSE, !.last = FALSE, !.cur = FALSE]
    /\ UNCHANGED <<phase, promised>>

-----------------------------------------------------------------------------
(* The watcher.                                                              *)

Poll_ForgetsLast ==
    /\ phase = "up" /\ watch.pc = "poll"
    /\ file # Missing
    /\ watch' = IF watch.stable THEN [watch EXCEPT !.armed = FALSE, !.last = TRUE]
                ELSE IF watch.armed /\ watch.last THEN [watch EXCEPT !.pc = "reload", !.cur = TRUE]
                ELSE [watch EXCEPT !.armed = TRUE]
    /\ UNCHANGED <<file, phase, mem, tubers, op, promised, unsaved>>

\* One tick. A file that is gone is skipped; a changed one arms the watcher,
\* which reloads once two ticks see the same signature.
Poll ==
    /\ phase = "up" /\ watch.pc = "poll"
    /\ file # Missing
    /\ watch' = IF watch.stable THEN [watch EXCEPT !.armed = FALSE, !.last = TRUE]
                ELSE IF watch.armed /\ watch.last THEN [watch EXCEPT !.pc = "reload", !.cur = TRUE]
                ELSE [watch EXCEPT !.armed = TRUE, !.last = TRUE]
    /\ UNCHANGED <<file, phase, mem, tubers, op, promised, unsaved>>

\* Mutant: the baseline is taken once the reload is done, when the editor may
\* have saved again.
WatchReload_FreshBaseline ==
    /\ phase = "up" /\ watch.pc = "reload" /\ op = NoOp
    /\ Loads(file) /\ mem' = file.tubers /\ tubers' \in Reloaded(file.tubers)
    /\ file' \in Edits \cup {file} /\ watch' = FreshWatch
    /\ promised' = NoPromises /\ unsaved' = {} /\ UNCHANGED <<phase, op>>

\* reloadFromWatch under Server.mu; the baseline is the signature of the poll
\* that decided, not of the file that was loaded.
WatchReload ==
    /\ phase = "up" /\ watch.pc = "reload" /\ op = NoOp
    /\ ApplyReload
    /\ LET still == watch.cur /\ file' = file
       IN  watch' = [pc |-> "poll", armed |-> FALSE, stable |-> still, last |-> still, cur |-> FALSE]
    /\ UNCHANGED <<phase, op, promised>>

-----------------------------------------------------------------------------
(* The process.                                                              *)

\* runDaemon loads the file (a bad one ends the process), and New builds the
\* engine from it.
Boot ==
    /\ phase = "down" /\ (Loads(file) \/ file = Missing)
    /\ phase' = "loaded"
    /\ mem' = IF file = Missing THEN Example ELSE file.tubers
    /\ file' = IF file = Missing THEN Document(Example) ELSE file
    /\ tubers' = [n \in NamesIn(mem') |-> [cfg |-> Named(mem', n), state |-> "Off"]]
    /\ UNCHANGED <<op, watch, promised, unsaved>>

StartEnabled ==
    /\ phase = "loaded"
    /\ phase' = "started"
    /\ tubers' \in Started(tubers, {n \in DOMAIN tubers : Named(mem, n).enabled})
    /\ UNCHANGED <<file, mem, op, watch, promised, unsaved>>

\* The file as it is now is the watcher's baseline; then requests are served.
StartWatcher ==
    /\ phase = "started"
    /\ phase' = "up"
    /\ watch' = FreshWatch
    /\ UNCHANGED <<file, mem, tubers, op, promised, unsaved>>

\* The process is killed, or shuts down. A write may have been cut short.
Dies ==
    /\ phase # "down"
    /\ phase' = "down" /\ mem' = <<>> /\ tubers' = NoTubers /\ op' = NoOp
    /\ watch' = FreshWatch /\ unsaved' = {}
    /\ \/ UNCHANGED <<file, promised>>
       \/ op.step \in {"save", "patch"} /\ file' = Blank /\ promised' = NoPromises

Client ==
    \/ \E n \in Names : \/ EnableUp(n) \/ EnableOff(n) \/ EnableFails(n) \/ Disable(n) \/ Restart(n)
                        \/ DeleteTuber(n)
                        \/ \E delta \in {-1, 1} : MoveTuber(n, delta)
                        \/ \E t \in Requested : UpdateTuber(n, t)
    \/ \E t \in Requested : AddTuber(t)
    \/ ReloadRequest

Handler == Save \/ WritePatch \/ WriteRefused \/ WriteCutShort \/ ReloadStep

Next ==
    \/ Client \/ Handler
    \/ Poll \/ WatchReload
    \/ Boot \/ StartEnabled \/ StartWatcher \/ Dies
    \/ \E f \in Edits : EditorSaves(f)

Spec == Init /\ [][Next]_vars

\* A handler goes on (a tuber it stops does stop: no far host keeps it, Tuber's
\* Unanswered) and the watcher's ticker ticks; Server.mu is given to a
\* goroutine that waits for it (sync.Mutex starves nobody). Nothing makes a
\* client call, an editor save, or the process boot or die.
FairSpec == Spec /\ WF_vars(Handler) /\ WF_vars(Poll) /\ SF_vars(WatchReload)

-----------------------------------------------------------------------------
(* What must hold.                                                           *)

\* The lists agree, but for flags a failed save could not write.
SameBut(S, a, b) ==
    /\ DOMAIN a = DOMAIN b
    /\ \A i \in DOMAIN a : a[i] = b[i] \/ (a[i].name \in S /\ a[i] = [b[i] EXCEPT !.enabled = ~@])

\* While the watcher takes the file for the one it loaded, the configuration in
\* memory is the file's: nothing an editor saved between a stat, a load and a
\* write of the daemon is forgotten.
InSync == (phase = "up" /\ op = NoOp /\ watch.stable /\ Loads(file)) => SameBut(unsaved, mem, file.tubers)

\* The engine holds exactly the configured tubers, on their configured ports,
\* whatever the order in which they came, changed and went.
EngineMatches ==
    /\ DOMAIN tubers = NamesIn(mem)
    /\ \A n \in DOMAIN tubers : tubers[n].cfg.port = Named(mem, n).port

\* An answered enable or disable is on the disk, and stays there over the
\* requests, reloads and deaths of the process that follow, until somebody
\* edits that tuber or a write is cut short: the next daemon brings up the same set (SPEC, key invariant).
PromiseKept ==
    \A n \in Names : promised[n] # "nothing"
        => /\ n \in NamesIn(file.tubers)
           /\ Named(file.tubers, n).enabled = (promised[n] = "enabled")

\* The watcher also reloads what the daemon itself wrote: that disturbs no
\* tuber, and moves no flag.
OwnWritesAreQuiet ==
    [][(WatchReload /\ file.kind = "Document" /\ mem = file.tubers)
          => \A n \in DOMAIN tubers : tubers'[n].state = tubers[n].state]_vars

\* What an editor saved is in memory before long, if it loads and is left in
\* place. (A handler that waits for a far host without end would keep Server.mu,
\* and the watcher, with it.)
EditsApply ==
    \A f \in {e \in Edits : Loads(e)} :
        (phase = "up" /\ file = f) ~> (mem = f.tubers \/ file # f \/ unsaved # {} \/ phase # "up")

=============================================================================

------------------------------- MODULE Screen -------------------------------
(***************************************************************************)
(* The terminal interface (internal/tui model.go, update.go, editor.go,    *)
(* logs.go, help.go) over its controller (internal/controller). Bubble Tea *)
(* calls Update with one message at a time, so every message is one step   *)
(* from a Model m to the next; the engine behind the controller moves on   *)
(* its own between them. m.list is the picture of the engine that the      *)
(* user sees, acts on, and that a prompt was opened from.                  *)
(***************************************************************************)
EXTENDS Naturals, SequencesExt

CONSTANTS
    Names,       \* tuber names
    Queries,     \* filter texts; each is the set of tubers it matches
    None,        \* no name, no filter text, no dismissed prompt
    Prompts,     \* per tuber, what its dial may ask: "host", "passphrase", "password"
    MaxTries,    \* bound: rejections of one prompt
    MaxHandoffs, \* bound: hand-offs that run at once
    MaxBehind    \* bound: moves of the engine by itself before a tick, told, and one untold

ASSUME NamesAssumption == IsFiniteSet(Names)
ASSUME NoneAssumption == None \notin Names /\ None \notin Queries
ASSUME QueriesAssumption == Queries \subseteq SUBSET Names
ASSUME PromptsAssumption == Prompts \in [Names -> SUBSET {"host", "passphrase", "password"}]
ASSUME BoundsAssumption == MaxTries \in Nat /\ MaxHandoffs \in Nat /\ MaxBehind \in Nat \ {0}

VARIABLES
    attach,      \* the controller is a daemon's (other clients use it too)
    engine,      \* the tubers in config order: state and rejections
    behind,      \* changes whose tick is not handled yet
    lost,        \* history: a change since the last tick gives none (module ChangeStream)
    m,           \* the Model
    handoffs     \* hand-off commands that are running

svars == <<attach, engine, behind, lost, m, handoffs>>

Secrets == {"passphrase", "password"}
Asking == {"host"} \cup Secrets
States == {"off", "live"} \cup Asking    \* "live": connecting, connected, retrying, error

\* In the order in which handleKeyPress and handleKey look for a taker.
Takers == <<"editor", "logs", "help", "delete", "accept", "passphrase",
            "password", "filter", "quit">>
Targeted == {"delete", "accept"} \cup Secrets

Tubers == [name : Names, st : States, tries : 0..MaxTries]
Lists == {s \in Seq(Tubers) : \A i, j \in DOMAIN s : s[i].name = s[j].name => i = j}
Keys == {None} \cup (Asking \X Names)

Models ==
    [list : Lists, cursor : Nat \ {0}, query : Queries \cup {None},
     open : SUBSET Range(Takers), target : [Targeted -> Names \cup {None}],
     base : [Secrets -> 0..MaxTries \cup {None}], dismissed : Keys,
     original : Names \cup {None}, handoffing : BOOLEAN, quit : BOOLEAN]

TypeOK ==
    /\ attach \in BOOLEAN /\ behind \in 0..MaxBehind /\ lost \in BOOLEAN /\ handoffs \in 0..MaxHandoffs
    /\ engine \in Lists /\ m \in Models

-----------------------------------------------------------------------------
(* What the controller's calls do to the engine and to the config.           *)

Has(s, n) == \E i \in DOMAIN s : s[i].name = n
Row(s, n) == CHOOSE i \in DOMAIN s : s[i].name = n
Asks(s, n, what) == \E i \in DOMAIN s : s[i].name = n /\ s[i].st = what
With(e, n, st) == [i \in DOMAIN e |-> IF e[i].name = n THEN [e[i] EXCEPT !.st = st, !.tries = 0] ELSE e[i]]

\* Enable leaves a tuber that runs alone; both also persist the flag.
Enabled(e, S) == [i \in DOMAIN e |-> IF e[i].name \in S /\ e[i].st = "off" THEN [e[i] EXCEPT !.st = "live"] ELSE e[i]]
Disabled(e, S) == [i \in DOMAIN e |-> IF e[i].name \in S THEN [e[i] EXCEPT !.st = "off", !.tries = 0] ELSE e[i]]
Restarted(e, n) == With(e, n, "live")

\* AcceptHost writes the pending line and restarts; without one it fails.
AcceptedHost(e, n) == IF Asks(e, n, "host") THEN Restarted(e, n) ELSE e

\* A tuber that is new to Reload starts if the file has it enabled.
New(n, on) == [name |-> n, st |-> IF on THEN "live" ELSE "off", tries |-> 0]

Added(e, n, on) == IF Has(e, n) THEN e ELSE Append(e, New(n, on))
Deleted(e, n) == IF Has(e, n) THEN RemoveAt(e, Row(e, n)) ELSE e

\* UpdateTuber: a rename is another tuber for Reload, in the same place; a
\* tuber that keeps its name is restarted if it runs (Reconfigure).
Updated(e, old, new, on) ==
    IF ~Has(e, old) \/ (new # old /\ Has(e, new)) THEN e
    ELSE [i \in DOMAIN e |->
            IF e[i].name # old THEN e[i]
            ELSE IF new # old THEN New(new, on)
            ELSE [e[i] EXCEPT !.st = IF @ = "off" THEN @ ELSE "live", !.tries = 0]]

Moved(e, n, up) ==
    LET i == Row(e, n)  j == IF up THEN i - 1 ELSE i + 1 IN
    IF ~Has(e, n) \/ j \notin DOMAIN e THEN e
    ELSE [k \in DOMAIN e |-> IF k = i THEN e[j] ELSE IF k = j THEN e[i] ELSE e[k]]

\* What an edit of the config file, or another client, may have done.
Edits(e) == {Added(e, n, on) : n \in Names, on \in BOOLEAN} \cup {Deleted(e, n) : n \in Names}
Toggles(e) == {Enabled(e, {n}) : n \in Names} \cup {Disabled(e, {n}) : n \in Names}

-----------------------------------------------------------------------------
(* The Model's own helpers.                                                  *)

Matches(mm, n) == IF mm.query = None THEN TRUE ELSE n \in mm.query

Current(mm) == mm.list[mm.cursor]
\* Mutant: a hidden row is current.
HasCurrent_Hidden(mm) == mm.cursor \in DOMAIN mm.list
HasCurrent(mm) == mm.cursor \in DOMAIN mm.list /\ Matches(mm, Current(mm).name)

Visible(mm) == {i \in DOMAIN mm.list : Matches(mm, mm.list[i].name)}

\* Mutant: an empty list leaves the cursor before the first row.
Clamp_NoFloor(mm) ==
    LET c == Min({mm.cursor, Len(mm.list)})
        after == {i \in Visible(mm) : i >= c}
    IN [mm EXCEPT !.cursor = IF after # {} THEN Min(after)
                             ELSE IF Visible(mm) # {} THEN Max(Visible(mm)) ELSE c]

\* clampCursor: the next visible row, else the last one before.
Clamp(mm) ==
    LET c == Max({1, Min({mm.cursor, Len(mm.list)})})
        after == {i \in Visible(mm) : i >= c}
    IN [mm EXCEPT !.cursor = IF after # {} THEN Min(after)
                             ELSE IF Visible(mm) # {} THEN Max(Visible(mm)) ELSE c]

\* m.list = ctrl.List()
Refresh(mm, e) == [mm EXCEPT !.list = e]

\* pendingKeyForName: what the picture says a tuber is asking for.
PendingKey(mm, n) ==
    IF \E what \in Asking : Asks(mm.list, n, what)
    THEN <<CHOOSE what \in Asking : Asks(mm.list, n, what), n>> ELSE None

Tries(mm, n) == IF Has(mm.list, n) THEN mm.list[Row(mm.list, n)].tries ELSE 0

Open(mm, what) == [mm EXCEPT !.open = @ \cup {what}]
OpenOn(mm, what, n) == [Open(mm, what) EXCEPT !.target[what] = n]
Shut(mm, what) == [mm EXCEPT !.open = @ \ {what}]
ShutOn(mm, what) ==
    [Shut(mm, what) EXCEPT !.target[what] = None]

ShutSecret(mm, what) == [ShutOn(mm, what) EXCEPT !.base[what] = None]

\* The screen or prompt that takes the next key; "list" if none is open.
Taker ==
    LET open == {i \in DOMAIN Takers : Takers[i] \in m.open} IN
    IF open = {} THEN "list" ELSE Takers[Min(open)]

\* Mutant: the help, the log and the filter do not keep a prompt away.
IsBusy_NotScreens(mm) == mm.open \ {"help", "logs", "filter"} # {} \/ mm.handoffing
IsBusy(mm) == mm.open # {} \/ mm.handoffing

AutoOpenIfPending(mm) ==
    IF IsBusy(mm) \/ ~HasCurrent(mm) THEN mm
    ELSE LET n == Current(mm).name  key == PendingKey(mm, n) IN
         IF key = None \/ key = mm.dismissed THEN mm
         ELSE OpenOn(mm, IF key[1] = "host" THEN "accept" ELSE key[1], n)

\* Mutant: a tick closes no prompt.
Settle_Never(mm, what) == mm

\* A prompt whose tuber stopped asking closes; a rejection since the submit
\* gives the input back.
Settle(mm, what) ==
    IF what \notin mm.open THEN mm
    ELSE IF ~Asks(mm.list, mm.target[what], what) THEN ShutSecret(mm, what)
    ELSE IF mm.base[what] # None /\ Tries(mm, mm.target[what]) > mm.base[what]
         THEN [mm EXCEPT !.base[what] = None]
    ELSE mm

Forget(mm) ==
    IF HasCurrent(mm) /\ PendingKey(mm, Current(mm).name) = None
    THEN [mm EXCEPT !.dismissed = None] ELSE mm

\* Mutant: a tuber that asks is not live.
HasLiveTubers_NotAsking(mm) == \E i \in DOMAIN mm.list : mm.list[i].st = "live"
HasLiveTubers(mm) == \E i \in DOMAIN mm.list : mm.list[i].st # "off"

\* What q, and ctrl+c in the filter, do.
AskQuit(mm) ==
    IF attach \/ ~HasLiveTubers(mm) THEN [mm EXCEPT !.quit = TRUE] ELSE Open(mm, "quit")

-----------------------------------------------------------------------------
(* Messages. Next(mm, e): the step's Model and engine. A call of the          *)
(* controller may also fail; it then changes nothing, and the key goes on.   *)

\* Attached, a change may give no tick: it falls in the gap between a stream's
\* first frame and its subscription (server.go:464), or the stream is refused.
Untold == attach /\ lost' = TRUE /\ UNCHANGED behind

Becomes(mm, e) ==
    /\ m' = mm /\ engine' = e
    /\ \/ behind' = (IF behind = 0 /\ e # engine THEN 1 ELSE behind) /\ UNCHANGED lost
       \/ e # engine /\ Untold
    /\ UNCHANGED <<attach, handoffs>>

OnList == ~m.quit /\ Taker = "list"
On(what) == ~m.quit /\ Taker = what

\* handleTick; during a hand-off it does nothing, not even wait again. A stream
\* that is opened anew greets with a tick, whatever was lost before.
HandleTick ==
    /\ behind > 0 \/ lost
    /\ ~m.quit
    /\ behind' = 0 /\ lost' = FALSE
    /\ m' = IF m.handoffing THEN m
            ELSE Forget(Settle(Settle(AutoOpenIfPending(Clamp(Refresh(m, engine))),
                                      "passphrase"), "password"))
    /\ UNCHANGED <<attach, engine, handoffs>>

HandleHandoffDone ==
    /\ handoffs > 0 /\ ~m.quit
    /\ handoffs' = handoffs - 1
    /\ m' = [m EXCEPT !.handoffing = FALSE, !.quit = TRUE]
    /\ UNCHANGED <<attach, engine, behind, lost>>

\* q and ctrl+c: ignored during a hand-off.
QuitKey == OnList /\ ~m.handoffing /\ Becomes(AskQuit(m), engine)

\* esc and ?: an applied filter takes the esc before.
HelpKey == OnList /\ Becomes(Open(m, "help"), engine)
ClearFilterKey == OnList /\ m.query # None /\ Becomes(Clamp([m EXCEPT !.query = None]), engine)

NavKey(up) ==
    LET there == {i \in Visible(m) : IF up THEN i < m.cursor ELSE i > m.cursor} IN
    /\ OnList /\ there # {}
    /\ Becomes([m EXCEPT !.cursor = IF up THEN Max(there) ELSE Min(there)], engine)

ReorderKey(up) ==
    /\ OnList /\ m.query = None /\ HasCurrent(m)
    /\ LET n == Current(m).name  e == Moved(engine, n, up)  mm == Refresh(m, e) IN
       /\ Has(engine, n)
       /\ Becomes([mm EXCEPT !.cursor = Row(mm.list, n)], e)

\* space: the host prompt if the row shows one, else a toggle of what it shows.
SpaceKey ==
    /\ OnList /\ HasCurrent(m)
    /\ LET n == Current(m).name IN
       IF Current(m).st = "host" THEN Becomes(OpenOn(m, "accept", n), engine)
       ELSE \E e \in {engine, IF Current(m).st = "off" THEN Enabled(engine, {n}) ELSE Disabled(engine, {n})} :
                Becomes(Refresh(m, e), e)

\* p and o.
SecretKey(what) ==
    /\ OnList /\ HasCurrent(m) /\ Current(m).st = what
    /\ Becomes(OpenOn(m, what, Current(m).name), engine)

RestartKey ==
    /\ OnList /\ HasCurrent(m)
    /\ \E e \in {engine, Restarted(engine, Current(m).name)} : Becomes(Refresh(m, e), e)

\* a and x go through the engine's list, not through the picture; each of
\* the calls may fail on its own.
Shown(off) == {engine[i].name : i \in {j \in DOMAIN engine : (engine[j].st = "off") = off /\ Matches(m, engine[j].name)}}
EnableAll == OnList /\ \E S \in SUBSET Shown(TRUE) : LET e == Enabled(engine, S) IN Becomes(Refresh(m, e), e)
DisableAll == OnList /\ \E S \in SUBSET Shown(FALSE) : LET e == Disabled(engine, S) IN Becomes(Refresh(m, e), e)

\* R: the file may have been edited.
ReloadKey == OnList /\ \E e \in Edits(engine) \cup {engine} : Becomes(Clamp(Refresh(m, e)), e)

SlashKey == OnList /\ Becomes(Open(m, "filter"), engine)

\* e reads the config, which may have lost the tuber the row shows.
EditKey ==
    /\ OnList /\ HasCurrent(m)
    /\ LET n == Current(m).name IN
       Becomes([Open(m, "editor") EXCEPT !.original = IF Has(engine, n) THEN n ELSE None], engine)

\* n, and C, which prefills the form of a new tuber.
NewKey == OnList /\ Becomes(Open(m, "editor"), engine)

LogsKey == OnList /\ HasCurrent(m) /\ Becomes(Open(m, "logs"), engine)
DeleteKey == OnList /\ HasCurrent(m) /\ Becomes(OpenOn(m, "delete", Current(m).name), engine)

-----------------------------------------------------------------------------

EditorCloses == [Shut(m, "editor") EXCEPT !.original = None]

\* ctrl+s. The editor stays when the form or the controller refuses; a new
\* tuber is off, an edited one keeps the flag it was opened with.
EditorSaves ==
    /\ On("editor")
    /\ \E n \in Names, on \in BOOLEAN :
         LET old == m.original IN
         IF old = None THEN ~on /\ ~Has(engine, n) /\ Becomes(EditorCloses, Added(engine, n, on))
         ELSE /\ Has(engine, old) /\ (n = old \/ ~Has(engine, n))
              /\ Becomes(EditorCloses, Updated(engine, old, n, on))

EditorEsc == On("editor") /\ Becomes(EditorCloses, engine)

LogsClose == On("logs") /\ Becomes(Shut(m, "logs"), engine)
HelpClose == On("help") /\ Becomes(Shut(m, "help"), engine)

DeleteConfirm(yes) ==
    /\ On("delete")
    /\ IF yes THEN \E e \in {engine, Deleted(engine, m.target["delete"])} :
                       Becomes(Clamp(Refresh(ShutOn(m, "delete"), e)), e)
       ELSE Becomes(ShutOn(m, "delete"), engine)

\* The cursor is not clamped after an accepted host.
AcceptConfirm(yes) ==
    /\ On("accept")
    /\ LET n == m.target["accept"] IN
       IF yes THEN \E e \in {engine, AcceptedHost(engine, n)} : Becomes(Refresh(ShutOn(m, "accept"), e), e)
       ELSE Becomes([ShutOn(m, "accept") EXCEPT !.dismissed = PendingKey(m, n)], engine)

\* handlePassphraseKey and handlePasswordKey. Enter hands the secret to the
\* store, which wakes the dial; the baseline is read from the old picture.
SecretSubmit(what) ==
    /\ On(what) /\ m.base[what] = None
    /\ Becomes(Refresh([m EXCEPT !.base[what] = Tries(m, m.target[what])], engine), engine)

SecretEsc(what) ==
    /\ On(what)
    /\ Becomes([ShutSecret(m, what) EXCEPT !.dismissed = PendingKey(m, m.target[what])], engine)

HandlePassphraseKey == SecretSubmit("passphrase") \/ SecretEsc("passphrase")
HandlePasswordKey == SecretSubmit("password") \/ SecretEsc("password")

\* A key or a paste that edits the text, esc, enter, ctrl+c.
HandleFilterKey ==
    /\ On("filter")
    /\ \/ \E q \in Queries \cup {None} : Becomes(Clamp([m EXCEPT !.query = q]), engine)
       \/ Becomes(Clamp([Shut(m, "filter") EXCEPT !.query = None]), engine)
       \/ Becomes(Clamp(Shut(m, "filter")), engine)
       \/ Becomes(IF AskQuit(m).quit THEN AskQuit(m) ELSE Shut(AskQuit(m), "filter"), engine)

\* "Leave running in background?"
ConfirmNo == On("quit") /\ Becomes([Shut(m, "quit") EXCEPT !.quit = TRUE], engine)
ConfirmEsc == On("quit") /\ Becomes(Shut(m, "quit"), engine)
ConfirmYes ==
    /\ On("quit") /\ handoffs < MaxHandoffs
    /\ m' = [Shut(m, "quit") EXCEPT !.handoffing = TRUE] /\ handoffs' = handoffs + 1
    /\ UNCHANGED <<attach, engine, behind, lost>>

-----------------------------------------------------------------------------
(* The engine moves by itself, and, behind a daemon, by other clients.       *)

Moves(e) ==
    /\ ~m.quit /\ e # engine
    /\ behind < MaxBehind
    /\ \/ behind' = behind + 1 /\ UNCHANGED lost
       \/ ~lost /\ Untold
    /\ engine' = e
    /\ UNCHANGED <<attach, m, handoffs>>

Dial(t) ==
    \/ t.st = "live" /\ \E what \in Prompts[t.name] : Moves(With(engine, t.name, what))
    \/ t.st \in Asking /\ Moves(With(engine, t.name, "live"))
    \/ t.st \in Secrets /\ t.tries < MaxTries
       /\ Moves([engine EXCEPT ![Row(engine, t.name)].tries = @ + 1])

OtherClient == attach /\ \E e \in Edits(engine) \cup Toggles(engine) : Moves(e)

Blank(list) ==
    [list |-> list, cursor |-> 1, query |-> None, open |-> {}, target |-> [t \in Targeted |-> None],
     base |-> [s \in Secrets |-> None], dismissed |-> None, original |-> None,
     handoffing |-> FALSE, quit |-> FALSE]

\* Both modes start the enabled tubers before the interface opens.
Init ==
    /\ attach \in BOOLEAN /\ behind = 0 /\ lost = FALSE /\ handoffs = 0
    /\ \E order \in SetToSeqs(Names), up \in SUBSET Names :
         engine = [i \in DOMAIN order |-> New(order[i], order[i] \in up)]
    /\ m = Blank(engine)

ListKey ==
    \/ QuitKey \/ HelpKey \/ ClearFilterKey \/ SlashKey \/ NewKey \/ EditKey
    \/ \E up \in BOOLEAN : NavKey(up) \/ ReorderKey(up)
    \/ SpaceKey \/ RestartKey \/ EnableAll \/ DisableAll
    \/ \E what \in Secrets : SecretKey(what)
    \/ LogsKey \/ DeleteKey

ModalKey ==
    \/ EditorSaves \/ EditorEsc \/ LogsClose \/ HelpClose
    \/ \E yes \in BOOLEAN : DeleteConfirm(yes) \/ AcceptConfirm(yes)
    \/ HandlePassphraseKey \/ HandlePasswordKey \/ HandleFilterKey
    \/ ConfirmYes \/ ConfirmNo \/ ConfirmEsc

Next ==
    \/ HandleTick \/ HandleHandoffDone \/ ListKey \/ ReloadKey \/ ModalKey
    \/ \E i \in DOMAIN engine : Dial(engine[i])
    \/ OtherClient

Spec == Init /\ [][Next]_svars

-----------------------------------------------------------------------------

\* A message opens at most one screen or prompt, and none opens over another:
\* a tick never puts a prompt in the way of what the user is doing (isBusy).
OneThingAtATime == Cardinality(m.open) <= 1

\* A passphrase or password prompt that is open although its tuber asks for
\* nothing has a tick on its way that closes it: the user does not type a secret
\* for good into a prompt nobody reads (handleTick). The exception is an attached
\* interface that was not told of a change (Untold): its prompt stays until the
\* next tick, if there is one. During a hand-off a tick closes nothing.
PromptIsWanted ==
    \A what \in Secrets :
        what \in m.open /\ ~m.handoffing /\ ~m.quit
            => behind > 0 \/ (attach /\ lost) \/ Asks(engine, m.target[what], what)

\* No key of the list view starts, stops, restarts or moves a tuber that the
\* filter hides, whatever the picture has missed (matches, hasCurrent).
HiddenUntouched ==
    [][ListKey => \A i \in DOMAIN engine :
            ~Matches(m, engine[i].name) => i \in DOMAIN engine' /\ engine'[i] = engine[i]]_svars

\* A standalone interface that quits without having asked, and without a
\* hand-off, leaves no tuber behind that runs, retries or asks, unless the
\* tick that tells of it is still on its way (hasLiveTubers).
NoSilentQuit ==
    [][~attach /\ m'.quit /\ ~m.quit /\ "quit" \notin m.open /\ handoffs = 0 /\ behind = 0
            => \A i \in DOMAIN engine : engine[i].st = "off"]_svars
=============================================================================

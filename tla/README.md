# A verification of Portato in TLA+

Portato keeps SSH forwards ("tubers": `ssh -L`, `-R`, `-D`) up. It runs either
standalone, inside its terminal interface, or as one daemon per user that the command
line and the interface talk to over a unix socket; a standalone can hand its live
listeners to a daemon it spawns. This directory holds TLA+ modules translated from the
Go source, the TLC configurations that check them, and theorems that TLAPS checks. All
paths below are relative to the repository; `internal/` is left out where no confusion
is possible.

| Module | What it is | Proofs |
| --- | --- | --- |
| `Tuber` | One forward: its callers against its run loops. | `TuberProofs` |
| `Tunnel` | What a tuber promises: on, stopping, off. `Tuber` implements it. | |
| `SecretStore` | One key of the passphrase and password store: dials, handlers, keyring. | `SecretStoreProofs` |
| `DialChain` | A ProxyJump chain: hops, handshakes, timers, host keys, passwords. | `DialChainProofs` |
| `ConfigFile` | The configuration file: what loads, and the edits of `patch.go`. | in `DaemonProofs` |
| `Daemon` | Handlers, engine, file, watcher, an editor, boot and death (extends `ConfigFile`). | `DaemonProofs` |
| `ChangeStream` | How a change reaches the screen: engine, event stream, client, interface. | in `ScreenProofs` |
| `Discovery` | Lock, marker, socket, token; `portato stop`. | in `HandoffProofs` |
| `Handoff` | A standalone hands its ports to a daemon (extends and implements `Discovery`). | `HandoffProofs` |
| `Screen` | The terminal interface as a state machine over its controller. | `ScreenProofs` |
| `SshConfig` | The lenient reading of `ssh_config`, beside OpenSSH's. | in `SshImportProofs` |
| `SshImport` | Plan, question, writes and markers of an import (extends `SshConfig`). | `SshImportProofs` |
| `UpdateCheck` | Consent, the daily check, and the record two processes write. | `UpdateProofs` |
| `SelfUpdate` | `portato update apply`: download, verify, swap, roll back. | `UpdateProofs` |

Each `MC…` module is the TLC instance of the module it is named after. Modules that
share a proof module name their parts differently (`DInit`, `CNext`, `ASpec`, …), so
that one module can extend both.

## 1. Inventory

**Tuber** (`forward/tuber.go`, `state.go`). *State*, under `t.mu`: configuration,
listener, SSH client, `running`, the displayed state and error, three prompts with their
attempt counters, the cancel function and `done` channel of the run loop. *Operations*:
`Start`, `StartWith`, `Stop`, `Restart`, `Reconfigure`, and the goroutines `run` and
`runRemote`. *Hard*: `t.mu` is released between the steps of a tear-down and around
every dial; `Stop` cancels a loop that may be anywhere and waits for it; the loop writes
state after `Stop` did. *Correct when* nothing leaks, `Stop` returns and leaves nothing
behind, an edit takes effect, what is shown is true, the loop never gives up.

**Secrets** (`forward/passphrase.go`, `password.go`, `secret/`). *State*: a cache and a
list of waiting channels per key under `Store.mu`; the keyring, outside it. *Hard*:
re-check and registration in `Wait` are two critical sections; several tubers share a
key; a rejected secret is deleted without comparing. *Correct when* a submission reaches
whoever waits, a rejection is followed by a prompt, no waiter leaks.

**SSH dial** (`forward/ssh.go`, `knownhosts.go`, `probe.go`). *State*: the hops dialed
so far, one goroutine and one timer per handshake, a goroutine that keeps the hops of a
client up. *Hard*: a hop fails half-way, a late result, a Stop at any time, keys
accepted meanwhile. *Correct when* a failed dial leaves nothing, a chain in use stands,
the password is shown to its owner alone.

**Engine, daemon, file, watcher** (`forward/engine.go`, `daemon/server.go`,
`watcher.go`, `config/`). *State*: the engine's tubers and its copy of their
configurations; the server's configuration, aliased by the engine's; the file; the
watcher's baseline, last signature, deadline. *Hard*: engine, memory and file change one
after the other and each step can fail; an editor does not take `Server.mu`; the file is
written in place; the watcher sees the daemon's own writes. *Correct when* an edit left
in place is applied, an answered enable or disable survives, the engine runs what the
configuration says, own writes disturb nothing.

**Event stream, client, controllers** (`handleEvents`, `client/`, `controller/`,
`tui/`). *State*: a bounded subscriber channel, a connection, a one-place signal, the
list on the screen. *Hard*: all three drop what does not fit; streams break; daemons
restart. *Correct when* the screen is stale only while somebody is about to tell it.

**Discovery** (`daemon/lock_unix.go`, `discovery.go`, `cmd/stop.go`). *State*: a flock;
a marker, a socket file and a token that outlive their daemon. *Hard*: crashes, reused
pids, clients that sweep, two starts at once. *Correct when* the files lead to the
daemon that serves, `stop` signals portato only, and what was signalled ends.

**Hand-off** (`tui/handoff.go`, `fdpass/`, `cmd/daemon.go`). *State*: descriptors in two
processes and in a message, a transfer socket, a deadline. *Hard*: either process may
die or give up, another daemon may win the lock, the file may have been edited. *Correct
when* a port that was passed stays taken until its tuber is up, nothing is kept in vain,
the standalone gets away.

**Interface** (`tui/update.go`, `model.go`, `editor.go`). *State*: one `Model`: list,
cursor, filter, open screens and prompts. *Hard*: prompts open by themselves on a tick;
the list is a picture that ages; the engine moves between keys. *Correct when* one thing
is open at a time, prompts are wanted, keys act on what is visible, quitting loses
nothing silently.

**Import** (`importer/`, `config/sshmatch.go`, `cmd/import.go`, `nudge.go`). *State*:
two markers, the file, a plan in memory per command. *Hard*: writes one by one, kills,
other writers, two launches that ask at one time, markers that cannot be written, a
first-run offer to be made once. *Correct when* nothing is imported twice, and a forward
means for portato what it means for OpenSSH.

**Updates** (`update/`, `daemon/updatecheck.go`, `cmd/update.go`, `consent.go`).
*State*: a consent in the configuration, a cached record and its temporary file; the
binary and its backup. *Hard*: two processes write one temporary file; two renames that
can fail or be cut. *Correct when* no request without consent, none too many, and there
is always a binary.

**How they interact.** The interface and the handlers call the engine, the engine calls
tubers. A tuber's loop dials and blocks in the secret store; handlers write that store.
Tubers notify the engine, which signals subscribers. Handlers and the watcher's reload
exclude each other by `Server.mu`; the standalone's interface calls from one goroutine.
That is why the runs of `Tuber` have one caller at a time; that nothing leaks with any
number of callers is proved.

## 2. Modules and code

`PROJECT.json` maps every definition to the lines it translates. The main choices:

**`Tuber`.** Every critical section is an action, and so is every step between two
(`cancel`, `Close`, `<-done`, a dial, a sleep). Callers have a program counter and, in
`held`, the locals `Stop` took out of the tuber. Run loops are `Run*`, `Secret*`,
`Dial*`. Resources are named by the loop they were made for: `open` (listeners),
`clients`, `Live` (loops). The identity of a loop that returned and that nobody refers
to is used again, so the number of starts is unbounded. History: `unseen` (a change
after the last notification), `rejects`, and `stray` (a passphrase prompt whose wait was
given up under a live context: nobody takes it down, section 6). The dial of a later hop
is a step of its own (`Hop`): there, and where it opens or closes the listener of a
remote tuber, a loop waits for a far host and for nothing else (`Unanswered`). Left out:
the copy of bytes, `connectedAt`, the length of the backoff.

**`Tunnel`** has four variables: phase, addresses taken, connected, and whether a far
host owes it an answer. `Tuber!T` maps `running` and a tear-down in progress to the
phase. A connection may come up late, while stopping, but nothing may be left when the
tunnel is off, and stopping ends unless a far host owes an answer for ever.

**`SecretStore`.** One key, since keys are independent. Each read or write of the cache
and of the keyring is a step. One handler at a time (`Server.mu`) sets or forgets;
`CliWritesKeyring` is another process.

**`DialChain`.** `link[d][h]` is hop h of call d; `Fall` takes a connection and all
inside it down. `worker` is the handshake goroutine or the result it has sent; `Leash`
is the goroutine that closes the hops before a client that ended. `trusted` is
`known_hosts` as one call loaded it, `known` the file by now. `AcceptHost` is the append
only; the restart after it is a new dial.

**`ConfigFile`, `Daemon`.** A file is a list of tubers, blank, unparsable or missing; a
tuber is name, port (for every connection field) and flag. One action per handler and
per step between two effects: engine and memory (`EnableUp`, `Disable`, …), then the
file (`Save`, `WriteRefused`, `WriteCutShort`); a patch is computed from the file that
was read, written, and loaded. `Poll` and `WatchReload` are the watcher's loop. Tubers
are Off, Up or Error. The watcher's signatures are kept as the answer to the only
question asked of them: is it still the file's? Two writes never share size and
modification time.

**`ChangeStream`.** Signals carry nothing, so a channel is the number of signals in it.
`status` is what the engine would list, `picture` what the screen shows. A daemon that
restarts may have a new token (`admitted`), and refuses from then on. A list request may
time out (`TimesOut`). The two ways to lose a change that leave no trace in the state
are remembered: `missed` (it fell where nobody was subscribed), `late` (the last list
request to end timed out).

**`Discovery`.** One action per system call on the lock and on each file, for the daemon
and for `ResolveSocket`. A process is its pid, and is reused only when nothing names it
any more, except by `TakePid`, which gives a dead daemon's pid to another program. `hit`
remembers who lost a file to a sweep. A daemon is told to end by `portato stop` or from
outside (`Interrupted`: Ctrl-C, the service manager).

**`Handoff`** adds who holds a descriptor of each port: the standalone's tubers, the
duplicates it made, the message, a daemon. A port is free when nobody does. A listener
whose tuber has become remote in the file has no user and is closed by nobody but the
garbage collector (`Garbage`, `Collect`). `Fits` counts as the receiver's buffer does:
in bytes. Every action that moves a process does so by an action of `Discovery`.

**`Screen`.** One action per message of Bubble Tea: each key in each context, the tick,
the end of a hand-off. `Takers` is the order in which `handleKeyPress` asks who is open.
The engine moves by itself between ticks. Behind a daemon a change may give no tick
(`Untold`; module `ChangeStream` says when), and `lost` remembers it until the next.

**`SshConfig`, `SshImport`.** A text is a sequence of headers, `Include`, `HostName` and
forwards. `LenientSSHConfig` and `Scan` are portato's reading, `OpenSSH*` the reference:
`FilterLine` and `ReadLine` are one turn of each of the two loops. A forward's address
is bare, with a loopback host, a wildcard, or with an empty host and a colon. A command
(`portato import`, a launch that makes the first-run offer, a daemon) plans
(`AddUnlessCovered` for each candidate), asks, writes its marker, validates, and appends
tuber by tuber; each of these is a step, and nothing locks the commands out of one
another. Writing a marker (`TouchMarker`) may fail unnoticed, or the process may be
killed before it. A file with a name twice does not load (`Loads`). A tuber's name is
its alias, its forward's type and a number. History: `stale` (the file was added to
since a command planned), `raced`, `answers`, `overlapped`, `nothing`, `lost`.

**`UpdateCheck`.** `file[c]` is the file a writer has open, which a rename by the other
turns from the temporary file into the cache. A save is over before the next tick.

**`SelfUpdate`.** A binary is its version. One `apply` at a time; `portato.old` is one
level of rollback. A failing swap may fail to restore the executable too (`unrestored`).
The temporary directory is never removed by the code and plays no part.

## 3. Runs

| Run | Instance | States | Shows |
| --- | --- | --- | --- |
| `tuber` | 1 caller, 2 loops, 2 ports, local and remote, both secrets, 1 rejection, adoption | 601,000 | Nothing leaks; the status is honest; edits take effect; `Stop` is complete, and ends unless a far host never answers; it dials again; it is a `Tunnel`, liveness included. |
| `tuber_stop_off` | 1 caller, 2 loops, 1 port | | *Refuted*: a stopped tuber is Off. |
| `secret` | 2 dials, 2 secrets, 2 user actions, forgetting, failing keyring | 374,000 | Waiters are exact; a submission wakes all; a rejection prompts again. |
| `daemon` | 2 tubers, 2 ports, an edit, garbage, a missing file | 695,000 | Memory follows the file, the engine follows memory, promises are kept, own writes are quiet, edits apply. |
| `change_stream` | 2 lists, channels of 2 | 96,000 | A stale picture is about to be told, but for three ways to lose a change; it catches up. |
| `discovery` | 2 daemons, 2 clients, pid reuse | 469,000 | Files are the owner's; no stranger is signalled; what is signalled ends. |
| `handoff` | 2 daemons, 2 ports, a buffer for one descriptor | 496,000 | Passed ports stay up; nothing is held in vain; the standalone gets away; what is signalled during a hand-off ends. |
| `screen` | 2 tubers, 3 kinds of prompt, 1 filter | 839,000 | One thing at a time; prompts are wanted; hidden rows are untouched; no silent quit. |
| `dial` | 2 hops, 2 calls, every kind of server | 583,000 | Nothing left behind; chains stand; the password stays with the target; a stop closes all, unless a jump host never answers. |
| `self_update` | 3 releases | 6,000 | Always a binary; a true outcome. |
| `update_check` | TTL 2, clock 3, 2 commands | 177,000 | Silent without consent; a loss costs one poll. |
| `ssh_import` | 2 commands at a time, 2 aliases, 1 machine, 4 forwards, 21 texts | 1,988,000 | Nothing twice; means the same; offered once. |

Bounds, and why they are enough. *Loops*: the next loop starts after the last returned,
so two identities show an overlap if there is one. *Ports*: two, so that an edit changes
the address, and so that a hand-off passes some and not others. *Tubers*: a list of two
can hold a duplicate, be reordered, and conflict on a port. *Dials of a key*: two, so
that one deletes what the other submitted. *Daemons and clients*: a daemon and its
successor; a client that sweeps what another has just resolved. *Channels*: two places
make a full one and a burst. *Hops*: one jump host and a target, the first case with a
hop to close; *calls*: two, so that a chain is still coming down while the next is
dialed. *Releases*: two updates, a rollback, and an update over it. *TTL*: two ticks, so
that a tick falls inside it. *Commands*: two, so that one asks or writes while the other
does (they are symmetric); *texts*: a header, `Include` or host name before a forward,
once and twice, and two blocks for one machine. `MaxBehind` is 1: a change behind the
last tick, and one that gives none. `MaxFDs` is 4: one descriptor fits, two do not. The
files `handoff` considers have at least one local tuber: a file without one takes no
port. `MaxHandoffs` is 2 because the code can start a second one (section 6).
`BootEdits` is FALSE: an edit between `config.Load` and the watcher's start is never
applied, because the baseline is taken at the start (`watcher.go:61`); TRUE refutes
`InSync` and `EditsApply`.

Deadlock is checked except in `dial`, `screen` and `ssh_import`, where the bounds, or
the program's own end (`quit`), stop the system.

## 4. Fairness

Weak fairness for goroutines that can run, calls in progress, sleeps, requests and
keyring calls that return. Strong fairness where a lock or an event loop is shared: the
watcher gets `Server.mu` however many requests compete (a `sync.Mutex` hands itself to a
goroutine that waited long enough), a queued tick is handled however many keys are
pressed, and the standalone's poll meets its answer or its deadline. Users, servers,
jump hosts, editors, other programs and the owner of a process owe nothing: no
submission, no accepted key, no edit, no crash is fair, so liveness holds in spite of
them.

Far hosts owe nothing. A handshake need not be answered (its timer fires), but three
waits of the code have neither a time-out nor a look at the context: the dial of a later
hop through the one before (`ssh.go:185`), and the opening and closing of a remote
tuber's listener (`tuber.go:700`, `771`). No fairness is assumed there; instead
`ImplementsTunnel` and `StopClosesAll` say that a stop ends unless such a wait lasts for
ever (`Tunnel`'s `owed`, `AtJumpHost`); the plain statement that a stop ends is false of
the code (section 6, item 19). `Daemon`, `Discovery` and `Handoff` take `StopAll` as one
step that ends, so `EditsApply`, `SignalledEnds` and `HandoffEnds` assume that no tuber
is in such a wait. Services of the same machine (keyring, ssh-agent) are assumed to
answer or fail. In `UpdateCheck` no property needs fairness; the clock does not move
during a save, which takes milliseconds in a tick of an hour.

## 5. Proofs

TLAPS proves these for every value of the constants, from the modules' own named
assumptions, which TLC evaluates in every run: a value that stands for "none" is not a
member of the set it is added to, bounds are naturals, configurations, texts and
forwards are well typed, an interface has finitely many tubers (`NamesAssumption`). Two
hypotheses are not about constants alone and stand in the theorems: `OneCaller` (section
1) and `WellIncluded` (below). The theorem modules say how each proof goes; in short:

- **`TuberProofs`.** `NothingLeaks` for any number of callers: `ListenerOwned /\
  RunOwned` is inductive given types (a Stop takes both at once), `ClientOwned` needs
  `ClientPhases`, which says where in its loop a run can own a client. With one caller,
  `SerialInv` relates the caller's program counter to what it holds, and gives
  `OneLoopAtATime`, `EditTakesEffect`, `StopIsComplete` and the refinement
  `TuberIsTunnel` (initial states and steps; the fairness of `Tunnel` is checked by
  TLC). `StatusIsHonest` comes in parts. `ErrorShown` is inductive, and
  `SubscribersCaughtUp` follows from `Told` (a change nobody heard of has a loop on its
  way to announce it), both for any number of callers. `PromptHasAsker` and
  `HintIsHonest` need one caller and `Prompts`: a prompt that is up, and not `stray`,
  has a loop that takes it down (`Asked`, which is narrower than the property: the loop
  is at a point from which every way leads past the clearing), a loop knows which secret
  it obtains (`Known`), and one about to ask again has seen a rejection more than the
  tuber displays (`Hints`).
- **`SecretStoreProofs`.** `WaitersExact` with `PhaseInv`: which `Get` a dial can be in.
- **`DaemonProofs`.** First lemmas on the edits of `patch.go` over lists that may hold
  duplicates; then types (with `SaveInv`, `IdleInv`), `EngineMatches`,
  `OwnWritesAreQuiet`, `InSync` (`SyncInv`; assumes `~BootEdits`), and `PromiseKept`,
  which is not inductive: `PromiseInv` says the name is in the file once, that memory
  agrees, and that a patch under way loses no other flag.
- **`HandoffProofs`.** For `Discovery`, `Order`: the lock's holder runs alone
  (`Exclusive`), how far it has come decides whose marker, socket and token lie there
  (`MarkerPlace`, `SocketPlace`, `TokenPlace`), and only the living are told to end
  (`Pids`). Every step of `Handoff` is a step of `Discovery` or leaves its variables
  alone (`HandoffIsDiscovery`), so `Order` holds here too. `Passing` follows the
  descriptors: what is in the message (`Message`), what came out (`Arrival`), who holds
  it before and after the engine starts (`Holding`). `PortsStayUp` and `NothingLeaks`
  follow.
- **`DialChainProofs`.** `ChainInv`: where a call is and what it left (`Call`), hops
  open in order (`Ahead`) inside hops that are up (`Nested`), with keys the call knows
  (`Keys`). For chains of any length.
- **`ScreenProofs`.** For `Screen`, `ScreenInv`: types, at most one thing open (`One`),
  no hand-off that the Model waits for and that is not under way, and, with no tick
  outstanding and no change lost, a picture that is what the engine lists and prompts
  whose tubers ask (`Fresh`). Each helper of `update.go` has a lemma that says what it
  keeps, so that a key's step is a composition of a few. `HiddenUntouched` and
  `NoSilentQuit` are action properties: the first needs no invariant, only that what a
  key changes is `InSight`; for the second, four steps end the program (`Stops`) and the
  others keep `quit` as it was. For `ChangeStream`, `StreamInv`: while the program runs
  and the daemon is up, a signal, frame or answer is under way or an admitted stream
  will greet (`Carried`), the list on the screen, or the one being fetched, is the
  engine's (`Caught`), or it is one of the three cases in which nobody tells
  (`Untellable`).
- **`SshImportProofs`.** The filter, the two readings, the scan and the plan are
  functions that count up through a sequence. What such a function computes is proved
  without the library's induction theorems, by the least counterexample: a property of
  numbers that holds at the start and is kept by each step holds throughout, since the
  least number without it has a predecessor with it (`CountUp`; a least number exists by
  well-foundedness of `<`), and the same gives that the function exists and obeys its
  equation (`StepsExist`). The filter and OpenSSH's reader are then followed side by
  side (`Alongside`): at every line, what is kept under headers that match an alias is
  what has been read for it. So for every text the lookup finds the machine OpenSSH
  connects to (`HostsAgree`) and the scan takes what OpenSSH sets up (`MeansTheSame`);
  two tubers with one coverage key are one forward and the reverse (`KeysAgree`); a plan
  is apart from its file and in itself (`PlanIs`), and stays so as it is written, as
  long as nobody else has added to the file (`PlanInv`, command by command), which is
  `NothingTwice`. Both assume `WellIncluded`, in one of two ways: the included file
  begins no block that portato keeps (it may hold anything before and in blocks that are
  dropped; `PlainInclude`), or it holds anything at all, and every `Include` stands
  outside the blocks of single hosts and is the last line of its block (`IncludesLast`).
  Without either they are false (section 6, item 14). In the second case the two
  readings differ, but not in what they say for an alias (`SameRead`, `IncludedReads`).
  `ImportTypeCorrect` (with `Working`: what a command has planned, stage by stage) and
  `OneOffer` need no such hypothesis. `OfferInv`: as long as no launches overlap and no
  marker is lost (`Kept`), a second answer is ruled out, because the first leaves the
  marker or a command that is about to write it.
- **`UpdateProofs`.** For `SelfUpdate`, what is downloaded and what is on the disk,
  stage by stage (`Downloaded`, `OnDisk`). For `UpdateCheck`, `GateKnows` makes
  `SilentWithoutConsent` inductive. `LossInv` says both writers write the present time
  (`Present`), that the last answer is in the cache unless it was lost (`Recorded`), and
  so that a request is due (`Due`).

Every invariant and every action property that a run checks is stated by a theorem. Only
model-checked: what needs fairness (liveness and `ENABLED` are out of the prover's
reach), that is `DialsAgain`, the fairness of `ImplementsTunnel`, `SubmissionWakes`,
`PromptsAgain`, `EditsApply`, `PictureCatchesUp`, `SignalledEnds`, `HandoffEnds` and
`StopClosesAll`.

## 6. What the docs say and the code does not do

`tuber_stop_off` is the run of the first one. The others are modelled as the code has
them; where a property would not hold, its statement or its comment names the exception.

1. `Stop` writes Off, then cancels the dial, whose failure is reported after it
   (`tuber.go:532`). The tuber rests in Error with nothing running, and `handleEnable`,
   which asks only whether the state is Off, then answers "enabled" without starting
   anything (`EnableUp`).
2. `Stop` of a tuber that is not running: `a || b || clear()` skips the clearing of
   prompts when there is an error to clear, against the comment above it
   (`tuber.go:210-216`).
3. `Wait` re-checks and then registers (`secret.go:117-128`): a submission in between
   wakes nobody. Two tubers that share a key: the first to reject a wrong secret deletes
   it before the second reads it, and `Wait` returns none under a live context. The
   identity is then no key and no error (`passphrase.go:69`), and `sink("")` is not
   called: the prompt stays up with nobody waiting (`stray`), even once the tuber is
   connected, until a dial fails, a key is unlocked, or `Stop` takes it down. (What the
   ssh library makes of the nil signer that `ssh.go:239` puts among the sources is
   outside this code.)
4. `Get` may cache an older keyring value over a fresh submission (`secret.go:112`). A
   keyring that cannot delete a wrong secret hands it out again for ever.
5. A name an editor just added is added again by a request that was validated against
   memory (`server.go:800`, `patch.go:59`), and the file no longer loads;
   `docs/SPEC.md:306` says every mutation validates first.
6. Enable and disable save all of the memory over an edit the watcher has not loaded
   (`server.go:504`), against `docs/phases/phase-28-config-reload.md:38`.
7. A write cut short by a full disk leaves a blank file, which loads as "no tubers"
   (`config.go:340`).
8. The first frame of an event stream precedes the subscription (`server.go:464`): a
   change in between waits for the next one, and a passphrase prompt it should have
   closed stays. A list that times out is shown as an empty one (`remote.go:67`), and
   nothing asks again. `notify` drops the newest signal of a full channel, not the
   oldest (`engine.go:96`); as signals carry nothing, no one can tell.
9. A client keeps the token it read when it was built (`client.go:44`): after a restart
   of the daemon its stream is refused until the interface is restarted, although
   `controller/remote.go:142-144` reconnects after any break.
10. A marker that names a reused pid keeps every daemon from starting (`server.go:969`),
    although `New` says that stale markers are cleaned. `portato stop` removes it.
11. A transfer of more than 32 listeners fails on the receiving side: `CmsgSpace` counts
    bytes (`fdpass_unix.go:98`), `maxFDs` counts descriptors. The listeners that did
    arrive stay open in the daemon, where nothing uses them. After a failed transfer the
    daemon's tubers find their ports taken and stay in Error, which `handoff.go:168`
    calls harmless. And a listener handed over for a tuber that the file now has as
    remote is refused by `StartWith` and left to the garbage collector
    (`engine.go:266-269`), although `server.go:246` has every unused one closed.
12. During a hand-off `ctrl+c` in the filter opens the question about quitting, from
    which a second hand-off can be started (`update.go:729`), against `handoff.go:108`.
    `HandleHandoffDone` quits after the first.
13. A failed key probe leads to the password prompt whichever hop refused the key
    (`password.go:81`): with a jump host that refuses it, a target that was never
    reached, and whose key was not checked, has its password asked for.
    (`PasswordForTarget`: it is not sent anywhere else.)
14. Lines after an `Include` move into the last `Host` block of the included file
    (`sshmatch.go:85`); OpenSSH ends that block with the file. The texts of the run
    include a file that ends in a block that is dropped; the theorems say for which
    texts it makes no difference (`WellIncluded`). `MeansTheSame` is therefore a
    statement about such files, not about all.
15. A remote forward bound to `":5432"` is imported as `127.0.0.1::5432`
    (`importer.go:308`), which then is no address (`ParseForward`).
16. `SaveCache` is called atomic, but two processes share one temporary file: the cache
    may be torn, and is then read as none (`Write`, `Rename`).
17. The consent prompt takes the end of the input for a no and saves it
    (`consent.go:70`); the comment at `consent.go:36` says it leaves the question open.
18. An `apply` whose temporary directory is on another file system always fails
    (`swap_other.go`). The binary is then moved back, but an error of that rename is
    ignored (`swap_other.go:34-35`): there may be no executable, with the old version in
    `portato.old` only, although the comment there says the user keeps a binary.
19. `Stop` waits for its loop, and the loop may wait without end for a jump host's
    connection or for a server's answer about a remote listener (section 4), although
    the context is cancelled; and with `Stop` waits whoever called it, `Server.mu`
    included.
20. Markers are best effort (`markers.go:58-64`), and the marker of an offer is written
    after its answer (`nudge.go:48-53`): an offer whose marker was not written is made
    again. Two launches can be at the question together (`root.go:94` takes no lock),
    and both then import what they planned. In the other direction, a process killed
    between the first save and `MarkFreshInstall` (`config.go:353-359`) never makes the
    offer, and one killed between the marker and the writes loses an import that was
    accepted.
21. Two imports, or an import and another writer, may write one name twice, since the
    writes check nothing against the file as it is by now (`raced`); that file no longer
    loads.

## 7. Not modelled

*Rendering* (`tui/view.go`, styles, logo), *service files* (`service/`), *socket
activation*, *log ring and rotation*: output, platform I/O, or sequential code under one
mutex. *The command line's* flag parsing and the read-only `doctor`; commands that act
are actions of the modules above. *Field validation, effective values, backoff, port
suggestions*: pure functions of one value, without state. *The editor's form* beyond its
opening, saving and leaving. *The Windows variants* of lock, pid, swap and descriptor
passing. *Two concurrent `update apply`* commands. *The test server*.

## 8. What is left to do

1. `Screen` with the editor's fields, and with `ChangeStream` as its source of ticks.
2. `Daemon` over two clients of `Local` without a lock, for the standalone's saves.
3. `SshConfig` with patterns and nested includes.
4. Proofs: the safety core of the liveness properties (for `SubmissionWakes`, that a
   submission leaves no waiter of its key behind; for `StopClosesAll`, that a stopped
   call opens nothing).

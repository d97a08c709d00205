----------------------------- MODULE SelfUpdate -----------------------------
(***************************************************************************)
(* `portato update apply` (internal/cmd update.go, internal/update         *)
(* download.go, channel.go, version.go, swap_other.go): fetch the archive  *)
(* and its checksums into a temporary directory, verify, extract, and swap *)
(* the running binary with two renames, keeping it as portato.old; and the *)
(* one-liner that moves portato.old back. The command may be killed at any *)
(* step. A binary is its version; Odd is one that is not a strict vX.Y.Z,  *)
(* Part a file that was not written to its end, and Foreign what another   *)
(* archive holds.                                                          *)
(***************************************************************************)
EXTENDS Integers

CONSTANT MaxVersion      \* bound: releases

ASSUME MaxVersionAssumption == MaxVersion \in Nat \ {0}

VARIABLES
    latest,      \* the newest release
    install,     \* how the binary got here, and where temporary files live
    flags,       \* of the command that runs
    path,        \* the installed binary
    old,         \* portato.old
    phase,       \* what the command is doing
    target,      \* the release it installs
    from,        \* history: the binary it replaces
    archive,     \* the downloaded archive: "none", "genuine", "wrong"
    staged       \* the extracted binary

setting == <<latest, install>>
download == <<archive, staged>>
disk == <<path, old>>
run == <<flags, phase, target, from>>
avars == <<setting, disk, run, download>>

Versions == 1 .. MaxVersion
Odd == 0
Absent == -1
Part == -2
Foreign == -3
Binaries == Versions \cup {Odd}
Files == Binaries \cup {Absent, Part, Foreign}
Installs == [channel : {"direct", "managed", "service"}, sameFilesystem : BOOLEAN]
Flags == [force : BOOLEAN, dry : BOOLEAN, confirmed : BOOLEAN]
NoFlags == [force |-> FALSE, dry |-> FALSE, confirmed |-> FALSE]

ATypeOK ==
    /\ latest \in Binaries /\ install \in Installs /\ flags \in Flags
    /\ path \in Files /\ old \in Files
    /\ phase \in {"away", "gate", "fetch", "extract", "drop", "backup", "install",
                  "done", "failed", "unrestored"}
    /\ target \in Binaries /\ from \in Binaries
    /\ archive \in {"none", "genuine", "wrong"}
    /\ staged \in {target, Absent, Part}

AInit ==
    /\ latest \in Binaries /\ install \in Installs /\ flags = NoFlags
    /\ path \in Binaries /\ old = Absent
    /\ phase = "away" /\ target = Odd /\ from = path
    /\ archive = "none" /\ staged = Absent

\* A newer release comes out.
Release ==
    /\ \E v \in Binaries : v > latest /\ latest' = v
    /\ UNCHANGED <<install, disk, run, download>>

-----------------------------------------------------------------------------
(* updateApplyRunE.                                                          *)

\* Latest answers; a request that fails ends the command.
Start ==
    /\ phase = "away" /\ path # Absent
    /\ flags' \in Flags
    /\ target' = latest /\ from' = path
    /\ phase' = "gate"
    /\ UNCHANGED <<setting, disk, download>>

Ends(outcome) ==
    /\ phase' = outcome /\ archive' = "none" /\ staged' = Absent
    /\ UNCHANGED <<setting, flags, target, from>>

\* Only a release is compared, and only with a release.
Newer == from # Odd /\ target # Odd /\ from < target

\* The service's binary is never swapped, a package manager's by force only.
ChannelAllows ==
    \/ install.channel = "direct"
    \/ install.channel = "managed" /\ flags.force

Goes == Newer /\ ChannelAllows /\ ~flags.dry /\ flags.confirmed

Proceed ==
    /\ phase = "gate" /\ Goes
    /\ phase' = "fetch"
    /\ UNCHANGED <<setting, disk, flags, target, from, download>>

Refuse ==
    /\ phase = "gate" /\ ~Goes
    /\ Ends("failed") /\ UNCHANGED disk

-----------------------------------------------------------------------------
(* applySwap.                                                                *)

\* Both files come down whole, or the archive is not the one the checksums
\* name: another, or cut at the size limit.
Download ==
    /\ phase = "fetch" /\ archive = "none"
    /\ archive' \in {"genuine", "wrong"}
    /\ UNCHANGED <<setting, disk, run, staged>>

\* A release without the asset, a download that fails, a full disk.
Aborts ==
    /\ phase \in {"fetch", "extract", "drop"}
    /\ Ends("failed") /\ UNCHANGED disk

Verified == archive = "genuine"

Verify ==
    /\ phase = "fetch" /\ Verified
    /\ phase' = "extract"
    /\ UNCHANGED <<setting, disk, flags, target, from, download>>

Mismatch ==
    /\ phase = "fetch" /\ archive # "none" /\ ~Verified
    /\ Ends("failed") /\ UNCHANGED disk

\* The member of the archive that is called portato.
Extracted == IF archive = "genuine" THEN target ELSE Foreign

\* writeMember; a copy that fails leaves part of the binary behind, and the
\* command ends with it.
\* Mutant: a partial binary goes on.
Extract_Anyhow ==
    /\ phase = "extract" /\ staged = Absent
    /\ staged' \in {target, Part} /\ phase' = "drop"
    /\ UNCHANGED <<setting, disk, flags, target, from, archive>>

Extract ==
    /\ phase = "extract" /\ staged = Absent
    /\ \/ staged' = Extracted /\ phase' = "drop"
       \/ staged' = Part /\ UNCHANGED phase
    /\ UNCHANGED <<setting, disk, flags, target, from, archive>>

-----------------------------------------------------------------------------
(* SwapBinary.                                                               *)

\* The previous backup goes first: there is one level of rollback.
DropBackup ==
    /\ phase = "drop"
    /\ old' = Absent /\ phase' = "backup"
    /\ UNCHANGED <<setting, path, flags, target, from, download>>

Backup ==
    /\ phase = "backup"
    /\ old' = path /\ path' = Absent
    /\ phase' = "install"
    /\ UNCHANGED <<setting, flags, target, from, download>>

BackupFails ==
    /\ phase = "backup"
    /\ Ends("failed") /\ UNCHANGED disk

Install ==
    /\ phase = "install" /\ install.sameFilesystem
    /\ path' = staged
    /\ Ends("done") /\ UNCHANGED old

\* A rename across file systems always fails, any other may: the backup is
\* moved back, by a rename whose own error is ignored ("unrestored"; the
\* command reports a failure all the same).
\* Mutant: a failed install does not move the backup back.
InstallFails_Leaves ==
    /\ phase = "install"
    /\ Ends("failed") /\ UNCHANGED disk

InstallFails ==
    /\ phase = "install"
    /\ \/ path' = old /\ old' = Absent /\ Ends("failed")
       \/ UNCHANGED disk /\ Ends("unrestored")

Over == {"done", "failed", "unrestored"}

\* The command is over; what it did stays.
Return ==
    /\ phase \in Over /\ phase' = "away"
    /\ UNCHANGED <<setting, disk, flags, target, from, download>>

ApplyKilled ==
    /\ phase \notin {"away"} \cup Over
    /\ Ends("away") /\ UNCHANGED disk

\* RollbackCommand, by the user's hand.
Rollback ==
    /\ phase = "away" /\ old # Absent
    /\ path' = old /\ old' = Absent
    /\ UNCHANGED <<setting, run, download>>

ANext ==
    \/ Release \/ Start \/ Proceed \/ Refuse
    \/ Download \/ Aborts \/ Verify \/ Mismatch \/ Extract
    \/ DropBackup \/ Backup \/ BackupFails \/ Install \/ InstallFails
    \/ Return \/ ApplyKilled \/ Rollback

ASpec == AInit /\ [][ANext]_avars

-----------------------------------------------------------------------------
(* Properties.                                                               *)

\* The user is not left without a binary (SwapBinary), nor with a strange or a
\* partial one: what is installed, or else what the documented one-liner moves
\* back, is whole and a binary of this program, wherever the command fails or
\* is killed.
AlwaysABinary == (IF path = Absent THEN old ELSE path) \in Binaries

\* A command that reports success leaves the release and, as the rollback copy,
\* the binary it replaced. One that reports failure leaves the binary where it
\* was, except when the rename that moves it back fails too, which SwapBinary
\* ignores: it is then portato.old, for the one-liner to move back.
OutcomeIsTrue ==
    /\ phase = "done" => path = target /\ old = from /\ target > from
    /\ phase = "failed" => path = from
    /\ phase = "unrestored" => path = Absent /\ old = from
=============================================================================

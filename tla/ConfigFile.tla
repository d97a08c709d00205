----------------------------- MODULE ConfigFile -----------------------------
(***************************************************************************)
(* config.yaml as the daemon sees it (internal/config): the list of tubers *)
(* the file holds, what Load accepts, and the edits of patch.go, which     *)
(* work on the document and do not validate.                               *)
(* A tuber is its name, its local port (standing for every field of the    *)
(* connection: tuberChanged compares them all) and its enabled flag.       *)
(* Comments, defaults, tags and the wording of the file are left out.      *)
(***************************************************************************)
EXTENDS Integers, SequencesExt

CONSTANTS Names, Ports

Entry == [name: Names, port: Ports, enabled: BOOLEAN]

\* A file is a document with a list of tubers, an empty file (what a write cut
\* short after its truncation leaves), unparsable text, or no file at all.
Document(tubers) == [kind |-> "Document", tubers |-> tubers]
Blank == [kind |-> "Blank", tubers |-> <<>>]
Garbage == [kind |-> "Garbage", tubers |-> <<>>]
Missing == [kind |-> "Missing", tubers |-> <<>>]
Files == [kind: {"Document", "Blank", "Garbage", "Missing"}, tubers: Seq(Entry)]

NamesIn(tubers) == {tubers[i].name : i \in DOMAIN tubers}

IndexOf(tubers, n) == SelectInSeq(tubers, LAMBDA t: t.name = n)

Named(tubers, n) == tubers[IndexOf(tubers, n)]

\* Validate: every tuber has a name of its own.
Valid(tubers) == \A i, j \in DOMAIN tubers : tubers[i].name = tubers[j].name => i = j

\* Load succeeds: an empty file parses to an empty configuration.
Loads(f) == f.kind \in {"Document", "Blank"} /\ Valid(f.tubers)

\* The document a patch can be applied to: LoadNode parses it and it has a
\* root mapping. Nobody checks here that it is valid.
Patchable(f) == f.kind = "Document"

AddTuberNode(tubers, t) == Append(tubers, t)

ReplaceTuberNode(tubers, n, t) == ReplaceAt(tubers, IndexOf(tubers, n), t)

DeleteTuberNode(tubers, n) == RemoveAt(tubers, IndexOf(tubers, n))

\* A move beyond either end is no move.
MoveTuberNode(tubers, n, to) ==
    LET from == IndexOf(tubers, n)
    IN  [tubers EXCEPT ![from] = tubers[to], ![to] = tubers[from]]

SetEnabled(tubers, n, enabled) == [tubers EXCEPT ![IndexOf(tubers, n)].enabled = enabled]
=============================================================================

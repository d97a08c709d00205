------------------------------ MODULE SshConfig ------------------------------
(***************************************************************************)
(* ssh_config as portato reads it (internal/config sshmatch.go, and the    *)
(* scan of internal/importer importer.go): the lenient filter that expands *)
(* includes and drops the Match blocks nobody here can evaluate, the       *)
(* lookup of an alias in what is left, and the forwards of its blocks.     *)
(* Beside them, what OpenSSH makes of the same lines.                      *)
(* A text is a sequence of lines. A line is a header, an Include of the    *)
(* one other file, a HostName or a forward; every other directive is like  *)
(* one of the last two. A Match header is "all" or a criterion that cannot *)
(* be evaluated.                                                           *)
(***************************************************************************)
EXTENDS Naturals, SequencesExt

CONSTANTS
    Aliases,     \* what a Host line names and a tuber's ssh: field holds
    Machines,    \* what a HostName line names
    Forwards,    \* records [type, bind]: the listen side of a forward
    Included     \* the text of the other file

Every == "*"
Host(p) == [word |-> "Host", arg |-> p]
MatchAll == [word |-> "Match", arg |-> "all"]
MatchExec == [word |-> "Match", arg |-> "exec"]
Include == [word |-> "Include", arg |-> "file"]
HostName(m) == [word |-> "HostName", arg |-> m]
Forward(f) == [word |-> "Forward", arg |-> f]

IsHeader(line) == line.word \in {"Host", "Match"}
Evaluable(line) == line.word = "Match" => line.arg = "all"

ASSUME FormsAssumption ==
    Forwards \subseteq [type : {"local", "remote"}, bind : {"bare", "loopback", "wildcard", "colon"}]

Lines == {Host(p) : p \in Aliases \cup {Every}} \cup {MatchAll, MatchExec, Include}
         \cup {HostName(m) : m \in Machines} \cup {Forward(f) : f \in Forwards}

ASSUME IncludedAssumption == Included \in Seq(Lines)

-----------------------------------------------------------------------------
(* The filter.                                                               *)

\* A header ends the block before it; a Match that cannot be evaluated takes
\* everything up to the next header with it. The included file is filtered on
\* its own and its lines are put in the Include's place.
FilterLine(s, line, included) ==
    IF IsHeader(line)
    THEN IF Evaluable(line) THEN [skipping |-> FALSE, out |-> Append(s.out, line)]
                            ELSE [skipping |-> TRUE, out |-> s.out]
    ELSE IF s.skipping THEN s
    ELSE [skipping |-> FALSE, out |-> s.out \o IF line = Include THEN included ELSE <<line>>]

FilterFile(lines, included) ==
    LET after[n \in 0 .. Len(lines)] ==
            IF n = 0 THEN [skipping |-> FALSE, out |-> <<>>]
            ELSE FilterLine(after[n - 1], lines[n], included)
    IN  after[Len(lines)].out

\* Mutant: the included file is not filtered on its own.
LenientSSHConfig_Shared(lines) ==
    FilterFile(FoldLeft(LAMBDA out, line: IF line = Include THEN out \o Included ELSE Append(out, line),
                        <<>>, lines), <<>>)

LenientSSHConfig(lines) == FilterFile(lines, FilterFile(Included, <<>>))

-----------------------------------------------------------------------------
(* What the decoder and the scan make of the filtered lines.                 *)

\* The header a line stands under, or the file's preamble, which is for every
\* host.
HeaderOf(lines, i) ==
    LET above == {j \in 1 .. i : IsHeader(lines[j])}
    IN  IF above = {} THEN Host(Every) ELSE lines[Max(above)]

Matches(header, alias) == header.word = "Match" \/ header.arg \in {alias, Every}

\* The first HostName in a block that matches wins, and none is the alias.
FirstHostName(lines, where, alias) ==
    LET hits == {i \in where : lines[i].word = "HostName"}
    IN  IF hits = {} THEN alias ELSE lines[Min(hits)].arg

ResolveSSHHost(lines, alias) ==
    FirstHostName(lines, {i \in DOMAIN lines : Matches(HeaderOf(lines, i), alias)}, alias)

\* Mutant: a block for all hosts is taken for one with a name.
Named_Any(header) == header.word = "Host"

Named(header) == header.word = "Host" /\ header.arg # Every

\* One candidate for each forward in a block with a name of its own, in the
\* file's order, none twice.
Scan(lines) ==
    LET Candidate(i) == [ssh |-> HeaderOf(lines, i).arg, forward |-> lines[i].arg]
        Declares(i) == lines[i].word = "Forward" /\ Named(HeaderOf(lines, i))
        found[n \in 0 .. Len(lines)] ==
            IF n = 0 THEN <<>>
            ELSE IF Declares(n) /\ ~Contains(found[n - 1], Candidate(n))
                 THEN Append(found[n - 1], Candidate(n)) ELSE found[n - 1]
    IN  found[Len(lines)]

-----------------------------------------------------------------------------
(* What OpenSSH makes of the text: a criterion it cannot evaluate does not   *)
(* match, an included file is read under the block that includes it, and its *)
(* headers end with it.                                                      *)

\* The lines of the text and of the included file that are for an alias.
ReadLine(s, line, alias, included) ==
    IF IsHeader(line)
    THEN [active |-> Evaluable(line) /\ Matches(line, alias), read |-> s.read]
    ELSE IF ~s.active THEN s
    ELSE [active |-> TRUE, read |-> s.read \o IF line = Include THEN included ELSE <<line>>]

ReadByOpenSSH(lines, alias, included) ==
    LET after[n \in 0 .. Len(lines)] ==
            IF n = 0 THEN [active |-> TRUE, read |-> <<>>]
            ELSE ReadLine(after[n - 1], lines[n], alias, included)
    IN  after[Len(lines)].read

OpenSSH(lines, alias) == ReadByOpenSSH(lines, alias, ReadByOpenSSH(Included, alias, <<>>))

OpenSSHHostName(lines, alias) ==
    LET read == OpenSSH(lines, alias)
    IN  FirstHostName(read, DOMAIN read, alias)

OpenSSHForwards(lines, alias) ==
    LET read == OpenSSH(lines, alias)
    IN  {read[i].arg : i \in {j \in DOMAIN read : read[j].word = "Forward"}}
=============================================================================

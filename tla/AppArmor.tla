------------------------------ MODULE AppArmor ------------------------------
(***************************************************************************)
(* The AppArmor backend and frontend and the friction report: lowering     *)
(* rules to profile lines, parsing lines to rules, and what is reported as *)
(* lost on the way.                                                        *)
(*                                                                         *)
(* A line is a record of what its text says: section, verdict, path glob   *)
(* or endpoint, whether the path stands in quotes, and the set of its      *)
(* permission letters.  Globs are strings, because the two directions do   *)
(* not agree on them.  Qualifiers and the order of path and permissions    *)
(* are left out: the parser ignores them.  So is what becomes of a name    *)
(* with a line break, which breaks its line.                               *)
(***************************************************************************)
EXTENDS PolicyIR

Quote == "\""

Chars(s) == {SubSeq(s, i, i) : i \in 1..Len(s)}

\* A name with a blank in it is put in quotes; quotes it has are left as they are.
quote_if_needed(s) == Chars(s) \cap {" ", "\t", "\n"} # {}

FileLine(deny, glob, perms) ==
    [section |-> "file", deny |-> deny, glob |-> glob, quoted |-> quote_if_needed(glob), perms |-> perms]
ExecLine(deny, glob) ==
    [section |-> "exec", deny |-> deny, glob |-> glob, quoted |-> quote_if_needed(glob), perms |-> {"i", "x"}]
\* The type is "stream", "dgram" or "none".
NetLine(deny, type, ip, port) ==
    [section |-> "network", deny |-> deny, type |-> type, ip |-> ip, port |-> port]

-----------------------------------------------------------------------------
(* backends/apparmor.rs *)

file_glob(pattern) ==
    CASE pattern.form = "exact"  -> [glob |-> pattern.key, loss |-> "none"]
      [] pattern.form = "prefix" -> [glob |-> pattern.key \o "**", loss |-> "none"]
      [] pattern.form = "class" /\ pattern.key = "Regular" -> [glob |-> "", loss |-> "Dropped"]
      [] pattern.form = "class" /\ pattern.key = "ProcPidOther" ->
            [glob |-> "/proc/*/**", loss |-> "Approximated"]
      [] pattern.form = "class" /\ pattern.key = "ProcGlobal" ->
            [glob |-> "/proc/*", loss |-> "Approximated"]
      [] OTHER -> [glob |-> as_str[pattern.key], loss |-> "none"]

\* The lines one rule becomes and the warning it draws.
Lowered(r) ==
    LET deny == r.verdict = "Deny"
    IN  CASE IsFile(r) ->
               LET g == file_glob(r.object.pattern)
               IN  [loss |-> g.loss,
                    lines |-> IF g.loss = "Dropped" THEN {}
                              ELSE {FileLine(deny, g.glob,
                                        IF r.action = "FileWrite" THEN {"w"} ELSE {"r"})}]
          [] r.action = "ProcExec" ->
               [loss |-> "none", lines |-> {ExecLine(deny, r.object.binary)}]
          [] r.action \in {"NetConnect", "NetBind"} ->
               [loss  |-> IF r.object.ip = NoAddr /\ r.object.port = NoAddr
                          THEN "none" ELSE "AbiGated",
                lines |-> {NetLine(deny, IF r.object.protocol = 17 THEN "dgram" ELSE "stream",
                                   r.object.ip, r.object.port)}]
          [] OTHER -> [loss |-> "Dropped", lines |-> {}]

\* lower_to_apparmor.  Executables come first, then files, then network rules,
\* each section sorted by text: among files the lines that allow precede those
\* that deny, among network rules they follow them; no later step depends on
\* the rest of the order.
lower_to_apparmor(rules) ==
    LET all == UNION {Lowered(rules[i]).lines : i \in DOMAIN rules}
        part(s, deny) == SetToSeq({l \in all : l.section = s /\ l.deny = deny})
    IN  part("exec", FALSE) \o part("exec", TRUE) \o part("file", FALSE) \o part("file", TRUE)
            \o part("network", TRUE) \o part("network", FALSE)

-----------------------------------------------------------------------------
(* frontends/apparmor.rs *)

KNOWN_PATTERNS == Classes \ {"Regular", "ProcPidOther", "ProcGlobal"}

EnsureSlash(s) == IF EndsWith(s, "/") THEN s ELSE s \o "/"

Cut(s, n) == SubSeq(s, 1, Len(s) - n)

\* Mutant: the globs of the classes are read as prefixes.
glob_to_pattern_unknown(glob) ==
    IF EndsWith(glob, "**") THEN Prefix(EnsureSlash(Cut(glob, 2)))
    ELSE IF EndsWith(glob, "/*") THEN Prefix(EnsureSlash(Cut(glob, 2)))
    ELSE Exact(glob)

glob_to_pattern(glob) ==
    LET known == {c \in KNOWN_PATTERNS : as_str[c] = glob}
    IN  IF known # {} THEN Classified(CHOOSE c \in known : TRUE)
        ELSE IF EndsWith(glob, "**") THEN Prefix(EnsureSlash(Cut(glob, 2)))
        ELSE IF EndsWith(glob, "/*") THEN Prefix(EnsureSlash(Cut(glob, 2)))
        ELSE Exact(glob)

EmptySubject == "any"

Imported(object, action, deny) ==
    NewRule(EmptySubject, object, action, IF deny THEN "Deny" ELSE "Allow")

\* Words the parser looks for at the beginning of a line.
Preamble == {"#", "@", "profile", "include"}
Keywords == Preamble \cup {"deny", "allow", "owner", "audit", "priority=", "network", Quote}

\* What the words are.  (Provers that know no characters are told so.)
ASSUME KeywordAssumption == Len(Quote) = 1 /\ \A w \in Keywords : IsSequence(w)

\* Of a line that reads as preamble, or as qualifiers and permissions only,
\* nothing is left.
SkippedLine(l) ==
    /\ ~l.quoted
    /\ \/ l.glob \in {"", "owner", "audit"} \/ StartsWith(l.glob, "priority=")
       \/ ~l.deny /\ (l.glob \in {"deny", "allow"} \/ \E w \in Preamble : StartsWith(l.glob, w))

\* The path and the permissions of a line.  A path that begins with a quote ends
\* at the next one, and all that follows are permissions; without a next one the
\* line is skipped.
split_path_perms(l) ==
    LET text   == IF l.quoted THEN l.glob ELSE SubSeq(l.glob, 2, Len(l.glob))
        quotes == {i \in 1..Len(text) : SubSeq(text, i, i) = Quote}
        end    == CHOOSE i \in quotes : \A j \in quotes : i <= j
    IN  IF ~l.quoted /\ ~StartsWith(l.glob, Quote) THEN [path |-> l.glob, perms |-> l.perms]
        ELSE IF quotes # {}
        THEN [path  |-> SubSeq(text, 1, end - 1),
              perms |-> l.perms \cup Chars(SubSeq(text, end + 1, Len(text)))]
        ELSE [path |-> text, perms |-> IF l.quoted THEN l.perms ELSE {}]

parse_network(l, type, ip, port) ==
    LET protocol == IF type = "stream" THEN 6 ELSE IF type = "dgram" THEN 17 ELSE NoAddr
    IN  <<Imported(Network(ip, port, protocol), "NetConnect", l.deny)>>

\* The rules of one line: one for each kind of permission it carries.  Any
\* network rule becomes a connect rule, and a name that begins with the word
\* becomes one too.
ParsedLine(l) ==
    IF l.section = "network" THEN parse_network(l, l.type, l.ip, l.port)
    ELSE IF SkippedLine(l) THEN <<>>
    ELSE IF ~l.quoted /\ StartsWith(l.glob, "network") THEN parse_network(l, "none", NoAddr, NoAddr)
    ELSE LET path  == split_path_perms(l).path
             perms == split_path_perms(l).perms
             file(action) == <<Imported(File(glob_to_pattern(path), FALSE), action, l.deny)>>
         IN  (IF "x" \in perms THEN <<Imported(Process(path), "ProcExec", l.deny)>> ELSE <<>>)
                \o (IF perms \cap {"w", "a"} # {} THEN file("FileWrite") ELSE <<>>)
                \o (IF "r" \in perms THEN file("FileRead") ELSE <<>>)

parse_apparmor(lines) == FlattenSeq([i \in DOMAIN lines |-> ParsedLine(lines[i])])

-----------------------------------------------------------------------------
(* friction.rs *)

apparmor_fidelity(r) ==
    CASE Lowered(r).loss = "none"    -> "Expressed"
      [] Lowered(r).loss = "Dropped" -> "Dropped"
      [] OTHER                       -> "Approximated"

bpf_fidelity(r) ==
    IF IsFile(r)
    THEN CASE r.object.pattern.form = "exact" -> "Expressed"
           [] r.object.pattern.form = "class" ->
                IF r.object.pattern.key = "Regular" THEN "Dropped"
                ELSE IF r.action = "FileOpen" THEN "Expressed" ELSE "Approximated"
           [] r.object.pattern.form = "prefix" ->
                IF Len(r.object.pattern.key) > PREFIX_MAX_LEN THEN "Dropped"
                ELSE IF r.action = "FileOpen" THEN "Expressed" ELSE "Approximated"
    ELSE IF r.action = "ProcExec" THEN "Expressed"
    ELSE IF r.action = "NetConnect" /\ r.object.ip # NoAddr THEN "Approximated" ELSE "Dropped"
=============================================================================

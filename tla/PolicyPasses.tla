---------------------------- MODULE PolicyPasses ----------------------------
(***************************************************************************)
(* The optimization passes of policy/passes.rs and the linker.  A pass     *)
(* maps a sequence of rules to a sequence of rules; a pass that goes       *)
(* through a HashMap returns them in any order, so it is given as the set  *)
(* of its results.                                                         *)
(***************************************************************************)
EXTENDS PolicyIR

CONSTANTS
    prefix_min_cluster, prefix_min_depth, prefix_min_affix, sensitive_roots   \* PassConfig

\* PassConfig::validate
ASSUME ConfigAssumption ==
    /\ prefix_min_cluster \in Nat /\ prefix_min_cluster >= 2
    /\ prefix_min_depth \in Nat /\ prefix_min_depth >= 1
    /\ prefix_min_affix \in Nat /\ prefix_min_affix >= 1
    /\ "/" \in sensitive_roots
    /\ \A dir \in sensitive_roots : Len(dir) <= PREFIX_MAX_LEN

\* The elements at the positions in S, in their order.
Kept(seq, S) ==
    LET kept[n \in 0..Len(seq)] ==
            IF n = 0 THEN <<>>
            ELSE IF n \in S THEN Append(kept[n - 1], seq[n]) ELSE kept[n - 1]
    IN  kept[Len(seq)]

WithPattern(r, pattern) == [r EXCEPT !.object.pattern = pattern]

-----------------------------------------------------------------------------
(* Canonicalization *)

\* The path split at its slashes.
Components(path) ==
    LET Char(i) == SubSeq(path, i, i)
        Scan(out, i) == IF Char(i) = "/" THEN Append(out, "")
                         ELSE [out EXCEPT ![Len(out)] = @ \o Char(i)]
    IN  FoldLeft(Scan, <<"">>, [i \in 1..Len(path) |-> i])

\* One component of the path: dot-dot takes back the last one, and at the root
\* stays there.
Resolve(absolute, out, comp) ==
    IF comp \in {"", "."} THEN out
    ELSE IF comp # ".." THEN Append(out, comp)
    ELSE IF out # <<>> /\ Last(out) # ".." THEN Front(out)
    ELSE IF absolute THEN out ELSE Append(out, "..")

JoinPath(comps) == FoldLeft(LAMBDA s, c : IF s = "" THEN c ELSE s \o "/" \o c, "", comps)

canonicalize_path(path) ==
    LET absolute == StartsWith(path, "/")
        joined   == JoinPath(FoldLeft(LAMBDA out, c : Resolve(absolute, out, c),
                                      <<>>, Components(path)))
    IN  IF path = "" THEN "" ELSE IF absolute THEN "/" \o joined
        ELSE IF joined = "" THEN "." ELSE joined

\* A resolved path is in canonical form.
ASSUME ResolvedAssumption == \A path \in Paths : canonicalize_path(path) = path

WithSlash(s) == IF EndsWith(s, "/") THEN s ELSE s \o "/"

canonicalize_prefix(prefix) == WithSlash(canonicalize_path(prefix))

CanonicalRule(r) ==
    IF HasForm(r, "exact") THEN WithPattern(r, Exact(canonicalize_path(r.object.pattern.key)))
    ELSE IF HasForm(r, "prefix")
    THEN WithPattern(r, Prefix(canonicalize_prefix(r.object.pattern.key)))
    ELSE r

Canonicalize(rules) == [i \in DOMAIN rules |-> CanonicalRule(rules[i])]

-----------------------------------------------------------------------------
(* Deduplication: the first rule of each signature stays, whatever verdict    *)
(* the others have.                                                          *)
FirstOfSignature(rules) ==
    {rules[i] : i \in {i \in DOMAIN rules :
                          \A j \in 1..(i - 1) : signature(rules[j]) # signature(rules[i])}}

Dedup(rules) == SetToSeqs(FirstOfSignature(rules))

-----------------------------------------------------------------------------
(* Generalization: an exact path below /proc/<anything>/ becomes its class. *)

ProcFiles ==
    [cmdline |-> "ProcPidCmdline", comm |-> "ProcPidComm", cwd |-> "ProcPidCwd",
     environ |-> "ProcPidEnviron", exe |-> "ProcPidExe", maps |-> "ProcPidMaps",
     mem |-> "ProcPidMem", mountinfo |-> "ProcPidMountinfo", mounts |-> "ProcPidMounts",
     root |-> "ProcPidRoot", stat |-> "ProcPidStat", status |-> "ProcPidStatus",
     cgroup |-> "ProcPidCgroup"]

ProcDirs == [fd |-> "ProcPidFd", net |-> "ProcPidNet", ns |-> "ProcPidNs", task |-> "ProcPidTask"]

\* The class of the path, "Regular" when it stays an exact path.
try_classify(path) ==
    LET comps == Components(path)      \* "", "proc", <pid>, then the rest
        rest  == SubSeq(comps, 4, Len(comps))
    IN  IF ~StartsWith(path, "/proc/") \/ rest = <<>> THEN "Regular"
        ELSE IF Len(rest) = 1 /\ rest[1] \in DOMAIN ProcFiles THEN ProcFiles[rest[1]]
        ELSE IF Len(rest) > 1 /\ rest[1] \in DOMAIN ProcDirs THEN ProcDirs[rest[1]]
        ELSE "ProcPidOther"

GeneralRule(r) ==
    IF HasForm(r, "exact") /\ try_classify(r.object.pattern.key) # "Regular"
    THEN WithPattern(r, Classified(try_classify(r.object.pattern.key)))
    ELSE r

Generalize(rules) == [i \in DOMAIN rules |-> GeneralRule(rules[i])]

-----------------------------------------------------------------------------
(* Prefix generalization *)

\* Parent directory with its slash; "" when that is the root or there is none.
parent_dir(path) ==
    LET trimmed == IF EndsWith(path, "/") THEN SubSeq(path, 1, Len(path) - 1) ELSE path
        idx     == Max({i \in 1..Len(trimmed) : HasAt(trimmed, i - 1, "/")} \cup {0})
    IN  IF idx <= 1 THEN "" ELSE SubSeq(trimmed, 1, idx)

Depth(dir) == Len(SelectSeq(Components(dir), LAMBDA c : c # ""))

dir_generalizable(dir) == dir \notin sensitive_roots /\ Depth(dir) >= prefix_min_depth

HexDigits == Digits \cup {"a", "b", "c", "d", "e", "f", "A", "B", "C", "D", "E", "F"}

LooksHex(s) ==
    /\ \A i \in 1..Len(s) : SubSeq(s, i, i) \in HexDigits
    /\ \E i \in 1..Len(s) : SubSeq(s, i, i) \in Digits

\* Some leading or trailing part of n characters is common to all leaves.
ShareAffix(leaves, n) ==
    \/ \E s \in leaves : Len(s) >= n /\ \A t \in leaves : StartsWith(t, SubSeq(s, 1, n))
    \/ \E s \in leaves : Len(s) >= n /\ \A t \in leaves : EndsWith(t, SubSeq(s, Len(s) - n + 1, Len(s)))

leaves_look_generated(leaves) ==
    /\ Cardinality(leaves) >= 2
    /\ ShareAffix(leaves, prefix_min_affix) \/ \A s \in leaves : LooksHex(s)

\* Mutant: opposing rules are not looked for.
opposing_verdict_ignored(rules, subject, verdict, dir) == FALSE

opposing_verdict_under(rules, subject, verdict, dir) ==
    \E i \in DOMAIN rules :
        /\ rules[i].subject = subject
        /\ rules[i].verdict # verdict
        /\ rules[i].object.kind = "file"
        /\ relation_to(Prefix(dir), rules[i].object.pattern) # "Disjoint"

\* Rules that may be folded into a directory, bucketed by all they must share.
Bucket(r) == [subject |-> r.subject, action |-> r.action, verdict |-> r.verdict,
              dir |-> parent_dir(r.object.pattern.key)]

Candidates(rules) ==
    {i \in DOMAIN rules : /\ HasForm(rules[i], "exact")
                          /\ ~rules[i].object.is_sensitive
                          /\ parent_dir(rules[i].object.pattern.key) # ""}

Members(rules, b) == {i \in Candidates(rules) : Bucket(rules[i]) = b}

Leaf(path, dir) == SubSeq(path, Len(dir) + 1, Len(path))

\* Mutant: a prefix longer than the kernel stores.
CollapsesTooLong(rules, b) ==
    /\ Cardinality(Members(rules, b)) >= prefix_min_cluster
    /\ dir_generalizable(b.dir)
    /\ leaves_look_generated({Leaf(rules[i].object.pattern.key, b.dir) : i \in Members(rules, b)})
    /\ ~opposing_verdict_under(rules, b.subject, b.verdict, b.dir)

Collapses(rules, b) ==
    /\ Cardinality(Members(rules, b)) >= prefix_min_cluster
    /\ dir_generalizable(b.dir)
    /\ Len(b.dir) <= PREFIX_MAX_LEN
    /\ leaves_look_generated({Leaf(rules[i].object.pattern.key, b.dir) : i \in Members(rules, b)})
    /\ ~opposing_verdict_under(rules, b.subject, b.verdict, b.dir)

Collapsed(rules) == {b \in {Bucket(rules[i]) : i \in Candidates(rules)} : Collapses(rules, b)}

\* The rules of the collapsed buckets go, one prefix rule for each comes last.
PrefixGeneralize(rules) ==
    LET gone == UNION {Members(rules, b) : b \in Collapsed(rules)}
        new  == {NewRule(b.subject, File(Prefix(b.dir), FALSE), b.action, b.verdict) :
                    b \in Collapsed(rules)}
    IN  {Kept(rules, DOMAIN rules \ gone) \o order : order \in SetToSeqs(new)}

-----------------------------------------------------------------------------
(* Subsumption and linking.  Conflict detection, which only logs, has nothing *)
(* left to find: no two rules have the same signature after deduplication.   *)

\* Mutant: the narrow pattern is taken for the broad one.
object_subsumed_swapped(narrow, broad) ==
    narrow.kind = "file" /\ broad.kind = "file"
        /\ relation_to(narrow.pattern, broad.pattern) = "Superset"

object_subsumed(narrow, broad) ==
    narrow.kind = "file" /\ broad.kind = "file"
        /\ relation_to(broad.pattern, narrow.pattern) = "Superset"

Subsumed(rules, i) ==
    \E j \in DOMAIN rules :
        /\ rules[j].subject = rules[i].subject
        /\ rules[j].action = rules[i].action
        /\ rules[j].verdict = rules[i].verdict
        /\ object_subsumed(rules[i].object, rules[j].object)

Subsume(rules) == Kept(rules, {i \in DOMAIN rules : ~Subsumed(rules, i)})

\* The file rules an exec rule implies, unless its subject has one for the
\* program and the action already; they inherit its verdict.
Implied(rules, r) ==
    {f \in {NewRule(r.subject, File(Exact(r.object.binary), FALSE), a, r.verdict) :
                a \in {"FileOpen", "FileRead"}} :
        \A i \in DOMAIN rules : signature(rules[i]) # signature(f)}

\* link_cross_category: the rules grow while the exec rules are gone through.
Link(rules) ==
    LET linked[n \in 0..Len(rules)] ==
            IF n = 0 THEN rules
            ELSE IF rules[n].action = "ProcExec"
            THEN linked[n - 1] \o SetToSeq(Implied(linked[n - 1], rules[n]))
            ELSE linked[n - 1]
    IN  linked[Len(rules)]
=============================================================================

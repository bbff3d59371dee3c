------------------------------ MODULE PolicyIR ------------------------------
(***************************************************************************)
(* The behaviour rules of the policy compiler (policy/ir.rs), the relation *)
(* between file patterns its passes reason with, and what a sequence of    *)
(* rules permits once the loader has written it to the kernel maps.        *)
(*                                                                         *)
(* Left out of a rule: its id, unique and only reported, and its metadata  *)
(* (counts, confidence, times), which no decision looks at.                *)
(***************************************************************************)
EXTENDS PathClassify, FiniteSets, SequencesExt

CONSTANTS
    Paths,             \* resolved paths: what is opened or executed
    PREFIX_MAX_LEN,    \* 128: bytes of a prefix the loader stores
    MAX_PREFIX_SLOTS,  \* 64: prefixes the loader stores per cgroup
    NoAddr             \* an absent ip, port or protocol

ASSUME PathAssumption ==
    /\ \A path \in Paths : IsSequence(path)
    /\ PREFIX_MAX_LEN \in Nat /\ MAX_PREFIX_SLOTS \in Nat

Exact(path) == [form |-> "exact", key |-> path]
Prefix(dir) == [form |-> "prefix", key |-> dir]
Classified(class) == [form |-> "class", key |-> class]

File(pattern, is_sensitive) ==
    [kind |-> "file", pattern |-> pattern, is_sensitive |-> is_sensitive]
Process(binary) == [kind |-> "process", binary |-> binary]
Network(ip, port, protocol) ==
    [kind |-> "network", ip |-> ip, port |-> port, protocol |-> protocol]

NewRule(subject, object, action, verdict) ==
    [subject |-> subject, object |-> object, action |-> action, verdict |-> verdict]

FileActions == {"FileOpen", "FileRead", "FileWrite"}

IsFile(r) == r.object.kind = "file" /\ r.action \in FileActions
HasForm(r, form) == IsFile(r) /\ r.object.pattern.form = form

\* BehaviorRule::signature: everything but the verdict.
signature(r) == <<r.subject, r.object, r.action>>

-----------------------------------------------------------------------------
(* FilePattern::relation_to *)

\* The fixed head of a glob: the part before its first wildcard or placeholder.
glob_literal_root(glob) ==
    LET literal(n) == ~\E i \in 0..(n - 1), c \in {"*", "?", "<"} : HasAt(glob, i, c)
    IN  SubSeq(glob, 1, CHOOSE n \in 0..Len(glob) :
                            literal(n) /\ (n = Len(glob) \/ ~literal(n + 1)))

Root == [c \in Classes |-> glob_literal_root(as_str[c])]

\* What the characters of the words and globs say: how long they are, that the
\* head of a glob is what classify_path looks for, and that no head ends in a
\* doubled character.  (Provers that know no characters are told so.)
ASSUME LiteralAssumption ==
    /\ \A w \in {"", "/", "**", "/*", "/proc/*", "/proc/*/**", "/proc/", "/sys/", "/run/", "/dev/",
                "/tmp/", "sys/", "net/", "class/net/", "docker/", "user/", "pts/", "shm/", "tmp"}
               \cup {as_str[c] : c \in Classes} : IsSequence(w)
    /\ Len("") = 0 /\ Len("/") = 1 /\ Len("**") = 2 /\ Len("/*") = 2
    /\ Len("/proc/") = 6 /\ \A w \in {"/sys/", "/run/", "/dev/", "/tmp/"} : Len(w) = 5
    /\ \A c \in {ProcWords[w] : w \in DOMAIN ProcWords} \cup {"ProcPidOther", "ProcGlobal"}
               \cup {ProcWholeWords[w] : w \in DOMAIN ProcWholeWords} : Root[c] = "/proc/"
    /\ Root["Regular"] = "" /\ Root["ProcGlobalSys"] = "/proc/" \o "sys/"
    /\ Root["ProcGlobalNet"] = "/proc/" \o "net/"
    /\ Root["SysOther"] = "/sys/" /\ Root["SysClassNet"] = "/sys/" \o "class/net/"
    /\ Root["RunOther"] = "/run/" /\ Root["RunDocker"] = "/run/" \o "docker/"
    /\ Root["RunUser"] = "/run/" \o "user/" /\ Root["DevOther"] = "/dev/"
    /\ Root["DevPts"] = "/dev/" \o "pts/" /\ Root["DevShm"] = "/dev/" \o "shm/"
    /\ Root["TmpOther"] = "/tmp/" /\ Root["TmpRandom"] = "/tmp/" \o "tmp"
    /\ \A c \in Classes \ {"Regular"} :
          LET n == Len(Root[c])
          IN  /\ IsSequence(Root[c]) /\ n \in 2..SHORT_COPY
              /\ SubSeq(Root[c], n, n) # SubSeq(Root[c], n - 1, n - 1)

\* Mutant: a prefix inside the variable part of the glob is taken to cover it.
prefix_vs_glob_covers(pre, root) ==
    IF StartsWith(root, pre) \/ StartsWith(pre, root) THEN "Superset" ELSE "Disjoint"

prefix_vs_glob(pre, root) ==
    IF StartsWith(root, pre) THEN "Superset"
    ELSE IF StartsWith(pre, root) THEN "Overlap" ELSE "Disjoint"

exact_vs_glob(path, root) == IF StartsWith(path, root) THEN "Overlap" ELSE "Disjoint"

classified_vs_classified(ra, rb) ==
    IF StartsWith(ra, rb) \/ StartsWith(rb, ra) THEN "Overlap" ELSE "Disjoint"

swap(relation) ==
    IF relation = "Superset" THEN "Subset"
    ELSE IF relation = "Subset" THEN "Superset" ELSE relation

\* Distinct patterns, in one order of their forms ...
Relation(a, b) ==
    CASE a.form = "exact" /\ b.form = "exact" -> "Disjoint"
      [] a.form = "prefix" /\ b.form = "prefix" ->
            IF StartsWith(b.key, a.key) THEN "Superset"
            ELSE IF StartsWith(a.key, b.key) THEN "Subset" ELSE "Disjoint"
      [] a.form = "prefix" /\ b.form = "exact" ->
            IF StartsWith(b.key, a.key) THEN "Superset" ELSE "Disjoint"
      [] a.form = "class" /\ b.form = "class" ->
            classified_vs_classified(Root[a.key], Root[b.key])
      [] a.form = "prefix" /\ b.form = "class" -> prefix_vs_glob(a.key, Root[b.key])
      [] a.form = "exact" /\ b.form = "class" -> exact_vs_glob(a.key, Root[b.key])

\* ... and the others as their mirror images.
relation_to(a, b) ==
    IF a = b THEN "Equal"
    ELSE IF <<a.form, b.form>> \in {<<"exact", "prefix">>, <<"class", "prefix">>, <<"class", "exact">>}
    THEN swap(Relation(b, a)) ELSE Relation(a, b)

-----------------------------------------------------------------------------
(* What the kernel decides from rules loaded in this order (PolicyLoader has  *)
(* the maps; here only their meaning is needed).                             *)

Stored(prefix) ==
    IF Len(prefix) <= PREFIX_MAX_LEN THEN prefix ELSE SubSeq(prefix, 1, PREFIX_MAX_LEN)

Class == [path \in Paths |-> ClassOf(path)]

\* The paths a pattern matches at the hooks.
Matches(pattern, path) ==
    CASE pattern.form = "exact"  -> path = pattern.key
      [] pattern.form = "class"  -> pattern.key # "Regular" /\ Class[path] = pattern.key
      [] pattern.form = "prefix" -> StartsWith(path, Stored(pattern.key))

ModeOf(action) == IF action = "FileWrite" THEN "write" ELSE "read"

\* Classes the loader whitelists together when one of them has an entry.
CategoryGroups ==
    {{"ProcGlobal", "ProcGlobalSys", "ProcGlobalNet"},
     {"ProcPidCmdline", "ProcPidComm", "ProcPidCwd", "ProcPidExe", "ProcPidFd",
      "ProcPidMountinfo", "ProcPidMounts", "ProcPidNet", "ProcPidNs", "ProcPidStat",
      "ProcPidStatus", "ProcPidTask", "ProcPidCgroup", "ProcPidOther", "ProcSelf"},
     {"SysCgroupDocker", "SysCgroupOther", "SysClassNet", "SysOther"},
     {"RunDocker", "RunUser", "RunOther"},
     {"DevPts", "DevShm", "DevOther"},
     {"TmpRandom", "TmpOther"}}

\* A rule that allows adds its mode to the exact entry, any other clears it.
InMask(rules, S, mode) ==
    \E i \in S : /\ rules[i].verdict = "Allow" /\ ModeOf(rules[i].action) = mode
                 /\ \A j \in S : j > i => rules[j].verdict = "Allow"

\* The last of the rules at S, whose entry has replaced those of the others, or
\* the first, whose slot is looked at first, does not deny.
LastAllows(rules, S) == \E i \in S : rules[i].verdict # "Deny" /\ \A j \in S : j <= i
FirstAllows(rules, S) == \E i \in S : rules[i].verdict # "Deny" /\ \A j \in S : i <= j

\* The rules with an entry for the path itself, for a class, in a prefix slot.
ExactRules(rules, path) ==
    {i \in DOMAIN rules : HasForm(rules[i], "exact") /\ rules[i].object.pattern.key = path}
ClassRules(rules, classes) ==
    {i \in DOMAIN rules : HasForm(rules[i], "class") /\ rules[i].object.pattern.key \in classes}
PrefixRules(rules) == {i \in DOMAIN rules : HasForm(rules[i], "prefix")}

PrefixesUnder(rules, path) ==
    {i \in PrefixRules(rules) :
        /\ Cardinality({j \in PrefixRules(rules) : j < i}) < MAX_PREFIX_SLOTS
        /\ Matches(rules[i].object.pattern, path)}

\* A class that is whitelisted with the path's has an entry.
HasSibling(rules, path) ==
    \E g \in CategoryGroups : Class[path] \in g /\ ClassRules(rules, g) # {}

\* What the tiers after the exact entries decide; they know no modes.
BroadPermitted(rules, path) ==
    LET own == ClassRules(rules, {Class[path]})
    IN  IF Class[path] # "Regular" /\ (own # {} \/ HasSibling(rules, path))
        THEN own = {} \/ LastAllows(rules, own)
        ELSE FirstAllows(rules, PrefixesUnder(rules, path))

FilePermitted(rules, path, mode) ==
    IF ExactRules(rules, path) # {} THEN InMask(rules, ExactRules(rules, path), mode)
    ELSE BroadPermitted(rules, path)

ExecPermitted(rules, path) ==
    LastAllows(rules, {i \in DOMAIN rules : rules[i].action = "ProcExec" /\ rules[i].object.binary = path})

\* The key has no protocol; port 0 is the wildcard entry.
ConnectRules(rules, ip, port) ==
    {i \in DOMAIN rules : /\ rules[i].action = "NetConnect" /\ rules[i].object.ip = ip
                          /\ IF rules[i].object.port = NoAddr THEN port = 0
                             ELSE rules[i].object.port = port}

ConnectPermitted(rules, ip, port) ==
    LastAllows(rules, IF ConnectRules(rules, ip, port) # {} THEN ConnectRules(rules, ip, port)
                      ELSE ConnectRules(rules, ip, 0))
=============================================================================

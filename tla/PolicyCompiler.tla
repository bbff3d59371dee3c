--------------------------- MODULE PolicyCompiler ---------------------------
(***************************************************************************)
(* The policy compiler as main.rs and the cross-format tools run it: a     *)
(* recorded profile is translated, or an AppArmor profile parsed, to rules *)
(* the passes run one after the other on each other's results, exec rules  *)
(* are linked to the file rules they need, and the result is loaded, or    *)
(* lowered to an AppArmor profile that may be parsed again.                *)
(***************************************************************************)
EXTENDS PolicyPasses, AppArmor

CONSTANTS
    Profiles,       \* recorded profiles: sequences of events
    Imports,        \* hand-written AppArmor profiles: sequences of lines
    Destinations    \* <<ip, port>> pairs the properties ask about

\* Recorded paths are resolved; a recorded connection has an address.
ASSUME ProfileAssumption ==
    \A profile \in Profiles :
        /\ IsSequence(profile)
        /\ \A i \in DOMAIN profile :
              LET e == profile[i]
              IN  CASE e.module = "fs" -> e.path \in Paths
                    [] e.module = "network" -> e.ip # NoAddr
                    [] e.module = "process" -> IsSequence(e.path)
                    [] OTHER -> FALSE

\* A canonical form is a string again.
ASSUME ImportAssumption ==
    \A profile \in Imports :
        /\ IsSequence(profile)
        /\ \A i \in DOMAIN profile :
              LET l       == profile[i]
                  pattern == glob_to_pattern(split_path_perms(l).path)
              IN  \/ l.section = "network"
                  \/ /\ l.section \in {"file", "exec"} /\ IsSequence(l.glob)
                     /\ pattern.form # "class" => IsSequence(canonicalize_path(pattern.key))

\* A connection has an address.
ASSUME DestinationAssumption == \A d \in Destinations : d[1] # NoAddr

VARIABLES
    input,          \* [learned, no_optimize, profile]
    stage,          \* the last step done
    rules,          \* the rules after it
    raw,            \* history: the rules of the first frontend
    compiled,       \* history: the rules that were lowered
    lines           \* the emitted AppArmor profile

vars == <<input, stage, rules, raw, compiled, lines>>

\* translator.rs: fs, network and process events in this order, every rule Allow.
TranslatedEvent(e) ==
    CASE e.module = "fs" ->
           LET class == Class[e.path]
           IN  NewRule(e.subject,
                       File(IF class = "Regular" THEN Exact(e.path) ELSE Classified(class),
                            class \in SensitiveClasses),
                       IF e.r_w = "write" THEN "FileWrite" ELSE "FileRead", "Allow")
      [] e.module = "network" ->
           NewRule(e.subject, Network(e.ip, e.port, e.protocol),
                   IF e.outgoing THEN "NetConnect" ELSE "NetBind", "Allow")
      [] e.module = "process" ->
           NewRule(e.subject, Process(e.path), IF e.execve THEN "ProcExec" ELSE "ProcFork", "Allow")

translate_all_events(events) ==
    LET of(m) == Kept(events, {i \in DOMAIN events : events[i].module = m})
        all   == of("fs") \o of("network") \o of("process")
    IN  [i \in DOMAIN all |-> TranslatedEvent(all[i])]

Init ==
    /\ input \in [learned : {TRUE}, no_optimize : BOOLEAN, profile : Profiles]
                 \cup [learned : {FALSE}, no_optimize : {FALSE}, profile : Imports]
    /\ stage = "start"
    /\ rules = <<>> /\ raw = <<>> /\ compiled = {} /\ lines = <<>>

\* A frontend: translate_all_events_json or parse_apparmor.
ReadProfile ==
    /\ stage = "start"
    /\ rules' = IF input.learned THEN translate_all_events(input.profile)
                ELSE parse_apparmor(input.profile)
    /\ raw' = rules'
    /\ stage' = "raw"
    /\ UNCHANGED <<input, compiled, lines>>

\* A pass on the results of the one before.
Pass(from, to, results) ==
    /\ stage = from
    /\ rules' \in results
    /\ stage' = to
    /\ UNCHANGED <<input, raw, compiled, lines>>

Optimizing == ~input.no_optimize

\* run_pipeline_reported_with: the six passes, each on what the one before left.
RunPass ==
    \/ Pass("raw", "canonical", {Canonicalize(rules)})
    \/ Optimizing /\ Pass("canonical", "dedup", Dedup(rules))
    \/ Pass("dedup", "general", {Generalize(rules)})
    \/ Pass("general", "prefix", PrefixGeneralize(rules))
    \/ Pass("prefix", "subsumed", {Subsume(rules)})
    \/ Pass("subsumed", "optimized", Dedup(rules))

\* compile_profile: with --no-optimize only the paths are canonicalized.
LinkRules ==
    \/ Pass("optimized", "linked", {Link(rules)})
    \/ input.no_optimize /\ Pass("canonical", "linked", {Link(rules)})

\* emit_outputs
Lower ==
    /\ stage = "linked"
    /\ lines' = lower_to_apparmor(rules)
    /\ compiled' = ToSet(rules)
    /\ stage' = "lowered"
    /\ UNCHANGED <<input, rules, raw>>

\* The emitted profile is parsed back.
Reimport ==
    /\ stage = "lowered"
    /\ rules' = parse_apparmor(lines)
    /\ stage' = "reimported"
    /\ UNCHANGED <<input, raw, compiled, lines>>

Next == ReadProfile \/ RunPass \/ LinkRules \/ Lower \/ Reimport

Spec == Init /\ [][Next]_vars

-----------------------------------------------------------------------------
Modes == {"read", "write"}

Compiling == stage \notin {"start", "reimported"}

AllowOnly == \A i \in DOMAIN raw : raw[i].verdict = "Allow"

\* Exact paths that the classes of the passes and of the kernel disagree on.
Misclassified == {path \in Paths : try_classify(path) \notin {"Regular", Class[path]}}

\* An entry for the path itself, which has another mode only, hides the broader
\* rules that let the path through.
HiddenByExact(path, mode) ==
    /\ ExactRules(rules, path) # {}
    /\ \A i \in ExactRules(rules, path) : ModeOf(rules[i].action) # mode
    /\ BroadPermitted(rules, path)

\* Patterns the relation is wrong about: the kernel finds a docker component
\* anywhere under /sys and takes fs/cgroup for a prefix of a name, and stores a
\* long prefix cut short.
Unsound(pattern) ==
    \/ pattern \in {Classified("SysCgroupDocker"), Classified("SysCgroupOther")}
    \/ pattern.form = "prefix" /\ Len(pattern.key) > PREFIX_MAX_LEN

\* A rule for the path's class, or for one whitelisted with it, fell to a prefix
\* that does not contain the path.
SwallowedClass(path) ==
    \E i \in DOMAIN raw :
        /\ HasForm(raw[i], "class")
        /\ \A j \in DOMAIN rules :
              IsFile(rules[j]) => rules[j].object.pattern # raw[i].object.pattern
        /\ \/ Class[path] = raw[i].object.pattern.key /\ Unsound(raw[i].object.pattern)
           \/ \E g \in CategoryGroups : {Class[path], raw[i].object.pattern.key} \subseteq g
                                        /\ Class[path] # raw[i].object.pattern.key

\* What a rule is about, with its path in canonical form.
Covers(r, path) ==
    CASE HasForm(r, "exact")  -> canonicalize_path(r.object.pattern.key) = path
      [] HasForm(r, "prefix") -> Matches(Prefix(canonicalize_prefix(r.object.pattern.key)), path)
      [] HasForm(r, "class")  -> Matches(r.object.pattern, path)
      [] r.action = "ProcExec" -> r.object.binary = path
      [] OTHER -> FALSE

\* A prefix as written matches the path only because the kernel cuts it short;
\* in canonical form it names another directory.
CutShort(path) ==
    \E i \in DOMAIN raw : /\ HasForm(raw[i], "prefix")
                         /\ Matches(raw[i].object.pattern, path) /\ ~Covers(raw[i], path)

\* The loader has a slot for every prefix.
PrefixesFit == Cardinality(PrefixRules(rules)) <= MAX_PREFIX_SLOTS

(* No pass narrows a policy that only allows: what the frontend's rules let   *)
(* through is let through after every pass and after linking, in whatever    *)
(* order the HashMaps return the rules, as long as the loader has a slot for *)
(* each prefix (which ones it leaves out depends on that order).  Four cases  *)
(* are excepted.  An exact entry decides alone: where the rule for one mode   *)
(* has been folded into a directory, or is a broader one, and the rule for    *)
(* the other mode stays exact (or linking adds one for a program), the mode   *)
(* is lost although the directory still allows it.  try_classify files some   *)
(* /proc paths under a class the kernel does not give them.  A class rule     *)
(* that falls to a prefix takes along the siblings the loader would have     *)
(* whitelisted with it.  And a long prefix that is not canonical matches     *)
(* more before it is canonicalized.                                          *)
PermittedStaysPermitted ==
    Compiling /\ AllowOnly /\ PrefixesFit =>
        /\ \A path \in Paths, mode \in Modes :
              FilePermitted(raw, path, mode)
                  => \/ FilePermitted(rules, path, mode)
                     \/ HiddenByExact(path, mode)
                     \/ path \in Misclassified
                     \/ SwallowedClass(path)
                     \/ CutShort(path)
        /\ \A path \in Paths : ExecPermitted(raw, path) => ExecPermitted(rules, path)
        /\ \A d \in Destinations :
              ConnectPermitted(raw, d[1], d[2]) => ConnectPermitted(rules, d[1], d[2])

\* Denied for the mode by a rule of a tier that decides for the path, and allowed
\* for that mode by none (to execute a program is to read it).
Denied(path, mode) ==
    /\ \E i \in DOMAIN raw :
          /\ raw[i].verdict = "Deny" /\ IsFile(raw[i]) /\ Covers(raw[i], path)
          /\ ModeOf(raw[i].action) = mode
          /\ HasForm(raw[i], "prefix") => Class[path] = "Regular"
    /\ ~\E i \in DOMAIN raw : /\ raw[i].verdict = "Allow" /\ Covers(raw[i], path)
                              /\ ModeOf(raw[i].action) = mode

\* No exact entry decides, and a class or a directory of the profile allows the
\* other mode: the entries of these tiers know no modes.
OpenForOtherMode(path, mode) ==
    /\ ExactRules(rules, path) = {}
    /\ \E i \in DOMAIN raw :
          /\ HasForm(raw[i], "class") \/ HasForm(raw[i], "prefix")
          /\ raw[i].verdict = "Allow" /\ Covers(raw[i], path) /\ ModeOf(raw[i].action) # mode

\* A file the profile allows becomes a rule for the class of the path.
AllowedNamesake(path) ==
    \E i \in DOMAIN raw :
        /\ HasForm(raw[i], "exact") /\ raw[i].verdict = "Allow"
        /\ try_classify(canonicalize_path(raw[i].object.pattern.key)) = Class[path]

\* The path has no entry of its own and is let through with a sibling's class.
WhitelistedAsSibling(path) ==
    /\ ExactRules(rules, path) = {} /\ ClassRules(rules, {Class[path]}) = {}
    /\ HasSibling(rules, path)

(* An access an imported profile denies, and allows by no rule for its mode,  *)
(* is denied after every pass: folding allowed files into their directory    *)
(* does not let denied ones through, in any order of the prefixes.  One      *)
(* exception concerns every path: below a directory (or in a class) that is  *)
(* allowed for the other mode, a deny rule for this one decides only as an   *)
(* exact entry.  For a classified path there are three more.  A file that is *)
(* allowed and generalized to the same class: the rules meet, and            *)
(* deduplication keeps either.  A deny rule that fell to a prefix, or that   *)
(* try_classify filed under another class: the path has no entry left and    *)
(* the loader whitelists it with its siblings.  And the classes the relation *)
(* is wrong about.                                                           *)
DeniedStaysDenied ==
    Compiling /\ stage # "raw" => \A path \in Paths, mode \in Modes :
        Denied(path, mode) /\ FilePermitted(rules, path, mode)
            => \/ OpenForOtherMode(path, mode)
               \/ /\ Class[path] # "Regular"
                  /\ \/ AllowedNamesake(path) \/ WhitelistedAsSibling(path)
                     \/ Unsound(Classified(Class[path]))

\* The files of the directory the profile shows accessed alike.
SiblingsIn(dir, r) ==
    {s \in {raw[i] : i \in DOMAIN raw} :
        /\ HasForm(s, "exact")
        /\ s.subject = r.subject /\ s.action = r.action
        /\ parent_dir(s.object.pattern.key) = dir}

(* Optimizing a recorded profile opens only directories that several          *)
(* machine-named files were seen in, deep enough and not excluded, and the   *)
(* programs seen executed: every other file stays as permitted or forbidden  *)
(* as the profile alone makes it.                                            *)
WideningBounded ==
    Compiling /\ input.learned => \A path \in Paths, mode \in Modes :
        FilePermitted(rules, path, mode) =>
            \/ FilePermitted(raw, path, mode)
            \/ mode = "read" /\ ExecPermitted(raw, path)
            \/ \E i \in DOMAIN raw :
                  /\ HasForm(raw[i], "exact")
                  /\ LET dir   == parent_dir(raw[i].object.pattern.key)
                         names == {Leaf(s.object.pattern.key, dir) : s \in SiblingsIn(dir, raw[i])}
                     IN  /\ StartsWith(path, dir)
                         /\ Cardinality(names) >= prefix_min_cluster
                         /\ Depth(dir) >= prefix_min_depth
                         /\ dir \notin sensitive_roots
                         /\ leaves_look_generated(names)

(* The relation the passes rely on is sound for the matching the hooks do:    *)
(* superset, subset and equal are never claimed without containment, and     *)
(* disjoint never of patterns that share a path ("Soundness contract",       *)
(* ir.rs), but for the patterns named above.                                 *)
RelationSound ==
    \A i, j \in DOMAIN rules :
        IsFile(rules[i]) /\ IsFile(rules[j]) =>
            LET a   == rules[i].object.pattern
                b   == rules[j].object.pattern
                rel == relation_to(a, b)
            IN  \/ Unsound(a) \/ Unsound(b)
                \/ \A path \in Paths :
                      /\ rel \in {"Equal", "Superset"} /\ Matches(b, path) => Matches(a, path)
                      /\ rel \in {"Equal", "Subset"} /\ Matches(a, path) => Matches(b, path)
                      /\ rel = "Disjoint" => ~(Matches(a, path) /\ Matches(b, path))

SameMeaning(r, s) ==
    /\ r.verdict = s.verdict
    /\ IF IsFile(r)
       THEN /\ IsFile(s) /\ ModeOf(r.action) = ModeOf(s.action)
            /\ \A path \in Paths : Matches(r.object.pattern, path) <=> Matches(s.object.pattern, path)
       ELSE r.action = s.action /\ r.object = s.object

Without(seq, i) == SubSeq(seq, 1, i - 1) \o SubSeq(seq, i + 1, Len(seq))

\* A prefix whose glob is also the glob of a class: it comes back as that class.
NamesakeOfClass(r) ==
    HasForm(r, "prefix") /\ \E c \in KNOWN_PATTERNS : as_str[c] = r.object.pattern.key \o "**"

\* A file whose name reads as a glob: it comes back as the pattern.
NameIsGlob(r) == HasForm(r, "exact") /\ glob_to_pattern(r.object.pattern.key) # r.object.pattern

\* A network rule without a protocol comes back as one for TCP.
LacksProtocol(r) == r.object.kind = "network" /\ r.object.protocol = NoAddr

\* The text of a profile does not keep the name: quoting protects no quote and no
\* line break in it, and a name without quotes may begin like a keyword.
NameNotKept(r) ==
    LET name == IF IsFile(r) THEN file_glob(r.object.pattern).glob ELSE r.object.binary
    IN  /\ r.object.kind # "network"
        /\ \/ quote_if_needed(name) /\ Chars(name) \cap {Quote, "\n"} # {}
           \/ ~quote_if_needed(name) /\ (name = "" \/ \E w \in Keywords : StartsWith(name, w))

(* The friction report is honest.  A rule it calls expressed in AppArmor      *)
(* comes back from the emitted profile with the same meaning, but for a      *)
(* prefix that has the glob of a class, a file whose name is a glob, a name  *)
(* that the text does not keep, and a network rule without a protocol, which *)
(* is emitted as "stream".  A rule it calls dropped by BPF-LSM changes no    *)
(* decision (but for a prefix cut short, which the loader stores and the     *)
(* report calls dropped), and a file rule it calls expressed grants its own  *)
(* mode only.                                                                *)
FrictionHonest ==
    /\ stage = "reimported" =>
          \A r \in compiled :
              /\ apparmor_fidelity(r) = "Expressed"
              /\ ~NamesakeOfClass(r) /\ ~NameIsGlob(r) /\ ~NameNotKept(r) /\ ~LacksProtocol(r)
              => \E i \in DOMAIN rules : SameMeaning(r, rules[i])
    /\ stage = "linked" =>
          \A i \in DOMAIN rules :
              /\ bpf_fidelity(rules[i]) = "Dropped" /\ ~HasForm(rules[i], "prefix") =>
                    /\ \A path \in Paths, mode \in Modes :
                          FilePermitted(rules, path, mode)
                              <=> FilePermitted(Without(rules, i), path, mode)
                    /\ \A d \in Destinations :
                          ConnectPermitted(rules, d[1], d[2])
                              <=> ConnectPermitted(Without(rules, i), d[1], d[2])
              /\ IsFile(rules[i]) /\ bpf_fidelity(rules[i]) = "Expressed" =>
                    \A path \in Paths, mode \in Modes :
                        /\ Matches(rules[i].object.pattern, path)
                        /\ mode # ModeOf(rules[i].action)
                        /\ FilePermitted(rules, path, mode)
                        => \E j \in DOMAIN rules : /\ Covers(rules[j], path)
                                                   /\ ModeOf(rules[j].action) = mode
=============================================================================

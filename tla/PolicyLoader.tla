----------------------------- MODULE PolicyLoader -----------------------------
(***************************************************************************)
(* The userspace loader of ebpf-mon/src/enforcement.rs: load_policy at     *)
(* start-up, and LoadedPolicy::rebind, which re-applies the policy under   *)
(* the cgroup id of a restarted container and then drops the old id from   *)
(* the LSM allowlist.  Each write to a kernel map is a step of its own,    *)
(* because the hooks run concurrently and see every intermediate state,    *)
(* and because any insert can fail when its map is full.                   *)
(*                                                                         *)
(* The rules are a variable chosen once: the passes keep them in a HashMap *)
(* whose iteration order differs from one execution to the next.           *)
(***************************************************************************)
EXTENDS KernelPolicy

CONSTANTS
    Prefixes,         \* prefixes of rules, of any length
    Truncate,         \* [Prefixes -> StoredPrefixes]: first PREFIX_MAX_LEN bytes
    CategoryGroups,   \* sets of classes that are whitelisted together
    RuleOrders,       \* the rule sequences the compiled policy may arrive as
    AuditOnly,        \* --audit-only
    AllowlistSize,    \* max_entries of POLICY_CGROUPS (64 in the code)
    MapSize           \* [MapNames -> Nat]: max_entries of the rule maps

RuleVerdicts == {"Deny", "Allow", "Audit"}
FileActions == {"FileOpen", "FileRead", "FileWrite"}

Rule ==
    [tier : {"path"}, key : Paths, action : FileActions, verdict : RuleVerdicts]
    \cup [tier : {"class"}, key : Patterns, action : FileActions, verdict : RuleVerdicts]
    \cup [tier : {"prefix"}, key : Prefixes, action : FileActions, verdict : RuleVerdicts]
    \cup [tier : {"exec"}, key : Paths, action : {"ProcExec"}, verdict : RuleVerdicts]
    \cup [tier : {"net"}, key : Ips \X Ports, action : {"NetConnect"}, verdict : RuleVerdicts]
    \cup [tier : {"other"}, verdict : RuleVerdicts]   \* no BPF-LSM encoding: skipped

ASSUME LoaderAssumption ==
    /\ Truncate \in [Prefixes -> StoredPrefixes]
    /\ CategoryGroups \subseteq SUBSET Patterns
    /\ \A g, h \in CategoryGroups : g = h \/ g \cap h = {}
    /\ RuleOrders \subseteq Seq(Rule)
    /\ AuditOnly \in BOOLEAN
    /\ AllowlistSize \in Nat
    /\ MapSize \in [MapNames -> Nat]

VARIABLES
    rules,         \* LoadedPolicy.rules
    loader,        \* the bind in progress
    current_cgid,  \* main's current_cgid, NONE before the first load
    bound          \* history: cgroups whose bind ran to completion

mapVars == <<POLICY_CGROUPS, SKB_ENFORCE_CGID, maps>>
vars == <<POLICY_CGROUPS, SKB_ENFORCE_CGID, maps, rules, loader, current_cgid, bound>>

LoaderPcs == {"unloaded", "config", "skb", "rule", "expand", "remove_old",
              "ok", "err", "idle", "exited"}

Loader == [pc : LoaderPcs, cgid : CgroupIds \cup {NONE}, old : CgroupIds \cup {NONE},
           idx : Nat \ {0}, slot : 0..MAX_PREFIX_SLOTS]

TypeOK ==
    /\ MapsTypeOK
    /\ rules \in Seq(Rule)
    /\ loader \in Loader
    /\ current_cgid \in CgroupIds \cup {NONE}
    /\ bound \subseteq CgroupIds

-----------------------------------------------------------------------------
(* What one rule writes. *)

verdict_to_u8(v) == IF v = "Deny" THEN 0 ELSE IF v = "Allow" THEN 1 ELSE 2

ModeOf(action) == IF action = "FileWrite" THEN "write" ELSE "read"

MapOf(r) ==
    [path   |-> "FILE_PATH_POLICY",
     class  |-> "FILE_PATTERN_POLICY",
     prefix |-> "FILE_PREFIX_POLICY",
     exec   |-> "EXEC_PATH_POLICY",
     net    |-> "NET_CONNECT_POLICY"][r.tier]

KeyOf(r, slot) ==
    IF r.tier = "prefix" THEN slot
    ELSE IF r.tier \in {"path", "exec"} THEN PathHash[r.key] ELSE r.key

\* Mutants: the action where its mode belongs; the last rule of a path wins.
PathMaskAction(r, old) == (IF old = NONE THEN {} ELSE old) \cup {r.action}
PathMaskOverwritten(r, old) == IF r.verdict # "Allow" THEN {} ELSE {ModeOf(r.action)}

\* An exact path accumulates the modes its rules allow; a rule that does not
\* allow clears it.
PathMask(r, old) ==
    IF r.verdict # "Allow" THEN {}
    ELSE (IF old = NONE THEN {} ELSE old) \cup {ModeOf(r.action)}

ValueOf(r, old) ==
    IF r.tier = "path" THEN PathMask(r, old)
    ELSE IF r.tier = "prefix"
    THEN [prefix |-> Truncate[r.key], verdict |-> verdict_to_u8(r.verdict)]
    ELSE verdict_to_u8(r.verdict)

\* Rules without an encoding, and prefixes beyond the last slot.
Skipped(r, slot) ==
    \/ r.tier = "other"
    \/ r.tier = "prefix" /\ slot >= MAX_PREFIX_SLOTS

-----------------------------------------------------------------------------
(* Kernel map inserts: BPF_ANY overwrites an entry, and fails with E2BIG when *)
(* the key is new and the map is full.                                       *)

Configured == {c \in CgroupIds : POLICY_CGROUPS[c] # NONE}

HasRoom(m, k) ==
    \/ maps[m][k] # NONE
    \/ Cardinality({e \in DOMAIN maps[m] : maps[m][e] # NONE}) < MapSize[m]

AllowlistHasRoom(c) ==
    POLICY_CGROUPS[c] # NONE \/ Cardinality(Configured) < AllowlistSize

\* Mutants: an insert error is taken for the end of the rules, or ignored by rebind.
FailEndsRules == loader' = [loader EXCEPT !.pc = "expand"]
FailDropsOld == loader' = [loader EXCEPT !.pc = "remove_old"]

Fail == loader' = [loader EXCEPT !.pc = "err"]

-----------------------------------------------------------------------------
Init ==
    /\ POLICY_CGROUPS = [c \in CgroupIds |-> NONE]
    /\ SKB_ENFORCE_CGID = NONE
    /\ maps = NoEntries
    /\ rules \in RuleOrders
    /\ loader = [pc |-> "unloaded", cgid |-> NONE, old |-> NONE, idx |-> 1, slot |-> 0]
    /\ current_cgid = NONE
    /\ bound = {}

StartBind(c, old) ==
    loader' = [pc |-> "config", cgid |-> c, old |-> old, idx |-> 1, slot |-> 0]

\* load_policy, with the LSM hooks already attached: bind for the first cgroup.
LoadPolicy(c) ==
    /\ loader.pc = "unloaded"
    /\ StartBind(c, NONE)
    /\ current_cgid' = c
    /\ UNCHANGED <<mapVars, rules, bound>>

\* Mutant: the old cgroup is dropped first.
RebindDropsFirst(c) ==
    /\ loader.pc = "idle"
    /\ c # current_cgid
    /\ StartBind(c, current_cgid)
    /\ POLICY_CGROUPS' = [POLICY_CGROUPS EXCEPT ![current_cgid] = NONE]
    /\ UNCHANGED <<SKB_ENFORCE_CGID, maps, rules, current_cgid, bound>>

\* rebind(old, new), called only when the id changed.
Rebind(c) ==
    /\ loader.pc = "idle"
    /\ c # current_cgid
    /\ StartBind(c, current_cgid)
    /\ UNCHANGED <<mapVars, rules, current_cgid, bound>>

\* apply_rules: the cgroup's configuration comes first ...
InsertConfig ==
    /\ loader.pc = "config"
    /\ IF AllowlistHasRoom(loader.cgid)
       THEN /\ POLICY_CGROUPS' = [POLICY_CGROUPS EXCEPT ![loader.cgid] =
                                    [default_action |-> 0, audit_only |-> AuditOnly]]
            /\ loader' = [loader EXCEPT !.pc = "skb"]
       ELSE Fail /\ UNCHANGED POLICY_CGROUPS
    /\ UNCHANGED <<SKB_ENFORCE_CGID, maps, rules, current_cgid, bound>>

\* ... then the id for the cgroup_skb program ...
PublishSkbCgid ==
    /\ loader.pc = "skb"
    /\ SKB_ENFORCE_CGID' = loader.cgid
    /\ loader' = [loader EXCEPT !.pc = "rule"]
    /\ UNCHANGED <<POLICY_CGROUPS, maps, rules, current_cgid, bound>>

\* ... then the rules, one map write each.
ApplyRule ==
    /\ loader.pc = "rule"
    /\ loader.idx <= Len(rules)
    /\ LET r == rules[loader.idx]
           m == MapOf(r)
           k == <<loader.cgid, KeyOf(r, loader.slot)>>
       IN  /\ ~Skipped(r, loader.slot)
           /\ IF HasRoom(m, k)
              THEN /\ maps' = [maps EXCEPT ![m][k] = ValueOf(r, maps[m][k])]
                   /\ loader' = [loader EXCEPT !.idx = @ + 1,
                                     !.slot = IF r.tier = "prefix" THEN @ + 1 ELSE @]
              ELSE Fail /\ UNCHANGED maps
    /\ UNCHANGED <<POLICY_CGROUPS, SKB_ENFORCE_CGID, rules, current_cgid, bound>>

\* Mutant: a skipped rule is not passed.
SkipRuleStays ==
    /\ loader.pc = "rule"
    /\ loader.idx <= Len(rules)
    /\ Skipped(rules[loader.idx], loader.slot)
    /\ UNCHANGED vars

SkipRule ==
    /\ loader.pc = "rule"
    /\ loader.idx <= Len(rules)
    /\ Skipped(rules[loader.idx], loader.slot)
    /\ loader' = [loader EXCEPT !.idx = @ + 1]
    /\ UNCHANGED <<mapVars, rules, current_cgid, bound>>

RulesDone ==
    /\ loader.pc = "rule"
    /\ loader.idx > Len(rules)
    /\ loader' = [loader EXCEPT !.pc = "expand"]
    /\ UNCHANGED <<mapVars, rules, current_cgid, bound>>

\* Classes without an entry in a group that has one (the expansion of a group
\* only adds entries, so the order in which they are filled does not matter).
MissingSiblings(c) ==
    {p \in Patterns :
        /\ maps.FILE_PATTERN_POLICY[<<c, p>>] = NONE
        /\ \E g \in CategoryGroups :
              p \in g /\ \E q \in g : maps.FILE_PATTERN_POLICY[<<c, q>>] # NONE}

ExpandCategory ==
    /\ loader.pc = "expand"
    /\ \E p \in MissingSiblings(loader.cgid) :
          LET k == <<loader.cgid, p>>
          IN  IF HasRoom("FILE_PATTERN_POLICY", k)
              THEN /\ maps' = [maps EXCEPT !["FILE_PATTERN_POLICY"][k] = 1]
                   /\ UNCHANGED loader
              ELSE Fail /\ UNCHANGED maps
    /\ UNCHANGED <<POLICY_CGROUPS, SKB_ENFORCE_CGID, rules, current_cgid, bound>>

\* bind returns Ok; only rebind has an old cgroup to drop.
BindDone ==
    /\ loader.pc = "expand"
    /\ MissingSiblings(loader.cgid) = {}
    /\ bound' = bound \cup {loader.cgid}
    /\ loader' = [loader EXCEPT !.pc = IF loader.old = NONE THEN "ok" ELSE "remove_old"]
    /\ UNCHANGED <<mapVars, rules, current_cgid>>

\* Mutant: the old cgroup is kept.
RemoveOldForgotten ==
    /\ loader.pc = "remove_old"
    /\ loader' = [loader EXCEPT !.pc = "ok"]
    /\ UNCHANGED <<mapVars, rules, current_cgid, bound>>

RemoveOld ==
    /\ loader.pc = "remove_old"
    /\ POLICY_CGROUPS' = [POLICY_CGROUPS EXCEPT ![loader.old] = NONE]
    /\ loader' = [loader EXCEPT !.pc = "ok"]
    /\ UNCHANGED <<SKB_ENFORCE_CGID, maps, rules, current_cgid, bound>>

\* The caller: main returns the error of load_policy and exits; the watcher
\* task logs the error of rebind and moves current_cgid on either way.
BindReturned ==
    /\ loader.pc \in {"ok", "err"}
    /\ IF loader.pc = "err" /\ loader.old = NONE
       THEN loader' = [loader EXCEPT !.pc = "exited"] /\ UNCHANGED current_cgid
       ELSE /\ loader' = [loader EXCEPT !.pc = "idle"]
            /\ current_cgid' = loader.cgid
    /\ UNCHANGED <<mapVars, rules, bound>>

BindStep ==
    \/ InsertConfig \/ PublishSkbCgid \/ ApplyRule \/ SkipRule \/ RulesDone
    \/ ExpandCategory \/ BindDone \/ RemoveOld

LoaderStep == BindStep \/ BindReturned

Next ==
    \/ \E c \in CgroupIds : LoadPolicy(c) \/ Rebind(c)
    \/ LoaderStep

Spec == Init /\ [][Next]_vars

FairSpec == Spec /\ WF_vars(LoaderStep)

-----------------------------------------------------------------------------
(* What the rules say, read off the rules and not off the maps. *)

Indices == 1 .. Len(rules)

TierRules(t) == {i \in Indices : rules[i].tier = t}

\* Prefix rules before rule i: the slot the loader gives a prefix rule i.
PrefixesBefore(i) == {j \in TierRules("prefix") : j < i}
SlotOf(i) == Cardinality(PrefixesBefore(i))

PathRulesFor(h) == {i \in TierRules("path") : PathHash[rules[i].key] = h}

ClassCovered(p) ==
    \E i \in TierRules("class") :
        \/ rules[i].key = p
        \/ \E g \in CategoryGroups : p \in g /\ rules[i].key \in g

PrefixCovered(path) ==
    \E i \in TierRules("prefix") :
        SlotOf(i) < MAX_PREFIX_SLOTS /\ path \in StartsWith[Truncate[rules[i].key]]

\* Exact rules, when the path has any, decide alone and per access mode.
FilePermitted(path, req) ==
    IF PathRulesFor(PathHash[path]) # {}
    THEN \A a \in req : \E i \in PathRulesFor(PathHash[path]) : ModeOf(rules[i].action) = a
    ELSE \/ Classify[path] # "Regular" /\ ClassCovered(Classify[path])
         \/ PrefixCovered(path)

ExecPermitted(path) ==
    \E i \in TierRules("exec") : PathHash[rules[i].key] = PathHash[path]

ConnectPermitted(ip, port) ==
    \E i \in TierRules("net") : rules[i].key \in {<<ip, port>>, <<ip, 0>>}

\* The translator gives every rule of a learned profile the verdict Allow.
AllowOnly == \A i \in Indices : rules[i].verdict = "Allow"

-----------------------------------------------------------------------------
(* Once a bind has completed, the hooks decide for that cgroup exactly what   *)
(* the (allowing) rules say, and pass everything in audit-only mode: whatever *)
(* order the rules came in, whichever cgroups have been bound, half-bound or *)
(* dropped since, and even while the same cgroup is being bound again.       *)
BoundPolicyInForce ==
    AllowOnly => \A c \in bound \cap Configured :
        /\ \A path \in Paths, req \in Requests :
              enforce_file_open(c, path, req).rc = 0
                  <=> AuditOnly \/ FilePermitted(path, req)
        /\ \A path \in Paths :
              enforce_bprm_check(c, path).rc = 0 <=> AuditOnly \/ ExecPermitted(path)
        /\ \A ip \in Ips, port \in Ports :
              enforce_socket_connect(c, ip, port).rc = 0
                  <=> AuditOnly \/ ConnectPermitted(ip, port)

(* The loader implements Coverage: the cgroups with a completed bind and an   *)
(* allowlist entry change as coverage may, failed binds included.            *)
Promise == INSTANCE Coverage WITH covered <- bound \cap Configured

CoverageKept == Promise!Spec

(* The packet verdict agrees with the connect hook of the cgroup it was       *)
(* published for, in every state of a bind ("Mirrors enforce_socket_connect", *)
(* network.rs).                                                              *)
SkbMirrorsConnect ==
    SKB_ENFORCE_CGID # NONE =>
        \A ip \in Ips, port \in Ports :
            skb_egress_verdict(ip, port) = 1
                <=> enforce_socket_connect(SKB_ENFORCE_CGID, ip, port).rc = 0

(* Audit-only is a faithful rehearsal: on the same maps it reports an access  *)
(* exactly when enforcement would block it, and blocks nothing itself.       *)
AuditRehearsesEnforcement ==
    \A c \in Configured :
        LET on  == [POLICY_CGROUPS[c] EXCEPT !.audit_only = TRUE]
            off == [POLICY_CGROUPS[c] EXCEPT !.audit_only = FALSE]
            Agree(rehearsal, real) ==
                rehearsal.rc = 0 /\ (rehearsal.audit <=> real.rc # 0)
        IN  /\ \A path \in Paths, req \in Requests :
                  Agree(file_open_tiers(on, c, path, req), file_open_tiers(off, c, path, req))
            /\ \A path \in Paths :
                  Agree(bprm_check_tiers(on, c, path), bprm_check_tiers(off, c, path))
            /\ \A ip \in Ips, port \in Ports :
                  Agree(socket_connect_tiers(on, c, ip, port),
                        socket_connect_tiers(off, c, ip, port))

(* Removing the dead cgroup keeps the allowlist from growing: at most the old *)
(* and the new cgroup are in it during a rebind, one between rebinds         *)
(* ("so repeated restarts can't fill it", enforcement.rs).                   *)
RestartsDoNotFillAllowlist ==
    /\ Cardinality(Configured) <= 2
    /\ loader.pc = "idle" => Cardinality(Configured) = 1

(* Every bind returns, with its policy complete or with an error. *)
BindReturns == loader.pc = "config" ~> loader.pc \in {"idle", "exited"}
=============================================================================

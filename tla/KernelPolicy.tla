----------------------------- MODULE KernelPolicy -----------------------------
(***************************************************************************)
(* The enforcement maps of the eBPF object and the decisions the kernel    *)
(* programs take from them: the LSM hooks enforce_file_open,               *)
(* enforce_bprm_check and enforce_socket_connect, and the verdict of the   *)
(* enforcing cgroup_skb egress program.                                    *)
(*                                                                         *)
(* Data abstraction.  A path is an opaque value with three attributes the  *)
(* hooks look at: its FNV-1a hash (PathHash, not assumed injective), the   *)
(* class classify_path gives it (Classify) and the stored prefixes it      *)
(* starts with (StartsWith).  An access-mode mask is a set of modes, the   *)
(* empty set being the byte 0.  A map is a total function whose value is   *)
(* NONE where the map has no entry.                                        *)
(***************************************************************************)
EXTENDS Integers, FiniteSets, Sequences

CONSTANTS
    CgroupIds,         \* cgroup ids (inode numbers) the workload may have
    Paths,             \* file paths
    Hashes,            \* 64-bit path hashes
    PathHash,          \* [Paths -> Hashes]: fnv1a_hash_bytes / hash_path
    Patterns,          \* path classes; "Regular" means unclassified
    Classify,          \* [Paths -> Patterns]: classify_path
    StoredPrefixes,    \* prefixes as stored: at most PREFIX_MAX_LEN bytes
    StartsWith,        \* [StoredPrefixes -> SUBSET Paths]
    Ips, Ports,        \* destinations; port 0 is the wildcard entry
    MAX_PREFIX_SLOTS,  \* prefix slots scanned per cgroup (64 in the code)
    NONE               \* no entry

ASSUME KernelAssumption ==
    /\ PathHash \in [Paths -> Hashes]
    /\ Classify \in [Paths -> Patterns]
    /\ StartsWith \in [StoredPrefixes -> SUBSET Paths]
    /\ "Regular" \in Patterns
    /\ Ports \subseteq Nat /\ 0 \in Ports
    /\ MAX_PREFIX_SLOTS \in Nat \ {0}
    /\ NONE \notin CgroupIds

VARIABLES
    POLICY_CGROUPS,    \* cgroup id -> configuration: the LSM allowlist
    SKB_ENFORCE_CGID,  \* cgroup id published for the cgroup_skb program
    maps               \* the five rule maps, keyed by <<cgroup id, key>>

Modes == {"read", "write"}          \* ACCESS_READ, ACCESS_WRITE
Verdicts == 0..2                    \* Deny, Allow, Audit
Slots == 0 .. (MAX_PREFIX_SLOTS - 1)

PolicyConfig == [default_action : 0..1, audit_only : BOOLEAN]

PrefixEntry == [prefix : StoredPrefixes, verdict : Verdicts]

PolicyKeys ==
    [FILE_PATH_POLICY    |-> Hashes,
     FILE_PATTERN_POLICY |-> Patterns,
     FILE_PREFIX_POLICY  |-> Slots,
     EXEC_PATH_POLICY    |-> Hashes,
     NET_CONNECT_POLICY  |-> Ips \X Ports]

PolicyValues ==
    [FILE_PATH_POLICY    |-> SUBSET Modes,
     FILE_PATTERN_POLICY |-> Verdicts,
     FILE_PREFIX_POLICY  |-> PrefixEntry,
     EXEC_PATH_POLICY    |-> Verdicts,
     NET_CONNECT_POLICY  |-> Verdicts]

MapNames == {"FILE_PATH_POLICY", "FILE_PATTERN_POLICY", "FILE_PREFIX_POLICY",
             "EXEC_PATH_POLICY", "NET_CONNECT_POLICY"}

NoEntries == [m \in MapNames |-> [k \in CgroupIds \X PolicyKeys[m] |-> NONE]]

\* NONE stands for "no entry" and is no value of a map.
ASSUME NoneAssumption ==
    /\ \A config \in PolicyConfig : config # NONE
    /\ \A m \in MapNames : \A v \in PolicyValues[m] : v # NONE

MapsTypeOK ==
    /\ POLICY_CGROUPS \in [CgroupIds -> PolicyConfig \cup {NONE}]
    /\ SKB_ENFORCE_CGID \in CgroupIds \cup {NONE}
    /\ DOMAIN maps = MapNames
    /\ \A m \in MapNames :
          maps[m] \in [CgroupIds \X PolicyKeys[m] -> PolicyValues[m] \cup {NONE}]

-----------------------------------------------------------------------------
(* Outcomes of a hook: the return code and whether it emitted an audit event. *)

Pass == [rc |-> 0, audit |-> FALSE]

verdict_to_rc(v) == IF v = 0 THEN -1 ELSE 0

\* Mutant: the stored verdict is returned as it is.
VerdictOutcomeRaw(config, v) == [rc |-> v, audit |-> FALSE]

\* A map entry holding a plain verdict decided.
VerdictOutcome(config, v) ==
    IF config.audit_only /\ v = 0
    THEN [rc |-> 0, audit |-> TRUE]
    ELSE [rc |-> verdict_to_rc(v), audit |-> FALSE]

\* Mutant: audit-only stays silent.
RefuseSilently(config) ==
    [rc |-> IF config.audit_only THEN 0 ELSE -1, audit |-> ~config.audit_only]

\* An access the policy does not cover: always reported, blocked unless audit-only.
Refuse(config) == [rc |-> IF config.audit_only THEN 0 ELSE -1, audit |-> TRUE]

\* No rule matched.
DefaultOutcome(config) == IF config.default_action = 0 THEN Refuse(config) ELSE Pass

-----------------------------------------------------------------------------
(* security_file_open *)

\* Slots the scan of check_prefix_match gets to: it stops at the first hole.
ScannedSlots(c) ==
    {s \in Slots : \A t \in 0..s : maps.FILE_PREFIX_POLICY[<<c, t>>] # NONE}

MatchingSlots(c, path) ==
    {s \in ScannedSlots(c) :
        path \in StartsWith[maps.FILE_PREFIX_POLICY[<<c, s>>].prefix]}

FirstSlot(S) == CHOOSE s \in S : \A t \in S : s <= t

\* The decision once the cgroup's configuration has been read.
file_open_tiers(config, c, path, req) ==
    LET mask  == maps.FILE_PATH_POLICY[<<c, PathHash[path]>>]
        class == maps.FILE_PATTERN_POLICY[<<c, Classify[path]>>]
        slots == MatchingSlots(c, path)
    IN  IF mask # NONE
        THEN IF mask # {} /\ req \subseteq mask THEN Pass ELSE Refuse(config)
        ELSE IF Classify[path] # "Regular" /\ class # NONE
        THEN VerdictOutcome(config, class)
        ELSE IF slots # {}
        THEN VerdictOutcome(config,
                 maps.FILE_PREFIX_POLICY[<<c, FirstSlot(slots)>>].verdict)
        ELSE DefaultOutcome(config)

enforce_file_open(c, path, req) ==
    IF POLICY_CGROUPS[c] = NONE THEN Pass
    ELSE file_open_tiers(POLICY_CGROUPS[c], c, path, req)

(* security_bprm_check_security.  EXEC_PATTERN_POLICY is never populated, so  *)
(* the class tier always misses.                                             *)
bprm_check_tiers(config, c, path) ==
    LET v == maps.EXEC_PATH_POLICY[<<c, PathHash[path]>>]
    IN  IF v # NONE THEN VerdictOutcome(config, v) ELSE DefaultOutcome(config)

enforce_bprm_check(c, path) ==
    IF POLICY_CGROUPS[c] = NONE THEN Pass
    ELSE bprm_check_tiers(POLICY_CGROUPS[c], c, path)

(* security_socket_connect for an AF_INET destination (any other family is    *)
(* passed without a lookup).                                                 *)
socket_connect_tiers(config, c, ip, port) ==
    LET exact    == maps.NET_CONNECT_POLICY[<<c, <<ip, port>>>>]
        wildcard == maps.NET_CONNECT_POLICY[<<c, <<ip, 0>>>>]
    IN  IF exact # NONE THEN VerdictOutcome(config, exact)
        ELSE IF wildcard # NONE THEN VerdictOutcome(config, wildcard)
        ELSE DefaultOutcome(config)

enforce_socket_connect(c, ip, port) ==
    IF POLICY_CGROUPS[c] = NONE THEN Pass
    ELSE socket_connect_tiers(POLICY_CGROUPS[c], c, ip, port)

\* Mutant: the wildcard port is forgotten.
skb_egress_exact_only(ip, port) ==
    LET c       == SKB_ENFORCE_CGID
        exact   == maps.NET_CONNECT_POLICY[<<c, <<ip, port>>>>]
        Drop(v) == v = 0 /\ ~POLICY_CGROUPS[c].audit_only
    IN  IF c = NONE THEN 1
        ELSE IF POLICY_CGROUPS[c] = NONE THEN 1
        ELSE IF exact # NONE THEN (IF Drop(exact) THEN 0 ELSE 1)
        ELSE IF Drop(POLICY_CGROUPS[c].default_action) THEN 0 ELSE 1

(* Verdict of cgroup_skb_egress_enforce for the packet that opens a           *)
(* connection: 1 passes it, 0 drops it.                                      *)
skb_egress_verdict(ip, port) ==
    LET c        == SKB_ENFORCE_CGID
        exact    == maps.NET_CONNECT_POLICY[<<c, <<ip, port>>>>]
        wildcard == maps.NET_CONNECT_POLICY[<<c, <<ip, 0>>>>]
        Drop(v)  == v = 0 /\ ~POLICY_CGROUPS[c].audit_only
    IN  IF c = NONE THEN 1
        ELSE IF POLICY_CGROUPS[c] = NONE THEN 1
        ELSE IF exact # NONE THEN (IF Drop(exact) THEN 0 ELSE 1)
        ELSE IF wildcard # NONE THEN (IF Drop(wildcard) THEN 0 ELSE 1)
        ELSE IF Drop(POLICY_CGROUPS[c].default_action) THEN 0 ELSE 1

Requests == (SUBSET Modes) \ {{}}     \* O_RDONLY, O_WRONLY, O_RDWR
=============================================================================

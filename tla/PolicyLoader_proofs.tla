-------------------------- MODULE PolicyLoader_proofs --------------------------
(***************************************************************************)
(* Theorems about the policy loader and the kernel hooks, for every set of *)
(* cgroups, paths and rules and every size of the maps.                    *)
(***************************************************************************)
EXTENDS HookRace, FiniteSetTheorems, WellFoundedInduction, TLAPS

(* The type of each of the five maps, spelled out. *)
LEMMA MapTypes ==
    ASSUME MapsTypeOK
    PROVE  /\ maps.FILE_PATH_POLICY \in [CgroupIds \X Hashes -> (SUBSET Modes) \cup {NONE}]
           /\ maps.FILE_PATTERN_POLICY \in [CgroupIds \X Patterns -> Verdicts \cup {NONE}]
           /\ maps.FILE_PREFIX_POLICY \in [CgroupIds \X Slots -> PrefixEntry \cup {NONE}]
           /\ maps.EXEC_PATH_POLICY \in [CgroupIds \X Hashes -> Verdicts \cup {NONE}]
           /\ maps.NET_CONNECT_POLICY \in [CgroupIds \X (Ips \X Ports) -> Verdicts \cup {NONE}]
  BY DEF MapsTypeOK, MapNames, PolicyKeys, PolicyValues

(* Writing a typed value under a typed key keeps the maps typed. *)
LEMMA InsertTyped ==
    ASSUME MapsTypeOK, NEW m \in MapNames, NEW c \in CgroupIds,
           NEW k \in PolicyKeys[m], NEW v \in PolicyValues[m],
           maps' = [maps EXCEPT ![m][<<c, k>>] = v],
           POLICY_CGROUPS' = POLICY_CGROUPS, SKB_ENFORCE_CGID' = SKB_ENFORCE_CGID
    PROVE  MapsTypeOK'
  <1>1. DOMAIN maps' = MapNames
    BY DEF MapsTypeOK
  <1>2. ASSUME NEW n \in MapNames
        PROVE  maps'[n] \in [CgroupIds \X PolicyKeys[n] -> PolicyValues[n] \cup {NONE}]
    <2>1. CASE n = m
      <3>1. maps'[m] = [maps[m] EXCEPT ![<<c, k>>] = v]
        BY DEF MapsTypeOK
      <3>2. maps[m] \in [CgroupIds \X PolicyKeys[m] -> PolicyValues[m] \cup {NONE}]
        BY DEF MapsTypeOK
      <3>3. QED BY <2>1, <3>1, <3>2
    <2>2. CASE n # m
      BY <2>2 DEF MapsTypeOK
    <2>3. QED BY <2>1, <2>2
  <1>3. QED BY <1>1, <1>2 DEF MapsTypeOK
-----------------------------------------------------------------------------
(* What a rule writes has the type of the map it goes to. *)
LEMMA RuleTyped ==
    ASSUME NEW r \in Rule, NEW slot \in 0..MAX_PREFIX_SLOTS, ~Skipped(r, slot),
           NEW old \in PolicyValues[MapOf(r)] \cup {NONE}
    PROVE  /\ MapOf(r) \in MapNames
           /\ KeyOf(r, slot) \in PolicyKeys[MapOf(r)]
           /\ ValueOf(r, old) \in PolicyValues[MapOf(r)]
  <1> USE KernelAssumption, LoaderAssumption
  <1>0. verdict_to_u8(r.verdict) \in Verdicts
    BY DEF Rule, RuleVerdicts, verdict_to_u8, Verdicts
  <1>1. CASE r.tier = "path"
    <2>1. MapOf(r) = "FILE_PATH_POLICY" /\ r.key \in Paths
      BY <1>1 DEF MapOf, Rule
    <2>2. KeyOf(r, slot) = PathHash[r.key] /\ ValueOf(r, old) = PathMask(r, old)
      BY <1>1 DEF KeyOf, ValueOf
    <2>3. old \in (SUBSET Modes) \cup {NONE}
      BY <2>1 DEF PolicyValues
    <2>4. PathMask(r, old) \in SUBSET Modes
      BY <2>3 DEF PathMask, ModeOf, Modes
    <2>5. QED BY <2>1, <2>2, <2>4 DEF MapNames, PolicyKeys, PolicyValues
  <1>2. CASE r.tier = "class"
    BY <1>0, <1>2 DEF Rule, MapOf, KeyOf, ValueOf, MapNames, PolicyKeys, PolicyValues
  <1>3. CASE r.tier = "prefix"
    <2>1. r.key \in Prefixes /\ slot \in Slots
      BY <1>3 DEF Rule, Skipped, Slots
    <2>2. MapOf(r) = "FILE_PREFIX_POLICY" /\ KeyOf(r, slot) = slot
      BY <1>3 DEF MapOf, KeyOf
    <2>3. ValueOf(r, old) \in PrefixEntry
      BY <1>0, <1>3, <2>1 DEF ValueOf, PrefixEntry
    <2>4. QED BY <2>1, <2>2, <2>3 DEF MapNames, PolicyKeys, PolicyValues
  <1>4. CASE r.tier = "exec"
    BY <1>0, <1>4 DEF Rule, MapOf, KeyOf, ValueOf, MapNames, PolicyKeys, PolicyValues
  <1>5. CASE r.tier = "net"
    BY <1>0, <1>5 DEF Rule, MapOf, KeyOf, ValueOf, MapNames, PolicyKeys, PolicyValues
  <1>6. r.tier \in {"path", "class", "prefix", "exec", "net"}
    BY DEF Rule, Skipped
  <1>7. QED BY <1>1, <1>2, <1>3, <1>4, <1>5, <1>6
-----------------------------------------------------------------------------
(* The bind in progress always has a cgroup to work on, and drops the old one *)
(* only when the new one is bound and configured.                            *)
BindInv ==
    /\ loader.pc # "unloaded" => loader.cgid \in CgroupIds /\ current_cgid \in CgroupIds
    /\ loader.pc \in {"skb", "rule", "expand", "remove_old"} => loader.cgid \in Configured
    /\ loader.pc = "remove_old" =>
          /\ loader.cgid \in bound
          /\ loader.old \in CgroupIds
    /\ loader.old # loader.cgid \/ loader.pc = "unloaded"

Inv == TypeOK /\ BindInv

LEMMA InitInv == Init => Inv
  <1> SUFFICES ASSUME Init PROVE Inv OBVIOUS
  <1> USE KernelAssumption, LoaderAssumption
  <1>1. MapsTypeOK
    BY DEF Init, MapsTypeOK, NoEntries
  <1>2. loader \in Loader
    BY DEF Init, Loader, LoaderPcs
  <1>3. rules \in Seq(Rule) /\ current_cgid \in CgroupIds \cup {NONE} /\ bound \subseteq CgroupIds
    BY DEF Init
  <1>4. BindInv
    BY DEF Init, BindInv
  <1>5. QED BY <1>1, <1>2, <1>3, <1>4 DEF Inv, TypeOK

(* A step that writes no kernel map keeps the maps typed. *)
LEMMA MapsUnchanged ==
    ASSUME MapsTypeOK, UNCHANGED mapVars PROVE MapsTypeOK' /\ Configured' = Configured
  BY DEF MapsTypeOK, mapVars, Configured

(* Moving the loader to another place in the code changes nothing else of it. *)
LEMMA Goes ==
    ASSUME loader \in Loader, NEW pc \in LoaderPcs, loader' = [loader EXCEPT !.pc = pc]
    PROVE  /\ loader' \in Loader
           /\ loader'.pc = pc
           /\ UNCHANGED <<loader.cgid, loader.old, loader.idx, loader.slot>>
  BY DEF Loader

(* Advancing to the next rule. *)
LEMMA Advances ==
    ASSUME loader \in Loader, NEW slot \in 0..MAX_PREFIX_SLOTS,
           loader' = [loader EXCEPT !.idx = @ + 1, !.slot = slot]
    PROVE  /\ loader' \in Loader
           /\ loader'.idx = loader.idx + 1
           /\ loader'.slot = slot
           /\ UNCHANGED <<loader.pc, loader.cgid, loader.old>>
  <1>1. loader.idx \in Nat \ {0} /\ loader.idx + 1 \in Nat \ {0}
    BY DEF Loader
  <1>2. loader' = [loader EXCEPT !.idx = loader.idx + 1, !.slot = slot]
    OBVIOUS
  <1>3. /\ loader'.idx = loader.idx + 1
        /\ loader'.slot = slot
        /\ UNCHANGED <<loader.pc, loader.cgid, loader.old>>
    BY <1>2 DEF Loader
  <1>4. loader' \in Loader
    <2> DEFINE next == loader.idx + 1
    <2>1. next \in Nat \ {0} /\ loader' = [loader EXCEPT !.idx = next, !.slot = slot]
      BY <1>1, <1>2
    <2> HIDE DEF next
    <2>2. QED BY <2>1 DEF Loader
  <1>5. QED BY <1>3, <1>4

(* What ApplyRule does: it writes the rule's value under the rule's key and   *)
(* goes on, or fails and writes nothing.                                     *)
LEMMA ApplyRuleStep ==
    ASSUME Inv, ApplyRule
    PROVE  LET r == rules[loader.idx]
               key == KeyOf(r, loader.slot)
               old == maps[MapOf(r)][<<loader.cgid, key>>]
           IN  /\ r \in Rule /\ ~Skipped(r, loader.slot)
               /\ loader.idx \in 1..Len(rules) /\ loader.pc = "rule"
               /\ loader.cgid \in CgroupIds
               /\ MapOf(r) \in MapNames
               /\ key \in PolicyKeys[MapOf(r)]
               /\ old \in PolicyValues[MapOf(r)] \cup {NONE}
               /\ ValueOf(r, old) \in PolicyValues[MapOf(r)]
               /\ UNCHANGED <<POLICY_CGROUPS, SKB_ENFORCE_CGID, rules, current_cgid, bound>>
               /\ \/ /\ maps' = [maps EXCEPT ![MapOf(r)][<<loader.cgid, key>>] = ValueOf(r, old)]
                     /\ loader' \in Loader
                     /\ loader'.idx = loader.idx + 1
                     /\ loader'.slot = IF r.tier = "prefix" THEN loader.slot + 1 ELSE loader.slot
                     /\ UNCHANGED <<loader.pc, loader.cgid, loader.old>>
                  \/ /\ UNCHANGED maps
                     /\ loader' \in Loader
                     /\ loader'.pc = "err"
                     /\ UNCHANGED <<loader.cgid, loader.old, loader.idx, loader.slot>>
  <1> DEFINE r == rules[loader.idx]
             m == MapOf(r)
             key == KeyOf(r, loader.slot)
             k == <<loader.cgid, key>>
             old == maps[m][k]
  <1>1. MapsTypeOK /\ rules \in Seq(Rule) /\ loader \in Loader /\ BindInv
    BY DEF Inv, TypeOK
  <1>2. loader.pc = "rule" /\ loader.idx \in 1..Len(rules) /\ loader.slot \in 0..MAX_PREFIX_SLOTS
    BY <1>1 DEF ApplyRule, Loader
  <1>3. r \in Rule /\ ~Skipped(r, loader.slot)
    BY <1>1, <1>2 DEF ApplyRule
  <1>4. m \in MapNames
    BY <1>3 DEF Rule, Skipped, MapOf, MapNames
  <1>5. loader.cgid \in CgroupIds
    BY <1>1, <1>2 DEF BindInv
  <1>6. key \in PolicyKeys[m]
    BY <1>2, <1>3, RuleTyped
  <1>7. old \in PolicyValues[m] \cup {NONE}
    <2> HIDE DEF m, key
    <2>1. maps[m] \in [CgroupIds \X PolicyKeys[m] -> PolicyValues[m] \cup {NONE}]
      BY <1>1, <1>4 DEF MapsTypeOK
    <2>2. QED BY <1>5, <1>6, <2>1
  <1>8. ValueOf(r, old) \in PolicyValues[m]
    BY <1>2, <1>3, <1>7, RuleTyped
  <1>9. UNCHANGED <<POLICY_CGROUPS, SKB_ENFORCE_CGID, rules, current_cgid, bound>>
    BY DEF ApplyRule
  <1>10. CASE HasRoom(m, k)
    <2> DEFINE slot == IF r.tier = "prefix" THEN loader.slot + 1 ELSE loader.slot
    <2>1. /\ maps' = [maps EXCEPT ![m][k] = ValueOf(r, old)]
          /\ loader' = [loader EXCEPT !.idx = @ + 1, !.slot = slot]
      BY <1>10 DEF ApplyRule
    <2>2. slot \in 0..MAX_PREFIX_SLOTS
      BY <1>2, <1>3, KernelAssumption DEF Skipped
    <2>3. /\ loader' \in Loader
          /\ loader'.idx = loader.idx + 1
          /\ loader'.slot = slot
          /\ UNCHANGED <<loader.pc, loader.cgid, loader.old>>
      <3> HIDE DEF slot
      <3>1. QED BY <1>1, <2>1, <2>2, Advances
    <2>4. QED BY <1>2, <1>3, <1>4, <1>5, <1>6, <1>7, <1>8, <1>9, <2>1, <2>3
  <1>11. CASE ~HasRoom(m, k)
    <2>1. UNCHANGED maps /\ loader' = [loader EXCEPT !.pc = "err"]
      BY <1>11 DEF ApplyRule, Fail
    <2>2. /\ loader' \in Loader
          /\ loader'.pc = "err"
          /\ UNCHANGED <<loader.cgid, loader.old, loader.idx, loader.slot>>
      BY <1>1, <2>1, Goes DEF LoaderPcs
    <2>3. QED BY <1>2, <1>3, <1>4, <1>5, <1>6, <1>7, <1>8, <1>9, <2>1, <2>2
  <1>12. QED BY <1>10, <1>11

(* What ExpandCategory does: it allows one missing class, or fails. *)
LEMMA ExpandStep ==
    ASSUME Inv, ExpandCategory
    PROVE  /\ loader.pc = "expand" /\ loader.cgid \in CgroupIds
           /\ UNCHANGED <<POLICY_CGROUPS, SKB_ENFORCE_CGID, rules, current_cgid, bound>>
           /\ \/ /\ \E p \in MissingSiblings(loader.cgid) :
                       maps' = [maps EXCEPT !["FILE_PATTERN_POLICY"][<<loader.cgid, p>>] = 1]
                 /\ UNCHANGED loader
              \/ /\ UNCHANGED maps
                 /\ loader' \in Loader
                 /\ loader'.pc = "err"
                 /\ UNCHANGED <<loader.cgid, loader.old, loader.idx, loader.slot>>
  <1>1. loader \in Loader /\ loader.pc = "expand" /\ loader.cgid \in CgroupIds
    BY DEF Inv, TypeOK, BindInv, ExpandCategory
  <1>2. UNCHANGED <<POLICY_CGROUPS, SKB_ENFORCE_CGID, rules, current_cgid, bound>>
    BY DEF ExpandCategory
  <1>3. PICK p \in MissingSiblings(loader.cgid) :
           IF HasRoom("FILE_PATTERN_POLICY", <<loader.cgid, p>>)
           THEN /\ maps' = [maps EXCEPT !["FILE_PATTERN_POLICY"][<<loader.cgid, p>>] = 1]
                /\ UNCHANGED loader
           ELSE Fail /\ UNCHANGED maps
    BY DEF ExpandCategory
  <1>4. CASE HasRoom("FILE_PATTERN_POLICY", <<loader.cgid, p>>)
    BY <1>1, <1>2, <1>3, <1>4
  <1>5. CASE ~HasRoom("FILE_PATTERN_POLICY", <<loader.cgid, p>>)
    <2>1. UNCHANGED maps /\ loader' = [loader EXCEPT !.pc = "err"]
      BY <1>3, <1>5 DEF Fail
    <2>2. QED BY <1>1, <1>2, <2>1, Goes DEF LoaderPcs
  <1>6. QED BY <1>4, <1>5

LEMMA NextInv == Inv /\ [Next]_vars => Inv'
  <1> SUFFICES ASSUME Inv, [Next]_vars PROVE Inv' OBVIOUS
  <1>0. /\ MapsTypeOK /\ rules \in Seq(Rule) /\ loader \in Loader
        /\ current_cgid \in CgroupIds \cup {NONE} /\ bound \subseteq CgroupIds
        /\ BindInv
    BY DEF Inv, TypeOK
  <1>1. ASSUME NEW c \in CgroupIds, LoadPolicy(c) PROVE Inv'
    <2>1. MapsTypeOK' /\ Configured' = Configured
      BY <1>0, <1>1, MapsUnchanged DEF LoadPolicy
    <2>2. loader' \in Loader
      BY <1>1, KernelAssumption DEF LoadPolicy, StartBind, Loader, LoaderPcs
    <2>3. BindInv'
      BY <1>0, <1>1, <2>1, KernelAssumption DEF LoadPolicy, StartBind, BindInv
    <2>4. QED BY <1>0, <1>1, <2>1, <2>2, <2>3 DEF LoadPolicy, Inv, TypeOK
  <1>2. ASSUME NEW c \in CgroupIds, Rebind(c) PROVE Inv'
    <2>1. MapsTypeOK' /\ Configured' = Configured
      BY <1>0, <1>2, MapsUnchanged DEF Rebind
    <2>2. loader' \in Loader
      BY <1>0, <1>2, KernelAssumption DEF Rebind, StartBind, Loader, LoaderPcs
    <2>3. BindInv'
      BY <1>0, <1>2, <2>1 DEF Rebind, StartBind, BindInv
    <2>4. QED BY <1>0, <1>2, <2>1, <2>2, <2>3 DEF Rebind, Inv, TypeOK
  <1>3. CASE InsertConfig
    <2> DEFINE config == [default_action |-> 0, audit_only |-> AuditOnly]
    <2>1. loader.cgid \in CgroupIds /\ config \in PolicyConfig
      BY <1>0, <1>3, LoaderAssumption DEF InsertConfig, BindInv, PolicyConfig
    <2>2. CASE AllowlistHasRoom(loader.cgid)
      <3>1. /\ POLICY_CGROUPS' = [POLICY_CGROUPS EXCEPT ![loader.cgid] = config]
            /\ loader' = [loader EXCEPT !.pc = "skb"]
            /\ UNCHANGED <<SKB_ENFORCE_CGID, maps, rules, current_cgid, bound>>
        BY <1>3, <2>2 DEF InsertConfig
      <3> HIDE DEF config
      <3>2. MapsTypeOK'
        BY <1>0, <2>1, <3>1 DEF MapsTypeOK
      <3>3. POLICY_CGROUPS'[loader.cgid] = config
        BY <1>0, <2>1, <3>1 DEF MapsTypeOK
      <3>4. loader.cgid \in Configured'
        BY <2>1, <3>3, NoneAssumption DEF Configured
      <3>5. /\ loader' \in Loader
            /\ loader'.pc = "skb"
            /\ UNCHANGED <<loader.cgid, loader.old>>
        BY <1>0, <3>1, Goes DEF LoaderPcs
      <3>6. BindInv'
        BY <1>0, <1>3, <3>1, <3>4, <3>5 DEF BindInv, InsertConfig
      <3>7. QED BY <1>0, <3>1, <3>2, <3>5, <3>6 DEF Inv, TypeOK
    <2>3. CASE ~AllowlistHasRoom(loader.cgid)
      <3>1. UNCHANGED mapVars /\ loader' = [loader EXCEPT !.pc = "err"]
        BY <1>3, <2>3 DEF InsertConfig, Fail, mapVars
      <3>2. MapsTypeOK' /\ Configured' = Configured
        BY <1>0, <3>1, MapsUnchanged
      <3>3. loader' \in Loader /\ loader'.pc = "err" /\ UNCHANGED <<loader.cgid, loader.old>>
        BY <1>0, <3>1, Goes DEF LoaderPcs
      <3>4. BindInv'
        BY <1>0, <1>3, <3>3 DEF BindInv, InsertConfig
      <3>5. QED BY <1>0, <1>3, <3>2, <3>3, <3>4 DEF Inv, TypeOK, InsertConfig
    <2>4. QED BY <2>2, <2>3
  <1>4. CASE PublishSkbCgid
    <2>1. MapsTypeOK' /\ Configured' = Configured
      BY <1>0, <1>4 DEF PublishSkbCgid, MapsTypeOK, BindInv, Configured
    <2>2. loader' \in Loader /\ loader'.pc = "rule" /\ UNCHANGED <<loader.cgid, loader.old>>
      BY <1>0, <1>4, Goes DEF PublishSkbCgid, LoaderPcs
    <2>3. BindInv'
      BY <1>0, <1>4, <2>1, <2>2 DEF PublishSkbCgid, BindInv
    <2>4. QED BY <1>0, <1>4, <2>1, <2>2, <2>3 DEF PublishSkbCgid, Inv, TypeOK
  <1>5. CASE ApplyRule
    <2> DEFINE r == rules[loader.idx]
               m == MapOf(r)
               key == KeyOf(r, loader.slot)
               value == ValueOf(r, maps[m][<<loader.cgid, key>>])
    <2>1. /\ loader.cgid \in CgroupIds /\ m \in MapNames
          /\ key \in PolicyKeys[m] /\ value \in PolicyValues[m]
          /\ UNCHANGED <<POLICY_CGROUPS, SKB_ENFORCE_CGID, rules, current_cgid, bound>>
          /\ loader' \in Loader /\ UNCHANGED <<loader.cgid, loader.old>>
          /\ loader.pc = "rule" /\ loader'.pc \in {"rule", "err"}
      BY <1>5, ApplyRuleStep
    <2>2. \/ maps' = [maps EXCEPT ![m][<<loader.cgid, key>>] = value]
          \/ maps' = maps
      BY <1>5, ApplyRuleStep
    <2>3. MapsTypeOK' /\ Configured' = Configured
      <3> HIDE DEF m, key, value
      <3>1. CASE maps' = [maps EXCEPT ![m][<<loader.cgid, key>>] = value]
        BY <1>0, <2>1, <3>1, InsertTyped DEF Configured
      <3>2. CASE maps' = maps
        BY <1>0, <2>1, <3>2, MapsUnchanged DEF mapVars
      <3>3. QED BY <2>2, <3>1, <3>2
    <2>4. BindInv'
      BY <1>0, <2>1, <2>3 DEF BindInv
    <2>5. QED BY <1>0, <2>1, <2>3, <2>4 DEF Inv, TypeOK
  <1>6. CASE SkipRule
    <2>1. MapsTypeOK' /\ Configured' = Configured
      BY <1>0, <1>6, MapsUnchanged DEF SkipRule
    <2>2. loader' \in Loader /\ UNCHANGED <<loader.pc, loader.cgid, loader.old>>
      BY <1>0, <1>6 DEF SkipRule, Loader
    <2>3. BindInv'
      BY <1>0, <1>6, <2>1, <2>2 DEF SkipRule, BindInv
    <2>4. QED BY <1>0, <1>6, <2>1, <2>2, <2>3 DEF SkipRule, Inv, TypeOK
  <1>7. CASE RulesDone
    <2>1. MapsTypeOK' /\ Configured' = Configured
      BY <1>0, <1>7, MapsUnchanged DEF RulesDone
    <2>2. loader' \in Loader /\ loader'.pc = "expand" /\ UNCHANGED <<loader.cgid, loader.old>>
      BY <1>0, <1>7, Goes DEF RulesDone, LoaderPcs
    <2>3. BindInv'
      BY <1>0, <1>7, <2>1, <2>2 DEF RulesDone, BindInv
    <2>4. QED BY <1>0, <1>7, <2>1, <2>2, <2>3 DEF RulesDone, Inv, TypeOK
  <1>8. CASE ExpandCategory
    <2>1. /\ loader.cgid \in CgroupIds /\ loader.pc = "expand"
          /\ UNCHANGED <<POLICY_CGROUPS, SKB_ENFORCE_CGID, rules, current_cgid, bound>>
          /\ loader' \in Loader /\ UNCHANGED <<loader.cgid, loader.old>>
          /\ loader'.pc \in {"expand", "err"}
      BY <1>0, <1>8, ExpandStep
    <2>2. MapsTypeOK' /\ Configured' = Configured
      <3>1. CASE maps' = maps
        BY <1>0, <2>1, <3>1, MapsUnchanged DEF mapVars
      <3>2. ASSUME NEW p \in MissingSiblings(loader.cgid),
                   maps' = [maps EXCEPT !["FILE_PATTERN_POLICY"][<<loader.cgid, p>>] = 1]
            PROVE  MapsTypeOK' /\ Configured' = Configured
        <4>1. /\ p \in PolicyKeys["FILE_PATTERN_POLICY"]
              /\ 1 \in PolicyValues["FILE_PATTERN_POLICY"]
              /\ "FILE_PATTERN_POLICY" \in MapNames
          BY DEF MissingSiblings, PolicyKeys, PolicyValues, MapNames, Verdicts
        <4>2. QED BY <1>0, <2>1, <3>2, <4>1, InsertTyped DEF Configured
      <3>3. QED BY <1>8, <3>1, <3>2, ExpandStep
    <2>3. BindInv'
      BY <1>0, <2>1, <2>2 DEF BindInv
    <2>4. QED BY <1>0, <2>1, <2>2, <2>3 DEF Inv, TypeOK
  <1>9. CASE BindDone
    <2>1. MapsTypeOK' /\ Configured' = Configured
      BY <1>0, <1>9, MapsUnchanged DEF BindDone
    <2>2. /\ loader' \in Loader /\ loader'.pc = IF loader.old = NONE THEN "ok" ELSE "remove_old"
          /\ UNCHANGED <<loader.cgid, loader.old>>
      BY <1>0, <1>9, Goes DEF BindDone, LoaderPcs
    <2>3. loader.old \in CgroupIds \cup {NONE}
      BY <1>0 DEF Loader
    <2>4. BindInv' /\ bound' \subseteq CgroupIds
      BY <1>0, <1>9, <2>1, <2>2, <2>3 DEF BindDone, BindInv
    <2>5. QED BY <1>0, <1>9, <2>1, <2>2, <2>4 DEF BindDone, Inv, TypeOK
  <1>10. CASE RemoveOld
    <2>1. MapsTypeOK'
      BY <1>0, <1>10 DEF RemoveOld, MapsTypeOK
    <2>2. loader' \in Loader /\ loader'.pc = "ok" /\ UNCHANGED <<loader.cgid, loader.old>>
      BY <1>0, <1>10, Goes DEF RemoveOld, LoaderPcs
    <2>3. BindInv'
      BY <1>0, <1>10, <2>2 DEF RemoveOld, BindInv
    <2>4. QED BY <1>0, <1>10, <2>1, <2>2, <2>3 DEF RemoveOld, Inv, TypeOK
  <1>11. CASE BindReturned
    <2>1. MapsTypeOK' /\ Configured' = Configured
      BY <1>0, <1>11, MapsUnchanged DEF BindReturned
    <2>2. /\ loader' \in Loader /\ loader'.pc \in {"exited", "idle"}
          /\ UNCHANGED <<loader.cgid, loader.old>>
      BY <1>0, <1>11, Goes DEF BindReturned, LoaderPcs
    <2>3. current_cgid' \in CgroupIds /\ loader.cgid \in CgroupIds
      BY <1>0, <1>11 DEF BindReturned, BindInv
    <2>4. BindInv'
      BY <1>0, <1>11, <2>2, <2>3 DEF BindReturned, BindInv
    <2>5. QED BY <1>0, <1>11, <2>1, <2>2, <2>3, <2>4 DEF BindReturned, Inv, TypeOK
  <1>12. CASE UNCHANGED vars
    <2>1. MapsTypeOK' /\ Configured' = Configured
      BY <1>0, <1>12, MapsUnchanged DEF vars, mapVars
    <2>2. QED BY <1>0, <1>12, <2>1 DEF vars, Inv, TypeOK, BindInv
  <1>13. QED
    BY <1>1, <1>2, <1>3, <1>4, <1>5, <1>6, <1>7, <1>8, <1>9, <1>10, <1>11, <1>12
    DEF Next, LoaderStep, BindStep

LEMMA InvHolds == Spec => []Inv
  BY InitInv, NextInv, PTL DEF Spec

(* Every map entry, and every field of the bind in progress, keeps its type:  *)
(* apply_rules puts only access masks into FILE_PATH_POLICY and only         *)
(* verdicts or prefix entries into the others, and never a slot the scan of  *)
(* check_prefix_match does not reach.                                        *)
THEOREM TypeCorrect == Spec => []TypeOK
  BY InvHolds, PTL DEF Inv

-----------------------------------------------------------------------------
(* The packet verdict and the connect hook agree in every state, half-bound   *)
(* cgroups included: skb_egress_verdict, which sees no task, decides from    *)
(* SKB_ENFORCE_CGID what enforce_socket_connect decides from the task.       *)
THEOREM SkbMirrors == Spec => []SkbMirrorsConnect
  <1>1. ASSUME TypeOK PROVE SkbMirrorsConnect
    <2> DEFINE c == SKB_ENFORCE_CGID
    <2> SUFFICES ASSUME c # NONE, NEW ip \in Ips, NEW port \in Ports
                 PROVE  skb_egress_verdict(ip, port) = 1
                            <=> enforce_socket_connect(c, ip, port).rc = 0
      BY DEF SkbMirrorsConnect
    <2>1. c \in CgroupIds
      BY <1>1 DEF TypeOK, MapsTypeOK
    <2>2. CASE POLICY_CGROUPS[c] = NONE
      BY <2>2 DEF skb_egress_verdict, enforce_socket_connect, Pass
    <2>3. CASE POLICY_CGROUPS[c] # NONE
      <3> DEFINE config == POLICY_CGROUPS[c]
                 exact == maps.NET_CONNECT_POLICY[<<c, <<ip, port>>>>]
                 wildcard == maps.NET_CONNECT_POLICY[<<c, <<ip, 0>>>>]
      <3>1. config \in PolicyConfig
        BY <1>1, <2>1, <2>3 DEF TypeOK, MapsTypeOK
      <3>2. config.audit_only \in BOOLEAN /\ config.default_action \in 0..1
        BY <3>1 DEF PolicyConfig
      <3> HIDE DEF c, config, exact, wildcard
      <3>3. enforce_socket_connect(c, ip, port) =
               IF exact # NONE THEN VerdictOutcome(config, exact)
               ELSE IF wildcard # NONE THEN VerdictOutcome(config, wildcard)
               ELSE DefaultOutcome(config)
        BY <2>3 DEF enforce_socket_connect, socket_connect_tiers, config, exact, wildcard
      <3>4. skb_egress_verdict(ip, port) =
               LET Drop(v) == v = 0 /\ ~config.audit_only
               IN  IF exact # NONE THEN (IF Drop(exact) THEN 0 ELSE 1)
                   ELSE IF wildcard # NONE THEN (IF Drop(wildcard) THEN 0 ELSE 1)
                   ELSE IF Drop(config.default_action) THEN 0 ELSE 1
        BY <2>3 DEF skb_egress_verdict, c, config, exact, wildcard
      <3>5. ASSUME NEW v PROVE VerdictOutcome(config, v).rc = 0 <=> ~(v = 0 /\ ~config.audit_only)
        BY <3>2 DEF VerdictOutcome, verdict_to_rc
      <3>6. DefaultOutcome(config).rc = 0 <=> ~(config.default_action = 0 /\ ~config.audit_only)
        BY <3>2 DEF DefaultOutcome, Refuse, Pass
      <3>7. QED BY <3>3, <3>4, <3>5, <3>6
    <2>4. QED BY <2>2, <2>3
  <1>2. QED BY <1>1, TypeCorrect, PTL

(* The two modes of a configuration as AuditRehearsesEnforcement compares     *)
(* them: outcomes of the same lookups under each.                            *)
LEMMA ModesAgree ==
    ASSUME NEW config \in PolicyConfig
    PROVE  LET on == [config EXCEPT !.audit_only = TRUE]
               off == [config EXCEPT !.audit_only = FALSE]
               Agree(x, y) == x.rc = 0 /\ (x.audit <=> y.rc # 0)
           IN  /\ \A v : Agree(VerdictOutcome(on, v), VerdictOutcome(off, v))
               /\ Agree(Refuse(on), Refuse(off))
               /\ Agree(DefaultOutcome(on), DefaultOutcome(off))
               /\ Agree(Pass, Pass)
  <1> DEFINE on == [config EXCEPT !.audit_only = TRUE]
             off == [config EXCEPT !.audit_only = FALSE]
  <1>1. /\ on.audit_only = TRUE /\ off.audit_only = FALSE
        /\ on.default_action = config.default_action
        /\ off.default_action = config.default_action
    BY DEF PolicyConfig
  <1> HIDE DEF on, off
  <1>2. ASSUME NEW v
        PROVE  /\ VerdictOutcome(on, v).rc = 0
               /\ VerdictOutcome(on, v).audit <=> VerdictOutcome(off, v).rc # 0
    BY <1>1 DEF VerdictOutcome, verdict_to_rc
  <1>3. Refuse(on).rc = 0 /\ (Refuse(on).audit <=> Refuse(off).rc # 0)
    BY <1>1 DEF Refuse
  <1>4. Pass.rc = 0 /\ (Pass.audit <=> Pass.rc # 0)
    BY DEF Pass
  <1>5. /\ DefaultOutcome(on).rc = 0
        /\ DefaultOutcome(on).audit <=> DefaultOutcome(off).rc # 0
    BY <1>1, <1>3, <1>4 DEF DefaultOutcome
  <1>6. QED BY <1>2, <1>3, <1>4, <1>5 DEF on, off

(* A rehearsal with --audit-only reports exactly the accesses enforcement     *)
(* would block, whatever the maps hold.                                      *)
THEOREM AuditRehearses == Spec => []AuditRehearsesEnforcement
  <1>1. ASSUME TypeOK PROVE AuditRehearsesEnforcement
    <2> SUFFICES ASSUME NEW c \in Configured
                 PROVE  LET on  == [POLICY_CGROUPS[c] EXCEPT !.audit_only = TRUE]
                            off == [POLICY_CGROUPS[c] EXCEPT !.audit_only = FALSE]
                            Agree(x, y) == x.rc = 0 /\ (x.audit <=> y.rc # 0)
                        IN  /\ \A path \in Paths, req \in Requests :
                                  Agree(file_open_tiers(on, c, path, req),
                                        file_open_tiers(off, c, path, req))
                            /\ \A path \in Paths :
                                  Agree(bprm_check_tiers(on, c, path),
                                        bprm_check_tiers(off, c, path))
                            /\ \A ip \in Ips, port \in Ports :
                                  Agree(socket_connect_tiers(on, c, ip, port),
                                        socket_connect_tiers(off, c, ip, port))
      BY DEF AuditRehearsesEnforcement
    <2> DEFINE on == [POLICY_CGROUPS[c] EXCEPT !.audit_only = TRUE]
               off == [POLICY_CGROUPS[c] EXCEPT !.audit_only = FALSE]
    <2>1. POLICY_CGROUPS[c] \in PolicyConfig
      BY <1>1 DEF TypeOK, MapsTypeOK, Configured
    <2>2. /\ \A v : /\ VerdictOutcome(on, v).rc = 0
                    /\ VerdictOutcome(on, v).audit <=> VerdictOutcome(off, v).rc # 0
          /\ Refuse(on).rc = 0 /\ (Refuse(on).audit <=> Refuse(off).rc # 0)
          /\ DefaultOutcome(on).rc = 0
          /\ DefaultOutcome(on).audit <=> DefaultOutcome(off).rc # 0
          /\ Pass.rc = 0 /\ (Pass.audit <=> Pass.rc # 0)
      BY <2>1, ModesAgree
    <2> HIDE DEF on, off
    <2>3. ASSUME NEW path \in Paths, NEW req \in Requests
          PROVE  /\ file_open_tiers(on, c, path, req).rc = 0
                 /\ file_open_tiers(on, c, path, req).audit
                        <=> file_open_tiers(off, c, path, req).rc # 0
      BY <2>2 DEF file_open_tiers
    <2>4. ASSUME NEW path \in Paths
          PROVE  /\ bprm_check_tiers(on, c, path).rc = 0
                 /\ bprm_check_tiers(on, c, path).audit
                        <=> bprm_check_tiers(off, c, path).rc # 0
      BY <2>2 DEF bprm_check_tiers
    <2>5. ASSUME NEW ip \in Ips, NEW port \in Ports
          PROVE  /\ socket_connect_tiers(on, c, ip, port).rc = 0
                 /\ socket_connect_tiers(on, c, ip, port).audit
                        <=> socket_connect_tiers(off, c, ip, port).rc # 0
      BY <2>2 DEF socket_connect_tiers
    <2>6. QED BY <2>3, <2>4, <2>5 DEF on, off
  <1>2. QED BY <1>1, TypeCorrect, PTL

-----------------------------------------------------------------------------
(* Every step of the loader is a step of Coverage or changes no coverage:     *)
(* only BindDone and InsertConfig can add a cgroup, only RemoveOld takes one *)
(* away, and then the new cgroup is covered.                                 *)
LEMMA StepCovers ==
    ASSUME Inv, [Next]_vars
    PROVE  [Promise!Next]_(bound \cap Configured)
  <1>0. /\ MapsTypeOK /\ loader \in Loader /\ bound \subseteq CgroupIds /\ BindInv
    BY DEF Inv, TypeOK
  <1> USE DEF Promise!Next, Promise!Cover, Promise!Release
  <1>1. ASSUME UNCHANGED mapVars, UNCHANGED bound PROVE UNCHANGED (bound \cap Configured)
    BY <1>0, <1>1, MapsUnchanged
  <1>2. CASE InsertConfig
    <2>1. /\ loader.cgid \in CgroupIds /\ UNCHANGED bound
          /\ \/ UNCHANGED POLICY_CGROUPS
             \/ POLICY_CGROUPS' = [POLICY_CGROUPS EXCEPT ![loader.cgid] =
                                     [default_action |-> 0, audit_only |-> AuditOnly]]
      BY <1>0, <1>2 DEF InsertConfig, BindInv
    <2>2. CASE UNCHANGED POLICY_CGROUPS
      BY <2>1, <2>2 DEF Configured
    <2>3. CASE POLICY_CGROUPS' = [POLICY_CGROUPS EXCEPT ![loader.cgid] =
                                    [default_action |-> 0, audit_only |-> AuditOnly]]
      <3>1. [default_action |-> 0, audit_only |-> AuditOnly] # NONE
        BY NoneAssumption, LoaderAssumption DEF PolicyConfig
      <3>2. Configured' = Configured \cup {loader.cgid}
        BY <1>0, <2>1, <2>3, <3>1 DEF MapsTypeOK, Configured
      <3>3. CASE loader.cgid \in bound
        BY <2>1, <3>2, <3>3
      <3>4. CASE loader.cgid \notin bound
        BY <2>1, <3>2, <3>4
      <3>5. QED BY <3>3, <3>4
    <2>4. QED BY <2>1, <2>2, <2>3
  <1>3. CASE BindDone
    <2>1. /\ loader.cgid \in Configured /\ loader.cgid \in CgroupIds
          /\ Configured' = Configured /\ bound' = bound \cup {loader.cgid}
      BY <1>0, <1>3, MapsUnchanged DEF BindDone, BindInv
    <2>2. QED BY <2>1
  <1>4. CASE RemoveOld
    <2>1. /\ loader.cgid \in bound \cap Configured /\ loader.old \in CgroupIds
          /\ loader.old # loader.cgid /\ UNCHANGED bound
      BY <1>0, <1>4 DEF RemoveOld, BindInv
    <2>2. Configured' = Configured \ {loader.old}
      BY <1>0, <1>4, <2>1 DEF RemoveOld, MapsTypeOK, Configured
    <2>3. CASE loader.old \in bound \cap Configured
      BY <2>1, <2>2, <2>3
    <2>4. CASE loader.old \notin bound \cap Configured
      BY <2>1, <2>2, <2>4
    <2>5. QED BY <2>3, <2>4
  <1>5. CASE ApplyRule \/ ExpandCategory \/ PublishSkbCgid
    BY <1>5 DEF ApplyRule, ExpandCategory, PublishSkbCgid, Configured
  <1>6. QED
    BY <1>1, <1>2, <1>3, <1>4, <1>5
    DEF Next, LoaderStep, BindStep, LoadPolicy, Rebind, SkipRule, RulesDone, BindReturned,
        vars, mapVars

(* The loader implements Coverage: a rebind that succeeds moves the complete  *)
(* policy to the new cgroup before it releases the old one, and a rebind     *)
(* that fails at any insert takes no cgroup out of coverage.                 *)
THEOREM LoaderImplementsCoverage == Spec => CoverageKept
  <1>1. Init => Promise!Init
    BY DEF Init, Promise!Init
  <1>2. Inv /\ [Next]_vars => [Promise!Next]_(bound \cap Configured)
    BY StepCovers
  <1>3. QED BY <1>1, <1>2, InvHolds, PTL DEF Spec, CoverageKept, Promise!Spec

-----------------------------------------------------------------------------
(* What POLICY_CGROUPS holds, from one step of a bind to the next, as long as *)
(* no insert has failed: the old cgroup until the bind is complete, and the  *)
(* new one from its first insert on.                                         *)
InsertFails == loader.pc = "err"

OldCgroup == IF loader.old = NONE THEN {} ELSE {loader.old}

AllowlistInv ==
    /\ loader.pc # "exited"
    /\ loader.pc = "unloaded" => Configured = {}
    /\ loader.pc = "config" => Configured = OldCgroup
    /\ loader.pc \in {"skb", "rule", "expand", "remove_old"} =>
          Configured = OldCgroup \cup {loader.cgid}
    /\ loader.pc = "ok" => Configured = {loader.cgid} /\ loader.cgid \in bound
    /\ loader.pc = "idle" => Configured = {current_cgid} /\ current_cgid \in bound

LEMMA AllowlistNextInv ==
    ASSUME Inv, AllowlistInv, [Next]_vars, ~InsertFails, ~InsertFails'
    PROVE  AllowlistInv'
  <1>0. /\ MapsTypeOK /\ loader \in Loader /\ bound \subseteq CgroupIds /\ BindInv
        /\ NONE \notin CgroupIds
    BY KernelAssumption DEF Inv, TypeOK
  <1>1. ASSUME UNCHANGED mapVars \/ UNCHANGED POLICY_CGROUPS PROVE Configured' = Configured
    BY <1>1 DEF mapVars, Configured
  <1>2. CASE UNCHANGED vars
    BY <1>1, <1>2 DEF vars, AllowlistInv, OldCgroup
  <1>3. ASSUME NEW c \in CgroupIds, LoadPolicy(c) PROVE AllowlistInv'
    <2>1. Configured' = Configured /\ loader.pc = "unloaded"
      BY <1>1, <1>3 DEF LoadPolicy
    <2>2. loader'.pc = "config" /\ loader'.old = NONE
      BY <1>3 DEF LoadPolicy, StartBind
    <2>3. QED BY <2>1, <2>2 DEF AllowlistInv, OldCgroup
  <1>4. ASSUME NEW c \in CgroupIds, Rebind(c) PROVE AllowlistInv'
    <2>1. Configured' = Configured /\ loader.pc = "idle" /\ current_cgid # NONE
      BY <1>0, <1>1, <1>4 DEF Rebind, BindInv
    <2>2. loader'.pc = "config" /\ loader'.old = current_cgid
      BY <1>4 DEF Rebind, StartBind
    <2>3. QED BY <2>1, <2>2 DEF AllowlistInv, OldCgroup
  <1>5. CASE InsertConfig
    <2>1. loader.pc = "config" /\ loader.cgid \in CgroupIds
      BY <1>0, <1>5 DEF InsertConfig, BindInv
    <2>2. AllowlistHasRoom(loader.cgid)
      <3>1. ASSUME ~AllowlistHasRoom(loader.cgid) PROVE FALSE
        BY <1>0, <1>5, <3>1, Goes DEF InsertConfig, Fail, InsertFails, LoaderPcs
      <3>2. QED BY <3>1
    <2>3. /\ POLICY_CGROUPS' = [POLICY_CGROUPS EXCEPT ![loader.cgid] =
                                  [default_action |-> 0, audit_only |-> AuditOnly]]
          /\ loader' = [loader EXCEPT !.pc = "skb"]
      BY <1>5, <2>2 DEF InsertConfig
    <2>4. [default_action |-> 0, audit_only |-> AuditOnly] # NONE
      BY NoneAssumption, LoaderAssumption DEF PolicyConfig
    <2>5. Configured' = Configured \cup {loader.cgid}
      BY <1>0, <2>1, <2>3, <2>4 DEF MapsTypeOK, Configured
    <2>6. loader'.pc = "skb" /\ UNCHANGED <<loader.cgid, loader.old>>
      BY <1>0, <2>3, Goes DEF LoaderPcs
    <2>7. QED BY <2>1, <2>5, <2>6 DEF AllowlistInv, OldCgroup
  <1>6. CASE PublishSkbCgid \/ RulesDone
    <2>1. Configured' = Configured
      BY <1>1, <1>6 DEF PublishSkbCgid, RulesDone
    <2>2. loader.pc \in {"skb", "rule"}
      BY <1>6 DEF PublishSkbCgid, RulesDone
    <2>3. PICK pc \in {"rule", "expand"} : loader' = [loader EXCEPT !.pc = pc]
      BY <1>6 DEF PublishSkbCgid, RulesDone
    <2>4. loader'.pc = pc /\ UNCHANGED <<loader.cgid, loader.old>>
      BY <1>0, <2>3, Goes DEF LoaderPcs
    <2>5. QED BY <2>1, <2>2, <2>3, <2>4 DEF AllowlistInv, OldCgroup
  <1>7. CASE ApplyRule
    <2>1. /\ UNCHANGED <<POLICY_CGROUPS, loader.pc, loader.cgid, loader.old>> /\ loader.pc = "rule"
      BY <1>7, ApplyRuleStep DEF InsertFails
    <2>2. QED BY <1>1, <2>1 DEF AllowlistInv, OldCgroup
  <1>8. CASE SkipRule
    <2>1. UNCHANGED <<POLICY_CGROUPS, loader.pc, loader.cgid, loader.old>> /\ loader.pc = "rule"
      BY <1>0, <1>8 DEF SkipRule, mapVars, Loader
    <2>2. QED BY <1>1, <2>1 DEF AllowlistInv, OldCgroup
  <1>9. CASE ExpandCategory
    <2>1. UNCHANGED <<POLICY_CGROUPS, loader>> /\ loader.pc = "expand"
      BY <1>9, ExpandStep DEF InsertFails
    <2>2. QED BY <1>1, <2>1 DEF AllowlistInv, OldCgroup
  <1>10. CASE BindDone
    <2>1. /\ loader.pc = "expand" /\ Configured' = Configured
          /\ bound' = bound \cup {loader.cgid}
      BY <1>1, <1>10 DEF BindDone
    <2>2. PICK pc \in {"ok", "remove_old"} :
             /\ loader' = [loader EXCEPT !.pc = pc]
             /\ pc = "ok" => loader.old = NONE
      BY <1>10 DEF BindDone
    <2>3. loader'.pc = pc /\ UNCHANGED <<loader.cgid, loader.old>>
      BY <1>0, <2>2, Goes DEF LoaderPcs
    <2>4. QED BY <2>1, <2>2, <2>3 DEF AllowlistInv, OldCgroup
  <1>11. CASE RemoveOld
    <2>1. /\ loader.pc = "remove_old" /\ loader.old \in CgroupIds /\ loader.old # loader.cgid
          /\ loader.cgid \in bound /\ UNCHANGED bound
          /\ loader' = [loader EXCEPT !.pc = "ok"]
      BY <1>0, <1>11 DEF RemoveOld, BindInv
    <2>2. Configured' = Configured \ {loader.old}
      BY <1>0, <1>11, <2>1 DEF RemoveOld, MapsTypeOK, Configured
    <2>3. loader'.pc = "ok" /\ UNCHANGED <<loader.cgid, loader.old>>
      BY <1>0, <2>1, Goes DEF LoaderPcs
    <2>4. Configured = {loader.old, loader.cgid}
      BY <1>0, <2>1 DEF AllowlistInv, OldCgroup
    <2>5. QED BY <2>1, <2>2, <2>3, <2>4 DEF AllowlistInv
  <1>12. CASE BindReturned
    <2>1. /\ loader.pc = "ok" /\ loader' = [loader EXCEPT !.pc = "idle"]
          /\ current_cgid' = loader.cgid /\ Configured' = Configured /\ UNCHANGED bound
      BY <1>1, <1>12 DEF BindReturned, InsertFails
    <2>2. loader'.pc = "idle"
      BY <1>0, <2>1, Goes DEF LoaderPcs
    <2>3. QED BY <2>1, <2>2 DEF AllowlistInv
  <1>13. QED
    BY <1>2, <1>3, <1>4, <1>5, <1>6, <1>7, <1>8, <1>9, <1>10, <1>11, <1>12
    DEF Next, LoaderStep, BindStep

(* From the allowlist's shape to its size. *)
LEMMA AllowlistSmall == ASSUME Inv, AllowlistInv, ~InsertFails PROVE RestartsDoNotFillAllowlist
  <1>1. \A x : Cardinality({x}) = 1
    BY FS_Singleton
  <1>2. \A x, y : Cardinality({x, y}) <= 2
    <2> SUFFICES ASSUME NEW x, NEW y PROVE Cardinality({x, y}) <= 2 OBVIOUS
    <2>1. IsFiniteSet({x}) /\ Cardinality({x}) = 1
      BY FS_Singleton
    <2>2. Cardinality({x} \cup {y}) = IF y \in {x} THEN 1 ELSE 2
      BY <2>1, FS_AddElement
    <2>3. {x, y} = {x} \cup {y}
      OBVIOUS
    <2>4. QED BY <2>2, <2>3
  <1>3. \/ Configured = {}
        \/ \E x : Configured = {x}
        \/ \E x, y : Configured = {x, y}
    <2>1. loader.pc \in LoaderPcs
      BY DEF Inv, TypeOK, Loader
    <2>2. \/ Configured = {}
          \/ Configured = OldCgroup
          \/ Configured = OldCgroup \cup {loader.cgid}
          \/ \E x : Configured = {x}
      BY <2>1 DEF AllowlistInv, LoaderPcs, InsertFails
    <2>3. CASE loader.old = NONE
      BY <2>2, <2>3 DEF OldCgroup
    <2>4. CASE loader.old # NONE
      <3>1. OldCgroup = {loader.old} /\ OldCgroup \cup {loader.cgid} = {loader.old, loader.cgid}
        BY <2>4 DEF OldCgroup
      <3>2. QED BY <2>2, <3>1
    <2>5. QED BY <2>3, <2>4
  <1>4. Cardinality(Configured) <= 2
    <2>1. CASE Configured = {}
      <3>1. Cardinality(Configured) = 0
        BY <2>1, FS_EmptySet, Zenon
      <3>2. QED BY <3>1
    <2>2. CASE \E x : Configured = {x}
      <3>1. Cardinality(Configured) = 1
        BY <1>1, <2>2, Zenon
      <3>2. QED BY <3>1
    <2>3. CASE \E x, y : Configured = {x, y}
      BY <1>2, <2>3
    <2>4. QED BY <1>3, <2>1, <2>2, <2>3
  <1>5. QED BY <1>1, <1>4 DEF AllowlistInv, RestartsDoNotFillAllowlist

(* As long as no insert fails, restarts do not fill the allowlist: rebind     *)
(* removes the dead cgroup every time, however many times the container is   *)
(* restarted ("so repeated restarts can't fill it", enforcement.rs).  The    *)
(* hypothesis is needed: a failed rebind leaves both cgroups behind.         *)
THEOREM AllowlistBounded == Spec /\ []~InsertFails => []RestartsDoNotFillAllowlist
  <1>1. Init => AllowlistInv
    <2> SUFFICES ASSUME Init PROVE AllowlistInv OBVIOUS
    <2>1. Configured = {}
      BY DEF Init, Configured
    <2>2. QED BY <2>1 DEF Init, AllowlistInv
  <1>2. Inv /\ AllowlistInv /\ [Next]_vars /\ ~InsertFails /\ ~InsertFails' => AllowlistInv'
    BY AllowlistNextInv
  <1>3. Inv /\ AllowlistInv /\ ~InsertFails => RestartsDoNotFillAllowlist
    BY AllowlistSmall
  <1>4. QED BY <1>1, <1>2, <1>3, InvHolds, PTL DEF Spec

-----------------------------------------------------------------------------
(* A completed bind puts exactly the policy in force: Spec =>                 *)
(* []BoundPolicyInForce.  The property is not inductive.  PolicyInv adds what *)
(* relates maps and rules in every state: each entry has a rule behind it    *)
(* (Justified, of all cgroups), each rule an entry (Complete, of bound       *)
(* cgroups), and, for the bind in progress, that the rules already passed    *)
(* have theirs and that the slot counter is the number of prefix rules       *)
(* passed (Progress).                                                        *)

(* The entry of rule i is in the maps of cgroup c. *)
Installed(c, i) ==
    LET r == rules[i]
    IN  /\ r.tier = "path" =>
              /\ maps.FILE_PATH_POLICY[<<c, PathHash[r.key]>>] # NONE
              /\ ModeOf(r.action) \in maps.FILE_PATH_POLICY[<<c, PathHash[r.key]>>]
        /\ r.tier = "class" => maps.FILE_PATTERN_POLICY[<<c, r.key>>] # NONE
        /\ r.tier = "prefix" /\ SlotOf(i) < MAX_PREFIX_SLOTS =>
              maps.FILE_PREFIX_POLICY[<<c, SlotOf(i)>>] # NONE
        /\ r.tier = "exec" => maps.EXEC_PATH_POLICY[<<c, PathHash[r.key]>>] # NONE
        /\ r.tier = "net" => maps.NET_CONNECT_POLICY[<<c, r.key>>] # NONE

ClassesExpanded(c) ==
    \A p \in Patterns : ClassCovered(p) => maps.FILE_PATTERN_POLICY[<<c, p>>] # NONE

Complete(c) == (\A i \in Indices : Installed(c, i)) /\ ClassesExpanded(c)

(* Nothing is in the maps of cgroup c that no rule asked for. *)
PathsJustified(c) ==
    \A h \in Hashes : maps.FILE_PATH_POLICY[<<c, h>>] # NONE =>
        /\ PathRulesFor(h) # {}
        /\ \A a \in maps.FILE_PATH_POLICY[<<c, h>>] :
              \E i \in PathRulesFor(h) : ModeOf(rules[i].action) = a

ClassesJustified(c) ==
    \A p \in Patterns : maps.FILE_PATTERN_POLICY[<<c, p>>] # NONE =>
        maps.FILE_PATTERN_POLICY[<<c, p>>] = 1 /\ ClassCovered(p)

PrefixesJustified(c) ==
    \A s \in Slots : maps.FILE_PREFIX_POLICY[<<c, s>>] # NONE =>
        \E i \in TierRules("prefix") :
            /\ SlotOf(i) = s
            /\ maps.FILE_PREFIX_POLICY[<<c, s>>] =
                  [prefix |-> Truncate[rules[i].key], verdict |-> 1]

ExecsJustified(c) ==
    \A h \in Hashes : maps.EXEC_PATH_POLICY[<<c, h>>] # NONE =>
        /\ maps.EXEC_PATH_POLICY[<<c, h>>] = 1
        /\ \E i \in TierRules("exec") : PathHash[rules[i].key] = h

ConnectsJustified(c) ==
    \A k \in Ips \X Ports : maps.NET_CONNECT_POLICY[<<c, k>>] # NONE =>
        /\ maps.NET_CONNECT_POLICY[<<c, k>>] = 1
        /\ \E i \in TierRules("net") : rules[i].key = k

\* The scan of check_prefix_match meets every occupied slot.
NoHoles(c) ==
    \A s \in Slots : maps.FILE_PREFIX_POLICY[<<c, s>>] # NONE =>
        \A t \in 0..s : maps.FILE_PREFIX_POLICY[<<c, t>>] # NONE

Justified(c) ==
    /\ PathsJustified(c) /\ ClassesJustified(c) /\ PrefixesJustified(c)
    /\ ExecsJustified(c) /\ ConnectsJustified(c) /\ NoHoles(c)

(* Where the bind in progress stands. *)
Progress ==
    /\ loader.pc \in {"config", "skb"} => loader.idx = 1 /\ loader.slot = 0
    /\ loader.pc = "rule" =>
          /\ loader.slot = IF SlotOf(loader.idx) < MAX_PREFIX_SLOTS
                           THEN SlotOf(loader.idx) ELSE MAX_PREFIX_SLOTS
          /\ \A i \in Indices : i < loader.idx => Installed(loader.cgid, i)
          /\ \A t \in 0..(loader.slot - 1) :
                maps.FILE_PREFIX_POLICY[<<loader.cgid, t>>] # NONE
    /\ loader.pc = "expand" => \A i \in Indices : Installed(loader.cgid, i)

PolicyInv ==
    /\ \A c \in CgroupIds : Justified(c)
    /\ \A c \in bound : Complete(c)
    /\ \A c \in Configured :
          POLICY_CGROUPS[c] = [default_action |-> 0, audit_only |-> AuditOnly]
    /\ Progress

IndInv == Inv /\ (AllowOnly => PolicyInv)

-----------------------------------------------------------------------------
(* The slot a prefix rule gets. *)

LEMMA SlotTypes ==
    ASSUME rules \in Seq(Rule), NEW i \in Nat
    PROVE  IsFiniteSet(PrefixesBefore(i)) /\ SlotOf(i) \in Nat
  <1>1. Len(rules) \in Nat /\ PrefixesBefore(i) \in SUBSET (1..Len(rules))
    BY DEF PrefixesBefore, TierRules, Indices
  <1>2. IsFiniteSet(1..Len(rules))
    BY <1>1, FS_Interval
  <1>3. QED BY <1>1, <1>2, FS_Subset, FS_CardinalityType DEF SlotOf

LEMMA FirstSlotIsZero ==
    ASSUME rules \in Seq(Rule) PROVE SlotOf(1) = 0
  <1>1. PrefixesBefore(1) = {}
    BY DEF PrefixesBefore, TierRules, Indices
  <1>2. QED BY <1>1, FS_EmptySet DEF SlotOf

LEMMA SlotNext ==
    ASSUME rules \in Seq(Rule), NEW i \in Indices
    PROVE  SlotOf(i + 1) = IF rules[i].tier = "prefix" THEN SlotOf(i) + 1 ELSE SlotOf(i)
  <1>1. Len(rules) \in Nat /\ i \in Nat
    BY DEF Indices
  <1>2. CASE rules[i].tier = "prefix"
    <2>1. PrefixesBefore(i + 1) = PrefixesBefore(i) \cup {i} /\ i \notin PrefixesBefore(i)
      BY <1>1, <1>2 DEF PrefixesBefore, TierRules, Indices
    <2>2. QED BY <1>1, <1>2, <2>1, SlotTypes, FS_AddElement DEF SlotOf
  <1>3. CASE rules[i].tier # "prefix"
    <2>1. PrefixesBefore(i + 1) = PrefixesBefore(i)
      BY <1>1, <1>3 DEF PrefixesBefore, TierRules, Indices
    <2>2. QED BY <1>3, <2>1 DEF SlotOf
  <1>4. QED BY <1>2, <1>3

(* Two prefix rules never share a slot. *)
LEMMA SlotInjective ==
    ASSUME rules \in Seq(Rule), NEW i \in TierRules("prefix"), NEW j \in TierRules("prefix"),
           SlotOf(i) = SlotOf(j)
    PROVE  i = j
  <1>1. i \in Nat /\ j \in Nat
    BY DEF TierRules, Indices
  <1>2. ASSUME NEW x \in TierRules("prefix"), NEW y \in TierRules("prefix"),
               x \in Nat, y \in Nat, x < y
        PROVE  SlotOf(x) < SlotOf(y)
    <2>1. x \notin PrefixesBefore(x) /\ PrefixesBefore(x) \cup {x} \in SUBSET PrefixesBefore(y)
      BY <1>2 DEF PrefixesBefore, TierRules, Indices
    <2>2. /\ IsFiniteSet(PrefixesBefore(x)) /\ Cardinality(PrefixesBefore(x)) \in Nat
          /\ IsFiniteSet(PrefixesBefore(y)) /\ Cardinality(PrefixesBefore(y)) \in Nat
      BY <1>2, SlotTypes DEF SlotOf
    <2>3. Cardinality(PrefixesBefore(x) \cup {x}) = Cardinality(PrefixesBefore(x)) + 1
      BY <2>1, <2>2, FS_AddElement
    <2>4. Cardinality(PrefixesBefore(x) \cup {x}) <= Cardinality(PrefixesBefore(y))
      BY <2>1, <2>2, FS_Subset
    <2>5. QED BY <2>2, <2>3, <2>4 DEF SlotOf
  <1>3. SlotOf(i) \in Nat /\ SlotOf(j) \in Nat
    BY <1>1, SlotTypes
  <1>4. QED BY <1>1, <1>2, <1>3

(* The scan stops at the lowest matching slot. *)
LEMMA FirstSlotIn ==
    ASSUME NEW S \in SUBSET Nat, S # {} PROVE FirstSlot(S) \in S
  <1> DEFINE R == {xy \in Nat \X Nat : xy[1] < xy[2]}
  <1>1. IsWellFoundedOn(R, Nat)
    BY NatLessThanWellFounded DEF OpToRel
  <1>2. PICK s \in S : \A t \in S : ~(<<t, s>> \in R)
    <2> HIDE DEF R
    <2>1. QED BY <1>1, WFMin
  <1>3. ASSUME NEW t \in S PROVE s <= t
    <2>1. s \in Nat /\ t \in Nat /\ ~(<<t, s>> \in R)
      BY <1>2
    <2>2. ~(t < s)
      BY <2>1
    <2>3. QED BY <2>1, <2>2
  <1>4. QED BY <1>3 DEF FirstSlot

-----------------------------------------------------------------------------
(* PolicyInv says that the hooks decide what the rules say. *)

LEMMA FileDecided ==
    ASSUME TypeOK, PolicyInv, NEW c \in bound \cap Configured,
           NEW path \in Paths, NEW req \in Requests
    PROVE  enforce_file_open(c, path, req).rc = 0 <=> AuditOnly \/ FilePermitted(path, req)
  <1> DEFINE h == PathHash[path]
             class == Classify[path]
             mask == maps.FILE_PATH_POLICY[<<c, h>>]
             v == maps.FILE_PATTERN_POLICY[<<c, class>>]
             slots == MatchingSlots(c, path)
             config == POLICY_CGROUPS[c]
  <1>1. c \in CgroupIds /\ config # NONE /\ h \in Hashes /\ class \in Patterns
    BY KernelAssumption DEF TypeOK, Configured
  <1>2. config = [default_action |-> 0, audit_only |-> AuditOnly]
    BY DEF PolicyInv
  <1>3. Justified(c) /\ Complete(c)
    BY <1>1 DEF PolicyInv
  <1>4. /\ maps.FILE_PATH_POLICY \in [CgroupIds \X Hashes -> (SUBSET Modes) \cup {NONE}]
        /\ maps.FILE_PREFIX_POLICY \in [CgroupIds \X Slots -> PrefixEntry \cup {NONE}]
        /\ rules \in Seq(Rule)
    BY MapTypes DEF TypeOK
  <1>5. /\ Pass.rc = 0
        /\ Refuse(config).rc = 0 <=> AuditOnly
        /\ DefaultOutcome(config).rc = 0 <=> AuditOnly
        /\ VerdictOutcome(config, 1).rc = 0
    BY <1>2, LoaderAssumption DEF Pass, Refuse, DefaultOutcome, VerdictOutcome, verdict_to_rc
  <1>6. enforce_file_open(c, path, req) =
           IF mask # NONE
           THEN IF mask # {} /\ req \subseteq mask THEN Pass ELSE Refuse(config)
           ELSE IF class # "Regular" /\ v # NONE THEN VerdictOutcome(config, v)
           ELSE IF slots # {}
           THEN VerdictOutcome(config,
                    maps.FILE_PREFIX_POLICY[<<c, FirstSlot(slots)>>].verdict)
           ELSE DefaultOutcome(config)
    BY <1>1 DEF enforce_file_open, file_open_tiers
  <1> HIDE DEF h, class, mask, v, slots, config
  <1>7. CASE mask # NONE
    <2>1. mask \in SUBSET Modes
      BY <1>1, <1>4, <1>7 DEF mask
    <2>2. /\ PathRulesFor(h) # {}
          /\ \A a \in mask : \E i \in PathRulesFor(h) : ModeOf(rules[i].action) = a
      BY <1>1, <1>3, <1>7 DEF Justified, PathsJustified, mask
    <2>3. ASSUME NEW i \in PathRulesFor(h) PROVE ModeOf(rules[i].action) \in mask
      BY <1>3 DEF Complete, Installed, PathRulesFor, TierRules, mask
    <2>4. mask # {}
      BY <2>2, <2>3
    <2>5. FilePermitted(path, req) <=> req \subseteq mask
      <3>1. FilePermitted(path, req) <=>
               \A a \in req : \E i \in PathRulesFor(h) : ModeOf(rules[i].action) = a
        BY <2>2 DEF FilePermitted, h
      <3>2. QED BY <2>2, <2>3, <3>1
    <2>6. QED BY <1>5, <1>6, <1>7, <2>4, <2>5
  <1>8. CASE mask = NONE
    <2>1. PathRulesFor(h) = {}
      BY <1>3, <1>8 DEF Complete, Installed, PathRulesFor, TierRules, mask
    <2>2. FilePermitted(path, req) <=>
             (class # "Regular" /\ ClassCovered(class)) \/ PrefixCovered(path)
      BY <2>1 DEF FilePermitted, h, class
    <2>3. CASE class # "Regular" /\ v # NONE
      <3>1. v = 1 /\ ClassCovered(class)
        BY <1>1, <1>3, <2>3 DEF Justified, ClassesJustified, v
      <3>2. QED BY <1>5, <1>6, <1>8, <2>2, <2>3, <3>1
    <2>4. CASE ~(class # "Regular" /\ v # NONE)
      <3>1. ~(class # "Regular" /\ ClassCovered(class))
        BY <1>1, <1>3, <2>4 DEF Complete, ClassesExpanded, v
      <3>2. CASE slots # {}
        <4>0. slots \in SUBSET ScannedSlots(c) /\ ScannedSlots(c) \in SUBSET Slots
          BY DEF slots, MatchingSlots, ScannedSlots
        <4>1. FirstSlot(slots) \in slots
          <5>1. Slots \in SUBSET Nat
            BY KernelAssumption DEF Slots
          <5>2. QED BY <3>2, <4>0, <5>1, FirstSlotIn
        <4> DEFINE s == FirstSlot(slots)
                   e == maps.FILE_PREFIX_POLICY[<<c, s>>]
        <4>2. s \in Slots /\ e # NONE /\ path \in StartsWith[e.prefix]
          <5>1. s \in Slots /\ s \in 0..s
            BY <4>0, <4>1, KernelAssumption DEF Slots
          <5>2. e # NONE
            BY <4>0, <4>1, <5>1 DEF ScannedSlots
          <5>3. path \in StartsWith[e.prefix]
            BY <4>1 DEF slots, MatchingSlots
          <5>4. QED BY <5>1, <5>2, <5>3
        <4>3. PICK i \in TierRules("prefix") :
                 SlotOf(i) = s /\ e = [prefix |-> Truncate[rules[i].key], verdict |-> 1]
          BY <1>3, <4>2 DEF Justified, PrefixesJustified
        <4>4. e.verdict = 1 /\ e.prefix = Truncate[rules[i].key] /\ s < MAX_PREFIX_SLOTS
          BY <4>2, <4>3, KernelAssumption DEF Slots
        <4>5. PrefixCovered(path)
          BY <4>2, <4>3, <4>4 DEF PrefixCovered
        <4>6. QED BY <1>5, <1>6, <1>8, <2>2, <2>4, <3>2, <4>4, <4>5
      <3>3. CASE slots = {}
        <4>1. ASSUME PrefixCovered(path) PROVE FALSE
          <5>1. PICK i \in TierRules("prefix") :
                   SlotOf(i) < MAX_PREFIX_SLOTS /\ path \in StartsWith[Truncate[rules[i].key]]
            BY <4>1 DEF PrefixCovered
          <5> DEFINE s == SlotOf(i)
                     e == maps.FILE_PREFIX_POLICY[<<c, s>>]
          <5>2. i \in Indices /\ i \in Nat /\ rules[i].tier = "prefix" /\ s \in Nat
            BY <1>4, SlotTypes DEF TierRules, Indices
          <5>3. s \in Slots
            BY <5>1, <5>2, KernelAssumption DEF Slots
          <5>4. e # NONE
            BY <1>3, <5>1, <5>2 DEF Complete, Installed
          <5>5. PICK j \in TierRules("prefix") :
                   SlotOf(j) = s /\ e = [prefix |-> Truncate[rules[j].key], verdict |-> 1]
            BY <1>3, <5>3, <5>4 DEF Justified, PrefixesJustified
          <5>6. i = j
            BY <1>4, <5>5, SlotInjective
          <5>7. path \in StartsWith[e.prefix]
            BY <5>1, <5>5, <5>6
          <5>8. s \in ScannedSlots(c)
            BY <1>3, <5>3, <5>4 DEF Justified, NoHoles, ScannedSlots
          <5>9. s \in slots
            BY <5>7, <5>8 DEF slots, MatchingSlots
          <5>10. QED BY <3>3, <5>9
        <4>2. QED BY <1>5, <1>6, <1>8, <2>2, <2>4, <3>1, <3>3, <4>1
      <3>4. QED BY <3>2, <3>3
    <2>5. QED BY <2>3, <2>4
  <1>9. QED BY <1>7, <1>8

LEMMA ExecDecided ==
    ASSUME TypeOK, PolicyInv, NEW c \in bound \cap Configured, NEW path \in Paths
    PROVE  enforce_bprm_check(c, path).rc = 0 <=> AuditOnly \/ ExecPermitted(path)
  <1> DEFINE h == PathHash[path]
             v == maps.EXEC_PATH_POLICY[<<c, h>>]
             config == POLICY_CGROUPS[c]
  <1>1. c \in CgroupIds /\ config # NONE /\ h \in Hashes
    BY KernelAssumption DEF TypeOK, Configured
  <1>2. config = [default_action |-> 0, audit_only |-> AuditOnly]
    BY DEF PolicyInv
  <1>3. Justified(c) /\ Complete(c)
    BY <1>1 DEF PolicyInv
  <1>4. (DefaultOutcome(config).rc = 0 <=> AuditOnly) /\ VerdictOutcome(config, 1).rc = 0
    BY <1>2, LoaderAssumption DEF Refuse, DefaultOutcome, VerdictOutcome, verdict_to_rc
  <1>5. enforce_bprm_check(c, path) =
           IF v # NONE THEN VerdictOutcome(config, v) ELSE DefaultOutcome(config)
    BY <1>1 DEF enforce_bprm_check, bprm_check_tiers
  <1>6. v # NONE => v = 1 /\ ExecPermitted(path)
    BY <1>1, <1>3 DEF Justified, ExecsJustified, ExecPermitted
  <1>7. ExecPermitted(path) => v # NONE
    BY <1>3 DEF Complete, Installed, ExecPermitted, TierRules
  <1> HIDE DEF h, v, config
  <1>8. QED BY <1>4, <1>5, <1>6, <1>7

LEMMA ConnectDecided ==
    ASSUME TypeOK, PolicyInv, NEW c \in bound \cap Configured, NEW ip \in Ips, NEW port \in Ports
    PROVE  enforce_socket_connect(c, ip, port).rc = 0 <=> AuditOnly \/ ConnectPermitted(ip, port)
  <1> DEFINE exact == maps.NET_CONNECT_POLICY[<<c, <<ip, port>>>>]
             wildcard == maps.NET_CONNECT_POLICY[<<c, <<ip, 0>>>>]
             config == POLICY_CGROUPS[c]
  <1>1. c \in CgroupIds /\ config # NONE /\ <<ip, port>> \in Ips \X Ports /\ <<ip, 0>> \in Ips \X Ports
    BY KernelAssumption DEF TypeOK, Configured
  <1>2. config = [default_action |-> 0, audit_only |-> AuditOnly]
    BY DEF PolicyInv
  <1>3. Justified(c) /\ Complete(c)
    BY <1>1 DEF PolicyInv
  <1>4. (DefaultOutcome(config).rc = 0 <=> AuditOnly) /\ VerdictOutcome(config, 1).rc = 0
    BY <1>2, LoaderAssumption DEF Refuse, DefaultOutcome, VerdictOutcome, verdict_to_rc
  <1>5. enforce_socket_connect(c, ip, port) =
           IF exact # NONE THEN VerdictOutcome(config, exact)
           ELSE IF wildcard # NONE THEN VerdictOutcome(config, wildcard)
           ELSE DefaultOutcome(config)
    BY <1>1 DEF enforce_socket_connect, socket_connect_tiers
  <1>6. /\ exact # NONE => exact = 1 /\ ConnectPermitted(ip, port)
        /\ wildcard # NONE => wildcard = 1 /\ ConnectPermitted(ip, port)
    BY <1>1, <1>3 DEF Justified, ConnectsJustified, ConnectPermitted
  <1>7. ConnectPermitted(ip, port) => exact # NONE \/ wildcard # NONE
    BY <1>3 DEF Complete, Installed, ConnectPermitted, TierRules
  <1> HIDE DEF exact, wildcard, config
  <1>8. QED BY <1>4, <1>5, <1>6, <1>7

LEMMA IndInvSuffices == IndInv => BoundPolicyInForce
  <1> SUFFICES ASSUME IndInv, AllowOnly, NEW c \in bound \cap Configured
               PROVE  /\ \A path \in Paths, req \in Requests :
                            enforce_file_open(c, path, req).rc = 0
                                <=> AuditOnly \/ FilePermitted(path, req)
                      /\ \A path \in Paths :
                            enforce_bprm_check(c, path).rc = 0
                                <=> AuditOnly \/ ExecPermitted(path)
                      /\ \A ip \in Ips, port \in Ports :
                            enforce_socket_connect(c, ip, port).rc = 0
                                <=> AuditOnly \/ ConnectPermitted(ip, port)
    BY DEF BoundPolicyInForce
  <1>1. TypeOK /\ PolicyInv
    BY DEF IndInv, Inv
  <1>2. QED BY <1>1, FileDecided, ExecDecided, ConnectDecided

-----------------------------------------------------------------------------
(* What stays when the rules, or the rules and the maps, do not change. *)

LEMMA SameRules ==
    ASSUME UNCHANGED rules
    PROVE  /\ Indices' = Indices /\ (AllowOnly' <=> AllowOnly)
           /\ \A t : TierRules(t)' = TierRules(t)
           /\ \A i : SlotOf(i)' = SlotOf(i)
           /\ \A h : PathRulesFor(h)' = PathRulesFor(h)
           /\ \A p : ClassCovered(p)' <=> ClassCovered(p)
  BY DEF Indices, AllowOnly, TierRules, SlotOf, PrefixesBefore, PathRulesFor, ClassCovered

LEMMA SameMaps ==
    ASSUME UNCHANGED <<rules, maps>>
    PROVE  /\ \A c \in CgroupIds : Justified(c) => Justified(c)'
           /\ \A c, i : Installed(c, i)' <=> Installed(c, i)
           /\ \A c \in CgroupIds : Complete(c) => Complete(c)'
  <1>1. ASSUME NEW c, NEW i PROVE Installed(c, i)' <=> Installed(c, i)
    BY SameRules DEF Installed
  <1>2. ASSUME NEW c \in CgroupIds, Complete(c) PROVE Complete(c)'
    BY <1>1, <1>2, SameRules DEF Complete, ClassesExpanded
  <1>3. ASSUME NEW c \in CgroupIds, Justified(c) PROVE Justified(c)'
    <2>1. PathsJustified(c)'
      BY <1>3, SameRules DEF Justified, PathsJustified
    <2>2. ClassesJustified(c)'
      BY <1>3, SameRules DEF Justified, ClassesJustified
    <2>3. PrefixesJustified(c)'
      BY <1>3, SameRules DEF Justified, PrefixesJustified
    <2>4. ExecsJustified(c)' /\ ConnectsJustified(c)'
      BY <1>3, SameRules DEF Justified, ExecsJustified, ConnectsJustified
    <2>5. NoHoles(c)'
      BY <1>3 DEF Justified, NoHoles
    <2>6. QED BY <2>1, <2>2, <2>3, <2>4, <2>5 DEF Justified
  <1>4. QED BY <1>1, <1>2, <1>3

(* A map insert, entry by entry. *)
Wrote(m, c, k, v) ==
    /\ maps'[m][<<c, k>>] = v
    /\ \A n \in MapNames : \A d \in CgroupIds, j \in PolicyKeys[n] :
          n # m \/ d # c \/ j # k => maps'[n][<<d, j>>] = maps[n][<<d, j>>]

LEMMA InsertEffect ==
    ASSUME MapsTypeOK, NEW m \in MapNames, NEW c \in CgroupIds, NEW k \in PolicyKeys[m],
           NEW v, maps' = [maps EXCEPT ![m][<<c, k>>] = v]
    PROVE  Wrote(m, c, k, v)
  <1>1. DOMAIN maps = MapNames
    BY DEF MapsTypeOK
  <1>2. \A n \in MapNames : DOMAIN maps[n] = CgroupIds \X PolicyKeys[n]
    BY DEF MapsTypeOK
  <1>3. maps'[m] = [maps[m] EXCEPT ![<<c, k>>] = v] /\ \A n \in MapNames : n # m => maps'[n] = maps[n]
    BY <1>1
  <1>4. maps'[m][<<c, k>>] = v
    BY <1>2, <1>3
  <1>5. ASSUME NEW n \in MapNames, NEW d \in CgroupIds, NEW j \in PolicyKeys[n],
               n # m \/ d # c \/ j # k
        PROVE  maps'[n][<<d, j>>] = maps[n][<<d, j>>]
    <2>1. CASE n # m
      BY <1>3, <2>1
    <2>2. CASE n = m
      BY <1>2, <1>3, <1>5, <2>2
    <2>3. QED BY <2>1, <2>2
  <1>6. QED BY <1>4, <1>5 DEF Wrote

\* No entry goes away and no path loses a mode: what inserts do when rules allow.
Grown ==
    \A m \in MapNames : \A c \in CgroupIds, k \in PolicyKeys[m] :
        maps[m][<<c, k>>] # NONE =>
            /\ maps'[m][<<c, k>>] # NONE
            /\ m = "FILE_PATH_POLICY" => maps[m][<<c, k>>] \subseteq maps'[m][<<c, k>>]

LEMMA GrownKeeps ==
    ASSUME rules \in Seq(Rule), UNCHANGED rules, Grown, NEW c \in CgroupIds
    PROVE  /\ \A i \in Indices : Installed(c, i) => Installed(c, i)'
           /\ Complete(c) => Complete(c)'
  <1>1. /\ \A h \in Hashes : maps.FILE_PATH_POLICY[<<c, h>>] # NONE =>
              /\ maps'.FILE_PATH_POLICY[<<c, h>>] # NONE
              /\ maps.FILE_PATH_POLICY[<<c, h>>] \subseteq maps'.FILE_PATH_POLICY[<<c, h>>]
        /\ \A p \in Patterns : maps.FILE_PATTERN_POLICY[<<c, p>>] # NONE =>
              maps'.FILE_PATTERN_POLICY[<<c, p>>] # NONE
        /\ \A t \in Slots : maps.FILE_PREFIX_POLICY[<<c, t>>] # NONE =>
              maps'.FILE_PREFIX_POLICY[<<c, t>>] # NONE
        /\ \A h \in Hashes : maps.EXEC_PATH_POLICY[<<c, h>>] # NONE =>
              maps'.EXEC_PATH_POLICY[<<c, h>>] # NONE
        /\ \A k \in Ips \X Ports : maps.NET_CONNECT_POLICY[<<c, k>>] # NONE =>
              maps'.NET_CONNECT_POLICY[<<c, k>>] # NONE
    BY DEF Grown, MapNames, PolicyKeys
  <1>2. ASSUME NEW i \in Indices, Installed(c, i) PROVE Installed(c, i)'
    <2> DEFINE r == rules[i]
    <2>1. r \in Rule /\ r' = r /\ i \in Nat
      BY DEF Indices
    <2>2. SlotOf(i)' = SlotOf(i) /\ SlotOf(i) \in Nat
      BY <2>1, SameRules, SlotTypes
    <2>3. r.tier \in {"path", "exec"} => PathHash[r.key] \in Hashes
      BY <2>1, KernelAssumption DEF Rule
    <2>4. /\ r.tier = "class" => r.key \in Patterns
          /\ r.tier = "net" => r.key \in Ips \X Ports
      BY <2>1 DEF Rule
    <2>5. SlotOf(i) < MAX_PREFIX_SLOTS => SlotOf(i) \in Slots
      BY <2>2, KernelAssumption DEF Slots
    <2>6. QED BY <1>1, <1>2, <2>1, <2>2, <2>3, <2>4, <2>5 DEF Installed
  <1>3. ASSUME Complete(c) PROVE Complete(c)'
    BY <1>1, <1>2, <1>3, SameRules DEF Complete, ClassesExpanded
  <1>4. QED BY <1>2, <1>3

-----------------------------------------------------------------------------
(* The value an allowing rule writes. *)
LEMMA AllowValue ==
    ASSUME NEW r \in Rule, r.verdict = "Allow", NEW slot, NEW old
    PROVE  /\ r.tier = "path" => /\ MapOf(r) = "FILE_PATH_POLICY"
                                 /\ KeyOf(r, slot) = PathHash[r.key]
                                 /\ ValueOf(r, old) = (IF old = NONE THEN {} ELSE old)
                                                          \cup {ModeOf(r.action)}
           /\ r.tier = "class" => /\ MapOf(r) = "FILE_PATTERN_POLICY"
                                  /\ KeyOf(r, slot) = r.key
                                  /\ ValueOf(r, old) = 1
           /\ r.tier = "prefix" => /\ MapOf(r) = "FILE_PREFIX_POLICY"
                                   /\ KeyOf(r, slot) = slot
                                   /\ ValueOf(r, old) = [prefix |-> Truncate[r.key], verdict |-> 1]
           /\ r.tier = "exec" => /\ MapOf(r) = "EXEC_PATH_POLICY"
                                 /\ KeyOf(r, slot) = PathHash[r.key]
                                 /\ ValueOf(r, old) = 1
           /\ r.tier = "net" => /\ MapOf(r) = "NET_CONNECT_POLICY"
                                /\ KeyOf(r, slot) = r.key
                                /\ ValueOf(r, old) = 1
  BY DEF MapOf, KeyOf, ValueOf, PathMask, verdict_to_u8

LEMMA ApplyRuleKeeps ==
    ASSUME Inv, AllowOnly, PolicyInv, ApplyRule, loader'.pc = "rule"
    PROVE  PolicyInv'
  <1>0. PICK i, c : i = loader.idx /\ c = loader.cgid
    OBVIOUS
  <1> DEFINE r == rules[i]
             m == MapOf(r)
             key == KeyOf(r, loader.slot)
             old == maps[m][<<c, key>>]
             value == ValueOf(r, old)
  <1>1. /\ r \in Rule /\ ~Skipped(r, loader.slot) /\ i \in 1..Len(rules)
        /\ loader.pc = "rule" /\ c \in CgroupIds /\ m \in MapNames /\ key \in PolicyKeys[m]
        /\ old \in PolicyValues[m] \cup {NONE} /\ value \in PolicyValues[m]
        /\ UNCHANGED <<POLICY_CGROUPS, SKB_ENFORCE_CGID, rules, current_cgid, bound>>
        /\ maps' = [maps EXCEPT ![m][<<c, key>>] = value]
        /\ loader'.idx = i + 1 /\ loader'.cgid = c
        /\ loader'.slot = IF r.tier = "prefix" THEN loader.slot + 1 ELSE loader.slot
    BY <1>0, ApplyRuleStep
  <1>2. /\ MapsTypeOK /\ rules \in Seq(Rule) /\ bound \in SUBSET CgroupIds
        /\ loader.slot \in 0..MAX_PREFIX_SLOTS /\ i \in Indices /\ i \in Nat
    BY <1>0, <1>1 DEF Inv, TypeOK, Loader, Indices
  <1>3. r.verdict = "Allow"
    BY <1>2 DEF AllowOnly
  <1>4. r.tier \in {"path", "class", "prefix", "exec", "net"}
    BY <1>1 DEF Rule, Skipped
  <1>5. /\ r.tier = "path" => /\ m = "FILE_PATH_POLICY" /\ key = PathHash[r.key]
                              /\ value = (IF old = NONE THEN {} ELSE old) \cup {ModeOf(r.action)}
        /\ r.tier = "class" => m = "FILE_PATTERN_POLICY" /\ key = r.key /\ value = 1
        /\ r.tier = "prefix" => /\ m = "FILE_PREFIX_POLICY" /\ key = loader.slot
                                /\ value = [prefix |-> Truncate[r.key], verdict |-> 1]
        /\ r.tier = "exec" => m = "EXEC_PATH_POLICY" /\ key = PathHash[r.key] /\ value = 1
        /\ r.tier = "net" => m = "NET_CONNECT_POLICY" /\ key = r.key /\ value = 1
    BY <1>1, <1>3, AllowValue
  <1>6. value # NONE
    BY <1>1, NoneAssumption
  <1>7. r.tier = "prefix" => loader.slot = SlotOf(i) /\ loader.slot < MAX_PREFIX_SLOTS
    <2>1. SlotOf(i) \in Nat
      BY <1>2, SlotTypes
    <2>2. loader.slot = IF SlotOf(i) < MAX_PREFIX_SLOTS THEN SlotOf(i) ELSE MAX_PREFIX_SLOTS
      BY <1>0, <1>1 DEF PolicyInv, Progress
    <2>3. QED BY <1>1, <1>2, <2>1, <2>2, KernelAssumption DEF Skipped
  <1> HIDE DEF r, m, key, old, value
  <1>8. /\ maps'[m][<<c, key>>] = value
        /\ \A n \in MapNames : \A d \in CgroupIds, j \in PolicyKeys[n] :
              n # m \/ d # c \/ j # key => maps'[n][<<d, j>>] = maps[n][<<d, j>>]
    <2>1. /\ MapsTypeOK /\ m \in MapNames /\ c \in CgroupIds /\ key \in PolicyKeys[m]
          /\ maps' = [maps EXCEPT ![m][<<c, key>>] = value]
      BY <1>1, <1>2
    <2>2. Wrote(m, c, key, value)
      BY <2>1, InsertEffect
    <2>3. QED BY <2>2 DEF Wrote
  <1>9. Grown
    <2> SUFFICES ASSUME NEW n \in MapNames, NEW d \in CgroupIds, NEW j \in PolicyKeys[n],
                        maps[n][<<d, j>>] # NONE
                 PROVE  /\ maps'[n][<<d, j>>] # NONE
                        /\ n = "FILE_PATH_POLICY" =>
                              maps[n][<<d, j>>] \subseteq maps'[n][<<d, j>>]
      BY DEF Grown
    <2>1. CASE n # m \/ d # c \/ j # key
      BY <1>8, <2>1
    <2>2. CASE n = m /\ d = c /\ j = key
      <3>1. maps'[n][<<d, j>>] = value /\ maps[n][<<d, j>>] = old
        BY <1>8, <2>2 DEF old
      <3>2. ASSUME n = "FILE_PATH_POLICY" PROVE old \subseteq value
        <4>1. r.tier = "path"
          BY <1>4, <1>5, <2>2, <3>2
        <4>2. QED BY <1>5, <3>1, <4>1
      <3>3. QED BY <1>6, <3>1, <3>2
    <2>3. QED BY <2>1, <2>2
  <1>10. /\ \A d \in CgroupIds : \A j \in Indices : Installed(d, j) => Installed(d, j)'
         /\ \A d \in CgroupIds : Complete(d) => Complete(d)'
    BY <1>1, <1>2, <1>9, GrownKeeps
  <1>11. /\ rules' = rules /\ Indices' = Indices
         /\ \A t : TierRules(t)' = TierRules(t)
         /\ \A j : SlotOf(j)' = SlotOf(j)
         /\ \A h : PathRulesFor(h)' = PathRulesFor(h)
         /\ \A p : ClassCovered(p)' <=> ClassCovered(p)
    BY <1>1, SameRules
  <1>12. ASSUME NEW d \in CgroupIds PROVE Justified(d)'
    <2>0. Justified(d) /\ Justified(c)
      BY <1>1 DEF PolicyInv
    <2>1. PathsJustified(d)'
      <3> SUFFICES ASSUME NEW h \in Hashes, maps'.FILE_PATH_POLICY[<<d, h>>] # NONE
                   PROVE  /\ PathRulesFor(h) # {}
                          /\ \A a \in maps'.FILE_PATH_POLICY[<<d, h>>] :
                                \E j \in PathRulesFor(h) : ModeOf(rules[j].action) = a
        BY <1>11 DEF PathsJustified
      <3>0. h \in PolicyKeys["FILE_PATH_POLICY"] /\ "FILE_PATH_POLICY" \in MapNames
        BY DEF PolicyKeys, MapNames
      <3>1. CASE m # "FILE_PATH_POLICY" \/ d # c \/ h # key
        <4>1. maps'.FILE_PATH_POLICY[<<d, h>>] = maps.FILE_PATH_POLICY[<<d, h>>]
          BY <1>8, <3>0, <3>1
        <4>2. QED BY <2>0, <4>1 DEF Justified, PathsJustified
      <3>2. CASE m = "FILE_PATH_POLICY" /\ d = c /\ h = key
        <4>1. r.tier = "path"
          BY <1>4, <1>5, <3>2
        <4>2. i \in PathRulesFor(h) /\ rules[i] = r
          BY <1>2, <1>5, <3>2, <4>1 DEF PathRulesFor, TierRules, r
        <4>3. /\ maps'.FILE_PATH_POLICY[<<d, h>>] =
                    (IF old = NONE THEN {} ELSE old) \cup {ModeOf(r.action)}
              /\ old = maps.FILE_PATH_POLICY[<<d, h>>]
          BY <1>5, <1>8, <3>2, <4>1 DEF old
        <4>4. old # NONE => \A a \in old : \E j \in PathRulesFor(h) : ModeOf(rules[j].action) = a
          BY <2>0, <4>3 DEF Justified, PathsJustified
        <4>5. QED BY <4>2, <4>3, <4>4
      <3>3. QED BY <3>1, <3>2
    <2>2. ClassesJustified(d)'
      <3> SUFFICES ASSUME NEW p \in Patterns, maps'.FILE_PATTERN_POLICY[<<d, p>>] # NONE
                   PROVE  maps'.FILE_PATTERN_POLICY[<<d, p>>] = 1 /\ ClassCovered(p)
        BY <1>11 DEF ClassesJustified
      <3>0. p \in PolicyKeys["FILE_PATTERN_POLICY"] /\ "FILE_PATTERN_POLICY" \in MapNames
        BY DEF PolicyKeys, MapNames
      <3>1. CASE m # "FILE_PATTERN_POLICY" \/ d # c \/ p # key
        <4>1. maps'.FILE_PATTERN_POLICY[<<d, p>>] = maps.FILE_PATTERN_POLICY[<<d, p>>]
          BY <1>8, <3>0, <3>1
        <4>2. QED BY <2>0, <4>1 DEF Justified, ClassesJustified
      <3>2. CASE m = "FILE_PATTERN_POLICY" /\ d = c /\ p = key
        <4>1. r.tier = "class"
          BY <1>4, <1>5, <3>2
        <4>2. i \in TierRules("class") /\ rules[i].key = p
          BY <1>2, <1>5, <3>2, <4>1 DEF TierRules, r
        <4>3. QED BY <1>5, <1>8, <3>2, <4>1, <4>2 DEF ClassCovered
      <3>3. QED BY <3>1, <3>2
    <2>3. PrefixesJustified(d)'
      <3> SUFFICES ASSUME NEW s \in Slots, maps'.FILE_PREFIX_POLICY[<<d, s>>] # NONE
                   PROVE  \E j \in TierRules("prefix") :
                             /\ SlotOf(j) = s
                             /\ maps'.FILE_PREFIX_POLICY[<<d, s>>] =
                                   [prefix |-> Truncate[rules[j].key], verdict |-> 1]
        BY <1>11 DEF PrefixesJustified
      <3>0. s \in PolicyKeys["FILE_PREFIX_POLICY"] /\ "FILE_PREFIX_POLICY" \in MapNames
        BY DEF PolicyKeys, MapNames
      <3>1. CASE m # "FILE_PREFIX_POLICY" \/ d # c \/ s # key
        <4>1. maps'.FILE_PREFIX_POLICY[<<d, s>>] = maps.FILE_PREFIX_POLICY[<<d, s>>]
          BY <1>8, <3>0, <3>1
        <4>2. QED BY <2>0, <4>1 DEF Justified, PrefixesJustified
      <3>2. CASE m = "FILE_PREFIX_POLICY" /\ d = c /\ s = key
        <4>1. r.tier = "prefix"
          BY <1>4, <1>5, <3>2
        <4>2. i \in TierRules("prefix") /\ rules[i] = r
          BY <1>2, <4>1 DEF TierRules, r
        <4>3. QED BY <1>5, <1>7, <1>8, <3>2, <4>1, <4>2
      <3>3. QED BY <3>1, <3>2
    <2>4. ExecsJustified(d)'
      <3> SUFFICES ASSUME NEW h \in Hashes, maps'.EXEC_PATH_POLICY[<<d, h>>] # NONE
                   PROVE  /\ maps'.EXEC_PATH_POLICY[<<d, h>>] = 1
                          /\ \E j \in TierRules("exec") : PathHash[rules[j].key] = h
        BY <1>11 DEF ExecsJustified
      <3>0. h \in PolicyKeys["EXEC_PATH_POLICY"] /\ "EXEC_PATH_POLICY" \in MapNames
        BY DEF PolicyKeys, MapNames
      <3>1. CASE m # "EXEC_PATH_POLICY" \/ d # c \/ h # key
        <4>1. maps'.EXEC_PATH_POLICY[<<d, h>>] = maps.EXEC_PATH_POLICY[<<d, h>>]
          BY <1>8, <3>0, <3>1
        <4>2. QED BY <2>0, <4>1 DEF Justified, ExecsJustified
      <3>2. CASE m = "EXEC_PATH_POLICY" /\ d = c /\ h = key
        <4>1. r.tier = "exec"
          BY <1>4, <1>5, <3>2
        <4>2. i \in TierRules("exec") /\ rules[i] = r
          BY <1>2, <4>1 DEF TierRules, r
        <4>3. QED BY <1>5, <1>8, <3>2, <4>1, <4>2
      <3>3. QED BY <3>1, <3>2
    <2>5. ConnectsJustified(d)'
      <3> SUFFICES ASSUME NEW k \in Ips \X Ports, maps'.NET_CONNECT_POLICY[<<d, k>>] # NONE
                   PROVE  /\ maps'.NET_CONNECT_POLICY[<<d, k>>] = 1
                          /\ \E j \in TierRules("net") : rules[j].key = k
        BY <1>11 DEF ConnectsJustified
      <3>0. k \in PolicyKeys["NET_CONNECT_POLICY"] /\ "NET_CONNECT_POLICY" \in MapNames
        BY DEF PolicyKeys, MapNames
      <3>1. CASE m # "NET_CONNECT_POLICY" \/ d # c \/ k # key
        <4>1. maps'.NET_CONNECT_POLICY[<<d, k>>] = maps.NET_CONNECT_POLICY[<<d, k>>]
          BY <1>8, <3>0, <3>1
        <4>2. QED BY <2>0, <4>1 DEF Justified, ConnectsJustified
      <3>2. CASE m = "NET_CONNECT_POLICY" /\ d = c /\ k = key
        <4>1. r.tier = "net"
          BY <1>4, <1>5, <3>2
        <4>2. i \in TierRules("net") /\ rules[i] = r
          BY <1>2, <4>1 DEF TierRules, r
        <4>3. QED BY <1>5, <1>8, <3>2, <4>1, <4>2
      <3>3. QED BY <3>1, <3>2
    <2>6. NoHoles(d)'
      <3> SUFFICES ASSUME NEW s \in Slots, maps'.FILE_PREFIX_POLICY[<<d, s>>] # NONE,
                          NEW t \in 0..s
                   PROVE  maps'.FILE_PREFIX_POLICY[<<d, t>>] # NONE
        BY DEF NoHoles
      <3>0. /\ s \in PolicyKeys["FILE_PREFIX_POLICY"] /\ "FILE_PREFIX_POLICY" \in MapNames
            /\ t \in PolicyKeys["FILE_PREFIX_POLICY"] /\ s \in Nat /\ t \in Nat
        BY KernelAssumption DEF PolicyKeys, MapNames, Slots
      <3>1. CASE m # "FILE_PREFIX_POLICY" \/ d # c \/ s # key
        <4>1. maps'.FILE_PREFIX_POLICY[<<d, s>>] = maps.FILE_PREFIX_POLICY[<<d, s>>]
          BY <1>8, <3>0, <3>1
        <4>2. maps.FILE_PREFIX_POLICY[<<d, t>>] # NONE
          BY <2>0, <4>1 DEF Justified, NoHoles
        <4>3. QED BY <1>9, <3>0, <4>2 DEF Grown
      <3>2. CASE m = "FILE_PREFIX_POLICY" /\ d = c /\ s = key
        <4>1. s = loader.slot
          BY <1>4, <1>5, <3>2
        <4>2. CASE t = s
          BY <1>6, <1>8, <3>2, <4>2
        <4>3. CASE t # s
          <5>1. t \in 0..(loader.slot - 1)
            BY <3>0, <4>1, <4>3
          <5>2. maps.FILE_PREFIX_POLICY[<<d, t>>] # NONE
            BY <1>0, <1>1, <3>2, <5>1 DEF PolicyInv, Progress
          <5>3. QED BY <1>9, <3>0, <5>2 DEF Grown
        <4>4. QED BY <4>2, <4>3
      <3>3. QED BY <3>1, <3>2
    <2>7. QED BY <2>1, <2>2, <2>3, <2>4, <2>5, <2>6 DEF Justified
  <1>13. Progress'
    <2>1. /\ loader.slot = IF SlotOf(i) < MAX_PREFIX_SLOTS THEN SlotOf(i) ELSE MAX_PREFIX_SLOTS
          /\ \A j \in Indices : j < i => Installed(c, j)
          /\ \A t \in 0..(loader.slot - 1) : maps.FILE_PREFIX_POLICY[<<c, t>>] # NONE
      BY <1>0, <1>1 DEF PolicyInv, Progress
    <2>2. SlotOf(i + 1) = IF r.tier = "prefix" THEN SlotOf(i) + 1 ELSE SlotOf(i)
      BY <1>2, SlotNext DEF r
    <2>3. SlotOf(i) \in Nat
      BY <1>2, SlotTypes
    <2>4. loader'.slot = IF SlotOf(i + 1) < MAX_PREFIX_SLOTS THEN SlotOf(i + 1) ELSE MAX_PREFIX_SLOTS
      BY <1>1, <1>7, <2>1, <2>2, <2>3, KernelAssumption
    <2>5. SlotOf(i + 1)' = SlotOf(i + 1)
      BY <1>11
    <2>6. Installed(c, i)'
      <3>1. SlotOf(i)' = SlotOf(i) /\ rules'[i] = r
        BY <1>11 DEF r
      <3>2. CASE r.tier = "path"
        BY <1>5, <1>6, <1>8, <3>1, <3>2 DEF Installed
      <3>3. CASE r.tier = "class"
        BY <1>5, <1>6, <1>8, <3>1, <3>3 DEF Installed
      <3>4. CASE r.tier = "prefix"
        BY <1>5, <1>6, <1>7, <1>8, <3>1, <3>4 DEF Installed
      <3>5. CASE r.tier = "exec"
        BY <1>5, <1>6, <1>8, <3>1, <3>5 DEF Installed
      <3>6. CASE r.tier = "net"
        BY <1>5, <1>6, <1>8, <3>1, <3>6 DEF Installed
      <3>7. QED BY <1>4, <3>2, <3>3, <3>4, <3>5, <3>6
    <2>7. ASSUME NEW j \in Indices, j < i + 1 PROVE Installed(c, j)'
      <3>1. CASE j = i
        BY <2>6, <3>1
      <3>2. CASE j # i
        <4>1. j < i
          BY <1>2, <2>7, <3>2 DEF Indices
        <4>2. QED BY <1>1, <1>10, <2>1, <4>1
      <3>3. QED BY <3>1, <3>2
    <2>8. ASSUME NEW t \in 0..(loader'.slot - 1) PROVE maps'.FILE_PREFIX_POLICY[<<c, t>>] # NONE
      <3>1. CASE t \in 0..(loader.slot - 1)
        <4>1. t \in PolicyKeys["FILE_PREFIX_POLICY"] /\ "FILE_PREFIX_POLICY" \in MapNames
          BY <1>2, <3>1, KernelAssumption DEF PolicyKeys, MapNames, Slots
        <4>2. QED BY <1>1, <1>9, <2>1, <3>1, <4>1 DEF Grown
      <3>2. CASE t \notin 0..(loader.slot - 1)
        <4>1. r.tier = "prefix" /\ t = loader.slot
          BY <1>1, <1>2, <2>8, <3>2, KernelAssumption
        <4>2. QED BY <1>5, <1>6, <1>8, <4>1
      <3>3. QED BY <3>1, <3>2
    <2>9. loader'.pc = "rule" /\ loader'.idx = i + 1 /\ loader'.cgid = c /\ Indices' = Indices
      BY <1>1, <1>11
    <2>10. QED BY <2>4, <2>5, <2>7, <2>8, <2>9 DEF Progress
  <1>14. (\A d \in bound : Complete(d))'
    BY <1>1, <1>2, <1>10 DEF PolicyInv
  <1>15. (\A d \in Configured :
             POLICY_CGROUPS[d] = [default_action |-> 0, audit_only |-> AuditOnly])'
    BY <1>1 DEF PolicyInv, Configured
  <1>16. QED BY <1>12, <1>13, <1>14, <1>15 DEF PolicyInv

(* Expanding a category only adds what the rules already cover. *)
LEMMA ExpandKeeps ==
    ASSUME Inv, PolicyInv, UNCHANGED <<POLICY_CGROUPS, rules, bound, loader>>,
           loader.pc = "expand", loader.cgid \in CgroupIds,
           NEW p \in MissingSiblings(loader.cgid),
           maps' = [maps EXCEPT !["FILE_PATTERN_POLICY"][<<loader.cgid, p>>] = 1]
    PROVE  PolicyInv'
  <1>0. PICK c \in CgroupIds : c = loader.cgid
    OBVIOUS
  <1>1. MapsTypeOK /\ rules \in Seq(Rule) /\ bound \in SUBSET CgroupIds
    BY DEF Inv, TypeOK
  <1>2. /\ p \in Patterns /\ p \in PolicyKeys["FILE_PATTERN_POLICY"]
        /\ "FILE_PATTERN_POLICY" \in MapNames
        /\ maps.FILE_PATTERN_POLICY[<<c, p>>] = NONE
    BY <1>0 DEF MissingSiblings, PolicyKeys, MapNames
  <1>3. Wrote("FILE_PATTERN_POLICY", c, p, 1)
    BY <1>0, <1>1, <1>2, InsertEffect
  <1>4. /\ maps'.FILE_PATTERN_POLICY[<<c, p>>] = 1
        /\ \A n \in MapNames : \A d \in CgroupIds, j \in PolicyKeys[n] :
              n # "FILE_PATTERN_POLICY" \/ d # c \/ j # p =>
                  maps'[n][<<d, j>>] = maps[n][<<d, j>>]
    BY <1>3 DEF Wrote
  <1>5. Grown
    BY <1>2, <1>4 DEF Grown
  <1>6. /\ \A d \in CgroupIds : \A j \in Indices : Installed(d, j) => Installed(d, j)'
        /\ \A d \in CgroupIds : Complete(d) => Complete(d)'
    BY <1>1, <1>5, GrownKeeps
  <1>7. /\ rules' = rules /\ Indices' = Indices
        /\ \A t : TierRules(t)' = TierRules(t)
        /\ \A j : SlotOf(j)' = SlotOf(j)
        /\ \A h : PathRulesFor(h)' = PathRulesFor(h)
        /\ \A q : ClassCovered(q)' <=> ClassCovered(q)
    BY SameRules
  <1>8. /\ maps'.FILE_PATH_POLICY = maps.FILE_PATH_POLICY
        /\ maps'.FILE_PREFIX_POLICY = maps.FILE_PREFIX_POLICY
        /\ maps'.EXEC_PATH_POLICY = maps.EXEC_PATH_POLICY
        /\ maps'.NET_CONNECT_POLICY = maps.NET_CONNECT_POLICY
    BY <1>1 DEF MapsTypeOK, MapNames
  <1>9. ClassCovered(p)
    <2>1. PICK g \in CategoryGroups :
             p \in g /\ \E q \in g : maps.FILE_PATTERN_POLICY[<<c, q>>] # NONE
      BY <1>0 DEF MissingSiblings
    <2>2. PICK q \in g : maps.FILE_PATTERN_POLICY[<<c, q>>] # NONE
      BY <2>1
    <2>3. q \in Patterns
      BY LoaderAssumption
    <2>4. ClassCovered(q)
      BY <2>2, <2>3 DEF PolicyInv, Justified, ClassesJustified
    <2>5. PICK i \in TierRules("class") :
             rules[i].key = q \/ \E g2 \in CategoryGroups : q \in g2 /\ rules[i].key \in g2
      BY <2>4 DEF ClassCovered
    <2>6. rules[i].key \in g
      BY <2>2, <2>5, LoaderAssumption
    <2>7. QED BY <2>1, <2>5, <2>6 DEF ClassCovered
  <1>10. ASSUME NEW d \in CgroupIds PROVE Justified(d)'
    <2>0. Justified(d)
      BY DEF PolicyInv
    <2>1. ClassesJustified(d)'
      <3> SUFFICES ASSUME NEW q \in Patterns, maps'.FILE_PATTERN_POLICY[<<d, q>>] # NONE
                   PROVE  maps'.FILE_PATTERN_POLICY[<<d, q>>] = 1 /\ ClassCovered(q)
        BY <1>7 DEF ClassesJustified
      <3>1. CASE d = c /\ q = p
        BY <1>4, <1>9, <3>1
      <3>2. CASE d # c \/ q # p
        <4>1. q \in PolicyKeys["FILE_PATTERN_POLICY"]
          BY DEF PolicyKeys
        <4>2. maps'.FILE_PATTERN_POLICY[<<d, q>>] = maps.FILE_PATTERN_POLICY[<<d, q>>]
          BY <1>2, <1>4, <3>2, <4>1
        <4>3. QED BY <2>0, <4>2 DEF Justified, ClassesJustified
      <3>3. QED BY <3>1, <3>2
    <2>2. PathsJustified(d)'
      BY <1>7, <1>8, <2>0 DEF Justified, PathsJustified
    <2>3. PrefixesJustified(d)' /\ NoHoles(d)'
      BY <1>7, <1>8, <2>0 DEF Justified, PrefixesJustified, NoHoles
    <2>4. ExecsJustified(d)' /\ ConnectsJustified(d)'
      BY <1>7, <1>8, <2>0 DEF Justified, ExecsJustified, ConnectsJustified
    <2>5. QED BY <2>1, <2>2, <2>3, <2>4 DEF Justified
  <1>11. Progress'
    <2>1. \A j \in Indices : Installed(c, j)'
      BY <1>0, <1>6 DEF PolicyInv, Progress
    <2>2. QED BY <1>0, <1>7, <2>1 DEF Progress
  <1>12. (\A d \in bound : Complete(d))'
    BY <1>1, <1>6 DEF PolicyInv
  <1>13. (\A d \in Configured :
             POLICY_CGROUPS[d] = [default_action |-> 0, audit_only |-> AuditOnly])'
    BY DEF PolicyInv, Configured
  <1>14. QED BY <1>10, <1>11, <1>12, <1>13 DEF PolicyInv

(* A step that writes no rule map keeps what relates maps and rules; what is  *)
(* left to show is about the configurations and the bind in progress.        *)
LEMMA OtherKeeps ==
    ASSUME Inv, PolicyInv, UNCHANGED <<rules, maps>>, bound' \subseteq CgroupIds,
           \A c \in bound' : c \in bound \/ Complete(c),
           \A c \in Configured' :
              POLICY_CGROUPS'[c] = [default_action |-> 0, audit_only |-> AuditOnly],
           Progress'
    PROVE  PolicyInv'
  <1>1. \A c \in CgroupIds : Justified(c)'
    BY SameMaps DEF PolicyInv
  <1>2. \A c \in bound' : Complete(c)'
    BY SameMaps DEF PolicyInv
  <1>3. QED BY <1>1, <1>2 DEF PolicyInv

LEMMA NextIndInv == IndInv /\ [Next]_vars => IndInv'
  <1> SUFFICES ASSUME IndInv, [Next]_vars PROVE IndInv' OBVIOUS
  <1>0. Inv /\ Inv' /\ TypeOK /\ TypeOK'
    BY NextInv DEF IndInv, Inv
  <1>a. UNCHANGED rules
    BY DEF Next, LoaderStep, BindStep, LoadPolicy, Rebind, InsertConfig, PublishSkbCgid,
           ApplyRule, SkipRule, RulesDone, ExpandCategory, BindDone, RemoveOld, BindReturned, vars
  <1> SUFFICES ASSUME AllowOnly PROVE PolicyInv'
    BY <1>0, <1>a, SameRules DEF IndInv
  <1>b. PolicyInv
    BY DEF IndInv
  <1>c. /\ MapsTypeOK /\ rules \in Seq(Rule) /\ loader \in Loader /\ loader' \in Loader
        /\ bound \subseteq CgroupIds /\ bound' \subseteq CgroupIds /\ BindInv
    BY <1>0 DEF TypeOK, Inv
  <1>d. /\ \A c \in bound : Complete(c)
        /\ \A c \in Configured :
              POLICY_CGROUPS[c] = [default_action |-> 0, audit_only |-> AuditOnly]
        /\ Progress
    BY <1>b DEF PolicyInv
  <1>1. ASSUME NEW c \in CgroupIds, LoadPolicy(c) \/ Rebind(c) PROVE PolicyInv'
    <2>1. /\ UNCHANGED <<rules, maps, bound, POLICY_CGROUPS>>
          /\ loader'.pc = "config" /\ loader'.idx = 1 /\ loader'.slot = 0
      BY <1>1 DEF LoadPolicy, Rebind, StartBind, mapVars
    <2>2. Progress'
      BY <2>1 DEF Progress
    <2>3. QED BY <1>0, <1>b, <1>c, <1>d, <2>1, <2>2, OtherKeeps DEF Configured
  <1>2. CASE InsertConfig
    <2>1. loader.pc = "config" /\ UNCHANGED <<rules, maps, bound>> /\ loader.cgid \in CgroupIds
      BY <1>2, <1>c DEF InsertConfig, BindInv
    <2>2. CASE AllowlistHasRoom(loader.cgid)
      <3>1. /\ POLICY_CGROUPS' = [POLICY_CGROUPS EXCEPT ![loader.cgid] =
                                    [default_action |-> 0, audit_only |-> AuditOnly]]
            /\ loader' = [loader EXCEPT !.pc = "skb"]
        BY <1>2, <2>2 DEF InsertConfig
      <3>2. loader'.pc = "skb" /\ UNCHANGED <<loader.idx, loader.slot>>
        BY <1>c, <3>1, Goes DEF LoaderPcs
      <3>3. Progress'
        BY <1>d, <2>1, <3>2 DEF Progress
      <3>4. \A c \in Configured' :
               POLICY_CGROUPS'[c] = [default_action |-> 0, audit_only |-> AuditOnly]
        BY <1>c, <1>d, <2>1, <3>1 DEF MapsTypeOK, Configured
      <3>5. QED BY <1>0, <1>b, <1>c, <2>1, <3>3, <3>4, OtherKeeps
    <2>3. CASE ~AllowlistHasRoom(loader.cgid)
      <3>1. UNCHANGED POLICY_CGROUPS /\ loader' = [loader EXCEPT !.pc = "err"]
        BY <1>2, <2>3 DEF InsertConfig, Fail
      <3>2. loader'.pc = "err"
        BY <1>c, <3>1, Goes DEF LoaderPcs
      <3>3. Progress'
        BY <3>2 DEF Progress
      <3>4. QED BY <1>0, <1>b, <1>c, <1>d, <2>1, <3>1, <3>3, OtherKeeps DEF Configured
    <2>4. QED BY <2>2, <2>3
  <1>3. CASE PublishSkbCgid
    <2>1. /\ loader.pc = "skb" /\ UNCHANGED <<rules, maps, bound, POLICY_CGROUPS>>
          /\ loader' = [loader EXCEPT !.pc = "rule"]
      BY <1>3 DEF PublishSkbCgid
    <2>2. loader'.pc = "rule" /\ loader'.idx = 1 /\ loader'.slot = 0
      BY <1>c, <1>d, <2>1, Goes DEF LoaderPcs, Progress
    <2>3. SlotOf(1) = 0 /\ \A i : SlotOf(i)' = SlotOf(i)
      BY <1>a, <1>c, FirstSlotIsZero, SameRules
    <2>4. \A i \in Indices' : ~(i < 1)
      BY <1>0 DEF Indices
    <2>5. Progress'
      BY <2>2, <2>3, <2>4, KernelAssumption DEF Progress
    <2>6. QED BY <1>0, <1>b, <1>c, <1>d, <2>1, <2>5, OtherKeeps DEF Configured
  <1>4. CASE ApplyRule
    <2>1. CASE loader'.pc = "rule"
      BY <1>0, <1>4, <1>b, <2>1, ApplyRuleKeeps
    <2>2. CASE loader'.pc # "rule"
      <3>1. loader'.pc = "err" /\ UNCHANGED <<rules, maps, bound, POLICY_CGROUPS>>
        BY <1>0, <1>4, <2>2, ApplyRuleStep
      <3>2. Progress'
        BY <3>1 DEF Progress
      <3>3. QED BY <1>0, <1>b, <1>c, <1>d, <3>1, <3>2, OtherKeeps DEF Configured
    <2>3. QED BY <2>1, <2>2
  <1>5. CASE SkipRule
    <2>1. PICK i, c : i = loader.idx /\ c = loader.cgid
      OBVIOUS
    <2>2. /\ loader.pc = "rule" /\ i \in Indices /\ i \in Nat
          /\ Skipped(rules[i], loader.slot) /\ loader' = [loader EXCEPT !.idx = @ + 1]
          /\ UNCHANGED <<rules, maps, bound, POLICY_CGROUPS>>
      BY <1>5, <1>c, <2>1 DEF SkipRule, mapVars, Indices, Loader
    <2>3. loader'.idx = i + 1 /\ loader'.cgid = c /\ UNCHANGED <<loader.pc, loader.slot>>
      BY <1>c, <2>1, <2>2 DEF Loader
    <2>4. /\ loader.slot = IF SlotOf(i) < MAX_PREFIX_SLOTS THEN SlotOf(i) ELSE MAX_PREFIX_SLOTS
          /\ \A j \in Indices : j < i => Installed(c, j)
          /\ \A t \in 0..(loader.slot - 1) : maps.FILE_PREFIX_POLICY[<<c, t>>] # NONE
      BY <1>d, <2>1, <2>2 DEF Progress
    <2>5. SlotOf(i) \in Nat
      BY <1>c, <2>2, SlotTypes
    <2>6. SlotOf(i + 1) = IF rules[i].tier = "prefix" THEN SlotOf(i) + 1 ELSE SlotOf(i)
      BY <1>c, <2>2, SlotNext
    <2>7. rules[i].tier = "other" \/ (rules[i].tier = "prefix" /\ ~(SlotOf(i) < MAX_PREFIX_SLOTS))
      BY <2>2, <2>4, <2>5, KernelAssumption DEF Skipped
    <2>8. loader'.slot = IF SlotOf(i + 1) < MAX_PREFIX_SLOTS THEN SlotOf(i + 1) ELSE MAX_PREFIX_SLOTS
      BY <2>3, <2>4, <2>5, <2>6, <2>7, KernelAssumption
    <2>9. Installed(c, i)
      BY <2>7 DEF Installed
    <2>10. ASSUME NEW j \in Indices, j < i + 1 PROVE Installed(c, j)
      <3>1. j = i \/ j < i
        BY <2>2, <2>10 DEF Indices
      <3>2. QED BY <2>4, <2>9, <3>1
    <2>11. /\ Indices' = Indices /\ SlotOf(i + 1)' = SlotOf(i + 1)
           /\ \A j : Installed(c, j)' <=> Installed(c, j)
      BY <2>2, SameRules, SameMaps
    <2>12. Progress'
      BY <2>2, <2>3, <2>4, <2>8, <2>10, <2>11 DEF Progress
    <2>13. QED BY <1>0, <1>b, <1>c, <1>d, <2>2, <2>12, OtherKeeps DEF Configured
  <1>6. CASE RulesDone
    <2>1. PICK c : c = loader.cgid
      OBVIOUS
    <2>2. /\ loader.pc = "rule" /\ loader.idx > Len(rules)
          /\ loader' = [loader EXCEPT !.pc = "expand"]
          /\ UNCHANGED <<rules, maps, bound, POLICY_CGROUPS>>
      BY <1>6 DEF RulesDone, mapVars
    <2>3. loader'.pc = "expand" /\ loader'.cgid = c
      BY <1>c, <2>1, <2>2, Goes DEF LoaderPcs
    <2>4. \A j \in Indices : Installed(c, j)
      <3>1. \A j \in Indices : j < loader.idx
        BY <1>c, <2>2 DEF Indices, Loader
      <3>2. QED BY <1>d, <2>1, <2>2, <3>1 DEF Progress
    <2>5. Indices' = Indices /\ \A j : Installed(c, j)' <=> Installed(c, j)
      BY <2>2, SameRules, SameMaps
    <2>6. Progress'
      BY <2>3, <2>4, <2>5 DEF Progress
    <2>7. QED BY <1>0, <1>b, <1>c, <1>d, <2>2, <2>6, OtherKeeps DEF Configured
  <1>7. CASE ExpandCategory
    <2>1. /\ loader.pc = "expand" /\ loader.cgid \in CgroupIds
          /\ UNCHANGED <<POLICY_CGROUPS, rules, bound>>
      BY <1>0, <1>7, ExpandStep
    <2>2. CASE loader'.pc = "err" /\ UNCHANGED maps
      <3>1. Progress'
        BY <2>2 DEF Progress
      <3>2. QED BY <1>0, <1>b, <1>c, <1>d, <2>1, <2>2, <3>1, OtherKeeps DEF Configured
    <2>3. ASSUME UNCHANGED loader, NEW p \in MissingSiblings(loader.cgid),
                 maps' = [maps EXCEPT !["FILE_PATTERN_POLICY"][<<loader.cgid, p>>] = 1]
          PROVE  PolicyInv'
      BY <1>0, <1>b, <2>1, <2>3, ExpandKeeps
    <2>4. QED BY <1>0, <1>7, <2>2, <2>3, ExpandStep
  <1>8. CASE BindDone
    <2>1. /\ loader.pc = "expand" /\ MissingSiblings(loader.cgid) = {}
          /\ bound' = bound \cup {loader.cgid}
          /\ UNCHANGED <<rules, maps, POLICY_CGROUPS>>
          /\ loader' = [loader EXCEPT !.pc = IF loader.old = NONE THEN "ok" ELSE "remove_old"]
      BY <1>8 DEF BindDone, mapVars
    <2>2. loader'.pc \in {"ok", "remove_old"}
      BY <1>c, <2>1, Goes DEF LoaderPcs
    <2>3. Progress'
      BY <2>2 DEF Progress
    <2>4. \A i \in Indices : Installed(loader.cgid, i)
      BY <1>d, <2>1 DEF Progress
    <2>5. ClassesExpanded(loader.cgid)
      <3> SUFFICES ASSUME NEW p \in Patterns, ClassCovered(p)
                   PROVE  maps.FILE_PATTERN_POLICY[<<loader.cgid, p>>] # NONE
        BY DEF ClassesExpanded
      <3>1. PICK i \in TierRules("class") :
               rules[i].key = p \/ \E g \in CategoryGroups : p \in g /\ rules[i].key \in g
        BY DEF ClassCovered
      <3>2. maps.FILE_PATTERN_POLICY[<<loader.cgid, rules[i].key>>] # NONE
        BY <2>4 DEF Installed, TierRules
      <3>3. QED BY <2>1, <3>1, <3>2 DEF MissingSiblings
    <2>6. Complete(loader.cgid)
      BY <2>4, <2>5 DEF Complete
    <2>7. QED BY <1>0, <1>b, <1>c, <1>d, <2>1, <2>3, <2>6, OtherKeeps DEF Configured
  <1>9. CASE RemoveOld
    <2>1. /\ POLICY_CGROUPS' = [POLICY_CGROUPS EXCEPT ![loader.old] = NONE]
          /\ loader' = [loader EXCEPT !.pc = "ok"] /\ UNCHANGED <<rules, maps, bound>>
      BY <1>9 DEF RemoveOld
    <2>2. loader'.pc = "ok"
      BY <1>c, <2>1, Goes DEF LoaderPcs
    <2>3. Progress'
      BY <2>2 DEF Progress
    <2>4. \A c \in Configured' :
             POLICY_CGROUPS'[c] = [default_action |-> 0, audit_only |-> AuditOnly]
      BY <1>c, <1>d, <2>1 DEF MapsTypeOK, Configured
    <2>5. QED BY <1>0, <1>b, <1>c, <2>1, <2>3, <2>4, OtherKeeps
  <1>10. CASE BindReturned
    <2>1. /\ UNCHANGED <<rules, maps, bound, POLICY_CGROUPS>>
          /\ \/ loader' = [loader EXCEPT !.pc = "exited"]
             \/ loader' = [loader EXCEPT !.pc = "idle"]
      BY <1>10 DEF BindReturned, mapVars
    <2>2. loader'.pc \in {"exited", "idle"}
      BY <1>c, <2>1, Goes DEF LoaderPcs
    <2>3. Progress'
      BY <2>2 DEF Progress
    <2>4. QED BY <1>0, <1>b, <1>c, <1>d, <2>1, <2>3, OtherKeeps DEF Configured
  <1>11. CASE UNCHANGED vars
    <2>1. UNCHANGED <<rules, maps, bound, POLICY_CGROUPS, loader>>
      BY <1>11 DEF vars
    <2>2. Indices' = Indices /\ (\A i : SlotOf(i)' = SlotOf(i))
          /\ (\A c, i : Installed(c, i)' <=> Installed(c, i))
      BY <2>1, SameRules, SameMaps
    <2>3. Progress'
      BY <1>d, <2>1, <2>2 DEF Progress
    <2>4. QED BY <1>0, <1>b, <1>c, <1>d, <2>1, <2>3, OtherKeeps DEF Configured
  <1>12. QED
    BY <1>1, <1>2, <1>3, <1>4, <1>5, <1>6, <1>7, <1>8, <1>9, <1>10, <1>11
    DEF Next, LoaderStep, BindStep

LEMMA InitIndInv == Init => IndInv
  <1> SUFFICES ASSUME Init PROVE IndInv OBVIOUS
  <1>1. Inv
    BY InitInv
  <1>2. /\ bound = {} /\ loader.pc = "unloaded" /\ Configured = {}
    BY DEF Init, Configured
  <1>3. ASSUME NEW m \in MapNames, NEW c \in CgroupIds, NEW k \in PolicyKeys[m]
        PROVE  maps[m][<<c, k>>] = NONE
    BY DEF Init, NoEntries
  <1>4. ASSUME NEW c \in CgroupIds PROVE Justified(c)
    <2>1. /\ \A h \in Hashes : maps.FILE_PATH_POLICY[<<c, h>>] = NONE
          /\ \A p \in Patterns : maps.FILE_PATTERN_POLICY[<<c, p>>] = NONE
          /\ \A t \in Slots : maps.FILE_PREFIX_POLICY[<<c, t>>] = NONE
          /\ \A h \in Hashes : maps.EXEC_PATH_POLICY[<<c, h>>] = NONE
          /\ \A k \in Ips \X Ports : maps.NET_CONNECT_POLICY[<<c, k>>] = NONE
      BY <1>3 DEF MapNames, PolicyKeys
    <2>2. QED BY <2>1 DEF Justified, PathsJustified, ClassesJustified, PrefixesJustified,
                          ExecsJustified, ConnectsJustified, NoHoles
  <1>5. Progress
    BY <1>2 DEF Progress
  <1>6. QED BY <1>1, <1>2, <1>4, <1>5 DEF IndInv, PolicyInv

(* The main result: once bind has completed for a cgroup, the three LSM hooks *)
(* decide for it exactly what the allowing rules say, whatever the order of  *)
(* the rules, however many restarts and failed rebinds there have been, and  *)
(* however small the maps are.                                               *)
THEOREM PolicyInForce == Spec => []BoundPolicyInForce
  <1>1. Spec => []IndInv
    BY InitIndInv, NextIndInv, PTL DEF Spec
  <1>2. QED BY <1>1, IndInvSuffices, PTL

-----------------------------------------------------------------------------
(***************************************************************************)
(* A hook call among the steps of the loader (HookRace).  CallInv relates  *)
(* where the call is to what it has ruled out: past the exact-path lookup  *)
(* no rule names the path, past the class lookup no rule covers its class, *)
(* and no prefix rule of a slot already scanned matches.  None of it       *)
(* mentions the allowlist, which may change under the call: what the call  *)
(* relies on is that a completed bind stays in the rule maps for good.     *)
(***************************************************************************)
NoPathRule == PathRulesFor(PathHash[call.path]) = {}

NoClassRule == ~(Classify[call.path] # "Regular" /\ ClassCovered(Classify[call.path]))

NoPrefixRuleBelow(n) ==
    \A i \in TierRules("prefix") :
        SlotOf(i) < n => call.path \notin StartsWith[Truncate[rules[i].key]]

CallInv ==
    call \in ActiveCall /\ AllowOnly =>
        /\ call.config \in {NONE, [default_action |-> 0, audit_only |-> AuditOnly]}
        /\ call.pc = "config" => call.config = NONE
        /\ call.pc \in {"path", "class", "prefix"} => call.config # NONE
        /\ call.pc \in {"config", "path", "class"} => call.slot = 0
        /\ call.settled =>
              /\ call.cgid \in bound
              /\ call.pc \in {"class", "prefix"} => NoPathRule
              /\ call.pc = "prefix" => NoClassRule /\ NoPrefixRuleBelow(call.slot)
        /\ CallDecidesPolicy

HookInv == IndInv /\ HookTypeOK /\ CallInv

(* A call moves on to its next lookup, or returns. *)
LEMMA CallMoves ==
    ASSUME call \in ActiveCall, NEW pc \in {"config", "path", "class", "prefix", "done"},
           NEW rc \in {-1, 0}
    PROVE  /\ call' = [call EXCEPT !.pc = pc] =>
                 /\ call' \in ActiveCall /\ call'.pc = pc
                 /\ UNCHANGED <<call.cgid, call.path, call.req, call.settled, call.config,
                                call.slot, call.rc>>
           /\ call' = [call EXCEPT !.pc = pc, !.rc = rc] =>
                 /\ call' \in ActiveCall /\ call'.pc = pc /\ call'.rc = rc
                 /\ UNCHANGED <<call.cgid, call.path, call.req, call.settled, call.config,
                                call.slot>>
  BY DEF ActiveCall

(* No call is taken for a call. *)
LEMMA NoCallFacts == NoCall.pc = "none" /\ NoCall \notin ActiveCall
  BY DEF NoCall, ActiveCall

(* What an outcome returns, for a configuration the loader writes. *)
LEMMA Outcomes ==
    ASSUME NEW config
    PROVE  /\ Pass.rc = 0
           /\ Refuse(config).rc \in {-1, 0} /\ DefaultOutcome(config).rc \in {-1, 0}
           /\ \A v : VerdictOutcome(config, v).rc \in {-1, 0}
           /\ config = [default_action |-> 0, audit_only |-> AuditOnly] =>
                 /\ Refuse(config).rc = 0 <=> AuditOnly
                 /\ DefaultOutcome(config).rc = 0 <=> AuditOnly
                 /\ VerdictOutcome(config, 1).rc = 0
  BY LoaderAssumption DEF Pass, Refuse, DefaultOutcome, VerdictOutcome, verdict_to_rc

(* A step of the loader leaves a call where it is, and all that it relies on. *)
LEMMA LoaderKeepsCall ==
    ASSUME HookInv, [Next]_vars, UNCHANGED call
    PROVE  HookInv'
  <1>1. IndInv'
    BY NextIndInv DEF HookInv
  <1>2. UNCHANGED rules /\ bound \subseteq bound'
    BY DEF Next, LoaderStep, BindStep, LoadPolicy, Rebind, InsertConfig, PublishSkbCgid,
           ApplyRule, SkipRule, RulesDone, ExpandCategory, BindDone, RemoveOld, BindReturned,
           vars
  <1>3. HookTypeOK'
    BY DEF HookInv, HookTypeOK
  <1>4. /\ AllowOnly' <=> AllowOnly
        /\ NoPathRule' <=> NoPathRule
        /\ NoClassRule' <=> NoClassRule
        /\ NoPrefixRuleBelow(call.slot)' <=> NoPrefixRuleBelow(call.slot)
    BY <1>2, SameRules DEF NoPathRule, NoClassRule, NoPrefixRuleBelow
  <1>5. CallDecidesPolicy' <=> CallDecidesPolicy
    <2>1. PrefixCovered(call.path)' <=> PrefixCovered(call.path)
      BY <1>2, SameRules DEF PrefixCovered
    <2>2. FilePermitted(call.path, call.req)' <=> FilePermitted(call.path, call.req)
      BY <1>2, <2>1, SameRules DEF FilePermitted
    <2>3. QED BY <1>4, <2>2 DEF CallDecidesPolicy
  <1>6. CallInv'
    BY <1>2, <1>4, <1>5 DEF HookInv, CallInv
  <1>7. QED BY <1>1, <1>3, <1>6 DEF HookInv

(* The lookups of a call, one by one, on maps that do not change. *)
LEMMA HookStepKeeps ==
    ASSUME HookInv, UNCHANGED vars, HookStep
    PROVE  HookTypeOK' /\ CallInv'
  <1>0. /\ Inv /\ TypeOK /\ MapsTypeOK /\ rules \in Seq(Rule)
        /\ HookTypeOK /\ CallInv /\ (AllowOnly => PolicyInv)
    BY DEF HookInv, IndInv, Inv, TypeOK
  <1>1. CASE Return
    BY <1>1, NoCallFacts DEF Return, HookTypeOK, CallInv
  <1> SUFFICES ASSUME ~Return, call \in ActiveCall PROVE HookTypeOK' /\ CallInv'
    BY <1>0, <1>1, NoCallFacts
    DEF HookTypeOK, HookStep, ReadConfig, LookupPath, LookupClass, LookupPrefix
  <1> DEFINE c == call.cgid
             path == call.path
             h == PathHash[path]
             class == Classify[path]
             ours == [default_action |-> 0, audit_only |-> AuditOnly]
  <1>2. /\ c \in CgroupIds /\ path \in Paths /\ h \in Hashes /\ class \in Patterns
        /\ call.slot \in 0..MAX_PREFIX_SLOTS /\ call.req \in Requests
    BY KernelAssumption DEF ActiveCall
  <1>3. /\ POLICY_CGROUPS \in [CgroupIds -> PolicyConfig \cup {NONE}]
        /\ maps.FILE_PATH_POLICY \in [CgroupIds \X Hashes -> (SUBSET Modes) \cup {NONE}]
        /\ maps.FILE_PREFIX_POLICY \in [CgroupIds \X Slots -> PrefixEntry \cup {NONE}]
    BY <1>0, MapTypes DEF MapsTypeOK
  <1>4. /\ AllowOnly' <=> AllowOnly
        /\ UNCHANGED <<rules, maps, bound, POLICY_CGROUPS>>
        /\ \A p \in Paths, req \in Requests : FilePermitted(p, req)' <=> FilePermitted(p, req)
    <2>1. UNCHANGED <<rules, maps, bound, POLICY_CGROUPS>>
      BY DEF vars
    <2>2. QED BY <2>1, SameRules DEF FilePermitted, PrefixCovered
  <1>5. ASSUME AllowOnly PROVE Justified(c) /\ (call.settled => Complete(c))
    BY <1>0, <1>2, <1>5 DEF PolicyInv, CallInv
  \* What is left to show of a call that returns.
  <1>6. ASSUME NEW rc \in {-1, 0}, call' = [call EXCEPT !.pc = "done", !.rc = rc],
               AllowOnly /\ call.settled =>
                  IF call.config = NONE THEN rc = 0
                  ELSE rc = 0 <=> AuditOnly \/ FilePermitted(path, call.req)
        PROVE  HookTypeOK' /\ CallInv'
    <2>1. /\ call' \in ActiveCall /\ call'.pc = "done" /\ call'.rc = rc
          /\ UNCHANGED <<call.cgid, call.path, call.req, call.settled, call.config, call.slot>>
      BY <1>6, CallMoves
    <2>2. CallDecidesPolicy'
      BY <1>2, <1>4, <1>6, <2>1 DEF CallDecidesPolicy
    <2>3. QED BY <1>0, <1>4, <2>1, <2>2 DEF HookTypeOK, CallInv
  <1>7. CASE ReadConfig
    <2>1. CASE POLICY_CGROUPS[c] = NONE
      <3>1. call' = [call EXCEPT !.pc = "done", !.rc = 0]
        BY <1>7, <2>1, Outcomes DEF ReadConfig, Finish
      <3>2. AllowOnly => call.config = NONE
        BY <1>0, <1>7 DEF ReadConfig, CallInv
      <3>3. QED BY <1>6, <3>1, <3>2
    <2>2. CASE POLICY_CGROUPS[c] # NONE
      <3>1. call' = [call EXCEPT !.pc = "path", !.config = POLICY_CGROUPS[c]]
        BY <1>7, <2>2 DEF ReadConfig
      <3>2. PICK config \in PolicyConfig : config = POLICY_CGROUPS[c]
        BY <1>2, <1>3, <2>2
      <3>3. /\ call' \in ActiveCall /\ call'.pc = "path" /\ call'.config = config
            /\ UNCHANGED <<call.cgid, call.path, call.req, call.settled, call.slot>>
        BY <3>1, <3>2 DEF ActiveCall
      <3>4. AllowOnly => config = ours
        BY <1>0, <1>2, <2>2, <3>2 DEF PolicyInv, Configured
      <3>5. QED
        BY <1>0, <1>4, <1>7, <2>2, <3>2, <3>3, <3>4
        DEF HookTypeOK, CallInv, CallDecidesPolicy, ReadConfig
    <2>3. QED BY <2>1, <2>2
  <1>8. CASE LookupPath
    <2> DEFINE mask == maps.FILE_PATH_POLICY[<<c, h>>]
    <2>0. AllowOnly => call.config = ours /\ call.config # NONE /\ call.slot = 0
      BY <1>0, <1>8 DEF LookupPath, CallInv
    <2>1. CASE mask = NONE
      <3>1. call' = [call EXCEPT !.pc = "class"]
        BY <1>8, <2>1 DEF LookupPath, Goto
      <3>2. /\ call' \in ActiveCall /\ call'.pc = "class"
            /\ UNCHANGED <<call.cgid, call.path, call.req, call.settled, call.config, call.slot>>
        BY <3>1, CallMoves
      <3>3. AllowOnly /\ call.settled => NoPathRule
        BY <1>5, <2>1 DEF Complete, Installed, PathRulesFor, TierRules, NoPathRule
      <3>4. NoPathRule' <=> NoPathRule
        BY <1>4, <3>2, SameRules DEF NoPathRule
      <3>5. QED
        BY <1>0, <1>4, <2>0, <3>2, <3>3, <3>4 DEF HookTypeOK, CallInv, CallDecidesPolicy
    <2>2. CASE mask # NONE
      <3> DEFINE outcome == IF mask # {} /\ call.req \subseteq mask THEN Pass
                            ELSE Refuse(call.config)
      <3>1. call' = [call EXCEPT !.pc = "done", !.rc = outcome.rc] /\ outcome.rc \in {-1, 0}
        BY <1>8, <2>2, Outcomes DEF LookupPath, Finish
      <3>2. ASSUME AllowOnly, call.settled
            PROVE  outcome.rc = 0 <=> AuditOnly \/ FilePermitted(path, call.req)
        <4>1. mask \in SUBSET Modes
          BY <1>2, <1>3, <2>2
        <4>2. /\ PathRulesFor(h) # {}
              /\ \A a \in mask : \E i \in PathRulesFor(h) : ModeOf(rules[i].action) = a
          BY <1>2, <1>5, <2>2, <3>2 DEF Justified, PathsJustified
        <4>3. ASSUME NEW i \in PathRulesFor(h) PROVE ModeOf(rules[i].action) \in mask
          BY <1>5, <3>2 DEF Complete, Installed, PathRulesFor, TierRules
        <4> HIDE DEF mask
        <4>4. mask # {}
          BY <4>2, <4>3
        <4>5. FilePermitted(path, call.req) <=> call.req \subseteq mask
          <5>1. FilePermitted(path, call.req) <=>
                   \A a \in call.req : \E i \in PathRulesFor(h) : ModeOf(rules[i].action) = a
            BY <4>2 DEF FilePermitted
          <5>2. QED BY <4>2, <4>3, <5>1
        <4>6. QED BY <2>0, <3>2, <4>4, <4>5, Outcomes
      <3> HIDE DEF outcome
      <3>3. QED BY <1>6, <2>0, <3>1, <3>2
    <2>3. QED BY <2>1, <2>2
  <1>9. CASE LookupClass
    <2> DEFINE v == maps.FILE_PATTERN_POLICY[<<c, class>>]
    <2>0. /\ AllowOnly => call.config = ours /\ call.config # NONE
          /\ AllowOnly /\ call.settled => NoPathRule
      BY <1>0, <1>9 DEF LookupClass, CallInv
    <2>1. CASE class # "Regular" /\ v # NONE
      <3> DEFINE rc == VerdictOutcome(call.config, v).rc
      <3>1. call' = [call EXCEPT !.pc = "done", !.rc = rc] /\ rc \in {-1, 0}
        BY <1>9, <2>1, Outcomes DEF LookupClass, Finish
      <3>2. ASSUME AllowOnly, call.settled PROVE rc = 0 /\ FilePermitted(path, call.req)
        <4>1. v = 1 /\ ClassCovered(class)
          BY <1>2, <1>5, <2>1, <3>2 DEF Justified, ClassesJustified
        <4>2. FilePermitted(path, call.req)
          BY <2>0, <2>1, <3>2, <4>1 DEF FilePermitted, NoPathRule
        <4>3. QED BY <2>0, <3>2, <4>1, <4>2, Outcomes
      <3> HIDE DEF rc
      <3>3. QED BY <1>6, <2>0, <3>1, <3>2
    <2>2. CASE ~(class # "Regular" /\ v # NONE)
      <3>1. call' = [call EXCEPT !.pc = "prefix"]
        BY <1>9, <2>2 DEF LookupClass, Goto
      <3>2. /\ call' \in ActiveCall /\ call'.pc = "prefix"
            /\ UNCHANGED <<call.cgid, call.path, call.req, call.settled, call.config, call.slot>>
        BY <3>1, CallMoves
      <3>3. ASSUME AllowOnly, call.settled PROVE NoPathRule' /\ NoClassRule'
        <4>1. NoClassRule
          BY <1>2, <1>5, <2>2, <3>3 DEF Complete, ClassesExpanded, NoClassRule
        <4>2. QED
          BY <1>4, <2>0, <3>2, <3>3, <4>1, SameRules DEF NoPathRule, NoClassRule
      <3>4. ASSUME AllowOnly PROVE NoPrefixRuleBelow(call.slot)'
        <4>1. call'.slot = 0
          BY <1>0, <1>9, <3>2, <3>4 DEF CallInv, LookupClass
        <4>2. \A i \in TierRules("prefix") : i \in Nat /\ SlotOf(i) \in Nat
          BY <1>0, SlotTypes DEF TierRules, Indices
        <4>3. QED BY <1>4, <4>1, <4>2, SameRules DEF NoPrefixRuleBelow
      <3>5. QED
        BY <1>0, <1>4, <2>0, <3>2, <3>3, <3>4 DEF HookTypeOK, CallInv, CallDecidesPolicy
    <2>3. QED BY <2>1, <2>2
  <1>10. CASE LookupPrefix
    <2> DEFINE s == call.slot
               e == maps.FILE_PREFIX_POLICY[<<c, s>>]
    <2>0. /\ AllowOnly => call.config = ours /\ call.config # NONE
          /\ AllowOnly /\ call.settled => NoPathRule /\ NoClassRule /\ NoPrefixRuleBelow(s)
      BY <1>0, <1>10 DEF LookupPrefix, CallInv
    <2>1. AllowOnly /\ call.settled =>
             (FilePermitted(path, call.req) <=> PrefixCovered(path))
      BY <2>0 DEF NoPathRule, NoClassRule, FilePermitted
    <2>2. CASE s \notin Slots \/ e = NONE
      <3> DEFINE rc == DefaultOutcome(call.config).rc
      <3>1. call' = [call EXCEPT !.pc = "done", !.rc = rc] /\ rc \in {-1, 0}
        BY <1>10, <2>2, Outcomes DEF LookupPrefix, Finish
      <3>2. ASSUME AllowOnly, call.settled PROVE ~PrefixCovered(path)
        <4> SUFFICES ASSUME NEW i \in TierRules("prefix"), SlotOf(i) < MAX_PREFIX_SLOTS,
                            path \in StartsWith[Truncate[rules[i].key]]
                     PROVE  FALSE
          BY DEF PrefixCovered
        <4>1. i \in Indices /\ i \in Nat /\ rules[i].tier = "prefix" /\ SlotOf(i) \in Nat
          BY <1>0, SlotTypes DEF TierRules, Indices
        <4>2. SlotOf(i) \in Slots /\ maps.FILE_PREFIX_POLICY[<<c, SlotOf(i)>>] # NONE
            <5>1. SlotOf(i) \in Slots
            BY <4>1, KernelAssumption DEF Slots
          <5>2. Installed(c, i)
            BY <1>5, <3>2, <4>1 DEF Complete
          <5>3. QED BY <4>1, <5>1, <5>2 DEF Installed
        <4>3. ~(SlotOf(i) < s)
          BY <2>0, <3>2 DEF NoPrefixRuleBelow
        <4>4. s \in 0..SlotOf(i) /\ s \in Slots
          BY <1>2, <4>1, <4>2, <4>3, KernelAssumption DEF Slots
        <4>5. e # NONE
          BY <1>5, <3>2, <4>2, <4>4 DEF Justified, NoHoles
        <4>6. QED BY <2>2, <4>4, <4>5
      <3> HIDE DEF rc
      <3>3. AllowOnly => (rc = 0 <=> AuditOnly)
        BY <2>0, Outcomes DEF rc
      <3>4. QED BY <1>6, <2>0, <2>1, <3>1, <3>2, <3>3
    <2>3. CASE s \in Slots /\ e # NONE /\ path \in StartsWith[e.prefix]
      <3> DEFINE rc == VerdictOutcome(call.config, e.verdict).rc
      <3>1. call' = [call EXCEPT !.pc = "done", !.rc = rc] /\ rc \in {-1, 0}
        BY <1>10, <2>3, Outcomes DEF LookupPrefix, Finish
      <3>2. ASSUME AllowOnly, call.settled PROVE rc = 0 /\ PrefixCovered(path)
        <4>1. PICK i \in TierRules("prefix") :
                 SlotOf(i) = s /\ e = [prefix |-> Truncate[rules[i].key], verdict |-> 1]
          BY <1>5, <2>3, <3>2 DEF Justified, PrefixesJustified
        <4>2. e.verdict = 1 /\ e.prefix = Truncate[rules[i].key] /\ s < MAX_PREFIX_SLOTS
          BY <2>3, <4>1, KernelAssumption DEF Slots
        <4>3. PrefixCovered(path)
          BY <2>3, <4>1, <4>2 DEF PrefixCovered
        <4>4. QED BY <2>0, <3>2, <4>2, <4>3, Outcomes
      <3> HIDE DEF rc
      <3>3. QED BY <1>6, <2>0, <2>1, <3>1, <3>2
    <2>4. CASE s \in Slots /\ e # NONE /\ path \notin StartsWith[e.prefix]
      <3>1. call' = [call EXCEPT !.slot = s + 1] /\ call.pc = "prefix"
        BY <1>10, <2>4 DEF LookupPrefix
      <3>2. PICK n \in 0..MAX_PREFIX_SLOTS : n = s + 1
        BY <1>2, <2>4, KernelAssumption DEF Slots
      <3>3. /\ call' \in ActiveCall /\ call'.slot = n /\ call'.pc = "prefix"
            /\ UNCHANGED <<call.cgid, call.path, call.req, call.settled, call.config>>
        BY <3>1, <3>2 DEF ActiveCall
      <3>4. ASSUME AllowOnly, call.settled
            PROVE  NoPathRule' /\ NoClassRule' /\ NoPrefixRuleBelow(call.slot)'
        <4>1. NoPathRule' /\ NoClassRule'
          BY <1>4, <2>0, <3>3, <3>4, SameRules DEF NoPathRule, NoClassRule
        <4>2. ASSUME NEW i \in TierRules("prefix"), SlotOf(i) < n
              PROVE  path \notin StartsWith[Truncate[rules[i].key]]
          <5>1. i \in Nat /\ SlotOf(i) \in Nat
            BY <1>0, SlotTypes DEF TierRules, Indices
          <5>2. CASE SlotOf(i) < s
            BY <2>0, <3>4, <5>2 DEF NoPrefixRuleBelow
          <5>3. CASE SlotOf(i) = s
            <6>1. PICK j \in TierRules("prefix") :
                     SlotOf(j) = s /\ e = [prefix |-> Truncate[rules[j].key], verdict |-> 1]
              BY <1>5, <2>4, <3>4 DEF Justified, PrefixesJustified
            <6>2. i = j
              BY <1>0, <5>3, <6>1, SlotInjective
            <6>3. QED BY <2>4, <6>1, <6>2
          <5>4. QED BY <1>2, <3>2, <4>2, <5>1, <5>2, <5>3
        <4>3. QED BY <1>4, <3>3, <4>1, <4>2, SameRules DEF NoPrefixRuleBelow
      <3>5. QED
        BY <1>0, <1>4, <2>0, <3>3, <3>4 DEF HookTypeOK, CallInv, CallDecidesPolicy
    <2>5. QED BY <2>2, <2>3, <2>4
  <1>11. QED BY <1>7, <1>8, <1>9, <1>10 DEF HookStep

(* A call enters with nothing read. *)
LEMMA EnterKeeps ==
    ASSUME HookInv, UNCHANGED vars, NEW c \in CgroupIds, NEW path \in Paths,
           NEW req \in Requests, Enter(c, path, req)
    PROVE  HookTypeOK' /\ CallInv'
  <1>1. call' = [pc |-> "config", cgid |-> c, path |-> path, req |-> req,
                 settled |-> c \in bound, config |-> NONE, slot |-> 0, rc |-> 0]
    BY DEF Enter
  <1>2. call' \in ActiveCall
    BY <1>1, KernelAssumption DEF ActiveCall
  <1>3. /\ call'.pc = "config" /\ call'.config = NONE /\ call'.slot = 0 /\ call'.cgid = c
        /\ call'.settled => c \in bound
    BY <1>1
  <1>4. UNCHANGED bound
    BY DEF vars
  <1>5. QED BY <1>2, <1>3, <1>4 DEF HookTypeOK, CallInv, CallDecidesPolicy

LEMMA HookNextInv == HookInv /\ [HookNext]_<<vars, call>> => HookInv'
  <1> SUFFICES ASSUME HookInv, [HookNext]_<<vars, call>> PROVE HookInv' OBVIOUS
  <1>1. CASE [Next]_vars /\ UNCHANGED call
    BY <1>1, LoaderKeepsCall
  <1>2. ASSUME UNCHANGED vars PROVE IndInv'
    BY <1>2, NextIndInv DEF HookInv
  <1>3. ASSUME NEW c \in CgroupIds, NEW path \in Paths, NEW req \in Requests,
               Enter(c, path, req), UNCHANGED vars
        PROVE  HookInv'
    BY <1>2, <1>3, EnterKeeps DEF HookInv
  <1>4. CASE HookStep /\ UNCHANGED vars
    BY <1>2, <1>4, HookStepKeeps DEF HookInv
  <1>5. QED BY <1>1, <1>3, <1>4 DEF HookNext

LEMMA HookInitInv == HookInit => HookInv
  BY InitIndInv, NoCallFacts DEF HookInit, HookInv, HookTypeOK, CallInv

LEMMA HookInvHolds == HookSpec => []HookInv
  BY HookInitInv, HookNextInv, PTL DEF HookSpec

(* A call of enforce_file_open keeps its type whatever the loader does.      *)
THEOREM HookTypeCorrect == HookSpec => []HookTypeOK
  <1>1. HookInv => HookTypeOK
    BY DEF HookInv
  <1>2. QED BY <1>1, HookInvHolds, PTL

(* A call that starts in a bound cgroup decides what the rules say, although  *)
(* its lookups are spread over any number of steps of the loader: rebinds    *)
(* that succeed, rebinds that fail at any insert, and the removal of the     *)
(* very cgroup from the allowlist.                                           *)
THEOREM HookDecidesPolicy == HookSpec => []CallDecidesPolicy
  <1>1. HookInv => CallDecidesPolicy
    <2> SUFFICES ASSUME HookInv PROVE CallDecidesPolicy OBVIOUS
    <2>1. CASE call = NoCall
      BY <2>1, NoCallFacts DEF CallDecidesPolicy
    <2>2. CASE call \in ActiveCall
      BY <2>2 DEF HookInv, CallInv, CallDecidesPolicy
    <2>3. QED BY <2>1, <2>2 DEF HookInv, HookTypeOK
  <1>2. QED BY <1>1, HookInvHolds, PTL
=============================================================================

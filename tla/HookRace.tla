------------------------------- MODULE HookRace -------------------------------
(***************************************************************************)
(* One call of enforce_file_open, map lookup by map lookup, on a CPU of its *)
(* own while the loader writes the maps.  The hook copies the              *)
(* configuration, then consults the exact-path map, the class map and the  *)
(* prefix slots; nothing holds the maps still between two lookups.         *)
(***************************************************************************)
EXTENDS PolicyLoader

VARIABLE call

NoCall == [pc |-> "none"]

ActiveCall == [pc : {"config", "path", "class", "prefix", "done"}, cgid : CgroupIds,
               path : Paths, req : Requests, settled : BOOLEAN,
               config : PolicyConfig \cup {NONE}, slot : 0..MAX_PREFIX_SLOTS, rc : {-1, 0}]

HookTypeOK == call = NoCall \/ call \in ActiveCall

HookInit == Init /\ call = NoCall

Goto(pc) == call' = [call EXCEPT !.pc = pc]
Finish(outcome) == call' = [call EXCEPT !.pc = "done", !.rc = outcome.rc]

\* A task of cgroup c opens path; settled records whether c's bind had completed.
Enter(c, path, req) ==
    /\ call.pc = "none"
    /\ call' = [pc |-> "config", cgid |-> c, path |-> path, req |-> req,
                settled |-> c \in bound, config |-> NONE, slot |-> 0, rc |-> 0]

ReadConfig ==
    /\ call.pc = "config"
    /\ IF POLICY_CGROUPS[call.cgid] = NONE
       THEN Finish(Pass)
       ELSE call' = [call EXCEPT !.pc = "path", !.config = POLICY_CGROUPS[call.cgid]]

LookupPath ==
    /\ call.pc = "path"
    /\ LET mask == maps.FILE_PATH_POLICY[<<call.cgid, PathHash[call.path]>>]
       IN  IF mask = NONE THEN Goto("class")
           ELSE IF mask # {} /\ call.req \subseteq mask THEN Finish(Pass)
           ELSE Finish(Refuse(call.config))

LookupClass ==
    /\ call.pc = "class"
    /\ LET v == maps.FILE_PATTERN_POLICY[<<call.cgid, Classify[call.path]>>]
       IN  IF Classify[call.path] # "Regular" /\ v # NONE
           THEN Finish(VerdictOutcome(call.config, v))
           ELSE Goto("prefix")

\* Mutant: the default is taken from the configuration as it is at the end.
LookupPrefixRereads ==
    /\ call.pc = "prefix"
    /\ LET e == maps.FILE_PREFIX_POLICY[<<call.cgid, call.slot>>]
           c == POLICY_CGROUPS[call.cgid]
       IN  IF call.slot \notin Slots \/ e = NONE
           THEN Finish(IF c = NONE THEN Pass ELSE DefaultOutcome(c))
           ELSE IF call.path \in StartsWith[e.prefix]
           THEN Finish(VerdictOutcome(call.config, e.verdict))
           ELSE call' = [call EXCEPT !.slot = @ + 1]

\* One slot of check_prefix_match, or the default when the scan is over.
LookupPrefix ==
    /\ call.pc = "prefix"
    /\ LET e == maps.FILE_PREFIX_POLICY[<<call.cgid, call.slot>>]
       IN  IF call.slot \notin Slots THEN Finish(DefaultOutcome(call.config))
           ELSE IF e = NONE THEN Finish(DefaultOutcome(call.config))
           ELSE IF call.path \in StartsWith[e.prefix]
           THEN Finish(VerdictOutcome(call.config, e.verdict))
           ELSE call' = [call EXCEPT !.slot = @ + 1]

Return == call.pc = "done" /\ call' = NoCall

HookStep == ReadConfig \/ LookupPath \/ LookupClass \/ LookupPrefix \/ Return

HookNext ==
    \/ Next /\ UNCHANGED call
    \/ /\ \/ \E c \in CgroupIds, path \in Paths, req \in Requests : Enter(c, path, req)
          \/ HookStep
       /\ UNCHANGED vars

HookSpec == HookInit /\ [][HookNext]_<<vars, call>>

(* A hook call that starts in a cgroup whose bind has completed returns what  *)
(* the (allowing) rules say, even if the container restarts and the cgroup   *)
(* is dropped or bound again between its lookups.  The one exception is a    *)
(* call that finds the cgroup already dropped: it passes.                    *)
CallDecidesPolicy ==
    AllowOnly /\ call.pc = "done" /\ call.settled =>
        IF call.config = NONE THEN call.rc = 0
        ELSE call.rc = 0 <=> AuditOnly \/ FilePermitted(call.path, call.req)
=============================================================================

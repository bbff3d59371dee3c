---------------------------- MODULE SamplePolicy ----------------------------
(* A small policy and the files it is about: values for the constants of the  *)
(* models TLC checks.                                                        *)
EXTENDS Integers, Sequences, FiniteSets, TLC

\* Two files under a directory with a prefix rule, one under a directory whose
\* prefix is longer than a stored prefix, a classified file, and a program whose
\* hash another path shares.
SamplePaths == {"/app/a", "/app/b", "/srv/x", "/proc/net/tcp", "/bin/sh", "/bin/other"}
SampleHashes == {"ha", "hb", "hx", "hp", "hs"}
SamplePathHash == ("/app/a" :> "ha") @@ ("/app/b" :> "hb") @@ ("/srv/x" :> "hx")
              @@ ("/proc/net/tcp" :> "hp") @@ ("/bin/sh" :> "hs") @@ ("/bin/other" :> "hs")
SamplePatterns == {"Regular", "ProcGlobal", "ProcGlobalNet"}
SampleClassify == [p \in SamplePaths |-> IF p = "/proc/net/tcp" THEN "ProcGlobalNet" ELSE "Regular"]
SampleCategoryGroups == {{"ProcGlobal", "ProcGlobalNet"}}

SamplePrefixes == {"/app/", "/srv/long/"}
SampleStoredPrefixes == {"/app/", "/srv/"}
SampleTruncate == ("/app/" :> "/app/") @@ ("/srv/long/" :> "/srv/")
SampleStartsWith == ("/app/" :> {"/app/a", "/app/b"}) @@ ("/srv/" :> {"/srv/x"})

SampleIps == {"ip1", "ip2"}
SamplePorts == {0, 53}

Allow(t, k, a) == [tier |-> t, key |-> k, action |-> a, verdict |-> "Allow"]

FileRules == {Allow("path", "/app/a", "FileRead"), Allow("path", "/app/a", "FileWrite"),
              Allow("class", "ProcGlobal", "FileRead"),
              Allow("prefix", "/app/", "FileRead"), Allow("prefix", "/srv/long/", "FileRead")}

OtherRules == <<Allow("exec", "/bin/sh", "ProcExec"), [tier |-> "other", verdict |-> "Allow"],
                Allow("net", <<"ip1", 0>>, "NetConnect")>>

OrdersOf(S) == {s \in [1..Cardinality(S) -> S] : \A i, j \in DOMAIN s : i # j => s[i] # s[j]}

\* Every order of the file rules, which share paths and slots; the others are
\* independent of them and of each other.
SampleRuleOrders == {s \o OtherRules : s \in OrdersOf(FileRules)}

\* For the runs about full maps and about hook calls: few rules.  The second
\* policy does not even fit once.
SmallRules == {Allow("path", "/app/a", "FileRead"), Allow("class", "ProcGlobal", "FileRead"),
               Allow("prefix", "/app/", "FileRead")}
SmallOrders == OrdersOf(SmallRules)
FullMapOrders == SmallOrders \cup
    {<<Allow("prefix", "/app/", "FileRead"), Allow("prefix", "/srv/long/", "FileRead"),
       Allow("prefix", "/app/", "FileWrite")>>}

RuleMaps == {"FILE_PATH_POLICY", "FILE_PATTERN_POLICY", "FILE_PREFIX_POLICY",
             "EXEC_PATH_POLICY", "NET_CONNECT_POLICY"}

Ample == [m \in RuleMaps |-> 100]

\* Room for the prefixes of two bound cgroups, the classes of two and a half.
Scarce == [Ample EXCEPT !["FILE_PREFIX_POLICY"] = 2, !["FILE_PATTERN_POLICY"] = 5]
=============================================================================

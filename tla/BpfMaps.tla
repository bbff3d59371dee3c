------------------------------ MODULE BpfMaps ------------------------------
(* BPF hash maps as partial functions. *)
EXTENDS Naturals, FiniteSets

NoEntry == [k \in {} |-> 0]
Put(m, k, v) == [x \in DOMAIN m \cup {k} |-> IF x = k THEN v ELSE m[x]]
Drop(m, k) == [x \in DOMAIN m \ {k} |-> m[x]]

\* BPF_MAP_TYPE_LRU_HASH: an insert of a new key into a full map evicts some
\* other entry.
LruPuts(m, k, v, size) ==
    IF k \in DOMAIN m \/ Cardinality(DOMAIN m) < size THEN {Put(m, k, v)}
    ELSE {Put(Drop(m, e), k, v) : e \in DOMAIN m}

\* BPF_MAP_TYPE_HASH: an insert of a new key into a full map fails.
HashPut(m, k, v, size) ==
    IF k \in DOMAIN m \/ Cardinality(DOMAIN m) < size THEN Put(m, k, v) ELSE m
=============================================================================

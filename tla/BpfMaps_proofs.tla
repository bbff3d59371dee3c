---------------------------- MODULE BpfMaps_proofs ----------------------------
(***************************************************************************)
(* What the operations on BPF maps do, for every map, key, value and size. *)
(* The proofs about the programs cite these lemmas in place of the         *)
(* definitions.                                                            *)
(***************************************************************************)
EXTENDS BpfMaps, FiniteSetTheorems, TLAPS

(* An entry dropped from a map is gone, the others are as before. *)
LEMMA DropFacts ==
    ASSUME NEW m, NEW k
    PROVE  /\ DOMAIN Drop(m, k) = DOMAIN m \ {k}
           /\ \A x \in DOMAIN m : x # k => Drop(m, k)[x] = m[x]
  BY DEF Drop

LEMMA NoEntryFacts == DOMAIN NoEntry = {}
  BY DEF NoEntry

(* What an insert into an LRU map leaves: the new entry, and of the others    *)
(* some or all, unchanged.                                                   *)
LEMMA LruPutsFacts ==
    ASSUME NEW m, NEW k, NEW v, NEW size, NEW n \in LruPuts(m, k, v, size)
    PROVE  /\ k \in DOMAIN n
           /\ n[k] = v
           /\ DOMAIN n \in SUBSET (DOMAIN m \cup {k})
           /\ \A x \in DOMAIN n : x # k => x \in DOMAIN m /\ n[x] = m[x]
  <1>1. CASE k \in DOMAIN m \/ Cardinality(DOMAIN m) < size
    <2>1. n = Put(m, k, v)
      BY <1>1 DEF LruPuts
    <2>2. QED BY <1>1, <2>1 DEF Put
  <1>2. CASE ~(k \in DOMAIN m \/ Cardinality(DOMAIN m) < size)
    <2>1. PICK e \in DOMAIN m : n = Put(Drop(m, e), k, v)
      BY <1>2 DEF LruPuts
    <2>2. /\ DOMAIN Drop(m, e) = DOMAIN m \ {e}
          /\ \A x \in DOMAIN m : x # e => Drop(m, e)[x] = m[x]
      BY DropFacts
    <2>3. /\ DOMAIN n = DOMAIN Drop(m, e) \cup {k}
          /\ n[k] = v
          /\ \A x \in DOMAIN Drop(m, e) : x # k => n[x] = Drop(m, e)[x]
      BY <2>1 DEF Put
    <2>4. QED BY <1>2, <2>2, <2>3
  <1>3. QED BY <1>1, <1>2

(* An LRU map with room, or with the key, evicts nothing. *)
LEMMA LruPutsRoom ==
    ASSUME NEW m, NEW k, NEW v, NEW size \in Nat, NEW n \in LruPuts(m, k, v, size),
           k \in DOMAIN m \/ Cardinality(DOMAIN m) < size
    PROVE  DOMAIN n = DOMAIN m \cup {k}
  <1>1. n = Put(m, k, v)
    BY DEF LruPuts
  <1>2. QED BY <1>1 DEF Put

(* An insert does not make an LRU map larger than it may be. *)
LEMMA LruPutsSize ==
    ASSUME NEW m, NEW k, NEW v, NEW size \in Nat, NEW n \in LruPuts(m, k, v, size),
           IsFiniteSet(DOMAIN m), Cardinality(DOMAIN m) <= size
    PROVE  IsFiniteSet(DOMAIN n) /\ Cardinality(DOMAIN n) <= size
  <1>0. Cardinality(DOMAIN m) \in Nat
    BY FS_CardinalityType
  <1>1. CASE k \in DOMAIN m \/ Cardinality(DOMAIN m) < size
    <2>1. DOMAIN n = DOMAIN m \cup {k}
      BY <1>1 DEF LruPuts, Put
    <2>2. /\ IsFiniteSet(DOMAIN m \cup {k})
          /\ Cardinality(DOMAIN m \cup {k}) =
                IF k \in DOMAIN m THEN Cardinality(DOMAIN m) ELSE Cardinality(DOMAIN m) + 1
      BY FS_AddElement
    <2>3. QED BY <1>0, <1>1, <2>1, <2>2
  <1>2. CASE ~(k \in DOMAIN m \/ Cardinality(DOMAIN m) < size)
    <2>1. PICK e \in DOMAIN m : n = Put(Drop(m, e), k, v)
      BY <1>2 DEF LruPuts
    <2>2. DOMAIN n = (DOMAIN m \ {e}) \cup {k}
      BY <2>1 DEF Put, Drop
    <2>3. /\ IsFiniteSet(DOMAIN m \ {e})
          /\ Cardinality(DOMAIN m \ {e}) = Cardinality(DOMAIN m) - 1
      BY FS_RemoveElement
    <2> DEFINE D == DOMAIN m \ {e}
    <2>4. IsFiniteSet(D \cup {k}) /\ Cardinality(D \cup {k}) = Cardinality(D) + 1
      <3>1. IsFiniteSet(D) /\ k \notin D
        BY <1>2, <2>3
      <3> HIDE DEF D
      <3>2. QED BY <3>1, FS_AddElement
    <2>5. QED BY <1>0, <2>2, <2>3, <2>4
  <1>3. QED BY <1>1, <1>2

(* An insert does not make a hash map larger than it may be. *)
LEMMA HashPutSize ==
    ASSUME NEW m, NEW k, NEW v, NEW size \in Nat, NEW n, n = HashPut(m, k, v, size),
           IsFiniteSet(DOMAIN m), Cardinality(DOMAIN m) <= size
    PROVE  IsFiniteSet(DOMAIN n) /\ Cardinality(DOMAIN n) <= size
  <1>0. Cardinality(DOMAIN m) \in Nat
    BY FS_CardinalityType
  <1>1. CASE k \in DOMAIN m \/ Cardinality(DOMAIN m) < size
    <2>1. DOMAIN n = DOMAIN m \cup {k}
      BY <1>1 DEF HashPut, Put
    <2>2. /\ IsFiniteSet(DOMAIN m \cup {k})
          /\ Cardinality(DOMAIN m \cup {k}) =
                IF k \in DOMAIN m THEN Cardinality(DOMAIN m) ELSE Cardinality(DOMAIN m) + 1
      BY FS_AddElement
    <2>3. QED BY <1>0, <1>1, <2>1, <2>2
  <1>2. CASE ~(k \in DOMAIN m \/ Cardinality(DOMAIN m) < size)
    BY <1>2 DEF HashPut
  <1>3. QED BY <1>1, <1>2

(* A drop does not make a map larger. *)
LEMMA DropSize ==
    ASSUME NEW m, NEW k, NEW size \in Nat,
           IsFiniteSet(DOMAIN m), Cardinality(DOMAIN m) <= size
    PROVE  IsFiniteSet(DOMAIN Drop(m, k)) /\ Cardinality(DOMAIN Drop(m, k)) <= size
  <1>1. DOMAIN Drop(m, k) \in SUBSET DOMAIN m
    BY DropFacts
  <1>2. /\ IsFiniteSet(DOMAIN Drop(m, k))
        /\ Cardinality(DOMAIN Drop(m, k)) <= Cardinality(DOMAIN m)
    BY <1>1, FS_Subset
  <1>3. Cardinality(DOMAIN m) \in Nat /\ Cardinality(DOMAIN Drop(m, k)) \in Nat
    BY <1>2, FS_CardinalityType
  <1>4. QED BY <1>2, <1>3

(* An LRU map that is full stays full: one with room has never evicted. *)
LEMMA LruNeverShrinks ==
    ASSUME NEW m, NEW k, NEW v, NEW size \in Nat, NEW n \in LruPuts(m, k, v, size),
           IsFiniteSet(DOMAIN m), Cardinality(DOMAIN n) < size
    PROVE  Cardinality(DOMAIN m) < size
  <1>0. Cardinality(DOMAIN m) \in Nat
    BY FS_CardinalityType
  <1>1. CASE k \in DOMAIN m
    <2>1. DOMAIN n = DOMAIN m \cup {k}
      BY <1>1 DEF LruPuts, Put
    <2>2. DOMAIN n = DOMAIN m
      BY <1>1, <2>1
    <2>3. QED BY <2>2
  <1>2. CASE k \notin DOMAIN m /\ ~(Cardinality(DOMAIN m) < size)
    <2>1. PICK e \in DOMAIN m : n = Put(Drop(m, e), k, v)
      BY <1>2 DEF LruPuts
    <2>2. DOMAIN n = (DOMAIN m \ {e}) \cup {k}
      BY <2>1 DEF Put, Drop
    <2>3. /\ IsFiniteSet(DOMAIN m \ {e})
          /\ Cardinality(DOMAIN m \ {e}) = Cardinality(DOMAIN m) - 1
      BY FS_RemoveElement
    <2> DEFINE D == DOMAIN m \ {e}
    <2>4. Cardinality(D \cup {k}) = Cardinality(D) + 1
      <3>1. IsFiniteSet(D) /\ k \notin D
        BY <1>2, <2>3
      <3> HIDE DEF D
      <3>2. QED BY <3>1, FS_AddElement
    <2>5. Cardinality(DOMAIN n) = Cardinality(DOMAIN m)
      BY <1>0, <2>2, <2>3, <2>4
    <2>6. QED BY <1>0, <1>2, <2>5
  <1>3. QED BY <1>1, <1>2
=============================================================================

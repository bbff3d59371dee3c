------------------------ MODULE PolicyCompiler_proofs ------------------------
(***************************************************************************)
(* Theorems about the policy compiler, for every recorded or hand-written  *)
(* profile, every set of paths and every configuration of the passes.      *)
(***************************************************************************)
EXTENDS PolicyCompiler, FiniteSetTheorems, WellFoundedInduction, NaturalsInduction, TLAPS

-----------------------------------------------------------------------------
(* Sequences, of rules and of characters. *)

LEMMA SequenceFacts ==
    ASSUME NEW s, IsSequence(s)
    PROVE  /\ Len(s) \in Nat /\ DOMAIN s = 1..Len(s)
           /\ s = [i \in 1..Len(s) |-> s[i]]
  BY DEF IsSequence

LEMMA MadeSequence ==
    ASSUME NEW n \in Nat, NEW s, s = [i \in 1..n |-> s[i]]
    PROVE  IsSequence(s) /\ Len(s) = n
  BY DEF IsSequence

LEMMA JoinFacts ==
    ASSUME NEW s, NEW t, IsSequence(s), IsSequence(t)
    PROVE  /\ IsSequence(s \o t) /\ Len(s \o t) = Len(s) + Len(t)
           /\ \A i \in 1..Len(s) : (s \o t)[i] = s[i]
           /\ \A i \in 1..Len(t) : (s \o t)[Len(s) + i] = t[i]
  BY DEF IsSequence

LEMMA JoinElements ==
    ASSUME NEW s, NEW t, IsSequence(s), IsSequence(t)
    PROVE  ToSet(s \o t) = ToSet(s) \cup ToSet(t)
  <1> DEFINE j == s \o t
  <1>1. /\ IsSequence(j) /\ Len(j) = Len(s) + Len(t)
        /\ \A i \in 1..Len(s) : j[i] = s[i]
        /\ \A i \in 1..Len(t) : j[Len(s) + i] = t[i]
    BY JoinFacts
  <1> HIDE DEF j
  <1>2. /\ DOMAIN j = 1..(Len(s) + Len(t)) /\ DOMAIN s = 1..Len(s) /\ DOMAIN t = 1..Len(t)
        /\ Len(s) \in Nat /\ Len(t) \in Nat
    BY <1>1, SequenceFacts
  <1>3. ASSUME NEW i \in DOMAIN j PROVE j[i] \in ToSet(s) \cup ToSet(t)
    <2>1. CASE i <= Len(s)
      BY <1>1, <1>2, <2>1 DEF ToSet
    <2>2. CASE ~(i <= Len(s))
      <3>1. i - Len(s) \in 1..Len(t) /\ i = Len(s) + (i - Len(s))
        BY <1>2, <2>2
      <3>2. j[i] = t[i - Len(s)]
        BY <1>1, <3>1
      <3>3. QED BY <1>2, <3>1, <3>2 DEF ToSet
    <2>3. QED BY <2>1, <2>2
  <1>4. ASSUME NEW i \in DOMAIN s PROVE s[i] \in ToSet(j)
    <2>1. i \in DOMAIN j /\ j[i] = s[i]
      BY <1>1, <1>2
    <2>2. QED BY <2>1 DEF ToSet
  <1>5. ASSUME NEW i \in DOMAIN t PROVE t[i] \in ToSet(j)
    <2>1. Len(s) + i \in DOMAIN j /\ j[Len(s) + i] = t[i]
      BY <1>1, <1>2
    <2>2. QED BY <2>1 DEF ToSet
  <1>6. ToSet(j) = ToSet(s) \cup ToSet(t)
    BY <1>3, <1>4, <1>5 DEF ToSet
  <1>7. QED BY <1>6 DEF j

LEMMA HeadFacts ==
    ASSUME NEW s, IsSequence(s), NEW n \in 0..Len(s)
    PROVE  IsSequence(SubSeq(s, 1, n)) /\ Len(SubSeq(s, 1, n)) = n
  BY DEF IsSequence

\* Beginning with a word.
LEMMA StartsTransitive ==
    ASSUME NEW s, NEW t, NEW u, IsSequence(s), IsSequence(t), IsSequence(u),
           StartsWith(s, t), StartsWith(t, u)
    PROVE  StartsWith(s, u)
  BY DEF IsSequence, StartsWith, HasAt

LEMMA StartsComparable ==
    ASSUME NEW s, NEW t, NEW u, IsSequence(s), IsSequence(t), IsSequence(u),
           StartsWith(s, t), StartsWith(s, u)
    PROVE  StartsWith(t, u) \/ StartsWith(u, t)
  BY DEF IsSequence, StartsWith, HasAt

LEMMA StartsReflexive ==
    ASSUME NEW s, IsSequence(s) PROVE StartsWith(s, s)
  BY DEF IsSequence, StartsWith, HasAt

LEMMA StartsSameLength ==
    ASSUME NEW s, NEW t, IsSequence(s), IsSequence(t), StartsWith(s, t), Len(s) <= Len(t)
    PROVE  s = t
  BY DEF IsSequence, StartsWith, HasAt

LEMMA StartsHead ==
    ASSUME NEW s, IsSequence(s), NEW n \in 0..Len(s)
    PROVE  StartsWith(s, SubSeq(s, 1, n))
  BY HeadFacts DEF IsSequence, StartsWith, HasAt

LEMMA StartsShorter ==
    ASSUME NEW s, NEW t, NEW u, IsSequence(s), IsSequence(t), IsSequence(u),
           StartsWith(s, t), StartsWith(s, u), Len(u) <= Len(t)
    PROVE  StartsWith(t, u)
  BY DEF IsSequence, StartsWith, HasAt

LEMMA StartsOfJoin ==
    ASSUME NEW s, NEW t, IsSequence(s), IsSequence(t) PROVE StartsWith(s \o t, s)
  <1> DEFINE j == s \o t
  <1>1. IsSequence(j) /\ Len(j) = Len(s) + Len(t) /\ \A i \in 1..Len(s) : j[i] = s[i]
    BY JoinFacts
  <1> HIDE DEF j
  <1>2. Len(s) \in Nat /\ Len(t) \in Nat
    BY SequenceFacts
  <1>3. SubSeq(j, 1, Len(s)) = s /\ Len(s) <= Len(j)
    BY <1>1, <1>2 DEF IsSequence
  <1>4. QED BY <1>2, <1>3 DEF j, StartsWith, HasAt

-----------------------------------------------------------------------------
(* Induction up to n, and recursion up to n with values in a set. *)

LEMMA InductionTo ==
    ASSUME NEW n \in Nat, NEW S, 0 \in S, \A i \in 0..(n - 1) : i \in S => i + 1 \in S
    PROVE  \A i \in 0..n : i \in S
  <1> DEFINE C == {i \in Nat : i \in 0..n /\ i \notin S}
             R == {xy \in Nat \X Nat : xy[1] < xy[2]}
  <1>1. SUFFICES ASSUME C # {} PROVE FALSE
    <2>1. \A i \in 0..n : i \in Nat
      OBVIOUS
    <2>2. QED BY <2>1
  <1>2. IsWellFoundedOn(R, Nat)
    BY NatLessThanWellFounded DEF OpToRel
  <1>3. PICK i \in C : \A k \in C : ~(<<k, i>> \in R)
    <2>1. C \subseteq Nat
      OBVIOUS
    <2> HIDE DEF C, R
    <2>2. QED BY <1>1, <1>2, <2>1, WFMin
  <1>4. i \in Nat /\ i \in 0..n /\ i \notin S /\ i # 0
    BY <1>3
  <1>5. i - 1 \in Nat /\ i - 1 \in 0..(n - 1) /\ i - 1 \in 0..n
    BY <1>4
  <1>6. i - 1 \in S
    <2>1. <<i - 1, i>> \in R
      BY <1>4, <1>5
    <2>2. i - 1 \notin C
      BY <1>3, <2>1
    <2>3. QED BY <1>5, <2>2
  <1>7. (i - 1) + 1 \in S
    BY <1>5, <1>6
  <1>8. (i - 1) + 1 = i
    BY <1>4
  <1>9. QED BY <1>4, <1>7, <1>8

Recurs(g, n, b, F) == \A i \in 0..n : g[i] = IF i = 0 THEN b ELSE F[i][g[i - 1]]

LEMMA RecursionTo ==
    ASSUME NEW n \in Nat, NEW T, NEW b \in T, NEW F \in [1..n -> [T -> T]]
    PROVE  \E g \in [0..n -> T] : Recurs(g, n, b, F)
  <1> DEFINE Solves(g, m) == g \in [0..m -> T] /\ \A i \in 0..m : g[i] = IF i = 0 THEN b ELSE F[i][g[i - 1]]
             S == {m \in 0..n : \E g \in [0..m -> T] : Solves(g, m)}
  <1>1. 0 \in S
    <2> DEFINE g == [i \in 0..0 |-> b]
    <2>1. g \in [0..0 -> T] /\ Solves(g, 0)
      OBVIOUS
    <2>2. \E h \in [0..0 -> T] : Solves(h, 0)
      BY <2>1
    <2>3. 0 \in 0..n
      OBVIOUS
    <2>4. QED BY <2>2, <2>3
  <1>2. ASSUME NEW m \in 0..(n - 1), m \in S PROVE m + 1 \in S
    <2>1. PICK g \in [0..m -> T] : Solves(g, m)
      BY <1>2
    <2> DEFINE h == [i \in 0..(m + 1) |-> IF i <= m THEN g[i] ELSE F[m + 1][g[m]]]
    <2>2. g[m] \in T /\ m + 1 \in 1..n
      OBVIOUS
    <2>4. F[m + 1][g[m]] \in T
      BY <2>2
    <2>5. h \in [0..(m + 1) -> T]
      BY <2>4
    <2>6. ASSUME NEW i \in 0..(m + 1) PROVE h[i] = IF i = 0 THEN b ELSE F[i][h[i - 1]]
      <3>1. CASE i = m + 1
        <4>1. h[i] = F[m + 1][g[m]] /\ h[m] = g[m] /\ i - 1 = m /\ i # 0
          BY <3>1
        <4>2. QED BY <3>1, <4>1
      <3>2. CASE i <= m
        <4>1. h[i] = g[i] /\ (i # 0 => h[i - 1] = g[i - 1]) /\ i \in 0..m
          BY <3>2
        <4>2. g[i] = IF i = 0 THEN b ELSE F[i][g[i - 1]]
          BY <2>1, <4>1
        <4> HIDE DEF h
        <4>3. QED BY <4>1, <4>2
      <3>3. i = m + 1 \/ i <= m
        OBVIOUS
      <3>4. QED BY <3>1, <3>2, <3>3
    <2>7. Solves(h, m + 1)
      <3> HIDE DEF h
      <3>1. QED BY <2>5, <2>6
    <2>8. m + 1 \in 0..n
      OBVIOUS
    <2> HIDE DEF h, Solves
    <2>9. QED BY <2>5, <2>7, <2>8
  <1>3. n \in S
    <2>1. n \in 0..n
      OBVIOUS
    <2> HIDE DEF S
    <2>2. QED BY <1>1, <1>2, <2>1, InductionTo
  <1>4. PICK g \in [0..n -> T] : Solves(g, n)
    BY <1>3
  <1>5. QED BY <1>4 DEF Recurs

-----------------------------------------------------------------------------
(* The elements of the sequences that the passes put together. *)

LEMMA AppendFacts ==
    ASSUME NEW s, IsSequence(s), NEW x
    PROVE  IsSequence(Append(s, x)) /\ ToSet(Append(s, x)) = ToSet(s) \cup {x}
  <1> DEFINE t == Append(s, x)
  <1>1. /\ IsSequence(t) /\ Len(t) = Len(s) + 1 /\ t[Len(s) + 1] = x
        /\ \A i \in 1..Len(s) : t[i] = s[i]
    BY DEF IsSequence
  <1> HIDE DEF t
  <1>2. DOMAIN t = 1..(Len(s) + 1) /\ DOMAIN s = 1..Len(s) /\ Len(s) \in Nat
    BY <1>1, SequenceFacts
  <1>3. ASSUME NEW i \in DOMAIN t PROVE t[i] \in ToSet(s) \cup {x}
    <2>1. CASE i = Len(s) + 1
      BY <1>1, <2>1
    <2>2. CASE i \in 1..Len(s)
      BY <1>1, <1>2, <2>2 DEF ToSet
    <2>3. QED BY <1>2, <2>1, <2>2
  <1>4. ASSUME NEW i \in DOMAIN s PROVE s[i] \in ToSet(t)
    <2>1. i \in DOMAIN t /\ t[i] = s[i]
      BY <1>1, <1>2
    <2>2. QED BY <2>1 DEF ToSet
  <1>5. x \in ToSet(t)
    <2>1. Len(s) + 1 \in DOMAIN t
      BY <1>2
    <2>2. QED BY <1>1, <2>1 DEF ToSet
  <1>6. ToSet(t) = ToSet(s) \cup {x}
    BY <1>3, <1>4, <1>5 DEF ToSet
  <1>7. QED BY <1>1, <1>6 DEF t

LEMMA EmptyFacts == IsSequence(<<>>) /\ Len(<<>>) = 0 /\ ToSet(<<>>) = {}
  BY DEF IsSequence, ToSet

\* The equation of Kept has a solution.
KeptStep(g, seq, S, n) ==
    IF n = 0 THEN <<>> ELSE IF n \in S THEN Append(g[n - 1], seq[n]) ELSE g[n - 1]

LEMMA KeptExists ==
    ASSUME NEW seq, IsSequence(seq), NEW S
    PROVE  \E g : g = [n \in 0..Len(seq) |-> KeptStep(g, seq, S, n)]
  <1> DEFINE T == Seq(ToSet(seq))
             F == [i \in 1..Len(seq) |-> [s \in T |-> IF i \in S THEN Append(s, seq[i]) ELSE s]]
  <1>1. Len(seq) \in Nat /\ DOMAIN seq = 1..Len(seq)
    BY SequenceFacts
  <1>2. <<>> \in T
    OBVIOUS
  <1>3. ASSUME NEW i \in 1..Len(seq), NEW s \in T
        PROVE  (IF i \in S THEN Append(s, seq[i]) ELSE s) \in T
    <2>1. seq[i] \in ToSet(seq)
      BY <1>1 DEF ToSet
    <2>2. QED BY <2>1
  <1>4. F \in [1..Len(seq) -> [T -> T]]
    BY <1>3
  <1> HIDE DEF F
  <1>5. PICK g \in [0..Len(seq) -> T] : Recurs(g, Len(seq), <<>>, F)
    <2> HIDE DEF T
    <2>1. QED BY <1>1, <1>2, <1>4, RecursionTo
  <1>6. ASSUME NEW i \in 0..Len(seq) PROVE g[i] = KeptStep(g, seq, S, i)
    <2>1. CASE i = 0
      BY <1>5, <2>1 DEF Recurs, KeptStep
    <2>2. CASE i # 0
      <3>1. i \in 1..Len(seq) /\ i - 1 \in 0..Len(seq)
        BY <1>1, <2>2
      <3> HIDE DEF T
      <3>2. g[i - 1] \in T
        BY <3>1
      <3>3. F[i][g[i - 1]] = IF i \in S THEN Append(g[i - 1], seq[i]) ELSE g[i - 1]
        BY <3>1, <3>2 DEF F
      <3>4. QED BY <1>5, <2>2, <3>3 DEF Recurs, KeptStep
    <2>3. QED BY <2>1, <2>2
  <1>7. g = [i \in 0..Len(seq) |-> g[i]]
    OBVIOUS
  <1>8. g = [i \in 0..Len(seq) |-> KeptStep(g, seq, S, i)]
    BY <1>6, <1>7
  <1>9. QED BY <1>8

LEMMA KeptFacts ==
    ASSUME NEW seq, IsSequence(seq), NEW S \in SUBSET DOMAIN seq
    PROVE  IsSequence(Kept(seq, S)) /\ ToSet(Kept(seq, S)) = {seq[i] : i \in S}
  <1> DEFINE g == CHOOSE g : g = [n \in 0..Len(seq) |-> KeptStep(g, seq, S, n)]
             Good(n) == IsSequence(g[n]) /\ ToSet(g[n]) = {seq[i] : i \in {i \in S : i <= n}}
  <1>1. Kept(seq, S) = g[Len(seq)]
    BY DEF Kept, KeptStep
  <1>2. g = [n \in 0..Len(seq) |-> KeptStep(g, seq, S, n)]
    BY KeptExists
  <1> HIDE DEF g
  <1>3. Len(seq) \in Nat /\ DOMAIN seq = 1..Len(seq)
    BY SequenceFacts
  <1>4. \A n \in 0..Len(seq) : g[n] = KeptStep(g, seq, S, n)
    BY <1>2
  <1>5. Good(0)
    <2>1. g[0] = <<>>
      BY <1>3, <1>4 DEF KeptStep
    <2>2. {i \in S : i <= 0} = {}
      BY <1>3
    <2>3. QED BY <2>1, <2>2, EmptyFacts
  <1>6. ASSUME NEW n \in 0..(Len(seq) - 1), Good(n) PROVE Good(n + 1)
    <2>1. n + 1 \in 0..Len(seq) /\ n + 1 # 0 /\ (n + 1) - 1 = n
      BY <1>3
    <2>2. g[n + 1] = IF n + 1 \in S THEN Append(g[n], seq[n + 1]) ELSE g[n]
      BY <1>4, <2>1 DEF KeptStep
    <2>3. CASE n + 1 \in S
      <3>1. {i \in S : i <= n + 1} = {i \in S : i <= n} \cup {n + 1}
        BY <1>3, <2>3
      <3>2. {seq[i] : i \in {i \in S : i <= n + 1}} = {seq[i] : i \in {i \in S : i <= n}} \cup {seq[n + 1]}
        BY <3>1
      <3>3. QED BY <1>6, <2>2, <2>3, <3>2, AppendFacts
    <2>4. CASE n + 1 \notin S
      <3>1. {i \in S : i <= n + 1} = {i \in S : i <= n}
        BY <1>3, <2>4
      <3>2. QED BY <1>6, <2>2, <2>4, <3>1
    <2>5. QED BY <2>3, <2>4
  <1>7. Good(Len(seq))
    <2> DEFINE G == {n \in 0..Len(seq) : Good(n)}
    <2>1. 0 \in G
      BY <1>3, <1>5
    <2>2. \A n \in 0..(Len(seq) - 1) : n \in G => n + 1 \in G
      BY <1>3, <1>6
    <2>3. Len(seq) \in 0..Len(seq)
      BY <1>3
    <2>4. Len(seq) \in G
      <3> HIDE DEF G
      <3>1. QED BY <1>3, <2>1, <2>2, <2>3, InductionTo
    <2>5. QED BY <2>4
  <1>8. {i \in S : i <= Len(seq)} = S
    BY <1>3
  <1>9. QED BY <1>1, <1>7, <1>8
LEMMA OrderFacts ==
    ASSUME NEW S, IsFiniteSet(S), NEW order \in SetToSeqs(S)
    PROVE  IsSequence(order) /\ ToSet(order) = S
  <1> DEFINE n == Cardinality(S)
  <1>1. n \in Nat
    BY FS_CardinalityType
  <1>2. order \in [1..n -> S] /\ \A i, j \in 1..n : i # j => order[i] # order[j]
    BY DEF SetToSeqs
  <1>3. order \in Injection(1..n, S)
    BY <1>2 DEF Injection, IsInjective
  <1>4. Cardinality(1..n) = Cardinality(S)
    BY <1>1, FS_Interval
  <1>5. order \in Surjection(1..n, S)
    BY <1>3, <1>4, FS_Injection
  <1>6. ToSet(order) = S
    BY <1>2, <1>5 DEF Surjection, ToSet
  <1>7. order = [i \in 1..n |-> order[i]]
    BY <1>2
  <1>8. QED BY <1>1, <1>6, <1>7, MadeSequence

LEMMA SomeOrderFacts ==
    ASSUME NEW S, IsFiniteSet(S)
    PROVE  IsSequence(SetToSeq(S)) /\ ToSet(SetToSeq(S)) = S
  <1> DEFINE n == Cardinality(S)
  <1>1. n \in Nat /\ ExistsBijection(1..n, S)
    BY FS_CardinalityType
  <1>2. PICK f : f \in Bijection(1..n, S)
    BY <1>1 DEF ExistsBijection
  <1>3. f \in [1..n -> S] /\ IsInjective(f)
    BY <1>2 DEF Bijection, Injection, IsInjective
  <1>4. SetToSeq(S) \in [1..n -> S] /\ IsInjective(SetToSeq(S))
    BY <1>3 DEF SetToSeq
  <1>5. SetToSeq(S) \in SetToSeqs(S)
    BY <1>4 DEF IsInjective, SetToSeqs
  <1>6. QED BY <1>5, OrderFacts

LEMMA FiniteImage ==
    ASSUME NEW S, IsFiniteSet(S), NEW f PROVE IsFiniteSet({f[x] : x \in S})
  <1> DEFINE T == {f[x] : x \in S}
             g == [x \in S |-> f[x]]
  <1>1. g \in Surjection(S, T)
    BY DEF Surjection
  <1>2. QED BY <1>1, FS_Surjection

LEMMA FiniteElements ==
    ASSUME NEW s, IsSequence(s) PROVE IsFiniteSet(DOMAIN s) /\ IsFiniteSet(ToSet(s))
  <1>1. IsFiniteSet(DOMAIN s)
    BY SequenceFacts, FS_Interval
  <1>2. QED BY <1>1, FiniteImage DEF ToSet

LEMMA InSeq ==
    ASSUME NEW s, IsSequence(s), NEW T, ToSet(s) \subseteq T PROVE s \in Seq(T)
  <1>1. Len(s) \in Nat /\ DOMAIN s = 1..Len(s) /\ s = [i \in 1..Len(s) |-> s[i]]
    BY SequenceFacts
  <1>2. \A i \in 1..Len(s) : s[i] \in T
    BY <1>1 DEF ToSet
  <1>3. QED BY <1>1, <1>2

LEMMA SeqFacts ==
    ASSUME NEW T, NEW s \in Seq(T) PROVE IsSequence(s) /\ ToSet(s) \subseteq T
  BY DEF IsSequence, ToSet

LEMMA SingleFacts == ASSUME NEW x PROVE IsSequence(<<x>>) /\ ToSet(<<x>>) = {x}
  <1>1. <<x>> \in Seq({x}) /\ DOMAIN <<x>> = {1} /\ <<x>>[1] = x
    OBVIOUS
  <1> DEFINE s == <<x>>
  <1>2. s \in Seq({x}) /\ DOMAIN s = {1} /\ s[1] = x
    BY <1>1
  <1> HIDE DEF s
  <1>3. IsSequence(s)
    BY <1>2, SeqFacts
  <1>4. ToSet(s) = {x}
    BY <1>2 DEF ToSet
  <1>5. QED BY <1>3, <1>4 DEF s

\* Joining the sequences of a sequence.
FlattenStep(g, seqs, i) == IF i = 1 THEN seqs[i] ELSE g[i - 1] \o seqs[i]

LEMMA FlattenExists ==
    ASSUME NEW seqs, IsSequence(seqs), \A i \in DOMAIN seqs : IsSequence(seqs[i])
    PROVE  \E g : g = [i \in 1..Len(seqs) |-> FlattenStep(g, seqs, i)]
  <1> DEFINE n == Len(seqs)
             E == UNION {ToSet(seqs[i]) : i \in DOMAIN seqs}
             T == Seq(E)
             F == [i \in 1..n |-> [s \in T |-> s \o seqs[i]]]
  <1>1. n \in Nat /\ DOMAIN seqs = 1..n
    BY SequenceFacts
  <1>2. <<>> \in T
    OBVIOUS
  <1>3. \A i \in 1..n : seqs[i] \in T
    <2>1. ASSUME NEW i \in 1..n PROVE ToSet(seqs[i]) \subseteq E
      BY <1>1
    <2> HIDE DEF E
    <2>2. QED BY <1>1, <2>1, InSeq
  <1>4. F \in [1..n -> [T -> T]]
    <2>1. \A s, t \in T : s \o t \in T
      <3> HIDE DEF E
      <3>1. QED OBVIOUS
    <2> HIDE DEF T, n
    <2>2. QED BY <1>3, <2>1
  <1> HIDE DEF F, T, n
  <1>5. PICK g \in [0..n -> T] : Recurs(g, n, <<>>, F)
    BY <1>1, <1>2, <1>4, RecursionTo
  <1> DEFINE h == [i \in 1..n |-> g[i]]
  <1>6. ASSUME NEW i \in 1..n PROVE h[i] = FlattenStep(h, seqs, i)
    <2>1. i \in 0..n /\ i # 0 /\ i - 1 \in 0..n
      BY <1>1
    <2>2. g[i] = g[i - 1] \o seqs[i]
      BY <1>5, <2>1 DEF Recurs, F
    <2>3. CASE i = 1
      <3>1. g[0] = <<>>
        BY <1>1, <1>5 DEF Recurs
      <3>2. g[1] = <<>> \o seqs[1] /\ IsSequence(seqs[1])
        <4>1. i - 1 = 0 /\ i = 1 /\ 1 \in DOMAIN seqs
          BY <1>1, <2>3
        <4>2. QED BY <2>2, <3>1, <4>1, Zenon
      <3>3. g[1] = seqs[1]
        BY <3>2 DEF IsSequence
      <3>4. QED BY <2>3, <3>3 DEF FlattenStep
    <2>4. CASE i # 1
      <3>1. i - 1 \in 1..n
        BY <1>1, <2>4
      <3>2. h[i - 1] = g[i - 1] /\ h[i] = g[i]
        BY <3>1
      <3>3. QED BY <2>2, <2>4, <3>2 DEF FlattenStep
    <2>5. QED BY <2>3, <2>4
  <1>7. h = [i \in 1..n |-> h[i]]
    OBVIOUS
  <1> HIDE DEF h
  <1>8. h = [i \in 1..n |-> FlattenStep(h, seqs, i)]
    BY <1>6, <1>7
  <1>9. QED BY <1>8 DEF n

LEMMA FlattenFacts ==
    ASSUME NEW seqs, IsSequence(seqs), \A i \in DOMAIN seqs : IsSequence(seqs[i])
    PROVE  /\ IsSequence(FlattenSeq(seqs))
           /\ ToSet(FlattenSeq(seqs)) = UNION {ToSet(seqs[i]) : i \in DOMAIN seqs}
  <1> DEFINE n == Len(seqs)
             g == CHOOSE g : g = [i \in 1..n |-> FlattenStep(g, seqs, i)]
             Good(k) == IsSequence(g[k]) /\ ToSet(g[k]) = UNION {ToSet(seqs[i]) : i \in 1..k}
             G == {k \in 0..n : k = 0 \/ Good(k)}
  <1>1. n \in Nat /\ DOMAIN seqs = 1..n
    BY SequenceFacts
  <1>2. CASE n = 0
    <2>1. FlattenSeq(seqs) = seqs
      BY <1>2 DEF FlattenSeq
    <2>2. DOMAIN seqs = {}
      BY <1>1, <1>2
    <2>3. QED BY <2>1, <2>2 DEF ToSet
  <1>3. CASE n # 0
    <2>1. FlattenSeq(seqs) = g[n]
      BY <1>3 DEF FlattenSeq, FlattenStep
    <2>2. g = [i \in 1..n |-> FlattenStep(g, seqs, i)]
      <3>1. \E h : h = [i \in 1..n |-> FlattenStep(h, seqs, i)]
        BY FlattenExists
      <3>2. QED BY <3>1
    <2> HIDE DEF g, n
    <2>3. \A i \in 1..n : g[i] = FlattenStep(g, seqs, i)
      BY <2>2
    <2>4. 0 \in G
      BY <1>1
    <2>5. ASSUME NEW k \in 0..(n - 1), k \in G PROVE k + 1 \in G
      <3>1. k + 1 \in 1..n /\ k + 1 \in 0..n /\ (k + 1) - 1 = k /\ IsSequence(seqs[k + 1])
        BY <1>1
      <3>2. g[k + 1] = IF k + 1 = 1 THEN seqs[k + 1] ELSE g[k] \o seqs[k + 1]
        BY <2>3, <3>1 DEF FlattenStep
      <3>3. CASE k = 0
        <4>1. g[1] = seqs[1] /\ 1..1 = {1} /\ k + 1 = 1
          BY <3>2, <3>3
        <4>2. QED BY <3>1, <4>1
      <3>4. CASE k # 0
        <4>1. Good(k)
          BY <2>5, <3>4
        <4>2. g[k + 1] = g[k] \o seqs[k + 1]
          <5>1. k + 1 # 1
            BY <3>4
          <5>2. QED BY <3>2, <5>1, Zenon
        <4> DEFINE s == g[k]
                   t == seqs[k + 1]
        <4>3. IsSequence(s \o t) /\ ToSet(s \o t) = ToSet(s) \cup ToSet(t)
          <5>1. IsSequence(s) /\ IsSequence(t)
            BY <3>1, <4>1
          <5> HIDE DEF s, t
          <5>2. QED BY <5>1, JoinFacts, JoinElements
        <4>4. 1..(k + 1) = (1..k) \cup {k + 1}
          BY <1>1
        <4>5. UNION {ToSet(seqs[i]) : i \in 1..(k + 1)}
                  = (UNION {ToSet(seqs[i]) : i \in 1..k}) \cup ToSet(seqs[k + 1])
          BY <4>4
        <4>6. QED BY <3>1, <4>1, <4>2, <4>3, <4>5
      <3>5. QED BY <3>3, <3>4
    <2>6. n \in G
      <3>1. n \in 0..n
        BY <1>1
      <3> HIDE DEF G
      <3>2. QED BY <1>1, <2>4, <2>5, <3>1, InductionTo
    <2>7. QED BY <1>1, <1>3, <2>1, <2>6
  <1>4. QED BY <1>2, <1>3

-----------------------------------------------------------------------------
(* The class of a path. *)

\* A character repeated, after the empty string e.
RepeatStep(g, e, c, n) == IF n = 0 THEN e ELSE g[n - 1] \o c

LEMMA RepeatExists ==
    ASSUME NEW e, IsSequence(e), NEW c, IsSequence(c), NEW m \in Nat
    PROVE  \E g : g = [n \in 0..m |-> RepeatStep(g, e, c, n)]
  <1> DEFINE T == Seq(ToSet(e) \cup ToSet(c))
             F == [i \in 1..m |-> [s \in T |-> s \o c]]
  <1>1. e \in T
    BY InSeq
  <1>2. F \in [1..m -> [T -> T]]
    <2>1. c \in T
      BY InSeq
    <2>2. \A s \in T : s \o c \in T
      BY <2>1
    <2> HIDE DEF T
    <2>3. QED BY <2>2
  <1> HIDE DEF F, T
  <1>3. PICK g \in [0..m -> T] : Recurs(g, m, e, F)
    BY <1>1, <1>2, RecursionTo
  <1>4. ASSUME NEW i \in 0..m PROVE g[i] = RepeatStep(g, e, c, i)
    <2>1. CASE i = 0
      BY <1>3, <2>1 DEF Recurs, RepeatStep
    <2>2. CASE i # 0
      <3>1. i \in 1..m /\ i - 1 \in 0..m
        BY <2>2
      <3>2. F[i][g[i - 1]] = g[i - 1] \o c
        BY <3>1 DEF F
      <3>3. QED BY <1>3, <2>2, <3>2 DEF Recurs, RepeatStep
    <2>3. QED BY <2>1, <2>2
  <1>5. g = [i \in 0..m |-> g[i]]
    OBVIOUS
  <1>6. g = [i \in 0..m |-> RepeatStep(g, e, c, i)]
    BY <1>4, <1>5
  <1>7. QED BY <1>6

\* c is the character x.
IsCharacter(c, x) == IsSequence(c) /\ Len(c) = 1 /\ c[1] = x

LEMMA CharacterAt ==
    ASSUME NEW s, IsSequence(s), NEW i \in 1..Len(s)
    PROVE  IsCharacter(SubSeq(s, i, i), s[i])
  BY DEF IsCharacter, IsSequence

LEMMA AddCharacter ==
    ASSUME NEW s, IsSequence(s), NEW c, NEW x, IsCharacter(c, x)
    PROVE  /\ IsSequence(s \o c) /\ Len(s \o c) = Len(s) + 1 /\ (s \o c)[Len(s) + 1] = x
           /\ \A i \in 1..Len(s) : (s \o c)[i] = s[i]
  <1> DEFINE t == s \o c
             m == Len(c)
  <1>1. IsSequence(c) /\ m = 1 /\ c[1] = x
    BY DEF IsCharacter
  <1> HIDE DEF m
  <1>2. /\ IsSequence(t) /\ Len(t) = Len(s) + m
        /\ \A i \in 1..Len(s) : t[i] = s[i]
        /\ \A i \in 1..m : t[Len(s) + i] = c[i]
    <2>1. IsSequence(c)
      BY <1>1
    <2>2. QED BY <2>1, JoinFacts DEF m
  <1> HIDE DEF t
  <1>3. 1 \in 1..m
    BY <1>1
  <1>4. IsSequence(t) /\ Len(t) = Len(s) + 1 /\ t[Len(s) + 1] = x /\ \A i \in 1..Len(s) : t[i] = s[i]
    BY <1>1, <1>2, <1>3
  <1>5. QED BY <1>4 DEF t

LEMMA RepeatFacts ==
    ASSUME NEW c, NEW x, IsCharacter(c, x), NEW m \in Nat
    PROVE  /\ IsSequence(Repeat(c, m)) /\ Len(Repeat(c, m)) = m
           /\ \A i \in 1..m : Repeat(c, m)[i] = x
  <1> DEFINE e == ""
             g == CHOOSE g : g = [n \in 0..m |-> RepeatStep(g, e, c, n)]
             Good(n) == IsSequence(g[n]) /\ Len(g[n]) = n /\ \A i \in 1..n : g[n][i] = x
             G == {n \in 0..m : Good(n)}
  <1>1. IsSequence(e) /\ Len(e) = 0 /\ IsSequence(c)
    <2>1. IsSequence(e) /\ Len(e) = 0
      BY LiteralAssumption
    <2>2. IsSequence(c)
      BY DEF IsCharacter
    <2>3. QED BY <2>1, <2>2
  <1>2. Repeat(c, m) = g[m]
    BY DEF Repeat, RepeatStep
  <1>3. g = [n \in 0..m |-> RepeatStep(g, e, c, n)]
    <2> HIDE DEF e
    <2>1. \E h : h = [n \in 0..m |-> RepeatStep(h, e, c, n)]
      BY <1>1, RepeatExists
    <2>2. QED BY <2>1
  <1> HIDE DEF g, e
  <1>4. \A n \in 0..m : g[n] = RepeatStep(g, e, c, n)
    BY <1>3
  <1>5. 0 \in G
    <2>1. g[0] = e
      BY <1>4 DEF RepeatStep
    <2>2. QED BY <1>1, <2>1
  <1>6. ASSUME NEW n \in 0..(m - 1), n \in G PROVE n + 1 \in G
    <2>1. n + 1 \in 0..m /\ n + 1 # 0 /\ (n + 1) - 1 = n
      OBVIOUS
    <2>2. g[n + 1] = g[n] \o c
      BY <1>4, <2>1 DEF RepeatStep
    <2>3. IsSequence(g[n]) /\ Len(g[n]) = n /\ \A i \in 1..n : g[n][i] = x
      BY <1>6
    <2>4. /\ IsSequence(g[n + 1]) /\ Len(g[n + 1]) = n + 1 /\ g[n + 1][n + 1] = x
          /\ \A i \in 1..n : g[n + 1][i] = g[n][i]
      <3> DEFINE s == g[n]
      <3>1. IsSequence(s) /\ Len(s) = n
        BY <2>3
      <3> HIDE DEF s
      <3>2. /\ IsSequence(s \o c) /\ Len(s \o c) = Len(s) + 1 /\ (s \o c)[Len(s) + 1] = x
            /\ \A i \in 1..Len(s) : (s \o c)[i] = s[i]
        BY <3>1, AddCharacter
      <3>3. g[n + 1] = s \o c
        BY <2>2 DEF s
      <3>4. /\ IsSequence(g[n + 1]) /\ Len(g[n + 1]) = n + 1 /\ g[n + 1][n + 1] = x
            /\ \A i \in 1..n : g[n + 1][i] = s[i]
        BY <3>1, <3>2, <3>3
      <3>5. QED BY <3>4 DEF s
    <2>5. \A i \in 1..(n + 1) : i \in 1..n \/ i = n + 1
      OBVIOUS
    <2>6. QED BY <2>1, <2>3, <2>4, <2>5
  <1>7. m \in G
    <2> HIDE DEF G
    <2>1. QED BY <1>5, <1>6, InductionTo
  <1>8. QED BY <1>2, <1>7

LEMMA LiteralLengths ==
    /\ \A w \in {"", "/", "**", "/*", "/proc/", "/sys/", "/run/", "/dev/", "/tmp/"} : IsSequence(w)
    /\ \A w \in {"sys/", "net/", "class/net/", "docker/", "user/", "pts/", "shm/", "tmp"} : IsSequence(w)
    /\ Len("") = 0 /\ Len("/") = 1 /\ Len("**") = 2 /\ Len("/*") = 2
    /\ Len("/proc/") = 6 /\ \A w \in {"/sys/", "/run/", "/dev/", "/tmp/"} : Len(w) = 5
  BY LiteralAssumption

LEMMA EmptyUnique ==
    ASSUME NEW s, NEW t, IsSequence(s), IsSequence(t), Len(s) = 0, Len(t) = 0
    PROVE  s = t
  BY DEF IsSequence

\* What the copy begins with the path begins with, unless it ends in a doubled
\* character.
LEMMA BufferHead ==
    ASSUME NEW path, IsSequence(path), NEW w, IsSequence(w), Len(w) \in 2..SHORT_COPY,
           LET n == Len(w) IN SubSeq(w, n, n) # SubSeq(w, n - 1, n - 1),
           StartsWith(to_classify_buffer(path), w)
    PROVE  StartsWith(path, w)
  <1> DEFINE n == Len(w)
             L == Len(path)
             last == path[L]
             tail == Repeat(LastChar(path), SHORT_COPY)
             long == path \o tail
  <1>1. n \in Nat /\ n >= 2 /\ n <= SHORT_COPY /\ SHORT_COPY \in Nat /\ L \in Nat
        /\ MAX_PATH_DEPTH \in Nat /\ SHORT_COPY <= MAX_PATH_DEPTH
    BY BufferAssumption DEF IsSequence
  <1>2. path # "" /\ L # 0
    <2>1. IsSequence("") /\ Len("") = 0
      BY LiteralLengths, Zenon
    <2>2. ASSUME path = "" PROVE FALSE
      <3>1. to_classify_buffer(path) = path
        BY <2>2 DEF to_classify_buffer
      <3>2. n <= Len(path)
        BY <1>1, <3>1 DEF StartsWith, HasAt
      <3>3. Len(path) = 0
        BY <2>1, <2>2
      <3>4. QED BY <1>1, <3>2, <3>3
    <2>3. L # 0
      BY <2>1, <2>2, EmptyUnique, Zenon
    <2>4. QED BY <2>2, <2>3
  <1>3. CASE L >= MAX_PATH_DEPTH
    <2>1. to_classify_buffer(path) = SubSeq(path, 1, MAX_PATH_DEPTH)
      BY <1>2, <1>3 DEF to_classify_buffer
    <2>2. MAX_PATH_DEPTH \in 0..L
      BY <1>1, <1>3
    <2>3. QED BY <2>1, <2>2, HeadFacts, StartsHead, StartsTransitive
  <1>4. CASE ~(L >= MAX_PATH_DEPTH)
    <2>1. L # 0
      BY <1>2, Zenon
    <2>2. IsCharacter(LastChar(path), last)
      <3>1. L \in 1..L
        BY <1>1, <2>1
      <3>2. QED BY <3>1, CharacterAt DEF LastChar
    <2>3. to_classify_buffer(path) = SubSeq(long, 1, SHORT_COPY)
      BY <1>2, <1>4 DEF to_classify_buffer
    <2>4. /\ IsSequence(tail) /\ Len(tail) = SHORT_COPY
          /\ \A i \in 1..SHORT_COPY : tail[i] = last
      BY <1>1, <2>2, RepeatFacts
    <2> HIDE DEF tail
    <2>5. /\ IsSequence(long) /\ Len(long) = L + SHORT_COPY
          /\ \A i \in 1..L : long[i] = path[i]
          /\ \A i \in 1..SHORT_COPY : long[L + i] = last
      BY <2>4, JoinFacts
    <2> HIDE DEF long
    <2>6. SHORT_COPY \in 0..Len(long)
      BY <1>1, <2>5
    <2>7. StartsWith(long, w)
      BY <2>3, <2>5, <2>6, HeadFacts, StartsHead, StartsTransitive
    <2>8. StartsWith(long, path)
      BY <2>4, StartsOfJoin DEF long
    <2>9. ASSUME n > L PROVE FALSE
      <3>1. \A i \in 1..n : w[i] = long[i]
        BY <1>1, <2>5, <2>7 DEF StartsWith, HasAt, IsSequence
      <3>2. long[n] = last
        <4>1. n - L \in 1..SHORT_COPY /\ n = L + (n - L)
          BY <1>1, <2>9
        <4>2. QED BY <2>5, <4>1
      <3>3. long[n - 1] = last
        <4>1. CASE n - 1 = L
          BY <1>1, <2>1, <2>5, <4>1
        <4>2. CASE n - 1 # L
          <5>1. (n - 1) - L \in 1..SHORT_COPY /\ n - 1 = L + ((n - 1) - L)
            BY <1>1, <2>9, <4>2
          <5>2. QED BY <2>5, <5>1
        <4>3. QED BY <4>1, <4>2
      <3>4. w[n] = w[n - 1]
        BY <1>1, <3>1, <3>2, <3>3
      <3>5. SubSeq(w, n, n) = SubSeq(w, n - 1, n - 1)
        BY <1>1, <3>4 DEF IsSequence
      <3>6. QED BY <3>5
    <2>10. StartsWith(path, w) \/ StartsWith(w, path)
      BY <2>5, <2>7, <2>8, StartsComparable
    <2>11. ASSUME StartsWith(w, path) PROVE StartsWith(path, w)
      <3>1. Len(w) <= Len(path)
        BY <1>1, <2>9
      <3>2. w = path
        BY <2>11, <3>1, StartsSameLength
      <3>3. QED BY <3>2, StartsReflexive
    <2>12. QED BY <2>10, <2>11
  <1>5. QED BY <1>3, <1>4

LEMMA BufferFacts ==
    ASSUME NEW path, IsSequence(path)
    PROVE  /\ IsSequence(to_classify_buffer(path))
           /\ \A w : /\ IsSequence(w) /\ Len(w) <= SHORT_COPY /\ StartsWith(path, w)
                    => StartsWith(to_classify_buffer(path), w)
  <1>1. SHORT_COPY \in Nat /\ MAX_PATH_DEPTH \in Nat /\ Len(path) \in Nat
        /\ SHORT_COPY <= MAX_PATH_DEPTH
    BY BufferAssumption DEF IsSequence
  <1>2. IsSequence("") /\ Len("") = 0
    BY LiteralLengths, Zenon
  <1>3. CASE path = ""
    BY <1>2, <1>3 DEF to_classify_buffer
  <1>4. CASE path # "" /\ Len(path) >= MAX_PATH_DEPTH
    <2>1. MAX_PATH_DEPTH \in 0..Len(path)
      <3>1. Len(path) >= MAX_PATH_DEPTH
        BY <1>4, Zenon
      <3>2. QED BY <1>1, <3>1
    <2>2. to_classify_buffer(path) = SubSeq(path, 1, MAX_PATH_DEPTH)
      BY <1>4 DEF to_classify_buffer
    <2> DEFINE buf == SubSeq(path, 1, MAX_PATH_DEPTH)
    <2>3. IsSequence(buf) /\ Len(buf) = MAX_PATH_DEPTH /\ StartsWith(path, buf)
      BY <2>1, HeadFacts, StartsHead
    <2> HIDE DEF buf
    <2>4. ASSUME NEW w, IsSequence(w), Len(w) <= SHORT_COPY, StartsWith(path, w)
          PROVE  StartsWith(buf, w)
      <3>1. Len(w) <= Len(buf)
        BY <1>1, <2>3, <2>4, SequenceFacts
      <3>2. QED BY <2>3, <2>4, <3>1, StartsShorter
    <2>5. QED BY <2>2, <2>3, <2>4 DEF buf
  <1>5. CASE path # "" /\ ~(Len(path) >= MAX_PATH_DEPTH)
    <2> DEFINE L == Len(path)
               tail == Repeat(LastChar(path), SHORT_COPY)
               long == path \o tail
    <2>1. L # 0
      BY <1>2, <1>5, EmptyUnique, Zenon
    <2>2. L \in 1..L
      BY <1>1, <2>1
    <2>3. IsCharacter(LastChar(path), path[L])
      BY <2>2, CharacterAt DEF LastChar
    <2>4. IsSequence(tail) /\ Len(tail) = SHORT_COPY
      BY <1>1, <2>3, RepeatFacts
    <2>5. to_classify_buffer(path) = SubSeq(long, 1, SHORT_COPY)
      BY <1>5 DEF to_classify_buffer
    <2> HIDE DEF tail
    <2>6. IsSequence(long) /\ Len(long) = L + SHORT_COPY
      BY <2>4, JoinFacts
    <2> HIDE DEF long
    <2>7. SHORT_COPY \in 0..Len(long)
      BY <1>1, <2>6
    <2> DEFINE buf == SubSeq(long, 1, SHORT_COPY)
    <2>8. IsSequence(buf) /\ Len(buf) = SHORT_COPY /\ StartsWith(long, buf)
      BY <2>6, <2>7, HeadFacts, StartsHead
    <2> HIDE DEF buf
    <2>9. StartsWith(long, path)
      BY <2>4, StartsOfJoin DEF long
    <2>10. ASSUME NEW w, IsSequence(w), Len(w) <= SHORT_COPY, StartsWith(path, w)
           PROVE  StartsWith(buf, w)
      <3>1. StartsWith(long, w)
        BY <2>6, <2>9, <2>10, StartsTransitive
      <3>2. QED BY <2>6, <2>8, <2>10, <3>1, StartsShorter
    <2>11. QED BY <2>5, <2>8, <2>10 DEF buf
  <1>6. QED BY <1>3, <1>4, <1>5

\* The classes that need no more than /proc/.
ProcClasses ==
    {ProcWords[w] : w \in DOMAIN ProcWords} \cup {"ProcPidOther", "ProcGlobal"}
        \cup {ProcWholeWords[w] : w \in DOMAIN ProcWholeWords}

LEMMA ProcClassesAre == ProcClasses \subseteq Classes \ {"Regular"}
  <1>1. {ProcWords[w] : w \in DOMAIN ProcWords} \subseteq Classes \ {"Regular"}
    BY DEF ProcWords, Classes, as_str
  <1>2. {ProcWholeWords[w] : w \in DOMAIN ProcWholeWords} \subseteq Classes \ {"Regular"}
    BY DEF ProcWholeWords, Classes, as_str
  <1>3. {"ProcPidOther", "ProcGlobal"} \subseteq Classes \ {"Regular"}
    BY DEF Classes, as_str
  <1>4. QED BY <1>1, <1>2, <1>3 DEF ProcClasses

LEMMA OtherClassesAre ==
    {"ProcGlobalSys", "ProcGlobalNet", "SysCgroupDocker", "SysCgroupOther", "SysClassNet",
     "SysOther", "RunDocker", "RunUser", "RunOther", "DevPts", "DevShm", "DevOther",
     "TmpRandom", "TmpOther"} \subseteq Classes \ {"Regular"} /\ "Regular" \in Classes
  BY DEF Classes, as_str

LEMMA SuffixClass ==
    ASSUME NEW buf, NEW offset PROVE classify_proc_suffix(buf, offset) \in ProcClasses
  BY DEF classify_proc_suffix, ProcClasses

LEMMA ProcClass ==
    ASSUME NEW buf
    PROVE  \/ classify_proc(buf) \in ProcClasses
           \/ classify_proc(buf) = "ProcGlobalSys" /\ HasAt(buf, 6, "sys/")
           \/ classify_proc(buf) = "ProcGlobalNet" /\ HasAt(buf, 6, "net/")
  <1>1. "ProcGlobal" \in ProcClasses
    BY DEF ProcClasses
  <1>2. QED BY <1>1, SuffixClass DEF classify_proc, classify_proc_global

LEMMA HasAtElements ==
    ASSUME NEW s, IsSequence(s), NEW w, IsSequence(w), NEW offset \in Nat, HasAt(s, offset, w)
    PROVE  offset + Len(w) <= Len(s) /\ \A i \in 1..Len(w) : s[offset + i] = w[i]
  <1> DEFINE t == SubSeq(s, offset + 1, offset + Len(w))
  <1>1. Len(w) \in Nat /\ Len(s) \in Nat
    BY SequenceFacts
  <1>2. offset + Len(w) <= Len(s) /\ t = w
    BY DEF HasAt
  <1>3. ASSUME NEW i \in 1..Len(w) PROVE t[i] = s[offset + i]
    BY <1>1, <1>2, <1>3
  <1> HIDE DEF t
  <1>4. QED BY <1>2, <1>3

LEMMA StartsJoin ==
    ASSUME NEW s, IsSequence(s), NEW a, IsSequence(a), NEW b, IsSequence(b),
           StartsWith(s, a), HasAt(s, Len(a), b)
    PROVE  StartsWith(s, a \o b)
  <1> DEFINE t == a \o b
  <1>1. IsSequence(t) /\ Len(t) = Len(a) + Len(b)
        /\ (\A i \in 1..Len(a) : t[i] = a[i]) /\ (\A i \in 1..Len(b) : t[Len(a) + i] = b[i])
    BY JoinFacts
  <1> HIDE DEF t
  <1>2. Len(a) \in Nat /\ Len(b) \in Nat /\ Len(s) \in Nat
    BY SequenceFacts
  <1>3. /\ Len(a) <= Len(s) /\ Len(a) + Len(b) <= Len(s)
        /\ \A i \in 1..Len(a) : s[i] = a[i]
        /\ \A i \in 1..Len(b) : s[Len(a) + i] = b[i]
    <2>1. Len(a) + Len(b) <= Len(s) /\ \A i \in 1..Len(b) : s[Len(a) + i] = b[i]
      BY <1>2, HasAtElements
    <2>2. 0 + Len(a) <= Len(s) /\ \A i \in 1..Len(a) : s[0 + i] = a[i]
      BY HasAtElements DEF StartsWith
    <2>3. QED BY <1>2, <2>1, <2>2
  <1>4. ASSUME NEW i \in 1..Len(t) PROVE s[i] = t[i]
    <2>1. CASE i \in 1..Len(a)
      BY <1>1, <1>3, <2>1
    <2>2. CASE ~(i \in 1..Len(a))
      <3>1. i - Len(a) \in 1..Len(b) /\ i = Len(a) + (i - Len(a))
        BY <1>1, <1>2, <2>2
      <3>2. QED BY <1>1, <1>3, <3>1
    <2>3. QED BY <2>1, <2>2
  <1>5. SubSeq(s, 1, Len(t)) = t
    BY <1>1, <1>2, <1>3, <1>4 DEF IsSequence
  <1>6. Len(t) <= Len(s)
    BY <1>1, <1>3
  <1>7. StartsWith(s, t)
    BY <1>1, <1>2, <1>5, <1>6 DEF StartsWith, HasAt
  <1>8. QED BY <1>7 DEF t

\* What the class says of the copy of the path.
LEMMA BufferRoot ==
    ASSUME NEW buf, IsSequence(buf)
    PROVE  LET c == classify_path(buf)
           IN  /\ c \in Classes
               /\ c \notin {"Regular", "SysCgroupDocker", "SysCgroupOther"} => StartsWith(buf, Root[c])
               /\ StartsWith(buf, "/proc/") => c # "Regular"
  <1> DEFINE c == classify_path(buf)
  <1>1. CASE StartsWith(buf, "/proc/")
    <2>1. c = classify_proc(buf)
      BY <1>1 DEF classify_path
    <2>2. CASE c \in ProcClasses
      <3>1. Root[c] = "/proc/"
        BY <2>2, LiteralAssumption DEF ProcClasses
      <3>2. QED BY <1>1, <2>2, <3>1, ProcClassesAre
    <2>3. CASE c = "ProcGlobalSys" /\ HasAt(buf, 6, "sys/")
      <3>1. Root[c] = "/proc/" \o "sys/" /\ Len("/proc/") = 6
        BY <2>3, LiteralAssumption
      <3>2. StartsWith(buf, "/proc/" \o "sys/")
        BY <1>1, <2>3, <3>1, LiteralLengths, StartsJoin
      <3>3. QED BY <2>3, <3>1, <3>2, OtherClassesAre
    <2>4. CASE c = "ProcGlobalNet" /\ HasAt(buf, 6, "net/")
      <3>1. Root[c] = "/proc/" \o "net/" /\ Len("/proc/") = 6
        BY <2>4, LiteralAssumption
      <3>2. StartsWith(buf, "/proc/" \o "net/")
        BY <1>1, <2>4, <3>1, LiteralLengths, StartsJoin
      <3>3. QED BY <2>4, <3>1, <3>2, OtherClassesAre
    <2>5. QED BY <2>1, <2>2, <2>3, <2>4, ProcClass
  <1>2. CASE ~StartsWith(buf, "/proc/") /\ StartsWith(buf, "/sys/")
    <2>1. c = classify_sys(buf) /\ Len("/sys/") = 5
      BY <1>2, LiteralLengths DEF classify_path
    <2>2. \/ c \in {"SysCgroupDocker", "SysCgroupOther", "SysOther"}
          \/ c = "SysClassNet" /\ HasAt(buf, 5, "class/net/")
      BY <2>1 DEF classify_sys
    <2>3. c \in Classes \ {"Regular"}
      BY <2>2, OtherClassesAre
    <2>4. CASE c = "SysOther"
      BY <1>2, <2>3, <2>4, LiteralAssumption
    <2>5. CASE c = "SysClassNet" /\ HasAt(buf, 5, "class/net/")
      <3>1. StartsWith(buf, "/sys/" \o "class/net/")
        BY <1>2, <2>1, <2>5, LiteralLengths, StartsJoin
      <3>2. Root[c] = "/sys/" \o "class/net/"
        BY <2>5, LiteralAssumption
      <3>3. QED BY <2>3, <3>1, <3>2
    <2>6. QED BY <1>2, <2>2, <2>3, <2>4, <2>5
  <1>3. CASE ~StartsWith(buf, "/proc/") /\ ~StartsWith(buf, "/sys/") /\ StartsWith(buf, "/run/")
    <2>1. c = classify_run(buf) /\ Len("/run/") = 5
      BY <1>3, LiteralLengths DEF classify_path
    <2>2. \/ c = "RunOther"
          \/ c = "RunDocker" /\ HasAt(buf, 5, "docker/")
          \/ c = "RunUser" /\ HasAt(buf, 5, "user/")
      BY <2>1 DEF classify_run
    <2>3. c \in Classes \ {"Regular"} /\ c \notin {"SysCgroupDocker", "SysCgroupOther"}
      BY <2>2, OtherClassesAre
    <2>4. CASE c = "RunOther"
      BY <1>3, <2>3, <2>4, LiteralAssumption
    <2>5. CASE c = "RunDocker" /\ HasAt(buf, 5, "docker/")
      <3>1. StartsWith(buf, "/run/" \o "docker/")
        BY <1>3, <2>1, <2>5, LiteralLengths, StartsJoin
      <3>2. Root[c] = "/run/" \o "docker/"
        BY <2>5, LiteralAssumption
      <3>3. QED BY <2>3, <3>1, <3>2
    <2>6. CASE c = "RunUser" /\ HasAt(buf, 5, "user/")
      <3>1. StartsWith(buf, "/run/" \o "user/")
        BY <1>3, <2>1, <2>6, LiteralLengths, StartsJoin
      <3>2. Root[c] = "/run/" \o "user/"
        BY <2>6, LiteralAssumption
      <3>3. QED BY <2>3, <3>1, <3>2
    <2>7. QED BY <2>2, <2>4, <2>5, <2>6
  <1>4. CASE ~StartsWith(buf, "/proc/") /\ ~StartsWith(buf, "/sys/") /\ ~StartsWith(buf, "/run/") /\ StartsWith(buf, "/dev/")
    <2>1. c = classify_dev(buf) /\ Len("/dev/") = 5
      BY <1>4, LiteralLengths DEF classify_path
    <2>2. \/ c = "DevOther"
          \/ c = "DevPts" /\ HasAt(buf, 5, "pts/")
          \/ c = "DevShm" /\ HasAt(buf, 5, "shm/")
      BY <2>1 DEF classify_dev
    <2>3. c \in Classes \ {"Regular"} /\ c \notin {"SysCgroupDocker", "SysCgroupOther"}
      BY <2>2, OtherClassesAre
    <2>4. CASE c = "DevOther"
      BY <1>4, <2>3, <2>4, LiteralAssumption
    <2>5. CASE c = "DevPts" /\ HasAt(buf, 5, "pts/")
      <3>1. StartsWith(buf, "/dev/" \o "pts/")
        BY <1>4, <2>1, <2>5, LiteralLengths, StartsJoin
      <3>2. Root[c] = "/dev/" \o "pts/"
        BY <2>5, LiteralAssumption
      <3>3. QED BY <2>3, <3>1, <3>2
    <2>6. CASE c = "DevShm" /\ HasAt(buf, 5, "shm/")
      <3>1. StartsWith(buf, "/dev/" \o "shm/")
        BY <1>4, <2>1, <2>6, LiteralLengths, StartsJoin
      <3>2. Root[c] = "/dev/" \o "shm/"
        BY <2>6, LiteralAssumption
      <3>3. QED BY <2>3, <3>1, <3>2
    <2>7. QED BY <2>2, <2>4, <2>5, <2>6
  <1>5. CASE ~StartsWith(buf, "/proc/") /\ ~StartsWith(buf, "/sys/") /\ ~StartsWith(buf, "/run/") /\ ~StartsWith(buf, "/dev/") /\ StartsWith(buf, "/tmp/")
    <2>1. c = classify_tmp(buf) /\ Len("/tmp/") = 5
      BY <1>5, LiteralLengths DEF classify_path
    <2>2. \/ c = "TmpOther"
          \/ c = "TmpRandom" /\ HasAt(buf, 5, "tmp")
      BY <2>1 DEF classify_tmp
    <2>3. c \in Classes \ {"Regular"} /\ c \notin {"SysCgroupDocker", "SysCgroupOther"}
      BY <2>2, OtherClassesAre
    <2>4. CASE c = "TmpOther"
      BY <1>5, <2>3, <2>4, LiteralAssumption
    <2>5. CASE c = "TmpRandom" /\ HasAt(buf, 5, "tmp")
      <3>1. StartsWith(buf, "/tmp/" \o "tmp")
        BY <1>5, <2>1, <2>5, LiteralLengths, StartsJoin
      <3>2. Root[c] = "/tmp/" \o "tmp"
        BY <2>5, LiteralAssumption
      <3>3. QED BY <2>3, <3>1, <3>2
    <2>6. QED BY <2>2, <2>4, <2>5
  <1>6. CASE ~StartsWith(buf, "/proc/") /\ ~StartsWith(buf, "/sys/") /\ ~StartsWith(buf, "/run/") /\ ~StartsWith(buf, "/dev/") /\ ~StartsWith(buf, "/tmp/")
    <2>1. c = "Regular"
      BY <1>6 DEF classify_path
    <2>2. QED BY <1>6, <2>1, OtherClassesAre
  <1>7. QED BY <1>1, <1>2, <1>3, <1>4, <1>5, <1>6

\* ... and of the path.
LEMMA ClassRoot ==
    ASSUME NEW path \in Paths
    PROVE  /\ Class[path] \in Classes
           /\ Class[path] \notin {"Regular", "SysCgroupDocker", "SysCgroupOther"}
                  => StartsWith(path, Root[Class[path]])
           /\ StartsWith(path, "/proc/") => Class[path] # "Regular"
  <1> DEFINE c == Class[path]
             buf == to_classify_buffer(path)
  <1>1. IsSequence(path)
    BY PathAssumption
  <1>2. IsSequence(buf)
    BY <1>1, BufferFacts
  <1>3. c = classify_path(buf)
    BY DEF Class, ClassOf
  <1> HIDE DEF buf
  <1>4. /\ c \in Classes
        /\ c \notin {"Regular", "SysCgroupDocker", "SysCgroupOther"} => StartsWith(buf, Root[c])
        /\ StartsWith(buf, "/proc/") => c # "Regular"
    BY <1>2, <1>3, BufferRoot
  <1> HIDE DEF c
  <1>5. ASSUME c \notin {"Regular", "SysCgroupDocker", "SysCgroupOther"}
        PROVE  StartsWith(path, Root[c])
    <2> DEFINE w == Root[c]
    <2>1. /\ IsSequence(w) /\ Len(w) \in 2..SHORT_COPY
          /\ SubSeq(w, Len(w), Len(w)) # SubSeq(w, Len(w) - 1, Len(w) - 1)
      BY <1>4, <1>5, LiteralAssumption
    <2>2. StartsWith(buf, w)
      BY <1>4, <1>5
    <2> HIDE DEF w
    <2>3. StartsWith(path, w)
      BY <1>1, <2>1, <2>2, BufferHead DEF buf
    <2>4. QED BY <2>3 DEF w
  <1>6. ASSUME StartsWith(path, "/proc/") PROVE StartsWith(buf, "/proc/")
    <2>1. IsSequence("/proc/") /\ Len("/proc/") = 6
      BY LiteralLengths
    <2>2. 6 <= SHORT_COPY
      BY BufferAssumption
    <2>3. QED BY <1>1, <1>6, <2>1, <2>2, BufferFacts DEF buf
  <1>7. QED BY <1>4, <1>5, <1>6 DEF c

-----------------------------------------------------------------------------
(* Patterns and the relation between them. *)

IsPattern(p) ==
    \/ \E k : IsSequence(k) /\ p \in {Exact(k), Prefix(k)}
    \/ \E c \in Classes : p = Classified(c)

LEMMA PatternForms ==
    ASSUME NEW p, IsPattern(p)
    PROVE  \/ p.form = "exact" /\ IsSequence(p.key) /\ p = Exact(p.key)
           \/ p.form = "prefix" /\ IsSequence(p.key) /\ p = Prefix(p.key)
           \/ p.form = "class" /\ p.key \in Classes /\ p = Classified(p.key)
  BY DEF IsPattern, Exact, Prefix, Classified

LEMMA ExactMatches ==
    ASSUME NEW p, p.form = "exact", NEW path PROVE Matches(p, path) <=> path = p.key
  BY DEF Matches

LEMMA PrefixMatches ==
    ASSUME NEW p, p.form = "prefix", NEW path PROVE Matches(p, path) <=> StartsWith(path, Stored(p.key))
  BY DEF Matches

LEMMA ClassMatches ==
    ASSUME NEW p, p.form = "class", NEW path
    PROVE  Matches(p, path) <=> p.key # "Regular" /\ Class[path] = p.key
  BY DEF Matches

\* Within the paths of a sound pattern.
LEMMA SoundPrefix ==
    ASSUME NEW p, IsPattern(p), ~Unsound(p), p.form = "prefix", NEW path
    PROVE  Matches(p, path) <=> StartsWith(path, p.key)
  <1>1. Len(p.key) \in Nat /\ PREFIX_MAX_LEN \in Nat
    BY PatternForms, PathAssumption DEF IsSequence
  <1>2. Len(p.key) <= PREFIX_MAX_LEN
    BY <1>1 DEF Unsound
  <1>3. QED BY <1>2, PrefixMatches DEF Stored

LEMMA SoundClass ==
    ASSUME NEW p, IsPattern(p), ~Unsound(p), p.form = "class", NEW path \in Paths, Matches(p, path)
    PROVE  IsSequence(Root[p.key]) /\ StartsWith(path, Root[p.key])
  <1>1. p.key \in Classes /\ p = Classified(p.key) /\ p.key # "Regular" /\ Class[path] = p.key
    BY PatternForms, ClassMatches
  <1>2. p.key \notin {"SysCgroupDocker", "SysCgroupOther"}
    BY <1>1 DEF Unsound
  <1>3. StartsWith(path, Root[p.key])
    BY <1>1, <1>2, ClassRoot
  <1>4. QED BY <1>1, <1>3, LiteralAssumption

\* One order of the forms ...
LEMMA RelationIsSound ==
    ASSUME NEW a, NEW b, IsPattern(a), IsPattern(b), ~Unsound(a), ~Unsound(b), a # b,
           <<a.form, b.form>> \notin {<<"exact", "prefix">>, <<"class", "prefix">>, <<"class", "exact">>},
           NEW path \in Paths
    PROVE  /\ Relation(a, b) # "Equal"
           /\ Relation(a, b) = "Superset" /\ Matches(b, path) => Matches(a, path)
           /\ Relation(a, b) = "Subset" /\ Matches(a, path) => Matches(b, path)
           /\ Relation(a, b) = "Disjoint" => ~(Matches(a, path) /\ Matches(b, path))
  <1>0. IsSequence(path)
    BY PathAssumption
  <1>1. CASE a.form = "exact" /\ b.form = "exact"
    <2>1. Relation(a, b) = "Disjoint"
      BY <1>1 DEF Relation
    <2>2. a.key # b.key
      BY <1>1, PatternForms
    <2>3. QED BY <1>1, <2>1, <2>2, ExactMatches
  <1>2. CASE a.form = "prefix" /\ b.form = "prefix"
    <2>1. /\ IsSequence(a.key) /\ IsSequence(b.key)
          /\ Matches(a, path) <=> StartsWith(path, a.key)
          /\ Matches(b, path) <=> StartsWith(path, b.key)
      BY <1>2, PatternForms, SoundPrefix
    <2>2. Relation(a, b) = IF StartsWith(b.key, a.key) THEN "Superset"
                           ELSE IF StartsWith(a.key, b.key) THEN "Subset" ELSE "Disjoint"
      BY <1>2 DEF Relation
    <2>3. StartsWith(b.key, a.key) /\ StartsWith(path, b.key) => StartsWith(path, a.key)
      BY <1>0, <2>1, StartsTransitive
    <2>4. StartsWith(a.key, b.key) /\ StartsWith(path, a.key) => StartsWith(path, b.key)
      BY <1>0, <2>1, StartsTransitive
    <2>5. StartsWith(path, a.key) /\ StartsWith(path, b.key)
              => StartsWith(a.key, b.key) \/ StartsWith(b.key, a.key)
      BY <1>0, <2>1, StartsComparable
    <2>6. QED BY <2>1, <2>2, <2>3, <2>4, <2>5
  <1>3. CASE a.form = "prefix" /\ b.form = "exact"
    <2>1. /\ IsSequence(a.key) /\ IsSequence(b.key)
          /\ Matches(a, path) <=> StartsWith(path, a.key)
          /\ Matches(b, path) <=> path = b.key
      BY <1>3, PatternForms, SoundPrefix, ExactMatches
    <2>2. Relation(a, b) = IF StartsWith(b.key, a.key) THEN "Superset" ELSE "Disjoint"
      BY <1>3 DEF Relation
    <2>3. QED BY <2>1, <2>2
  <1>4. CASE a.form = "class" /\ b.form = "class"
    <2>1. Relation(a, b) \in {"Overlap", "Disjoint"}
      BY <1>4 DEF Relation, classified_vs_classified
    <2>2. a.key # b.key
      BY <1>4, PatternForms
    <2>3. QED BY <1>4, <2>1, <2>2, ClassMatches
  <1>5. CASE a.form = "prefix" /\ b.form = "class"
    <2>1. /\ IsSequence(a.key)
          /\ Matches(a, path) <=> StartsWith(path, a.key)
          /\ Matches(b, path) => IsSequence(Root[b.key]) /\ StartsWith(path, Root[b.key])
      BY <1>5, PatternForms, SoundPrefix, SoundClass
    <2>2. Relation(a, b) = IF StartsWith(Root[b.key], a.key) THEN "Superset"
                           ELSE IF StartsWith(a.key, Root[b.key]) THEN "Overlap" ELSE "Disjoint"
      BY <1>5 DEF Relation, prefix_vs_glob
    <2>3. StartsWith(Root[b.key], a.key) /\ Matches(b, path) => StartsWith(path, a.key)
      BY <1>0, <2>1, StartsTransitive
    <2>4. StartsWith(path, a.key) /\ Matches(b, path)
              => StartsWith(a.key, Root[b.key]) \/ StartsWith(Root[b.key], a.key)
      BY <1>0, <2>1, StartsComparable
    <2>5. QED BY <2>1, <2>2, <2>3, <2>4
  <1>6. CASE a.form = "exact" /\ b.form = "class"
    <2>1. /\ Matches(a, path) <=> path = a.key
          /\ Matches(b, path) => StartsWith(path, Root[b.key])
      BY <1>6, SoundClass, ExactMatches
    <2>2. Relation(a, b) = IF StartsWith(a.key, Root[b.key]) THEN "Overlap" ELSE "Disjoint"
      BY <1>6 DEF Relation, exact_vs_glob
    <2>3. QED BY <2>1, <2>2
  <1>7. QED BY <1>1, <1>2, <1>3, <1>4, <1>5, <1>6, PatternForms

\* ... and both.
LEMMA RelationToIsSound ==
    ASSUME NEW a, NEW b, IsPattern(a), IsPattern(b), ~Unsound(a), ~Unsound(b), NEW path \in Paths
    PROVE  /\ relation_to(a, b) \in {"Equal", "Superset"} /\ Matches(b, path) => Matches(a, path)
           /\ relation_to(a, b) \in {"Equal", "Subset"} /\ Matches(a, path) => Matches(b, path)
           /\ relation_to(a, b) = "Disjoint" => ~(Matches(a, path) /\ Matches(b, path))
  <1> DEFINE mirrored == <<a.form, b.form>> \in {<<"exact", "prefix">>, <<"class", "prefix">>, <<"class", "exact">>}
  <1>1. CASE a = b
    BY <1>1 DEF relation_to
  <1>2. CASE a # b /\ mirrored
    <2>1. relation_to(a, b) = swap(Relation(b, a))
      BY <1>2 DEF relation_to
    <2>2. <<b.form, a.form>> \notin {<<"exact", "prefix">>, <<"class", "prefix">>, <<"class", "exact">>}
      BY <1>2
    <2>3. /\ Relation(b, a) # "Equal"
          /\ Relation(b, a) = "Superset" /\ Matches(a, path) => Matches(b, path)
          /\ Relation(b, a) = "Subset" /\ Matches(b, path) => Matches(a, path)
          /\ Relation(b, a) = "Disjoint" => ~(Matches(b, path) /\ Matches(a, path))
      BY <1>2, <2>2, RelationIsSound
    <2>4. QED BY <2>1, <2>3 DEF swap
  <1>3. CASE a # b /\ ~mirrored
    <2>1. relation_to(a, b) = Relation(a, b)
      BY <1>3 DEF relation_to
    <2>2. QED BY <1>3, <2>1, RelationIsSound
  <1>4. QED BY <1>1, <1>2, <1>3

-----------------------------------------------------------------------------
(* The linker. *)

Forms(e) == {NewRule(e.subject, File(Exact(e.object.binary), FALSE), a, e.verdict) : a \in {"FileOpen", "FileRead"}}

\* f is implied by an exec rule, and its subject had no rule for it.
LinkedFrom(S, f) ==
    /\ \E e \in S : e.action = "ProcExec" /\ f \in Forms(e)
    /\ \A r \in S : signature(r) # signature(f)

LEMMA ImpliedFacts ==
    ASSUME NEW s, IsSequence(s), NEW e
    PROVE  /\ Implied(s, e) \subseteq Forms(e)
           /\ \A f \in Implied(s, e), r \in ToSet(s) : signature(r) # signature(f)
           /\ IsSequence(SetToSeq(Implied(s, e))) /\ ToSet(SetToSeq(Implied(s, e))) = Implied(s, e)
  <1>1. Implied(s, e) \subseteq Forms(e)
    BY DEF Implied, Forms
  <1>2. \A f \in Implied(s, e), r \in ToSet(s) : signature(r) # signature(f)
    BY DEF Implied, ToSet
  <1>3. IsFiniteSet(Forms(e))
    <2> DEFINE f == [a \in {"FileOpen", "FileRead"} |->
                        NewRule(e.subject, File(Exact(e.object.binary), FALSE), a, e.verdict)]
    <2>1. IsFiniteSet({"FileOpen", "FileRead"})
      <3>1. {"FileOpen", "FileRead"} = {"FileOpen"} \cup {"FileRead"}
        OBVIOUS
      <3>2. IsFiniteSet({"FileOpen"})
        BY FS_Singleton, Zenon
      <3>3. IsFiniteSet({"FileOpen"} \cup {"FileRead"})
        BY <3>2, FS_AddElement, Zenon
      <3>4. QED BY <3>1, <3>3, Zenon
    <2>2. Forms(e) = {f[a] : a \in {"FileOpen", "FileRead"}}
      BY DEF Forms
    <2> HIDE DEF f
    <2>3. QED BY <2>1, <2>2, FiniteImage
  <1>4. IsFiniteSet(Implied(s, e))
    BY <1>1, <1>3, FS_Subset
  <1>5. QED BY <1>1, <1>2, <1>4, SomeOrderFacts

LinkStep(g, s, n) ==
    IF n = 0 THEN s
    ELSE IF s[n].action = "ProcExec" THEN g[n - 1] \o SetToSeq(Implied(g[n - 1], s[n]))
    ELSE g[n - 1]

LEMMA LinkExists ==
    ASSUME NEW s, IsSequence(s)
    PROVE  \E g : g = [n \in 0..Len(s) |-> LinkStep(g, s, n)]
  <1> DEFINE m == Len(s)
             E == ToSet(s) \cup UNION {Forms(e) : e \in ToSet(s)}
             T == Seq(E)
             Step(i, t) == IF s[i].action = "ProcExec" THEN t \o SetToSeq(Implied(t, s[i])) ELSE t
             F == [i \in 1..m |-> [t \in T |-> Step(i, t)]]
  <1>1. m \in Nat /\ DOMAIN s = 1..m
    BY SequenceFacts
  <1>2. s \in T
    <2>1. ToSet(s) \subseteq E
      OBVIOUS
    <2> HIDE DEF E
    <2>2. QED BY <2>1, InSeq
  <1>3. ASSUME NEW i \in 1..m, NEW t \in T PROVE Step(i, t) \in T
    <2>1. IsSequence(t) /\ ToSet(t) \subseteq E
      <3> HIDE DEF E
      <3>1. QED BY SeqFacts
    <2>2. Forms(s[i]) \subseteq E
      BY <1>1 DEF ToSet
    <2> DEFINE u == SetToSeq(Implied(t, s[i]))
    <2>3. IsSequence(u) /\ ToSet(u) \subseteq E
      BY <2>1, <2>2, ImpliedFacts
    <2> HIDE DEF u, E
    <2>4. t \o u \in T
      BY <2>1, <2>3, JoinFacts, JoinElements, InSeq
    <2>5. QED BY <2>4 DEF u
  <1>4. F \in [1..m -> [T -> T]]
    <2> HIDE DEF T, m, Step
    <2>1. QED BY <1>3
  <1> HIDE DEF F, T, m
  <1>5. PICK g \in [0..m -> T] : Recurs(g, m, s, F)
    BY <1>1, <1>2, <1>4, RecursionTo
  <1>6. ASSUME NEW i \in 0..m PROVE g[i] = LinkStep(g, s, i)
    <2>1. CASE i = 0
      BY <1>5, <2>1 DEF Recurs, LinkStep
    <2>2. CASE i # 0
      <3>1. i \in 1..m /\ i - 1 \in 0..m
        BY <1>1, <2>2
      <3> HIDE DEF Step
      <3>2. F[i][g[i - 1]] = Step(i, g[i - 1])
        BY <3>1 DEF F
      <3>3. g[i] = Step(i, g[i - 1])
        BY <1>5, <2>2, <3>2 DEF Recurs
      <3>4. QED BY <2>2, <3>3 DEF LinkStep, Step
    <2>3. QED BY <2>1, <2>2
  <1>7. g = [i \in 0..m |-> g[i]]
    OBVIOUS
  <1>8. g = [i \in 0..m |-> LinkStep(g, s, i)]
    BY <1>6, <1>7
  <1>9. QED BY <1>8 DEF m

LEMMA LinkFacts ==
    ASSUME NEW s, IsSequence(s)
    PROVE  /\ IsSequence(Link(s)) /\ ToSet(s) \subseteq ToSet(Link(s))
           /\ \A f \in ToSet(Link(s)) : f \in ToSet(s) \/ LinkedFrom(ToSet(s), f)
  <1> DEFINE m == Len(s)
             g == CHOOSE g : g = [n \in 0..m |-> LinkStep(g, s, n)]
             Good(n) == /\ IsSequence(g[n]) /\ ToSet(s) \subseteq ToSet(g[n])
                        /\ \A f \in ToSet(g[n]) : f \in ToSet(s) \/ LinkedFrom(ToSet(s), f)
             G == {n \in 0..m : Good(n)}
  <1>1. m \in Nat /\ DOMAIN s = 1..m
    BY SequenceFacts
  <1>2. Link(s) = g[m]
    BY DEF Link, LinkStep
  <1>3. g = [n \in 0..m |-> LinkStep(g, s, n)]
    <2>1. \E h : h = [n \in 0..m |-> LinkStep(h, s, n)]
      BY LinkExists
    <2>2. QED BY <2>1
  <1> HIDE DEF g, m
  <1>4. \A n \in 0..m : g[n] = LinkStep(g, s, n)
    BY <1>3
  <1>5. 0 \in G
    <2>1. 0 \in 0..m /\ g[0] = s
      BY <1>1, <1>4 DEF LinkStep
    <2>2. QED BY <2>1
  <1>6. ASSUME NEW n \in 0..(m - 1), n \in G PROVE n + 1 \in G
    <2>1. n + 1 \in 0..m /\ n + 1 # 0 /\ (n + 1) - 1 = n /\ s[n + 1] \in ToSet(s)
      BY <1>1 DEF ToSet
    <2> DEFINE t == g[n]
               e == s[n + 1]
               u == SetToSeq(Implied(t, e))
    <2>2. g[n + 1] = IF e.action = "ProcExec" THEN t \o u ELSE t
      BY <1>4, <2>1 DEF LinkStep
    <2>3. Good(n)
      BY <1>6
    <2>4. CASE e.action = "ProcExec"
      <3>1. /\ Implied(t, e) \subseteq Forms(e)
            /\ \A f \in Implied(t, e), r \in ToSet(t) : signature(r) # signature(f)
            /\ IsSequence(u) /\ ToSet(u) = Implied(t, e)
        BY <2>3, ImpliedFacts
      <3>2. IsSequence(t) /\ ToSet(s) \subseteq ToSet(t) /\ e \in ToSet(s)
        BY <2>1, <2>3
      <3>3. \A f \in ToSet(u) : LinkedFrom(ToSet(s), f)
        BY <2>4, <3>1, <3>2 DEF LinkedFrom
      <3>4. g[n + 1] = t \o u
        BY <2>2, <2>4
      <3>5. \A f \in ToSet(t) : f \in ToSet(s) \/ LinkedFrom(ToSet(s), f)
        BY <2>3
      <3> HIDE DEF t, u
      <3>6. IsSequence(t \o u) /\ ToSet(t \o u) = ToSet(t) \cup ToSet(u)
        BY <3>1, <3>2, JoinFacts, JoinElements
      <3>7. Good(n + 1)
        BY <3>2, <3>3, <3>4, <3>5, <3>6
      <3>8. QED BY <2>1, <3>7
    <2>5. CASE e.action # "ProcExec"
      BY <2>1, <2>2, <2>3, <2>5
    <2>6. QED BY <2>4, <2>5
  <1>7. m \in G
    <2>1. m \in 0..m
      BY <1>1
    <2> HIDE DEF G
    <2>2. QED BY <1>1, <1>5, <1>6, <2>1, InductionTo
  <1>8. QED BY <1>2, <1>7

-----------------------------------------------------------------------------
(* Rules. *)

Verdicts == {"Allow", "Deny"}

IsFileRule(r) ==
    /\ r = NewRule(r.subject, File(r.object.pattern, r.object.is_sensitive), r.action, r.verdict)
    /\ IsPattern(r.object.pattern) /\ r.object.is_sensitive \in BOOLEAN
    /\ r.action \in FileActions /\ r.verdict \in Verdicts
IsProcessRule(r) ==
    /\ r = NewRule(r.subject, Process(r.object.binary), r.action, r.verdict)
    /\ IsSequence(r.object.binary)
    /\ r.action \in {"ProcExec", "ProcFork"} /\ r.verdict \in Verdicts
IsNetworkRule(r) ==
    /\ r = NewRule(r.subject, Network(r.object.ip, r.object.port, r.object.protocol), r.action, r.verdict)
    /\ r.action \in {"NetConnect", "NetBind"} /\ r.verdict \in Verdicts

IsRule(r) == IsFileRule(r) \/ IsProcessRule(r) \/ IsNetworkRule(r)

AreRules(s) == IsSequence(s) /\ \A r \in ToSet(s) : IsRule(r)

LEMMA FileRuleMade ==
    ASSUME NEW x, NEW p, IsPattern(p), NEW b \in BOOLEAN, NEW a \in FileActions, NEW v \in Verdicts
    PROVE  LET r == NewRule(x, File(p, b), a, v)
           IN  /\ IsFileRule(r) /\ r.subject = x /\ r.object = File(p, b) /\ r.action = a /\ r.verdict = v
               /\ r.object.pattern = p /\ r.object.is_sensitive = b
  BY DEF NewRule, File, IsFileRule

LEMMA ProcessRuleMade ==
    ASSUME NEW x, NEW k, IsSequence(k), NEW a \in {"ProcExec", "ProcFork"}, NEW v \in Verdicts
    PROVE  LET r == NewRule(x, Process(k), a, v)
           IN  /\ IsProcessRule(r) /\ r.subject = x /\ r.object = Process(k) /\ r.action = a /\ r.verdict = v
               /\ r.object.binary = k
  BY DEF NewRule, Process, IsProcessRule

LEMMA NetworkRuleMade ==
    ASSUME NEW x, NEW ip, NEW port, NEW protocol, NEW a \in {"NetConnect", "NetBind"}, NEW v \in Verdicts
    PROVE  LET r == NewRule(x, Network(ip, port, protocol), a, v)
           IN  /\ IsNetworkRule(r) /\ r.subject = x /\ r.action = a /\ r.verdict = v
               /\ r.object.ip = ip /\ r.object.port = port
  BY DEF NewRule, Network, IsNetworkRule

LEMMA RuleKinds ==
    ASSUME NEW r
    PROVE  /\ IsFileRule(r) => IsFile(r) /\ r.object.kind = "file"
           /\ IsProcessRule(r) => ~IsFile(r) /\ r.object.kind = "process"
           /\ IsNetworkRule(r) => ~IsFile(r) /\ r.object.kind = "network"
  BY DEF IsFileRule, IsProcessRule, IsNetworkRule, NewRule, File, Process, Network, IsFile, FileActions

LEMMA RuleIsFile ==
    ASSUME NEW r, IsRule(r), IsFile(r) \/ r.object.kind = "file" \/ r.action \in FileActions
    PROVE  IsFileRule(r)
  BY RuleKinds DEF IsRule, FileActions, IsProcessRule, IsNetworkRule

LEMMA WithPatternFacts ==
    ASSUME NEW r, IsFileRule(r), NEW p, IsPattern(p)
    PROVE  LET q == WithPattern(r, p)
           IN  /\ IsFileRule(q) /\ q.object.pattern = p /\ q.object.is_sensitive = r.object.is_sensitive
               /\ q.subject = r.subject /\ q.action = r.action /\ q.verdict = r.verdict
  <1> DEFINE n == NewRule(r.subject, File(p, r.object.is_sensitive), r.action, r.verdict)
  <1>1. WithPattern(r, p) = n
    BY DEF WithPattern, IsFileRule, NewRule, File
  <1>2. r.object.is_sensitive \in BOOLEAN /\ r.action \in FileActions /\ r.verdict \in Verdicts
    BY DEF IsFileRule
  <1>3. QED BY <1>1, <1>2, FileRuleMade

-----------------------------------------------------------------------------
(* What the passes do to a rule and to its pattern. *)

LEMMA LeastIndex ==
    ASSUME NEW S \in SUBSET Nat, S # {} PROVE \E i \in S : \A j \in S : i <= j
  <1> DEFINE R == {xy \in Nat \X Nat : xy[1] < xy[2]}
  <1>1. IsWellFoundedOn(R, Nat)
    BY NatLessThanWellFounded DEF OpToRel
  <1>2. PICK i \in S : \A k \in S : ~(<<k, i>> \in R)
    <2> HIDE DEF R
    <2>1. QED BY <1>1, WFMin
  <1>3. \A k \in S : ~(k < i)
    BY <1>2
  <1>4. QED BY <1>3

LEMMA GreatestIndex ==
    ASSUME NEW n \in Nat, NEW S \in SUBSET (0..n), S # {} PROVE \E i \in S : \A j \in S : j <= i
  <1> DEFINE D == {d \in Nat : n - d \in S}
  <1>1. PICK x \in S : TRUE
    OBVIOUS
  <1>2. n - x \in Nat /\ n - (n - x) = x
    BY <1>1
  <1>3. D # {} /\ D \in SUBSET Nat
    BY <1>1, <1>2
  <1>4. PICK d \in D : \A e \in D : d <= e
    <2> HIDE DEF D
    <2>1. QED BY <1>3, LeastIndex
  <1>5. n - d \in S /\ d \in Nat
    BY <1>4
  <1>6. ASSUME NEW j \in S PROVE j <= n - d
    <2>1. n - j \in Nat /\ n - (n - j) = j /\ j \in Nat
      OBVIOUS
    <2>2. n - j \in D
      BY <2>1
    <2>3. d <= n - j
      BY <1>4, <2>2
    <2>4. QED BY <1>5, <2>1, <2>3
  <1>7. QED BY <1>5, <1>6

LEMMA WithSlashFacts ==
    ASSUME NEW s, IsSequence(s) PROVE IsSequence(WithSlash(s)) /\ EnsureSlash(s) = WithSlash(s)
  <1>1. IsSequence("/")
    BY LiteralLengths, Zenon
  <1>2. IsSequence(s \o "/")
    BY <1>1, JoinFacts, Zenon
  <1>3. QED BY <1>2 DEF WithSlash, EnsureSlash

\* A word that was added at the end is found there and can be cut off again.
LEMMA JoinEnds ==
    ASSUME NEW s, IsSequence(s), NEW w, IsSequence(w)
    PROVE  EndsWith(s \o w, w) /\ SubSeq(s \o w, 1, Len(s \o w) - Len(w)) = s
  <1> DEFINE j == s \o w
             n == Len(s)
             m == Len(w)
  <1>1. /\ Len(j) = n + m /\ n \in Nat /\ m \in Nat
        /\ \A i \in 1..n : j[i] = s[i]
        /\ \A i \in 1..m : j[n + i] = w[i]
    BY JoinFacts, SequenceFacts
  <1>2. IsSequence(j)
    BY JoinFacts
  <1>3. s = [i \in 1..n |-> s[i]] /\ w = [i \in 1..m |-> w[i]]
    BY SequenceFacts
  <1> HIDE DEF j, n, m
  <1>4. SubSeq(j, n + 1, n + m) = [i \in 1..m |-> j[n + i]]
    BY <1>1, <1>2 DEF IsSequence
  <1>5. SubSeq(j, 1, n) = [i \in 1..n |-> j[i]]
    BY <1>1, <1>2 DEF IsSequence
  <1>6. SubSeq(j, n + 1, n + m) = w /\ SubSeq(j, 1, n) = s
    BY <1>1, <1>3, <1>4, <1>5
  <1>7. Len(j) - m = n /\ m <= Len(j) /\ n + m <= Len(j)
    BY <1>1
  <1>8. m = Len(w)
    BY DEF m
  <1>9. EndsWith(j, w) /\ SubSeq(j, 1, Len(j) - m) = s
    BY <1>6, <1>7, <1>8 DEF EndsWith, HasAt
  <1>10. QED BY <1>8, <1>9 DEF j

LEMMA HeadEnds ==
    ASSUME NEW t, IsSequence(t), NEW c, IsSequence(c), Len(c) = 1, NEW i \in 1..Len(t), HasAt(t, i - 1, c)
    PROVE  EndsWith(SubSeq(t, 1, i), c)
  <1> DEFINE h == SubSeq(t, 1, i)
  <1>1. Len(t) \in Nat /\ i \in 0..Len(t)
    BY SequenceFacts
  <1>2. IsSequence(h) /\ Len(h) = i
    BY <1>1, HeadFacts
  <1>3. SubSeq(t, i, i) = c
    BY <1>1 DEF HasAt
  <1>4. SubSeq(h, i, i) = SubSeq(t, i, i)
    BY <1>1 DEF IsSequence
  <1> HIDE DEF h
  <1>5. EndsWith(h, c)
    BY <1>1, <1>2, <1>3, <1>4 DEF EndsWith, HasAt
  <1>6. QED BY <1>5 DEF h

LEMMA WithSlashEnds ==
    ASSUME NEW s, IsSequence(s) PROVE EndsWith(WithSlash(s), "/")
  <1>1. IsSequence("/")
    BY LiteralLengths, Zenon
  <1>2. EndsWith(s \o "/", "/")
    BY <1>1, JoinEnds, Zenon
  <1>3. QED BY <1>2 DEF WithSlash

\* The parent directory is a head of the path, up to a slash.
LEMMA ParentDir ==
    ASSUME NEW path, IsSequence(path)
    PROVE  \/ parent_dir(path) = ""
           \/ /\ IsSequence(parent_dir(path)) /\ StartsWith(path, parent_dir(path))
              /\ Len(parent_dir(path)) >= 2 /\ EndsWith(parent_dir(path), "/")
  <1> DEFINE trimmed == IF EndsWith(path, "/") THEN SubSeq(path, 1, Len(path) - 1) ELSE path
             S == {i \in 1..Len(trimmed) : HasAt(trimmed, i - 1, "/")} \cup {0}
             idx == Max(S)
  <1>1. IsSequence("/") /\ Len("/") = 1 /\ Len(path) \in Nat
    <2>1. IsSequence("/") /\ Len("/") = 1
      BY LiteralLengths, Zenon
    <2>2. Len(path) \in Nat
      BY DEF IsSequence
    <2>3. QED BY <2>1, <2>2, Zenon
  <1>2. IsSequence(trimmed) /\ StartsWith(path, trimmed)
    <2>1. CASE EndsWith(path, "/")
      <3>1. Len(path) - 1 \in 0..Len(path)
        <4>1. Len("/") <= Len(path)
          BY <2>1 DEF EndsWith
        <4>2. 1 <= Len(path)
          BY <1>1, <4>1, Zenon
        <4>3. Len(path) \in Nat
          BY <1>1, Zenon
        <4>4. QED BY <4>2, <4>3
      <3>2. QED BY <2>1, <3>1, HeadFacts, StartsHead
    <2>2. CASE ~EndsWith(path, "/")
      BY <2>2, StartsReflexive
    <2>3. QED BY <2>1, <2>2
  <1>3. parent_dir(path) = IF idx <= 1 THEN "" ELSE SubSeq(trimmed, 1, idx)
    BY DEF parent_dir
  <1> HIDE DEF trimmed
  <1>4. Len(trimmed) \in Nat
    BY <1>2 DEF IsSequence
  <1>5. S \in SUBSET (0..Len(trimmed)) /\ S # {}
    <2>1. 0 \in S
      OBVIOUS
    <2>2. \A i \in 1..Len(trimmed) : i \in 0..Len(trimmed)
      BY <1>4
    <2>3. 0 \in 0..Len(trimmed)
      BY <1>4
    <2>4. QED BY <2>1, <2>2, <2>3, Zenon
  <1>6. idx \in S
    <2>1. \E i \in S : \A j \in S : i >= j
      <3> HIDE DEF S
      <3>1. \E i \in S : \A j \in S : j <= i
        BY <1>4, <1>5, GreatestIndex
      <3>2. \A i, j \in S : j <= i => i >= j
        BY <1>5
      <3>3. QED BY <3>1, <3>2
    <2> HIDE DEF S
    <2>2. QED BY <2>1 DEF Max
  <1>7. idx \in 0..Len(trimmed)
    BY <1>5, <1>6
  <1>11. ~(idx <= 1) => idx \in 1..Len(trimmed) /\ HasAt(trimmed, idx - 1, "/")
    <2>1. ~(idx <= 1) => idx # 0
      BY <1>4, <1>7
    <2> HIDE DEF idx
    <2>2. QED BY <1>6, <2>1, Zenon
  <1> HIDE DEF idx
  <1>8. CASE idx <= 1
    BY <1>3, <1>8
  <1>9. CASE ~(idx <= 1)
    <2> DEFINE dir == SubSeq(trimmed, 1, idx)
    <2>1. parent_dir(path) = dir
      BY <1>3, <1>9
    <2>2. IsSequence(dir) /\ Len(dir) = idx /\ StartsWith(trimmed, dir)
      BY <1>2, <1>7, HeadFacts, StartsHead
    <2> HIDE DEF dir
    <2>3. StartsWith(path, dir)
      BY <1>2, <2>2, StartsTransitive
    <2>4. Len(dir) >= 2
      BY <1>4, <1>7, <1>9, <2>2
    <2>5. EndsWith(dir, "/")
      BY <1>1, <1>2, <1>9, <1>11, HeadEnds, Zenon DEF dir
    <2>6. QED BY <2>1, <2>2, <2>3, <2>4, <2>5
  <1>10. QED BY <1>8, <1>9

LEMMA TryClassify ==
    ASSUME NEW path
    PROVE  \/ try_classify(path) = "Regular"
           \/ try_classify(path) \in ProcClasses /\ StartsWith(path, "/proc/")
  <1>1. {ProcFiles[w] : w \in DOMAIN ProcFiles} \subseteq ProcClasses
    <2>1. {ProcFiles[w] : w \in DOMAIN ProcFiles} \subseteq
              {ProcWords[w] : w \in DOMAIN ProcWords} \cup {ProcWholeWords[w] : w \in DOMAIN ProcWholeWords}
      BY DEF ProcFiles, ProcWords, ProcWholeWords
    <2>2. QED BY <2>1 DEF ProcClasses
  <1>2. {ProcDirs[w] : w \in DOMAIN ProcDirs} \subseteq ProcClasses
    <2>1. {ProcDirs[w] : w \in DOMAIN ProcDirs} \subseteq
              {ProcWords[w] : w \in DOMAIN ProcWords} \cup {ProcWholeWords[w] : w \in DOMAIN ProcWholeWords}
      BY DEF ProcDirs, ProcWords, ProcWholeWords
    <2>2. QED BY <2>1 DEF ProcClasses
  <1>3. "ProcPidOther" \in ProcClasses
    BY DEF ProcClasses
  <1>4. QED BY <1>1, <1>2, <1>3 DEF try_classify

LEMMA GlobPattern ==
    ASSUME NEW glob, IsSequence(glob) PROVE IsPattern(glob_to_pattern(glob))
  <1> DEFINE known == {c \in KNOWN_PATTERNS : as_str[c] = glob}
  <1>1. CASE known # {}
    <2>1. glob_to_pattern(glob) = Classified(CHOOSE c \in known : TRUE)
      BY <1>1 DEF glob_to_pattern
    <2>2. (CHOOSE c \in known : TRUE) \in Classes
      BY <1>1 DEF KNOWN_PATTERNS
    <2>3. QED BY <2>1, <2>2 DEF IsPattern
  <1>2. CASE known = {}
    <2> DEFINE cut == Cut(glob, 2)
    <2>1. \/ glob_to_pattern(glob) = Exact(glob)
          \/ (EndsWith(glob, "**") \/ EndsWith(glob, "/*")) /\ glob_to_pattern(glob) = Prefix(EnsureSlash(cut))
      BY <1>2 DEF glob_to_pattern
    <2>2. ASSUME EndsWith(glob, "**") \/ EndsWith(glob, "/*") PROVE IsSequence(cut)
      <3>1. Len("**") = 2 /\ Len("/*") = 2 /\ Len(glob) \in Nat
        <4>1. Len("**") = 2 /\ Len("/*") = 2
          BY LiteralLengths, Zenon
        <4>2. Len(glob) \in Nat
          BY DEF IsSequence
        <4>3. QED BY <4>1, <4>2, Zenon
      <3>2. 2 <= Len(glob)
        BY <2>2, <3>1 DEF EndsWith
      <3>3. Len(glob) - 2 \in 0..Len(glob)
        BY <3>1, <3>2
      <3>4. QED BY <3>3, HeadFacts DEF Cut
    <2> HIDE DEF cut
    <2>3. QED BY <2>1, <2>2, WithSlashFacts DEF IsPattern
  <1>3. QED BY <1>1, <1>2

\* A rule whose path has a canonical form.
IsRawRule(r) ==
    /\ IsRule(r)
    /\ HasForm(r, "exact") \/ HasForm(r, "prefix") => IsSequence(canonicalize_path(r.object.pattern.key))

SameButPattern(q, r) == q.subject = r.subject /\ q.action = r.action /\ q.verdict = r.verdict

LEMMA FileForms ==
    ASSUME NEW r, IsRule(r), NEW form, HasForm(r, form)
    PROVE  IsFileRule(r) /\ r.object.pattern.form = form
  BY RuleIsFile DEF HasForm

LEMMA CanonicalRuleFacts ==
    ASSUME NEW r, IsRawRule(r)
    PROVE  LET q == CanonicalRule(r)
           IN  /\ IsRule(q) /\ SameButPattern(q, r) /\ (IsFileRule(r) => IsFileRule(q))
               /\ HasForm(r, "exact") => q.object.pattern = Exact(canonicalize_path(r.object.pattern.key))
               /\ HasForm(r, "prefix") => q.object.pattern = Prefix(canonicalize_prefix(r.object.pattern.key))
               /\ ~HasForm(r, "exact") /\ ~HasForm(r, "prefix") => q = r
  <1> DEFINE q == CanonicalRule(r)
             k == r.object.pattern.key
  <1>1. IsRule(r)
    BY DEF IsRawRule
  <1>2. CASE HasForm(r, "exact")
    <2>1. IsFileRule(r) /\ r.object.pattern.form = "exact" /\ IsSequence(canonicalize_path(k))
      BY <1>1, <1>2, FileForms DEF IsRawRule
    <2> DEFINE p == Exact(canonicalize_path(k))
    <2>2. IsPattern(p)
      BY <2>1 DEF IsPattern
    <2>3. q = WithPattern(r, p)
      BY <1>2 DEF CanonicalRule
    <2>4. ~HasForm(r, "prefix")
      BY <2>1 DEF HasForm
    <2> HIDE DEF p
    <2>5. /\ IsFileRule(q) /\ q.object.pattern = p
          /\ q.subject = r.subject /\ q.action = r.action /\ q.verdict = r.verdict
      BY <2>1, <2>2, <2>3, WithPatternFacts
    <2>6. QED BY <1>2, <2>4, <2>5 DEF p, IsRule, SameButPattern
  <1>3. CASE ~HasForm(r, "exact") /\ HasForm(r, "prefix")
    <2>1. IsFileRule(r) /\ r.object.pattern.form = "prefix" /\ IsSequence(canonicalize_path(k))
      BY <1>1, <1>3, FileForms DEF IsRawRule
    <2> DEFINE p == Prefix(canonicalize_prefix(k))
    <2>2. IsPattern(p)
      <3>1. IsSequence(canonicalize_prefix(k))
        BY <2>1, WithSlashFacts DEF canonicalize_prefix
      <3>2. QED BY <3>1 DEF IsPattern
    <2>3. q = WithPattern(r, p)
      BY <1>3 DEF CanonicalRule
    <2> HIDE DEF p
    <2>4. /\ IsFileRule(q) /\ q.object.pattern = p
          /\ q.subject = r.subject /\ q.action = r.action /\ q.verdict = r.verdict
      BY <2>1, <2>2, <2>3, WithPatternFacts
    <2>5. QED BY <1>3, <2>4 DEF p, IsRule, SameButPattern
  <1>4. CASE ~HasForm(r, "exact") /\ ~HasForm(r, "prefix")
    <2>1. q = r
      BY <1>4 DEF CanonicalRule
    <2>2. QED BY <1>1, <1>4, <2>1 DEF SameButPattern
  <1>5. QED BY <1>2, <1>3, <1>4

\* The path of r is filed under a class.
Filed(r) == HasForm(r, "exact") /\ try_classify(r.object.pattern.key) # "Regular"

LEMMA GeneralRuleFacts ==
    ASSUME NEW r, IsRule(r)
    PROVE  LET q == GeneralRule(r)
               c == try_classify(r.object.pattern.key)
           IN  /\ IsRule(q) /\ SameButPattern(q, r) /\ (IsFileRule(r) => IsFileRule(q))
               /\ Filed(r) => /\ q.object.pattern = Classified(c) /\ c \in ProcClasses
                              /\ StartsWith(r.object.pattern.key, "/proc/")
               /\ ~Filed(r) => q = r
  <1> DEFINE q == GeneralRule(r)
             c == try_classify(r.object.pattern.key)
  <1>1. CASE Filed(r)
    <2>1. IsFileRule(r) /\ c \in ProcClasses /\ StartsWith(r.object.pattern.key, "/proc/")
      BY <1>1, FileForms, TryClassify DEF Filed
    <2>2. IsPattern(Classified(c))
      BY <2>1, ProcClassesAre DEF IsPattern
    <2>3. q = WithPattern(r, Classified(c))
      BY <1>1 DEF GeneralRule, Filed
    <2>4. /\ IsFileRule(q) /\ q.object.pattern = Classified(c)
          /\ q.subject = r.subject /\ q.action = r.action /\ q.verdict = r.verdict
      BY <2>1, <2>2, <2>3, WithPatternFacts
    <2>5. QED BY <1>1, <2>1, <2>4 DEF IsRule, SameButPattern
  <1>2. CASE ~Filed(r)
    <2>1. q = r
      BY <1>2 DEF GeneralRule, Filed
    <2>2. QED BY <1>2, <2>1 DEF SameButPattern
  <1>3. QED BY <1>1, <1>2

-----------------------------------------------------------------------------
(* What the passes do to the set of rules. *)

LEMMA MappedSequence ==
    ASSUME NEW s, IsSequence(s), NEW t, t = [i \in DOMAIN s |-> t[i]]
    PROVE  IsSequence(t) /\ DOMAIN t = DOMAIN s
  <1>1. Len(s) \in Nat /\ DOMAIN s = 1..Len(s)
    BY SequenceFacts
  <1>2. t = [i \in 1..Len(s) |-> t[i]]
    BY <1>1
  <1>3. QED BY <1>1, <1>2, MadeSequence

LEMMA CanonicalizeFacts ==
    ASSUME NEW s, IsSequence(s)
    PROVE  /\ IsSequence(Canonicalize(s))
           /\ ToSet(Canonicalize(s)) = {CanonicalRule(r) : r \in ToSet(s)}
  <1> DEFINE t == Canonicalize(s)
  <1>1. t = [i \in DOMAIN s |-> t[i]] /\ \A i \in DOMAIN s : t[i] = CanonicalRule(s[i])
    BY DEF Canonicalize
  <1> HIDE DEF t
  <1>2. IsSequence(t) /\ DOMAIN t = DOMAIN s
    BY <1>1, MappedSequence
  <1>3. ToSet(t) = {CanonicalRule(r) : r \in ToSet(s)}
    BY <1>1, <1>2 DEF ToSet
  <1>4. QED BY <1>2, <1>3 DEF t

LEMMA GeneralizeFacts ==
    ASSUME NEW s, IsSequence(s)
    PROVE  /\ IsSequence(Generalize(s))
           /\ ToSet(Generalize(s)) = {GeneralRule(r) : r \in ToSet(s)}
  <1> DEFINE t == Generalize(s)
  <1>1. t = [i \in DOMAIN s |-> t[i]] /\ \A i \in DOMAIN s : t[i] = GeneralRule(s[i])
    BY DEF Generalize
  <1> HIDE DEF t
  <1>2. IsSequence(t) /\ DOMAIN t = DOMAIN s
    BY <1>1, MappedSequence
  <1>3. ToSet(t) = {GeneralRule(r) : r \in ToSet(s)}
    BY <1>1, <1>2 DEF ToSet
  <1>4. QED BY <1>2, <1>3 DEF t

\* One rule of each signature is left.
LEMMA DedupFacts ==
    ASSUME NEW s, IsSequence(s), NEW t \in Dedup(s)
    PROVE  /\ IsSequence(t) /\ ToSet(t) \subseteq ToSet(s)
           /\ \A r \in ToSet(s) : \E q \in ToSet(t) : signature(q) = signature(r)
           /\ \A q, r \in ToSet(t) : signature(q) = signature(r) => q = r
  <1> DEFINE I == {i \in DOMAIN s : \A j \in 1..(i - 1) : signature(s[j]) # signature(s[i])}
             S == FirstOfSignature(s)
  <1>1. Len(s) \in Nat /\ DOMAIN s = 1..Len(s)
    BY SequenceFacts
  <1>2. S = {s[i] : i \in I} /\ S \subseteq ToSet(s)
    BY DEF FirstOfSignature, ToSet
  <1>3. IsFiniteSet(S)
    BY <1>2, FiniteElements, FS_Subset
  <1>4. IsSequence(t) /\ ToSet(t) = S
    BY <1>3, OrderFacts DEF Dedup
  <1>5. ASSUME NEW r \in ToSet(s) PROVE \E q \in S : signature(q) = signature(r)
    <2> DEFINE J == {i \in DOMAIN s : signature(s[i]) = signature(r)}
    <2>1. J # {} /\ J \in SUBSET Nat
      BY <1>1 DEF ToSet
    <2>2. PICK i \in J : \A j \in J : i <= j
      <3> HIDE DEF J
      <3>1. QED BY <2>1, LeastIndex
    <2>3. i \in DOMAIN s /\ signature(s[i]) = signature(r) /\ i \in Nat
      BY <1>1, <2>2
    <2>4. ASSUME NEW j \in 1..(i - 1) PROVE signature(s[j]) # signature(s[i])
      <3>1. j \in DOMAIN s /\ ~(i <= j)
        BY <1>1, <2>3
      <3>2. QED BY <2>2, <2>3, <3>1
    <2>5. i \in I
      BY <2>3, <2>4
    <2> HIDE DEF S, I
    <2>6. QED BY <1>2, <2>3, <2>5
  <1>6. ASSUME NEW q \in S, NEW r \in S, signature(q) = signature(r) PROVE q = r
    <2>1. PICK i \in I : q = s[i]
      BY <1>2
    <2>2. PICK j \in I : r = s[j]
      BY <1>2
    <2>3. i \in 1..Len(s) /\ j \in 1..Len(s)
      BY <1>1
    <2>4. ~(i < j)
      <3>1. i < j => i \in 1..(j - 1)
        BY <1>1, <2>3
      <3>2. QED BY <1>6, <2>1, <2>2, <3>1
    <2>5. ~(j < i)
      <3>1. j < i => j \in 1..(i - 1)
        BY <1>1, <2>3
      <3>2. QED BY <1>6, <2>1, <2>2, <3>1
    <2>6. i = j
      BY <1>1, <2>3, <2>4, <2>5
    <2>7. QED BY <2>1, <2>2, <2>6
  <1> HIDE DEF S
  <1>7. QED BY <1>2, <1>4, <1>5, <1>6

\* The rule for the directory of a bucket.
FoldedRule(b) == NewRule(b.subject, File(Prefix(b.dir), FALSE), b.action, b.verdict)

\* A rule that may be folded.
Foldable(r) == HasForm(r, "exact") /\ ~r.object.is_sensitive /\ parent_dir(r.object.pattern.key) # ""

LEMMA BucketFacts ==
    ASSUME NEW r
    PROVE  /\ Bucket(r).subject = r.subject /\ Bucket(r).action = r.action /\ Bucket(r).verdict = r.verdict
           /\ Bucket(r).dir = parent_dir(r.object.pattern.key)
  BY DEF Bucket

LEMMA PrefixGeneralizeFacts ==
    ASSUME NEW s, IsSequence(s), NEW t \in PrefixGeneralize(s)
    PROVE  /\ IsSequence(t)
           /\ \A r \in ToSet(t) : r \in ToSet(s) \/ \E b \in Collapsed(s) : r = FoldedRule(b)
           /\ \A b \in Collapsed(s) : FoldedRule(b) \in ToSet(t)
           /\ \A r \in ToSet(s) : r \in ToSet(t) \/ (Foldable(r) /\ Bucket(r) \in Collapsed(s))
           /\ \A b \in Collapsed(s) : Collapses(s, b) /\ \E r \in ToSet(s) : Foldable(r) /\ b = Bucket(r)
  <1> DEFINE gone == UNION {Members(s, b) : b \in Collapsed(s)}
             left == Kept(s, DOMAIN s \ gone)
             new == {FoldedRule(b) : b \in Collapsed(s)}
             f == [i \in DOMAIN s |-> FoldedRule(Bucket(s[i]))]
  <1>1. PICK order \in SetToSeqs(new) : t = left \o order
    BY DEF PrefixGeneralize, FoldedRule
  <1>2. IsSequence(left) /\ ToSet(left) = {s[i] : i \in DOMAIN s \ gone}
    <2> HIDE DEF gone
    <2>1. QED BY KeptFacts
  <1>3. IsFiniteSet(new)
    <2>1. new \subseteq {f[i] : i \in DOMAIN s}
      BY DEF Collapsed, Candidates
    <2>2. IsFiniteSet({f[i] : i \in DOMAIN s})
      <3> HIDE DEF f
      <3>1. QED BY FiniteElements, FiniteImage
    <2> HIDE DEF new, f
    <2>3. QED BY <2>1, <2>2, FS_Subset
  <1>4. IsSequence(order) /\ ToSet(order) = new
    BY <1>3, OrderFacts
  <1> HIDE DEF left, new
  <1>5. IsSequence(t) /\ ToSet(t) = ToSet(left) \cup new
    BY <1>1, <1>2, <1>4, JoinFacts, JoinElements
  <1>6. ASSUME NEW i \in gone PROVE i \in DOMAIN s /\ Foldable(s[i]) /\ Bucket(s[i]) \in Collapsed(s)
    BY DEF Members, Candidates, Foldable
  <1> HIDE DEF gone
  <1>7. \A r \in ToSet(s) : r \in ToSet(t) \/ (Foldable(r) /\ Bucket(r) \in Collapsed(s))
    BY <1>2, <1>5, <1>6 DEF ToSet
  <1>8. \A b \in Collapsed(s) : Collapses(s, b) /\ \E r \in ToSet(s) : Foldable(r) /\ b = Bucket(r)
    BY DEF Collapsed, Candidates, Foldable, ToSet
  <1>9. \A r \in ToSet(t) : r \in ToSet(s) \/ \E b \in Collapsed(s) : r = FoldedRule(b)
    BY <1>2, <1>5 DEF new, ToSet
  <1>10. \A b \in Collapsed(s) : FoldedRule(b) \in ToSet(t)
    BY <1>5 DEF new
  <1>11. QED BY <1>5, <1>7, <1>8, <1>9, <1>10

\* A rule that makes another one redundant.
Broader(q, r) ==
    /\ q.subject = r.subject /\ q.action = r.action /\ q.verdict = r.verdict
    /\ object_subsumed(r.object, q.object)

LEMMA SubsumeFacts ==
    ASSUME NEW s, IsSequence(s)
    PROVE  /\ IsSequence(Subsume(s)) /\ ToSet(Subsume(s)) \subseteq ToSet(s)
           /\ \A r \in ToSet(s) : r \in ToSet(Subsume(s)) \/ \E q \in ToSet(s) : Broader(q, r)
           /\ \A r \in ToSet(Subsume(s)), q \in ToSet(s) : ~Broader(q, r)
  <1> DEFINE S == {i \in DOMAIN s : ~Subsumed(s, i)}
  <1>1. IsSequence(Subsume(s)) /\ ToSet(Subsume(s)) = {s[i] : i \in S}
    BY KeptFacts DEF Subsume
  <1>2. \A i \in DOMAIN s : Subsumed(s, i) <=> \E q \in ToSet(s) : Broader(q, s[i])
    BY DEF Subsumed, Broader, ToSet
  <1>3. \A r \in ToSet(s) : r \in ToSet(Subsume(s)) \/ \E q \in ToSet(s) : Broader(q, r)
    BY <1>1, <1>2 DEF ToSet
  <1>4. QED BY <1>1, <1>2, <1>3 DEF ToSet

-----------------------------------------------------------------------------
(* The frontends and the backend. *)

IsLine(l) == l.section = "network" \/ (l.section \in {"file", "exec"} /\ IsSequence(l.glob))

LEMMA TailFacts ==
    ASSUME NEW s, IsSequence(s), Len(s) >= 1 PROVE IsSequence(SubSeq(s, 2, Len(s)))
  BY DEF IsSequence

\* The name a line gives is a string.
LEMMA SplitFacts ==
    ASSUME NEW l, IsSequence(l.glob) PROVE IsSequence(split_path_perms(l).path)
  <1> DEFINE text   == IF l.quoted THEN l.glob ELSE SubSeq(l.glob, 2, Len(l.glob))
             quotes == {i \in 1..Len(text) : SubSeq(text, i, i) = Quote}
             end    == CHOOSE i \in quotes : \A j \in quotes : i <= j
  <1>1. CASE ~l.quoted /\ ~StartsWith(l.glob, Quote)
    BY <1>1 DEF split_path_perms
  <1>2. CASE ~(~l.quoted /\ ~StartsWith(l.glob, Quote))
    <2>1. IsSequence(text)
      <3>1. CASE l.quoted
        BY <3>1
      <3>2. CASE ~l.quoted
        <4>1. Len(l.glob) >= 1
          <5>1. 0 + Len(Quote) <= Len(l.glob) /\ Len(Quote) = 1
            BY <1>2, <3>2, KeywordAssumption DEF StartsWith, HasAt
          <5> HIDE DEF Quote
          <5>2. QED BY <5>1 DEF IsSequence
        <4>2. QED BY <3>2, <4>1, TailFacts
      <3>3. QED BY <3>1, <3>2
    <2>2. split_path_perms(l).path = IF quotes # {} THEN SubSeq(text, 1, end - 1) ELSE text
      <3> DEFINE first  == SubSeq(text, 1, end - 1)
                 more   == l.perms \cup Chars(SubSeq(text, end + 1, Len(text)))
                 others == IF l.quoted THEN l.perms ELSE {}
      <3>1. split_path_perms(l) = IF quotes # {} THEN [path |-> first, perms |-> more]
                                  ELSE [path |-> text, perms |-> others]
        BY <1>2, Zenon DEF split_path_perms
      <3> HIDE DEF first, more, others, text, quotes, end
      <3>2. split_path_perms(l).path = IF quotes # {} THEN first ELSE text
        BY <3>1
      <3>3. QED BY <3>2 DEF first
    <2> HIDE DEF text
    <2>3. CASE quotes # {}
      <3>1. quotes \in SUBSET Nat
        OBVIOUS
      <3>2. end \in quotes
        <4> HIDE DEF quotes
        <4>1. \E i \in quotes : \A j \in quotes : i <= j
          BY <2>3, <3>1, LeastIndex
        <4>2. QED BY <4>1
      <3>3. end \in 1..Len(text)
        <4> HIDE DEF end
        <4>1. QED BY <3>2
      <3> HIDE DEF quotes, end
      <3>4. end - 1 \in 0..Len(text)
        BY <2>1, <3>3 DEF IsSequence
      <3>5. QED BY <2>1, <2>2, <2>3, <3>4, HeadFacts
    <2>4. CASE quotes = {}
      BY <2>1, <2>2, <2>4
    <2>5. QED BY <2>3, <2>4
  <1>3. QED BY <1>1, <1>2

\* The rules of a line, without their order.
PathOf(l) == split_path_perms(l).path
PermsOf(l) == split_path_perms(l).perms
ExecOf(l) == Imported(Process(PathOf(l)), "ProcExec", l.deny)
FileOf(l, action) == Imported(File(glob_to_pattern(PathOf(l)), FALSE), action, l.deny)
ProtocolOf(l) ==
    IF l.section # "network" THEN NoAddr
    ELSE IF l.type = "stream" THEN 6 ELSE IF l.type = "dgram" THEN 17 ELSE NoAddr
NetOf(l) ==
    Imported(IF l.section = "network" THEN Network(l.ip, l.port, ProtocolOf(l))
             ELSE Network(NoAddr, NoAddr, NoAddr), "NetConnect", l.deny)

NameLine(l) == l.section # "network" /\ ~SkippedLine(l)
NetworkLine(l) == l.section = "network" \/ (NameLine(l) /\ ~l.quoted /\ StartsWith(l.glob, "network"))

LineRules(l) ==
    IF NetworkLine(l) THEN {NetOf(l)}
    ELSE IF ~NameLine(l) THEN {}
    ELSE (IF "x" \in PermsOf(l) THEN {ExecOf(l)} ELSE {})
            \cup (IF PermsOf(l) \cap {"w", "a"} # {} THEN {FileOf(l, "FileWrite")} ELSE {})
            \cup (IF "r" \in PermsOf(l) THEN {FileOf(l, "FileRead")} ELSE {})

LEMMA LineCases ==
    ASSUME NEW l
    PROVE  /\ NetworkLine(l) => ParsedLine(l) = <<NetOf(l)>>
           /\ ~NetworkLine(l) /\ ~NameLine(l) => ParsedLine(l) = <<>>
           /\ ~NetworkLine(l) /\ NameLine(l) =>
                 ParsedLine(l) = (IF "x" \in PermsOf(l) THEN <<ExecOf(l)>> ELSE <<>>)
                    \o (IF PermsOf(l) \cap {"w", "a"} # {} THEN <<FileOf(l, "FileWrite")>> ELSE <<>>)
                    \o (IF "r" \in PermsOf(l) THEN <<FileOf(l, "FileRead")>> ELSE <<>>)
  <1>1. CASE l.section = "network"
    BY <1>1 DEF NetworkLine, ParsedLine, parse_network, NetOf, ProtocolOf
  <1>2. CASE l.section # "network" /\ SkippedLine(l)
    <2>1. ~NetworkLine(l) /\ ~NameLine(l)
      BY <1>2 DEF NetworkLine, NameLine
    <2>2. ParsedLine(l) = <<>>
      BY <1>2 DEF ParsedLine
    <2>3. QED BY <2>1, <2>2
  <1>3. CASE l.section # "network" /\ ~SkippedLine(l) /\ ~l.quoted /\ StartsWith(l.glob, "network")
    <2>1. NetworkLine(l)
      BY <1>3 DEF NetworkLine, NameLine
    <2>2. ParsedLine(l) = parse_network(l, "none", NoAddr, NoAddr)
      BY <1>3 DEF ParsedLine
    <2>3. ParsedLine(l) = <<NetOf(l)>>
      BY <1>3, <2>2 DEF parse_network, NetOf, ProtocolOf
    <2>4. QED BY <2>1, <2>3
  <1>4. CASE l.section # "network" /\ ~SkippedLine(l) /\ ~(~l.quoted /\ StartsWith(l.glob, "network"))
    <2>1. ~NetworkLine(l) /\ NameLine(l)
      BY <1>4 DEF NetworkLine, NameLine
    <2>2. ParsedLine(l) = (IF "x" \in PermsOf(l) THEN <<ExecOf(l)>> ELSE <<>>)
             \o (IF PermsOf(l) \cap {"w", "a"} # {} THEN <<FileOf(l, "FileWrite")>> ELSE <<>>)
             \o (IF "r" \in PermsOf(l) THEN <<FileOf(l, "FileRead")>> ELSE <<>>)
      BY <1>4 DEF ParsedLine, PermsOf, ExecOf, FileOf, PathOf
    <2>3. QED BY <2>1, <2>2
  <1>5. QED BY <1>1, <1>2, <1>3, <1>4

LEMMA LineRulesAre ==
    ASSUME NEW l PROVE IsSequence(ParsedLine(l)) /\ ToSet(ParsedLine(l)) = LineRules(l)
  <1>1. CASE NetworkLine(l)
    <2>1. ParsedLine(l) = <<NetOf(l)>> /\ LineRules(l) = {NetOf(l)}
      BY <1>1, LineCases DEF LineRules
    <2>2. QED BY <2>1, SingleFacts
  <1>2. CASE ~NetworkLine(l) /\ ~NameLine(l)
    <2>1. ParsedLine(l) = <<>> /\ LineRules(l) = {}
      BY <1>2, LineCases DEF LineRules
    <2>2. QED BY <2>1, EmptyFacts
  <1>3. CASE ~NetworkLine(l) /\ NameLine(l)
    <2> DEFINE s1 == IF "x" \in PermsOf(l) THEN <<ExecOf(l)>> ELSE <<>>
               s2 == IF PermsOf(l) \cap {"w", "a"} # {} THEN <<FileOf(l, "FileWrite")>> ELSE <<>>
               s3 == IF "r" \in PermsOf(l) THEN <<FileOf(l, "FileRead")>> ELSE <<>>
               t1 == IF "x" \in PermsOf(l) THEN {ExecOf(l)} ELSE {}
               t2 == IF PermsOf(l) \cap {"w", "a"} # {} THEN {FileOf(l, "FileWrite")} ELSE {}
               t3 == IF "r" \in PermsOf(l) THEN {FileOf(l, "FileRead")} ELSE {}
    <2>1. ParsedLine(l) = s1 \o s2 \o s3
      BY <1>3, LineCases
    <2>2. LineRules(l) = t1 \cup t2 \cup t3
      BY <1>3 DEF LineRules
    <2>3. IsSequence(s1) /\ ToSet(s1) = t1
      BY SingleFacts, EmptyFacts
    <2>4. IsSequence(s2) /\ ToSet(s2) = t2
      BY SingleFacts, EmptyFacts
    <2>5. IsSequence(s3) /\ ToSet(s3) = t3
      BY SingleFacts, EmptyFacts
    <2> HIDE DEF s1, s2, s3, t1, t2, t3
    <2> DEFINE s12 == s1 \o s2
    <2>6. IsSequence(s12) /\ ToSet(s12) = t1 \cup t2
      BY <2>3, <2>4, JoinFacts, JoinElements
    <2>7. ParsedLine(l) = s12 \o s3
      BY <2>1
    <2> HIDE DEF s12
    <2>8. IsSequence(ParsedLine(l)) /\ ToSet(ParsedLine(l)) = t1 \cup t2 \cup t3
      BY <2>5, <2>6, <2>7, JoinFacts, JoinElements
    <2>9. QED BY <2>2, <2>8
  <1>4. QED BY <1>1, <1>2, <1>3

LEMMA FileOfFacts ==
    ASSUME NEW l, IsSequence(PathOf(l)), NEW a \in FileActions
    PROVE  LET w == FileOf(l, a)
           IN  /\ IsFileRule(w) /\ w.subject = EmptySubject
               /\ w.object.pattern = glob_to_pattern(PathOf(l)) /\ ~w.object.is_sensitive
  <1> DEFINE v == IF l.deny THEN "Deny" ELSE "Allow"
             p == glob_to_pattern(PathOf(l))
             no == FALSE
             w == FileOf(l, a)
  <1>1. v \in Verdicts /\ IsPattern(p) /\ no \in BOOLEAN /\ ~no
    BY GlobPattern DEF Verdicts
  <1>2. w = NewRule(EmptySubject, File(p, no), a, v)
    BY DEF FileOf, Imported
  <1> HIDE DEF p, v, w, no
  <1>3. /\ IsFileRule(w) /\ w.subject = EmptySubject
        /\ w.object.pattern = p /\ w.object.is_sensitive = no
    BY <1>1, <1>2, FileRuleMade
  <1>4. QED BY <1>1, <1>3 DEF p, w

LEMMA ParsedLineFacts ==
    ASSUME NEW l, IsLine(l)
    PROVE  /\ IsSequence(ParsedLine(l))
           /\ \A r \in ToSet(ParsedLine(l)) :
                 /\ IsRule(r) /\ r.subject = EmptySubject
                 /\ IsFileRule(r) => /\ l.section # "network" /\ IsSequence(PathOf(l))
                                     /\ r.object.pattern = glob_to_pattern(PathOf(l))
                                     /\ ~r.object.is_sensitive
  <1> SUFFICES ASSUME NEW r \in LineRules(l)
               PROVE  /\ IsRule(r) /\ r.subject = EmptySubject
                      /\ IsFileRule(r) => /\ l.section # "network" /\ IsSequence(PathOf(l))
                                          /\ r.object.pattern = glob_to_pattern(PathOf(l))
                                          /\ ~r.object.is_sensitive
    BY LineRulesAre
  <1> DEFINE v == IF l.deny THEN "Deny" ELSE "Allow"
  <1>1. v \in Verdicts
    BY DEF Verdicts
  <1>2. CASE NetworkLine(l)
    <2>1. PICK ip, port, protocol : r = Imported(Network(ip, port, protocol), "NetConnect", l.deny)
      BY <1>2 DEF LineRules, NetOf
    <2>2. IsNetworkRule(r) /\ r.subject = EmptySubject
      BY <1>1, <2>1, NetworkRuleMade DEF Imported
    <2>3. QED BY <2>2, RuleKinds DEF IsRule
  <1>3. CASE ~NetworkLine(l)
    <2>1. l.section # "network" /\ IsSequence(PathOf(l))
      BY <1>3, SplitFacts DEF IsLine, NetworkLine, PathOf
    <2>2. r \in {ExecOf(l), FileOf(l, "FileWrite"), FileOf(l, "FileRead")}
      BY <1>3 DEF LineRules
    <2>3. CASE r = ExecOf(l)
      <3>1. IsProcessRule(r) /\ r.subject = EmptySubject
        BY <1>1, <2>1, <2>3, ProcessRuleMade DEF ExecOf, Imported
      <3>2. QED BY <3>1, RuleKinds DEF IsRule
    <2>4. CASE \E a \in FileActions : r = FileOf(l, a)
      BY <2>1, <2>4, FileOfFacts DEF IsRule
    <2>5. QED BY <2>2, <2>3, <2>4 DEF FileActions
  <1>4. QED BY <1>2, <1>3

LEMMA ParseFacts ==
    ASSUME NEW ls, IsSequence(ls), \A i \in DOMAIN ls : IsLine(ls[i])
    PROVE  /\ AreRules(parse_apparmor(ls))
           /\ \A r \in ToSet(parse_apparmor(ls)) : \E i \in DOMAIN ls : r \in ToSet(ParsedLine(ls[i]))
           /\ \A i \in DOMAIN ls : ToSet(ParsedLine(ls[i])) \subseteq ToSet(parse_apparmor(ls))
  <1> DEFINE seqs == [i \in DOMAIN ls |-> ParsedLine(ls[i])]
  <1>1. seqs = [i \in DOMAIN ls |-> seqs[i]] /\ \A i \in DOMAIN ls : seqs[i] = ParsedLine(ls[i])
    OBVIOUS
  <1>2. parse_apparmor(ls) = FlattenSeq(seqs)
    BY DEF parse_apparmor
  <1> HIDE DEF seqs
  <1>3. IsSequence(seqs) /\ DOMAIN seqs = DOMAIN ls
    BY <1>1, MappedSequence
  <1>4. \A i \in DOMAIN seqs : IsSequence(seqs[i])
    BY <1>1, <1>3, ParsedLineFacts
  <1>5. /\ IsSequence(parse_apparmor(ls))
        /\ ToSet(parse_apparmor(ls)) = UNION {ToSet(seqs[i]) : i \in DOMAIN seqs}
    BY <1>2, <1>3, <1>4, FlattenFacts
  <1>6. \A r \in ToSet(parse_apparmor(ls)) : \E i \in DOMAIN ls : r \in ToSet(ParsedLine(ls[i]))
    BY <1>1, <1>3, <1>5
  <1>7. \A r \in ToSet(parse_apparmor(ls)) : IsRule(r)
    BY <1>6, ParsedLineFacts
  <1>8. \A i \in DOMAIN ls : ToSet(ParsedLine(ls[i])) \subseteq ToSet(parse_apparmor(ls))
    BY <1>1, <1>3, <1>5
  <1>9. QED BY <1>5, <1>6, <1>7, <1>8 DEF AreRules

\* What a recorded profile contains.
IsLearnedRule(r) ==
    /\ IsRule(r) /\ r.verdict = "Allow"
    /\ IsFileRule(r) =>
          \/ /\ r.object.pattern.form = "exact" /\ r.object.pattern.key \in Paths
             /\ Class[r.object.pattern.key] = "Regular" /\ ~r.object.is_sensitive
          \/ r.object.pattern.form = "class" /\ r.object.pattern.key # "Regular"

IsEvent(e) ==
    \/ e.module = "fs" /\ e.path \in Paths
    \/ e.module = "network" /\ e.ip # NoAddr
    \/ e.module = "process" /\ IsSequence(e.path)

LEMMA TranslatedFacts ==
    ASSUME NEW e, IsEvent(e) PROVE IsLearnedRule(TranslatedEvent(e))
  <1>0. "Allow" \in Verdicts
    BY DEF Verdicts
  <1>1. CASE e.module = "fs"
    <2> DEFINE class == Class[e.path]
               p == IF class = "Regular" THEN Exact(e.path) ELSE Classified(class)
               b == class \in SensitiveClasses
               a == IF e.r_w = "write" THEN "FileWrite" ELSE "FileRead"
               v == "Allow"
               r == TranslatedEvent(e)
    <2>1. r = NewRule(e.subject, File(p, b), a, v)
      BY <1>1 DEF TranslatedEvent
    <2>2. e.path \in Paths /\ IsSequence(e.path) /\ class \in Classes
      BY <1>1, PathAssumption, ClassRoot DEF IsEvent
    <2>3. IsPattern(p)
      BY <2>2 DEF IsPattern
    <2>4. \/ p.form = "exact" /\ p.key \in Paths /\ Class[p.key] = "Regular" /\ ~b
          \/ p.form = "class" /\ p.key # "Regular"
      BY <2>2 DEF Exact, Classified, SensitiveClasses
    <2>5. b \in BOOLEAN /\ a \in FileActions /\ v \in Verdicts
      BY DEF FileActions, Verdicts
    <2>6. v = "Allow"
      OBVIOUS
    <2> HIDE DEF p, b, a, r, v
    <2>7. IsFileRule(r) /\ r.object.pattern = p /\ r.verdict = v /\ r.object.is_sensitive = b
      BY <2>1, <2>3, <2>5, FileRuleMade
    <2>8. QED BY <2>4, <2>6, <2>7 DEF IsLearnedRule, IsRule, r
  <1>2. CASE e.module = "network"
    <2> DEFINE a == IF e.outgoing THEN "NetConnect" ELSE "NetBind"
               r == TranslatedEvent(e)
    <2>1. r = NewRule(e.subject, Network(e.ip, e.port, e.protocol), a, "Allow")
      BY <1>2 DEF TranslatedEvent
    <2>2. a \in {"NetConnect", "NetBind"}
      OBVIOUS
    <2> HIDE DEF a, r
    <2>3. IsNetworkRule(r) /\ r.verdict = "Allow"
      BY <1>0, <2>1, <2>2, NetworkRuleMade
    <2>4. QED BY <2>3, RuleKinds DEF IsLearnedRule, IsRule, r
  <1>3. CASE e.module = "process"
    <2> DEFINE a == IF e.execve THEN "ProcExec" ELSE "ProcFork"
               r == TranslatedEvent(e)
    <2>1. r = NewRule(e.subject, Process(e.path), a, "Allow")
      BY <1>3 DEF TranslatedEvent
    <2>2. a \in {"ProcExec", "ProcFork"} /\ IsSequence(e.path)
      BY <1>3 DEF IsEvent
    <2> HIDE DEF a, r
    <2>3. IsProcessRule(r) /\ r.verdict = "Allow"
      BY <1>0, <2>1, <2>2, ProcessRuleMade
    <2>4. QED BY <2>3, RuleKinds DEF IsLearnedRule, IsRule, r
  <1>4. QED BY <1>1, <1>2, <1>3 DEF IsEvent

\* No frontend makes an open rule or a rule for regular files at large, and a
\* network rule without an address is a connect rule for TCP, UDP or neither.
FrontendRule(r) ==
    /\ r.action # "FileOpen"
    /\ HasForm(r, "class") => r.object.pattern.key # "Regular"
    /\ IsNetworkRule(r) /\ r.object.ip = NoAddr
          => r.action = "NetConnect" /\ r.object.protocol \in {6, 17, NoAddr}

LEMMA NetworkParts ==
    ASSUME NEW x, NEW ip, NEW port, NEW protocol, NEW a, NEW v
    PROVE  LET r == NewRule(x, Network(ip, port, protocol), a, v)
           IN  r.object.ip = ip /\ r.object.protocol = protocol /\ r.action = a
  BY DEF NewRule, Network

LEMMA TranslatedFrontend ==
    ASSUME NEW e, IsEvent(e) PROVE FrontendRule(TranslatedEvent(e))
  <1> DEFINE r == TranslatedEvent(e)
  <1>1. IsLearnedRule(r)
    BY TranslatedFacts
  <1>2. ASSUME HasForm(r, "class") PROVE r.object.pattern.key # "Regular"
    BY <1>1, <1>2, FileForms DEF IsLearnedRule
  <1>3. CASE e.module = "fs"
    <2>1. r.action \in {"FileWrite", "FileRead"}
      BY <1>3 DEF TranslatedEvent, NewRule
    <2>2. ~IsNetworkRule(r)
      BY <2>1 DEF IsNetworkRule
    <2> HIDE DEF r
    <2>3. QED BY <1>2, <2>1, <2>2 DEF FrontendRule, r
  <1>4. CASE e.module = "network"
    <2> DEFINE a == IF e.outgoing THEN "NetConnect" ELSE "NetBind"
    <2>1. r = NewRule(e.subject, Network(e.ip, e.port, e.protocol), a, "Allow")
      BY <1>4 DEF TranslatedEvent
    <2>2. a # "FileOpen" /\ e.ip # NoAddr
      BY <1>4 DEF IsEvent
    <2> HIDE DEF a, r
    <2>3. r.action = a /\ r.object.ip = e.ip
      BY <2>1, NetworkParts
    <2>4. QED BY <1>2, <2>2, <2>3 DEF FrontendRule, r
  <1>5. CASE e.module = "process"
    <2>1. r.action \in {"ProcExec", "ProcFork"}
      BY <1>5 DEF TranslatedEvent, NewRule
    <2>2. ~IsNetworkRule(r)
      BY <2>1 DEF IsNetworkRule
    <2> HIDE DEF r
    <2>3. QED BY <1>2, <2>1, <2>2 DEF FrontendRule, r
  <1>6. QED BY <1>3, <1>4, <1>5 DEF IsEvent

LEMMA TranslateFacts ==
    ASSUME NEW profile \in Profiles
    PROVE  /\ IsSequence(translate_all_events(profile))
           /\ \A r \in ToSet(translate_all_events(profile)) : IsLearnedRule(r) /\ FrontendRule(r)
  <1> DEFINE of(m) == Kept(profile, {i \in DOMAIN profile : profile[i].module = m})
             fs == of("fs")
             net == of("network")
             proc == of("process")
             all == fs \o net \o proc
             t == translate_all_events(profile)
  <1>1. IsSequence(profile) /\ \A i \in DOMAIN profile : IsEvent(profile[i])
    BY ProfileAssumption DEF IsEvent
  <1>2. ASSUME NEW m PROVE IsSequence(of(m)) /\ \A e \in ToSet(of(m)) : IsEvent(e)
    <2>1. IsSequence(of(m)) /\ ToSet(of(m)) = {profile[i] : i \in {i \in DOMAIN profile : profile[i].module = m}}
      BY <1>1, KeptFacts
    <2>2. QED BY <1>1, <2>1
  <1>3. t = [i \in DOMAIN all |-> TranslatedEvent(all[i])]
    BY DEF translate_all_events
  <1>4. /\ IsSequence(fs) /\ IsSequence(net) /\ IsSequence(proc)
        /\ \A e \in ToSet(fs) \cup ToSet(net) \cup ToSet(proc) : IsEvent(e)
    BY <1>2
  <1> HIDE DEF fs, net, proc
  <1> DEFINE front == fs \o net
  <1>5. IsSequence(front) /\ ToSet(front) = ToSet(fs) \cup ToSet(net)
    BY <1>4, JoinFacts, JoinElements
  <1>6. all = front \o proc
    OBVIOUS
  <1> HIDE DEF front, all
  <1>7. IsSequence(all) /\ ToSet(all) = ToSet(front) \cup ToSet(proc)
    BY <1>4, <1>5, <1>6, JoinFacts, JoinElements
  <1>8. \A i \in DOMAIN all : IsEvent(all[i])
    BY <1>4, <1>5, <1>7 DEF ToSet
  <1> HIDE DEF t
  <1>9. t = [i \in DOMAIN all |-> t[i]] /\ \A i \in DOMAIN all : t[i] = TranslatedEvent(all[i])
    BY <1>3
  <1>10. IsSequence(t) /\ DOMAIN t = DOMAIN all
    BY <1>7, <1>9, MappedSequence
  <1>11. \A r \in ToSet(t) : IsLearnedRule(r) /\ FrontendRule(r)
    BY <1>8, <1>9, <1>10, TranslatedFacts, TranslatedFrontend DEF ToSet
  <1>12. QED BY <1>10, <1>11 DEF t

LEMMA GlobFacts ==
    ASSUME NEW p, IsPattern(p), file_glob(p).loss # "Dropped" PROVE IsSequence(file_glob(p).glob)
  <1>1. CASE p.form = "exact"
    <2>1. file_glob(p).glob = p.key
      BY <1>1 DEF file_glob
    <2>2. QED BY <1>1, <2>1, PatternForms
  <1>2. CASE p.form = "prefix"
    <2>1. file_glob(p).glob = p.key \o "**"
      BY <1>2 DEF file_glob
    <2>2. IsSequence("**") /\ IsSequence(p.key)
      BY <1>2, PatternForms, LiteralLengths
    <2> DEFINE k == p.key
               w == "**"
    <2>3. file_glob(p).glob = k \o w /\ IsSequence(k) /\ IsSequence(w)
      BY <2>1, <2>2
    <2> HIDE DEF k, w
    <2>4. QED BY <2>3, JoinFacts
  <1>3. CASE p.form = "class"
    <2>1. p.key # "Regular"
      BY <1>3 DEF file_glob
    <2>2. /\ p.key = "ProcPidOther" => file_glob(p).glob = "/proc/*/**"
          /\ p.key = "ProcGlobal" => file_glob(p).glob = "/proc/*"
          /\ p.key \notin {"ProcPidOther", "ProcGlobal"} => file_glob(p).glob = as_str[p.key]
      BY <1>3, <2>1 DEF file_glob
    <2>3. p.key \in Classes
      BY <1>3, PatternForms
    <2>4. IsSequence("/proc/*/**") /\ IsSequence("/proc/*") /\ IsSequence(as_str[p.key])
      BY <2>3, LiteralAssumption
    <2>5. QED BY <2>2, <2>4
  <1>4. QED BY <1>1, <1>2, <1>3, PatternForms

\* The lines of a rule.
LEMMA LoweredFacts ==
    ASSUME NEW r, IsRule(r)
    PROVE  /\ IsFiniteSet(Lowered(r).lines)
           /\ \A l \in Lowered(r).lines :
                 /\ IsLine(l) /\ l.section \in {"exec", "file", "network"} /\ l.deny \in BOOLEAN
                 /\ l.section \in {"exec", "file"} => IsSequence(l.glob)
  <1> DEFINE deny == r.verdict = "Deny"
  <1>0. deny \in BOOLEAN /\ IsFiniteSet({}) /\ \A x : IsFiniteSet({x})
    BY FS_EmptySet, FS_Singleton
  <1>1. CASE IsFileRule(r)
    <2> DEFINE g == file_glob(r.object.pattern)
               l == FileLine(deny, g.glob, IF r.action = "FileWrite" THEN {"w"} ELSE {"r"})
    <2>1. IsFile(r)
      BY <1>1, RuleKinds
    <2>2. Lowered(r).lines = IF g.loss = "Dropped" THEN {} ELSE {l}
      <3>0. r.action \notin {"ProcExec", "NetConnect", "NetBind"}
        BY <1>1 DEF IsFileRule, FileActions
      <3>1. CASE g.loss = "Dropped"
        BY <2>1, <3>0, <3>1 DEF Lowered
      <3>2. CASE g.loss # "Dropped" /\ r.action = "FileWrite"
        BY <2>1, <3>0, <3>2 DEF Lowered
      <3>3. CASE g.loss # "Dropped" /\ r.action # "FileWrite"
        BY <2>1, <3>0, <3>3 DEF Lowered
      <3>4. QED BY <3>1, <3>2, <3>3
    <2>3. ASSUME g.loss # "Dropped" PROVE IsSequence(g.glob)
      BY <1>1, <2>3, GlobFacts DEF IsFileRule
    <2>4. l.section = "file" /\ l.deny = deny /\ l.glob = g.glob
      BY DEF FileLine
    <2> HIDE DEF l, g, deny
    <2>5. QED BY <1>0, <2>2, <2>3, <2>4 DEF IsLine
  <1>2. CASE IsProcessRule(r)
    <2> DEFINE l == ExecLine(deny, r.object.binary)
    <2>1. Lowered(r).lines = IF r.action = "ProcExec" THEN {l} ELSE {}
      BY <1>2, RuleKinds DEF Lowered, IsProcessRule
    <2>2. l.section = "exec" /\ l.deny = deny /\ l.glob = r.object.binary /\ IsSequence(r.object.binary)
      BY <1>2 DEF ExecLine, IsProcessRule
    <2> HIDE DEF l, deny
    <2>3. QED BY <1>0, <2>1, <2>2 DEF IsLine
  <1>3. CASE IsNetworkRule(r)
    <2> DEFINE l == NetLine(deny, IF r.object.protocol = 17 THEN "dgram" ELSE "stream",
                            r.object.ip, r.object.port)
    <2>1. Lowered(r).lines = {l}
      BY <1>3, RuleKinds DEF Lowered, IsNetworkRule
    <2>2. l.section = "network" /\ l.deny = deny
      BY DEF NetLine
    <2> HIDE DEF l, deny
    <2>3. QED BY <1>0, <2>1, <2>2 DEF IsLine
  <1>4. QED BY <1>1, <1>2, <1>3 DEF IsRule

\* The lines of one section.
SectionLines(S, k, d) == {l \in S : l.section = k /\ l.deny = d}

\* The lines of all.
LEMMA LowerFacts ==
    ASSUME NEW s, AreRules(s)
    PROVE  /\ IsSequence(lower_to_apparmor(s))
           /\ ToSet(lower_to_apparmor(s)) = UNION {Lowered(r).lines : r \in ToSet(s)}
           /\ \A i \in DOMAIN lower_to_apparmor(s) : IsLine(lower_to_apparmor(s)[i])
  <1> DEFINE all == UNION {Lowered(s[i]).lines : i \in DOMAIN s}
             f == [i \in DOMAIN s |-> Lowered(s[i]).lines]
             part(k, d) == SetToSeq(SectionLines(all, k, d))
             yes == TRUE
             no == FALSE
             t == lower_to_apparmor(s)
  <1>1. \A i \in DOMAIN s : IsRule(s[i])
    BY DEF AreRules, ToSet
  <1>2. IsFiniteSet(all)
    <2>1. {Lowered(s[i]).lines : i \in DOMAIN s} = {f[i] : i \in DOMAIN s}
      OBVIOUS
    <2>2. IsFiniteSet(DOMAIN s)
      BY FiniteElements DEF AreRules
    <2>3. \A T \in {Lowered(s[i]).lines : i \in DOMAIN s} : IsFiniteSet(T)
      BY <1>1, LoweredFacts
    <2> HIDE DEF f
    <2>4. IsFiniteSet({Lowered(s[i]).lines : i \in DOMAIN s})
      BY <2>1, <2>2, FiniteImage
    <2>5. QED BY <2>3, <2>4, FS_UNION
  <1>3. \A l \in all : IsLine(l) /\ l.section \in {"exec", "file", "network"} /\ l.deny \in BOOLEAN
    BY <1>1, LoweredFacts
  <1>4. all = UNION {Lowered(r).lines : r \in ToSet(s)}
    BY DEF ToSet
  <1>5. /\ t = part("exec", no) \o part("exec", yes) \o part("file", no) \o part("file", yes)
                \o part("network", yes) \o part("network", no)
        /\ BOOLEAN = {yes, no}
    BY DEF lower_to_apparmor, SectionLines
  <1> HIDE DEF all, yes, no
  <1>6. ASSUME NEW k, NEW d
        PROVE  IsSequence(part(k, d)) /\ ToSet(part(k, d)) = SectionLines(all, k, d)
    <2>1. IsFiniteSet(SectionLines(all, k, d))
      BY <1>2, FS_Subset DEF SectionLines
    <2>2. QED BY <2>1, SomeOrderFacts
  <1> DEFINE p1 == part("exec", no)
             p2 == part("exec", yes)
             p3 == part("file", no)
             p4 == part("file", yes)
             p5 == part("network", yes)
             p6 == part("network", no)
  <1>7. /\ IsSequence(p1) /\ IsSequence(p2) /\ IsSequence(p3)
        /\ IsSequence(p4) /\ IsSequence(p5) /\ IsSequence(p6)
        /\ ToSet(p1) = SectionLines(all, "exec", no) /\ ToSet(p2) = SectionLines(all, "exec", yes)
        /\ ToSet(p3) = SectionLines(all, "file", no) /\ ToSet(p4) = SectionLines(all, "file", yes)
        /\ ToSet(p5) = SectionLines(all, "network", yes)
        /\ ToSet(p6) = SectionLines(all, "network", no)
    <2>1. IsSequence(p1) /\ ToSet(p1) = SectionLines(all, "exec", no)
      BY <1>6
    <2>2. IsSequence(p2) /\ ToSet(p2) = SectionLines(all, "exec", yes)
      BY <1>6
    <2>3. IsSequence(p3) /\ ToSet(p3) = SectionLines(all, "file", no)
      BY <1>6
    <2>4. IsSequence(p4) /\ ToSet(p4) = SectionLines(all, "file", yes)
      BY <1>6
    <2>5. IsSequence(p5) /\ ToSet(p5) = SectionLines(all, "network", yes)
      BY <1>6
    <2>6. IsSequence(p6) /\ ToSet(p6) = SectionLines(all, "network", no)
      BY <1>6
    <2> HIDE DEF p1, p2, p3, p4, p5, p6
    <2>7. QED BY <2>1, <2>2, <2>3, <2>4, <2>5, <2>6
  <1>8. all = ToSet(p1) \cup ToSet(p2) \cup ToSet(p3) \cup ToSet(p4) \cup ToSet(p5) \cup ToSet(p6)
    <2> HIDE DEF p1, p2, p3, p4, p5, p6
    <2>1. QED BY <1>3, <1>5, <1>7 DEF SectionLines
  <1>9. t = p1 \o p2 \o p3 \o p4 \o p5 \o p6
    BY <1>5
  <1> HIDE DEF p1, p2, p3, p4, p5, p6, t
  <1> DEFINE q2 == p1 \o p2
             q3 == q2 \o p3
             q4 == q3 \o p4
             q5 == q4 \o p5
             q6 == q5 \o p6
  <1>10. IsSequence(q2) /\ ToSet(q2) = ToSet(p1) \cup ToSet(p2)
    BY <1>7, JoinFacts, JoinElements
  <1>11. t = q6
    BY <1>9
  <1>12. IsSequence(q3) /\ ToSet(q3) = ToSet(q2) \cup ToSet(p3)
    <2> HIDE DEF q2
    <2>1. QED BY <1>7, <1>10, JoinFacts, JoinElements
  <1>13. IsSequence(q4) /\ ToSet(q4) = ToSet(q3) \cup ToSet(p4)
    <2> HIDE DEF q3
    <2>1. QED BY <1>7, <1>12, JoinFacts, JoinElements
  <1>14. IsSequence(q5) /\ ToSet(q5) = ToSet(q4) \cup ToSet(p5)
    <2> HIDE DEF q4
    <2>1. QED BY <1>7, <1>13, JoinFacts, JoinElements
  <1>15. IsSequence(q6) /\ ToSet(q6) = ToSet(q5) \cup ToSet(p6)
    <2> HIDE DEF q5
    <2>1. QED BY <1>7, <1>14, JoinFacts, JoinElements
  <1> HIDE DEF q2, q3, q4, q5, q6
  <1>16. IsSequence(t) /\ ToSet(t) = all
    BY <1>8, <1>10, <1>11, <1>12, <1>13, <1>14, <1>15
  <1>17. \A i \in DOMAIN t : IsLine(t[i])
    BY <1>3, <1>16 DEF ToSet
  <1>18. QED BY <1>4, <1>16, <1>17 DEF t

-----------------------------------------------------------------------------
(* What the frontends make. *)

LEMMA GlobClass ==
    ASSUME NEW glob, IsSequence(glob), glob_to_pattern(glob).form = "class"
    PROVE  /\ glob_to_pattern(glob).key \in KNOWN_PATTERNS
           /\ as_str[glob_to_pattern(glob).key] = glob
  <1> DEFINE known == {c \in KNOWN_PATTERNS : as_str[c] = glob}
  <1>1. known # {}
    <2> SUFFICES ASSUME known = {} PROVE FALSE
      OBVIOUS
    <2>1. glob_to_pattern(glob) \in {Exact(glob), Prefix(EnsureSlash(Cut(glob, 2)))}
      BY DEF glob_to_pattern
    <2>2. QED BY <2>1 DEF Exact, Prefix
  <1>2. glob_to_pattern(glob) = Classified(CHOOSE c \in known : TRUE)
    BY <1>1 DEF glob_to_pattern
  <1>3. (CHOOSE c \in known : TRUE) \in known
    BY <1>1
  <1>4. QED BY <1>2, <1>3 DEF Classified

LEMMA ImportedParts ==
    ASSUME NEW o, NEW a, NEW d PROVE Imported(o, a, d).action = a /\ Imported(o, a, d).object = o
  BY DEF Imported, NewRule

LEMMA ParsedFrontend ==
    ASSUME NEW l, IsLine(l), NEW r \in ToSet(ParsedLine(l))
    PROVE  FrontendRule(r) /\ r.subject = EmptySubject
  <1>1. /\ IsRule(r) /\ r.subject = EmptySubject
        /\ IsFileRule(r) => /\ l.section # "network" /\ IsSequence(PathOf(l))
                            /\ r.object.pattern = glob_to_pattern(PathOf(l))
    BY ParsedLineFacts
  <1>2. ASSUME HasForm(r, "class") PROVE r.object.pattern.key # "Regular"
    <2>1. IsFileRule(r) /\ r.object.pattern.form = "class"
      BY <1>1, <1>2, FileForms
    <2>2. QED BY <1>1, <2>1, GlobClass DEF KNOWN_PATTERNS
  <1>3. r \in LineRules(l)
    BY LineRulesAre
  <1> DEFINE n == NetOf(l)
             x == ExecOf(l)
             w == FileOf(l, "FileWrite")
             f == FileOf(l, "FileRead")
  <1>4. /\ n.action = "NetConnect" /\ n.object.protocol \in {6, 17, NoAddr} /\ x.action = "ProcExec"
        /\ w.action = "FileWrite" /\ f.action = "FileRead"
    <2>1. n.action = "NetConnect" /\ \E ip, port : n.object = Network(ip, port, ProtocolOf(l))
      BY ImportedParts DEF NetOf, ProtocolOf
    <2>2. n.object.protocol \in {6, 17, NoAddr}
      BY <2>1 DEF Network, ProtocolOf
    <2>3. x.action = "ProcExec"
      BY ImportedParts DEF ExecOf
    <2>4. \A no, a : Imported(File(glob_to_pattern(PathOf(l)), no), a, l.deny).action = a
      BY ImportedParts
    <2>5. w.action = "FileWrite" /\ f.action = "FileRead"
      BY <2>4, Zenon DEF FileOf
    <2>6. QED BY <2>1, <2>2, <2>3, <2>5
  <1>5. r \in {n, x, w, f}
    BY <1>3 DEF LineRules
  <1> HIDE DEF n, x, w, f
  <1>6. r.action \in {"NetConnect", "ProcExec", "FileWrite", "FileRead"}
        /\ (r.action = "NetConnect" => r = n)
    BY <1>4, <1>5
  <1>7. ASSUME IsNetworkRule(r) PROVE r.action = "NetConnect" /\ r.object.protocol \in {6, 17, NoAddr}
    BY <1>4, <1>6, <1>7 DEF IsNetworkRule
  <1>8. QED BY <1>1, <1>2, <1>6, <1>7 DEF FrontendRule

-----------------------------------------------------------------------------
(* The rules are rules at every stage. *)

LEMMA LearnedIsRaw ==
    ASSUME NEW r, IsLearnedRule(r) PROVE IsRawRule(r)
  <1>1. ASSUME HasForm(r, "exact") \/ HasForm(r, "prefix")
        PROVE  r.object.pattern.key \in Paths
    BY <1>1, FileForms DEF IsLearnedRule
  <1>2. ASSUME HasForm(r, "exact") \/ HasForm(r, "prefix")
        PROVE  IsSequence(canonicalize_path(r.object.pattern.key))
    BY <1>1, <1>2, ResolvedAssumption, PathAssumption
  <1>3. QED BY <1>2 DEF IsRawRule, IsLearnedRule

LEMMA ImportLines ==
    ASSUME NEW profile \in Imports
    PROVE  /\ IsSequence(profile)
           /\ \A i \in DOMAIN profile :
                 /\ IsLine(profile[i])
                 /\ profile[i].section # "network" /\ glob_to_pattern(PathOf(profile[i])).form # "class"
                       => IsSequence(canonicalize_path(glob_to_pattern(PathOf(profile[i])).key))
  BY ImportAssumption DEF IsLine, PathOf

LEMMA ImportedIsRaw ==
    ASSUME NEW profile \in Imports, NEW r \in ToSet(parse_apparmor(profile)) PROVE IsRawRule(r)
  <1>1. PICK i \in DOMAIN profile : r \in ToSet(ParsedLine(profile[i]))
    BY ImportLines, ParseFacts
  <1> DEFINE l == profile[i]
             k == glob_to_pattern(PathOf(l))
  <1>2. IsLine(l) /\ (l.section # "network" /\ k.form # "class" => IsSequence(canonicalize_path(k.key)))
    BY ImportLines
  <1>3. /\ IsRule(r)
        /\ IsFileRule(r) => l.section # "network" /\ r.object.pattern = k
    BY <1>1, <1>2, ParsedLineFacts
  <1> HIDE DEF l, k
  <1>4. ASSUME HasForm(r, "exact") \/ HasForm(r, "prefix")
        PROVE  IsFileRule(r) /\ r.object.pattern.form # "class"
    BY <1>3, <1>4, FileForms
  <1>5. QED BY <1>2, <1>3, <1>4 DEF IsRawRule

LEMMA ImportedFrontend ==
    ASSUME NEW profile \in Imports, NEW r \in ToSet(parse_apparmor(profile))
    PROVE  FrontendRule(r) /\ r.subject = EmptySubject
  <1>1. PICK i \in DOMAIN profile : r \in ToSet(ParsedLine(profile[i]))
    BY ImportLines, ParseFacts
  <1>2. QED BY <1>1, ImportLines, ParsedFrontend

LEMMA FoldedIsRule ==
    ASSUME NEW r, IsRule(r), Foldable(r), NEW b, b = Bucket(r)
    PROVE  LET q == FoldedRule(b)
           IN  /\ IsFileRule(q) /\ SameButPattern(q, r) /\ ~q.object.is_sensitive
               /\ q.object.pattern = Prefix(parent_dir(r.object.pattern.key))
               /\ IsSequence(parent_dir(r.object.pattern.key))
  <1> DEFINE key == r.object.pattern.key
             dir == parent_dir(key)
             no == FALSE
  <1>1. IsFileRule(r) /\ r.object.pattern.form = "exact" /\ dir # ""
    BY FileForms DEF Foldable
  <1>2. IsSequence(key)
    BY <1>1, PatternForms DEF IsFileRule
  <1>3. IsSequence(dir)
    BY <1>1, <1>2, ParentDir
  <1>4. IsPattern(Prefix(dir)) /\ no \in BOOLEAN /\ r.action \in FileActions /\ r.verdict \in Verdicts
    BY <1>1, <1>3 DEF IsPattern, IsFileRule
  <1>5. /\ b.subject = r.subject /\ b.action = r.action /\ b.verdict = r.verdict /\ b.dir = dir
    BY BucketFacts
  <1>6. FoldedRule(b) = NewRule(r.subject, File(Prefix(dir), no), r.action, r.verdict) /\ ~no
    BY <1>5 DEF FoldedRule
  <1> HIDE DEF no, dir
  <1>7. LET q == NewRule(r.subject, File(Prefix(dir), no), r.action, r.verdict)
        IN  /\ IsFileRule(q) /\ q.subject = r.subject /\ q.action = r.action /\ q.verdict = r.verdict
            /\ q.object.pattern = Prefix(dir) /\ q.object.is_sensitive = no
    BY <1>4, FileRuleMade
  <1>8. QED BY <1>3, <1>6, <1>7 DEF SameButPattern, dir

LEMMA FormsAreRules ==
    ASSUME NEW e, IsRule(e), e.action = "ProcExec", NEW f \in Forms(e)
    PROVE  /\ IsFileRule(f) /\ f.object.pattern = Exact(e.object.binary) /\ f.action \in {"FileOpen", "FileRead"}
           /\ f.subject = e.subject /\ f.verdict = e.verdict /\ ~f.object.is_sensitive
           /\ IsSequence(e.object.binary)
  <1> DEFINE no == FALSE
             p == Exact(e.object.binary)
  <1>1. IsProcessRule(e)
    BY DEF IsRule, IsFileRule, IsNetworkRule, FileActions
  <1>2. IsPattern(p) /\ no \in BOOLEAN /\ e.verdict \in Verdicts /\ ~no /\ IsSequence(e.object.binary)
    BY <1>1 DEF IsPattern, IsProcessRule
  <1>3. PICK a \in {"FileOpen", "FileRead"} : f = NewRule(e.subject, File(p, no), a, e.verdict)
    BY DEF Forms
  <1>4. a \in FileActions
    BY DEF FileActions
  <1> HIDE DEF no, p
  <1>5. /\ IsFileRule(f) /\ f.subject = e.subject /\ f.action = a /\ f.verdict = e.verdict
        /\ f.object.pattern = p /\ f.object.is_sensitive = no
    BY <1>2, <1>3, <1>4, FileRuleMade
  <1>6. QED BY <1>2, <1>5 DEF p

\* The passes map rules to rules.
LEMMA PassesKeepRules ==
    ASSUME NEW s, AreRules(s)
    PROVE  /\ (\A r \in ToSet(s) : IsRawRule(r)) => AreRules(Canonicalize(s))
           /\ \A t \in Dedup(s) : AreRules(t)
           /\ AreRules(Generalize(s))
           /\ \A t \in PrefixGeneralize(s) : AreRules(t)
           /\ AreRules(Subsume(s))
           /\ AreRules(Link(s))
  <1>0. IsSequence(s) /\ \A r \in ToSet(s) : IsRule(r)
    BY DEF AreRules
  <1>1. ASSUME \A r \in ToSet(s) : IsRawRule(r) PROVE AreRules(Canonicalize(s))
    BY <1>0, <1>1, CanonicalizeFacts, CanonicalRuleFacts DEF AreRules
  <1>2. ASSUME NEW t \in Dedup(s) PROVE AreRules(t)
    BY <1>0, <1>2, DedupFacts DEF AreRules
  <1>3. AreRules(Generalize(s))
    BY <1>0, GeneralizeFacts, GeneralRuleFacts DEF AreRules
  <1>4. ASSUME NEW t \in PrefixGeneralize(s) PROVE AreRules(t)
    <2>1. /\ IsSequence(t)
          /\ \A r \in ToSet(t) : r \in ToSet(s) \/ \E b \in Collapsed(s) : r = FoldedRule(b)
          /\ \A b \in Collapsed(s) : \E r \in ToSet(s) : Foldable(r) /\ b = Bucket(r)
      BY <1>0, <1>4, PrefixGeneralizeFacts
    <2>2. ASSUME NEW b \in Collapsed(s) PROVE IsRule(FoldedRule(b))
      <3>1. PICK r \in ToSet(s) : Foldable(r) /\ b = Bucket(r)
        BY <2>1, <2>2
      <3>2. QED BY <1>0, <3>1, FoldedIsRule DEF IsRule
    <2>3. QED BY <1>0, <2>1, <2>2 DEF AreRules
  <1>5. AreRules(Subsume(s))
    BY <1>0, SubsumeFacts DEF AreRules
  <1>6. AreRules(Link(s))
    <2>1. IsSequence(Link(s)) /\ \A f \in ToSet(Link(s)) : f \in ToSet(s) \/ LinkedFrom(ToSet(s), f)
      BY <1>0, LinkFacts
    <2>2. ASSUME NEW f, LinkedFrom(ToSet(s), f) PROVE IsRule(f)
      <3>1. PICK e \in ToSet(s) : e.action = "ProcExec" /\ f \in Forms(e)
        BY <2>2 DEF LinkedFrom
      <3>2. QED BY <1>0, <3>1, FormsAreRules DEF IsRule
    <2>3. QED BY <1>0, <2>1, <2>2 DEF AreRules
  <1>7. QED BY <1>1, <1>2, <1>3, <1>4, <1>5, <1>6

\* The profile is of the kind that is read.
InputRead ==
    \/ input.learned /\ input.profile \in Profiles
    \/ ~input.learned /\ input.profile \in Imports /\ ~input.no_optimize

\* A rule of the first frontend.
Original(r, learned) ==
    /\ IsRawRule(r) /\ FrontendRule(r)
    /\ IF learned THEN IsLearnedRule(r) ELSE r.subject = EmptySubject

RulesInv ==
    /\ InputRead
    /\ AreRules(rules) /\ AreRules(raw)
    /\ \A r \in ToSet(raw) : Original(r, input.learned)
    /\ stage = "start" => rules = <<>> /\ raw = <<>>
    /\ stage = "raw" => rules = raw
    /\ stage = "lowered" => lines = lower_to_apparmor(rules)

LEMMA EmptyRules == AreRules(<<>>)
  BY EmptyFacts DEF AreRules

LEMMA RulesInvInit == Init => RulesInv
  <1> SUFFICES ASSUME Init PROVE RulesInv
    OBVIOUS
  <1>1. InputRead
    BY DEF Init, InputRead
  <1>2. rules = <<>> /\ raw = <<>> /\ stage = "start"
    BY DEF Init
  <1>3. \A r \in ToSet(raw) : Original(r, input.learned)
    BY <1>2, EmptyFacts
  <1>4. QED BY <1>1, <1>2, <1>3, EmptyRules DEF RulesInv

LEMMA RulesInvNext == RulesInv /\ [Next]_vars => RulesInv'
  <1> SUFFICES ASSUME RulesInv, [Next]_vars PROVE RulesInv'
    OBVIOUS
  <1>0. /\ InputRead /\ AreRules(rules) /\ AreRules(raw)
        /\ \A r \in ToSet(raw) : Original(r, input.learned)
        /\ stage = "raw" => rules = raw
        /\ stage = "lowered" => lines = lower_to_apparmor(rules)
    BY DEF RulesInv
  <1>1. CASE ReadProfile
    <2>1. /\ rules' = IF input.learned THEN translate_all_events(input.profile)
                      ELSE parse_apparmor(input.profile)
          /\ raw' = rules' /\ stage' = "raw" /\ input' = input /\ stage' \notin {"start", "lowered"}
      BY <1>1 DEF ReadProfile
    <2>2. CASE input.learned /\ input.profile \in Profiles
      <3>1. IsSequence(rules') /\ \A r \in ToSet(rules') : IsLearnedRule(r) /\ FrontendRule(r)
        BY <2>1, <2>2, TranslateFacts
      <3>2. \A r \in ToSet(rules') : Original(r, input'.learned) /\ IsRule(r)
        BY <2>1, <2>2, <3>1, LearnedIsRaw DEF IsLearnedRule, Original
      <3>3. QED BY <1>0, <2>1, <3>1, <3>2 DEF RulesInv, InputRead, AreRules
    <2>3. CASE ~input.learned /\ input.profile \in Imports
      <3>1. AreRules(rules')
        BY <2>1, <2>3, ParseFacts, ImportLines
      <3>2. \A r \in ToSet(rules') : Original(r, input'.learned)
        BY <2>1, <2>3, ImportedIsRaw, ImportedFrontend DEF Original
      <3>3. QED BY <1>0, <2>1, <3>1, <3>2 DEF RulesInv, InputRead, AreRules
    <2>4. QED BY <1>0, <2>2, <2>3 DEF InputRead
  <1>2. ASSUME NEW from, NEW to, NEW results, Pass(from, to, results),
               to \notin {"start", "raw", "lowered"}, \A t \in results : AreRules(t)
        PROVE  RulesInv'
    BY <1>0, <1>2 DEF RulesInv, Pass, InputRead
  <1>3. CASE RunPass
    <2>1. CASE Pass("raw", "canonical", {Canonicalize(rules)})
      <3>1. \A r \in ToSet(rules) : IsRawRule(r)
        BY <1>0, <2>1 DEF Pass, Original
      <3>2. AreRules(Canonicalize(rules))
        BY <1>0, <3>1, PassesKeepRules
      <3>3. QED BY <1>2, <2>1, <3>2
    <2>2. CASE Pass("canonical", "dedup", Dedup(rules))
      BY <1>0, <1>2, <2>2, PassesKeepRules
    <2>3. CASE Pass("dedup", "general", {Generalize(rules)})
      BY <1>0, <1>2, <2>3, PassesKeepRules
    <2>4. CASE Pass("general", "prefix", PrefixGeneralize(rules))
      BY <1>0, <1>2, <2>4, PassesKeepRules
    <2>5. CASE Pass("prefix", "subsumed", {Subsume(rules)})
      BY <1>0, <1>2, <2>5, PassesKeepRules
    <2>6. CASE Pass("subsumed", "optimized", Dedup(rules))
      BY <1>0, <1>2, <2>6, PassesKeepRules
    <2>7. QED BY <1>3, <2>1, <2>2, <2>3, <2>4, <2>5, <2>6 DEF RunPass
  <1>4. CASE LinkRules
    <2>1. Pass("optimized", "linked", {Link(rules)}) \/ Pass("canonical", "linked", {Link(rules)})
      BY <1>4 DEF LinkRules
    <2>2. AreRules(Link(rules))
      BY <1>0, PassesKeepRules
    <2>3. QED BY <1>2, <2>1, <2>2
  <1>5. CASE Lower
    BY <1>0, <1>5 DEF Lower, RulesInv, InputRead
  <1>6. CASE Reimport
    <2>1. /\ lines = lower_to_apparmor(rules) /\ rules' = parse_apparmor(lines)
          /\ input' = input /\ raw' = raw /\ stage' = "reimported"
      BY <1>0, <1>6 DEF Reimport
    <2>2. IsSequence(lines) /\ \A i \in DOMAIN lines : IsLine(lines[i])
      BY <1>0, <2>1, LowerFacts
    <2>3. AreRules(rules')
      BY <2>1, <2>2, ParseFacts
    <2>4. QED BY <1>0, <2>1, <2>3 DEF RulesInv, InputRead
  <1>7. CASE UNCHANGED vars
    BY <1>7 DEF vars, RulesInv, InputRead
  <1>8. QED BY <1>1, <1>3, <1>4, <1>5, <1>6, <1>7 DEF Next

LEMMA RulesAlways == Spec => []RulesInv
  BY RulesInvInit, RulesInvNext, PTL DEF Spec

LEMMA RulesInvRelation == RulesInv => RelationSound
  <1> SUFFICES ASSUME RulesInv, NEW i \in DOMAIN rules, NEW j \in DOMAIN rules,
                      IsFile(rules[i]), IsFile(rules[j])
               PROVE  LET a   == rules[i].object.pattern
                          b   == rules[j].object.pattern
                          rel == relation_to(a, b)
                      IN  \/ Unsound(a) \/ Unsound(b)
                          \/ \A path \in Paths :
                                /\ rel \in {"Equal", "Superset"} /\ Matches(b, path) => Matches(a, path)
                                /\ rel \in {"Equal", "Subset"} /\ Matches(a, path) => Matches(b, path)
                                /\ rel = "Disjoint" => ~(Matches(a, path) /\ Matches(b, path))
    BY DEF RelationSound
  <1>1. IsRule(rules[i]) /\ IsRule(rules[j])
    BY DEF RulesInv, AreRules, ToSet
  <1>2. IsPattern(rules[i].object.pattern) /\ IsPattern(rules[j].object.pattern)
    BY <1>1, RuleIsFile DEF IsFileRule
  <1> DEFINE a == rules[i].object.pattern
             b == rules[j].object.pattern
  <1> HIDE DEF a, b
  <1>3. QED BY <1>2, RelationToIsSound DEF a, b

(* The relation between patterns that every pass relies on claims nothing     *)
(* that is false of the matching the hooks do, for the rules of every        *)
(* profile at every stage of the compiler.                                   *)
THEOREM RelationAlwaysSound == Spec => []RelationSound
  BY RulesAlways, RulesInvRelation, PTL

-----------------------------------------------------------------------------
(* Where a pattern lies under a prefix. *)

\* The fixed head of what the pattern matches.
HeadOf(p) == IF p.form = "class" THEN Root[p.key] ELSE p.key

LEMMA HeadIsSequence ==
    ASSUME NEW p, IsPattern(p) PROVE IsSequence(HeadOf(p))
  <1>1. CASE p.form # "class"
    BY <1>1, PatternForms DEF HeadOf
  <1>2. CASE p.form = "class"
    <2>1. p.key \in Classes /\ HeadOf(p) = Root[p.key]
      BY <1>2, PatternForms DEF HeadOf
    <2>2. CASE p.key = "Regular"
      <3>1. Root["Regular"] = "" /\ IsSequence("")
        BY LiteralAssumption, Zenon
      <3>2. QED BY <2>1, <2>2, <3>1, Zenon
    <2>3. CASE p.key # "Regular"
      <3>1. \A c \in Classes \ {"Regular"} : IsSequence(Root[c])
        BY LiteralAssumption, Zenon
      <3>2. QED BY <2>1, <2>3, <3>1
    <2>4. QED BY <2>2, <2>3
  <1>3. QED BY <1>1, <1>2

\* Only a prefix contains other patterns, the ones whose heads it starts.
LEMMA SupersetForm ==
    ASSUME NEW a, NEW b, IsPattern(a), IsPattern(b)
    PROVE  relation_to(a, b) = "Superset" <=> a.form = "prefix" /\ a # b /\ StartsWith(HeadOf(b), a.key)
  <1> DEFINE ka == a.key
             kb == b.key
  <1>1. CASE a = b
    BY <1>1 DEF relation_to
  <1>2. CASE a # b /\ a.form = "prefix"
    <2>1. relation_to(a, b) = Relation(a, b)
      BY <1>2 DEF relation_to
    <2>2. CASE b.form = "prefix"
      <3>1. Relation(a, b) = IF StartsWith(kb, ka) THEN "Superset"
                             ELSE IF StartsWith(ka, kb) THEN "Subset" ELSE "Disjoint"
        BY <1>2, <2>2 DEF Relation
      <3>2. HeadOf(b) = kb
        BY <2>2 DEF HeadOf
      <3> HIDE DEF ka, kb
      <3>3. QED BY <1>2, <2>1, <3>1, <3>2 DEF ka
    <2>3. CASE b.form = "exact"
      <3>1. Relation(a, b) = IF StartsWith(kb, ka) THEN "Superset" ELSE "Disjoint"
        BY <1>2, <2>3 DEF Relation
      <3>2. HeadOf(b) = kb
        BY <2>3 DEF HeadOf
      <3> HIDE DEF ka, kb
      <3>3. QED BY <1>2, <2>1, <3>1, <3>2 DEF ka
    <2>4. CASE b.form = "class"
      <3> DEFINE root == Root[b.key]
      <3>1. Relation(a, b) = prefix_vs_glob(ka, root)
        BY <1>2, <2>4 DEF Relation
      <3>2. HeadOf(b) = root
        BY <2>4 DEF HeadOf
      <3> HIDE DEF ka, root
      <3>3. QED BY <1>2, <2>1, <3>1, <3>2 DEF prefix_vs_glob, ka
    <2>5. QED BY <2>2, <2>3, <2>4, PatternForms
  <1>3. CASE a # b /\ a.form = "exact"
    <2>1. CASE b.form = "exact"
      BY <1>3, <2>1 DEF relation_to, Relation
    <2>2. CASE b.form = "prefix"
      <3>1. relation_to(a, b) = swap(Relation(b, a))
        BY <1>3, <2>2 DEF relation_to
      <3>2. Relation(b, a) = IF StartsWith(ka, kb) THEN "Superset" ELSE "Disjoint"
        BY <1>3, <2>2 DEF Relation
      <3> HIDE DEF ka, kb
      <3>3. QED BY <1>3, <3>1, <3>2 DEF swap
    <2>3. CASE b.form = "class"
      <3>1. relation_to(a, b) = exact_vs_glob(ka, Root[b.key])
        BY <1>3, <2>3 DEF relation_to, Relation
      <3>2. QED BY <1>3, <3>1 DEF exact_vs_glob
    <2>4. QED BY <2>1, <2>2, <2>3, PatternForms
  <1>4. CASE a # b /\ a.form = "class"
    <2>1. CASE b.form = "exact"
      <3>1. relation_to(a, b) = swap(exact_vs_glob(kb, Root[a.key]))
        BY <1>4, <2>1 DEF relation_to, Relation
      <3>2. QED BY <1>4, <3>1 DEF exact_vs_glob, swap
    <2>2. CASE b.form = "prefix"
      <3>1. relation_to(a, b) = swap(prefix_vs_glob(kb, Root[a.key]))
        BY <1>4, <2>2 DEF relation_to, Relation
      <3>2. QED BY <1>4, <3>1 DEF prefix_vs_glob, swap
    <2>3. CASE b.form = "class"
      <3>1. relation_to(a, b) = classified_vs_classified(Root[a.key], Root[b.key])
        BY <1>4, <2>3 DEF relation_to, Relation
      <3>2. QED BY <1>4, <3>1 DEF classified_vs_classified
    <2>4. QED BY <2>1, <2>2, <2>3, PatternForms
  <1>5. QED BY <1>1, <1>2, <1>3, <1>4, PatternForms

\* a is b or a prefix that contains it.
Above(a, b) == a = b \/ (a.form = "prefix" /\ StartsWith(HeadOf(b), a.key))

LEMMA AboveTransitive ==
    ASSUME NEW a, NEW b, NEW c, IsPattern(a), IsPattern(b), IsPattern(c), Above(a, b), Above(b, c)
    PROVE  Above(a, c)
  <1>1. CASE a = b \/ b = c
    BY <1>1
  <1>2. CASE a # b /\ b # c
    <2>1. a.form = "prefix" /\ b.form = "prefix" /\ StartsWith(HeadOf(b), a.key) /\ StartsWith(HeadOf(c), b.key)
      BY <1>2 DEF Above
    <2>2. HeadOf(b) = b.key
      BY <2>1 DEF HeadOf
    <2>3. IsSequence(a.key) /\ IsSequence(b.key) /\ IsSequence(HeadOf(c))
      BY <2>1, PatternForms, HeadIsSequence
    <2> DEFINE h == HeadOf(c)
               ka == a.key
               kb == b.key
    <2>4. StartsWith(h, kb) /\ StartsWith(kb, ka) /\ IsSequence(h) /\ IsSequence(ka) /\ IsSequence(kb)
      BY <2>1, <2>2, <2>3
    <2> HIDE DEF h, ka, kb
    <2>5. StartsWith(h, ka)
      BY <2>4, StartsTransitive
    <2>6. QED BY <2>1, <2>5 DEF Above, h, ka
  <1>3. QED BY <1>1, <1>2

\* A rule that is dropped as subsumed leaves one above it that stays.
LEMMA SubsumedBelow ==
    ASSUME NEW s, AreRules(s), NEW r \in ToSet(s)
    PROVE  \E q \in ToSet(Subsume(s)) :
              /\ q.subject = r.subject /\ q.action = r.action /\ q.verdict = r.verdict
              /\ q = r \/ (IsFileRule(q) /\ IsFileRule(r) /\ Above(q.object.pattern, r.object.pattern))
  <1>0. IsSequence(s) /\ \A q \in ToSet(s) : IsRule(q)
    BY DEF AreRules
  <1>1. CASE r \in ToSet(Subsume(s))
    BY <1>1
  <1>2. CASE r \notin ToSet(Subsume(s))
    <2>1. ASSUME NEW u \in ToSet(s), NEW t \in ToSet(s)
          PROVE  Broader(u, t) <=>
                    /\ u.subject = t.subject /\ u.action = t.action /\ u.verdict = t.verdict
                    /\ IsFileRule(u) /\ IsFileRule(t) /\ u.object.pattern # t.object.pattern
                    /\ u.object.pattern.form = "prefix"
                    /\ StartsWith(HeadOf(t.object.pattern), u.object.pattern.key)
      <3>1. u.object.kind = "file" <=> IsFileRule(u)
        BY <1>0, RuleIsFile, RuleKinds
      <3>2. t.object.kind = "file" <=> IsFileRule(t)
        BY <1>0, RuleIsFile, RuleKinds
      <3>3. ASSUME IsFileRule(u), IsFileRule(t)
            PROVE  relation_to(u.object.pattern, t.object.pattern) = "Superset" <=>
                      /\ u.object.pattern.form = "prefix" /\ u.object.pattern # t.object.pattern
                      /\ StartsWith(HeadOf(t.object.pattern), u.object.pattern.key)
        BY <3>3, SupersetForm DEF IsFileRule
      <3>4. QED BY <3>1, <3>2, <3>3 DEF Broader, object_subsumed
    <2> DEFINE B == {u \in ToSet(s) : Broader(u, r)}
               N == {Len(u.object.pattern.key) : u \in B}
    <2>2. B # {}
      BY <1>0, <1>2, SubsumeFacts
    <2>3. \A u \in B : IsFileRule(u) /\ u.object.pattern.form = "prefix" /\ IsSequence(u.object.pattern.key)
      BY <2>1, PatternForms DEF IsFileRule
    <2>4. N \in SUBSET Nat /\ N # {}
      BY <2>2, <2>3, SequenceFacts
    <2>5. PICK n \in N : \A m \in N : n <= m
      BY <2>4, LeastIndex
    <2>6. PICK q \in B : n = Len(q.object.pattern.key)
      BY <2>5
    <2>7. q \in ToSet(Subsume(s))
      <3> SUFFICES ASSUME q \notin ToSet(Subsume(s)) PROVE FALSE
        OBVIOUS
      <3>1. PICK u \in ToSet(s) : Broader(u, q)
        BY <1>0, SubsumeFacts
      <3> DEFINE ku == u.object.pattern.key
                 kq == q.object.pattern.key
                 h == HeadOf(r.object.pattern)
      <3>2. /\ u.subject = q.subject /\ u.action = q.action /\ u.verdict = q.verdict
            /\ IsFileRule(u) /\ u.object.pattern.form = "prefix" /\ u.object.pattern # q.object.pattern
            /\ StartsWith(HeadOf(q.object.pattern), ku)
        BY <2>1, <3>1
      <3>3. /\ q.subject = r.subject /\ q.action = r.action /\ q.verdict = r.verdict
            /\ IsFileRule(q) /\ IsFileRule(r) /\ q.object.pattern.form = "prefix" /\ StartsWith(h, kq)
        BY <2>1
      <3>4. HeadOf(q.object.pattern) = kq
        BY <3>3 DEF HeadOf
      <3>5. IsSequence(ku) /\ IsSequence(kq) /\ IsSequence(h)
        BY <3>2, <3>3, PatternForms, HeadIsSequence DEF IsFileRule
      <3>6. ku # kq
        BY <3>2, <3>3, PatternForms DEF IsFileRule
      <3>7. StartsWith(kq, ku) /\ StartsWith(h, kq)
        BY <3>2, <3>3, <3>4
      <3> HIDE DEF ku, kq, h
      <3>8. StartsWith(h, ku)
        BY <3>5, <3>7, StartsTransitive
      <3>9. ~(Len(kq) <= Len(ku))
        BY <3>5, <3>6, <3>7, StartsSameLength
      <3>10. Len(ku) < Len(kq) /\ Len(ku) \in Nat /\ Len(kq) \in Nat
        <4>1. Len(ku) \in Nat /\ Len(kq) \in Nat
          BY <3>5, SequenceFacts
        <4>2. QED BY <3>9, <4>1
      <3>11. CASE u.object.pattern = r.object.pattern
        <4>1. h = ku
          BY <3>2, <3>11 DEF HeadOf, h, ku
        <4>2. StartsWith(ku, kq)
          BY <3>7, <4>1
        <4>3. Len(kq) <= Len(ku)
          BY <4>2 DEF StartsWith, HasAt, IsSequence
        <4>4. QED BY <3>10, <4>3
      <3>12. CASE u.object.pattern # r.object.pattern
        <4>1. u \in B
          BY <2>1, <3>2, <3>3, <3>8, <3>12 DEF ku, h
        <4>2. Len(ku) \in N
          BY <4>1 DEF ku
        <4>3. Len(kq) <= Len(ku)
          BY <2>5, <2>6, <4>2 DEF kq
        <4>4. QED BY <3>10, <4>3
      <3>13. QED BY <3>11, <3>12
    <2>8. QED BY <2>1, <2>6, <2>7 DEF Above
  <1>3. QED BY <1>1, <1>2

-----------------------------------------------------------------------------
(* Where the rules come from, and what became of the ones of the frontend. *)

Gen(r) == GeneralRule(CanonicalRule(r))

LEMMA GenFacts ==
    ASSUME NEW r, IsRawRule(r)
    PROVE  LET c == CanonicalRule(r)
               g == Gen(r)
           IN  /\ IsRule(r) /\ IsRule(c) /\ IsRule(g) /\ SameButPattern(c, r) /\ SameButPattern(g, r)
               /\ (IsFileRule(r) <=> IsFileRule(c)) /\ (IsFileRule(r) <=> IsFileRule(g))
               /\ ~IsFileRule(r) => c = r /\ g = r
  <1> DEFINE c == CanonicalRule(r)
             g == Gen(r)
  <1>1. IsRule(r) /\ IsRule(c) /\ SameButPattern(c, r)
    BY CanonicalRuleFacts DEF IsRawRule
  <1>2. IsRule(g) /\ SameButPattern(g, c)
    BY <1>1, GeneralRuleFacts DEF Gen
  <1>3. \A x, y : IsRule(x) /\ IsRule(y) /\ x.action = y.action => (IsFileRule(x) <=> IsFileRule(y))
    BY RuleIsFile DEF IsFileRule
  <1>4. ASSUME ~IsFileRule(r) PROVE c = r
    BY <1>1, <1>4, CanonicalRuleFacts, FileForms
  <1>5. ASSUME ~IsFileRule(c) PROVE g = c
    BY <1>1, <1>5, GeneralRuleFacts, FileForms DEF Gen, Filed
  <1> HIDE DEF c, g
  <1>6. SameButPattern(g, r)
    BY <1>1, <1>2 DEF SameButPattern
  <1>7. (IsFileRule(r) <=> IsFileRule(c)) /\ (IsFileRule(c) <=> IsFileRule(g))
    BY <1>1, <1>2, <1>3 DEF SameButPattern
  <1>8. QED BY <1>1, <1>2, <1>4, <1>5, <1>6, <1>7 DEF c, g

LEMMA SignatureParts ==
    ASSUME NEW q, NEW r, signature(q) = signature(r)
    PROVE  q.subject = r.subject /\ q.object = r.object /\ q.action = r.action
  BY DEF signature

LEMMA SameParts ==
    ASSUME NEW q, NEW r, q.subject = r.subject, q.object = r.object, q.action = r.action
    PROVE  signature(q) = signature(r)
  BY DEF signature

\* Generalization looks at what a signature holds only.
LEMMA GeneralSignature ==
    ASSUME NEW q, NEW r, IsRule(q), IsRule(r), signature(q) = signature(r)
    PROVE  signature(GeneralRule(q)) = signature(GeneralRule(r))
  <1>1. q.subject = r.subject /\ q.object = r.object /\ q.action = r.action
    BY SignatureParts
  <1>2. Filed(q) <=> Filed(r)
    BY <1>1 DEF Filed, HasForm, IsFile
  <1>3. CASE Filed(r)
    <2> DEFINE p == Classified(try_classify(r.object.pattern.key))
               gq == GeneralRule(q)
               gr == GeneralRule(r)
    <2>1. gq = WithPattern(q, p) /\ gr = WithPattern(r, p)
      BY <1>1, <1>2, <1>3 DEF GeneralRule, Filed
    <2>2. IsFileRule(q) /\ IsFileRule(r)
      BY <1>2, <1>3, FileForms DEF Filed
    <2>3. ASSUME NEW x, IsFileRule(x)
          PROVE  LET y == WithPattern(x, p)
                 IN  y.subject = x.subject /\ y.action = x.action /\ y.object = File(p, x.object.is_sensitive)
      BY <2>3 DEF WithPattern, IsFileRule, NewRule, File
    <2>4. gq.subject = gr.subject /\ gq.action = gr.action /\ gq.object = gr.object
      BY <1>1, <2>1, <2>2, <2>3
    <2> HIDE DEF gq, gr
    <2>5. QED BY <2>4, SameParts DEF gq, gr
  <1>4. CASE ~Filed(r)
    BY <1>2, <1>4, GeneralRuleFacts
  <1>5. QED BY <1>3, <1>4

\* The rules are rules of the frontend, mapped, one of each signature.
Deduplicated(R, S) ==
    /\ \A q \in S : \E r \in R : q = CanonicalRule(r)
    /\ \A r \in R : \E o \in R : signature(CanonicalRule(o)) = signature(CanonicalRule(r)) /\ CanonicalRule(o) \in S

Generalized(R, S) ==
    /\ \A q \in S : \E r \in R : q = Gen(r)
    /\ \A r \in R : \E o \in R : signature(CanonicalRule(o)) = signature(CanonicalRule(r)) /\ Gen(o) \in S

\* The rules of the other verdict are elsewhere, or lost to one that differs in
\* its verdict only.
Unopposed(R, q) ==
    \A r \in R : IsFileRule(r) /\ r.subject = q.subject /\ r.verdict # q.verdict =>
        \/ relation_to(q.object.pattern, Gen(r).object.pattern) = "Disjoint"
        \/ \E o \in R : signature(CanonicalRule(o)) = signature(CanonicalRule(r)) /\ o.verdict # r.verdict

\* A directory that files were folded into.
FoldedFrom(R, q) ==
    /\ IsFileRule(q) /\ q.object.pattern.form = "prefix"
    /\ Len(q.object.pattern.key) <= PREFIX_MAX_LEN
    /\ \E r \in R : /\ SameButPattern(q, r) /\ Foldable(Gen(r))
                    /\ q.object.pattern.key = parent_dir(Gen(r).object.pattern.key)
    /\ Unopposed(R, q)

Sourced(R, q) ==
    \/ \E r \in R : q = CanonicalRule(r) \/ q = Gen(r)
    \/ FoldedFrom(R, q)
    \/ \E e \in R : e.action = "ProcExec" /\ q \in Forms(e)

\* q stands for the frontend's rule r.
StandsFor(q, r) ==
    /\ IsRule(q) /\ q.subject = r.subject /\ q.action = r.action
    /\ IF IsFileRule(r)
       THEN \E p \in {CanonicalRule(r), Gen(r)} : Above(q.object.pattern, p.object.pattern)
       ELSE q.object = r.object

AllSourced(R, S) == \A q \in S : Sourced(R, q)
AllStand(R, S) == \A r \in R : \E q \in S : StandsFor(q, r)
AllRaw(R) == \A r \in R : IsRawRule(r)

LEMMA CanonicalSource ==
    ASSUME NEW R, AllRaw(R), NEW S, Deduplicated(R, S) PROVE AllSourced(R, S) /\ AllStand(R, S)
  <1>1. AllSourced(R, S)
    BY DEF Deduplicated, AllSourced, Sourced
  <1>2. ASSUME NEW r \in R PROVE \E q \in S : StandsFor(q, r)
    <2>1. PICK o \in R : signature(CanonicalRule(o)) = signature(CanonicalRule(r)) /\ CanonicalRule(o) \in S
      BY DEF Deduplicated
    <2> DEFINE q == CanonicalRule(o)
               c == CanonicalRule(r)
    <2>2. q.subject = c.subject /\ q.object = c.object /\ q.action = c.action
      BY <2>1, SignatureParts
    <2>3. IsRule(q) /\ SameButPattern(c, r) /\ (~IsFileRule(r) => c = r)
      BY GenFacts DEF AllRaw
    <2> HIDE DEF q, c
    <2>4. StandsFor(q, r)
      BY <2>2, <2>3 DEF StandsFor, SameButPattern, Above, c
    <2>5. QED BY <2>1, <2>4 DEF q
  <1>3. QED BY <1>1, <1>2 DEF AllStand

LEMMA GeneralSource ==
    ASSUME NEW R, AllRaw(R), NEW S, Generalized(R, S) PROVE AllSourced(R, S) /\ AllStand(R, S)
  <1>1. AllSourced(R, S)
    BY DEF Generalized, AllSourced, Sourced
  <1>2. ASSUME NEW r \in R PROVE \E q \in S : StandsFor(q, r)
    <2>1. PICK o \in R : signature(CanonicalRule(o)) = signature(CanonicalRule(r)) /\ Gen(o) \in S
      BY DEF Generalized
    <2>2. IsRule(CanonicalRule(o)) /\ IsRule(CanonicalRule(r))
      BY GenFacts DEF AllRaw
    <2>3. signature(Gen(o)) = signature(Gen(r))
      BY <2>1, <2>2, GeneralSignature DEF Gen
    <2> DEFINE q == Gen(o)
               c == Gen(r)
    <2>4. q.subject = c.subject /\ q.object = c.object /\ q.action = c.action
      BY <2>3, SignatureParts
    <2>5. IsRule(q) /\ SameButPattern(c, r) /\ (~IsFileRule(r) => c = r)
      BY GenFacts DEF AllRaw
    <2> HIDE DEF q, c
    <2>6. StandsFor(q, r)
      BY <2>4, <2>5 DEF StandsFor, SameButPattern, Above, c
    <2>7. QED BY <2>1, <2>6 DEF q
  <1>3. QED BY <1>1, <1>2 DEF AllStand

\* The passes, one by one.
LEMMA CanonicalStep ==
    ASSUME NEW s, IsSequence(s) PROVE Deduplicated(ToSet(s), ToSet(Canonicalize(s)))
  BY CanonicalizeFacts DEF Deduplicated

LEMMA DedupStep ==
    ASSUME NEW R, NEW s, IsSequence(s), Deduplicated(R, ToSet(s)), NEW t \in Dedup(s)
    PROVE  Deduplicated(R, ToSet(t))
  <1>1. /\ ToSet(t) \subseteq ToSet(s)
        /\ \A r \in ToSet(s) : \E q \in ToSet(t) : signature(q) = signature(r)
    BY DedupFacts
  <1>2. ASSUME NEW r \in R
        PROVE  \E o \in R : signature(CanonicalRule(o)) = signature(CanonicalRule(r)) /\ CanonicalRule(o) \in ToSet(t)
    <2>1. PICK o \in R : signature(CanonicalRule(o)) = signature(CanonicalRule(r)) /\ CanonicalRule(o) \in ToSet(s)
      BY DEF Deduplicated
    <2>2. PICK q \in ToSet(t) : signature(q) = signature(CanonicalRule(o))
      BY <1>1, <2>1
    <2>3. PICK x \in R : q = CanonicalRule(x)
      BY <1>1, <2>2 DEF Deduplicated
    <2>4. QED BY <2>1, <2>2, <2>3
  <1>3. QED BY <1>1, <1>2 DEF Deduplicated

LEMMA GeneralStep ==
    ASSUME NEW R, NEW s, IsSequence(s), Deduplicated(R, ToSet(s))
    PROVE  Generalized(R, ToSet(Generalize(s)))
  BY GeneralizeFacts DEF Deduplicated, Generalized, Gen

LEMMA LaterDedupStep ==
    ASSUME NEW R, NEW s, AreRules(s), AllSourced(R, ToSet(s)), AllStand(R, ToSet(s)), NEW t \in Dedup(s)
    PROVE  AllSourced(R, ToSet(t)) /\ AllStand(R, ToSet(t))
  <1>1. /\ ToSet(t) \subseteq ToSet(s)
        /\ \A r \in ToSet(s) : \E q \in ToSet(t) : signature(q) = signature(r)
    BY DedupFacts DEF AreRules
  <1>2. ASSUME NEW r \in R PROVE \E q \in ToSet(t) : StandsFor(q, r)
    <2>1. PICK x \in ToSet(s) : StandsFor(x, r)
      BY DEF AllStand
    <2>2. PICK q \in ToSet(t) : signature(q) = signature(x)
      BY <1>1
    <2>3. q.subject = x.subject /\ q.object = x.object /\ q.action = x.action /\ IsRule(q)
      BY <1>1, <2>2, SignatureParts DEF AreRules
    <2>4. QED BY <2>1, <2>3 DEF StandsFor
  <1>3. QED BY <1>1, <1>2 DEF AllSourced, AllStand

\* A file rule above one that stands for r stands for it too.
LEMMA StandsAbove ==
    ASSUME NEW r, IsRawRule(r), NEW x, StandsFor(x, r), NEW q, IsFileRule(q), IsFileRule(x),
           q.subject = x.subject, q.action = x.action, Above(q.object.pattern, x.object.pattern)
    PROVE  StandsFor(q, r)
  <1>1. IsFileRule(r)
    <2>1. IsRule(r) /\ r.action \in FileActions
      BY GenFacts DEF StandsFor, IsFileRule
    <2>2. QED BY <2>1, RuleIsFile
  <1>2. PICK p \in {CanonicalRule(r), Gen(r)} : Above(x.object.pattern, p.object.pattern)
    BY <1>1 DEF StandsFor
  <1>3. IsFileRule(p)
    BY <1>1, <1>2, GenFacts
  <1>4. IsPattern(p.object.pattern) /\ IsPattern(q.object.pattern) /\ IsPattern(x.object.pattern)
    BY <1>3 DEF IsFileRule
  <1>5. Above(q.object.pattern, p.object.pattern)
    BY <1>2, <1>4, AboveTransitive
  <1>6. QED BY <1>1, <1>2, <1>5 DEF StandsFor, IsRule

LEMMA SubsumeStep ==
    ASSUME NEW R, AllRaw(R), NEW s, AreRules(s), AllSourced(R, ToSet(s)), AllStand(R, ToSet(s))
    PROVE  AllSourced(R, ToSet(Subsume(s))) /\ AllStand(R, ToSet(Subsume(s)))
  <1>1. ToSet(Subsume(s)) \subseteq ToSet(s) /\ \A q \in ToSet(s) : IsRule(q)
    BY SubsumeFacts DEF AreRules
  <1>2. ASSUME NEW r \in R PROVE \E q \in ToSet(Subsume(s)) : StandsFor(q, r)
    <2>1. PICK x \in ToSet(s) : StandsFor(x, r)
      BY DEF AllStand
    <2>2. PICK q \in ToSet(Subsume(s)) :
              /\ q.subject = x.subject /\ q.action = x.action
              /\ q = x \/ (IsFileRule(q) /\ IsFileRule(x) /\ Above(q.object.pattern, x.object.pattern))
      BY SubsumedBelow
    <2>3. CASE q = x
      BY <2>1, <2>2, <2>3
    <2>4. CASE q # x
      BY <2>1, <2>2, <2>4, StandsAbove DEF AllRaw
    <2>5. QED BY <2>3, <2>4
  <1>3. QED BY <1>1, <1>2 DEF AllSourced, AllStand

LEMMA LinkStepKeeps ==
    ASSUME NEW R, AllRaw(R), NEW s, AreRules(s), AllSourced(R, ToSet(s)), AllStand(R, ToSet(s))
    PROVE  AllSourced(R, ToSet(Link(s))) /\ AllStand(R, ToSet(Link(s)))
  <1>1. /\ ToSet(s) \subseteq ToSet(Link(s))
        /\ \A f \in ToSet(Link(s)) : f \in ToSet(s) \/ LinkedFrom(ToSet(s), f)
    BY LinkFacts DEF AreRules
  <1>2. ASSUME NEW e \in ToSet(s), e.action = "ProcExec" PROVE e \in R
    <2>1. ~IsFileRule(e)
      BY <1>2 DEF IsFileRule, FileActions
    <2>2. Sourced(R, e)
      BY DEF AllSourced
    <2>3. ASSUME NEW r \in R, e = CanonicalRule(r) \/ e = Gen(r) PROVE e = r
      BY <2>1, <2>3, GenFacts DEF AllRaw
    <2>4. ASSUME NEW x \in R, x.action = "ProcExec", e \in Forms(x) PROVE FALSE
      BY <2>1, <2>4, GenFacts, FormsAreRules DEF AllRaw
    <2>5. QED BY <2>1, <2>2, <2>3, <2>4 DEF Sourced, FoldedFrom
  <1>3. ASSUME NEW f, LinkedFrom(ToSet(s), f) PROVE Sourced(R, f)
    BY <1>2, <1>3 DEF LinkedFrom, Sourced
  <1>4. QED BY <1>1, <1>3 DEF AllSourced, AllStand

LEMMA PrefixStep ==
    ASSUME NEW R, AllRaw(R), NEW s, AreRules(s), Generalized(R, ToSet(s)), NEW t \in PrefixGeneralize(s)
    PROVE  AllSourced(R, ToSet(t)) /\ AllStand(R, ToSet(t))
  <1>0. IsSequence(s) /\ \A q \in ToSet(s) : IsRule(q)
    BY DEF AreRules
  <1>1. /\ \A r \in ToSet(t) : r \in ToSet(s) \/ \E b \in Collapsed(s) : r = FoldedRule(b)
        /\ \A b \in Collapsed(s) : FoldedRule(b) \in ToSet(t)
        /\ \A r \in ToSet(s) : r \in ToSet(t) \/ (Foldable(r) /\ Bucket(r) \in Collapsed(s))
        /\ \A b \in Collapsed(s) : Collapses(s, b) /\ \E r \in ToSet(s) : Foldable(r) /\ b = Bucket(r)
    BY <1>0, PrefixGeneralizeFacts
  <1>2. AllSourced(R, ToSet(s)) /\ AllStand(R, ToSet(s))
    BY GeneralSource
  <1>3. ASSUME NEW b \in Collapsed(s) PROVE FoldedFrom(R, FoldedRule(b))
    <2> DEFINE q == FoldedRule(b)
    <2>1. PICK x \in ToSet(s) : Foldable(x) /\ b = Bucket(x)
      BY <1>1
    <2>2. PICK r \in R : x = Gen(r)
      BY DEF Generalized
    <2> DEFINE dir == parent_dir(x.object.pattern.key)
    <2>3. IsFileRule(q) /\ SameButPattern(q, x) /\ q.object.pattern = Prefix(dir)
      BY <1>0, <2>1, FoldedIsRule
    <2>4. b.dir = dir /\ b.subject = x.subject /\ b.verdict = x.verdict
      BY <2>1, BucketFacts
    <2>5. Len(dir) <= PREFIX_MAX_LEN /\ ~opposing_verdict_under(s, x.subject, x.verdict, dir)
      BY <1>1, <2>4 DEF Collapses
    <2> HIDE DEF q, dir
    <2>6. q.object.pattern.form = "prefix" /\ q.object.pattern.key = dir
      BY <2>3 DEF Prefix
    <2>7. SameButPattern(q, r)
      BY <2>2, <2>3, GenFacts DEF SameButPattern, AllRaw
    <2>8. Unopposed(R, q)
      <3> SUFFICES ASSUME NEW y \in R, IsFileRule(y), y.subject = q.subject, y.verdict # q.verdict,
                          ~\E o \in R : /\ signature(CanonicalRule(o)) = signature(CanonicalRule(y))
                                        /\ o.verdict # y.verdict
                   PROVE  relation_to(q.object.pattern, Gen(y).object.pattern) = "Disjoint"
        BY DEF Unopposed
      <3>1. PICK o \in R : signature(CanonicalRule(o)) = signature(CanonicalRule(y)) /\ Gen(o) \in ToSet(s)
        BY DEF Generalized
      <3>2. o.verdict = y.verdict
        BY <3>1
      <3>3. IsRule(CanonicalRule(o)) /\ IsRule(CanonicalRule(y))
        BY GenFacts DEF AllRaw
      <3>4. signature(Gen(o)) = signature(Gen(y))
        BY <3>1, <3>3, GeneralSignature DEF Gen
      <3> DEFINE g == Gen(o)
      <3>5. g.subject = Gen(y).subject /\ g.object = Gen(y).object
        BY <3>4, SignatureParts
      <3>6. IsFileRule(Gen(y)) /\ Gen(y).subject = y.subject /\ g.verdict = o.verdict
        BY GenFacts DEF AllRaw, SameButPattern
      <3>7. g.object.kind = "file"
        BY <3>5, <3>6, RuleKinds
      <3>8. g.subject = x.subject /\ g.verdict # x.verdict
        BY <2>3, <3>2, <3>5, <3>6 DEF SameButPattern
      <3> HIDE DEF g
      <3>9. PICK i \in DOMAIN s : s[i] = g
        BY <3>1 DEF ToSet, g
      <3>10. relation_to(Prefix(dir), g.object.pattern) = "Disjoint"
        BY <2>5, <3>7, <3>8, <3>9 DEF opposing_verdict_under
      <3>11. QED BY <2>3, <3>5, <3>10
    <2>9. QED BY <2>1, <2>2, <2>3, <2>5, <2>6, <2>7, <2>8 DEF FoldedFrom, dir, q
  <1>4. AllSourced(R, ToSet(t))
    BY <1>1, <1>2, <1>3 DEF AllSourced, Sourced
  <1>5. ASSUME NEW r \in R PROVE \E q \in ToSet(t) : StandsFor(q, r)
    <2>1. PICK x \in ToSet(s) : StandsFor(x, r)
      BY <1>2 DEF AllStand
    <2>2. CASE x \in ToSet(t)
      BY <2>1, <2>2
    <2>3. CASE x \notin ToSet(t)
      <3>1. Foldable(x) /\ Bucket(x) \in Collapsed(s)
        BY <1>1, <2>3
      <3> DEFINE q == FoldedRule(Bucket(x))
                 key == x.object.pattern.key
                 dir == parent_dir(key)
      <3>2. q \in ToSet(t)
        BY <1>1, <3>1
      <3>3. IsFileRule(q) /\ SameButPattern(q, x) /\ q.object.pattern = Prefix(dir)
        BY <1>0, <3>1, FoldedIsRule
      <3>4. IsFileRule(x) /\ x.object.pattern.form = "exact" /\ dir # ""
        BY <1>0, <3>1, FileForms DEF Foldable
      <3>5. IsSequence(key) /\ HeadOf(x.object.pattern) = key
        BY <3>4, PatternForms DEF IsFileRule, HeadOf
      <3>6. StartsWith(key, dir)
        BY <3>4, <3>5, ParentDir
      <3> HIDE DEF q, key, dir
      <3>7. Above(q.object.pattern, x.object.pattern)
        BY <3>3, <3>5, <3>6 DEF Above, Prefix
      <3>8. QED BY <2>1, <3>2, <3>3, <3>4, <3>7, StandsAbove DEF SameButPattern, AllRaw
    <2>4. QED BY <2>2, <2>3
  <1>6. QED BY <1>4, <1>5 DEF AllStand
-----------------------------------------------------------------------------
SourceInv ==
    /\ stage \in {"canonical", "dedup"} => Deduplicated(ToSet(raw), ToSet(rules))
    /\ stage = "general" => Generalized(ToSet(raw), ToSet(rules))
    /\ Compiling /\ stage # "raw" =>
          AllSourced(ToSet(raw), ToSet(rules)) /\ AllStand(ToSet(raw), ToSet(rules))

LEMMA SourceInit == Init => SourceInv
  BY DEF Init, SourceInv, Compiling

LEMMA SourceNext == RulesInv /\ SourceInv /\ [Next]_vars => SourceInv'
  <1> SUFFICES ASSUME RulesInv, SourceInv, [Next]_vars PROVE SourceInv'
    OBVIOUS
  <1> DEFINE R == ToSet(raw)
             S == ToSet(rules)
  <1>0. AllRaw(R) /\ AreRules(rules) /\ IsSequence(rules) /\ IsSequence(raw)
    BY DEF RulesInv, AllRaw, Original, AreRules
  <1>1. CASE ReadProfile
    BY <1>1 DEF ReadProfile, SourceInv, Compiling
  <1>2. ASSUME NEW from, NEW to, NEW results, Pass(from, to, results),
               to \notin {"canonical", "dedup", "general"},
               \A t \in results : AllSourced(R, ToSet(t)) /\ AllStand(R, ToSet(t))
        PROVE  SourceInv'
    BY <1>2 DEF SourceInv, Pass
  <1>3. CASE RunPass
    <2>1. CASE Pass("raw", "canonical", {Canonicalize(rules)})
      <3>1. stage = "raw" /\ rules' = Canonicalize(rules) /\ stage' = "canonical" /\ raw' = raw
        BY <2>1 DEF Pass
      <3>2. rules = raw
        BY <3>1 DEF RulesInv
      <3>3. Deduplicated(R, ToSet(rules'))
        BY <1>0, <3>1, <3>2, CanonicalStep
      <3>4. QED BY <1>0, <3>1, <3>3, CanonicalSource DEF SourceInv
    <2>2. CASE Pass("canonical", "dedup", Dedup(rules))
      <3>1. rules' \in Dedup(rules) /\ stage' = "dedup" /\ raw' = raw /\ Deduplicated(R, S)
        BY <2>2 DEF Pass, SourceInv
      <3>2. Deduplicated(R, ToSet(rules'))
        BY <1>0, <3>1, DedupStep
      <3>3. QED BY <1>0, <3>1, <3>2, CanonicalSource DEF SourceInv
    <2>3. CASE Pass("dedup", "general", {Generalize(rules)})
      <3>1. rules' = Generalize(rules) /\ stage' = "general" /\ raw' = raw /\ Deduplicated(R, S)
        BY <2>3 DEF Pass, SourceInv
      <3>2. Generalized(R, ToSet(rules'))
        BY <1>0, <3>1, GeneralStep
      <3>3. QED BY <1>0, <3>1, <3>2, GeneralSource DEF SourceInv
    <2>4. CASE Pass("general", "prefix", PrefixGeneralize(rules))
      <3>1. Generalized(R, S)
        BY <2>4 DEF Pass, SourceInv
      <3>2. QED BY <1>0, <1>2, <2>4, <3>1, PrefixStep
    <2>5. CASE Pass("prefix", "subsumed", {Subsume(rules)})
      <3>1. AllSourced(R, S) /\ AllStand(R, S)
        BY <2>5 DEF Pass, SourceInv, Compiling
      <3>2. QED BY <1>0, <1>2, <2>5, <3>1, SubsumeStep
    <2>6. CASE Pass("subsumed", "optimized", Dedup(rules))
      <3>1. AllSourced(R, S) /\ AllStand(R, S)
        BY <2>6 DEF Pass, SourceInv, Compiling
      <3>2. QED BY <1>0, <1>2, <2>6, <3>1, LaterDedupStep
    <2>7. QED BY <1>3, <2>1, <2>2, <2>3, <2>4, <2>5, <2>6 DEF RunPass
  <1>4. CASE LinkRules
    <2>1. Pass("optimized", "linked", {Link(rules)}) \/ Pass("canonical", "linked", {Link(rules)})
      BY <1>4 DEF LinkRules
    <2>2. AllSourced(R, S) /\ AllStand(R, S)
      BY <2>1 DEF Pass, SourceInv, Compiling
    <2>3. QED BY <1>0, <1>2, <2>1, <2>2, LinkStepKeeps
  <1>5. CASE Lower
    BY <1>5 DEF Lower, SourceInv, Compiling
  <1>6. CASE Reimport
    BY <1>6 DEF Reimport, SourceInv, Compiling
  <1>7. CASE UNCHANGED vars
    BY <1>7 DEF vars, SourceInv, Compiling
  <1>8. QED BY <1>1, <1>3, <1>4, <1>5, <1>6, <1>7 DEF Next

LEMMA SourceAlways == Spec => []SourceInv
  BY RulesAlways, SourceInit, SourceNext, PTL DEF Spec

-----------------------------------------------------------------------------
(* What is denied stays denied. *)

\* What a rule covers is what it matches in canonical form.
LEMMA CoversMatches ==
    ASSUME NEW r, IsRawRule(r), IsFileRule(r), NEW path
    PROVE  Covers(r, path) <=> Matches(CanonicalRule(r).object.pattern, path)
  <1> DEFINE c == CanonicalRule(r)
  <1>0. IsRule(r) /\ IsFile(r)
    BY RuleKinds DEF IsRawRule
  <1>exec. r.action # "ProcExec"
    BY DEF IsFileRule, FileActions
  <1>1. CASE r.object.pattern.form = "exact"
    <2> DEFINE k == canonicalize_path(r.object.pattern.key)
    <2>1. HasForm(r, "exact") /\ ~HasForm(r, "prefix") /\ ~HasForm(r, "class")
      BY <1>0, <1>1 DEF HasForm
    <2>2. c.object.pattern = Exact(k)
      BY <2>1, CanonicalRuleFacts
    <2>3. c.object.pattern.form = "exact" /\ c.object.pattern.key = k
      BY <2>2 DEF Exact
    <2>4. Covers(r, path) <=> k = path
      BY <2>1, <1>exec DEF Covers
    <2> HIDE DEF c, k
    <2>5. QED BY <2>3, <2>4, ExactMatches DEF c
  <1>2. CASE r.object.pattern.form = "prefix"
    <2>1. HasForm(r, "prefix") /\ ~HasForm(r, "exact") /\ ~HasForm(r, "class")
      BY <1>0, <1>2 DEF HasForm
    <2>2. c.object.pattern = Prefix(canonicalize_prefix(r.object.pattern.key))
      BY <2>1, CanonicalRuleFacts
    <2>3. Covers(r, path) <=> Matches(Prefix(canonicalize_prefix(r.object.pattern.key)), path)
      BY <2>1, <1>exec DEF Covers
    <2>4. QED BY <2>2, <2>3
  <1>3. CASE r.object.pattern.form = "class"
    <2>1. HasForm(r, "class") /\ ~HasForm(r, "exact") /\ ~HasForm(r, "prefix")
      BY <1>0, <1>3 DEF HasForm
    <2>2. c = r
      BY <2>1, CanonicalRuleFacts
    <2>3. Covers(r, path) <=> Matches(r.object.pattern, path)
      BY <2>1, <1>exec DEF Covers
    <2>4. QED BY <2>2, <2>3
  <1>4. QED BY <1>1, <1>2, <1>3, PatternForms DEF IsFileRule

LEMMA ExactCovers ==
    ASSUME NEW r, HasForm(r, "exact"), NEW path, canonicalize_path(r.object.pattern.key) = path
    PROVE  Covers(r, path)
  <1>1. ~HasForm(r, "prefix") /\ ~HasForm(r, "class") /\ r.action # "ProcExec"
    BY DEF HasForm, IsFile, FileActions
  <1>2. QED BY <1>1 DEF Covers

LEMMA ClassCovers ==
    ASSUME NEW r, HasForm(r, "class"), NEW path, Matches(r.object.pattern, path) PROVE Covers(r, path)
  <1>1. ~HasForm(r, "prefix") /\ ~HasForm(r, "exact") /\ r.action # "ProcExec"
    BY DEF HasForm, IsFile, FileActions
  <1>2. QED BY <1>1 DEF Covers

LEMMA ExecCovers ==
    ASSUME NEW e, e.action = "ProcExec", NEW path PROVE Covers(e, path) <=> e.object.binary = path
  BY DEF Covers, HasForm, IsFile, FileActions

LEMMA DisjointHeads ==
    ASSUME NEW a, NEW b, IsPattern(a), IsPattern(b), a.form = "prefix", relation_to(a, b) = "Disjoint"
    PROVE  /\ ~StartsWith(HeadOf(b), a.key)
           /\ b.form # "exact" => ~StartsWith(a.key, HeadOf(b))
  <1> DEFINE ka == a.key
             kb == b.key
  <1>0. a # b
    BY DEF relation_to
  <1>1. relation_to(a, b) = Relation(a, b)
    BY <1>0 DEF relation_to
  <1>2. CASE b.form = "prefix"
    <2>1. Relation(a, b) = IF StartsWith(kb, ka) THEN "Superset"
                           ELSE IF StartsWith(ka, kb) THEN "Subset" ELSE "Disjoint"
      BY <1>2 DEF Relation
    <2>2. HeadOf(b) = kb
      BY <1>2 DEF HeadOf
    <2> HIDE DEF ka, kb
    <2>3. QED BY <1>1, <2>1, <2>2 DEF ka
  <1>3. CASE b.form = "exact"
    <2>1. Relation(a, b) = IF StartsWith(kb, ka) THEN "Superset" ELSE "Disjoint"
      BY <1>3 DEF Relation
    <2>2. HeadOf(b) = kb
      BY <1>3 DEF HeadOf
    <2> HIDE DEF ka, kb
    <2>3. QED BY <1>1, <1>3, <2>1, <2>2 DEF ka
  <1>4. CASE b.form = "class"
    <2> DEFINE root == Root[b.key]
    <2>1. Relation(a, b) = prefix_vs_glob(ka, root)
      BY <1>4 DEF Relation
    <2>2. HeadOf(b) = root
      BY <1>4 DEF HeadOf
    <2> HIDE DEF ka, root
    <2>3. QED BY <1>1, <2>1, <2>2 DEF prefix_vs_glob, ka
  <1>5. QED BY <1>2, <1>3, <1>4, PatternForms

\* A path that both match under a prefix that is stored whole.
LEMMA SharedPath ==
    ASSUME NEW a, NEW b, IsPattern(a), IsPattern(b), a.form = "prefix", Len(a.key) <= PREFIX_MAX_LEN,
           NEW path \in Paths, Matches(a, path), Matches(b, path), ~Unsound(b) \/ b.form = "prefix"
    PROVE  relation_to(a, b) # "Disjoint"
  <1>1. ~Unsound(a)
    <2>1. a # Classified("SysCgroupDocker") /\ a # Classified("SysCgroupOther")
      BY DEF Classified
    <2>2. IsSequence(a.key) /\ Len(a.key) \in Nat
      BY PatternForms, SequenceFacts
    <2>3. QED BY <2>1, <2>2, PathAssumption DEF Unsound
  <1>2. CASE ~Unsound(b)
    BY <1>1, <1>2, RelationToIsSound
  <1>3. CASE b.form = "prefix" /\ Unsound(b)
    <2> SUFFICES ASSUME relation_to(a, b) = "Disjoint" PROVE FALSE
      OBVIOUS
    <2> DEFINE ka == a.key
               kb == b.key
               m == PREFIX_MAX_LEN
               st == SubSeq(kb, 1, m)
    <2>1. IsSequence(ka) /\ IsSequence(kb) /\ IsSequence(path) /\ m \in Nat
      BY <1>3, PatternForms, PathAssumption
    <2>2. Len(kb) > m
      <3>1. b # Classified("SysCgroupDocker") /\ b # Classified("SysCgroupOther")
        BY <1>3 DEF Classified
      <3>2. QED BY <1>3, <3>1 DEF Unsound
    <2>3. Stored(kb) = st
      <3>1. Len(kb) \in Nat
        BY <2>1, SequenceFacts
      <3>2. QED BY <2>1, <2>2, <3>1 DEF Stored
    <2>4. StartsWith(path, st)
      BY <1>3, <2>3, PrefixMatches
    <2>5. StartsWith(path, ka)
      BY <1>1, SoundPrefix
    <2>6. ~StartsWith(kb, ka)
      BY <1>3, DisjointHeads DEF HeadOf
    <2>7. Len(ka) <= m
      OBVIOUS
    <2> HIDE DEF ka, kb, m
    <2>8. m \in 0..Len(kb)
      <3>1. Len(kb) \in Nat
        BY <2>1, SequenceFacts
      <3>2. QED BY <2>1, <2>2, <3>1
    <2>9. IsSequence(st) /\ Len(st) = m /\ StartsWith(kb, st)
      BY <2>1, <2>8, HeadFacts, StartsHead
    <2> HIDE DEF st
    <2>10. StartsWith(st, ka)
      BY <2>1, <2>4, <2>5, <2>7, <2>9, StartsShorter
    <2>11. StartsWith(kb, ka)
      BY <2>1, <2>9, <2>10, StartsTransitive
    <2>12. QED BY <2>6, <2>11
  <1>4. QED BY <1>2, <1>3

\* A rule is for a single file in canonical form only if it was one.
LEMMA CanonicalExact ==
    ASSUME NEW r, IsRawRule(r), HasForm(CanonicalRule(r), "exact")
    PROVE  HasForm(r, "exact") /\ CanonicalRule(r).object.pattern.key = canonicalize_path(r.object.pattern.key)
  <1> DEFINE c == CanonicalRule(r)
             k == canonicalize_path(r.object.pattern.key)
  <1>1. IsFileRule(c) /\ c.object.pattern.form = "exact"
    BY GenFacts, FileForms
  <1>2. IsFileRule(r)
    BY <1>1, GenFacts
  <1>3. r.object.pattern.form # "prefix"
    <2> SUFFICES ASSUME r.object.pattern.form = "prefix" PROVE FALSE
      OBVIOUS
    <2>1. HasForm(r, "prefix")
      BY <1>2, RuleKinds DEF HasForm
    <2>2. c.object.pattern = Prefix(canonicalize_prefix(r.object.pattern.key))
      BY <2>1, CanonicalRuleFacts
    <2>3. \A x : Prefix(x).form = "prefix"
      BY DEF Prefix
    <2>4. QED BY <1>1, <2>2, <2>3
  <1>4. r.object.pattern.form # "class"
    <2> SUFFICES ASSUME r.object.pattern.form = "class" PROVE FALSE
      OBVIOUS
    <2>1. ~HasForm(r, "prefix") /\ ~HasForm(r, "exact")
      BY DEF HasForm
    <2>2. c = r
      BY <2>1, CanonicalRuleFacts
    <2>3. QED BY <1>1, <2>2
  <1>5. HasForm(r, "exact")
    BY <1>2, <1>3, <1>4, RuleKinds, PatternForms DEF HasForm, IsFileRule
  <1>6. c.object.pattern = Exact(k)
    BY <1>5, CanonicalRuleFacts
  <1>7. QED BY <1>5, <1>6 DEF Exact

\* No rule of the frontend that allows the mode covers the path.
NoneAllows(R, path, mode) ==
    \A r \in R : r.verdict = "Allow" /\ ModeOf(r.action) = mode => ~Covers(r, path)

\* One that allows the other mode, of all files of a class or a directory, does.
OtherModeIn(R, path, mode) ==
    \E r \in R : /\ HasForm(r, "class") \/ HasForm(r, "prefix")
                 /\ r.verdict = "Allow" /\ Covers(r, path) /\ ModeOf(r.action) # mode

\* A file the frontend allows that generalization filed under the path's class.
NamesakeIn(R, path) ==
    \E r \in R : /\ HasForm(r, "exact") /\ r.verdict = "Allow"
                 /\ try_classify(canonicalize_path(r.object.pattern.key)) = Class[path]

LEMMA AllowedSource ==
    ASSUME NEW R, AllRaw(R), NEW path \in Paths, NEW mode, NoneAllows(R, path, mode),
           NEW q, IsFileRule(q), q.verdict = "Allow", Sourced(R, q), Matches(q.object.pattern, path),
           q.object.pattern.form = "exact" => ModeOf(q.action) = mode
    PROVE  \/ q.object.pattern.form # "exact" /\ OtherModeIn(R, path, mode)
           \/ q.object.pattern.form = "class" /\ NamesakeIn(R, path)
           \/ FoldedFrom(R, q)
  <1>1. ASSUME NEW r \in R, q = CanonicalRule(r)
        PROVE  q.object.pattern.form # "exact" /\ OtherModeIn(R, path, mode)
    <2>1. IsRawRule(r) /\ IsRule(r) /\ IsFileRule(r) /\ r.verdict = "Allow" /\ r.action = q.action
      BY <1>1, GenFacts DEF AllRaw, SameButPattern
    <2>2. Covers(r, path)
      BY <1>1, <2>1, CoversMatches
    <2>3. ModeOf(q.action) # mode
      BY <2>1, <2>2 DEF NoneAllows
    <2>4. ~HasForm(r, "exact")
      <3> SUFFICES ASSUME HasForm(r, "exact") PROVE FALSE
        OBVIOUS
      <3>1. q.object.pattern = Exact(canonicalize_path(r.object.pattern.key))
        BY <1>1, <2>1, CanonicalRuleFacts
      <3>2. q.object.pattern.form = "exact"
        BY <3>1 DEF Exact
      <3>3. QED BY <2>3, <3>2
    <2>5. HasForm(r, "class") \/ HasForm(r, "prefix")
      BY <2>1, <2>4, RuleKinds, PatternForms DEF HasForm, IsFileRule
    <2>6. QED BY <2>1, <2>2, <2>3, <2>5 DEF OtherModeIn
  <1>2. ASSUME NEW r \in R, q = Gen(r)
        PROVE  \/ q.object.pattern.form # "exact" /\ OtherModeIn(R, path, mode)
               \/ q.object.pattern.form = "class" /\ NamesakeIn(R, path)
    <2> DEFINE c == CanonicalRule(r)
               k == canonicalize_path(r.object.pattern.key)
               class == try_classify(k)
    <2>1. IsRawRule(r) /\ IsRule(c) /\ r.verdict = "Allow" /\ IsRule(r)
      BY <1>2, GenFacts DEF AllRaw, SameButPattern
    <2> SUFFICES ASSUME Filed(c) PROVE q.object.pattern.form = "class" /\ NamesakeIn(R, path)
      <3>1. ~Filed(c) => Gen(r) = c
        BY <2>1, GeneralRuleFacts DEF Gen
      <3>2. QED BY <1>1, <1>2, <3>1
    <2>2. Filed(c)
      OBVIOUS
    <2>3. HasForm(c, "exact")
      BY <2>2 DEF Filed
    <2>4. HasForm(r, "exact") /\ c.object.pattern.key = k
      BY <2>1, <2>3, CanonicalExact
    <2>5. q.object.pattern = Classified(class)
      BY <1>2, <2>1, <2>2, <2>4, GeneralRuleFacts DEF Gen
    <2>6. q.object.pattern.form = "class" /\ q.object.pattern.key = class
      BY <2>5 DEF Classified
    <2>7. Class[path] = class
      BY <2>6, ClassMatches
    <2>8. QED BY <2>1, <2>4, <2>6, <2>7 DEF NamesakeIn
  <1>3. ASSUME NEW e \in R, e.action = "ProcExec", q \in Forms(e) PROVE FALSE
    <2>1. IsRule(e)
      BY GenFacts DEF AllRaw
    <2>2. /\ q.object.pattern = Exact(e.object.binary) /\ q.verdict = e.verdict
          /\ q.action \in {"FileOpen", "FileRead"}
      BY <1>3, <2>1, FormsAreRules
    <2>3. q.object.pattern.form = "exact" /\ q.object.pattern.key = e.object.binary
      BY <2>2 DEF Exact
    <2>4. path = e.object.binary
      BY <2>3, ExactMatches
    <2>5. ModeOf(e.action) = mode
      BY <1>3, <2>2, <2>3 DEF ModeOf
    <2>6. QED BY <1>3, <2>2, <2>4, <2>5, ExecCovers DEF NoneAllows
  <1>4. QED BY <1>1, <1>2, <1>3 DEF Sourced

\* Nothing was folded over a path that a rule denies.
LEMMA FoldedElsewhere ==
    ASSUME NEW R, AllRaw(R), NEW path \in Paths, NEW mode, NoneAllows(R, path, mode),
           \A r \in R : r.subject = EmptySubject,
           NEW d \in R, IsFileRule(d), d.verdict = "Deny", Covers(d, path), ModeOf(d.action) = mode,
           HasForm(d, "prefix") => Class[path] = "Regular",
           NEW q, q.verdict = "Allow", FoldedFrom(R, q), Matches(q.object.pattern, path)
    PROVE  Unsound(Classified(Class[path])) /\ Class[path] # "Regular"
  <1> DEFINE a == q.object.pattern
             c == CanonicalRule(d)
             b == c.object.pattern
             g == Gen(d).object.pattern
  <1>1. /\ IsFileRule(q) /\ IsPattern(a) /\ a.form = "prefix" /\ Len(a.key) <= PREFIX_MAX_LEN
        /\ Unopposed(R, q) /\ q.subject = EmptySubject
    BY DEF FoldedFrom, IsFileRule, SameButPattern
  <1>2. IsRawRule(d) /\ IsFileRule(c) /\ IsFileRule(Gen(d)) /\ IsPattern(b) /\ IsPattern(g) /\ IsRule(c)
    BY GenFacts DEF AllRaw, IsFileRule
  <1>3. Matches(b, path)
    BY <1>2, CoversMatches
  <1>4. ASSUME NEW o \in R, signature(CanonicalRule(o)) = signature(c), o.verdict # d.verdict PROVE FALSE
    <2> DEFINE co == CanonicalRule(o)
    <2>1. co.object = c.object /\ co.action = c.action
      BY <1>4, SignatureParts
    <2>2. IsRawRule(o) /\ IsRule(o) /\ IsRule(co) /\ SameButPattern(co, o) /\ (IsFileRule(o) <=> IsFileRule(co))
      BY GenFacts DEF AllRaw
    <2>3. IsFileRule(co)
      BY <1>2, <2>1, <2>2, RuleIsFile DEF IsFileRule
    <2>4. o.verdict \in Verdicts
      BY <2>2, <2>3 DEF IsFileRule
    <2>5. o.verdict = "Allow"
      BY <1>4, <2>4 DEF Verdicts
    <2>6. Matches(co.object.pattern, path)
      BY <1>3, <2>1
    <2>7. Covers(o, path)
      BY <2>2, <2>3, <2>6, CoversMatches
    <2>8. o.action = d.action
      BY <2>1, <2>2, GenFacts DEF AllRaw, SameButPattern
    <2>9. QED BY <2>5, <2>7, <2>8 DEF NoneAllows
  <1>5. relation_to(a, g) = "Disjoint"
    <2>1. d.subject = q.subject /\ d.verdict # q.verdict
      BY <1>1
    <2>2. QED BY <1>1, <1>4, <2>1 DEF Unopposed
  <1>6. CASE ~Filed(c)
    <2>1. g = b
      BY <1>2, <1>6, GeneralRuleFacts DEF Gen
    <2>2. Unsound(b) /\ b.form # "prefix"
      BY <1>1, <1>2, <1>3, <1>5, <2>1, SharedPath
    <2>3. b \in {Classified("SysCgroupDocker"), Classified("SysCgroupOther")}
      BY <2>2 DEF Unsound
    <2>4. b.form = "class" /\ b.key \in {"SysCgroupDocker", "SysCgroupOther"} /\ b = Classified(b.key)
      BY <2>3 DEF Classified
    <2>5. Class[path] = b.key
      BY <1>3, <2>4, ClassMatches
    <2>6. QED BY <2>2, <2>4, <2>5
  <1>7. CASE Filed(c)
    <2> DEFINE class == try_classify(c.object.pattern.key)
    <2>1. g = Classified(class) /\ class \in ProcClasses /\ StartsWith(b.key, "/proc/")
      BY <1>2, <1>7, GeneralRuleFacts DEF Gen
    <2>2. b.form = "exact"
      BY <1>2, <1>7, FileForms DEF Filed
    <2>3. path = b.key
      BY <1>3, <2>2, ExactMatches
    <2>4. Root[class] = "/proc/"
      <3>1. \A x \in ProcClasses : Root[x] = "/proc/"
        BY LiteralAssumption, Zenon DEF ProcClasses
      <3>2. QED BY <2>1, <3>1, Zenon
    <2>5. HeadOf(g) = Root[class] /\ g.form = "class"
      BY <2>1 DEF HeadOf, Classified
    <2> DEFINE h == HeadOf(g)
               k == a.key
    <2>6. ~StartsWith(h, k) /\ ~StartsWith(k, h)
      BY <1>1, <1>2, <1>5, <2>5, DisjointHeads
    <2>7. StartsWith(path, h)
      BY <2>1, <2>3, <2>4, <2>5, Zenon
    <2>8. StartsWith(path, k)
      <3>1. ~Unsound(a)
        <4>1. a # Classified("SysCgroupDocker") /\ a # Classified("SysCgroupOther")
          BY <1>1 DEF Classified
        <4>2. IsSequence(a.key) /\ Len(a.key) \in Nat
          BY <1>1, PatternForms, SequenceFacts
        <4>3. QED BY <1>1, <4>1, <4>2, PathAssumption DEF Unsound
      <3>2. QED BY <1>1, <3>1, SoundPrefix
    <2>9. IsSequence(h) /\ IsSequence(k) /\ IsSequence(path)
      BY <1>1, <1>2, PatternForms, HeadIsSequence, PathAssumption
    <2> HIDE DEF h, k
    <2>10. QED BY <2>6, <2>7, <2>8, <2>9, StartsComparable
  <1>8. QED BY <1>6, <1>7

LEMMA SourceDenied == RulesInv /\ SourceInv => DeniedStaysDenied
  <1> SUFFICES ASSUME RulesInv, SourceInv, Compiling, stage # "raw", NEW path \in Paths, NEW mode \in Modes,
                      Denied(path, mode), FilePermitted(rules, path, mode)
               PROVE  \/ OpenForOtherMode(path, mode)
                      \/ /\ Class[path] # "Regular"
                         /\ \/ AllowedNamesake(path) \/ WhitelistedAsSibling(path)
                            \/ Unsound(Classified(Class[path]))
    BY DEF DeniedStaysDenied
  <1> DEFINE R == ToSet(raw)
             own == ClassRules(rules, {Class[path]})
  <1>1. /\ AllRaw(R) /\ AllSourced(R, ToSet(rules))
        /\ \A i \in DOMAIN raw : raw[i] \in R
        /\ \A r \in R : \E i \in DOMAIN raw : r = raw[i]
        /\ \A i \in DOMAIN rules : IsRule(rules[i]) /\ Sourced(R, rules[i])
    BY DEF RulesInv, SourceInv, AllRaw, AllSourced, Original, AreRules, ToSet
  <1>2. PICK i0 \in DOMAIN raw : /\ raw[i0].verdict = "Deny" /\ IsFile(raw[i0]) /\ Covers(raw[i0], path)
                                 /\ ModeOf(raw[i0].action) = mode
                                 /\ HasForm(raw[i0], "prefix") => Class[path] = "Regular"
    BY DEF Denied
  <1> DEFINE d == raw[i0]
  <1>3. d \in R /\ IsFileRule(d)
    BY <1>1, <1>2, RuleIsFile DEF AllRaw, IsRawRule
  <1>4. NoneAllows(R, path, mode)
    BY <1>1 DEF Denied, NoneAllows
  <1>5. \A r \in R : r.subject = EmptySubject
    BY <1>2, <1>3 DEF RulesInv, Original, IsLearnedRule
  <1>6. ASSUME NamesakeIn(R, path) PROVE AllowedNamesake(path)
    BY <1>1, <1>6 DEF NamesakeIn, AllowedNamesake
  <1>open. ASSUME OtherModeIn(R, path, mode), ExactRules(rules, path) = {} PROVE OpenForOtherMode(path, mode)
    BY <1>1, <1>open DEF OtherModeIn, OpenForOtherMode
  <1>7. ASSUME NEW i \in DOMAIN rules, IsFile(rules[i]), rules[i].verdict # "Deny",
               Matches(rules[i].object.pattern, path),
               rules[i].object.pattern.form = "exact" => ModeOf(rules[i].action) = mode
        PROVE  \/ rules[i].object.pattern.form # "exact" /\ OtherModeIn(R, path, mode)
               \/ rules[i].object.pattern.form = "class" /\ AllowedNamesake(path)
               \/ /\ rules[i].object.pattern.form = "prefix"
                  /\ Unsound(Classified(Class[path])) /\ Class[path] # "Regular"
    <2> DEFINE q == rules[i]
    <2>1. IsFileRule(q) /\ Sourced(R, q)
      BY <1>1, <1>7, RuleIsFile
    <2>2. q.verdict = "Allow"
      BY <1>7, <2>1 DEF IsFileRule, Verdicts
    <2>3. \/ q.object.pattern.form # "exact" /\ OtherModeIn(R, path, mode)
          \/ q.object.pattern.form = "class" /\ NamesakeIn(R, path)
          \/ FoldedFrom(R, q)
      BY <1>1, <1>4, <1>7, <2>1, <2>2, AllowedSource
    <2>4. CASE FoldedFrom(R, q)
      <3>1. Unsound(Classified(Class[path])) /\ Class[path] # "Regular"
        BY <1>1, <1>2, <1>3, <1>4, <1>5, <1>7, <2>2, <2>4, FoldedElsewhere
      <3>2. QED BY <2>4, <3>1 DEF FoldedFrom
    <2>5. QED BY <1>6, <2>3, <2>4
  <1>8. CASE ExactRules(rules, path) # {}
    <2>1. InMask(rules, ExactRules(rules, path), mode)
      BY <1>8 DEF FilePermitted, BroadPermitted
    <2>2. PICK i \in ExactRules(rules, path) : rules[i].verdict = "Allow" /\ ModeOf(rules[i].action) = mode
      BY <2>1 DEF InMask
    <2>3. i \in DOMAIN rules /\ HasForm(rules[i], "exact") /\ rules[i].object.pattern.key = path
      BY <2>2 DEF ExactRules
    <2>4. IsFile(rules[i]) /\ rules[i].object.pattern.form = "exact" /\ Matches(rules[i].object.pattern, path)
      BY <2>3, ExactMatches DEF HasForm
    <2>5. QED BY <1>7, <2>2, <2>3, <2>4
  <1>9. CASE ExactRules(rules, path) = {} /\ Class[path] # "Regular" /\ (own # {} \/ HasSibling(rules, path))
    <2>1. own = {} \/ LastAllows(rules, own)
      BY <1>9 DEF FilePermitted, BroadPermitted
    <2>2. CASE own = {}
      BY <1>9, <2>2 DEF WhitelistedAsSibling
    <2>3. CASE own # {}
      <3>1. PICK i \in own : rules[i].verdict # "Deny"
        BY <2>1, <2>3 DEF LastAllows
      <3>2. i \in DOMAIN rules /\ HasForm(rules[i], "class") /\ rules[i].object.pattern.key = Class[path]
        BY <3>1 DEF ClassRules
      <3>3. IsFile(rules[i]) /\ rules[i].object.pattern.form = "class" /\ Matches(rules[i].object.pattern, path)
        BY <1>9, <3>2, ClassMatches DEF HasForm
      <3>4. QED BY <1>7, <1>9, <1>open, <3>1, <3>2, <3>3
    <2>4. QED BY <2>2, <2>3
  <1>10. CASE ExactRules(rules, path) = {} /\ ~(Class[path] # "Regular" /\ (own # {} \/ HasSibling(rules, path)))
    <2>1. FirstAllows(rules, PrefixesUnder(rules, path))
      BY <1>10 DEF FilePermitted, BroadPermitted
    <2>2. PICK i \in PrefixesUnder(rules, path) : rules[i].verdict # "Deny"
      BY <2>1 DEF FirstAllows
    <2>3. i \in DOMAIN rules /\ HasForm(rules[i], "prefix") /\ Matches(rules[i].object.pattern, path)
      BY <2>2 DEF PrefixesUnder, PrefixRules
    <2>4. IsFile(rules[i]) /\ rules[i].object.pattern.form = "prefix"
      BY <2>3 DEF HasForm
    <2>5. QED BY <1>7, <1>10, <1>open, <2>2, <2>3, <2>4
  <1>11. QED BY <1>8, <1>9, <1>10

(* Whatever an imported profile denies, and allows by no rule for the same    *)
(* mode, is denied after every pass and after linking, for every profile and *)
(* every order the HashMaps return rules in, but for the four cases the      *)
(* property names.                                                           *)
THEOREM DeniedAlwaysDenied == Spec => []DeniedStaysDenied
  BY RulesAlways, SourceAlways, SourceDenied, PTL

-----------------------------------------------------------------------------
(* What is permitted stays permitted. *)

\* The rules of a profile that only allows allow.
LEMMA SourcedAllows ==
    ASSUME NEW R, AllRaw(R), \A r \in R : r.verdict = "Allow", NEW q, Sourced(R, q)
    PROVE  q.verdict = "Allow"
  <1>1. ASSUME NEW r \in R, q = CanonicalRule(r) \/ q = Gen(r) PROVE q.verdict = "Allow"
    BY <1>1, GenFacts DEF AllRaw, SameButPattern
  <1>2. ASSUME NEW e \in R, e.action = "ProcExec", q \in Forms(e) PROVE q.verdict = "Allow"
    BY <1>2, GenFacts, FormsAreRules DEF AllRaw
  <1>3. ASSUME FoldedFrom(R, q) PROVE q.verdict = "Allow"
    BY <1>3 DEF FoldedFrom, SameButPattern
  <1>4. QED BY <1>1, <1>2, <1>3 DEF Sourced

AllAllow(s) == \A i \in DOMAIN s : s[i].verdict = "Allow"

LEMMA SomeAllows ==
    ASSUME NEW s, IsSequence(s), AllAllow(s), NEW T \in SUBSET DOMAIN s, T # {}
    PROVE  LastAllows(s, T) /\ FirstAllows(s, T)
  <1>1. Len(s) \in Nat /\ T \subseteq 0..Len(s) /\ T \subseteq Nat
    BY SequenceFacts
  <1>2. \E i \in T : \A j \in T : j <= i
    BY <1>1, GreatestIndex
  <1>3. \E i \in T : \A j \in T : i <= j
    BY <1>1, LeastIndex
  <1>4. \A i \in T : s[i].verdict # "Deny"
    BY DEF AllAllow
  <1>5. QED BY <1>2, <1>3, <1>4 DEF LastAllows, FirstAllows

LEMMA StoredFacts ==
    ASSUME NEW k, IsSequence(k)
    PROVE  /\ IsSequence(Stored(k)) /\ StartsWith(k, Stored(k)) /\ Len(Stored(k)) \in Nat
           /\ Len(Stored(k)) = IF Len(k) <= PREFIX_MAX_LEN THEN Len(k) ELSE PREFIX_MAX_LEN
  <1>0. Len(k) \in Nat /\ PREFIX_MAX_LEN \in Nat
    BY SequenceFacts, PathAssumption
  <1>1. CASE Len(k) <= PREFIX_MAX_LEN
    BY <1>0, <1>1, StartsReflexive DEF Stored
  <1>2. CASE ~(Len(k) <= PREFIX_MAX_LEN)
    <2>1. PREFIX_MAX_LEN \in 0..Len(k)
      BY <1>0, <1>2
    <2>2. Stored(k) = SubSeq(k, 1, PREFIX_MAX_LEN)
      BY <1>2 DEF Stored
    <2>3. QED BY <1>0, <1>2, <2>1, <2>2, HeadFacts, StartsHead
  <1>3. QED BY <1>1, <1>2

LEMMA LongerStored ==
    ASSUME NEW path, IsSequence(path), NEW k, IsSequence(k), StartsWith(path, k)
    PROVE  StartsWith(path, Stored(k))
  <1>1. IsSequence(Stored(k)) /\ StartsWith(k, Stored(k))
    BY StoredFacts
  <1>2. QED BY <1>1, StartsTransitive

LEMMA StartsNoLonger ==
    ASSUME NEW s, IsSequence(s), NEW t, IsSequence(t), StartsWith(s, t) PROVE Len(t) <= Len(s)
  <1>1. Len(s) \in Nat /\ Len(t) \in Nat
    BY SequenceFacts
  <1>2. 0 + Len(t) <= Len(s)
    BY DEF StartsWith, HasAt
  <1>3. QED BY <1>1, <1>2

\* What is above a pattern matches what it matches.
LEMMA AboveMatches ==
    ASSUME NEW a, NEW b, IsPattern(a), IsPattern(b), Above(a, b), NEW path \in Paths, Matches(b, path),
           b.form = "class" => ~Unsound(b)
    PROVE  Matches(a, path)
  <1>1. CASE a = b
    BY <1>1
  <1>2. CASE a # b
    <2> DEFINE ka == a.key
               kb == b.key
    <2>1. a.form = "prefix" /\ StartsWith(HeadOf(b), ka) /\ IsSequence(ka) /\ IsSequence(path)
      BY <1>2, PatternForms, PathAssumption DEF Above
    <2>2. CASE b.form = "exact"
      <3>1. path = kb /\ HeadOf(b) = kb
        BY <2>2, ExactMatches DEF HeadOf
      <3>2. StartsWith(path, ka)
        BY <2>1, <3>1
      <3> HIDE DEF ka
      <3>3. StartsWith(path, Stored(ka))
        BY <2>1, <3>2, LongerStored
      <3>4. QED BY <2>1, <3>3, PrefixMatches DEF ka
    <2>3. CASE b.form = "prefix"
      <3>1. StartsWith(path, Stored(kb)) /\ StartsWith(kb, ka) /\ IsSequence(kb)
        BY <2>1, <2>3, PrefixMatches, PatternForms DEF HeadOf
      <3> DEFINE sa == Stored(ka)
                 sb == Stored(kb)
      <3> HIDE DEF ka, kb
      <3>2. IsSequence(sa) /\ IsSequence(sb) /\ StartsWith(ka, sa) /\ StartsWith(kb, sb)
        BY <2>1, <3>1, StoredFacts
      <3>3. Len(sa) <= Len(sb)
        <4>1. Len(ka) <= Len(kb) /\ Len(ka) \in Nat /\ Len(kb) \in Nat
          BY <2>1, <3>1, StartsNoLonger, SequenceFacts
        <4>2. /\ Len(sa) = IF Len(ka) <= PREFIX_MAX_LEN THEN Len(ka) ELSE PREFIX_MAX_LEN
              /\ Len(sb) = IF Len(kb) <= PREFIX_MAX_LEN THEN Len(kb) ELSE PREFIX_MAX_LEN
          BY <2>1, <3>1, StoredFacts
        <4>3. QED BY <4>1, <4>2, PathAssumption
      <3> HIDE DEF sa, sb
      <3>4. StartsWith(kb, sa)
        BY <2>1, <3>1, <3>2, StartsTransitive
      <3>5. StartsWith(sb, sa)
        BY <3>1, <3>2, <3>3, <3>4, StartsShorter
      <3>6. StartsWith(path, sb)
        BY <3>1 DEF sb
      <3>7. StartsWith(path, sa)
        BY <2>1, <3>2, <3>5, <3>6, StartsTransitive
      <3>8. QED BY <2>1, <3>7, PrefixMatches DEF sa, ka
    <2>4. CASE b.form = "class"
      <3> DEFINE h == Root[b.key]
      <3>1. IsSequence(h) /\ StartsWith(path, h) /\ StartsWith(h, ka)
        BY <2>1, <2>4, SoundClass DEF HeadOf
      <3> HIDE DEF ka, h
      <3>2. StartsWith(path, ka)
        BY <2>1, <3>1, StartsTransitive
      <3>3. StartsWith(path, Stored(ka))
        BY <2>1, <3>2, LongerStored
      <3>4. QED BY <2>1, <3>3, PrefixMatches DEF ka
    <2>5. QED BY <2>2, <2>3, <2>4, PatternForms
  <1>3. QED BY <1>1, <1>2

\* The slots hold every prefix.
LEMMA SlotsSuffice ==
    ASSUME NEW s, IsSequence(s), Cardinality(PrefixRules(s)) <= MAX_PREFIX_SLOTS, NEW i \in PrefixRules(s)
    PROVE  Cardinality({j \in PrefixRules(s) : j < i}) < MAX_PREFIX_SLOTS
  <1> DEFINE P == PrefixRules(s)
             B == {j \in P : j < i}
  <1>1. IsFiniteSet(DOMAIN s) /\ P \subseteq DOMAIN s /\ DOMAIN s \subseteq Nat
    BY FiniteElements, SequenceFacts DEF PrefixRules
  <1>2. IsFiniteSet(P)
    BY <1>1, FS_Subset
  <1>3. IsFiniteSet(B) /\ B \subseteq P /\ i \in P /\ i \notin B
    BY <1>1, <1>2, FS_Subset
  <1> HIDE DEF P, B
  <1>4. Cardinality(B) < Cardinality(P)
    <2>1. Cardinality(B) <= Cardinality(P) /\ (Cardinality(B) = Cardinality(P) => B = P)
      BY <1>2, <1>3, FS_Subset
    <2>2. Cardinality(B) \in Nat /\ Cardinality(P) \in Nat
      BY <1>2, <1>3, FS_CardinalityType
    <2>3. QED BY <1>3, <2>1, <2>2
  <1>5. Cardinality(B) \in Nat /\ Cardinality(P) \in Nat
    BY <1>2, <1>3, FS_CardinalityType
  <1>6. QED BY <1>4, <1>5, PathAssumption DEF P, B

\* What the later tiers of rules that only allow decide for a path one of them is
\* about.
LEMMA BroadDecision ==
    ASSUME NEW s, IsSequence(s), AllAllow(s), Cardinality(PrefixRules(s)) <= MAX_PREFIX_SLOTS,
           NEW path \in Paths,
           \/ \E i \in DOMAIN s : /\ IsFile(s[i]) /\ Matches(s[i].object.pattern, path)
                                  /\ s[i].object.pattern.form \in {"prefix", "class"}
           \/ Class[path] # "Regular" /\ HasSibling(s, path)
    PROVE  BroadPermitted(s, path)
  <1> DEFINE own == ClassRules(s, {Class[path]})
             U == PrefixesUnder(s, path)
  <1>1. own \subseteq DOMAIN s /\ U \subseteq DOMAIN s
    BY DEF ClassRules, PrefixesUnder, PrefixRules
  <1>2. CASE Class[path] # "Regular" /\ (own # {} \/ HasSibling(s, path))
    <2>1. own = {} \/ LastAllows(s, own)
      BY <1>1, SomeAllows
    <2>2. QED BY <1>2, <2>1 DEF BroadPermitted
  <1>3. CASE ~(Class[path] # "Regular" /\ (own # {} \/ HasSibling(s, path)))
    <2>1. PICK i \in DOMAIN s : /\ IsFile(s[i]) /\ Matches(s[i].object.pattern, path)
                                /\ s[i].object.pattern.form \in {"prefix", "class"}
      BY <1>3
    <2>2. s[i].object.pattern.form # "class"
      <3> SUFFICES ASSUME s[i].object.pattern.form = "class" PROVE FALSE
        OBVIOUS
      <3>1. s[i].object.pattern.key # "Regular" /\ Class[path] = s[i].object.pattern.key
        BY <2>1, ClassMatches
      <3>2. i \in own
        BY <2>1, <3>1 DEF ClassRules, HasForm
      <3>3. QED BY <1>3, <3>1, <3>2
    <2>3. i \in PrefixRules(s)
      BY <2>1, <2>2 DEF PrefixRules, HasForm
    <2>4. i \in U
      BY <2>1, <2>3, SlotsSuffice DEF PrefixesUnder
    <2>5. FirstAllows(s, U)
      BY <1>1, <2>4, SomeAllows
    <2>6. QED BY <1>3, <2>5 DEF BroadPermitted
  <1>4. QED BY <1>2, <1>3

\* ... and what all tiers decide: what an exact entry allows, or what it hides.
LEMMA AllowDecision ==
    ASSUME NEW s, IsSequence(s), AllAllow(s), Cardinality(PrefixRules(s)) <= MAX_PREFIX_SLOTS,
           NEW path \in Paths, NEW mode,
           \/ \E i \in DOMAIN s : /\ IsFile(s[i]) /\ Matches(s[i].object.pattern, path)
                                  /\ s[i].object.pattern.form \in {"exact", "prefix", "class"}
                                  /\ s[i].object.pattern.form = "exact" => ModeOf(s[i].action) = mode
           \/ Class[path] # "Regular" /\ HasSibling(s, path)
    PROVE  \/ FilePermitted(s, path, mode)
           \/ /\ ExactRules(s, path) # {} /\ BroadPermitted(s, path)
              /\ \A i \in ExactRules(s, path) : ModeOf(s[i].action) # mode
  <1> DEFINE E == ExactRules(s, path)
  <1>1. E \subseteq DOMAIN s
    BY DEF ExactRules
  <1>2. ASSUME NEW i \in E, ModeOf(s[i].action) = mode PROVE FilePermitted(s, path, mode)
    <2>1. InMask(s, E, mode)
      BY <1>1, <1>2 DEF InMask, AllAllow
    <2>2. QED BY <1>2, <2>1 DEF FilePermitted
  <1>3. CASE \A i \in E : ModeOf(s[i].action) # mode
    <2>1. ASSUME NEW i \in DOMAIN s, IsFile(s[i]), Matches(s[i].object.pattern, path),
                 s[i].object.pattern.form = "exact"
          PROVE  i \in E
      <3>1. path = s[i].object.pattern.key
        BY <2>1, ExactMatches
      <3>2. QED BY <2>1, <3>1 DEF ExactRules, HasForm
    <2>2. \/ \E i \in DOMAIN s : /\ IsFile(s[i]) /\ Matches(s[i].object.pattern, path)
                                 /\ s[i].object.pattern.form \in {"prefix", "class"}
          \/ Class[path] # "Regular" /\ HasSibling(s, path)
      BY <1>3, <2>1
    <2>3. BroadPermitted(s, path)
      BY <2>2, BroadDecision
    <2>4. QED BY <1>3, <2>3 DEF FilePermitted
  <1>4. QED BY <1>2, <1>3

\* A rule for a single file comes from one, or from an exec rule.
LEMMA ExactSource ==
    ASSUME NEW R, AllRaw(R), NEW q, Sourced(R, q), HasForm(q, "exact")
    PROVE  \/ \E r \in R : /\ HasForm(r, "exact") /\ q = CanonicalRule(r) /\ r.action = q.action
                           /\ canonicalize_path(r.object.pattern.key) = q.object.pattern.key
           \/ \E e \in R : /\ e.action = "ProcExec" /\ q \in Forms(e)
                           /\ e.object.binary = q.object.pattern.key /\ ModeOf(q.action) = "read"
  <1>0. q.object.pattern.form = "exact"
    BY DEF HasForm
  <1>1. ASSUME NEW r \in R, q = CanonicalRule(r)
        PROVE  /\ HasForm(r, "exact") /\ r.action = q.action
               /\ canonicalize_path(r.object.pattern.key) = q.object.pattern.key
    BY <1>1, CanonicalExact, GenFacts DEF AllRaw, SameButPattern
  <1>2. ASSUME NEW r \in R, q = Gen(r) PROVE q = CanonicalRule(r)
    <2>1. IsRule(CanonicalRule(r))
      BY GenFacts DEF AllRaw
    <2>2. ~Filed(CanonicalRule(r))
      <3> SUFFICES ASSUME Filed(CanonicalRule(r)) PROVE FALSE
        OBVIOUS
      <3>1. \E x : q.object.pattern = Classified(x)
        BY <1>2, <2>1, GeneralRuleFacts DEF Gen
      <3>2. QED BY <1>0, <3>1 DEF Classified
    <2>3. QED BY <1>2, <2>1, <2>2, GeneralRuleFacts DEF Gen
  <1>3. ~FoldedFrom(R, q)
    BY <1>0 DEF FoldedFrom
  <1>4. ASSUME NEW e \in R, e.action = "ProcExec", q \in Forms(e)
        PROVE  e.object.binary = q.object.pattern.key /\ ModeOf(q.action) = "read"
    <2>1. IsRule(e)
      BY GenFacts DEF AllRaw
    <2>2. q.object.pattern = Exact(e.object.binary) /\ q.action \in {"FileOpen", "FileRead"}
      BY <1>4, <2>1, FormsAreRules
    <2>3. QED BY <2>2 DEF Exact, ModeOf
  <1>5. QED BY <1>1, <1>2, <1>3, <1>4 DEF Sourced

\* Something of the rules still matches what a frontend's rule covers.
LEMMA CoveredStays ==
    ASSUME NEW R, AllRaw(R), NEW S, AllStand(R, S), NEW path \in Paths, path \notin Misclassified,
           NEW r \in R, IsFileRule(r), Covers(r, path),
           HasForm(r, "class") => ~Unsound(r.object.pattern)
    PROVE  \E q \in S : /\ IsFileRule(q) /\ Matches(q.object.pattern, path) /\ q.action = r.action
                        /\ q.object.pattern.form = "exact" => HasForm(r, "exact")
  <1> DEFINE c == CanonicalRule(r)
             g == Gen(r)
             b == c.object.pattern
  <1>1. IsRawRule(r) /\ IsRule(c) /\ IsFileRule(c) /\ IsFileRule(g)
    BY GenFacts DEF AllRaw
  <1>2. Matches(b, path) /\ IsPattern(b)
    BY <1>1, CoversMatches DEF IsFileRule
  <1>3. PICK q \in S : StandsFor(q, r)
    BY DEF AllStand
  <1>4. IsFileRule(q) /\ q.action = r.action
    BY <1>3, RuleIsFile DEF StandsFor, IsFileRule
  <1>5. PICK p \in {c, g} : Above(q.object.pattern, p.object.pattern)
    BY <1>3 DEF StandsFor
  <1>exact. ASSUME q.object.pattern.form = "exact" PROVE HasForm(r, "exact")
    <2>1. p.object.pattern.form = "exact"
      BY <1>5, <1>exact DEF Above
    <2>2. c.object.pattern.form = "exact"
      <3>1. Filed(c) => \E x : g.object.pattern = Classified(x)
        BY <1>1, GeneralRuleFacts DEF Gen
      <3>2. ~Filed(c) => g = c
        BY <1>1, GeneralRuleFacts DEF Gen
      <3>3. \A x : Classified(x).form = "class"
        BY DEF Classified
      <3>4. QED BY <1>5, <2>1, <3>1, <3>2, <3>3
    <2>3. HasForm(c, "exact")
      BY <1>1, <2>2, RuleKinds DEF HasForm
    <2>4. QED BY <1>1, <2>3, CanonicalExact
  <1>6. CASE p = c
    <2>1. b.form = "class" => ~Unsound(b)
      <3> SUFFICES ASSUME b.form = "class" PROVE ~Unsound(b)
        OBVIOUS
      <3>1. ~HasForm(r, "exact")
        <4>1. HasForm(r, "exact") => b = Exact(canonicalize_path(r.object.pattern.key))
          BY <1>1, CanonicalRuleFacts
        <4>2. \A x : Exact(x).form = "exact"
          BY DEF Exact
        <4>3. QED BY <4>1, <4>2
      <3>2. ~HasForm(r, "prefix")
        <4>1. HasForm(r, "prefix") => b = Prefix(canonicalize_prefix(r.object.pattern.key))
          BY <1>1, CanonicalRuleFacts
        <4>2. \A x : Prefix(x).form = "prefix"
          BY DEF Prefix
        <4>3. QED BY <4>1, <4>2
      <3>3. c = r
        BY <1>1, <3>1, <3>2, CanonicalRuleFacts
      <3>4. HasForm(r, "class")
        BY <3>3, RuleKinds DEF HasForm
      <3>5. QED BY <3>3, <3>4
    <2>2. QED BY <1>2, <1>4, <1>5, <1>6, <1>exact, <2>1, AboveMatches DEF IsFileRule
  <1>7. CASE p = g /\ Filed(c)
    <2> DEFINE class == try_classify(c.object.pattern.key)
               d == g.object.pattern
    <2>1. d = Classified(class) /\ class \in ProcClasses
      BY <1>1, <1>7, GeneralRuleFacts DEF Gen
    <2>2. b.form = "exact" /\ class # "Regular"
      BY <1>1, <1>7, FileForms DEF Filed
    <2>3. path = b.key
      BY <1>2, <2>2, ExactMatches
    <2>4. class = Class[path]
      BY <2>2, <2>3 DEF Misclassified
    <2>5. d.form = "class" /\ d.key = class
      BY <2>1 DEF Classified
    <2>6. Matches(d, path)
      BY <2>2, <2>4, <2>5, ClassMatches
    <2>7. ~Unsound(d)
      <3>1. class \notin {"SysCgroupDocker", "SysCgroupOther"}
        BY <2>1 DEF ProcClasses, ProcWords, ProcWholeWords
      <3>2. d # Classified("SysCgroupDocker") /\ d # Classified("SysCgroupOther")
        BY <2>5, <3>1 DEF Classified
      <3>3. QED BY <2>5, <3>2 DEF Unsound
    <2>8. QED BY <1>1, <1>4, <1>5, <1>7, <1>exact, <2>6, <2>7, AboveMatches DEF IsFileRule
  <1>8. CASE p = g /\ ~Filed(c)
    <2>1. g = c
      BY <1>1, <1>8, GeneralRuleFacts DEF Gen
    <2>2. QED BY <1>6, <1>8, <2>1
  <1>9. QED BY <1>5, <1>6, <1>7, <1>8

LEMMA SourcePermitted == RulesInv /\ SourceInv => PermittedStaysPermitted
  <1> SUFFICES ASSUME RulesInv, SourceInv, Compiling, AllowOnly, PrefixesFit
               PROVE  /\ \A path \in Paths, mode \in Modes :
                            FilePermitted(raw, path, mode)
                                => \/ FilePermitted(rules, path, mode)
                                   \/ HiddenByExact(path, mode)
                                   \/ path \in Misclassified
                                   \/ SwallowedClass(path)
                                   \/ CutShort(path)
                      /\ \A path \in Paths : ExecPermitted(raw, path) => ExecPermitted(rules, path)
                      /\ \A d \in Destinations :
                            ConnectPermitted(raw, d[1], d[2]) => ConnectPermitted(rules, d[1], d[2])
    BY DEF PermittedStaysPermitted
  <1>1. CASE stage = "raw"
    <2>1. rules = raw
      BY <1>1 DEF RulesInv
    <2>2. QED BY <2>1
  <1>2. CASE stage # "raw"
    <2> DEFINE R == ToSet(raw)
               S == ToSet(rules)
    <2>1. /\ AllRaw(R) /\ AllSourced(R, S) /\ AllStand(R, S) /\ IsSequence(rules)
          /\ \A i \in DOMAIN raw : raw[i] \in R /\ IsRule(raw[i])
          /\ \A r \in R : \E i \in DOMAIN raw : r = raw[i]
          /\ \A i \in DOMAIN rules : rules[i] \in S /\ IsRule(rules[i]) /\ Sourced(R, rules[i])
          /\ \A q \in S : \E i \in DOMAIN rules : q = rules[i]
      BY <1>2 DEF RulesInv, SourceInv, AllRaw, AllSourced, Original, AreRules, ToSet
    <2>2. AllAllow(rules)
      <3>1. \A r \in R : r.verdict = "Allow"
        BY <2>1 DEF AllowOnly
      <3>2. QED BY <2>1, <3>1, SourcedAllows DEF AllAllow
    <2>4. ASSUME NEW path \in Paths, NEW mode \in Modes,
                 \/ \E q \in S : /\ IsFileRule(q) /\ Matches(q.object.pattern, path)
                                 /\ q.object.pattern.form = "exact" => ModeOf(q.action) = mode
                 \/ Class[path] # "Regular" /\ HasSibling(rules, path)
          PROVE  FilePermitted(rules, path, mode) \/ HiddenByExact(path, mode)
      <3>1. \A q \in S : IsFileRule(q) => IsFile(q) /\ q.object.pattern.form \in {"exact", "prefix", "class"}
        BY RuleKinds, PatternForms DEF IsFileRule
      <3>2. \/ \E i \in DOMAIN rules : /\ IsFile(rules[i]) /\ Matches(rules[i].object.pattern, path)
                                       /\ rules[i].object.pattern.form \in {"exact", "prefix", "class"}
                                       /\ rules[i].object.pattern.form = "exact" => ModeOf(rules[i].action) = mode
            \/ Class[path] # "Regular" /\ HasSibling(rules, path)
        BY <2>1, <2>4, <3>1
      <3>3. QED BY <2>1, <2>2, <3>2, AllowDecision DEF PrefixesFit, HiddenByExact
    <2>5. ASSUME NEW path \in Paths, NEW mode \in Modes, NEW r \in R, IsFileRule(r), Covers(r, path),
                 HasForm(r, "class") => ~Unsound(r.object.pattern),
                 HasForm(r, "exact") => ModeOf(r.action) = mode
          PROVE  FilePermitted(rules, path, mode) \/ HiddenByExact(path, mode) \/ path \in Misclassified
      BY <2>1, <2>4, <2>5, CoveredStays
    <2>6. ASSUME NEW path \in Paths, NEW mode \in Modes, FilePermitted(raw, path, mode)
          PROVE  \/ FilePermitted(rules, path, mode) \/ HiddenByExact(path, mode)
                 \/ path \in Misclassified \/ SwallowedClass(path) \/ CutShort(path)
      <3> DEFINE own == ClassRules(raw, {Class[path]})
      <3>1. CASE ExactRules(raw, path) # {}
        <4>1. PICK i \in ExactRules(raw, path) : ModeOf(raw[i].action) = mode
          BY <2>6, <3>1 DEF FilePermitted, InMask
        <4>2. i \in DOMAIN raw /\ HasForm(raw[i], "exact") /\ raw[i].object.pattern.key = path
          BY <4>1 DEF ExactRules
        <4>3. IsFileRule(raw[i]) /\ ~HasForm(raw[i], "class")
          BY <2>1, <4>2, FileForms DEF HasForm
        <4>4. canonicalize_path(raw[i].object.pattern.key) = path
          BY <4>2, ResolvedAssumption
        <4>5. Covers(raw[i], path)
          BY <4>2, <4>4, ExactCovers
        <4>6. QED BY <2>1, <2>5, <4>1, <4>2, <4>3, <4>5
      <3>2. CASE ExactRules(raw, path) = {} /\ Class[path] # "Regular" /\ (own # {} \/ HasSibling(raw, path))
        <4>1. ASSUME NEW i \in DOMAIN raw, HasForm(raw[i], "class"), Class[path] = raw[i].object.pattern.key
              PROVE  \/ FilePermitted(rules, path, mode) \/ HiddenByExact(path, mode)
                     \/ path \in Misclassified \/ SwallowedClass(path)
          <5>1. /\ IsFileRule(raw[i]) /\ raw[i].object.pattern.form = "class" /\ IsRawRule(raw[i])
                /\ ~HasForm(raw[i], "exact")
            BY <2>1, <4>1, FileForms DEF AllRaw, HasForm
          <5>2. Matches(raw[i].object.pattern, path)
            BY <3>2, <4>1, <5>1, ClassMatches
          <5>3. CASE ~Unsound(raw[i].object.pattern)
            <6>1. Covers(raw[i], path)
              BY <4>1, <5>2, ClassCovers
            <6>2. QED BY <2>1, <2>5, <5>1, <5>3, <6>1
          <5>4. CASE \E j \in DOMAIN rules : IsFile(rules[j]) /\ rules[j].object.pattern = raw[i].object.pattern
            <6>1. \E q \in S : /\ IsFileRule(q) /\ Matches(q.object.pattern, path)
                               /\ q.object.pattern.form # "exact"
              BY <2>1, <5>1, <5>2, <5>4, RuleIsFile
            <6>2. QED BY <2>4, <6>1
          <5>5. CASE /\ Unsound(raw[i].object.pattern)
                     /\ \A j \in DOMAIN rules : IsFile(rules[j]) => rules[j].object.pattern # raw[i].object.pattern
            BY <4>1, <5>5 DEF SwallowedClass
          <5>6. QED BY <5>3, <5>4, <5>5
        <4>2. CASE own # {}
          <5>1. PICK i \in own : TRUE
            BY <4>2
          <5>2. i \in DOMAIN raw /\ HasForm(raw[i], "class") /\ Class[path] = raw[i].object.pattern.key
            BY <5>1 DEF ClassRules
          <5>3. QED BY <4>1, <5>2
        <4>3. CASE own = {}
          <5>1. PICK grp \in CategoryGroups : Class[path] \in grp /\ ClassRules(raw, grp) # {}
            BY <3>2, <4>3 DEF HasSibling
          <5>2. PICK i \in ClassRules(raw, grp) : TRUE
            BY <5>1
          <5>3. i \in DOMAIN raw /\ HasForm(raw[i], "class") /\ raw[i].object.pattern.key \in grp
            BY <5>2 DEF ClassRules
          <5>4. Class[path] # raw[i].object.pattern.key
            BY <4>3, <5>3 DEF ClassRules
          <5>5. CASE \E j \in DOMAIN rules : IsFile(rules[j]) /\ rules[j].object.pattern = raw[i].object.pattern
            <6>1. PICK j \in DOMAIN rules : IsFile(rules[j]) /\ rules[j].object.pattern = raw[i].object.pattern
              BY <5>5
            <6>2. j \in ClassRules(rules, grp)
              BY <5>3, <6>1 DEF ClassRules, HasForm
            <6>3. HasSibling(rules, path)
              BY <5>1, <6>2 DEF HasSibling
            <6>4. QED BY <2>4, <3>2, <6>3
          <5>6. CASE \A j \in DOMAIN rules : IsFile(rules[j]) => rules[j].object.pattern # raw[i].object.pattern
            <6>1. {Class[path], raw[i].object.pattern.key} \subseteq grp
              BY <5>1, <5>3
            <6>2. QED BY <5>1, <5>3, <5>4, <5>6, <6>1 DEF SwallowedClass
          <5>7. QED BY <5>5, <5>6
        <4>4. QED BY <4>2, <4>3
      <3>3. CASE ExactRules(raw, path) = {} /\ ~(Class[path] # "Regular" /\ (own # {} \/ HasSibling(raw, path)))
        <4>1. FirstAllows(raw, PrefixesUnder(raw, path))
          BY <2>6, <3>3 DEF FilePermitted, BroadPermitted
        <4>2. PICK i \in PrefixesUnder(raw, path) : TRUE
          BY <4>1 DEF FirstAllows
        <4>3. i \in DOMAIN raw /\ HasForm(raw[i], "prefix") /\ Matches(raw[i].object.pattern, path)
          BY <4>2 DEF PrefixesUnder, PrefixRules
        <4>4. IsFileRule(raw[i]) /\ ~HasForm(raw[i], "class") /\ ~HasForm(raw[i], "exact")
          BY <2>1, <4>3, FileForms DEF HasForm
        <4>5. CASE Covers(raw[i], path)
          BY <2>1, <2>5, <4>3, <4>4, <4>5
        <4>6. CASE ~Covers(raw[i], path)
          BY <4>3, <4>6 DEF CutShort
        <4>7. QED BY <4>5, <4>6
      <3>4. QED BY <3>1, <3>2, <3>3
    <2>7. ASSUME NEW r \in R, ~IsFileRule(r)
          PROVE  \E i \in DOMAIN rules : rules[i].action = r.action /\ rules[i].object = r.object
      BY <2>1, <2>7 DEF AllStand, StandsFor
    <2>8. ASSUME NEW path \in Paths, ExecPermitted(raw, path) PROVE ExecPermitted(rules, path)
      <3>1. PICK i \in DOMAIN raw : raw[i].action = "ProcExec" /\ raw[i].object.binary = path
        BY <2>8 DEF ExecPermitted, LastAllows
      <3>2. ~IsFileRule(raw[i])
        BY <3>1 DEF IsFileRule, FileActions
      <3>3. PICK j \in DOMAIN rules : rules[j].action = raw[i].action /\ rules[j].object = raw[i].object
        BY <2>1, <2>7, <3>2
      <3> DEFINE T == {k \in DOMAIN rules : rules[k].action = "ProcExec" /\ rules[k].object.binary = path}
      <3>4. T # {} /\ T \subseteq DOMAIN rules
        BY <3>1, <3>3
      <3> HIDE DEF T
      <3>5. LastAllows(rules, T)
        BY <2>1, <2>2, <3>4, SomeAllows
      <3>6. QED BY <3>5 DEF ExecPermitted, T
    <2>9. ASSUME NEW ip, NEW port, ConnectRules(raw, ip, port) # {}
          PROVE  ConnectRules(rules, ip, port) # {}
      <3>1. PICK i \in ConnectRules(raw, ip, port) : TRUE
        BY <2>9
      <3>2. i \in DOMAIN raw /\ raw[i].action = "NetConnect"
        BY <3>1 DEF ConnectRules
      <3>3. ~IsFileRule(raw[i])
        BY <3>2 DEF IsFileRule, FileActions
      <3>4. PICK j \in DOMAIN rules : rules[j].action = raw[i].action /\ rules[j].object = raw[i].object
        BY <2>1, <2>7, <3>2, <3>3
      <3>5. j \in ConnectRules(rules, ip, port)
        BY <3>1, <3>4 DEF ConnectRules
      <3>6. QED BY <3>5
    <2>10. ASSUME NEW ip, NEW port, ConnectPermitted(raw, ip, port) PROVE ConnectPermitted(rules, ip, port)
      <3>1. ConnectRules(raw, ip, port) # {} \/ ConnectRules(raw, ip, 0) # {}
        BY <2>10 DEF ConnectPermitted, LastAllows
      <3> DEFINE T == IF ConnectRules(rules, ip, port) # {} THEN ConnectRules(rules, ip, port)
                      ELSE ConnectRules(rules, ip, 0)
      <3>2. ConnectRules(rules, ip, port) # {} \/ ConnectRules(rules, ip, 0) # {}
        BY <2>9, <3>1
      <3>3. T # {}
        BY <3>2
      <3>4. T \subseteq DOMAIN rules
        BY DEF ConnectRules
      <3> HIDE DEF T
      <3>5. LastAllows(rules, T)
        BY <2>1, <2>2, <3>3, <3>4, SomeAllows
      <3>6. QED BY <3>5 DEF ConnectPermitted, T
    <2>11. QED BY <2>6, <2>8, <2>10
  <1>3. QED BY <1>1, <1>2

(* No pass narrows a policy that only allows, for every profile and in every  *)
(* order the HashMaps return rules in, but for the cases the property names: *)
(* a program that was let do something still is once the policy is compiled. *)
THEOREM PermittedAlwaysPermitted == Spec => []PermittedStaysPermitted
  BY RulesAlways, SourceAlways, SourcePermitted, PTL

-----------------------------------------------------------------------------
(* What optimizing a recorded profile opens. *)

\* Canonicalization and generalization leave a recorded rule alone.
LEMMA LearnedUnchanged ==
    ASSUME NEW r, IsLearnedRule(r) PROVE CanonicalRule(r) = r /\ GeneralRule(r) = r /\ Gen(r) = r
  <1>0. IsRule(r) /\ IsRawRule(r)
    BY LearnedIsRaw DEF IsLearnedRule
  <1>1. ~HasForm(r, "prefix")
    BY <1>0, FileForms DEF IsLearnedRule
  <1>2. CanonicalRule(r) = r
    <2>1. CASE ~HasForm(r, "exact")
      BY <1>0, <1>1, <2>1, CanonicalRuleFacts
    <2>2. CASE HasForm(r, "exact")
      <3> DEFINE p == r.object.pattern
      <3>1. IsFileRule(r) /\ p.form = "exact"
        BY <1>0, <2>2, FileForms
      <3>2. p.key \in Paths
        BY <3>1 DEF IsLearnedRule
      <3>3. canonicalize_path(p.key) = p.key
        BY <3>2, ResolvedAssumption
      <3>4. p = Exact(p.key)
        BY <3>1, PatternForms DEF IsFileRule
      <3>5. CanonicalRule(r) = WithPattern(r, p)
        BY <2>2, <3>3, <3>4 DEF CanonicalRule
      <3>6. WithPattern(r, p) = r
        BY <3>1 DEF WithPattern, IsFileRule, NewRule, File
      <3>7. QED BY <3>5, <3>6
    <2>3. QED BY <2>1, <2>2
  <1>3. ~Filed(r)
    <2> SUFFICES ASSUME Filed(r) PROVE FALSE
      OBVIOUS
    <2>1. IsFileRule(r) /\ r.object.pattern.form = "exact" /\ StartsWith(r.object.pattern.key, "/proc/")
      BY <1>0, FileForms, GeneralRuleFacts DEF Filed
    <2>2. r.object.pattern.key \in Paths /\ Class[r.object.pattern.key] = "Regular"
      BY <2>1 DEF IsLearnedRule
    <2>3. QED BY <2>1, <2>2, ClassRoot
  <1>4. GeneralRule(r) = r
    BY <1>0, <1>3, GeneralRuleFacts
  <1>5. QED BY <1>2, <1>4 DEF Gen

\* Rules of one signature and verdict are the same.
LEMMA RuleEqual ==
    ASSUME NEW q, NEW r, IsRule(q), IsRule(r), signature(q) = signature(r), q.verdict = r.verdict
    PROVE  q = r
  <1>1. q.subject = r.subject /\ q.object = r.object /\ q.action = r.action
    BY SignatureParts
  <1>2. ASSUME NEW x, IsRule(x) PROVE x = NewRule(x.subject, x.object, x.action, x.verdict)
    <2>1. CASE IsFileRule(x)
      BY <2>1 DEF IsFileRule, NewRule
    <2>2. CASE IsProcessRule(x)
      BY <2>2 DEF IsProcessRule, NewRule
    <2>3. CASE IsNetworkRule(x)
      BY <2>3 DEF IsNetworkRule, NewRule
    <2>4. QED BY <1>2, <2>1, <2>2, <2>3 DEF IsRule
  <1>3. QED BY <1>1, <1>2

AllLearned(R) == \A r \in R : IsLearnedRule(r)

\* Up to generalization the rules are the recorded ones.
LEMMA LearnedKept ==
    ASSUME NEW R, AllLearned(R), NEW S, Deduplicated(R, S) \/ Generalized(R, S) PROVE S = R
  <1>1. \A r \in R : CanonicalRule(r) = r /\ Gen(r) = r /\ IsRule(r) /\ r.verdict = "Allow"
    BY LearnedUnchanged DEF AllLearned, IsLearnedRule
  <1>2. S \subseteq R
    BY <1>1 DEF Deduplicated, Generalized
  <1>3. ASSUME NEW r \in R PROVE r \in S
    <2>1. PICK o \in R : signature(o) = signature(r) /\ o \in S
      BY <1>1 DEF Deduplicated, Generalized
    <2>2. o = r
      BY <1>1, <2>1, RuleEqual
    <2>3. QED BY <2>1, <2>2
  <1>4. QED BY <1>2, <1>3

Distinct(s) == \A i, j \in DOMAIN s : s[i] = s[j] => i = j

LEMMA DedupDistinct ==
    ASSUME NEW s, NEW t \in Dedup(s) PROVE Distinct(t)
  <1> DEFINE S == FirstOfSignature(s)
             n == Cardinality(S)
  <1>1. t \in [1..n -> S] /\ \A i, j \in 1..n : i # j => t[i] # t[j]
    BY DEF Dedup, SetToSeqs
  <1>2. QED BY <1>1 DEF Distinct

LEMMA GeneralDistinct ==
    ASSUME NEW s, IsSequence(s), AllLearned(ToSet(s)), Distinct(s) PROVE Distinct(Generalize(s))
  <1>1. DOMAIN Generalize(s) = DOMAIN s /\ \A i \in DOMAIN s : Generalize(s)[i] = GeneralRule(s[i])
    BY DEF Generalize
  <1>2. \A i \in DOMAIN s : GeneralRule(s[i]) = s[i]
    BY LearnedUnchanged DEF AllLearned, ToSet
  <1>3. QED BY <1>1, <1>2 DEF Distinct

\* The name of a file tells the files of a directory apart.
LEMMA LeafDetermines ==
    ASSUME NEW k, IsSequence(k), NEW l, IsSequence(l), NEW d, IsSequence(d),
           StartsWith(k, d), StartsWith(l, d), Leaf(k, d) = Leaf(l, d)
    PROVE  k = l
  <1> DEFINE m == Len(d)
             a == SubSeq(k, m + 1, Len(k))
             b == SubSeq(l, m + 1, Len(l))
  <1>1. /\ Len(k) \in Nat /\ Len(l) \in Nat /\ m \in Nat
        /\ k = [i \in 1..Len(k) |-> k[i]] /\ l = [i \in 1..Len(l) |-> l[i]]
    BY SequenceFacts
  <1>2. m <= Len(k) /\ m <= Len(l)
    BY StartsNoLonger
  <1>3. \A i \in 1..m : k[i] = d[i] /\ l[i] = d[i]
    <2>1. \A i \in 1..m : k[0 + i] = d[i]
      BY HasAtElements DEF StartsWith
    <2>2. \A i \in 1..m : l[0 + i] = d[i]
      BY HasAtElements DEF StartsWith
    <2>3. QED BY <1>1, <2>1, <2>2
  <1>4. a = b
    BY DEF Leaf
  <1>5. Len(a) = Len(k) - m /\ \A i \in 1..(Len(k) - m) : a[i] = k[m + i]
    BY <1>1, <1>2
  <1>6. Len(b) = Len(l) - m /\ \A i \in 1..(Len(l) - m) : b[i] = l[m + i]
    BY <1>1, <1>2
  <1> HIDE DEF a, b, m
  <1>7. Len(k) = Len(l)
    <2> DEFINE x == Len(k)
               y == Len(l)
    <2>1. x \in Nat /\ y \in Nat /\ m \in Nat
      BY <1>1
    <2>2. x - m = y - m
      BY <1>4, <1>5, <1>6
    <2> HIDE DEF x, y
    <2>3. x = y
      BY <2>1, <2>2
    <2>4. QED BY <2>3 DEF x, y
  <1>8. ASSUME NEW i \in 1..Len(k) PROVE k[i] = l[i]
    <2>1. CASE i <= m
      BY <1>1, <1>3, <2>1
    <2>2. CASE ~(i <= m)
      <3> DEFINE j == i - m
      <3>1. j \in 1..(Len(k) - m) /\ m + j = i
        BY <1>1, <2>2
      <3> HIDE DEF j
      <3>2. QED BY <1>4, <1>5, <1>6, <1>7, <3>1
    <2>3. QED BY <2>1, <2>2
  <1>9. QED BY <1>1, <1>7, <1>8

\* The files of R in the directory of r that are accessed as r is, and what
\* folding asks of their names.
Siblings(R, dir, r) ==
    {s \in R : /\ HasForm(s, "exact") /\ s.subject = r.subject /\ s.action = r.action
               /\ parent_dir(s.object.pattern.key) = dir}

ClusterOf(R, dir, r) ==
    LET names == {Leaf(s.object.pattern.key, dir) : s \in Siblings(R, dir, r)}
    IN  /\ Cardinality(names) >= prefix_min_cluster
        /\ Depth(dir) >= prefix_min_depth /\ dir \notin sensitive_roots
        /\ leaves_look_generated(names)

Clustered(R, q) ==
    \E r \in R : /\ HasForm(r, "exact") /\ q.object.pattern.key = parent_dir(r.object.pattern.key)
                 /\ ClusterOf(R, parent_dir(r.object.pattern.key), r)

LEMMA FoldedCluster ==
    ASSUME NEW s, AreRules(s), AllLearned(ToSet(s)), Distinct(s), NEW b \in Collapsed(s)
    PROVE  Clustered(ToSet(s), FoldedRule(b))
  <1> DEFINE R == ToSet(s)
             M == Members(s, b)
             key(i) == s[i].object.pattern.key
  <1>1. Collapses(s, b) /\ \E i \in Candidates(s) : b = Bucket(s[i])
    BY DEF Collapsed
  <1>2. PICK i0 \in Candidates(s) : b = Bucket(s[i0])
    BY <1>1
  <1> DEFINE r == s[i0]
             dir == parent_dir(r.object.pattern.key)
             T == Siblings(R, dir, r)
             names == {Leaf(x.object.pattern.key, dir) : x \in T}
             leaves == {Leaf(s[i].object.pattern.key, b.dir) : i \in M}
  <1>3. i0 \in DOMAIN s /\ HasForm(r, "exact") /\ dir # "" /\ r \in R
    BY <1>2 DEF Candidates, ToSet
  <1>4. /\ b.dir = dir /\ b.subject = r.subject /\ b.action = r.action /\ b.verdict = r.verdict
        /\ \A i \in DOMAIN s : /\ s[i] \in R /\ IsRule(s[i]) /\ s[i].verdict = "Allow"
                               /\ HasForm(s[i], "exact") => ~s[i].object.is_sensitive
    <2>1. b.dir = dir /\ b.subject = r.subject /\ b.action = r.action /\ b.verdict = r.verdict
      BY <1>2, BucketFacts
    <2>2. ASSUME NEW x \in R PROVE IsRule(x) /\ x.verdict = "Allow" /\ (HasForm(x, "exact") => ~x.object.is_sensitive)
      <3>1. IsLearnedRule(x)
        BY DEF AllLearned
      <3>2. IsRule(x) /\ x.verdict = "Allow"
        BY <3>1 DEF IsLearnedRule
      <3>3. ASSUME HasForm(x, "exact") PROVE ~x.object.is_sensitive
        BY <3>1, <3>2, <3>3, FileForms DEF IsLearnedRule
      <3>4. QED BY <3>2, <3>3
    <2>3. \A i \in DOMAIN s : s[i] \in R
      BY DEF ToSet
    <2>4. QED BY <2>1, <2>2, <2>3
  <1>5. ASSUME NEW i \in DOMAIN s PROVE i \in M <=> s[i] \in T
    <2>1. ASSUME i \in M PROVE s[i] \in T
      <3>1. HasForm(s[i], "exact") /\ Bucket(s[i]) = b
        BY <2>1 DEF Members, Candidates
      <3>2. QED BY <1>4, <3>1, BucketFacts DEF Siblings
    <2>2. ASSUME s[i] \in T PROVE i \in M
      <3>1. /\ HasForm(s[i], "exact") /\ s[i].subject = r.subject /\ s[i].action = r.action
            /\ parent_dir(key(i)) = dir
        BY <2>2 DEF Siblings
      <3>2. i \in Candidates(s)
        BY <1>3, <1>4, <3>1 DEF Candidates
      <3>3. Bucket(s[i]) = Bucket(r)
        BY <1>3, <1>4, <3>1 DEF Bucket
      <3>4. QED BY <1>2, <3>2, <3>3 DEF Members
    <2>3. QED BY <2>1, <2>2
  <1>6. M \subseteq DOMAIN s
    BY DEF Members, Candidates
  <1>7. leaves = names
    <2>1. T = {s[i] : i \in M}
      BY <1>5, <1>6 DEF ToSet, Siblings
    <2> HIDE DEF T, M
    <2>2. QED BY <1>4, <2>1
  <1>8. Cardinality(M) <= Cardinality(names)
    <2> DEFINE f == [i \in M |-> Leaf(key(i), dir)]
    <2>1. f \in [M -> leaves]
      BY <1>4
    <2>2. ASSUME NEW i \in M, NEW j \in M, f[i] = f[j] PROVE i = j
      <3> DEFINE x == s[i]
                 y == s[j]
      <3>1. /\ HasForm(x, "exact") /\ x.subject = r.subject /\ x.action = r.action
            /\ parent_dir(key(i)) = dir /\ i \in DOMAIN s
        BY <1>5, <1>6 DEF Siblings
      <3>2. /\ HasForm(y, "exact") /\ y.subject = r.subject /\ y.action = r.action
            /\ parent_dir(key(j)) = dir /\ j \in DOMAIN s
        BY <1>5, <1>6 DEF Siblings
      <3>3. IsFileRule(x) /\ IsFileRule(y) /\ x.object.pattern.form = "exact" /\ y.object.pattern.form = "exact"
        BY <1>4, <3>1, <3>2, FileForms
      <3>4. /\ IsSequence(key(i)) /\ x.object.pattern = Exact(key(i))
            /\ IsSequence(key(j)) /\ y.object.pattern = Exact(key(j))
        BY <3>3, PatternForms DEF IsFileRule
      <3>5. /\ IsSequence(dir) /\ StartsWith(key(i), dir) /\ StartsWith(key(j), dir)
        <4>1. dir = parent_dir(key(i)) /\ dir = parent_dir(key(j))
          BY <3>1, <3>2
        <4>2. IsSequence(dir) /\ StartsWith(key(i), dir)
          BY <1>3, <3>4, <4>1, ParentDir
        <4>3. StartsWith(key(j), dir)
          BY <1>3, <3>4, <4>1, ParentDir
        <4>4. QED BY <4>2, <4>3
      <3>6. Leaf(key(i), dir) = Leaf(key(j), dir)
        BY <2>2
      <3> DEFINE ki == key(i)
                 kj == key(j)
      <3> HIDE DEF ki, kj, dir
      <3>7. ki = kj
        BY <3>4, <3>5, <3>6, LeafDetermines DEF ki, kj
      <3>8. x.object.pattern = y.object.pattern
        BY <3>4, <3>7 DEF ki, kj
      <3>9. /\ x.object.is_sensitive \in BOOLEAN /\ y.object.is_sensitive \in BOOLEAN
            /\ ~x.object.is_sensitive /\ ~y.object.is_sensitive
        BY <1>4, <3>1, <3>2, <3>3 DEF IsFileRule
      <3>10. x.object.is_sensitive = y.object.is_sensitive
        BY <3>9
      <3>11. /\ x = NewRule(x.subject, File(x.object.pattern, x.object.is_sensitive), x.action, x.verdict)
             /\ y = NewRule(y.subject, File(y.object.pattern, y.object.is_sensitive), y.action, y.verdict)
        BY <3>3 DEF IsFileRule
      <3>12. x.verdict = y.verdict
        BY <1>4, <3>1, <3>2
      <3> HIDE DEF x, y
      <3>13. x = y
        BY <3>1, <3>2, <3>8, <3>10, <3>11, <3>12
      <3>14. QED BY <3>1, <3>2, <3>13 DEF Distinct, x, y
    <2>3. IsFiniteSet(M) /\ IsFiniteSet(leaves)
      <3>1. IsFiniteSet(M)
        BY <1>6, FiniteElements, FS_Subset DEF AreRules
      <3>2. leaves = {f[i] : i \in M}
        BY <1>4
      <3> HIDE DEF f, leaves, M
      <3>3. QED BY <3>1, <3>2, FiniteImage
    <2> HIDE DEF f, leaves, M
    <2>4. f \in Injection(M, leaves)
      BY <2>1, <2>2 DEF Injection, IsInjective
    <2>5. Cardinality(M) <= Cardinality(leaves)
      BY <2>3, <2>4, FS_Injection
    <2>6. QED BY <1>7, <2>5 DEF leaves
  <1>9. IsFiniteSet(M) /\ IsFiniteSet(names) /\ Cardinality(M) \in Nat /\ Cardinality(names) \in Nat
    <2>1. IsFiniteSet(M)
      BY <1>6, FiniteElements, FS_Subset DEF AreRules
    <2> DEFINE f == [i \in M |-> Leaf(key(i), dir)]
    <2>2. leaves = {f[i] : i \in M}
      BY <1>4
    <2> HIDE DEF f, leaves, M, names
    <2>3. IsFiniteSet(leaves)
      BY <2>1, <2>2, FiniteImage
    <2>4. QED BY <1>7, <2>1, <2>3, FS_CardinalityType
  <1>10. /\ Cardinality(M) >= prefix_min_cluster /\ dir_generalizable(dir) /\ leaves_look_generated(names)
    BY <1>1, <1>4, <1>7 DEF Collapses
  <1>11. Cardinality(names) >= prefix_min_cluster
    <2> HIDE DEF M, names
    <2>1. QED BY <1>8, <1>9, <1>10, ConfigAssumption
  <1>12. ClusterOf(R, dir, r)
    BY <1>10, <1>11 DEF ClusterOf, dir_generalizable
  <1>13. FoldedRule(b).object.pattern.key = dir
    BY <1>4 DEF FoldedRule, NewRule, File, Prefix
  <1>14. QED BY <1>3, <1>12, <1>13 DEF Clustered

\* Every prefix in a recorded profile's rules is of a cluster.
PrefixesClustered(R, S) == \A q \in S : HasForm(q, "prefix") => Clustered(R, q)

LearnedInv ==
    input.learned =>
        /\ stage \in {"dedup", "general"} => Distinct(rules)
        /\ Compiling /\ stage # "raw" => PrefixesClustered(ToSet(raw), ToSet(rules))

LEMMA NoLearnedPrefix ==
    ASSUME NEW R, AllLearned(R) PROVE PrefixesClustered(R, R)
  BY FileForms DEF AllLearned, IsLearnedRule, PrefixesClustered

LEMMA LearnedInit == Init => LearnedInv
  BY DEF Init, LearnedInv, Compiling

LEMMA LearnedNext == RulesInv /\ SourceInv /\ SourceInv' /\ LearnedInv /\ [Next]_vars => LearnedInv'
  <1> SUFFICES ASSUME RulesInv, SourceInv, SourceInv', LearnedInv, [Next]_vars, input'.learned PROVE LearnedInv'
    BY DEF LearnedInv
  <1> DEFINE R == ToSet(raw)
             S == ToSet(rules)
  <1>0. input' = input /\ input.learned
    BY DEF Next, vars, ReadProfile, RunPass, LinkRules, Lower, Reimport, Pass
  <1>1. AllLearned(R) /\ AreRules(rules) /\ IsSequence(rules)
    BY <1>0 DEF RulesInv, AllLearned, Original, AreRules
  <1>2. CASE ReadProfile
    BY <1>2 DEF ReadProfile, LearnedInv, Compiling
  <1>3. ASSUME NEW from, NEW to, NEW results, Pass(from, to, results), to \notin {"dedup", "general"},
               \A t \in results : PrefixesClustered(R, ToSet(t))
        PROVE  LearnedInv'
    BY <1>3 DEF LearnedInv, Pass
  <1>4. CASE RunPass
    <2>1. CASE Pass("raw", "canonical", {Canonicalize(rules)})
      <3>1. raw' = raw /\ stage' = "canonical" /\ Deduplicated(R, ToSet(rules'))
        BY <2>1 DEF Pass, SourceInv
      <3>2. ToSet(rules') = R
        BY <1>1, <3>1, LearnedKept
      <3>3. QED BY <1>1, <3>1, <3>2, NoLearnedPrefix DEF LearnedInv
    <2>2. CASE Pass("canonical", "dedup", Dedup(rules))
      <3>1. raw' = raw /\ stage' = "dedup" /\ rules' \in Dedup(rules) /\ Deduplicated(R, ToSet(rules'))
        BY <2>2 DEF Pass, SourceInv
      <3>2. ToSet(rules') = R
        BY <1>1, <3>1, LearnedKept
      <3>3. Distinct(rules')
        BY <3>1, DedupDistinct
      <3>4. QED BY <1>1, <3>1, <3>2, <3>3, NoLearnedPrefix DEF LearnedInv, Distinct
    <2>3. CASE Pass("dedup", "general", {Generalize(rules)})
      <3>1. /\ raw' = raw /\ stage = "dedup" /\ stage' = "general" /\ rules' = Generalize(rules)
            /\ Generalized(R, ToSet(rules')) /\ Deduplicated(R, S)
        BY <2>3 DEF Pass, SourceInv
      <3>2. ToSet(rules') = R
        BY <1>1, <3>1, LearnedKept
      <3>3. S = R
        BY <1>1, <3>1, LearnedKept
      <3>4. Distinct(rules)
        BY <1>0, <3>1 DEF LearnedInv
      <3>5. Distinct(rules')
        BY <1>1, <3>1, <3>3, <3>4, GeneralDistinct
      <3>6. QED BY <1>1, <3>1, <3>2, <3>5, NoLearnedPrefix DEF LearnedInv, Distinct
    <2>4. CASE Pass("general", "prefix", PrefixGeneralize(rules))
      <3>1. stage = "general" /\ Generalized(R, S)
        BY <2>4 DEF Pass, SourceInv
      <3>2. S = R
        BY <1>1, <3>1, LearnedKept
      <3>3. Distinct(rules)
        BY <1>0, <3>1 DEF LearnedInv
      <3>4. ASSUME NEW t \in PrefixGeneralize(rules) PROVE PrefixesClustered(R, ToSet(t))
        <4>1. \A q \in ToSet(t) : q \in S \/ \E b \in Collapsed(rules) : q = FoldedRule(b)
          BY <1>1, PrefixGeneralizeFacts
        <4>2. \A b \in Collapsed(rules) : Clustered(R, FoldedRule(b))
          BY <1>1, <3>2, <3>3, FoldedCluster
        <4>3. PrefixesClustered(R, S)
          BY <1>1, <3>2, NoLearnedPrefix
        <4>4. QED BY <4>1, <4>2, <4>3 DEF PrefixesClustered
      <3>5. QED BY <1>3, <2>4, <3>4
    <2>5. CASE Pass("prefix", "subsumed", {Subsume(rules)})
      <3>1. PrefixesClustered(R, S)
        BY <1>0, <2>5 DEF Pass, LearnedInv, Compiling
      <3>2. PrefixesClustered(R, ToSet(Subsume(rules)))
        BY <1>1, <3>1, SubsumeFacts DEF PrefixesClustered
      <3>3. QED BY <1>3, <2>5, <3>2
    <2>6. CASE Pass("subsumed", "optimized", Dedup(rules))
      <3>1. PrefixesClustered(R, S)
        BY <1>0, <2>6 DEF Pass, LearnedInv, Compiling
      <3>2. \A t \in Dedup(rules) : PrefixesClustered(R, ToSet(t))
        BY <1>1, <3>1, DedupFacts DEF PrefixesClustered
      <3>3. QED BY <1>3, <2>6, <3>2
    <2>7. QED BY <1>4, <2>1, <2>2, <2>3, <2>4, <2>5, <2>6 DEF RunPass
  <1>5. CASE LinkRules
    <2>1. Pass("optimized", "linked", {Link(rules)}) \/ Pass("canonical", "linked", {Link(rules)})
      BY <1>5 DEF LinkRules
    <2>2. PrefixesClustered(R, S)
      BY <1>0, <2>1 DEF Pass, LearnedInv, Compiling
    <2>3. ASSUME NEW f, LinkedFrom(S, f) PROVE ~HasForm(f, "prefix")
      <3>1. PICK e \in S : e.action = "ProcExec" /\ f \in Forms(e)
        BY <2>3 DEF LinkedFrom
      <3>2. f.object.pattern = Exact(e.object.binary)
        BY <1>1, <3>1, FormsAreRules DEF AreRules
      <3>3. QED BY <3>2 DEF Exact, HasForm
    <2>4. PrefixesClustered(R, ToSet(Link(rules)))
      BY <1>1, <2>2, <2>3, LinkFacts DEF PrefixesClustered
    <2>5. QED BY <1>3, <2>1, <2>4
  <1>6. CASE Lower
    BY <1>0, <1>6 DEF Lower, LearnedInv, Compiling
  <1>7. CASE Reimport
    BY <1>7 DEF Reimport, LearnedInv, Compiling
  <1>8. CASE UNCHANGED vars
    BY <1>0, <1>8 DEF vars, LearnedInv, Compiling
  <1>9. QED BY <1>2, <1>4, <1>5, <1>6, <1>7, <1>8 DEF Next

LEMMA LearnedAlways == Spec => []LearnedInv
  BY RulesAlways, SourceAlways, LearnedInit, LearnedNext, PTL DEF Spec

LEMMA LearnedWidening == RulesInv /\ SourceInv /\ LearnedInv => WideningBounded
  <1> DEFINE Opened(path) ==
                 \E i \in DOMAIN raw :
                     /\ HasForm(raw[i], "exact")
                     /\ LET dir   == parent_dir(raw[i].object.pattern.key)
                            names == {Leaf(s.object.pattern.key, dir) : s \in SiblingsIn(dir, raw[i])}
                        IN  /\ StartsWith(path, dir)
                            /\ Cardinality(names) >= prefix_min_cluster
                            /\ Depth(dir) >= prefix_min_depth
                            /\ dir \notin sensitive_roots
                            /\ leaves_look_generated(names)
  <1> SUFFICES ASSUME RulesInv, SourceInv, LearnedInv, Compiling, input.learned,
                      NEW path \in Paths, NEW mode \in Modes, FilePermitted(rules, path, mode)
               PROVE  \/ FilePermitted(raw, path, mode)
                      \/ mode = "read" /\ ExecPermitted(raw, path)
                      \/ Opened(path)
    BY DEF WideningBounded
  <1> HIDE DEF Opened
  <1>1. CASE stage = "raw"
    <2>1. rules = raw
      BY <1>1 DEF RulesInv
    <2>2. QED BY <2>1
  <1>2. CASE stage # "raw"
    <2> DEFINE R == ToSet(raw)
               own == ClassRules(rules, {Class[path]})
               rawOwn == ClassRules(raw, {Class[path]})
    <2>1. /\ AllRaw(R) /\ AllLearned(R) /\ IsSequence(raw)
          /\ \A i \in DOMAIN raw : raw[i] \in R /\ IsRule(raw[i]) /\ IsLearnedRule(raw[i])
          /\ \A r \in R : \E i \in DOMAIN raw : r = raw[i]
          /\ \A i \in DOMAIN rules : /\ rules[i] \in ToSet(rules) /\ IsRule(rules[i]) /\ Sourced(R, rules[i])
                                     /\ HasForm(rules[i], "prefix") => Clustered(R, rules[i])
      BY <1>2 DEF RulesInv, SourceInv, LearnedInv, PrefixesClustered, AllRaw, AllLearned, AllSourced,
                  Original, AreRules, ToSet
    <2>2. AllAllow(raw)
      BY <2>1 DEF AllAllow, IsLearnedRule
    <2>3. \A r \in R : CanonicalRule(r) = r /\ Gen(r) = r
      BY <2>1, LearnedUnchanged DEF AllLearned
    <2>4. ASSUME ExactRules(raw, path) # {} PROVE Class[path] = "Regular"
      <3>1. PICK i \in DOMAIN raw : HasForm(raw[i], "exact") /\ raw[i].object.pattern.key = path
        BY <2>4 DEF ExactRules
      <3>2. IsFileRule(raw[i]) /\ raw[i].object.pattern.form = "exact"
        BY <2>1, <3>1, FileForms
      <3>3. QED BY <2>1, <3>1, <3>2 DEF IsLearnedRule
    <2>5. ASSUME NEW i \in DOMAIN rules, HasForm(rules[i], "class") PROVE \E j \in DOMAIN raw : raw[j] = rules[i]
      <3>1. rules[i].object.pattern.form = "class"
        BY <2>5 DEF HasForm
      <3>2. ASSUME NEW e \in R, e.action = "ProcExec", rules[i] \in Forms(e) PROVE FALSE
        <4>1. rules[i].object.pattern = Exact(e.object.binary)
          BY <2>1, <3>2, GenFacts, FormsAreRules DEF AllRaw
        <4>2. QED BY <3>1, <4>1 DEF Exact
      <3>3. ~FoldedFrom(R, rules[i])
        BY <3>1 DEF FoldedFrom
      <3>4. rules[i] \in R
        BY <2>1, <2>3, <2>5, <3>2, <3>3 DEF Sourced
      <3>5. QED BY <2>1, <3>4
    <2>6. CASE ExactRules(rules, path) # {}
      <3>1. InMask(rules, ExactRules(rules, path), mode)
        BY <2>6 DEF FilePermitted, BroadPermitted
      <3>2. PICK i \in ExactRules(rules, path) : ModeOf(rules[i].action) = mode
        BY <3>1 DEF InMask
      <3>3. i \in DOMAIN rules /\ HasForm(rules[i], "exact") /\ rules[i].object.pattern.key = path
        BY <3>2 DEF ExactRules
      <3>4. \/ \E r \in R : HasForm(r, "exact") /\ rules[i] = CanonicalRule(r)
            \/ \E e \in R : /\ e.action = "ProcExec" /\ e.object.binary = path
                            /\ ModeOf(rules[i].action) = "read"
        BY <2>1, <3>3, ExactSource
      <3>5. CASE \E r \in R : HasForm(r, "exact") /\ rules[i] = CanonicalRule(r)
        <4>1. PICK j \in DOMAIN raw : raw[j] = rules[i]
          BY <2>1, <2>3, <3>5
        <4> DEFINE E == ExactRules(raw, path)
        <4>2. j \in E
          BY <3>3, <4>1 DEF ExactRules
        <4>3. InMask(raw, E, mode)
          <5>1. \A k \in E : raw[k].verdict = "Allow"
            BY <2>2 DEF ExactRules, AllAllow
          <5>2. QED BY <3>2, <4>1, <4>2, <5>1 DEF InMask
        <4>4. QED BY <4>2, <4>3 DEF FilePermitted, BroadPermitted
      <3>6. CASE \E e \in R : /\ e.action = "ProcExec" /\ e.object.binary = path
                              /\ ModeOf(rules[i].action) = "read"
        <4>1. mode = "read"
          BY <3>2, <3>6
        <4>2. PICK j \in DOMAIN raw : raw[j].action = "ProcExec" /\ raw[j].object.binary = path
          BY <2>1, <3>6
        <4> DEFINE T == {k \in DOMAIN raw : raw[k].action = "ProcExec" /\ raw[k].object.binary = path}
        <4>3. T # {} /\ T \subseteq DOMAIN raw
          BY <4>2
        <4> HIDE DEF T
        <4>4. LastAllows(raw, T)
          BY <2>1, <2>2, <4>3, SomeAllows
        <4>5. QED BY <4>1, <4>4 DEF ExecPermitted, T
      <3>7. QED BY <3>4, <3>5, <3>6
    <2>7. CASE ExactRules(rules, path) = {} /\ Class[path] # "Regular" /\ (own # {} \/ HasSibling(rules, path))
      <3>1. ExactRules(raw, path) = {}
        BY <2>4, <2>7
      <3>2. ASSUME NEW g, ClassRules(rules, g) # {} PROVE ClassRules(raw, g) # {}
        <4>1. PICK i \in ClassRules(rules, g) : TRUE
          BY <3>2
        <4>2. i \in DOMAIN rules /\ HasForm(rules[i], "class") /\ rules[i].object.pattern.key \in g
          BY <4>1 DEF ClassRules
        <4>3. PICK j \in DOMAIN raw : raw[j] = rules[i]
          BY <2>5, <4>2
        <4>4. j \in ClassRules(raw, g)
          BY <4>2, <4>3 DEF ClassRules
        <4>5. QED BY <4>4
      <3>3. rawOwn # {} \/ HasSibling(raw, path)
        BY <2>7, <3>2 DEF HasSibling
      <3>4. rawOwn \subseteq DOMAIN raw
        BY DEF ClassRules
      <3>5. rawOwn = {} \/ LastAllows(raw, rawOwn)
        BY <2>1, <2>2, <3>4, SomeAllows
      <3>6. QED BY <2>7, <3>1, <3>3, <3>5 DEF FilePermitted, BroadPermitted
    <2>8. CASE ExactRules(rules, path) = {} /\ ~(Class[path] # "Regular" /\ (own # {} \/ HasSibling(rules, path)))
      <3>1. FirstAllows(rules, PrefixesUnder(rules, path))
        BY <2>8 DEF FilePermitted, BroadPermitted
      <3>2. PICK i \in PrefixesUnder(rules, path) : TRUE
        BY <3>1 DEF FirstAllows
      <3>3. i \in DOMAIN rules /\ HasForm(rules[i], "prefix") /\ Matches(rules[i].object.pattern, path)
        BY <3>2 DEF PrefixesUnder, PrefixRules
      <3> DEFINE q == rules[i]
                 a == q.object.pattern
      <3>4. a.form = "prefix" /\ IsFileRule(q) /\ IsPattern(a)
        BY <2>1, <3>3, FileForms DEF IsFileRule
      <3>5. PICK r \in R : HasForm(r, "exact") /\ a.key = parent_dir(r.object.pattern.key)
                           /\ ClusterOf(R, parent_dir(r.object.pattern.key), r)
        BY <2>1, <3>3 DEF Clustered
      <3>6. PICK j \in DOMAIN raw : raw[j] = r
        BY <2>1
      <3>7. FoldedFrom(R, q)
        <4>1. q \notin R
          BY <2>1, <3>3, FileForms DEF AllLearned, IsLearnedRule
        <4>2. ASSUME NEW e \in R, e.action = "ProcExec", q \in Forms(e) PROVE FALSE
          <5>1. a = Exact(e.object.binary)
            BY <2>1, <4>2, GenFacts, FormsAreRules DEF AllRaw
          <5>2. QED BY <3>4, <5>1 DEF Exact
        <4>3. QED BY <2>1, <2>3, <3>3, <4>1, <4>2 DEF Sourced
      <3>8. StartsWith(path, a.key)
        <4>1. Len(a.key) <= PREFIX_MAX_LEN
          BY <3>7 DEF FoldedFrom
        <4>2. Stored(a.key) = a.key
          BY <4>1 DEF Stored
        <4>3. QED BY <3>3, <3>4, <4>2, PrefixMatches
      <3> DEFINE dir == parent_dir(raw[j].object.pattern.key)
                 names == {Leaf(s.object.pattern.key, dir) : s \in SiblingsIn(dir, raw[j])}
      <3>9. SiblingsIn(dir, raw[j]) = Siblings(R, dir, r)
        BY <3>6 DEF SiblingsIn, Siblings, ToSet
      <3>10. /\ Cardinality(names) >= prefix_min_cluster /\ Depth(dir) >= prefix_min_depth
             /\ dir \notin sensitive_roots /\ leaves_look_generated(names)
        BY <3>5, <3>6, <3>9 DEF ClusterOf
      <3>11. HasForm(raw[j], "exact") /\ StartsWith(path, dir)
        BY <3>5, <3>6, <3>8
      <3>12. QED BY <3>10, <3>11 DEF Opened
    <2>9. QED BY <2>6, <2>7, <2>8
  <1>3. QED BY <1>1, <1>2

(* Whatever the profile and the order of the rules, optimizing a recorded     *)
(* profile opens only directories that several machine-named files were seen *)
(* in, and the programs that were seen executed.                             *)
THEOREM WideningAlwaysBounded == Spec => []WideningBounded
  BY RulesAlways, SourceAlways, LearnedAlways, LearnedWidening, PTL

-----------------------------------------------------------------------------
(* The friction report. *)

\* What is left of the frontends' forms after the passes.
LowerableRule(q) ==
    /\ IsRule(q)
    /\ q.action = "FileOpen" => HasForm(q, "exact")
    /\ HasForm(q, "class") => q.object.pattern.key # "Regular"
    /\ HasForm(q, "prefix") => EndsWith(q.object.pattern.key, "/")
    /\ IsNetworkRule(q) /\ q.object.ip = NoAddr
          => q.action = "NetConnect" /\ q.object.protocol \in {6, 17, NoAddr}

LEMMA CanonicalLowerable ==
    ASSUME NEW r, IsRawRule(r), FrontendRule(r) PROVE LowerableRule(CanonicalRule(r))
  <1> DEFINE q == CanonicalRule(r)
  <1>1. IsRule(r) /\ IsRule(q) /\ SameButPattern(q, r) /\ (~IsFileRule(r) => q = r)
    BY GenFacts
  <1>2. q.action # "FileOpen"
    BY <1>1 DEF SameButPattern, FrontendRule
  <1>3. CASE ~IsFileRule(r)
    <2>1. q = r /\ ~IsFile(q)
      BY <1>1, <1>3, RuleIsFile
    <2> HIDE DEF q
    <2>2. QED BY <1>1, <1>2, <2>1 DEF LowerableRule, FrontendRule, HasForm, q
  <1>4. CASE IsFileRule(r)
    <2>0. IsFileRule(q) /\ IsFile(q) /\ ~IsNetworkRule(q) /\ IsFile(r)
      <3>1. IsFileRule(q)
        BY <1>4, GenFacts
      <3> HIDE DEF q
      <3>2. QED BY <1>4, <3>1, RuleKinds
    <2>1. CASE r.object.pattern.form = "exact"
      <3>1. q.object.pattern = Exact(canonicalize_path(r.object.pattern.key))
        BY <2>0, <2>1, CanonicalRuleFacts DEF HasForm
      <3>2. q.object.pattern.form = "exact"
        BY <3>1 DEF Exact
      <3> HIDE DEF q
      <3>3. QED BY <1>1, <1>2, <2>0, <3>2 DEF LowerableRule, HasForm, q
    <2>2. CASE r.object.pattern.form = "prefix"
      <3>0. HasForm(r, "prefix")
        BY <2>0, <2>2 DEF HasForm
      <3>1. q.object.pattern = Prefix(canonicalize_prefix(r.object.pattern.key))
        BY <3>0, CanonicalRuleFacts
      <3>2. IsSequence(canonicalize_path(r.object.pattern.key))
        BY <3>0 DEF IsRawRule
      <3>3. EndsWith(canonicalize_prefix(r.object.pattern.key), "/")
        BY <3>2, WithSlashEnds DEF canonicalize_prefix
      <3>4. q.object.pattern.form = "prefix" /\ q.object.pattern.key = canonicalize_prefix(r.object.pattern.key)
        BY <3>1 DEF Prefix
      <3> HIDE DEF q
      <3>5. QED BY <1>1, <1>2, <2>0, <3>3, <3>4 DEF LowerableRule, HasForm, q
    <2>3. CASE r.object.pattern.form = "class"
      <3>1. ~HasForm(r, "exact") /\ ~HasForm(r, "prefix") /\ HasForm(r, "class")
        BY <2>0, <2>3 DEF HasForm
      <3>2. q = r
        BY <3>1, CanonicalRuleFacts
      <3>3. r.object.pattern.key # "Regular"
        BY <3>1 DEF FrontendRule
      <3> HIDE DEF q
      <3>4. QED BY <1>1, <1>2, <2>0, <2>3, <3>2, <3>3 DEF LowerableRule, HasForm, q
    <2>4. QED BY <1>4, <2>1, <2>2, <2>3, PatternForms DEF IsFileRule
  <1>5. QED BY <1>3, <1>4

LEMMA GenLowerable ==
    ASSUME NEW r, IsRawRule(r), FrontendRule(r) PROVE LowerableRule(Gen(r))
  <1> DEFINE c == CanonicalRule(r)
             q == GeneralRule(c)
  <1>1. IsRule(c) /\ LowerableRule(c) /\ c.action # "FileOpen"
    <2>1. LowerableRule(c)
      BY CanonicalLowerable
    <2>2. SameButPattern(c, r) /\ r.action # "FileOpen"
      BY GenFacts DEF FrontendRule
    <2> HIDE DEF c
    <2>3. QED BY <2>1, <2>2 DEF LowerableRule, SameButPattern
  <1>2. Gen(r) = q
    BY DEF Gen
  <1> HIDE DEF c
  <1>3. CASE Filed(c)
    <2> DEFINE k == try_classify(c.object.pattern.key)
    <2>1. IsRule(q) /\ SameButPattern(q, c) /\ q.object.pattern = Classified(k) /\ k \in ProcClasses
      BY <1>1, <1>3, GeneralRuleFacts
    <2>2. IsFileRule(q)
      <3>1. IsFileRule(c)
        BY <1>1, <1>3, FileForms DEF Filed
      <3>2. QED BY <1>1, <3>1, GeneralRuleFacts
    <2>3. q.object.pattern.form = "class" /\ q.object.pattern.key # "Regular"
      BY <2>1, ProcClassesAre DEF Classified
    <2> HIDE DEF q, k
    <2>4. ~IsNetworkRule(q) /\ q.action # "FileOpen"
      BY <1>1, <2>1, <2>2, RuleKinds DEF SameButPattern
    <2>5. QED BY <1>2, <2>1, <2>3, <2>4 DEF LowerableRule, HasForm
  <1>4. CASE ~Filed(c)
    <2>1. q = c
      BY <1>1, <1>4, GeneralRuleFacts
    <2>2. QED BY <1>1, <1>2, <2>1
  <1>5. QED BY <1>3, <1>4

LEMMA SourcedLowerable ==
    ASSUME NEW R, AllRaw(R), \A r \in R : FrontendRule(r), NEW q, Sourced(R, q)
    PROVE  LowerableRule(q)
  <1>1. CASE \E r \in R : q = CanonicalRule(r) \/ q = Gen(r)
    BY <1>1, CanonicalLowerable, GenLowerable DEF AllRaw
  <1>2. CASE FoldedFrom(R, q)
    <2>1. IsFileRule(q) /\ q.object.pattern.form = "prefix"
      BY <1>2 DEF FoldedFrom
    <2>2. PICK r \in R : /\ SameButPattern(q, r) /\ Foldable(Gen(r))
                         /\ q.object.pattern.key = parent_dir(Gen(r).object.pattern.key)
      BY <1>2 DEF FoldedFrom
    <2>3. IsRule(Gen(r)) /\ r.action # "FileOpen"
      BY GenFacts DEF AllRaw, FrontendRule
    <2> DEFINE k == Gen(r).object.pattern.key
    <2>4. IsSequence(k) /\ parent_dir(k) # ""
      <3>1. HasForm(Gen(r), "exact") /\ parent_dir(k) # ""
        BY <2>2 DEF Foldable
      <3>2. IsFileRule(Gen(r)) /\ Gen(r).object.pattern.form = "exact"
        BY <2>3, <3>1, FileForms
      <3>3. IsPattern(Gen(r).object.pattern)
        BY <3>2 DEF IsFileRule
      <3>4. QED BY <3>1, <3>2, <3>3, PatternForms
    <2> HIDE DEF k
    <2>5. EndsWith(parent_dir(k), "/")
      BY <2>4, ParentDir
    <2>6. EndsWith(q.object.pattern.key, "/")
      BY <2>2, <2>5 DEF k
    <2>7. ~IsNetworkRule(q) /\ q.action # "FileOpen"
      BY <2>1, <2>2, <2>3, RuleKinds DEF SameButPattern
    <2>8. QED BY <2>1, <2>6, <2>7 DEF LowerableRule, HasForm, IsRule
  <1>3. CASE \E e \in R : e.action = "ProcExec" /\ q \in Forms(e)
    <2>1. PICK e \in R : e.action = "ProcExec" /\ q \in Forms(e)
      BY <1>3
    <2>2. IsFileRule(q) /\ q.object.pattern = Exact(e.object.binary)
      BY <2>1, FormsAreRules DEF AllRaw, IsRawRule
    <2>3. q.object.pattern.form = "exact" /\ IsFile(q) /\ ~IsNetworkRule(q)
      BY <2>2, RuleKinds DEF Exact
    <2>4. QED BY <2>2, <2>3 DEF LowerableRule, HasForm, IsRule
  <1>4. QED BY <1>1, <1>2, <1>3 DEF Sourced

LEMMA AllLowerable ==
    ASSUME RulesInv, SourceInv, Compiling, stage # "raw", NEW q \in ToSet(rules) PROVE LowerableRule(q)
  <1>1. AllRaw(ToSet(raw)) /\ \A r \in ToSet(raw) : FrontendRule(r)
    BY DEF RulesInv, AllRaw, Original
  <1>2. Sourced(ToSet(raw), q)
    BY DEF SourceInv, AllSourced
  <1>3. QED BY <1>1, <1>2, SourcedLowerable

\* A rule reported as expressed is one for an exact path, and the mask of a path
\* has the modes of its exact rules only.
LEMMA ExpressedOwnMode ==
    ASSUME RulesInv, SourceInv, stage = "linked", NEW i \in DOMAIN rules, IsFile(rules[i]),
           bpf_fidelity(rules[i]) = "Expressed", NEW path \in Paths, NEW mode,
           Matches(rules[i].object.pattern, path), FilePermitted(rules, path, mode)
    PROVE  \E j \in DOMAIN rules : Covers(rules[j], path) /\ ModeOf(rules[j].action) = mode
  <1> DEFINE q == rules[i]
  <1>1. LowerableRule(q)
    BY AllLowerable DEF Compiling, ToSet
  <1>2. IsFileRule(q) /\ IsPattern(q.object.pattern)
    BY <1>1, RuleIsFile DEF LowerableRule, IsFileRule
  <1> HIDE DEF q
  <1>3. q.object.pattern.form = "exact"
    <2> SUFFICES ASSUME q.object.pattern.form # "exact" PROVE FALSE
      OBVIOUS
    <2>1. q.object.pattern.form \in {"prefix", "class"}
      BY <1>2, PatternForms
    <2>2. q.action = "FileOpen"
      BY <2>1 DEF bpf_fidelity, q
    <2>3. QED BY <1>1, <2>2 DEF LowerableRule, HasForm
  <1>4. q.object.pattern.key = path
    BY <1>3, ExactMatches DEF q
  <1>5. i \in ExactRules(rules, path)
    BY <1>3, <1>4 DEF ExactRules, HasForm, q
  <1>6. InMask(rules, ExactRules(rules, path), mode)
    BY <1>5 DEF FilePermitted, BroadPermitted
  <1>7. PICK j \in ExactRules(rules, path) : ModeOf(rules[j].action) = mode
    BY <1>6 DEF InMask
  <1>8. j \in DOMAIN rules /\ HasForm(rules[j], "exact") /\ rules[j].object.pattern.key = path
    BY DEF ExactRules
  <1>9. canonicalize_path(rules[j].object.pattern.key) = path
    BY <1>8, ResolvedAssumption
  <1>10. QED BY <1>7, <1>8, <1>9, ExactCovers

\* Where the k-th of the other rules is.
Shift(i, k) == IF k < i THEN k ELSE k + 1

LEMMA WithoutFacts ==
    ASSUME NEW s, IsSequence(s), NEW i \in DOMAIN s
    PROVE  /\ IsSequence(Without(s, i)) /\ DOMAIN Without(s, i) = 1..(Len(s) - 1)
           /\ \A k \in 1..(Len(s) - 1) : Without(s, i)[k] = s[Shift(i, k)]
  <1> DEFINE n == Len(s)
             a == SubSeq(s, 1, i - 1)
             b == SubSeq(s, i + 1, n)
             w == a \o b
  <1>1. n \in Nat /\ DOMAIN s = 1..n /\ i \in 1..n
    BY SequenceFacts
  <1>2. IsSequence(a) /\ Len(a) = i - 1
    <2>1. i - 1 \in 0..Len(s)
      BY <1>1
    <2>2. QED BY <2>1, HeadFacts
  <1>3. IsSequence(b) /\ Len(b) = n - i
    BY <1>1, SMTT(30) DEF IsSequence
  <1>4. \A k \in 1..(i - 1) : a[k] = s[k]
    BY <1>1 DEF IsSequence
  <1>5. \A k \in 1..(n - i) : b[k] = s[i + k]
    BY <1>1 DEF IsSequence
  <1>6. Without(s, i) = w
    BY DEF Without
  <1> HIDE DEF n, a, b
  <1>7. /\ IsSequence(w) /\ Len(w) = (i - 1) + (n - i)
        /\ \A k \in 1..(i - 1) : w[k] = a[k]
        /\ \A k \in 1..(n - i) : w[(i - 1) + k] = b[k]
    BY <1>2, <1>3, JoinFacts
  <1> HIDE DEF w
  <1>8. DOMAIN w = 1..(n - 1)
    BY <1>1, <1>7, SequenceFacts
  <1>9. ASSUME NEW k \in 1..(n - 1) PROVE w[k] = s[Shift(i, k)]
    <2>1. CASE k < i
      BY <1>1, <1>4, <1>7, <2>1 DEF Shift
    <2>2. CASE ~(k < i)
      <3>1. k - (i - 1) \in 1..(n - i) /\ (i - 1) + (k - (i - 1)) = k /\ i + (k - (i - 1)) = k + 1
        BY <1>1, <2>2
      <3>2. w[(i - 1) + (k - (i - 1))] = b[k - (i - 1)] /\ b[k - (i - 1)] = s[i + (k - (i - 1))]
        BY <1>5, <1>7, <3>1
      <3>3. QED BY <2>2, <3>1, <3>2 DEF Shift
    <2>3. QED BY <2>1, <2>2
  <1>10. QED BY <1>6, <1>7, <1>8, <1>9 DEF n

LEMMA ShiftFacts ==
    ASSUME NEW n \in Nat, NEW i \in 1..n
    PROVE  /\ \A k \in 1..(n - 1) : Shift(i, k) \in (1..n) \ {i}
           /\ \A k, l \in 1..(n - 1) : k < l <=> Shift(i, k) < Shift(i, l)
           /\ \A k, l \in 1..(n - 1) : k <= l <=> Shift(i, k) <= Shift(i, l)
           /\ \A j \in (1..n) \ {i} : \E k \in 1..(n - 1) : Shift(i, k) = j
  <1>1. ASSUME NEW j \in (1..n) \ {i} PROVE \E k \in 1..(n - 1) : Shift(i, k) = j
    <2>1. CASE j < i
      <3>1. j \in 1..(n - 1) /\ Shift(i, j) = j
        BY <2>1 DEF Shift
      <3>2. QED BY <3>1
    <2>2. CASE ~(j < i)
      <3>1. j - 1 \in 1..(n - 1) /\ Shift(i, j - 1) = j
        BY <2>2 DEF Shift
      <3>2. QED BY <3>1
    <2>3. QED BY <2>1, <2>2
  <1>2. QED BY <1>1 DEF Shift

\* T are the places in s of what is at U once the i-th is gone.
SameAt(s, i, T, U) ==
    /\ T \subseteq DOMAIN s \ {i} /\ U \subseteq DOMAIN Without(s, i)
    /\ \A k \in DOMAIN Without(s, i) : k \in U <=> Shift(i, k) \in T

LEMMA SameFacts ==
    ASSUME NEW s, IsSequence(s), NEW i \in DOMAIN s, NEW T, NEW U, SameAt(s, i, T, U)
    PROVE  /\ \A k \in U : Shift(i, k) \in T /\ Without(s, i)[k] = s[Shift(i, k)]
           /\ \A j \in T : \E k \in U : Shift(i, k) = j
           /\ \A k, l \in U : k < l <=> Shift(i, k) < Shift(i, l)
           /\ \A k, l \in U : k <= l <=> Shift(i, k) <= Shift(i, l)
           /\ T \subseteq Nat /\ U \subseteq Nat
  <1> DEFINE n == Len(s)
  <1>1. n \in Nat /\ DOMAIN s = 1..n /\ i \in 1..n
    BY SequenceFacts
  <1>2. DOMAIN Without(s, i) = 1..(n - 1) /\ \A k \in 1..(n - 1) : Without(s, i)[k] = s[Shift(i, k)]
    BY WithoutFacts
  <1> HIDE DEF n
  <1>3. /\ \A k, l \in 1..(n - 1) : k < l <=> Shift(i, k) < Shift(i, l)
        /\ \A k, l \in 1..(n - 1) : k <= l <=> Shift(i, k) <= Shift(i, l)
        /\ \A j \in (1..n) \ {i} : \E k \in 1..(n - 1) : Shift(i, k) = j
    BY <1>1, ShiftFacts
  <1>4. /\ T \subseteq (1..n) \ {i} /\ U \subseteq 1..(n - 1)
        /\ \A k \in 1..(n - 1) : k \in U <=> Shift(i, k) \in T
    BY <1>1, <1>2 DEF SameAt
  <1>5. T \subseteq Nat /\ U \subseteq Nat
    BY <1>1, <1>4
  <1>6. QED BY <1>2, <1>3, <1>4, <1>5, Zenon

LEMMA SameDecisions ==
    ASSUME NEW s, IsSequence(s), NEW i \in DOMAIN s, NEW T, NEW U, SameAt(s, i, T, U)
    PROVE  /\ T = {} <=> U = {}
           /\ LastAllows(s, T) <=> LastAllows(Without(s, i), U)
           /\ FirstAllows(s, T) <=> FirstAllows(Without(s, i), U)
           /\ \A mode : InMask(s, T, mode) <=> InMask(Without(s, i), U, mode)
  <1> DEFINE w == Without(s, i)
  <1>1. /\ \A k \in U : Shift(i, k) \in T /\ w[k] = s[Shift(i, k)]
        /\ \A j \in T : \E k \in U : Shift(i, k) = j
        /\ \A k, l \in U : k < l <=> Shift(i, k) < Shift(i, l)
        /\ \A k, l \in U : k <= l <=> Shift(i, k) <= Shift(i, l)
        /\ T \subseteq Nat /\ U \subseteq Nat
    BY SameFacts
  <1> HIDE DEF w
  <1>2. T = {} <=> U = {}
    BY <1>1
  <1>3. LastAllows(s, T) <=> LastAllows(w, U)
    <2>1. ASSUME NEW j \in T, s[j].verdict # "Deny", \A l \in T : l <= j PROVE LastAllows(w, U)
      <3>1. PICK k \in U : Shift(i, k) = j
        BY <1>1
      <3>2. w[k].verdict # "Deny" /\ \A l \in U : l <= k
        BY <1>1, <2>1, <3>1
      <3>3. QED BY <3>2 DEF LastAllows
    <2>2. ASSUME NEW k \in U, w[k].verdict # "Deny", \A l \in U : l <= k PROVE LastAllows(s, T)
      <3>1. Shift(i, k) \in T /\ s[Shift(i, k)].verdict # "Deny" /\ \A l \in T : l <= Shift(i, k)
        BY <1>1, <2>2
      <3>2. QED BY <3>1 DEF LastAllows
    <2>3. QED BY <2>1, <2>2 DEF LastAllows
  <1>4. FirstAllows(s, T) <=> FirstAllows(w, U)
    <2>1. ASSUME NEW j \in T, s[j].verdict # "Deny", \A l \in T : j <= l PROVE FirstAllows(w, U)
      <3>1. PICK k \in U : Shift(i, k) = j
        BY <1>1
      <3>2. w[k].verdict # "Deny" /\ \A l \in U : k <= l
        BY <1>1, <2>1, <3>1
      <3>3. QED BY <3>2 DEF FirstAllows
    <2>2. ASSUME NEW k \in U, w[k].verdict # "Deny", \A l \in U : k <= l PROVE FirstAllows(s, T)
      <3>1. Shift(i, k) \in T /\ s[Shift(i, k)].verdict # "Deny" /\ \A l \in T : Shift(i, k) <= l
        BY <1>1, <2>2
      <3>2. QED BY <3>1 DEF FirstAllows
    <2>3. QED BY <2>1, <2>2 DEF FirstAllows
  <1>5. ASSUME NEW mode PROVE InMask(s, T, mode) <=> InMask(w, U, mode)
    <2>1. ASSUME NEW j \in T, s[j].verdict = "Allow", ModeOf(s[j].action) = mode,
                 \A l \in T : l > j => s[l].verdict = "Allow"
          PROVE  InMask(w, U, mode)
      <3>1. PICK k \in U : Shift(i, k) = j
        BY <1>1
      <3>2. w[k].verdict = "Allow" /\ ModeOf(w[k].action) = mode
        BY <1>1, <2>1, <3>1
      <3>3. ASSUME NEW l \in U, l > k PROVE w[l].verdict = "Allow"
        <4>1. Shift(i, l) \in T /\ Shift(i, l) > j /\ w[l] = s[Shift(i, l)]
          BY <1>1, <3>1, <3>3
        <4>2. QED BY <2>1, <4>1
      <3>4. QED BY <3>2, <3>3 DEF InMask
    <2>2. ASSUME NEW k \in U, w[k].verdict = "Allow", ModeOf(w[k].action) = mode,
                 \A l \in U : l > k => w[l].verdict = "Allow"
          PROVE  InMask(s, T, mode)
      <3>1. Shift(i, k) \in T /\ s[Shift(i, k)].verdict = "Allow" /\ ModeOf(s[Shift(i, k)].action) = mode
        BY <1>1, <2>2
      <3>2. ASSUME NEW j \in T, j > Shift(i, k) PROVE s[j].verdict = "Allow"
        <4>1. PICK l \in U : Shift(i, l) = j
          BY <1>1
        <4>2. l > k /\ w[l] = s[j]
          BY <1>1, <3>2, <4>1
        <4>3. QED BY <2>2, <4>2
      <3>3. QED BY <3>1, <3>2 DEF InMask
    <2>3. QED BY <2>1, <2>2 DEF InMask
  <1>6. QED BY <1>2, <1>3, <1>4, <1>5 DEF w

LEMMA SameCardinality ==
    ASSUME NEW s, IsSequence(s), NEW i \in DOMAIN s, NEW T, NEW U, SameAt(s, i, T, U)
    PROVE  Cardinality(T) = Cardinality(U)
  <1> DEFINE f == [k \in U |-> Shift(i, k)]
  <1>1. /\ \A k \in U : Shift(i, k) \in T
        /\ \A j \in T : \E k \in U : Shift(i, k) = j
        /\ \A k, l \in U : k < l <=> Shift(i, k) < Shift(i, l)
        /\ T \subseteq Nat /\ U \subseteq Nat
    BY SameFacts
  <1>2. \A k, l \in U : Shift(i, k) = Shift(i, l) => k = l
    BY <1>1
  <1>3. f \in Bijection(U, T)
    BY <1>1, <1>2 DEF Bijection, Injection, IsInjective, Surjection
  <1>4. IsFiniteSet(U)
    <2>1. IsFiniteSet(DOMAIN Without(s, i)) /\ U \subseteq DOMAIN Without(s, i)
      BY WithoutFacts, FiniteElements DEF SameAt
    <2>2. QED BY <2>1, FS_Subset
  <1>5. ExistsBijection(U, T)
    BY <1>3 DEF ExistsBijection
  <1>6. QED BY <1>4, <1>5, FS_Bijection

LEMMA SameMembers ==
    ASSUME NEW s, IsSequence(s), NEW i \in DOMAIN s, NEW G, s[i] \notin G
    PROVE  SameAt(s, i, {j \in DOMAIN s : s[j] \in G},
                        {k \in DOMAIN Without(s, i) : Without(s, i)[k] \in G})
  <1> DEFINE n == Len(s)
             w == Without(s, i)
  <1>1. n \in Nat /\ DOMAIN s = 1..n /\ i \in 1..n
    BY SequenceFacts
  <1>2. DOMAIN w = 1..(n - 1) /\ \A k \in 1..(n - 1) : w[k] = s[Shift(i, k)]
    BY WithoutFacts
  <1>3. \A k \in 1..(n - 1) : Shift(i, k) \in (1..n) \ {i}
    <2> HIDE DEF n
    <2>1. QED BY <1>1, ShiftFacts
  <1> HIDE DEF n, w
  <1>4. /\ {j \in DOMAIN s : s[j] \in G} \subseteq DOMAIN s \ {i}
        /\ {k \in DOMAIN w : w[k] \in G} \subseteq DOMAIN w
        /\ \A k \in DOMAIN w : k \in {l \in DOMAIN w : w[l] \in G}
                                  <=> Shift(i, k) \in {j \in DOMAIN s : s[j] \in G}
    BY <1>1, <1>2, <1>3
  <1>5. QED BY <1>4 DEF SameAt, w

\* Without a rule that is not about files the same rules decide a path.
LEMMA SameFileRules ==
    ASSUME NEW s, IsSequence(s), NEW i \in DOMAIN s, ~IsFile(s[i]), NEW path, NEW classes
    PROVE  LET w == Without(s, i)
           IN  /\ SameAt(s, i, ExactRules(s, path), ExactRules(w, path))
               /\ SameAt(s, i, ClassRules(s, classes), ClassRules(w, classes))
               /\ SameAt(s, i, PrefixRules(s), PrefixRules(w))
  <1> DEFINE w == Without(s, i)
             All == ToSet(s) \cup ToSet(w)
  <1>1. (\A j \in DOMAIN s : s[j] \in All) /\ (\A k \in DOMAIN w : w[k] \in All)
    BY DEF ToSet
  <1> HIDE DEF All
  <1>2. SameAt(s, i, ExactRules(s, path), ExactRules(w, path))
    <2> DEFINE G == {r \in All : HasForm(r, "exact") /\ r.object.pattern.key = path}
    <2>1. s[i] \notin G
      BY DEF HasForm
    <2>2. ExactRules(s, path) = {j \in DOMAIN s : s[j] \in G}
      BY <1>1 DEF ExactRules
    <2>3. ExactRules(w, path) = {k \in DOMAIN w : w[k] \in G}
      BY <1>1 DEF ExactRules
    <2> HIDE DEF G
    <2>4. QED BY <2>1, <2>2, <2>3, SameMembers
  <1>3. SameAt(s, i, ClassRules(s, classes), ClassRules(w, classes))
    <2> DEFINE G == {r \in All : HasForm(r, "class") /\ r.object.pattern.key \in classes}
    <2>1. s[i] \notin G
      BY DEF HasForm
    <2>2. ClassRules(s, classes) = {j \in DOMAIN s : s[j] \in G}
      BY <1>1 DEF ClassRules
    <2>3. ClassRules(w, classes) = {k \in DOMAIN w : w[k] \in G}
      BY <1>1 DEF ClassRules
    <2> HIDE DEF G
    <2>4. QED BY <2>1, <2>2, <2>3, SameMembers
  <1>4. SameAt(s, i, PrefixRules(s), PrefixRules(w))
    <2> DEFINE G == {r \in All : HasForm(r, "prefix")}
    <2>1. s[i] \notin G
      BY DEF HasForm
    <2>2. PrefixRules(s) = {j \in DOMAIN s : s[j] \in G}
      BY <1>1 DEF PrefixRules
    <2>3. PrefixRules(w) = {k \in DOMAIN w : w[k] \in G}
      BY <1>1 DEF PrefixRules
    <2> HIDE DEF G
    <2>4. QED BY <2>1, <2>2, <2>3, SameMembers
  <1>5. QED BY <1>2, <1>3, <1>4

LEMMA SamePrefixes ==
    ASSUME NEW s, IsSequence(s), NEW i \in DOMAIN s, ~IsFile(s[i]), NEW path
    PROVE  SameAt(s, i, PrefixesUnder(s, path), PrefixesUnder(Without(s, i), path))
  <1> DEFINE w == Without(s, i)
             T == PrefixRules(s)
             U == PrefixRules(w)
             Slot(k) == Cardinality({l \in U : l < k})
  <1>1. SameAt(s, i, T, U)
    BY SameFileRules
  <1> HIDE DEF w, T, U
  <1>2. /\ T \subseteq DOMAIN s \ {i} /\ U \subseteq DOMAIN w
        /\ \A k \in DOMAIN w : k \in U <=> Shift(i, k) \in T
    BY <1>1 DEF SameAt, w
  <1>3. /\ \A k \in U : w[k] = s[Shift(i, k)]
        /\ \A k, l \in U : k < l <=> Shift(i, k) < Shift(i, l)
    BY <1>1, SameFacts DEF w
  <1>4. ASSUME NEW k \in U
        PROVE  Cardinality({j \in T : j < Shift(i, k)}) = Cardinality({l \in U : l < k})
    <2> DEFINE V == {j \in T : j < Shift(i, k)}
               W == {l \in U : l < k}
    <2>1. V \subseteq DOMAIN s \ {i} /\ W \subseteq DOMAIN w
      BY <1>2
    <2>2. \A l \in DOMAIN w : l \in W <=> Shift(i, l) \in V
      BY <1>2, <1>3
    <2>3. SameAt(s, i, V, W)
      BY <2>1, <2>2 DEF SameAt, w
    <2> HIDE DEF V, W
    <2>4. Cardinality(V) = Cardinality(W)
      BY <2>3, SameCardinality
    <2>5. QED BY <2>4 DEF V, W
  <1> DEFINE A == PrefixesUnder(s, path)
             B == PrefixesUnder(w, path)
  <1>5. /\ A = {j \in T : /\ Cardinality({l \in T : l < j}) < MAX_PREFIX_SLOTS
                          /\ Matches(s[j].object.pattern, path)}
        /\ B = {k \in U : /\ Cardinality({l \in U : l < k}) < MAX_PREFIX_SLOTS
                          /\ Matches(w[k].object.pattern, path)}
    BY DEF PrefixesUnder, T, U
  <1> HIDE DEF A, B
  <1>6. ASSUME NEW k \in DOMAIN w PROVE k \in B <=> Shift(i, k) \in A
    BY <1>2, <1>3, <1>4, <1>5
  <1>7. A \subseteq DOMAIN s \ {i} /\ B \subseteq DOMAIN w
    BY <1>2, <1>5
  <1>8. QED BY <1>6, <1>7 DEF SameAt, w, A, B

LEMMA IdleForFiles ==
    ASSUME NEW s, IsSequence(s), NEW i \in DOMAIN s, ~IsFile(s[i]), NEW path, NEW mode
    PROVE  FilePermitted(s, path, mode) <=> FilePermitted(Without(s, i), path, mode)
  <1> DEFINE w == Without(s, i)
             own == {Class[path]}
  <1>1. /\ ExactRules(s, path) = {} <=> ExactRules(w, path) = {}
        /\ InMask(s, ExactRules(s, path), mode) <=> InMask(w, ExactRules(w, path), mode)
    BY SameFileRules, SameDecisions
  <1>2. /\ ClassRules(s, own) = {} <=> ClassRules(w, own) = {}
        /\ LastAllows(s, ClassRules(s, own)) <=> LastAllows(w, ClassRules(w, own))
    BY SameFileRules, SameDecisions
  <1>3. HasSibling(s, path) <=> HasSibling(w, path)
    <2>1. ASSUME NEW g PROVE ClassRules(s, g) = {} <=> ClassRules(w, g) = {}
      BY SameFileRules, SameDecisions
    <2> HIDE DEF w
    <2>2. QED BY <2>1 DEF HasSibling
  <1>4. FirstAllows(s, PrefixesUnder(s, path)) <=> FirstAllows(w, PrefixesUnder(w, path))
    BY SamePrefixes, SameDecisions
  <1> HIDE DEF w
  <1>5. FilePermitted(s, path, mode) <=> FilePermitted(w, path, mode)
    BY <1>1, <1>2, <1>3, <1>4 DEF FilePermitted, BroadPermitted
  <1>6. QED BY <1>5 DEF w

\* Nor does a rule that is not for the address change a connection.
LEMMA IdleForConnect ==
    ASSUME NEW s, IsSequence(s), NEW i \in DOMAIN s, NEW ip, NEW port,
           s[i].action # "NetConnect" \/ s[i].object.ip # ip
    PROVE  ConnectPermitted(s, ip, port) <=> ConnectPermitted(Without(s, i), ip, port)
  <1> DEFINE w == Without(s, i)
             All == ToSet(s) \cup ToSet(w)
  <1>1. (\A j \in DOMAIN s : s[j] \in All) /\ (\A k \in DOMAIN w : w[k] \in All)
    BY DEF ToSet
  <1> HIDE DEF All
  <1>2. ASSUME NEW p PROVE SameAt(s, i, ConnectRules(s, ip, p), ConnectRules(w, ip, p))
    <2> DEFINE G == {r \in All : /\ r.action = "NetConnect" /\ r.object.ip = ip
                                 /\ IF r.object.port = NoAddr THEN p = 0 ELSE r.object.port = p}
    <2>1. s[i] \notin G
      OBVIOUS
    <2>2. ConnectRules(s, ip, p) = {j \in DOMAIN s : s[j] \in G}
      BY <1>1 DEF ConnectRules
    <2>3. ConnectRules(w, ip, p) = {k \in DOMAIN w : w[k] \in G}
      BY <1>1 DEF ConnectRules
    <2> HIDE DEF G
    <2>4. QED BY <2>1, <2>2, <2>3, SameMembers
  <1>3. ASSUME NEW p
        PROVE  /\ ConnectRules(s, ip, p) = {} <=> ConnectRules(w, ip, p) = {}
               /\ LastAllows(s, ConnectRules(s, ip, p)) <=> LastAllows(w, ConnectRules(w, ip, p))
    BY <1>2, SameDecisions
  <1> HIDE DEF w
  <1>4. ConnectPermitted(s, ip, port) <=> ConnectPermitted(w, ip, port)
    BY <1>3 DEF ConnectPermitted
  <1>5. QED BY <1>4 DEF w

\* A rule reported as dropped, other than a prefix, is one no hook looks at.
LEMMA DroppedIdle ==
    ASSUME RulesInv, SourceInv, stage = "linked", NEW i \in DOMAIN rules,
           bpf_fidelity(rules[i]) = "Dropped", ~HasForm(rules[i], "prefix")
    PROVE  /\ \A path \in Paths, mode \in Modes :
                 FilePermitted(rules, path, mode) <=> FilePermitted(Without(rules, i), path, mode)
           /\ \A d \in Destinations :
                 ConnectPermitted(rules, d[1], d[2]) <=> ConnectPermitted(Without(rules, i), d[1], d[2])
  <1> DEFINE q == rules[i]
  <1>1. LowerableRule(q) /\ IsSequence(rules)
    BY AllLowerable DEF Compiling, ToSet, RulesInv, AreRules
  <1>2. ~IsFile(q)
    <2> SUFFICES ASSUME IsFile(q) PROVE FALSE
      OBVIOUS
    <2>1. IsPattern(q.object.pattern)
      BY <1>1, RuleIsFile DEF LowerableRule, IsFileRule
    <2>2. q.object.pattern.form \in {"exact", "class", "prefix"}
      <3> HIDE DEF q
      <3>1. QED BY <2>1, PatternForms
    <2>3. bpf_fidelity(q) = "Dropped" /\ ~HasForm(q, "prefix")
      OBVIOUS
    <2> HIDE DEF q
    <2>4. q.object.pattern.form = "class" /\ q.object.pattern.key = "Regular"
      BY <2>2, <2>3 DEF bpf_fidelity, HasForm
    <2>5. QED BY <1>1, <2>4 DEF LowerableRule, HasForm
  <1>3. q.action = "NetConnect" => q.object.ip = NoAddr
    BY <1>2 DEF bpf_fidelity
  <1>4. \A d \in Destinations : q.action # "NetConnect" \/ q.object.ip # d[1]
    BY <1>3, DestinationAssumption
  <1>5. QED BY <1>1, <1>2, <1>4, IdleForFiles, IdleForConnect

LEMMA KnownGlobsDistinct ==
    ASSUME NEW c \in KNOWN_PATTERNS, NEW d \in KNOWN_PATTERNS, as_str[c] = as_str[d] PROVE c = d
  BY DEF KNOWN_PATTERNS, Classes, as_str

\* The glob of a pattern that AppArmor has, read back.
LEMMA PatternReturns ==
    ASSUME NEW r, LowerableRule(r), IsFileRule(r), file_glob(r.object.pattern).loss = "none",
           ~NamesakeOfClass(r), ~NameIsGlob(r)
    PROVE  glob_to_pattern(file_glob(r.object.pattern).glob) = r.object.pattern
  <1> DEFINE p == r.object.pattern
  <1>0. IsPattern(p) /\ IsFile(r)
    BY RuleKinds DEF IsFileRule
  <1>1. CASE p.form = "exact"
    <2>1. file_glob(p).glob = p.key
      BY <1>1 DEF file_glob
    <2>2. glob_to_pattern(p.key) = p
      BY <1>0, <1>1 DEF NameIsGlob, HasForm
    <2>3. QED BY <2>1, <2>2
  <1>2. CASE p.form = "prefix"
    <2> DEFINE k == p.key
               glob == k \o "**"
    <2>1. IsSequence(k) /\ p = Prefix(k) /\ EndsWith(k, "/")
      <3>1. HasForm(r, "prefix")
        BY <1>0, <1>2 DEF HasForm
      <3>2. EndsWith(k, "/")
        BY <3>1 DEF LowerableRule
      <3>3. QED BY <1>0, <1>2, <3>2, PatternForms
    <2>2. file_glob(p).glob = glob
      BY <1>2 DEF file_glob
    <2>3. {c \in KNOWN_PATTERNS : as_str[c] = glob} = {}
      BY <1>0, <1>2 DEF NamesakeOfClass, HasForm
    <2>4. EndsWith(glob, "**") /\ Cut(glob, 2) = k
      <3>1. IsSequence("**") /\ Len("**") = 2
        BY LiteralLengths, Zenon
      <3> HIDE DEF k
      <3>2. EndsWith(glob, "**") /\ SubSeq(glob, 1, Len(glob) - Len("**")) = k
        BY <2>1, <3>1, JoinEnds, Zenon
      <3> HIDE DEF glob
      <3>3. QED BY <3>1, <3>2, Zenon DEF Cut
    <2> HIDE DEF k, glob, p
    <2>5. glob_to_pattern(glob) = Prefix(EnsureSlash(Cut(glob, 2)))
      BY <2>3, <2>4 DEF glob_to_pattern
    <2>6. EnsureSlash(k) = k
      BY <2>1 DEF EnsureSlash
    <2>7. glob_to_pattern(file_glob(p).glob) = p
      BY <2>1, <2>2, <2>4, <2>5, <2>6
    <2>8. QED BY <2>7 DEF p
  <1>3. CASE p.form = "class"
    <2> DEFINE c == p.key
               known == {d \in KNOWN_PATTERNS : as_str[d] = as_str[c]}
    <2>1. c \in Classes /\ p = Classified(c)
      BY <1>0, <1>3, PatternForms
    <2>2. c \notin {"Regular", "ProcPidOther", "ProcGlobal"} /\ file_glob(p).glob = as_str[c]
      BY <1>3 DEF file_glob
    <2> HIDE DEF c
    <2>3. c \in KNOWN_PATTERNS
      BY <2>1, <2>2 DEF KNOWN_PATTERNS
    <2>4. known = {c}
      BY <2>3, KnownGlobsDistinct
    <2>5. glob_to_pattern(as_str[c]) = Classified(CHOOSE d \in known : TRUE)
      BY <2>4 DEF glob_to_pattern
    <2>6. (CHOOSE d \in known : TRUE) = c
      BY <2>4
    <2>7. QED BY <2>1, <2>2, <2>5, <2>6
  <1>4. QED BY <1>0, <1>1, <1>2, <1>3, PatternForms

LEMMA ImportedVerdict ==
    ASSUME NEW r, r.verdict \in Verdicts, NEW o, NEW a
    PROVE  Imported(o, a, r.verdict = "Deny").verdict = r.verdict
  BY DEF Imported, NewRule, Verdicts

\* A line that is in the profile gives its rules.
LEMMA LineReturns ==
    ASSUME NEW ls, IsSequence(ls), \A i \in DOMAIN ls : IsLine(ls[i]), NEW l \in ToSet(ls), NEW q \in LineRules(l)
    PROVE  q \in ToSet(parse_apparmor(ls))
  <1>1. PICK i \in DOMAIN ls : ls[i] = l
    BY DEF ToSet
  <1>2. QED BY <1>1, ParseFacts, LineRulesAre

LEMMA SplitParts ==
    ASSUME NEW l, NEW path, NEW perms, split_path_perms(l) = [path |-> path, perms |-> perms]
    PROVE  PathOf(l) = path /\ PermsOf(l) = perms
  BY DEF PathOf, PermsOf

\* A name that the text keeps.
LEMMA NameReturns ==
    ASSUME NEW l, l.section # "network", IsSequence(l.glob), l.quoted = quote_if_needed(l.glob),
           ~(quote_if_needed(l.glob) /\ Chars(l.glob) \cap {Quote, "\n"} # {}),
           ~(~quote_if_needed(l.glob) /\ (l.glob = "" \/ \E w \in Keywords : StartsWith(l.glob, w)))
    PROVE  NameLine(l) /\ ~NetworkLine(l) /\ PathOf(l) = l.glob /\ PermsOf(l) = l.perms
  <1>1. CASE quote_if_needed(l.glob)
    <2>1. l.quoted /\ Quote \notin Chars(l.glob)
      BY <1>1
    <2>2. {i \in 1..Len(l.glob) : SubSeq(l.glob, i, i) = Quote} = {}
      BY <2>1 DEF Chars
    <2>3. split_path_perms(l) = [path |-> l.glob, perms |-> l.perms]
      BY <2>1, <2>2 DEF split_path_perms
    <2>4. ~SkippedLine(l)
      BY <2>1 DEF SkippedLine
    <2>5. PathOf(l) = l.glob /\ PermsOf(l) = l.perms
      BY <2>3, SplitParts
    <2>6. QED BY <2>1, <2>4, <2>5 DEF NameLine, NetworkLine
  <1>2. CASE ~quote_if_needed(l.glob)
    <2>1. ~l.quoted /\ l.glob # "" /\ \A w \in Keywords : ~StartsWith(l.glob, w)
      BY <1>2
    <2>2. Quote \in Keywords /\ "network" \in Keywords
      BY DEF Keywords
    <2>3. split_path_perms(l) = [path |-> l.glob, perms |-> l.perms]
      BY <2>1, <2>2 DEF split_path_perms
    <2>4. l.glob \notin {"owner", "audit", "deny", "allow"}
      <3>1. l.glob \notin Keywords
        BY <2>1, StartsReflexive
      <3>2. QED BY <3>1 DEF Keywords
    <2>5. "priority=" \in Keywords /\ Preamble \subseteq Keywords
      BY DEF Keywords
    <2>6. ~SkippedLine(l)
      BY <2>1, <2>4, <2>5 DEF SkippedLine
    <2>7. PathOf(l) = l.glob /\ PermsOf(l) = l.perms
      BY <2>3, SplitParts
    <2>8. ~StartsWith(l.glob, "network")
      BY <2>1, <2>2
    <2>9. QED BY <2>6, <2>7, <2>8 DEF NameLine, NetworkLine
  <1>3. QED BY <1>1, <1>2

LEMMA FileReturns ==
    ASSUME NEW r, LowerableRule(r), IsFileRule(r), apparmor_fidelity(r) = "Expressed",
           ~NamesakeOfClass(r), ~NameIsGlob(r), ~NameNotKept(r)
    PROVE  \E l \in Lowered(r).lines : \E q \in LineRules(l) : SameMeaning(r, q)
  <1> DEFINE deny == r.verdict = "Deny"
             g == file_glob(r.object.pattern)
             perms == IF r.action = "FileWrite" THEN {"w"} ELSE {"r"}
             action == IF r.action = "FileWrite" THEN "FileWrite" ELSE "FileRead"
             l == FileLine(deny, g.glob, perms)
             q == FileOf(l, action)
  <1>0. IsFile(r) /\ r.verdict \in Verdicts
    BY RuleKinds DEF IsFileRule
  <1>1. Lowered(r).loss = g.loss /\ (g.loss # "Dropped" => l \in Lowered(r).lines)
    <2>0. r.action \notin {"ProcExec", "NetConnect", "NetBind"}
      BY DEF IsFileRule, FileActions
    <2>1. CASE g.loss = "Dropped"
      BY <1>0, <2>0, <2>1 DEF Lowered
    <2>2. CASE g.loss # "Dropped" /\ r.action = "FileWrite"
      BY <1>0, <2>0, <2>2 DEF Lowered
    <2>3. CASE g.loss # "Dropped" /\ r.action # "FileWrite"
      BY <1>0, <2>0, <2>3 DEF Lowered
    <2>4. QED BY <2>1, <2>2, <2>3
  <1>2. Lowered(r).loss = "none"
    BY DEF apparmor_fidelity
  <1>3. g.loss = "none" /\ l \in Lowered(r).lines
    BY <1>1, <1>2
  <1>4. glob_to_pattern(g.glob) = r.object.pattern
    BY <1>3, PatternReturns
  <1>5. /\ l.section = "file" /\ l.glob = g.glob /\ l.perms = perms /\ l.deny = deny
        /\ l.quoted = quote_if_needed(g.glob)
    BY DEF FileLine
  <1>kept. NameLine(l) /\ ~NetworkLine(l) /\ PathOf(l) = g.glob /\ PermsOf(l) = perms
    <2>1. IsSequence(g.glob)
      BY <1>3, GlobFacts DEF IsFileRule
    <2>2. r.object.kind # "network"
      BY <1>0 DEF IsFile
    <2> HIDE DEF l, perms
    <2>3. /\ ~(quote_if_needed(g.glob) /\ Chars(g.glob) \cap {Quote, "\n"} # {})
          /\ ~(~quote_if_needed(g.glob) /\ (g.glob = "" \/ \E w \in Keywords : StartsWith(g.glob, w)))
      BY <1>0, <2>2 DEF NameNotKept
    <2> HIDE DEF g
    <2>4. QED BY <1>5, <2>1, <2>3, NameReturns
  <1>6. q \in LineRules(l)
    <2>1. r.action = "FileWrite" => PermsOf(l) \cap {"w", "a"} # {} /\ action = "FileWrite"
      BY <1>kept
    <2>2. r.action # "FileWrite" => "r" \in PermsOf(l) /\ action = "FileRead"
      BY <1>kept
    <2> HIDE DEF l, action
    <2>3. QED BY <1>kept, <2>1, <2>2 DEF LineRules
  <1>7. /\ q.verdict = r.verdict /\ q.action = action
        /\ q.object = File(glob_to_pattern(g.glob), FALSE)
    <2>1. q = Imported(File(glob_to_pattern(g.glob), FALSE), action, deny)
      BY <1>5, <1>kept DEF FileOf
    <2> DEFINE o == File(glob_to_pattern(g.glob), FALSE)
    <2> HIDE DEF l, q, action, o
    <2>2. q = Imported(o, action, r.verdict = "Deny")
      BY <2>1 DEF o
    <2>3. q.verdict = r.verdict /\ q.action = action /\ q.object = o
      BY <1>0, <2>2, ImportedVerdict, ImportedParts
    <2>4. QED BY <2>3 DEF o
  <1>8. q.object.pattern = r.object.pattern /\ q.object.kind = "file"
    BY <1>4, <1>7 DEF File
  <1>9. action \in FileActions /\ ModeOf(action) = ModeOf(r.action)
    BY DEF FileActions, ModeOf
  <1> HIDE DEF l, q, action
  <1>10. SameMeaning(r, q)
    BY <1>0, <1>7, <1>8, <1>9 DEF SameMeaning, IsFile
  <1>11. QED BY <1>3, <1>6, <1>10

LEMMA ExecReturns ==
    ASSUME NEW r, IsProcessRule(r), apparmor_fidelity(r) = "Expressed", ~NameNotKept(r)
    PROVE  \E l \in Lowered(r).lines : \E q \in LineRules(l) : SameMeaning(r, q)
  <1> DEFINE deny == r.verdict = "Deny"
             l == ExecLine(deny, r.object.binary)
             q == ExecOf(l)
             o == Process(r.object.binary)
  <1>0. ~IsFile(r) /\ r.verdict \in Verdicts /\ r.object = o /\ r.action \in {"ProcExec", "ProcFork"}
    <2>1. r = NewRule(r.subject, o, r.action, r.verdict)
      BY DEF IsProcessRule
    <2>2. r.object = o
      BY <2>1 DEF NewRule
    <2>3. QED BY <2>2, RuleKinds DEF IsProcessRule
  <1>1. r.action = "ProcExec"
    <2> SUFFICES ASSUME r.action = "ProcFork" PROVE FALSE
      BY <1>0
    <2>1. Lowered(r).loss = "Dropped"
      BY <1>0 DEF Lowered
    <2>2. QED BY <2>1 DEF apparmor_fidelity
  <1>2. l \in Lowered(r).lines
    BY <1>0, <1>1 DEF Lowered
  <1>3. /\ l.section = "exec" /\ l.deny = deny /\ l.glob = r.object.binary /\ "x" \in l.perms
        /\ l.quoted = quote_if_needed(r.object.binary)
    BY DEF ExecLine
  <1>kept. NameLine(l) /\ ~NetworkLine(l) /\ PathOf(l) = r.object.binary /\ PermsOf(l) = l.perms
    <2> DEFINE b == r.object.binary
    <2>1. IsSequence(b) /\ r.object.kind # "network"
      BY <1>0 DEF IsProcessRule, Process
    <2> HIDE DEF l, o
    <2>2. /\ ~(quote_if_needed(b) /\ Chars(b) \cap {Quote, "\n"} # {})
          /\ ~(~quote_if_needed(b) /\ (b = "" \/ \E w \in Keywords : StartsWith(b, w)))
      BY <1>0, <2>1 DEF NameNotKept
    <2> HIDE DEF b
    <2>3. l.section # "network" /\ l.glob = b /\ l.quoted = quote_if_needed(b)
      BY <1>3 DEF b
    <2>4. NameLine(l) /\ ~NetworkLine(l) /\ PathOf(l) = b /\ PermsOf(l) = l.perms
      BY <2>1, <2>2, <2>3, NameReturns
    <2>5. QED BY <2>4 DEF b
  <1>4. q \in LineRules(l)
    <2> HIDE DEF l
    <2>1. QED BY <1>3, <1>kept DEF LineRules
  <1>5. q = Imported(o, "ProcExec", deny)
    BY <1>3, <1>kept DEF ExecOf
  <1> HIDE DEF l, q, o
  <1>6. q = Imported(o, "ProcExec", r.verdict = "Deny")
    BY <1>5
  <1>7. q.verdict = r.verdict /\ q.action = "ProcExec" /\ q.object = o
    BY <1>0, <1>6, ImportedVerdict, ImportedParts
  <1>8. SameMeaning(r, q)
    BY <1>0, <1>1, <1>7 DEF SameMeaning
  <1>9. QED BY <1>2, <1>4, <1>8

LEMMA NetworkReturns ==
    ASSUME NEW r, LowerableRule(r), IsNetworkRule(r), apparmor_fidelity(r) = "Expressed", ~LacksProtocol(r)
    PROVE  \E l \in Lowered(r).lines : \E q \in LineRules(l) : SameMeaning(r, q)
  <1> DEFINE deny == r.verdict = "Deny"
             type == IF r.object.protocol = 17 THEN "dgram" ELSE "stream"
             l == NetLine(deny, type, r.object.ip, r.object.port)
             q == NetOf(l)
             o == Network(r.object.ip, r.object.port, r.object.protocol)
  <1>0. ~IsFile(r) /\ r.verdict \in Verdicts /\ r.object = o /\ r.action \in {"NetConnect", "NetBind"}
    <2>1. r = NewRule(r.subject, o, r.action, r.verdict)
      BY DEF IsNetworkRule
    <2>2. r.object = o
      BY <2>1 DEF NewRule
    <2>3. QED BY <2>2, RuleKinds DEF IsNetworkRule
  <1>1. Lowered(r).loss = (IF r.object.ip = NoAddr /\ r.object.port = NoAddr THEN "none" ELSE "AbiGated")
        /\ l \in Lowered(r).lines
    BY <1>0 DEF Lowered
  <1>2. r.object.ip = NoAddr
    <2>1. Lowered(r).loss = "none"
      BY DEF apparmor_fidelity
    <2>2. QED BY <1>1, <2>1
  <1>3. r.action = "NetConnect" /\ r.object.protocol \in {6, 17}
    <2>1. r.action = "NetConnect" /\ r.object.protocol \in {6, 17, NoAddr}
      BY <1>2 DEF LowerableRule
    <2>2. r.object.kind = "network"
      BY <1>0 DEF Network
    <2>3. QED BY <2>1, <2>2 DEF LacksProtocol
  <1>4. l.section = "network" /\ l.deny = deny /\ l.type = type /\ l.ip = r.object.ip /\ l.port = r.object.port
    BY DEF NetLine
  <1>5. ProtocolOf(l) = r.object.protocol
    BY <1>3, <1>4 DEF ProtocolOf
  <1>6. q \in LineRules(l)
    <2> HIDE DEF l
    <2>1. QED BY <1>4 DEF LineRules, NetworkLine
  <1>7. q = Imported(o, "NetConnect", deny)
    <2> HIDE DEF l
    <2>1. q = Imported(Network(l.ip, l.port, ProtocolOf(l)), "NetConnect", l.deny)
      BY <1>4 DEF NetOf
    <2> HIDE DEF q
    <2>2. QED BY <1>4, <1>5, <2>1, Zenon
  <1> HIDE DEF l, q, o
  <1>8. q = Imported(o, "NetConnect", r.verdict = "Deny")
    BY <1>7
  <1>9. q.verdict = r.verdict /\ q.action = "NetConnect" /\ q.object = o
    BY <1>0, <1>8, ImportedVerdict, ImportedParts
  <1>10. SameMeaning(r, q)
    BY <1>0, <1>3, <1>9 DEF SameMeaning
  <1>11. QED BY <1>1, <1>6, <1>10

\* What was lowered is in the profile, and the profile is what is read back.
LoweredInv ==
    /\ stage \in {"lowered", "reimported"} =>
          /\ IsSequence(lines) /\ \A i \in DOMAIN lines : IsLine(lines[i])
          /\ \A r \in compiled : LowerableRule(r) /\ Lowered(r).lines \subseteq ToSet(lines)
    /\ stage = "reimported" => rules = parse_apparmor(lines)

LEMMA LoweredInit == Init => LoweredInv
  BY DEF Init, LoweredInv

LEMMA LoweredNext == RulesInv /\ SourceInv /\ LoweredInv /\ [Next]_vars => LoweredInv'
  <1> SUFFICES ASSUME RulesInv, SourceInv, LoweredInv, [Next]_vars PROVE LoweredInv'
    OBVIOUS
  <1>1. CASE ReadProfile
    BY <1>1 DEF ReadProfile, LoweredInv
  <1>2. ASSUME NEW from, NEW to, NEW results, Pass(from, to, results), to \notin {"lowered", "reimported"}
        PROVE  LoweredInv'
    BY <1>2 DEF Pass, LoweredInv
  <1>3. CASE RunPass
    BY <1>2, <1>3 DEF RunPass
  <1>4. CASE LinkRules
    BY <1>2, <1>4 DEF LinkRules
  <1>5. CASE Lower
    <2>1. stage = "linked" /\ lines' = lower_to_apparmor(rules) /\ compiled' = ToSet(rules) /\ stage' = "lowered"
      BY <1>5 DEF Lower
    <2>2. AreRules(rules)
      BY DEF RulesInv
    <2>3. /\ IsSequence(lines') /\ ToSet(lines') = UNION {Lowered(r).lines : r \in ToSet(rules)}
          /\ \A i \in DOMAIN lines' : IsLine(lines'[i])
      BY <2>1, <2>2, LowerFacts
    <2>4. \A r \in compiled' : LowerableRule(r)
      BY <2>1, AllLowerable DEF Compiling
    <2>5. \A r \in compiled' : Lowered(r).lines \subseteq ToSet(lines')
      BY <2>1, <2>3
    <2>6. QED BY <2>1, <2>3, <2>4, <2>5 DEF LoweredInv
  <1>6. CASE Reimport
    BY <1>6 DEF Reimport, LoweredInv
  <1>7. CASE UNCHANGED vars
    BY <1>7 DEF vars, LoweredInv
  <1>8. QED BY <1>1, <1>3, <1>4, <1>5, <1>6, <1>7 DEF Next

LEMMA LoweredAlways == Spec => []LoweredInv
  BY RulesAlways, SourceAlways, LoweredInit, LoweredNext, PTL DEF Spec

LEMMA ReportHonest == RulesInv /\ SourceInv /\ LoweredInv => FrictionHonest
  <1> SUFFICES ASSUME RulesInv, SourceInv, LoweredInv PROVE FrictionHonest
    OBVIOUS
  <1>1. ASSUME stage = "reimported", NEW r \in compiled, apparmor_fidelity(r) = "Expressed",
               ~NamesakeOfClass(r), ~NameIsGlob(r), ~NameNotKept(r), ~LacksProtocol(r)
        PROVE  \E i \in DOMAIN rules : SameMeaning(r, rules[i])
    <2>1. /\ IsSequence(lines) /\ \A i \in DOMAIN lines : IsLine(lines[i])
          /\ LowerableRule(r) /\ Lowered(r).lines \subseteq ToSet(lines)
          /\ rules = parse_apparmor(lines)
      BY <1>1 DEF LoweredInv
    <2>2. \E l \in Lowered(r).lines : \E q \in LineRules(l) : SameMeaning(r, q)
      BY <1>1, <2>1, FileReturns, ExecReturns, NetworkReturns DEF LowerableRule, IsRule
    <2>3. PICK l \in Lowered(r).lines : \E q \in LineRules(l) : SameMeaning(r, q)
      BY <2>2
    <2>4. PICK q \in LineRules(l) : SameMeaning(r, q)
      BY <2>3
    <2>5. q \in ToSet(rules)
      BY <2>1, LineReturns
    <2>6. QED BY <2>4, <2>5 DEF ToSet
  <1>2. ASSUME stage = "linked", NEW i \in DOMAIN rules
        PROVE  /\ bpf_fidelity(rules[i]) = "Dropped" /\ ~HasForm(rules[i], "prefix") =>
                     /\ \A path \in Paths, mode \in Modes :
                           FilePermitted(rules, path, mode)
                               <=> FilePermitted(Without(rules, i), path, mode)
                     /\ \A d \in Destinations :
                           ConnectPermitted(rules, d[1], d[2])
                               <=> ConnectPermitted(Without(rules, i), d[1], d[2])
               /\ IsFile(rules[i]) /\ bpf_fidelity(rules[i]) = "Expressed" =>
                     \A path \in Paths, mode \in Modes :
                         /\ Matches(rules[i].object.pattern, path)
                         /\ mode # ModeOf(rules[i].action)
                         /\ FilePermitted(rules, path, mode)
                         => \E j \in DOMAIN rules : /\ Covers(rules[j], path)
                                                    /\ ModeOf(rules[j].action) = mode
    BY <1>2, DroppedIdle, ExpressedOwnMode
  <1>3. QED BY <1>1, <1>2 DEF FrictionHonest

(* The friction report says nothing false, for every profile: a rule it calls *)
(* expressed in AppArmor (friction.rs) comes back from the emitted profile   *)
(* with its meaning, one it calls dropped by BPF-LSM changes no decision of  *)
(* the hooks, and an expressed file rule grants no mode but its own, apart   *)
(* from the five cases the property names.                                   *)
THEOREM ReportAlwaysHonest == Spec => []FrictionHonest
  BY RulesAlways, SourceAlways, LoweredAlways, ReportHonest, PTL
=============================================================================

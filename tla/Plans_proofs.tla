----------------------------- MODULE Plans_proofs -----------------------------
(***************************************************************************)
(* What the proofs about the other modules keep needing: numbers that are  *)
(* taken one by one, sums over finite sets, the choice of elements out of  *)
(* a sequence (Only), sequences put together end to end, and the plans     *)
(* that come out of the providers' decorators.                             *)
(***************************************************************************)
EXTENDS Plans, FiniteSetTheorems, SequenceTheorems, WellFoundedInduction, TLAPS

-----------------------------------------------------------------------------
(* Numbers. *)

\* A set of numbers that is not empty has a least one.
LEMMA LeastNumber ==
  ASSUME NEW S \in SUBSET Nat, S # {}
  PROVE  \E m \in S : \A n \in S : m <= n
<1>1. PICK m \in S : \A n \in S : <<n, m>> \notin OpToRel(<, Nat)
  BY WFMin, NatLessThanWellFounded, Zenon
<1>2. \A n \in S : ~(n < m)
  BY <1>1, Zenon DEF OpToRel
<1> QED
  BY <1>2

\* What holds of nought and is handed on to the next number holds of every number.
LEMMA NumberByNumber ==
  ASSUME NEW S \in SUBSET Nat, 0 \in S, \A n \in S : n + 1 \in S
  PROVE  S = Nat
<1> SUFFICES ASSUME Nat \ S # {}
             PROVE  FALSE
  OBVIOUS
<1>1. PICK m \in Nat \ S : \A n \in Nat \ S : m <= n
  BY LeastNumber
<1>2. m # 0 /\ m - 1 \in Nat
  BY <1>1
<1>3. m - 1 \in S
  BY <1>1, <1>2
<1> QED
  BY <1>2, <1>3

-----------------------------------------------------------------------------
(* Some of the elements of a sequence. *)

LEMMA FunctionIsSequence ==
  ASSUME NEW S, NEW n \in Nat, NEW f \in [1 .. n -> S]
  PROVE  f \in Seq(S) /\ Len(f) = n
<1>1. f \in Seq(S)
  BY SeqDef
<1>2. DOMAIN f = 1 .. n /\ DOMAIN f = 1 .. Len(f) /\ Len(f) \in Nat
  BY <1>1, LenProperties
<1> QED
  BY <1>1, <1>2

\* The places of a sequence can be counted: the k-th of them comes before the next.
LEMMA PlacesCounted ==
  ASSUME NEW n \in Nat, NEW I \in SUBSET (1 .. n),
         NEW Rank, Rank = [i \in I |-> Cardinality({j \in I : j <= i})]
  PROVE  /\ IsFiniteSet(I) /\ Cardinality(I) \in Nat
         /\ Rank \in Bijection(I, 1 .. Cardinality(I))
         /\ \A i, j \in I : i < j => Rank[i] < Rank[j]
<1> DEFINE Upto(i) == {j \in I : j <= i}
<1>1. IsFiniteSet(I) /\ Cardinality(I) \in Nat
  <2>1. IsFiniteSet(1 .. n)
    BY FS_Interval
  <2> QED
    BY <2>1, FS_Subset, FS_CardinalityType
<1>2. \A i \in I : /\ IsFiniteSet(Upto(i)) /\ Cardinality(Upto(i)) \in Nat
                   /\ Cardinality(Upto(i)) <= Cardinality(I)
  BY <1>1, FS_Subset, FS_CardinalityType
<1>3. \A i \in I : Cardinality(Upto(i)) # 0
  BY <1>2, FS_EmptySet
<1>4. ASSUME NEW i \in I, NEW j \in I, i < j
      PROVE  Cardinality(Upto(i)) < Cardinality(Upto(j))
  <2>1. Upto(i) \in SUBSET (Upto(j) \ {j}) /\ j \in Upto(j)
    <3>1. \A k \in I : k \in Nat
      OBVIOUS
    <3>2. \A k \in I : k <= i => k <= j /\ k # j
      BY <1>4, <3>1
    <3>3. j <= j
      BY <3>1
    <3> QED
      BY <3>2, <3>3, Zenon
  <2>2. /\ IsFiniteSet(Upto(j) \ {j})
        /\ Cardinality(Upto(j) \ {j}) = Cardinality(Upto(j)) - 1
    BY <1>2, <2>1, FS_RemoveElement
  <2>3. Cardinality(Upto(i)) <= Cardinality(Upto(j) \ {j})
    BY <2>1, <2>2, FS_Subset
  <2> HIDE DEF Upto
  <2> QED
    BY <1>2, <2>2, <2>3
<1>5. Rank = [i \in I |-> Cardinality(Upto(i))]
  OBVIOUS
<1> HIDE DEF Upto
<1>6. \A i, j \in I : i < j => Rank[i] < Rank[j]
  BY <1>4, <1>5
<1>7. Rank \in [I -> 1 .. Cardinality(I)]
  BY <1>1, <1>2, <1>3, <1>5
<1>8. \A i, j \in I : Rank[i] = Rank[j] => i = j
  BY <1>6, <1>7
<1>9. Rank \in Injection(I, 1 .. Cardinality(I))
  BY <1>7, <1>8 DEF Injection, IsInjective
<1>10. IsFiniteSet(1 .. Cardinality(I)) /\ Cardinality(1 .. Cardinality(I)) = Cardinality(I)
  BY <1>1, FS_Interval
<1>11. Rank \in Surjection(I, 1 .. Cardinality(I))
  BY <1>9, <1>10, FS_Injection
<1> QED
  BY <1>1, <1>6, <1>9, <1>11 DEF Bijection

\* The places one after the other, and what stands there.
InTurn(place, s, I) ==
  /\ place \in [1 .. Cardinality(I) -> I]
  /\ \A k, l \in 1 .. Cardinality(I) : k < l => place[k] < place[l]
  /\ \A i \in I : \E k \in 1 .. Cardinality(I) : place[k] = i
  /\ Only(s, I) = [k \in 1 .. Cardinality(I) |-> s[place[k]]]

\* The elements at some places stand in the order of these places.
LEMMA OnlyInOrder ==
  ASSUME NEW n \in Nat, NEW s, NEW I \in SUBSET (1 .. n)
  PROVE  /\ IsFiniteSet(I) /\ Cardinality(I) \in Nat
         /\ \E place : InTurn(place, s, I)
<1> DEFINE Rank == [i \in I |-> Cardinality({j \in I : j <= i})]
<1> DEFINE size == Cardinality(I)
<1> DEFINE Place(k) == CHOOSE i \in I : Cardinality({j \in I : j <= i}) = k
<1> DEFINE place == [k \in 1 .. size |-> Place(k)]
<1>1. /\ IsFiniteSet(I) /\ size \in Nat
      /\ Rank \in Bijection(I, 1 .. size)
      /\ \A i, j \in I : i < j => Rank[i] < Rank[j]
  <2> HIDE DEF Rank, size
  <2> QED
    BY PlacesCounted DEF Rank, size
<1>2. \A k \in 1 .. size : \E i \in I : Rank[i] = k
  <2> HIDE DEF Rank, size
  <2> QED
    BY <1>1 DEF Bijection, Surjection
<1>3. \A k \in 1 .. size : Place(k) \in I /\ Rank[Place(k)] = k
  <2> SUFFICES ASSUME NEW k \in 1 .. size
               PROVE  Place(k) \in I /\ Rank[Place(k)] = k
    OBVIOUS
  <2>1. \E i \in I : Cardinality({j \in I : j <= i}) = k
    BY <1>2
  <2>2. Place(k) \in I /\ Cardinality({j \in I : j <= Place(k)}) = k
    BY <2>1
  <2> HIDE DEF Place
  <2> QED
    BY <2>2
<1>4. Only(s, I) = [k \in 1 .. size |-> s[Place(k)]]
  BY DEF Only
<1> HIDE DEF Rank, Place
<1>5. place \in [1 .. size -> I] /\ \A k \in 1 .. size : Rank[place[k]] = k
  BY <1>3
<1>6. \A k \in 1 .. size : place[k] = Place(k)
  OBVIOUS
<1> HIDE DEF place, size
<1>7. Only(s, I) = [k \in 1 .. size |-> s[place[k]]]
  BY <1>4, <1>6
<1>8. Rank \in [I -> 1 .. size] /\ \A i, j \in I : Rank[i] = Rank[j] => i = j
  BY <1>1 DEF Bijection, Injection, Surjection, IsInjective
<1>9. \A i \in I : \E k \in 1 .. size : place[k] = i
  BY <1>5, <1>8
<1>10. \A k, l \in 1 .. size : k < l => place[k] < place[l]
  <2> SUFFICES ASSUME NEW k \in 1 .. size, NEW l \in 1 .. size, k < l
               PROVE  place[k] < place[l]
    OBVIOUS
  <2>1. place[k] \in I /\ place[l] \in I /\ Rank[place[k]] = k /\ Rank[place[l]] = l
    BY <1>5
  <2>2. place[k] # place[l]
    BY <2>1
  <2>3. place[l] < place[k] => l < k
    BY <1>1, <2>1
  <2>4. ~(place[l] < place[k])
    BY <1>1, <2>3
  <2>5. place[k] \in Nat /\ place[l] \in Nat
    <3>1. \A i \in I : i \in Nat
      OBVIOUS
    <3> QED
      BY <2>1, <3>1, Zenon
  <2> QED
    BY <2>2, <2>4, <2>5
<1>11. InTurn(place, s, I)
  BY <1>5, <1>7, <1>9, <1>10 DEF InTurn, size
<1> QED
  BY <1>1, <1>11 DEF size

\* How many of the places are up to i.
RankIn(I, i) == Cardinality({j \in I : j <= i})

\* The places are taken by their rank: place[k] is the one with k of them up to it.
LEMMA OnlyAt ==
  ASSUME NEW s, NEW I, NEW place,
         \A k \in 1 .. Cardinality(I) :
           place[k] \in I /\ RankIn(I, place[k]) = k,
         \A i \in I : i = place[RankIn(I, i)]
  PROVE  Only(s, I) = [k \in 1 .. Cardinality(I) |-> s[place[k]]]
<1> DEFINE chosen(k) == CHOOSE i \in I : RankIn(I, i) = k
<1>1. ASSUME NEW k \in 1 .. Cardinality(I)
      PROVE  chosen(k) = place[k]
  <2>1. chosen(k) \in I /\ RankIn(I, chosen(k)) = k
    OBVIOUS
  <2> HIDE DEF chosen
  <2> QED
    BY <2>1
<1>2. Only(s, I) = [k \in 1 .. Cardinality(I) |-> s[chosen(k)]]
  BY DEF Only, RankIn
<1> HIDE DEF chosen
<1> QED
  BY <1>1, <1>2

\* All the elements of a sequence are the sequence itself.
LEMMA OnlyAll ==
  ASSUME NEW S, NEW s \in Seq(S)
  PROVE  Only(s, DOMAIN s) = s
<1> DEFINE n == Len(s)
<1> DEFINE place == [k \in 1 .. n |-> k]
<1>1. n \in Nat /\ DOMAIN s = 1 .. n /\ s = [k \in 1 .. n |-> s[k]]
  OBVIOUS
<1>2. \A m \in Nat : IsFiniteSet(1 .. m) /\ Cardinality(1 .. m) = m
  BY FS_Interval
<1>3. Cardinality(1 .. n) = n
  BY <1>1, <1>2
<1>4. \A k \in 1 .. n : RankIn(1 .. n, k) = k
  <2> SUFFICES ASSUME NEW k \in 1 .. n
               PROVE  Cardinality({j \in 1 .. n : j <= k}) = k
    BY DEF RankIn
  <2>1. {j \in 1 .. n : j <= k} = 1 .. k /\ k \in Nat
    BY <1>1
  <2> QED
    BY <1>2, <2>1
<1> HIDE DEF n
<1> DEFINE I == 1 .. n
<1>5. \A k \in 1 .. n : place[k] \in I /\ RankIn(I, place[k]) = k
  BY <1>4
<1>6. \A i \in I : i = place[RankIn(I, i)]
  BY <1>4
<1>7. Cardinality(I) = n
  BY <1>3
<1> HIDE DEF I, place
<1>8. Only(s, I) = [k \in 1 .. Cardinality(I) |-> s[place[k]]]
  BY <1>5, <1>6, <1>7, OnlyAt
<1>9. Only(s, I) = s
  BY <1>1, <1>7, <1>8 DEF place
<1> QED
  BY <1>1, <1>9 DEF I

\* All places but the second.
LEMMA OnlyBut ==
  ASSUME NEW n \in Nat, 1 <= n, NEW s
  PROVE  Only(s, (1 .. n + 1) \ {2}) = [k \in 1 .. n |-> s[IF k = 1 THEN 1 ELSE k + 1]]
<1> DEFINE I == (1 .. n + 1) \ {2}
<1> DEFINE place == [k \in 1 .. n |-> IF k = 1 THEN 1 ELSE k + 1]
<1>1. ASSUME NEW m \in Nat, 2 <= m
      PROVE  Cardinality((1 .. m) \ {2}) = m - 1
  <2>1. IsFiniteSet(1 .. m) /\ Cardinality(1 .. m) = m
    <3>1. \A l \in Nat : IsFiniteSet(1 .. l) /\ Cardinality(1 .. l) = l
      BY FS_Interval
    <3> QED
      BY <3>1
  <2>2. 2 \in 1 .. m
    BY <1>1
  <2> DEFINE T == 1 .. m
  <2> HIDE DEF T
  <2>3. Cardinality(T \ {2}) = Cardinality(T) - 1
    BY <2>1, <2>2, FS_RemoveElement DEF T
  <2> QED
    BY <2>1, <2>3 DEF T
<1>2. Cardinality(I) = n
  <2>1. n + 1 \in Nat /\ 2 <= n + 1 /\ (n + 1) - 1 = n
    OBVIOUS
  <2> QED
    BY <1>1, <2>1
<1>3. RankIn(I, 1) = 1
  <2>1. {j \in I : j <= 1} = {1}
    OBVIOUS
  <2> QED
    BY <2>1, FS_Singleton DEF RankIn
<1>4. ASSUME NEW i \in 3 .. n + 1
      PROVE  RankIn(I, i) = i - 1
  <2>1. {j \in I : j <= i} = (1 .. i) \ {2}
    OBVIOUS
  <2>2. i \in Nat /\ 2 <= i
    OBVIOUS
  <2> QED
    BY <1>1, <2>1, <2>2 DEF RankIn
<1>5. \A k \in 1 .. n : place[k] \in I /\ RankIn(I, place[k]) = k
  <2> SUFFICES ASSUME NEW k \in 1 .. n
               PROVE  place[k] \in I /\ RankIn(I, place[k]) = k
    OBVIOUS
  <2>1. CASE k = 1
    BY <1>3, <2>1
  <2>2. CASE k # 1
    <3>1. place[k] = k + 1 /\ k + 1 \in 3 .. n + 1 /\ (k + 1) - 1 = k
      BY <2>2
    <3>2. RankIn(I, k + 1) = (k + 1) - 1
      BY <1>4, <3>1
    <3> QED
      BY <3>1, <3>2
  <2> QED
    BY <2>1, <2>2
<1>6. \A i \in I : i = place[RankIn(I, i)]
  <2> SUFFICES ASSUME NEW i \in I
               PROVE  i = place[RankIn(I, i)]
    OBVIOUS
  <2>1. CASE i = 1
    BY <1>3, <2>1
  <2>2. CASE i # 1
    <3>1. i \in 3 .. n + 1 /\ i - 1 \in 1 .. n /\ i - 1 # 1 /\ (i - 1) + 1 = i
      BY <2>2
    <3>2. RankIn(I, i) = i - 1
      BY <1>4, <3>1
    <3> QED
      BY <3>1, <3>2
  <2> QED
    BY <2>1, <2>2
<1> HIDE DEF I, place
<1>7. Only(s, I) = [k \in 1 .. Cardinality(I) |-> s[place[k]]]
  BY <1>2, <1>5, <1>6, OnlyAt
<1>8. Only(s, I) = [k \in 1 .. n |-> s[place[k]]]
  BY <1>2, <1>7
<1> QED
  BY <1>8 DEF place, I

\* Only keeps elements of the sequence, those at the places and no others.
LEMMA OnlyKeeps ==
  ASSUME NEW S, NEW s \in Seq(S), NEW I \in SUBSET DOMAIN s
  PROVE  /\ Only(s, I) \in Seq(S)
         /\ IsFiniteSet(I) /\ Cardinality(I) \in Nat
         /\ Len(Only(s, I)) = Cardinality(I) /\ DOMAIN Only(s, I) = 1 .. Cardinality(I)
         /\ ToSet(Only(s, I)) = {s[i] : i \in I}
         /\ \A k \in DOMAIN Only(s, I) : \E i \in I : Only(s, I)[k] = s[i]
<1> DEFINE size == Cardinality(I)
<1>1. DOMAIN s = 1 .. Len(s) /\ Len(s) \in Nat /\ \A i \in DOMAIN s : s[i] \in S
  OBVIOUS
<1>2. IsFiniteSet(I) /\ size \in Nat /\ \E place : InTurn(place, s, I)
  <2>1. I \in SUBSET (1 .. Len(s)) /\ Len(s) \in Nat
    BY <1>1
  <2> QED
    BY <2>1, OnlyInOrder
<1> HIDE DEF size
<1>3. PICK place \in [1 .. size -> I] :
        /\ \A i \in I : \E k \in 1 .. size : place[k] = i
        /\ Only(s, I) = [k \in 1 .. size |-> s[place[k]]]
  BY <1>2 DEF InTurn, size
<1>4. /\ DOMAIN Only(s, I) = 1 .. size
      /\ \A k \in 1 .. size :
           /\ place[k] \in I /\ Only(s, I)[k] = s[place[k]] /\ s[place[k]] \in S
  BY <1>1, <1>3
<1>5. Only(s, I) \in Seq(S) /\ Len(Only(s, I)) = size
  <2>1. Only(s, I) \in [1 .. size -> S]
    BY <1>3, <1>4
  <2> QED
    BY <1>2, <2>1, <1>4, SeqDef
<1>6. ToSet(Only(s, I)) = {s[i] : i \in I}
  <2>1. ToSet(Only(s, I)) = {Only(s, I)[k] : k \in 1 .. size}
    BY <1>4 DEF ToSet
  <2>2. \A k \in 1 .. size : Only(s, I)[k] \in {s[i] : i \in I}
    BY <1>4
  <2>3. \A i \in I : s[i] \in {Only(s, I)[k] : k \in 1 .. size}
    BY <1>3, <1>4
  <2> QED
    BY <2>1, <2>2, <2>3
<1> QED
  BY <1>2, <1>4, <1>5, <1>6 DEF size

-----------------------------------------------------------------------------
(* Sequences put together end to end. *)

\* What FlattenSeq of the community modules takes step by step.
Joins(f, seqs) ==
  f = [i \in 1 .. Len(seqs) |-> IF i = 1 THEN seqs[i] ELSE f[i - 1] \o seqs[i]]

\* The elements of the first n sequences, in order: which sequence one is from, and
\* where it stands there.
Laid(flat, seqs, n, which, where) ==
  /\ which \in [DOMAIN flat -> 1 .. n] /\ where \in [DOMAIN flat -> Nat]
  /\ \A p \in DOMAIN flat : /\ where[p] \in DOMAIN seqs[which[p]]
                            /\ flat[p] = seqs[which[p]][where[p]]
  /\ \A p, q \in DOMAIN flat : p < q =>
       which[p] < which[q] \/ (which[p] = which[q] /\ where[p] < where[q])
  /\ \A j \in 1 .. n : \A k \in DOMAIN seqs[j] :
       \E p \in DOMAIN flat : which[p] = j /\ where[p] = k

\* Sequences can be joined one after the other...
LEMMA JoinExists ==
  ASSUME NEW seqs, NEW n \in Nat, Len(seqs) = n
  PROVE  \E f : Joins(f, seqs)
<1> DEFINE After(f, i) == IF i = 1 THEN seqs[i] ELSE f[i - 1] \o seqs[i]
<1> DEFINE T == {m \in Nat : \E f : f = [i \in 1 .. m |-> After(f, i)]}
<1>1. 0 \in T
  <2> DEFINE f == [i \in 1 .. 0 |-> 0]
  <2>1. f = [i \in 1 .. 0 |-> After(f, i)]
    <3>1. 1 .. 0 = {}
      OBVIOUS
    <3> HIDE DEF After
    <3> QED
      BY <3>1
  <2> HIDE DEF f, After
  <2> QED
    BY <2>1
<1>2. ASSUME NEW m \in T
      PROVE  m + 1 \in T
  <2>1. PICK f : f = [i \in 1 .. m |-> After(f, i)]
    OBVIOUS
  <2> DEFINE g == [i \in 1 .. m + 1 |-> After(f, i)]
  <2>2. m \in Nat
    OBVIOUS
  <2>3. \A i \in 1 .. m : g[i] = f[i]
    <3>1. \A i \in 1 .. m : i \in 1 .. m + 1
      BY <2>2
    <3>2. \A i \in 1 .. m : f[i] = After(f, i)
      <4> HIDE DEF After
      <4> QED
        BY <2>1
    <3> HIDE DEF After
    <3> QED
      BY <3>1, <3>2
  <2>4. \A i \in 1 .. m + 1 : After(f, i) = After(g, i)
    <3>1. \A i \in 1 .. m + 1 : i # 1 => i - 1 \in 1 .. m
      BY <2>2
    <3> HIDE DEF g
    <3> QED
      BY <2>3, <3>1
  <2>5. g = [i \in 1 .. m + 1 |-> After(g, i)]
    <3>1. g = [i \in 1 .. m + 1 |-> After(f, i)]
      OBVIOUS
    <3> HIDE DEF g, After
    <3> QED
      BY <2>4, <3>1
  <2>6. m + 1 \in Nat
    BY <2>2
  <2> HIDE DEF g, After
  <2> QED
    BY <2>5, <2>6
<1>3. T = Nat
  <2>1. T \in SUBSET Nat
    OBVIOUS
  <2> HIDE DEF T
  <2> QED
    BY <1>1, <1>2, <2>1, NumberByNumber
<1>4. \E f : f = [i \in 1 .. n |-> After(f, i)]
  <2> HIDE DEF After
  <2> QED
    BY <1>3
<1> QED
  BY <1>4 DEF Joins

\* ... the first of them alone ...
LEMMA FirstLaid ==
  ASSUME NEW S, NEW seqs, seqs[1] \in Seq(S)
  PROVE  \E which, where : Laid(seqs[1], seqs, 1, which, where)
<1> DEFINE flat == seqs[1]
<1> DEFINE which == [p \in DOMAIN flat |-> 1]
<1> DEFINE where == [p \in DOMAIN flat |-> p]
<1>1. DOMAIN flat = 1 .. Len(flat) /\ Len(flat) \in Nat
  OBVIOUS
<1>2. which \in [DOMAIN flat -> 1 .. 1] /\ where \in [DOMAIN flat -> Nat]
  BY <1>1
<1>3. \A p \in DOMAIN flat : which[p] = 1 /\ where[p] = p
  OBVIOUS
<1>4. \A j \in 1 .. 1 : j = 1
  OBVIOUS
<1> HIDE DEF which, where
<1>5. Laid(flat, seqs, 1, which, where)
  BY <1>2, <1>3, <1>4 DEF Laid
<1> QED
  BY <1>5

\* ... and each behind those before it.
LEMMA NextLaid ==
  ASSUME NEW S, NEW seqs, NEW n \in Nat, NEW flat \in Seq(S), seqs[n + 1] \in Seq(S),
         \E which, where : Laid(flat, seqs, n, which, where)
  PROVE  \E which, where : Laid(flat \o seqs[n + 1], seqs, n + 1, which, where)
<1>1. PICK which, where : Laid(flat, seqs, n, which, where)
  OBVIOUS
<1> DEFINE added == seqs[n + 1]
<1> DEFINE longer == flat \o added
<1> DEFINE which2 == [p \in DOMAIN longer |-> IF p <= Len(flat) THEN which[p] ELSE n + 1]
<1> DEFINE where2 == [p \in DOMAIN longer |-> IF p <= Len(flat) THEN where[p] ELSE p - Len(flat)]
<1>2. /\ Len(flat) \in Nat /\ DOMAIN flat = 1 .. Len(flat)
      /\ Len(added) \in Nat /\ DOMAIN added = 1 .. Len(added)
  BY LenProperties
<1>3. /\ Len(longer) = Len(flat) + Len(added) /\ DOMAIN longer = 1 .. Len(flat) + Len(added)
      /\ \A p \in DOMAIN longer :
           longer[p] = IF p <= Len(flat) THEN flat[p] ELSE added[p - Len(flat)]
  <2>1. added \in Seq(S)
    OBVIOUS
  <2> HIDE DEF added
  <2> QED
    BY <2>1, ConcatProperties, LenProperties
<1>4. /\ which \in [DOMAIN flat -> 1 .. n] /\ where \in [DOMAIN flat -> Nat]
      /\ \A p \in DOMAIN flat : where[p] \in DOMAIN seqs[which[p]] /\ flat[p] = seqs[which[p]][where[p]]
  BY <1>1 DEF Laid
<1>5. \A p, q \in DOMAIN flat : p < q =>
        which[p] < which[q] \/ (which[p] = which[q] /\ where[p] < where[q])
  BY <1>1 DEF Laid
<1>6. \A j \in 1 .. n : \A k \in DOMAIN seqs[j] :
        \E p \in DOMAIN flat : which[p] = j /\ where[p] = k
  BY <1>1 DEF Laid
<1>7. \A p \in DOMAIN longer :
        \/ /\ p <= Len(flat) /\ p \in DOMAIN flat
           /\ which2[p] = which[p] /\ where2[p] = where[p] /\ longer[p] = flat[p]
        \/ /\ Len(flat) < p /\ p - Len(flat) \in DOMAIN added
           /\ which2[p] = n + 1 /\ where2[p] = p - Len(flat)
           /\ longer[p] = added[p - Len(flat)]
  <2> HIDE DEF longer, added
  <2> QED
    BY <1>2, <1>3
<1>8. DOMAIN which2 = DOMAIN longer /\ DOMAIN where2 = DOMAIN longer
  OBVIOUS
<1>9. \A p \in DOMAIN longer : p \in Nat
  BY <1>2, <1>3
<1> HIDE DEF which2, where2, longer
<1>10. which2 \in [DOMAIN longer -> 1 .. n + 1] /\ where2 \in [DOMAIN longer -> Nat]
  <2>1. \A p \in DOMAIN longer : which2[p] \in 1 .. n + 1 /\ where2[p] \in Nat
    <3>1. \A p \in DOMAIN flat : which[p] \in 1 .. n + 1 /\ where[p] \in Nat
      BY <1>4
    <3>2. n + 1 \in 1 .. n + 1 /\ \A k \in DOMAIN added : k \in Nat
      BY <1>2
    <3> HIDE DEF added
    <3> QED
      BY <1>7, <3>1, <3>2
  <2>2. which2 = [p \in DOMAIN longer |-> which2[p]] /\ where2 = [p \in DOMAIN longer |-> where2[p]]
    BY <1>8 DEF which2, where2
  <2> QED
    BY <2>1, <2>2
<1>11. \A p \in DOMAIN longer : /\ where2[p] \in DOMAIN seqs[which2[p]]
                               /\ longer[p] = seqs[which2[p]][where2[p]]
  BY <1>4, <1>7
<1>12. \A p, q \in DOMAIN longer : p < q =>
         which2[p] < which2[q] \/ (which2[p] = which2[q] /\ where2[p] < where2[q])
  <2> SUFFICES ASSUME NEW p \in DOMAIN longer, NEW q \in DOMAIN longer, p < q
               PROVE  which2[p] < which2[q] \/ (which2[p] = which2[q] /\ where2[p] < where2[q])
    OBVIOUS
  <2>1. p \in Nat /\ q \in Nat
    BY <1>9
  <2>2. CASE q <= Len(flat)
    <3>1. p <= Len(flat) /\ ~(Len(flat) < p) /\ ~(Len(flat) < q)
      BY <1>2, <2>1, <2>2
    <3> QED
      BY <1>5, <1>7, <3>1
  <2>3. CASE Len(flat) < q /\ p <= Len(flat)
    <3>1. which2[p] = which[p] /\ which[p] \in 1 .. n
      BY <1>2, <1>4, <1>7, <2>1, <2>3
    <3>2. which2[q] = n + 1
      BY <1>2, <1>7, <2>1, <2>3
    <3> QED
      BY <3>1, <3>2
  <2>4. CASE Len(flat) < p
    <3>1. Len(flat) < q
      BY <1>2, <2>1, <2>4
    <3>2. /\ which2[p] = n + 1 /\ where2[p] = p - Len(flat)
          /\ which2[q] = n + 1 /\ where2[q] = q - Len(flat)
      BY <1>2, <1>7, <2>1, <2>4, <3>1
    <3> QED
      BY <1>2, <2>1, <3>2
  <2> QED
    BY <1>2, <2>1, <2>2, <2>3, <2>4
<1>13. \A j \in 1 .. n + 1 : \A k \in DOMAIN seqs[j] :
         \E p \in DOMAIN longer : which2[p] = j /\ where2[p] = k
  <2> SUFFICES ASSUME NEW j \in 1 .. n + 1, NEW k \in DOMAIN seqs[j]
               PROVE  \E p \in DOMAIN longer : which2[p] = j /\ where2[p] = k
    OBVIOUS
  <2>1. CASE j \in 1 .. n
    <3>1. PICK p \in DOMAIN flat : which[p] = j /\ where[p] = k
      BY <1>6, <2>1
    <3>2. p \in DOMAIN longer /\ ~(Len(flat) < p)
      BY <1>2, <1>3 DEF longer
    <3> QED
      BY <1>7, <3>1, <3>2
  <2>2. CASE j = n + 1
    <3>1. k \in 1 .. Len(added)
      BY <1>2, <2>2
    <3>2. /\ Len(flat) + k \in DOMAIN longer /\ ~(Len(flat) + k <= Len(flat))
          /\ Len(flat) + k - Len(flat) = k
      <4>1. k \in Nat /\ k >= 1 /\ k <= Len(added)
        BY <1>2, <3>1
      <4> HIDE DEF added
      <4> QED
        BY <1>2, <1>3, <4>1 DEF longer
    <3> QED
      BY <1>7, <2>2, <3>2
  <2> QED
    BY <2>1, <2>2
<1>14. Laid(longer, seqs, n + 1, which2, where2)
  BY <1>10, <1>11, <1>12, <1>13 DEF Laid
<1> QED
  BY <1>14 DEF longer

\* What is joined has the elements of the sequences, in their order.
LEMMA FlattenLays ==
  ASSUME NEW S, NEW seqs \in Seq(Seq(S))
  PROVE  /\ FlattenSeq(seqs) \in Seq(S)
         /\ \E which, where : Laid(FlattenSeq(seqs), seqs, Len(seqs), which, where)
<1>1. /\ Len(seqs) \in Nat /\ DOMAIN seqs = 1 .. Len(seqs)
      /\ \A i \in 1 .. Len(seqs) : seqs[i] \in Seq(S)
  OBVIOUS
<1>2. CASE Len(seqs) = 0
  <2>1. seqs = <<>>
    BY <1>2, EmptySeq
  <2>2. FlattenSeq(seqs) = <<>>
    BY <1>2, <2>1 DEF FlattenSeq
  <2> DEFINE none == [p \in {} |-> 0]
  <2>3. Laid(<<>>, seqs, 0, none, none)
    <3>1. DOMAIN <<>> = {} /\ 1 .. 0 = {}
      OBVIOUS
    <3> QED
      BY <3>1 DEF Laid
  <2> HIDE DEF none
  <2> QED
    BY <1>2, <2>2, <2>3
<1>3. CASE Len(seqs) # 0
  <2> DEFINE n == Len(seqs)
  <2> DEFINE flatten == CHOOSE f : f = [i \in 1 .. Len(seqs) |->
                                          IF i = 1 THEN seqs[i] ELSE f[i - 1] \o seqs[i]]
  <2>1. FlattenSeq(seqs) = flatten[n]
    BY <1>3, ZenonT(30) DEF FlattenSeq
  <2>2. flatten = [i \in 1 .. n |-> IF i = 1 THEN seqs[i] ELSE flatten[i - 1] \o seqs[i]]
    <3>1. \E f : f = [i \in 1 .. Len(seqs) |-> IF i = 1 THEN seqs[i] ELSE f[i - 1] \o seqs[i]]
      BY <1>1, JoinExists, ZenonT(30) DEF Joins
    <3> QED
      BY <3>1, Zenon
  <2> HIDE DEF flatten
  <2>3. \A i \in 1 .. n : flatten[i] = IF i = 1 THEN seqs[i] ELSE flatten[i - 1] \o seqs[i]
    BY <2>2
  <2> DEFINE Sound(m) == /\ flatten[m] \in Seq(S)
                         /\ \E which, where : Laid(flatten[m], seqs, m, which, where)
  <2> DEFINE T == {m \in Nat : m + 1 <= n => Sound(m + 1)}
  <2>4. n \in Nat /\ 1 <= n
    BY <1>1, <1>3
  <2>5. 0 \in T
    <3>1. flatten[1] = seqs[1] /\ seqs[1] \in Seq(S)
      BY <1>1, <2>3, <2>4
    <3>2. Sound(1)
      BY <3>1, FirstLaid
    <3> HIDE DEF Sound, n
    <3> QED
      BY <3>2
  <2>6. ASSUME NEW m \in T
        PROVE  m + 1 \in T
    <3>1. m \in Nat /\ m + 1 \in Nat
      OBVIOUS
    <3>2. ASSUME m + 2 <= n
          PROVE  Sound(m + 2)
      <4>1. Sound(m + 1)
        <5>1. m + 1 <= n
          BY <2>4, <3>1, <3>2
        <5> HIDE DEF Sound, n
        <5> QED
          BY <5>1
      <4>2. m + 2 \in 1 .. n /\ m + 2 # 1 /\ (m + 2) - 1 = m + 1 /\ m + 2 = (m + 1) + 1
        BY <2>4, <3>1, <3>2
      <4>3. flatten[m + 2] = flatten[m + 1] \o seqs[m + 2] /\ seqs[m + 2] \in Seq(S)
        BY <1>1, <2>3, <4>2
      <4>4. flatten[m + 2] \in Seq(S)
        BY <4>1, <4>3, ConcatProperties
      <4>5. \E which, where : Laid(flatten[m + 1] \o seqs[(m + 1) + 1], seqs, (m + 1) + 1, which, where)
        <5>1. seqs[(m + 1) + 1] \in Seq(S)
          BY <4>2, <4>3
        <5> QED
          BY <3>1, <4>1, <5>1, NextLaid
      <4> QED
        BY <4>2, <4>3, <4>4, <4>5
    <3>3. m + 2 = (m + 1) + 1
      BY <3>1
    <3> HIDE DEF Sound, n
    <3> QED
      BY <3>1, <3>2, <3>3
  <2>7. T = Nat
    <3>1. T \in SUBSET Nat
      OBVIOUS
    <3> HIDE DEF T
    <3> QED
      BY <2>5, <2>6, <3>1, NumberByNumber
  <2>8. Sound(n)
    <3>1. n - 1 \in Nat /\ (n - 1) + 1 = n
      BY <2>4
    <3> HIDE DEF Sound, n
    <3>2. \A m \in Nat : m + 1 <= n => Sound(m + 1)
      BY <2>7
    <3>3. (n - 1) + 1 <= n => Sound((n - 1) + 1)
      BY <3>1, <3>2, Zenon
    <3>4. (n - 1) + 1 <= n
      BY <2>4
    <3>5. Sound((n - 1) + 1)
      BY <3>3, <3>4, Zenon
    <3> QED
      BY <3>1, <3>5, Zenon
  <2> QED
    BY <2>1, <2>8
<1> QED
  BY <1>1, <1>2, <1>3

\* The elements of the sequences and no others.
LEMMA FlattenKeeps ==
  ASSUME NEW S, NEW seqs \in Seq(Seq(S))
  PROVE  /\ FlattenSeq(seqs) \in Seq(S)
         /\ \A p \in DOMAIN FlattenSeq(seqs) :
              \E i \in DOMAIN seqs : \E k \in DOMAIN seqs[i] : FlattenSeq(seqs)[p] = seqs[i][k]
         /\ \A i \in DOMAIN seqs : \A k \in DOMAIN seqs[i] :
              \E p \in DOMAIN FlattenSeq(seqs) : FlattenSeq(seqs)[p] = seqs[i][k]
<1> DEFINE flat == FlattenSeq(seqs)
<1>1. flat \in Seq(S) /\ DOMAIN seqs = 1 .. Len(seqs)
  BY FlattenLays, LenProperties
<1>2. PICK which, where : Laid(flat, seqs, Len(seqs), which, where)
  BY FlattenLays
<1> HIDE DEF flat
<1>3. \A p \in DOMAIN flat :
        which[p] \in DOMAIN seqs /\ where[p] \in DOMAIN seqs[which[p]]
        /\ flat[p] = seqs[which[p]][where[p]]
  BY <1>1, <1>2 DEF Laid
<1>4. \A i \in DOMAIN seqs : \A k \in DOMAIN seqs[i] :
        \E p \in DOMAIN flat : flat[p] = seqs[i][k]
  BY <1>1, <1>2 DEF Laid
<1> QED
  BY <1>1, <1>3, <1>4 DEF flat

\* A sequence taken group by group: from which group an element is, and where it
\* stood in the sequence.  Each group keeps its order.
Taken(flat, s, G, n, which, place) ==
  /\ \A p \in DOMAIN flat : /\ which[p] \in 1 .. n /\ place[p] \in G[which[p]]
                            /\ flat[p] = s[place[p]]
  /\ \A p, q \in DOMAIN flat : p < q => which[p] <= which[q]
  /\ \A p, q \in DOMAIN flat : p # q => place[p] # place[q]
  /\ \A p, q \in DOMAIN flat : p < q /\ which[p] = which[q] => place[p] < place[q]
  /\ \A r \in 1 .. n : \A i \in G[r] : \E p \in DOMAIN flat : which[p] = r /\ place[p] = i

\* Groups of places that do not overlap, and what stands at the places of each.
Groups(G, s, n) ==
  /\ \A r \in 1 .. n : G[r] \in SUBSET DOMAIN s
  /\ \A r, q \in 1 .. n : \A i \in G[r], j \in G[q] : r # q => i # j

GroupParts(parts, s, G, n) == parts = [r \in 1 .. n |-> Only(s, G[r])]

\* The groups are taken one after the other.
LEMMA GroupsTaken ==
  ASSUME NEW S, NEW s \in Seq(S), NEW n \in Nat, NEW G, NEW parts,
         Groups(G, s, n), GroupParts(parts, s, G, n)
  PROVE  /\ FlattenSeq(parts) \in Seq(S)
         /\ \E which, place : Taken(FlattenSeq(parts), s, G, n, which, place)
<1> DEFINE flat == FlattenSeq(parts)
<1> DEFINE turn == [r \in 1 .. n |-> CHOOSE f : InTurn(f, s, G[r])]
<1>1. Len(s) \in Nat /\ DOMAIN s = 1 .. Len(s)
  OBVIOUS
<1> USE DEF Groups, GroupParts
<1>2. ASSUME NEW r \in 1 .. n
      PROVE  /\ Cardinality(G[r]) \in Nat /\ InTurn(turn[r], s, G[r])
             /\ parts[r] \in Seq(S) /\ DOMAIN parts[r] = 1 .. Cardinality(G[r])
  <2>1. G[r] \in SUBSET DOMAIN s /\ parts[r] = Only(s, G[r])
    OBVIOUS
  <2>2. /\ Cardinality(G[r]) \in Nat /\ Only(s, G[r]) \in Seq(S)
        /\ DOMAIN Only(s, G[r]) = 1 .. Cardinality(G[r])
    BY <2>1, OnlyKeeps
  <2>3. G[r] \in SUBSET (1 .. Len(s))
    BY <1>1, <2>1
  <2>4. \E f : InTurn(f, s, G[r])
    BY <1>1, <2>3, OnlyInOrder
  <2>5. InTurn(turn[r], s, G[r])
    BY <2>4
  <2> QED
    BY <2>1, <2>2, <2>5
<1>3. parts \in Seq(Seq(S)) /\ Len(parts) = n
  <2>1. parts \in [1 .. n -> Seq(S)]
    BY <1>2
  <2> QED
    BY <2>1, FunctionIsSequence
<1> HIDE DEF turn
<1>4. flat \in Seq(S) /\ \E which, where : Laid(flat, parts, n, which, where)
  BY <1>3, FlattenLays
<1>5. PICK which, where : Laid(flat, parts, n, which, where)
  BY <1>4
<1> DEFINE place == [p \in DOMAIN flat |-> turn[which[p]][where[p]]]
<1> HIDE DEF flat
<1>6. /\ which \in [DOMAIN flat -> 1 .. n] /\ where \in [DOMAIN flat -> Nat]
      /\ \A p \in DOMAIN flat : /\ where[p] \in DOMAIN parts[which[p]]
                                /\ flat[p] = parts[which[p]][where[p]]
      /\ \A p, q \in DOMAIN flat : p < q =>
           which[p] < which[q] \/ (which[p] = which[q] /\ where[p] < where[q])
  BY <1>5 DEF Laid
<1>7. \A p \in DOMAIN flat : which[p] \in 1 .. n /\ which[p] \in Nat /\ where[p] \in Nat
  BY <1>6
<1>8. ASSUME NEW p \in DOMAIN flat
      PROVE  /\ where[p] \in 1 .. Cardinality(G[which[p]])
             /\ place[p] = turn[which[p]][where[p]] /\ place[p] \in G[which[p]]
             /\ flat[p] = s[place[p]]
  <2> DEFINE r == which[p]
  <2> DEFINE k == where[p]
  <2>1. r \in 1 .. n /\ k \in DOMAIN parts[r] /\ flat[p] = parts[r][k]
    BY <1>6, <1>7
  <2>2. place[p] = turn[r][k]
    OBVIOUS
  <2> HIDE DEF r, k, place
  <2>3. k \in 1 .. Cardinality(G[r]) /\ InTurn(turn[r], s, G[r]) /\ parts[r] = Only(s, G[r])
    BY <1>2, <2>1
  <2>4. turn[r][k] \in G[r] /\ Only(s, G[r])[k] = s[turn[r][k]]
    BY <2>3 DEF InTurn
  <2> QED
    BY <2>1, <2>2, <2>3, <2>4 DEF r, k
<1> HIDE DEF place
<1>9. \A p, q \in DOMAIN flat : p < q => which[p] <= which[q]
  BY <1>6, <1>7
<1>10. ASSUME NEW p \in DOMAIN flat, NEW q \in DOMAIN flat, p < q
       PROVE  place[p] # place[q] /\ (which[p] = which[q] => place[p] < place[q])
  <2>1. CASE which[p] # which[q]
    BY <1>7, <1>8, <2>1
  <2>2. CASE which[p] = which[q]
    <3> DEFINE r == which[p]
    <3> DEFINE k == where[p]
    <3> DEFINE l == where[q]
    <3>1. k < l /\ r \in 1 .. n /\ k \in 1 .. Cardinality(G[r]) /\ l \in 1 .. Cardinality(G[r])
          /\ place[p] = turn[r][k] /\ place[q] = turn[r][l]
      BY <1>6, <1>7, <1>8, <1>10, <2>2
    <3>2. G[r] \in SUBSET DOMAIN s
      BY <3>1
    <3> HIDE DEF r, k, l
    <3>3. turn[r][k] < turn[r][l] /\ turn[r][k] \in G[r] /\ turn[r][l] \in G[r]
      BY <1>2, <3>1 DEF InTurn
    <3>4. turn[r][k] \in Nat /\ turn[r][l] \in Nat
      BY <1>1, <3>2, <3>3
    <3>5. turn[r][k] # turn[r][l]
      BY <3>3, <3>4
    <3> QED
      BY <3>1, <3>3, <3>5
  <2> QED
    BY <2>1, <2>2
<1>11. \A p, q \in DOMAIN flat : p # q => place[p] # place[q]
  <2>1. \A p \in DOMAIN flat : p \in Nat
    BY <1>4
  <2>2. \A p, q \in DOMAIN flat : p # q => p < q \/ q < p
    BY <2>1
  <2> QED
    BY <1>10, <2>2
<1>12. ASSUME NEW r \in 1 .. n, NEW i \in G[r]
       PROVE  \E p \in DOMAIN flat : which[p] = r /\ place[p] = i
  <2>1. PICK k \in 1 .. Cardinality(G[r]) : turn[r][k] = i
    BY <1>2 DEF InTurn
  <2>2. k \in DOMAIN parts[r]
    BY <1>2
  <2>3. \A q \in 1 .. n : \A l \in DOMAIN parts[q] :
          \E p \in DOMAIN flat : which[p] = q /\ where[p] = l
    BY <1>5 DEF Laid
  <2>4. PICK p \in DOMAIN flat : which[p] = r /\ where[p] = k
    BY <2>2, <2>3
  <2> QED
    BY <1>8, <2>1, <2>4
<1>13. Taken(flat, s, G, n, which, place)
  BY <1>7, <1>8, <1>9, <1>10, <1>11, <1>12 DEF Taken
<1> QED
  BY <1>4, <1>13 DEF flat

-----------------------------------------------------------------------------
(* The steps of plans. *)

Tools == {"query_metrics", "search_logs", "inspect_deployment", "inspect_git_diff"}

Ids ==
  {"latency", "deployment", "git-diff", "db-query-count", "checkout-logs", "db-connections",
   "inventory-errors", "disk", "memory", "restarts", "worker-errors", "payment-warnings",
   "gateway-errors", "error-rate", "service-errors", "controlled-deployment-context",
   "controlled-code-context", "active-verification", "checkout-db-query-count",
   "checkout-request-logs", "inventory-db-connections", "worker-disk", "worker-memory",
   "worker-restarts", "call"}

Abouts ==
  {"p95_latency", "db_query_count", "/orders", "db_connections", "ERROR", "disk_usage",
   "memory_usage", "container_restarts", "WARNING", "error_rate", "release", "head",
   "/checkout", "symptom"}

Steps ==
  [id: Ids, tool: Tools \cup VerificationTools, service: Services \cup {"repository"},
   about: Abouts, limit: Nat, window: BOOLEAN]

\* A step that no decorator has touched.
PlainSteps ==
  {s \in Steps : /\ s.tool \in Tools /\ s.window = FALSE
                 /\ s.limit = IF s.tool = "search_logs" THEN DefaultLimit ELSE 0}

\* What is asked: all but the id, the limit and the window.
Question(step) == <<step.tool, step.service, step.about>>

\* No question is asked twice.
Distinct(plan) ==
  \A i, j \in DOMAIN plan : i # j => Question(plan[i]) # Question(plan[j])

DistinctIds(plan) == \A i, j \in DOMAIN plan : i # j => plan[i].id # plan[j].id

Questions(plan) == {Question(plan[i]) : i \in DOMAIN plan}

\* What has to be asked to find the root causes of a service.
Core(service) ==
  CASE service = "checkout" -> {<<"query_metrics", "checkout", "db_query_count">>,
                                <<"search_logs", "checkout", "/orders">>}
    [] service = "inventory" -> {<<"query_metrics", "inventory", "db_connections">>,
                                 <<"search_logs", "inventory", "ERROR">>}
    [] service = "worker" -> {<<"query_metrics", "worker", "disk_usage">>,
                              <<"query_metrics", "worker", "memory_usage">>,
                              <<"query_metrics", "worker", "container_restarts">>,
                              <<"search_logs", "worker", "ERROR">>}
    [] service = "payment" -> {<<"search_logs", "payment", "WARNING">>,
                               <<"search_logs", "gateway", "ERROR">>}
    [] OTHER -> {}

OfDisk(step) == step.service = "worker" /\ step.about = "disk_usage"
OfRestarts(step) == step.service = "worker" /\ step.about = "container_restarts"

\* The disk and the restarts are looked at for the worker alone, by its metrics.
ByMetrics(plan, service) ==
  \A i \in DOMAIN plan :
    OfDisk(plan[i]) \/ OfRestarts(plan[i]) => service = "worker" /\ plan[i].tool = "query_metrics"

\* What tells one root cause from the others is asked of one service alone.
Telling == {"db_query_count", "db_connections", "disk_usage", "container_restarts", "WARNING"}
AtHome(plan, service) ==
  \A i \in DOMAIN plan : plan[i].about \in Telling => plan[i].service = service

\* The disk is looked at before the restarts are.
DiskFirst(plan) ==
  \A i, j \in DOMAIN plan : OfDisk(plan[i]) /\ OfRestarts(plan[j]) => i < j

LEMMA StepsAreRecords ==
  ASSUME NEW s \in Steps, NEW t \in Steps,
         s.id = t.id, s.tool = t.tool, s.service = t.service, s.about = t.about,
         s.limit = t.limit, s.window = t.window
  PROVE  s = t
  BY DEF Steps

LEMMA StepTyped ==
  ASSUME NEW id \in Ids, NEW tool \in Tools \cup VerificationTools,
         NEW service \in Services \cup {"repository"}, NEW about \in Abouts, NEW limit \in Nat
  PROVE  Step(id, tool, service, about, limit) \in Steps
  BY DEF Steps, Step

LEMMA StepPlain ==
  ASSUME NEW id \in Ids, NEW service \in Services, NEW about \in Abouts
  PROVE  /\ Metric(id, service, about) \in PlainSteps
         /\ Logs(id, service, about) \in PlainSteps
         /\ Deployment(id, service) \in PlainSteps
         /\ Diff(id) \in PlainSteps
<1> DEFINE Kinds == Tools \cup VerificationTools
<1> DEFINE Places == Services \cup {"repository"}
<1>1. /\ "query_metrics" \in Kinds /\ "search_logs" \in Kinds /\ "inspect_deployment" \in Kinds
      /\ "inspect_git_diff" \in Kinds /\ service \in Places /\ "repository" \in Places
  BY DEF Tools
<1>2. "release" \in Abouts /\ "head" \in Abouts /\ DefaultLimit \in Nat
  BY DEF Abouts, DefaultLimit
<1>3. ASSUME NEW tool \in Kinds, NEW place \in Places, NEW what \in Abouts, NEW limit \in Nat
      PROVE  Step(id, tool, place, what, limit) \in Steps
  BY StepTyped
<1> HIDE DEF Kinds, Places
<1>4. Metric(id, service, about) \in PlainSteps
  <2>1. Metric(id, service, about) \in Steps
    BY <1>1, <1>2, <1>3 DEF Metric
  <2>2. Metric(id, service, about).tool = "query_metrics" /\ Metric(id, service, about).limit = 0 /\ Metric(id, service, about).window = FALSE
    BY DEF Metric, Step
  <2> QED
    BY <2>1, <2>2 DEF PlainSteps, Tools
<1>5. Logs(id, service, about) \in PlainSteps
  <2>1. Logs(id, service, about) \in Steps
    BY <1>1, <1>2, <1>3 DEF Logs
  <2>2. Logs(id, service, about).tool = "search_logs" /\ Logs(id, service, about).limit = DefaultLimit /\ Logs(id, service, about).window = FALSE
    BY DEF Logs, Step
  <2> QED
    BY <2>1, <2>2 DEF PlainSteps, Tools
<1>6. Deployment(id, service) \in PlainSteps
  <2>1. Deployment(id, service) \in Steps
    BY <1>1, <1>2, <1>3 DEF Deployment
  <2>2. Deployment(id, service).tool = "inspect_deployment" /\ Deployment(id, service).limit = 0 /\ Deployment(id, service).window = FALSE
    BY DEF Deployment, Step
  <2> QED
    BY <2>1, <2>2 DEF PlainSteps, Tools
<1>7. Diff(id) \in PlainSteps
  <2>1. Diff(id) \in Steps
    BY <1>1, <1>2, <1>3 DEF Diff
  <2>2. Diff(id).tool = "inspect_git_diff" /\ Diff(id).limit = 0 /\ Diff(id).window = FALSE
    BY DEF Diff, Step
  <2> QED
    BY <2>1, <2>2 DEF PlainSteps, Tools
<1> QED
  BY <1>4, <1>5, <1>6, <1>7

LEMMA ShortSequences ==
  ASSUME NEW S, NEW a \in S, NEW b \in S, NEW c \in S, NEW d \in S, NEW e \in S
  PROVE  /\ <<a>> \in Seq(S) /\ <<a, b>> \in Seq(S) /\ <<a, b, c>> \in Seq(S)
         /\ <<a, b, c, d>> \in Seq(S) /\ <<a, b, c, d, e>> \in Seq(S)
  OBVIOUS

LEMMA PutTogether ==
  ASSUME NEW S, NEW a \in S, NEW b \in S, NEW c \in S, NEW d \in S, NEW e \in S
  PROVE  /\ <<a>> \o <<>> \o <<b, c>> = <<a, b, c>>
         /\ <<a>> \o <<b, c>> \o <<d, e>> = <<a, b, c, d, e>>
<1> DEFINE one == <<a>>
<1> DEFINE two == <<b, c>>
<1> DEFINE three == <<a, b, c>>
<1> DEFINE more == <<d, e>>
<1> DEFINE five == <<a, b, c, d, e>>
<1>1. /\ one \in Seq(S) /\ two \in Seq(S) /\ three \in Seq(S) /\ more \in Seq(S) /\ five \in Seq(S)
      /\ Len(one) = 1 /\ Len(two) = 2 /\ Len(three) = 3 /\ Len(more) = 2 /\ Len(five) = 5
      /\ one[1] = a /\ two[1] = b /\ two[2] = c /\ more[1] = d /\ more[2] = e
      /\ three[1] = a /\ three[2] = b /\ three[3] = c
      /\ five[1] = a /\ five[2] = b /\ five[3] = c /\ five[4] = d /\ five[5] = e
  BY ShortSequences
<1> HIDE DEF one, two, three, more, five
<1>2. one \o <<>> = one
  BY <1>1, ConcatEmptySeq
<1>3. one \o two = three
  <2>1. Len(one \o two) = Len(one) + Len(two) /\ one \o two \in Seq(S)
    BY <1>1, ConcatProperties
  <2>2. \A i \in 1 .. Len(one) + Len(two) :
          (one \o two)[i] = IF i <= Len(one) THEN one[i] ELSE two[i - Len(one)]
    BY <1>1, ConcatProperties
  <2>3. Len(one \o two) = 3 /\ Len(one) + Len(two) = 3
    BY <1>1, <2>1
  <2>4. \A i \in 1 .. 3 : i = 1 \/ i = 2 \/ i = 3
    OBVIOUS
  <2>5. \A i \in 1 .. 3 : (one \o two)[i] = three[i]
    BY <1>1, <2>2, <2>3, <2>4
  <2> QED
    BY <1>1, <2>1, <2>3, <2>5, SeqEqual
<1>4. three \o more = five
  <2>1. Len(three \o more) = Len(three) + Len(more) /\ three \o more \in Seq(S)
    BY <1>1, ConcatProperties
  <2>2. \A i \in 1 .. Len(three) + Len(more) :
          (three \o more)[i] = IF i <= Len(three) THEN three[i] ELSE more[i - Len(three)]
    BY <1>1, ConcatProperties
  <2>3. Len(three \o more) = 5 /\ Len(three) + Len(more) = 5
    BY <1>1, <2>1
  <2>4. \A i \in 1 .. 5 : i = 1 \/ i = 2 \/ i = 3 \/ i = 4 \/ i = 5
    OBVIOUS
  <2>5. \A i \in 1 .. 5 : (three \o more)[i] = five[i]
    BY <1>1, <2>2, <2>3, <2>4
  <2> QED
    BY <1>1, <2>1, <2>3, <2>5, SeqEqual
<1> QED
  BY <1>2, <1>3, <1>4 DEF one, two, three, more, five

\* A plan of plain steps with different questions and different ids.
LEMMA BaselineSound ==
  ASSUME NEW incident \in Incidents
  PROVE  /\ BaselinePlan(incident) \in Seq(PlainSteps)
         /\ Distinct(BaselinePlan(incident)) /\ DistinctIds(BaselinePlan(incident))
         /\ BaselinePlan(incident) # <<>>
         /\ Core(incident.service) \subseteq Questions(BaselinePlan(incident))
         /\ ByMetrics(BaselinePlan(incident), incident.service)
         /\ DiskFirst(BaselinePlan(incident)) /\ AtHome(BaselinePlan(incident), incident.service)
<1> DEFINE plan == BaselinePlan(incident)
<1>1. incident.service \in Services /\ incident.change \in BOOLEAN
  BY DEF Incidents
<1>2. CASE incident.service = "checkout" /\ incident.change
  <2> DEFINE a == Metric("latency", "checkout", "p95_latency")
  <2> DEFINE b == Deployment("deployment", "checkout")
  <2> DEFINE c == Diff("git-diff")
  <2> DEFINE d == Metric("db-query-count", "checkout", "db_query_count")
  <2> DEFINE e == Logs("checkout-logs", "checkout", "/orders")
  <2>1. a \in PlainSteps /\ b \in PlainSteps /\ c \in PlainSteps /\ d \in PlainSteps /\ e \in PlainSteps
    BY <1>1, StepPlain DEF Ids, Services, Abouts
  <2>2. plan = <<a, b, c, d, e>>
    <3>1. plan = <<a>> \o <<b, c>> \o <<d, e>>
      BY <1>2 DEF BaselinePlan, Context
    <3> HIDE DEF plan, a, b, c, d, e
    <3> QED
      BY <2>1, <3>1, PutTogether
  <2>3. /\ a.id = "latency" /\ Question(a) = <<"query_metrics", "checkout", "p95_latency">>
        /\ b.id = "deployment" /\ Question(b) = <<"inspect_deployment", "checkout", "release">>
        /\ c.id = "git-diff" /\ Question(c) = <<"inspect_git_diff", "repository", "head">>
        /\ d.id = "db-query-count" /\ Question(d) = <<"query_metrics", "checkout", "db_query_count">>
        /\ e.id = "checkout-logs" /\ Question(e) = <<"search_logs", "checkout", "/orders">>
    BY DEF Question, Step, Deployment, Diff, Logs, Metric
  <2> HIDE DEF a, b, c, d, e, plan
  <2>4. plan \in Seq(PlainSteps) /\ plan # <<>>
    BY <2>2, <2>1, ShortSequences
  <2>5. Distinct(plan) /\ DistinctIds(plan)
    BY <2>2, <2>3 DEF Distinct, DistinctIds
  <2>6. Core(incident.service) \subseteq Questions(plan)
    BY <1>2, <2>2, <2>3 DEF Core, Questions
  <2>7. ByMetrics(plan, incident.service) /\ DiskFirst(plan)
    BY <1>2, <2>2, <2>3 DEF ByMetrics, DiskFirst, OfDisk, OfRestarts, Question
  <2>8. AtHome(plan, incident.service)
    BY <1>2, <2>2, <2>3 DEF AtHome, Telling, Question
  <2> QED
    BY <2>4, <2>5, <2>6, <2>7, <2>8 DEF plan
<1>3. CASE incident.service = "checkout" /\ ~incident.change
  <2> DEFINE a == Metric("latency", "checkout", "p95_latency")
  <2> DEFINE b == Metric("db-query-count", "checkout", "db_query_count")
  <2> DEFINE c == Logs("checkout-logs", "checkout", "/orders")
  <2>1. a \in PlainSteps /\ b \in PlainSteps /\ c \in PlainSteps
    BY <1>1, StepPlain DEF Ids, Services, Abouts
  <2>2. plan = <<a, b, c>>
    <3>1. plan = <<a>> \o <<>> \o <<b, c>>
      BY <1>3 DEF BaselinePlan
    <3> HIDE DEF plan, a, b, c
    <3> QED
      BY <2>1, <3>1, PutTogether
  <2>3. /\ a.id = "latency" /\ Question(a) = <<"query_metrics", "checkout", "p95_latency">>
        /\ b.id = "db-query-count" /\ Question(b) = <<"query_metrics", "checkout", "db_query_count">>
        /\ c.id = "checkout-logs" /\ Question(c) = <<"search_logs", "checkout", "/orders">>
    BY DEF Question, Step, Logs, Metric
  <2> HIDE DEF a, b, c, plan
  <2>4. plan \in Seq(PlainSteps) /\ plan # <<>>
    BY <2>2, <2>1, ShortSequences
  <2>5. Distinct(plan) /\ DistinctIds(plan)
    BY <2>2, <2>3 DEF Distinct, DistinctIds
  <2>6. Core(incident.service) \subseteq Questions(plan)
    BY <1>3, <2>2, <2>3 DEF Core, Questions
  <2>7. ByMetrics(plan, incident.service) /\ DiskFirst(plan)
    BY <1>3, <2>2, <2>3 DEF ByMetrics, DiskFirst, OfDisk, OfRestarts, Question
  <2>8. AtHome(plan, incident.service)
    BY <1>3, <2>2, <2>3 DEF AtHome, Telling, Question
  <2> QED
    BY <2>4, <2>5, <2>6, <2>7, <2>8 DEF plan
<1>4. CASE incident.service = "inventory"
  <2> DEFINE a == Metric("db-connections", "inventory", "db_connections")
  <2> DEFINE b == Logs("inventory-errors", "inventory", "ERROR")
  <2>1. plan = <<a, b>>
    BY <1>4 DEF BaselinePlan
  <2>2. a \in PlainSteps /\ b \in PlainSteps
    BY <1>1, StepPlain DEF Ids, Services, Abouts
  <2>3. /\ a.id = "db-connections" /\ Question(a) = <<"query_metrics", "inventory", "db_connections">>
        /\ b.id = "inventory-errors" /\ Question(b) = <<"search_logs", "inventory", "ERROR">>
    BY DEF Question, Step, Logs, Metric
  <2> HIDE DEF a, b, plan
  <2>4. plan \in Seq(PlainSteps) /\ plan # <<>>
    BY <2>1, <2>2, ShortSequences
  <2>5. Distinct(plan) /\ DistinctIds(plan)
    BY <2>1, <2>3 DEF Distinct, DistinctIds
  <2>6. Core(incident.service) \subseteq Questions(plan)
    BY <1>4, <2>1, <2>3 DEF Core, Questions
  <2>7. ByMetrics(plan, incident.service) /\ DiskFirst(plan)
    BY <1>4, <2>1, <2>3 DEF ByMetrics, DiskFirst, OfDisk, OfRestarts, Question
  <2>8. AtHome(plan, incident.service)
    BY <1>4, <2>1, <2>3 DEF AtHome, Telling, Question
  <2> QED
    BY <2>4, <2>5, <2>6, <2>7, <2>8 DEF plan
<1>5. CASE incident.service = "worker"
  <2> DEFINE a == Metric("disk", "worker", "disk_usage")
  <2> DEFINE b == Metric("memory", "worker", "memory_usage")
  <2> DEFINE c == Metric("restarts", "worker", "container_restarts")
  <2> DEFINE d == Logs("worker-errors", "worker", "ERROR")
  <2>1. plan = <<a, b, c, d>>
    BY <1>5 DEF BaselinePlan
  <2>2. a \in PlainSteps /\ b \in PlainSteps /\ c \in PlainSteps /\ d \in PlainSteps
    BY <1>1, StepPlain DEF Ids, Services, Abouts
  <2>3. /\ a.id = "disk" /\ Question(a) = <<"query_metrics", "worker", "disk_usage">>
        /\ b.id = "memory" /\ Question(b) = <<"query_metrics", "worker", "memory_usage">>
        /\ c.id = "restarts" /\ Question(c) = <<"query_metrics", "worker", "container_restarts">>
        /\ d.id = "worker-errors" /\ Question(d) = <<"search_logs", "worker", "ERROR">>
    BY DEF Question, Step, Logs, Metric
  <2> HIDE DEF a, b, c, d, plan
  <2>4. plan \in Seq(PlainSteps) /\ plan # <<>>
    BY <2>1, <2>2, ShortSequences
  <2>5. Distinct(plan) /\ DistinctIds(plan)
    BY <2>1, <2>3 DEF Distinct, DistinctIds
  <2>6. Core(incident.service) \subseteq Questions(plan)
    BY <1>5, <2>1, <2>3 DEF Core, Questions
  <2>7. ByMetrics(plan, incident.service) /\ DiskFirst(plan)
    BY <1>5, <2>1, <2>3 DEF ByMetrics, DiskFirst, OfDisk, OfRestarts, Question
  <2>8. AtHome(plan, incident.service)
    BY <1>5, <2>1, <2>3 DEF AtHome, Telling, Question
  <2> QED
    BY <2>4, <2>5, <2>6, <2>7, <2>8 DEF plan
<1>6. CASE incident.service = "payment"
  <2> DEFINE a == Logs("payment-warnings", "payment", "WARNING")
  <2> DEFINE b == Logs("gateway-errors", "gateway", "ERROR")
  <2>1. plan = <<a, b>>
    BY <1>6 DEF BaselinePlan
  <2>2. a \in PlainSteps /\ b \in PlainSteps
    BY <1>1, StepPlain DEF Ids, Services, Abouts
  <2>3. /\ a.id = "payment-warnings" /\ Question(a) = <<"search_logs", "payment", "WARNING">>
        /\ b.id = "gateway-errors" /\ Question(b) = <<"search_logs", "gateway", "ERROR">>
    BY DEF Question, Step, Logs
  <2> HIDE DEF a, b, plan
  <2>4. plan \in Seq(PlainSteps) /\ plan # <<>>
    BY <2>1, <2>2, ShortSequences
  <2>5. Distinct(plan) /\ DistinctIds(plan)
    BY <2>1, <2>3 DEF Distinct, DistinctIds
  <2>6. Core(incident.service) \subseteq Questions(plan)
    BY <1>6, <2>1, <2>3 DEF Core, Questions
  <2>7. ByMetrics(plan, incident.service) /\ DiskFirst(plan)
    BY <1>6, <2>1, <2>3 DEF ByMetrics, DiskFirst, OfDisk, OfRestarts, Question
  <2>8. AtHome(plan, incident.service)
    BY <1>6, <2>1, <2>3 DEF AtHome, Telling, Question
  <2> QED
    BY <2>4, <2>5, <2>6, <2>7, <2>8 DEF plan
<1>7. CASE incident.service \notin {"checkout", "inventory", "worker", "payment"}
  <2> DEFINE a == Metric("error-rate", incident.service, "error_rate")
  <2> DEFINE b == Logs("service-errors", incident.service, "ERROR")
  <2>1. plan = <<a, b>>
    BY <1>7 DEF BaselinePlan
  <2>2. a \in PlainSteps /\ b \in PlainSteps
    BY <1>1, StepPlain DEF Ids, Services, Abouts
  <2>3. /\ a.id = "error-rate" /\ Question(a) = <<"query_metrics", incident.service, "error_rate">>
        /\ b.id = "service-errors" /\ Question(b) = <<"search_logs", incident.service, "ERROR">>
    BY DEF Question, Step, Logs, Metric
  <2> HIDE DEF a, b, plan
  <2>4. plan \in Seq(PlainSteps) /\ plan # <<>>
    BY <2>1, <2>2, ShortSequences
  <2>5. Distinct(plan) /\ DistinctIds(plan)
    BY <2>1, <2>3 DEF Distinct, DistinctIds
  <2>6. Core(incident.service) \subseteq Questions(plan)
    BY <1>7, <2>1, <2>3 DEF Core, Questions
  <2>7. ByMetrics(plan, incident.service) /\ DiskFirst(plan)
    BY <1>7, <2>1, <2>3 DEF ByMetrics, DiskFirst, OfDisk, OfRestarts, Question
  <2>8. AtHome(plan, incident.service)
    BY <1>7, <2>1, <2>3 DEF AtHome, Telling, Question
  <2> QED
    BY <2>4, <2>5, <2>6, <2>7, <2>8 DEF plan
<1> QED
  BY <1>1, <1>2, <1>3, <1>4, <1>5, <1>6, <1>7

LEMMA PlainAreSteps == PlainSteps \subseteq Steps
  BY DEF PlainSteps

\* Two plain steps with one question differ in their ids alone.
LEMMA OneInvocation ==
  ASSUME NEW s \in PlainSteps, NEW t \in PlainSteps, Question(s) = Question(t)
  PROVE  SameInvocation(s, t)
<1>1. s \in Steps /\ t \in Steps
  BY DEF PlainSteps
<1>2. s.tool = t.tool /\ s.service = t.service /\ s.about = t.about
  BY DEF Question
<1>3. s.limit = t.limit /\ s.window = t.window
  BY <1>2 DEF PlainSteps
<1>4. [s EXCEPT !.id = t.id] \in Steps
  BY <1>1 DEF Steps
<1> DEFINE u == [s EXCEPT !.id = t.id]
<1>5. /\ u.id = t.id /\ u.tool = t.tool /\ u.service = t.service /\ u.about = t.about
      /\ u.limit = t.limit /\ u.window = t.window
  BY <1>1, <1>2, <1>3 DEF Steps
<1> HIDE DEF u
<1>6. u = t
  BY <1>1, <1>4, <1>5, StepsAreRecords DEF u
<1> QED
  BY <1>6 DEF u, SameInvocation

\* Some steps of a plan, and steps that ask something else behind it.
LEMMA OnlyDistinct ==
  ASSUME NEW S, NEW plan \in Seq(S), Distinct(plan), NEW I \in SUBSET DOMAIN plan
  PROVE  Distinct(Only(plan, I))
<1>1. DOMAIN plan = 1 .. Len(plan) /\ Len(plan) \in Nat
  OBVIOUS
<1>2. I \in SUBSET (1 .. Len(plan))
  BY <1>1
<1>3. PICK place : InTurn(place, plan, I)
  BY <1>1, <1>2, OnlyInOrder
<1>4. Cardinality(I) \in Nat
  BY <1>1, <1>2, OnlyInOrder
<1> DEFINE kept == Only(plan, I)
<1>5. /\ DOMAIN kept = 1 .. Cardinality(I)
      /\ \A k \in DOMAIN kept : place[k] \in I /\ kept[k] = plan[place[k]]
      /\ \A k, l \in DOMAIN kept : k < l => place[k] < place[l]
  BY <1>3 DEF InTurn
<1>6. \A k \in DOMAIN kept : k \in Nat
  BY <1>5
<1>7. \A i \in I : i \in Nat
  BY <1>2
<1> HIDE DEF kept
<1>8. \A k, l \in DOMAIN kept : k # l => place[k] # place[l]
  <2> SUFFICES ASSUME NEW k \in DOMAIN kept, NEW l \in DOMAIN kept, k # l
               PROVE  place[k] # place[l]
    OBVIOUS
  <2>1. k < l \/ l < k
    BY <1>6
  <2>2. place[k] < place[l] \/ place[l] < place[k]
    BY <1>5, <2>1
  <2>3. place[k] \in Nat /\ place[l] \in Nat
    BY <1>5, <1>7
  <2> QED
    BY <2>2, <2>3
<1> QED
  BY <1>5, <1>8 DEF Distinct, kept

LEMMA ConcatDistinct ==
  ASSUME NEW S, NEW s \in Seq(S), NEW t \in Seq(S), Distinct(s), Distinct(t),
         \A i \in DOMAIN s, j \in DOMAIN t : Question(s[i]) # Question(t[j])
  PROVE  Distinct(s \o t)
<1> DEFINE all == s \o t
<1>1. /\ Len(s) \in Nat /\ DOMAIN s = 1 .. Len(s) /\ Len(t) \in Nat /\ DOMAIN t = 1 .. Len(t)
      /\ DOMAIN all = 1 .. Len(s) + Len(t)
  <2>1. all \in Seq(S) /\ Len(all) = Len(s) + Len(t)
    BY ConcatProperties
  <2> HIDE DEF all
  <2> QED
    BY <2>1, LenProperties
<1>2. \A i \in 1 .. Len(s) + Len(t) : all[i] = IF i <= Len(s) THEN s[i] ELSE t[i - Len(s)]
  BY ConcatProperties
<1> HIDE DEF all
<1>3. \A i \in DOMAIN all : \/ i \in DOMAIN s /\ all[i] = s[i]
                            \/ /\ i - Len(s) \in DOMAIN t /\ all[i] = t[i - Len(s)] /\ Len(s) < i
  BY <1>1, <1>2
<1>4. \A i, j \in DOMAIN all : i # j => Question(all[i]) # Question(all[j])
  <2> SUFFICES ASSUME NEW i \in DOMAIN all, NEW j \in DOMAIN all, i # j
               PROVE  Question(all[i]) # Question(all[j])
    OBVIOUS
  <2>1. i \in Nat /\ j \in Nat
    BY <1>1
  <2>2. i - Len(s) # j - Len(s)
    BY <1>1, <2>1
  <2>3. CASE i \in DOMAIN s /\ all[i] = s[i] /\ j \in DOMAIN s /\ all[j] = s[j]
    BY <2>3 DEF Distinct
  <2>4. CASE i \in DOMAIN s /\ all[i] = s[i] /\ j - Len(s) \in DOMAIN t /\ all[j] = t[j - Len(s)]
    BY <2>4
  <2>5. CASE j \in DOMAIN s /\ all[j] = s[j] /\ i - Len(s) \in DOMAIN t /\ all[i] = t[i - Len(s)]
    BY <2>5
  <2>6. CASE /\ i - Len(s) \in DOMAIN t /\ all[i] = t[i - Len(s)]
             /\ j - Len(s) \in DOMAIN t /\ all[j] = t[j - Len(s)]
    BY <2>2, <2>6 DEF Distinct
  <2> QED
    BY <1>3, <2>3, <2>4, <2>5, <2>6
<1> QED
  BY <1>4 DEF Distinct, all

\* Two plans that ask the same are as long as each other.
LEMMA SameLength ==
  ASSUME NEW S, NEW s \in Seq(S), NEW t \in Seq(S), Distinct(s), Distinct(t), ToSet(s) = ToSet(t)
  PROVE  Len(s) = Len(t)
<1>1. /\ Len(s) \in Nat /\ DOMAIN s = 1 .. Len(s) /\ Len(t) \in Nat /\ DOMAIN t = 1 .. Len(t)
  OBVIOUS
<1>2. \A i \in DOMAIN s : \E j \in DOMAIN t : s[i] = t[j]
  <2>1. \A i \in DOMAIN s : s[i] \in ToSet(t)
    BY DEF ToSet
  <2> QED
    BY <2>1 DEF ToSet
<1>3. \A j \in DOMAIN t : \E i \in DOMAIN s : s[i] = t[j]
  <2>1. \A j \in DOMAIN t : t[j] \in ToSet(s)
    BY DEF ToSet
  <2> QED
    BY <2>1 DEF ToSet
<1>4. \A i, j \in DOMAIN s : s[i] = s[j] => i = j
  BY DEF Distinct
<1>5. \A i, j \in DOMAIN t : t[i] = t[j] => i = j
  BY DEF Distinct
<1> DEFINE f == [i \in DOMAIN s |-> CHOOSE j \in DOMAIN t : s[i] = t[j]]
<1>6. \A i \in DOMAIN s : f[i] \in DOMAIN t /\ s[i] = t[f[i]]
  BY <1>2
<1>7. f \in [DOMAIN s -> DOMAIN t]
  BY <1>6
<1> HIDE DEF f
<1>8. \A i, j \in DOMAIN s : f[i] = f[j] => i = j
  BY <1>4, <1>6
<1>9. ASSUME NEW j \in DOMAIN t
      PROVE  \E i \in DOMAIN s : f[i] = j
  <2>1. PICK i \in DOMAIN s : s[i] = t[j]
    BY <1>3
  <2>2. f[i] \in DOMAIN t /\ t[f[i]] = t[j]
    BY <1>6, <2>1
  <2> QED
    BY <1>5, <2>2
<1>10. f \in Bijection(DOMAIN s, DOMAIN t)
  BY <1>7, <1>8, <1>9 DEF Bijection, Injection, Surjection, IsInjective
<1>11. /\ IsFiniteSet(DOMAIN s) /\ Cardinality(DOMAIN s) = Len(s)
       /\ Cardinality(DOMAIN t) = Len(t)
  <2>1. \A n \in Nat : IsFiniteSet(1 .. n) /\ Cardinality(1 .. n) = n
    BY FS_Interval
  <2> QED
    BY <1>1, <2>1
<1>12. Cardinality(DOMAIN t) = Cardinality(DOMAIN s)
  <2>1. ExistsBijection(DOMAIN s, DOMAIN t)
    BY <1>10 DEF ExistsBijection
  <2> QED
    BY <1>11, <2>1, FS_Bijection
<1> QED
  BY <1>11, <1>12

LEMMA ConcatElements ==
  ASSUME NEW S, NEW s \in Seq(S), NEW t \in Seq(S)
  PROVE  ToSet(s \o t) = ToSet(s) \cup ToSet(t)
<1> DEFINE all == s \o t
<1>1. /\ Len(s) \in Nat /\ DOMAIN s = 1 .. Len(s) /\ Len(t) \in Nat /\ DOMAIN t = 1 .. Len(t)
      /\ DOMAIN all = 1 .. Len(s) + Len(t)
  <2>1. all \in Seq(S) /\ Len(all) = Len(s) + Len(t)
    BY ConcatProperties
  <2> HIDE DEF all
  <2> QED
    BY <2>1, LenProperties
<1>2. \A i \in 1 .. Len(s) + Len(t) : all[i] = IF i <= Len(s) THEN s[i] ELSE t[i - Len(s)]
  BY ConcatProperties
<1> HIDE DEF all
<1>3. \A i \in DOMAIN all : \/ i \in DOMAIN s /\ all[i] = s[i]
                            \/ i - Len(s) \in DOMAIN t /\ all[i] = t[i - Len(s)]
  BY <1>1, <1>2
<1>4. \A i \in DOMAIN s : i \in DOMAIN all /\ all[i] = s[i]
  BY <1>1, <1>2
<1>5. \A j \in DOMAIN t : Len(s) + j \in DOMAIN all /\ all[Len(s) + j] = t[j]
  BY <1>1, <1>2
<1>6. \A x \in ToSet(all) : x \in ToSet(s) \cup ToSet(t)
  BY <1>3 DEF ToSet
<1>7. \A x \in ToSet(s) \cup ToSet(t) : x \in ToSet(all)
  BY <1>4, <1>5 DEF ToSet
<1> QED
  BY <1>6, <1>7 DEF all

LEMMA ContextSound ==
  ASSUME NEW service \in Services
  PROVE  /\ ContextSteps(service) \in Seq(PlainSteps)
         /\ DOMAIN ContextSteps(service) = {1, 2} /\ Distinct(ContextSteps(service))
<1> DEFINE a == Deployment("controlled-deployment-context", service)
<1> DEFINE b == Diff("controlled-code-context")
<1>1. a \in PlainSteps /\ b \in PlainSteps
  BY StepPlain DEF Ids, Abouts
<1>2. /\ Question(a) = <<"inspect_deployment", service, "release">>
      /\ Question(b) = <<"inspect_git_diff", "repository", "head">>
  BY DEF Question, Step, Deployment, Diff
<1>3. ContextSteps(service) = <<a, b>>
  BY DEF ContextSteps
<1> HIDE DEF a, b
<1>4. ContextSteps(service) \in Seq(PlainSteps)
  BY <1>1, <1>3, ShortSequences
<1>5. DOMAIN ContextSteps(service) = {1, 2} /\ ContextSteps(service)[1] = a /\ ContextSteps(service)[2] = b
  BY <1>3
<1> QED
  BY <1>2, <1>4, <1>5 DEF Distinct

\* ControlledToolOrderProvider adds what the plan does not ask yet.
LEMMA CommonSound ==
  ASSUME NEW plan \in Seq(PlainSteps), Distinct(plan), NEW service \in Services
  PROVE  /\ CommonStepSet(plan, service) \in Seq(PlainSteps)
         /\ Distinct(CommonStepSet(plan, service))
         /\ ToSet(CommonStepSet(plan, service))
              = ToSet(plan) \cup {c \in ToSet(ContextSteps(service)) :
                                    \A s \in ToSet(plan) : ~SameInvocation(c, s)}
<1> DEFINE context == ContextSteps(service)
<1> DEFINE I == {c \in DOMAIN context : \A i \in DOMAIN plan : ~SameInvocation(context[c], plan[i])}
<1> DEFINE added == Only(context, I)
<1>1. context \in Seq(PlainSteps) /\ Distinct(context) /\ I \in SUBSET DOMAIN context
  BY ContextSound
<1>2. \A c \in DOMAIN context : context[c] \in PlainSteps
  BY <1>1
<1>3. \A i \in DOMAIN plan : plan[i] \in PlainSteps
  OBVIOUS
<1>4. \A c \in I, i \in DOMAIN plan : ~SameInvocation(context[c], plan[i])
  OBVIOUS
<1>5. \A c \in DOMAIN context : c \notin I => \E i \in DOMAIN plan : SameInvocation(context[c], plan[i])
  OBVIOUS
<1>6. CommonStepSet(plan, service) = plan \o added
  BY DEF CommonStepSet
<1> HIDE DEF context, I
<1>7. /\ added \in Seq(PlainSteps) /\ ToSet(added) = {context[c] : c \in I}
      /\ \A k \in DOMAIN added : \E c \in I : added[k] = context[c]
  BY <1>1, OnlyKeeps
<1>8. Distinct(added)
  BY <1>1, OnlyDistinct
<1> HIDE DEF added
<1>9. \A i \in DOMAIN plan, k \in DOMAIN added : Question(plan[i]) # Question(added[k])
  BY <1>1, <1>2, <1>3, <1>4, <1>7, OneInvocation
<1>10. plan \o added \in Seq(PlainSteps) /\ Distinct(plan \o added)
  BY <1>7, <1>8, <1>9, ConcatProperties, ConcatDistinct
<1>11. ToSet(plan \o added) = ToSet(plan) \cup ToSet(added)
  BY <1>7, ConcatElements
<1>12. ToSet(added) = {c \in ToSet(context) : \A s \in ToSet(plan) : ~SameInvocation(c, s)}
  <2>1. \A c \in ToSet(added) :
          c \in ToSet(context) /\ \A s \in ToSet(plan) : ~SameInvocation(c, s)
    BY <1>1, <1>4, <1>7 DEF ToSet
  <2>2. ASSUME NEW c \in ToSet(context), \A s \in ToSet(plan) : ~SameInvocation(c, s)
        PROVE  c \in ToSet(added)
    <3>1. PICK d \in DOMAIN context : context[d] = c
      BY DEF ToSet
    <3>2. \A i \in DOMAIN plan : plan[i] \in ToSet(plan)
      BY DEF ToSet
    <3>3. d \in I
      BY <1>5, <2>2, <3>1, <3>2
    <3> QED
      BY <1>7, <3>1, <3>3
  <2> QED
    BY <2>1, <2>2
<1> QED
  BY <1>6, <1>10, <1>11, <1>12 DEF context

LEMMA CategoryRanked ==
  ASSUME NEW step
  PROVE  Category(step) \in {0, 1, 2, 3, 4}
  BY DEF Category

\* Every category has its rank.
Ranks(ranked) ==
  /\ \A r, q \in 1 .. 5 : ranked[r] = ranked[q] => r = q
  /\ \A c \in {0, 1, 2, 3, 4} : \E r \in 1 .. 5 : ranked[r] = c

Ranked(parts, plan, ranked) ==
  parts = [i \in 1 .. 5 |-> Only(plan, {j \in DOMAIN plan : Category(plan[j]) = ranked[i]})]

LEMMA TheRanks == Ranks(<<0, 1, 2, 3, 4>>) /\ Ranks(<<1, 2, 0, 3, 4>>)
<1>1. \A r \in 1 .. 5 : r = 1 \/ r = 2 \/ r = 3 \/ r = 4 \/ r = 5
  OBVIOUS
<1>2. 1 \in 1 .. 5 /\ 2 \in 1 .. 5 /\ 3 \in 1 .. 5 /\ 4 \in 1 .. 5 /\ 5 \in 1 .. 5
  OBVIOUS
<1> DEFINE s == <<0, 1, 2, 3, 4>>
<1> DEFINE t == <<1, 2, 0, 3, 4>>
<1>3. s[1] = 0 /\ s[2] = 1 /\ s[3] = 2 /\ s[4] = 3 /\ s[5] = 4
  OBVIOUS
<1>4. t[1] = 1 /\ t[2] = 2 /\ t[3] = 0 /\ t[4] = 3 /\ t[5] = 4
  OBVIOUS
<1> HIDE DEF s, t
<1>5. Ranks(s)
  BY <1>1, <1>2, <1>3 DEF Ranks
<1>6. Ranks(t)
  BY <1>1, <1>2, <1>4 DEF Ranks
<1> QED
  BY <1>5, <1>6 DEF s, t

\* The steps of a plan, category by category, in any order of the categories.
LEMMA RankedSound ==
  ASSUME NEW S, NEW plan \in Seq(S), Distinct(plan), NEW ranked, Ranks(ranked),
         NEW parts, Ranked(parts, plan, ranked)
  PROVE  /\ FlattenSeq(parts) \in Seq(S) /\ Distinct(FlattenSeq(parts))
         /\ ToSet(FlattenSeq(parts)) = ToSet(plan)
<1> DEFINE I(r) == {j \in DOMAIN plan : Category(plan[j]) = ranked[r]}
<1> DEFINE flat == FlattenSeq(parts)
<1>1. \A r, q \in 1 .. 5 : ranked[r] = ranked[q] => r = q
  BY DEF Ranks
<1>2. \A c \in {0, 1, 2, 3, 4} : \E r \in 1 .. 5 : ranked[r] = c
  BY DEF Ranks
<1>3. \A r \in 1 .. 5 : I(r) \in SUBSET DOMAIN plan
  OBVIOUS
<1>4. \A r, q \in 1 .. 5 : \A i \in I(r), j \in I(q) : r # q => i # j
  BY <1>1
<1>5. \A j \in DOMAIN plan : \E r \in 1 .. 5 : j \in I(r)
  BY <1>2, CategoryRanked
<1>6. DOMAIN parts = 1 .. 5 /\ \A r \in 1 .. 5 : parts[r] = Only(plan, I(r))
  BY DEF Ranked
<1>7. parts = [r \in 1 .. 5 |-> parts[r]]
  BY DEF Ranked
<1> HIDE DEF I
<1>8. ASSUME NEW r \in 1 .. 5
      PROVE  /\ parts[r] \in Seq(S) /\ Distinct(parts[r])
             /\ \A k \in DOMAIN parts[r] : \E i \in I(r) : parts[r][k] = plan[i]
             /\ ToSet(parts[r]) = {plan[i] : i \in I(r)}
  <2>1. I(r) \in SUBSET DOMAIN plan /\ parts[r] = Only(plan, I(r))
    BY <1>3, <1>6
  <2>2. Distinct(Only(plan, I(r)))
    BY <2>1, OnlyDistinct
  <2>3. /\ Only(plan, I(r)) \in Seq(S)
        /\ \A k \in DOMAIN Only(plan, I(r)) : \E i \in I(r) : Only(plan, I(r))[k] = plan[i]
        /\ ToSet(Only(plan, I(r))) = {plan[i] : i \in I(r)}
    BY <2>1, OnlyKeeps
  <2> QED
    BY <2>1, <2>2, <2>3
<1>9. parts \in Seq(Seq(S)) /\ Len(parts) = 5
  <2>1. parts \in [1 .. 5 -> Seq(S)]
    BY <1>7, <1>8
  <2> QED
    BY <2>1, FunctionIsSequence
<1>10. flat \in Seq(S)
  BY <1>9, FlattenLays
<1>11. PICK which, where : Laid(flat, parts, 5, which, where)
  BY <1>9, FlattenLays
<1>12. \A p \in DOMAIN flat : /\ which[p] \in 1 .. 5 /\ where[p] \in DOMAIN parts[which[p]]
                              /\ flat[p] = parts[which[p]][where[p]]
  <2> HIDE DEF flat
  <2> QED
    BY <1>11 DEF Laid
<1>13. ASSUME NEW p \in DOMAIN flat
       PROVE  \E i \in I(which[p]) : flat[p] = plan[i]
  <2> DEFINE r == which[p]
  <2> DEFINE k == where[p]
  <2>1. r \in 1 .. 5 /\ k \in DOMAIN parts[r] /\ flat[p] = parts[r][k]
    BY <1>12
  <2> HIDE DEF r, k, flat
  <2>2. \A l \in DOMAIN parts[r] : \E i \in I(r) : parts[r][l] = plan[i]
    BY <1>8, <2>1
  <2>3. \E i \in I(r) : flat[p] = plan[i]
    BY <2>1, <2>2
  <2> QED
    BY <2>3 DEF r
<1>14. \A p, q \in DOMAIN flat : p # q => which[p] # which[q] \/ where[p] # where[q]
  <2> HIDE DEF flat
  <2>1. \A p \in DOMAIN flat : p \in Nat
    BY <1>10 DEF flat
  <2>2. \A p, q \in DOMAIN flat : p < q => which[p] # which[q] \/ where[p] # where[q]
    <3>1. \A p, q \in DOMAIN flat : p < q =>
            which[p] < which[q] \/ (which[p] = which[q] /\ where[p] < where[q])
      BY <1>11 DEF Laid
    <3>2. which \in [DOMAIN flat -> 1 .. 5] /\ where \in [DOMAIN flat -> Nat]
      BY <1>11 DEF Laid
    <3>3. \A p \in DOMAIN flat : which[p] \in Nat /\ where[p] \in Nat
      BY <3>2
    <3> QED
      BY <3>1, <3>3
  <2> QED
    BY <2>1, <2>2
<1>15. \A r \in 1 .. 5 : \A k \in DOMAIN parts[r] :
         \E p \in DOMAIN flat : which[p] = r /\ where[p] = k
  <2> HIDE DEF flat
  <2> QED
    BY <1>11 DEF Laid
<1> HIDE DEF flat
<1>16. Distinct(flat)
  <2> SUFFICES ASSUME NEW p \in DOMAIN flat, NEW q \in DOMAIN flat, p # q
               PROVE  Question(flat[p]) # Question(flat[q])
    BY DEF Distinct
  <2>1. CASE which[p] = which[q]
    <3>1. where[p] # where[q] /\ Distinct(parts[which[p]])
      BY <1>8, <1>12, <1>14, <2>1
    <3> QED
      BY <1>12, <2>1, <3>1 DEF Distinct
  <2>2. CASE which[p] # which[q]
    <3>1. PICK i \in I(which[p]) : flat[p] = plan[i]
      BY <1>13
    <3>2. PICK j \in I(which[q]) : flat[q] = plan[j]
      BY <1>13
    <3>3. i # j /\ i \in DOMAIN plan /\ j \in DOMAIN plan
      BY <1>3, <1>4, <1>12, <2>2, <3>1, <3>2
    <3> QED
      BY <3>1, <3>2, <3>3 DEF Distinct
  <2> QED
    BY <2>1, <2>2
<1>17. \A x \in ToSet(flat) : x \in ToSet(plan)
  <2>1. \A p \in DOMAIN flat : \E i \in DOMAIN plan : flat[p] = plan[i]
    BY <1>3, <1>12, <1>13
  <2> QED
    BY <2>1 DEF ToSet
<1>18. \A x \in ToSet(plan) : x \in ToSet(flat)
  <2> SUFFICES ASSUME NEW j \in DOMAIN plan
               PROVE  \E p \in DOMAIN flat : flat[p] = plan[j]
    BY DEF ToSet
  <2>1. PICK r \in 1 .. 5 : j \in I(r)
    BY <1>5
  <2>2. plan[j] \in ToSet(parts[r])
    BY <1>8, <2>1
  <2>3. PICK k \in DOMAIN parts[r] : parts[r][k] = plan[j]
    BY <2>2 DEF ToSet
  <2>4. PICK p \in DOMAIN flat : which[p] = r /\ where[p] = k
    BY <1>15
  <2> QED
    BY <1>12, <2>3, <2>4
<1> QED
  BY <1>10, <1>16, <1>17, <1>18 DEF flat

\* OrderedSteps asks the same, in another order.
LEMMA OrderedSound ==
  ASSUME NEW S, NEW plan \in Seq(S), Distinct(plan), NEW mode, NEW incident
  PROVE  /\ OrderedSteps(plan, mode, incident) \in Seq(S)
         /\ Distinct(OrderedSteps(plan, mode, incident))
         /\ ToSet(OrderedSteps(plan, mode, incident)) = ToSet(plan)
<1> DEFINE effective == IF mode = "adaptive" THEN AdaptiveMode(incident) ELSE mode
<1> DEFINE ranked == IF effective = "deployment_first" THEN <<0, 1, 2, 3, 4>> ELSE <<1, 2, 0, 3, 4>>
<1> DEFINE parts == [i \in 1 .. 5 |->
                       Only(plan, {j \in DOMAIN plan : Category(plan[j]) = ranked[i]})]
<1>1. OrderedSteps(plan, mode, incident) = IF effective = "free" THEN plan ELSE FlattenSeq(parts)
  BY DEF OrderedSteps
<1>2. Ranks(ranked)
  BY TheRanks
<1>3. Ranked(parts, plan, ranked)
  BY DEF Ranked
<1> HIDE DEF ranked, effective, parts
<1>4. /\ FlattenSeq(parts) \in Seq(S) /\ Distinct(FlattenSeq(parts))
      /\ ToSet(FlattenSeq(parts)) = ToSet(plan)
  BY <1>2, <1>3, RankedSound
<1> QED
  BY <1>1, <1>4

\* A stretch of a plan.
Stretch(part, plan, m, n) ==
  /\ Len(part) = IF m <= n THEN n - m + 1 ELSE 0
  /\ \A k \in DOMAIN part : \E j \in DOMAIN plan : m <= j /\ j <= n /\ part[k] = plan[j]

LEMMA StretchDistinct ==
  ASSUME NEW S, NEW plan \in Seq(S), Distinct(plan),
         NEW m \in 1 .. Len(plan) + 1, NEW n \in 0 .. Len(plan)
  PROVE  /\ SubSeq(plan, m, n) \in Seq(S) /\ Distinct(SubSeq(plan, m, n))
         /\ Stretch(SubSeq(plan, m, n), plan, m, n)
<1> DEFINE part == SubSeq(plan, m, n)
<1>1. /\ Len(plan) \in Nat /\ DOMAIN plan = 1 .. Len(plan) /\ m \in Int /\ n \in Int /\ 1 <= m
      /\ n <= Len(plan) /\ \A j \in DOMAIN plan : plan[j] \in S
  OBVIOUS
<1>2. \A i \in m .. n : plan[i] \in S
  BY <1>1
<1>3. part \in Seq(S) /\ Len(part) = IF m <= n THEN n - m + 1 ELSE 0
  BY <1>1, <1>2, SubSeqProperties
<1>4. \A i \in 1 .. n - m + 1 : part[i] = plan[m + i - 1]
  BY <1>1, <1>2, SubSeqProperties
<1> HIDE DEF part
<1>5. DOMAIN part = 1 .. Len(part) /\ Len(part) \in Nat
  BY <1>3, LenProperties
<1>6. \A k \in DOMAIN part :
        /\ k \in Nat /\ m + k - 1 \in DOMAIN plan /\ m <= m + k - 1 /\ m + k - 1 <= n
        /\ part[k] = plan[m + k - 1]
  BY <1>1, <1>3, <1>4, <1>5
<1>7. \A k \in DOMAIN part : \E j \in DOMAIN plan : m <= j /\ j <= n /\ part[k] = plan[j]
  BY <1>6
<1>8. \A k, l \in DOMAIN part : k # l => m + k - 1 # m + l - 1
  BY <1>1, <1>6
<1>9. Distinct(part)
  BY <1>6, <1>8 DEF Distinct
<1>10. Stretch(part, plan, m, n)
  BY <1>3, <1>7 DEF Stretch
<1> QED
  BY <1>3, <1>9, <1>10 DEF part

\* One more step put into a plan, that asks something else.
LEMMA InsertSound ==
  ASSUME NEW S, NEW plan \in Seq(S), Distinct(plan), NEW i \in 1 .. Len(plan) + 1,
         NEW step \in S, \A j \in DOMAIN plan : Question(step) # Question(plan[j])
  PROVE  /\ InsertAt(plan, i, step) \in Seq(S) /\ Distinct(InsertAt(plan, i, step))
         /\ Len(InsertAt(plan, i, step)) = Len(plan) + 1
<1> DEFINE front == SubSeq(plan, 1, i - 1)
<1> DEFINE back == SubSeq(plan, i, Len(plan))
<1> DEFINE one == <<step>>
<1>1. /\ Len(plan) \in Nat /\ i - 1 \in 0 .. Len(plan) /\ 1 \in 1 .. Len(plan) + 1
      /\ Len(plan) \in 0 .. Len(plan) /\ i \in Nat /\ DOMAIN plan = 1 .. Len(plan)
  OBVIOUS
<1>2. front \in Seq(S) /\ Distinct(front) /\ Stretch(front, plan, 1, i - 1)
  BY <1>1, StretchDistinct
<1>3. back \in Seq(S) /\ Distinct(back) /\ Stretch(back, plan, i, Len(plan))
  BY <1>1, StretchDistinct
<1>4. one \in Seq(S) /\ DOMAIN one = {1} /\ one[1] = step /\ Len(one) = 1
  OBVIOUS
<1>5. InsertAt(plan, i, step) = (front \o one) \o back
  BY DEF InsertAt
<1> HIDE DEF front, back, one
<1>5a. /\ Len(front) = IF 1 <= i - 1 THEN (i - 1) - 1 + 1 ELSE 0
       /\ \A k \in DOMAIN front : \E j \in DOMAIN plan : j <= i - 1 /\ front[k] = plan[j]
  BY <1>2 DEF Stretch
<1>5b. /\ Len(back) = IF i <= Len(plan) THEN Len(plan) - i + 1 ELSE 0
       /\ \A k \in DOMAIN back : \E j \in DOMAIN plan : i <= j /\ back[k] = plan[j]
  BY <1>3 DEF Stretch
<1>6. Distinct(one)
  BY <1>4 DEF Distinct
<1>7. \A k \in DOMAIN front, l \in DOMAIN one : Question(front[k]) # Question(one[l])
  BY <1>5a, <1>4
<1>8. front \o one \in Seq(S) /\ Distinct(front \o one) /\ Len(front \o one) = Len(front) + 1
  <2>1. front \o one \in Seq(S) /\ Len(front \o one) = Len(front) + Len(one)
    <3>1. front \in Seq(S) /\ one \in Seq(S)
      BY <1>2, <1>4
    <3> QED
      BY <3>1, ConcatProperties, ZenonT(40)
  <2>2. Distinct(front \o one)
    BY <1>2, <1>4, <1>6, <1>7, ConcatDistinct
  <2> QED
    BY <1>4, <2>1, <2>2
<1>9. \A k \in DOMAIN (front \o one) :
        (front \o one)[k] = step \/ \E j \in DOMAIN plan : j <= i - 1 /\ (front \o one)[k] = plan[j]
  <2>1. \A k \in DOMAIN (front \o one) :
          (front \o one)[k] \in ToSet(front) \/ (front \o one)[k] \in ToSet(one)
    <3>1. ToSet(front \o one) = ToSet(front) \cup ToSet(one)
      BY <1>2, <1>4, ConcatElements
    <3>2. \A k \in DOMAIN (front \o one) : (front \o one)[k] \in ToSet(front \o one)
      BY DEF ToSet
    <3> QED
      BY <3>1, <3>2
  <2>2. \A x \in ToSet(one) : x = step
    BY <1>4 DEF ToSet
  <2>3. \A x \in ToSet(front) : \E j \in DOMAIN plan : j <= i - 1 /\ x = plan[j]
    BY <1>5a DEF ToSet
  <2> QED
    BY <2>1, <2>2, <2>3
<1>10. \A k \in DOMAIN (front \o one), l \in DOMAIN back :
         Question((front \o one)[k]) # Question(back[l])
  <2>1. \A j, h \in DOMAIN plan : j <= i - 1 /\ i <= h => j # h
    BY <1>1
  <2>2. \A j, h \in DOMAIN plan : j <= i - 1 /\ i <= h => Question(plan[j]) # Question(plan[h])
    BY <2>1 DEF Distinct
  <2> QED
    BY <1>5b, <1>9, <2>2
<1>11. /\ (front \o one) \o back \in Seq(S) /\ Distinct((front \o one) \o back)
       /\ Len((front \o one) \o back) = Len(front \o one) + Len(back)
  BY <1>3, <1>8, <1>10, ConcatDistinct, ConcatProperties
<1>12. Len(front) + 1 + Len(back) = Len(plan) + 1
  <2>1. i \in Nat /\ 1 <= i /\ i <= Len(plan) + 1 /\ Len(plan) \in Nat
    BY <1>1
  <2>2. Len(front) = i - 1
    <3>1. Len(front) = IF 1 <= i - 1 THEN (i - 1) - 1 + 1 ELSE 0
      BY <1>5a
    <3> QED
      BY <2>1, <3>1
  <2>3. Len(back) = Len(plan) - i + 1
    <3>1. Len(back) = IF i <= Len(plan) THEN Len(plan) - i + 1 ELSE 0
      BY <1>5b
    <3> QED
      BY <2>1, <3>1
  <2> QED
    BY <2>1, <2>2, <2>3
<1> QED
  BY <1>5, <1>8, <1>11, <1>12

\* The probe of ActiveVerificationReasoningProvider.
LEMMA ProbeTyped ==
  ASSUME NEW incident \in Incidents
  PROVE  /\ VerificationStep(incident) \in Steps
         /\ VerificationStep(incident).tool \in VerificationTools
<1> DEFINE probe == VerificationStep(incident)
<1>1. incident.service \in Services
  BY DEF Incidents
<1>2. probe \in Steps /\ probe.tool \in VerificationTools
  <2>1. "active-verification" \in Ids /\ "/checkout" \in Abouts /\ "symptom" \in Abouts
    BY DEF Ids, Abouts
  <2>2. /\ "rerun_load_test" \in Tools \cup VerificationTools
        /\ "reproduce_request" \in Tools \cup VerificationTools
        /\ incident.service \in Services \cup {"repository"} /\ 0 \in Nat
    BY <1>1 DEF VerificationTools
  <2>3. CASE incident.service = "checkout"
    <3>1. probe = Step("active-verification", "rerun_load_test", incident.service, "/checkout", 0)
      BY <2>3 DEF VerificationStep
    <3>2. probe.tool = "rerun_load_test"
      BY <3>1 DEF Step
    <3> HIDE DEF probe
    <3> QED
      BY <2>1, <2>2, <3>1, <3>2, StepTyped DEF VerificationTools
  <2>4. CASE incident.service # "checkout"
    <3>1. probe = Step("active-verification", "reproduce_request", incident.service, "symptom", 0)
      BY <2>4 DEF VerificationStep
    <3>2. probe.tool = "reproduce_request"
      BY <3>1 DEF Step
    <3> HIDE DEF probe
    <3> QED
      BY <2>1, <2>2, <3>1, <3>2, StepTyped DEF VerificationTools
  <2> QED
    BY <2>3, <2>4
<1> QED
  BY <1>2

\* What stands where once a step is put in.
LEMMA InsertPlaces ==
  ASSUME NEW S, NEW plan \in Seq(S), NEW n \in 1 .. Len(plan) + 1, NEW step \in S
  PROVE  /\ DOMAIN InsertAt(plan, n, step) = 1 .. Len(plan) + 1
         /\ \A i \in 1 .. Len(plan) + 1 :
              InsertAt(plan, n, step)[i]
                = IF i <= n - 1 THEN plan[i] ELSE IF i = n THEN step ELSE plan[i - 1]
<1> DEFINE front == SubSeq(plan, 1, n - 1)
<1> DEFINE back == SubSeq(plan, n, Len(plan))
<1> DEFINE one == <<step>>
<1> DEFINE head == front \o one
<1> DEFINE all == head \o back
<1>1. /\ Len(plan) \in Nat /\ n \in Nat /\ 1 <= n /\ n <= Len(plan) + 1
      /\ DOMAIN plan = 1 .. Len(plan) /\ \A j \in DOMAIN plan : plan[j] \in S
  OBVIOUS
<1>2. InsertAt(plan, n, step) = all
  BY DEF InsertAt
<1>3. /\ front \in Seq(S) /\ Len(front) = n - 1
      /\ \A i \in 1 .. n - 1 : front[i] = plan[i]
  <2>1. /\ 1 \in Int /\ n - 1 \in Int /\ \A i \in 1 .. n - 1 : plan[i] \in S
    BY <1>1
  <2>2. /\ front \in Seq(S) /\ Len(front) = IF 1 <= n - 1 THEN (n - 1) - 1 + 1 ELSE 0
        /\ \A i \in 1 .. (n - 1) - 1 + 1 : front[i] = plan[1 + i - 1]
    BY <2>1, SubSeqProperties
  <2> HIDE DEF front
  <2> QED
    BY <1>1, <2>2
<1>4. /\ back \in Seq(S) /\ Len(back) = Len(plan) - n + 1
      /\ \A i \in 1 .. Len(plan) - n + 1 : back[i] = plan[n + i - 1]
  <2>1. /\ n \in Int /\ Len(plan) \in Int /\ \A i \in n .. Len(plan) : plan[i] \in S
    BY <1>1
  <2>2. /\ back \in Seq(S) /\ Len(back) = IF n <= Len(plan) THEN Len(plan) - n + 1 ELSE 0
        /\ \A i \in 1 .. Len(plan) - n + 1 : back[i] = plan[n + i - 1]
    BY <2>1, SubSeqProperties
  <2> HIDE DEF back
  <2> QED
    BY <1>1, <2>2
<1>5. one \in Seq(S) /\ Len(one) = 1 /\ one[1] = step
  OBVIOUS
<1> HIDE DEF front, back, one
<1>6. /\ head \in Seq(S) /\ Len(head) = n
      /\ \A i \in 1 .. n : head[i] = IF i <= n - 1 THEN plan[i] ELSE step
  <2>1. /\ head \in Seq(S) /\ Len(head) = Len(front) + Len(one)
        /\ \A i \in 1 .. Len(front) + Len(one) :
             head[i] = IF i <= Len(front) THEN front[i] ELSE one[i - Len(front)]
    BY <1>3, <1>5, ConcatProperties
  <2> HIDE DEF head
  <2>2. Len(front) + Len(one) = n /\ Len(front) = n - 1
    BY <1>1, <1>3, <1>5
  <2>3. \A i \in 1 .. n : head[i] = IF i <= n - 1 THEN front[i] ELSE one[i - (n - 1)]
    BY <2>1, <2>2
  <2>4. \A i \in 1 .. n : IF i <= n - 1 THEN i \in 1 .. n - 1 ELSE i - (n - 1) = 1
    BY <1>1
  <2>5. \A i \in 1 .. n : head[i] = IF i <= n - 1 THEN plan[i] ELSE step
    BY <1>3, <1>5, <2>3, <2>4
  <2> QED
    BY <2>1, <2>2, <2>5
<1> HIDE DEF head
<1>7. /\ DOMAIN all = 1 .. Len(plan) + 1
      /\ \A i \in 1 .. Len(plan) + 1 :
           all[i] = IF i <= n - 1 THEN plan[i] ELSE IF i = n THEN step ELSE plan[i - 1]
  <2>1. /\ all \in Seq(S) /\ Len(all) = Len(head) + Len(back)
        /\ \A i \in 1 .. Len(head) + Len(back) :
             all[i] = IF i <= Len(head) THEN head[i] ELSE back[i - Len(head)]
    BY <1>4, <1>6, ConcatProperties
  <2> HIDE DEF all
  <2>2. DOMAIN all = 1 .. Len(plan) + 1
    BY <1>1, <1>4, <1>6, <2>1, LenProperties
  <2>3. ASSUME NEW i \in 1 .. Len(plan) + 1
        PROVE  all[i] = IF i <= n - 1 THEN plan[i] ELSE IF i = n THEN step ELSE plan[i - 1]
    <3>1. CASE i <= n
      BY <1>1, <1>4, <1>6, <2>1, <3>1
    <3>2. CASE n < i
      <4>1. i - n \in 1 .. Len(plan) - n + 1 /\ n + (i - n) - 1 = i - 1
        BY <1>1, <3>2
      <4>2. back[i - n] = plan[i - 1]
        BY <1>4, <4>1
      <4>3. all[i] = back[i - n]
        BY <1>1, <1>4, <1>6, <2>1, <3>2
      <4> QED
        BY <1>1, <3>2, <4>2, <4>3
    <3> QED
      BY <1>1, <3>1, <3>2
  <2> QED
    BY <2>2, <2>3
<1> QED
  BY <1>2, <1>7

\* ActiveVerificationReasoningProvider's probe asks what no plain step asks.
LEMMA VerifiedSound ==
  ASSUME NEW plan \in Seq(PlainSteps), Distinct(plan), NEW incident \in Incidents
  PROVE  /\ Verified(plan, incident) \in Seq(Steps) /\ Distinct(Verified(plan, incident))
         /\ Len(Verified(plan, incident)) = Len(plan) + 1
<1> DEFINE probe == VerificationStep(incident)
<1> DEFINE place == IF plan = <<>> THEN 1 ELSE 2
<1>1. probe \in Steps /\ probe.tool \in VerificationTools
  BY ProbeTyped
<1>2. \A j \in DOMAIN plan : plan[j] \in PlainSteps
  OBVIOUS
<1>3. \A j \in DOMAIN plan : probe.tool # plan[j].tool
  <2>1. \A s \in PlainSteps : s.tool \in Tools
    BY DEF PlainSteps
  <2>2. \A x \in VerificationTools, y \in Tools : x # y
    BY DEF VerificationTools, Tools
  <2> HIDE DEF probe
  <2> QED
    BY <1>1, <1>2, <2>1, <2>2
<1>4. plan \in Seq(Steps)
  BY PlainAreSteps
<1>5. place \in 1 .. Len(plan) + 1
  <2>1. Len(plan) \in Nat /\ (plan # <<>> => Len(plan) # 0)
    BY EmptySeq
  <2> QED
    BY <2>1
<1>6. Verified(plan, incident) = InsertAt(plan, place, probe)
  BY DEF Verified
<1> HIDE DEF probe, place
<1>7. \A j \in DOMAIN plan : Question(probe) # Question(plan[j])
  BY <1>3 DEF Question
<1>8. /\ InsertAt(plan, place, probe) \in Seq(Steps) /\ Distinct(InsertAt(plan, place, probe))
      /\ Len(InsertAt(plan, place, probe)) = Len(plan) + 1
  BY <1>1, <1>4, <1>5, <1>7, InsertSound
<1> QED
  BY <1>6, <1>8

\* A plan whose steps are changed in what is not asked of them.
LEMMA StepwiseSound ==
  ASSUME NEW plan \in Seq(Steps), Distinct(plan), NEW other,
         other = [i \in DOMAIN plan |-> other[i]],
         \A i \in DOMAIN plan : other[i] \in Steps /\ Question(other[i]) = Question(plan[i])
  PROVE  other \in Seq(Steps) /\ Distinct(other) /\ Len(other) = Len(plan)
<1>1. Len(plan) \in Nat /\ DOMAIN plan = 1 .. Len(plan)
  OBVIOUS
<1>2. other \in [1 .. Len(plan) -> Steps]
  BY <1>1
<1>3. other \in Seq(Steps) /\ Len(other) = Len(plan) /\ DOMAIN other = DOMAIN plan
  BY <1>1, <1>2, FunctionIsSequence
<1> QED
  BY <1>3 DEF Distinct

\* CappedRetrievalDepthProvider lowers limits.
LEMMA CappedSound ==
  ASSUME NEW plan \in Seq(Steps), Distinct(plan), NEW max \in Nat
  PROVE  /\ Capped(plan, max) \in Seq(Steps) /\ Distinct(Capped(plan, max))
         /\ Len(Capped(plan, max)) = Len(plan)
<1> DEFINE other == Capped(plan, max)
<1>1. other = [i \in DOMAIN plan |-> other[i]]
  BY DEF Capped
<1>2. ASSUME NEW i \in DOMAIN plan
      PROVE  other[i] \in Steps /\ Question(other[i]) = Question(plan[i])
  <2>1. plan[i] \in Steps
    OBVIOUS
  <2>2. other[i] = plan[i] \/ other[i] = [plan[i] EXCEPT !.limit = max]
    BY DEF Capped
  <2>3. \A s \in Steps : [s EXCEPT !.limit = max] \in Steps
                         /\ Question([s EXCEPT !.limit = max]) = Question(s)
    BY DEF Steps, Question
  <2> HIDE DEF other
  <2> QED
    BY <2>1, <2>2, <2>3
<1> HIDE DEF other
<1>3. other \in Seq(Steps) /\ Distinct(other) /\ Len(other) = Len(plan)
  BY <1>1, <1>2, StepwiseSound
<1> QED
  BY <1>3 DEF other

\* ExplicitTemporalReasoningProvider adds time windows.
LEMMA WindowedSound ==
  ASSUME NEW plan \in Seq(Steps), Distinct(plan)
  PROVE  /\ Windowed(plan) \in Seq(Steps) /\ Distinct(Windowed(plan))
         /\ Len(Windowed(plan)) = Len(plan)
<1> DEFINE other == Windowed(plan)
<1>1. other = [i \in DOMAIN plan |-> other[i]]
  BY DEF Windowed
<1>2. ASSUME NEW i \in DOMAIN plan
      PROVE  other[i] \in Steps /\ Question(other[i]) = Question(plan[i])
  <2>1. plan[i] \in Steps
    OBVIOUS
  <2>2. other[i] = plan[i] \/ other[i] = [plan[i] EXCEPT !.window = TRUE]
    BY DEF Windowed
  <2>3. \A s \in Steps : [s EXCEPT !.window = TRUE] \in Steps
                         /\ Question([s EXCEPT !.window = TRUE]) = Question(s)
    BY DEF Steps, Question
  <2> HIDE DEF other
  <2> QED
    BY <2>1, <2>2, <2>3
<1> HIDE DEF other
<1>3. other \in Seq(Steps) /\ Distinct(other) /\ Len(other) = Len(plan)
  BY <1>1, <1>2, StepwiseSound
<1> QED
  BY <1>3 DEF other

\* The plan for compound incidents asks ten different things, and all there is to ask.
LEMMA CompoundSound ==
  /\ CompoundPlan \in Seq(Steps) /\ Distinct(CompoundPlan)
  /\ \A service \in Services : Core(service) \subseteq Questions(CompoundPlan)
  /\ ByMetrics(CompoundPlan, "worker") /\ DiskFirst(CompoundPlan)
<1> DEFINE plan == CompoundPlan
<1>1. /\ DOMAIN plan = 1 .. 10 /\ plan = [i \in 1 .. 10 |-> plan[i]]
      /\ plan[1] = Metric("checkout-db-query-count", "checkout", "db_query_count")
      /\ plan[2] = Logs("checkout-request-logs", "checkout", "/orders")
      /\ plan[3] = Metric("inventory-db-connections", "inventory", "db_connections")
      /\ plan[4] = Logs("inventory-errors", "inventory", "ERROR")
      /\ plan[5] = Metric("worker-disk", "worker", "disk_usage")
      /\ plan[6] = Metric("worker-memory", "worker", "memory_usage")
      /\ plan[7] = Metric("worker-restarts", "worker", "container_restarts")
      /\ plan[8] = Logs("worker-errors", "worker", "ERROR")
      /\ plan[9] = Logs("payment-warnings", "payment", "WARNING")
      /\ plan[10] = Logs("gateway-errors", "gateway", "ERROR")
  BY DEF CompoundPlan
<1> HIDE DEF plan
<1>2. \A i \in 1 .. 10 : \/ i = 1 \/ i = 2 \/ i = 3 \/ i = 4 \/ i = 5
                         \/ i = 6 \/ i = 7 \/ i = 8 \/ i = 9 \/ i = 10
  OBVIOUS
<1>3. /\ plan[1] \in PlainSteps /\ plan[2] \in PlainSteps /\ plan[3] \in PlainSteps
      /\ plan[4] \in PlainSteps /\ plan[5] \in PlainSteps /\ plan[6] \in PlainSteps
      /\ plan[7] \in PlainSteps /\ plan[8] \in PlainSteps /\ plan[9] \in PlainSteps
      /\ plan[10] \in PlainSteps
  BY <1>1, StepPlain DEF Ids, Services, Abouts
<1>4. plan \in Seq(Steps)
  <2>1. \A i \in 1 .. 10 : plan[i] \in Steps
    BY <1>2, <1>3, PlainAreSteps
  <2>2. plan \in [1 .. 10 -> Steps]
    BY <1>1, <2>1
  <2> QED
    BY <2>2, FunctionIsSequence
<1>5. /\ plan[1].service = "checkout" /\ plan[1].about = "db_query_count"
      /\ plan[2].service = "checkout" /\ plan[2].about = "/orders"
      /\ plan[3].service = "inventory" /\ plan[3].about = "db_connections"
      /\ plan[4].service = "inventory" /\ plan[4].about = "ERROR"
      /\ plan[5].service = "worker" /\ plan[5].about = "disk_usage"
      /\ plan[6].service = "worker" /\ plan[6].about = "memory_usage"
      /\ plan[7].service = "worker" /\ plan[7].about = "container_restarts"
      /\ plan[8].service = "worker" /\ plan[8].about = "ERROR"
      /\ plan[9].service = "payment" /\ plan[9].about = "WARNING"
      /\ plan[10].service = "gateway" /\ plan[10].about = "ERROR"
  BY <1>1 DEF Metric, Logs, Step
<1>6. \A i, j \in 1 .. 10 : i # j => plan[i].service # plan[j].service \/ plan[i].about # plan[j].about
  BY <1>2, <1>5
<1>7. Distinct(plan)
  BY <1>1, <1>6 DEF Distinct, Question
<1>8. \A service \in Services : Core(service) \subseteq Questions(plan)
  <2>1. /\ Question(plan[1]) = <<"query_metrics", "checkout", "db_query_count">>
        /\ Question(plan[2]) = <<"search_logs", "checkout", "/orders">>
        /\ Question(plan[3]) = <<"query_metrics", "inventory", "db_connections">>
        /\ Question(plan[4]) = <<"search_logs", "inventory", "ERROR">>
        /\ Question(plan[5]) = <<"query_metrics", "worker", "disk_usage">>
        /\ Question(plan[6]) = <<"query_metrics", "worker", "memory_usage">>
        /\ Question(plan[7]) = <<"query_metrics", "worker", "container_restarts">>
        /\ Question(plan[8]) = <<"search_logs", "worker", "ERROR">>
        /\ Question(plan[9]) = <<"search_logs", "payment", "WARNING">>
        /\ Question(plan[10]) = <<"search_logs", "gateway", "ERROR">>
    BY <1>1 DEF Question, Metric, Logs, Step
  <2>2. \A i \in 1 .. 10 : Question(plan[i]) \in Questions(plan)
    BY <1>1 DEF Questions
  <2>3. /\ 1 \in 1 .. 10 /\ 2 \in 1 .. 10 /\ 3 \in 1 .. 10 /\ 4 \in 1 .. 10 /\ 5 \in 1 .. 10
        /\ 6 \in 1 .. 10 /\ 7 \in 1 .. 10 /\ 8 \in 1 .. 10 /\ 9 \in 1 .. 10 /\ 10 \in 1 .. 10
    OBVIOUS
  <2> QED
    BY <2>1, <2>2, <2>3 DEF Core
<1>9. \A i \in 1 .. 10 : (OfDisk(plan[i]) => i = 5) /\ (OfRestarts(plan[i]) => i = 7)
  BY <1>2, <1>5 DEF OfDisk, OfRestarts
<1>10. plan[5].tool = "query_metrics" /\ plan[7].tool = "query_metrics"
  BY <1>1 DEF Metric, Step
<1>11. ByMetrics(plan, "worker") /\ DiskFirst(plan)
  BY <1>1, <1>9, <1>10 DEF ByMetrics, DiskFirst
<1> QED
  BY <1>4, <1>7, <1>8, <1>11 DEF plan

-----------------------------------------------------------------------------
(* What the decorators leave of a plan. *)

\* What they add to a plan is about something else than its root causes.
Extras == {"release", "head", "symptom", "/checkout"}

\* The steps of plan p stand in plan q, those of one tool in their order, and beside
\* them nothing but what a decorator adds.
Embeds(e, p, q) ==
  /\ e \in [DOMAIN p -> DOMAIN q]
  /\ \A i \in DOMAIN p : Question(q[e[i]]) = Question(p[i])
  /\ \A i, j \in DOMAIN p : i < j /\ p[i].tool = p[j].tool => e[i] < e[j]
  /\ \A k \in DOMAIN q : q[k].about \in Extras \/ \E i \in DOMAIN p : e[i] = k

Keeps(p, q) == \E e : Embeds(e, p, q)

\* Plans of one length with the same questions, place by place.
LEMMA SameKeeps ==
  ASSUME NEW p, NEW q, DOMAIN q = DOMAIN p, \A i \in DOMAIN p : Question(q[i]) = Question(p[i])
  PROVE  Keeps(p, q)
<1> DEFINE e == [i \in DOMAIN p |-> i]
<1>1. e \in [DOMAIN p -> DOMAIN q] /\ \A i \in DOMAIN p : e[i] = i
  OBVIOUS
<1> HIDE DEF e
<1>2. Embeds(e, p, q)
  BY <1>1 DEF Embeds
<1> QED
  BY <1>2 DEF Keeps

LEMMA KeepsOn ==
  ASSUME NEW p, NEW q, NEW r, Keeps(p, q), Keeps(q, r)
  PROVE  Keeps(p, r)
<1>1. PICK e : Embeds(e, p, q)
  BY DEF Keeps
<1>2. PICK f : Embeds(f, q, r)
  BY DEF Keeps
<1> DEFINE g == [i \in DOMAIN p |-> f[e[i]]]
<1>3. /\ \A i \in DOMAIN p : e[i] \in DOMAIN q /\ Question(q[e[i]]) = Question(p[i])
      /\ \A i, j \in DOMAIN p : i < j /\ p[i].tool = p[j].tool => e[i] < e[j]
      /\ \A k \in DOMAIN q : q[k].about \in Extras \/ \E i \in DOMAIN p : e[i] = k
  BY <1>1 DEF Embeds
<1>4. /\ \A i \in DOMAIN q : f[i] \in DOMAIN r /\ Question(r[f[i]]) = Question(q[i])
      /\ \A i, j \in DOMAIN q : i < j /\ q[i].tool = q[j].tool => f[i] < f[j]
      /\ \A k \in DOMAIN r : r[k].about \in Extras \/ \E i \in DOMAIN q : f[i] = k
  BY <1>2 DEF Embeds
<1>5. /\ \A i \in DOMAIN p : q[e[i]].tool = p[i].tool
      /\ \A i \in DOMAIN q : r[f[i]].about = q[i].about
  BY <1>3, <1>4 DEF Question
<1>6. g \in [DOMAIN p -> DOMAIN r] /\ \A i \in DOMAIN p : g[i] = f[e[i]]
  BY <1>3, <1>4
<1> HIDE DEF g
<1>7. \A i \in DOMAIN p : Question(r[g[i]]) = Question(p[i])
  BY <1>3, <1>4, <1>6
<1>8. \A i, j \in DOMAIN p : i < j /\ p[i].tool = p[j].tool => g[i] < g[j]
  BY <1>3, <1>4, <1>5, <1>6
<1>9. \A k \in DOMAIN r : r[k].about \in Extras \/ \E i \in DOMAIN p : g[i] = k
  <2> SUFFICES ASSUME NEW k \in DOMAIN r, r[k].about \notin Extras
               PROVE  \E i \in DOMAIN p : g[i] = k
    OBVIOUS
  <2>1. PICK l \in DOMAIN q : f[l] = k
    BY <1>4
  <2>2. q[l].about \notin Extras
    BY <1>5, <2>1
  <2>3. PICK i \in DOMAIN p : e[i] = l
    BY <1>3, <2>2
  <2> QED
    BY <1>6, <2>1, <2>3
<1>10. Embeds(g, p, r)
  BY <1>6, <1>7, <1>8, <1>9 DEF Embeds
<1> QED
  BY <1>10 DEF Keeps

\* ControlledToolOrderProvider adds the deployment and the diff behind the plan.
LEMMA CommonKeeps ==
  ASSUME NEW plan \in Seq(PlainSteps), Distinct(plan), NEW service \in Services
  PROVE  Keeps(plan, CommonStepSet(plan, service))
<1> DEFINE context == ContextSteps(service)
<1> DEFINE I == {c \in DOMAIN context : \A i \in DOMAIN plan : ~SameInvocation(context[c], plan[i])}
<1> DEFINE added == Only(context, I)
<1> DEFINE all == plan \o added
<1>1. CommonStepSet(plan, service) = all
  BY DEF CommonStepSet
<1>2. context \in Seq(PlainSteps) /\ DOMAIN context = {1, 2} /\ I \in SUBSET DOMAIN context
  BY ContextSound
<1>3. context[1].about = "release" /\ context[2].about = "head"
  BY DEF ContextSteps, Deployment, Diff, Step
<1> HIDE DEF context, I
<1>4. added \in Seq(PlainSteps) /\ \A k \in DOMAIN added : \E c \in I : added[k] = context[c]
  BY <1>2, OnlyKeeps
<1>5. \A k \in DOMAIN added : added[k].about \in Extras
  BY <1>2, <1>3, <1>4 DEF Extras
<1> HIDE DEF added
<1>6. /\ Len(plan) \in Nat /\ DOMAIN plan = 1 .. Len(plan)
      /\ Len(added) \in Nat /\ DOMAIN added = 1 .. Len(added)
  BY <1>4, LenProperties
<1>7. DOMAIN all = 1 .. Len(plan) + Len(added)
  <2>1. all \in Seq(PlainSteps) /\ Len(all) = Len(plan) + Len(added)
    BY <1>4, ConcatProperties
  <2> HIDE DEF all
  <2> QED
    BY <2>1, LenProperties
<1>8. \A k \in 1 .. Len(plan) + Len(added) :
        all[k] = IF k <= Len(plan) THEN plan[k] ELSE added[k - Len(plan)]
  BY <1>4, ConcatProperties
<1> DEFINE e == [i \in DOMAIN plan |-> i]
<1>9. \A i \in DOMAIN plan : i \in DOMAIN all /\ all[i] = plan[i] /\ e[i] = i
  BY <1>6, <1>7, <1>8
<1>10. \A k \in DOMAIN all : k \in DOMAIN plan \/ all[k].about \in Extras
  BY <1>5, <1>6, <1>7, <1>8
<1> HIDE DEF all
<1>11. e \in [DOMAIN plan -> DOMAIN all]
  BY <1>9
<1> HIDE DEF e
<1>12. Embeds(e, plan, all)
  BY <1>9, <1>10, <1>11 DEF Embeds
<1> QED
  BY <1>1, <1>12 DEF Keeps

\* OrderedSteps keeps the order of the steps of one tool.
LEMMA RankedKeeps ==
  ASSUME NEW S, NEW plan \in Seq(S), NEW ranked, Ranks(ranked),
         NEW parts, Ranked(parts, plan, ranked)
  PROVE  Keeps(plan, FlattenSeq(parts))
<1> DEFINE I(r) == {j \in DOMAIN plan : Category(plan[j]) = ranked[r]}
<1> DEFINE G == [r \in 1 .. 5 |-> I(r)]
<1> DEFINE flat == FlattenSeq(parts)
<1>1. \A r, q \in 1 .. 5 : ranked[r] = ranked[q] => r = q
  BY DEF Ranks
<1>2. \A r \in 1 .. 5 : G[r] = I(r) /\ G[r] \in SUBSET DOMAIN plan
  OBVIOUS
<1>3. \A j \in DOMAIN plan : \E r \in 1 .. 5 : j \in G[r]
  <2>1. \A c \in {0, 1, 2, 3, 4} : \E r \in 1 .. 5 : ranked[r] = c
    BY DEF Ranks
  <2> QED
    BY <2>1, CategoryRanked
<1>4. \A i, j \in DOMAIN plan, r \in 1 .. 5 :
        plan[i].tool = plan[j].tool /\ j \in G[r] => i \in G[r]
  <2>1. \A i, j \in DOMAIN plan :
          plan[i].tool = plan[j].tool => Category(plan[i]) = Category(plan[j])
    BY DEF Category
  <2> QED
    BY <1>2, <2>1
<1>5. Groups(G, plan, 5)
  <2>1. \A r, q \in 1 .. 5 : \A i \in G[r], j \in G[q] : r # q => i # j
    BY <1>1
  <2> QED
    BY <1>2, <2>1 DEF Groups
<1>6. GroupParts(parts, plan, G, 5)
  BY DEF GroupParts, Ranked
<1> HIDE DEF I, G
<1>7. flat \in Seq(S) /\ \E which, place : Taken(flat, plan, G, 5, which, place)
  BY <1>5, <1>6, GroupsTaken
<1>8. PICK which, place : Taken(flat, plan, G, 5, which, place)
  BY <1>7
<1> HIDE DEF flat
<1>9. /\ \A p \in DOMAIN flat : /\ which[p] \in 1 .. 5 /\ place[p] \in G[which[p]]
                                /\ flat[p] = plan[place[p]]
      /\ \A p, q \in DOMAIN flat : p < q /\ which[p] = which[q] => place[p] < place[q]
      /\ \A r \in 1 .. 5 : \A i \in G[r] : \E p \in DOMAIN flat : which[p] = r /\ place[p] = i
  BY <1>8 DEF Taken
<1> DEFINE e == [i \in DOMAIN plan |-> CHOOSE p \in DOMAIN flat : place[p] = i]
<1>10. \A i \in DOMAIN plan : e[i] \in DOMAIN flat /\ place[e[i]] = i
  <2>1. \A i \in DOMAIN plan : \E p \in DOMAIN flat : place[p] = i
    BY <1>3, <1>9
  <2> QED
    BY <2>1
<1>11. e \in [DOMAIN plan -> DOMAIN flat]
  BY <1>10
<1> HIDE DEF e
<1>12. \A i \in DOMAIN plan : Question(flat[e[i]]) = Question(plan[i])
  BY <1>9, <1>10
<1>13. (\A i \in DOMAIN plan : i \in Nat) /\ \A p \in DOMAIN flat : p \in Nat
  BY <1>7
<1>14. ASSUME NEW i \in DOMAIN plan, NEW j \in DOMAIN plan, i < j, plan[i].tool = plan[j].tool
       PROVE  e[i] < e[j]
  <2>1. PICK r \in 1 .. 5 : j \in G[r] /\ i \in G[r]
    BY <1>3, <1>4, <1>14
  <2>2. which[e[i]] = r /\ which[e[j]] = r
    BY <1>5, <1>9, <1>10, <2>1 DEF Groups
  <2>3. ~(e[j] < e[i])
    BY <1>9, <1>10, <1>13, <1>14, <2>2
  <2>4. e[i] # e[j]
    BY <1>10, <1>13, <1>14
  <2> QED
    BY <1>10, <1>13, <2>3, <2>4
<1>15. \A k \in DOMAIN flat : \E i \in DOMAIN plan : e[i] = k
  <2> SUFFICES ASSUME NEW k \in DOMAIN flat
               PROVE  e[place[k]] = k /\ place[k] \in DOMAIN plan
    OBVIOUS
  <2>1. place[k] \in DOMAIN plan
    BY <1>2, <1>9
  <2>2. e[place[k]] \in DOMAIN flat /\ place[e[place[k]]] = place[k]
    BY <1>10, <2>1
  <2>3. \A p, q \in DOMAIN flat : p # q => place[p] # place[q]
    BY <1>8 DEF Taken
  <2> QED
    BY <2>1, <2>2, <2>3
<1>16. Embeds(e, plan, flat)
  BY <1>11, <1>12, <1>14, <1>15 DEF Embeds
<1> QED
  BY <1>16 DEF Keeps, flat

LEMMA OrderedKeeps ==
  ASSUME NEW S, NEW plan \in Seq(S), NEW mode, NEW incident
  PROVE  Keeps(plan, OrderedSteps(plan, mode, incident))
<1> DEFINE effective == IF mode = "adaptive" THEN AdaptiveMode(incident) ELSE mode
<1> DEFINE ranked == IF effective = "deployment_first" THEN <<0, 1, 2, 3, 4>> ELSE <<1, 2, 0, 3, 4>>
<1> DEFINE parts == [i \in 1 .. 5 |->
                       Only(plan, {j \in DOMAIN plan : Category(plan[j]) = ranked[i]})]
<1>1. OrderedSteps(plan, mode, incident) = IF effective = "free" THEN plan ELSE FlattenSeq(parts)
  BY DEF OrderedSteps
<1>2. Ranks(ranked)
  BY TheRanks
<1>3. Ranked(parts, plan, ranked)
  BY DEF Ranked
<1> HIDE DEF ranked, effective, parts
<1>4. Keeps(plan, FlattenSeq(parts))
  BY <1>2, <1>3, RankedKeeps
<1>5. Keeps(plan, plan)
  BY SameKeeps
<1> QED
  BY <1>1, <1>4, <1>5

\* ActiveVerificationReasoningProvider's probe moves the steps behind it by one.
LEMMA InsertKeeps ==
  ASSUME NEW S, NEW plan \in Seq(S), NEW n \in 1 .. Len(plan) + 1, NEW step \in S,
         step.about \in Extras
  PROVE  Keeps(plan, InsertAt(plan, n, step))
<1> DEFINE all == InsertAt(plan, n, step)
<1>1. /\ Len(plan) \in Nat /\ n \in Nat /\ 1 <= n /\ n <= Len(plan) + 1
      /\ DOMAIN plan = 1 .. Len(plan)
  OBVIOUS
<1>2. /\ DOMAIN all = 1 .. Len(plan) + 1
      /\ \A i \in 1 .. Len(plan) + 1 :
           all[i] = IF i <= n - 1 THEN plan[i] ELSE IF i = n THEN step ELSE plan[i - 1]
  BY InsertPlaces
<1> DEFINE e == [i \in DOMAIN plan |-> IF i < n THEN i ELSE i + 1]
<1> HIDE DEF all
<1>3. \A i \in DOMAIN plan : e[i] \in DOMAIN all /\ all[e[i]] = plan[i]
  BY <1>1, <1>2
<1>4. \A i, j \in DOMAIN plan : i < j => e[i] < e[j]
  BY <1>1
<1>5. \A k \in DOMAIN all : k = n \/ \E i \in DOMAIN plan : e[i] = k
  <2>1. \A k \in DOMAIN all : k = n \/ (k \in DOMAIN plan /\ k < n)
                              \/ (k - 1 \in DOMAIN plan /\ ~(k - 1 < n) /\ (k - 1) + 1 = k)
    BY <1>1, <1>2
  <2> QED
    BY <2>1
<1>6. all[n].about \in Extras
  BY <1>1, <1>2
<1>7. e \in [DOMAIN plan -> DOMAIN all]
  BY <1>3
<1> HIDE DEF e
<1>8. Embeds(e, plan, all)
  BY <1>3, <1>4, <1>5, <1>6, <1>7 DEF Embeds
<1> QED
  BY <1>8 DEF Keeps, all

LEMMA VerifiedKeeps ==
  ASSUME NEW plan \in Seq(Steps), NEW incident \in Incidents
  PROVE  Keeps(plan, Verified(plan, incident))
<1> DEFINE probe == VerificationStep(incident)
<1> DEFINE place == IF plan = <<>> THEN 1 ELSE 2
<1>1. probe.about \in Extras
  BY DEF VerificationStep, Step, Extras
<1>2. place \in 1 .. Len(plan) + 1
  <2>1. Len(plan) \in Nat /\ (plan # <<>> => Len(plan) # 0)
    BY EmptySeq
  <2> QED
    BY <2>1
<1>3. Verified(plan, incident) = InsertAt(plan, place, probe)
  BY DEF Verified
<1> DEFINE S == Steps \cup {probe}
<1>4. plan \in Seq(S) /\ probe \in S
  OBVIOUS
<1> HIDE DEF probe, place, S
<1>5. Keeps(plan, InsertAt(plan, place, probe))
  BY <1>1, <1>2, <1>4, InsertKeeps
<1> QED
  BY <1>3, <1>5

\* CappedRetrievalDepthProvider and ExplicitTemporalReasoningProvider ask what the plan asks.
LEMMA StepwiseKeeps ==
  ASSUME NEW plan \in Seq(Steps), NEW max
  PROVE  Keeps(plan, Capped(plan, max)) /\ Keeps(plan, Windowed(plan))
<1>1. \A s \in Steps : /\ Question([s EXCEPT !.limit = max]) = Question(s)
                       /\ Question([s EXCEPT !.window = TRUE]) = Question(s)
  BY DEF Steps, Question
<1>2. \A i \in DOMAIN plan : plan[i] \in Steps
  OBVIOUS
<1>3. /\ DOMAIN Capped(plan, max) = DOMAIN plan
      /\ \A i \in DOMAIN plan : Question(Capped(plan, max)[i]) = Question(plan[i])
  BY <1>1, <1>2 DEF Capped
<1>4. /\ DOMAIN Windowed(plan) = DOMAIN plan
      /\ \A i \in DOMAIN plan : Question(Windowed(plan)[i]) = Question(plan[i])
  BY <1>1, <1>2 DEF Windowed
<1> QED
  BY <1>3, <1>4, SameKeeps

\* Everything AgentService wraps around a provider keeps the steps it plans, unless
\* the plan for compound incidents takes their place.
LEMMA WrappedKeeps ==
  ASSUME NEW chain, chain.cap \in Nat, ~chain.compound, NEW incident \in Incidents,
         NEW base \in Seq(PlainSteps), Distinct(base)
  PROVE  Keeps(base, WrappedPlan(chain, incident, base))
<1> DEFINE common == CommonStepSet(base, incident.service)
<1> DEFINE ordered == When(chain.order # "none", ControlledOrder(base, chain.order, incident), base)
<1> DEFINE verified == When(chain.verified, Verified(ordered, incident), ordered)
<1> DEFINE capped == When(chain.cap > 0, Capped(verified, chain.cap), verified)
<1> DEFINE windowed == When(chain.temporal, Windowed(capped), capped)
<1>1. WrappedPlan(chain, incident, base) = windowed
  BY DEF WrappedPlan, When
<1>2. incident.service \in Services
  BY DEF Incidents
<1>3. common \in Seq(PlainSteps) /\ Distinct(common) /\ Keeps(base, common)
  BY <1>2, CommonSound, CommonKeeps
<1>4. ControlledOrder(base, chain.order, incident) = OrderedSteps(common, chain.order, incident)
  BY DEF ControlledOrder
<1> HIDE DEF common
<1>5. /\ OrderedSteps(common, chain.order, incident) \in Seq(PlainSteps)
      /\ Distinct(OrderedSteps(common, chain.order, incident))
      /\ Keeps(common, OrderedSteps(common, chain.order, incident))
  BY <1>3, OrderedSound, OrderedKeeps
<1>6. Keeps(base, base) /\ Keeps(base, OrderedSteps(common, chain.order, incident))
  BY <1>3, <1>5, SameKeeps, KeepsOn
<1>7. ordered \in Seq(PlainSteps) /\ Distinct(ordered) /\ Keeps(base, ordered)
  BY <1>4, <1>5, <1>6 DEF When
<1> HIDE DEF ordered
<1>8. ordered \in Seq(Steps)
  BY <1>7, PlainAreSteps
<1>9. /\ Verified(ordered, incident) \in Seq(Steps) /\ Distinct(Verified(ordered, incident))
      /\ Keeps(base, Verified(ordered, incident))
  BY <1>7, <1>8, VerifiedSound, VerifiedKeeps, KeepsOn
<1>10. verified \in Seq(Steps) /\ Distinct(verified) /\ Keeps(base, verified)
  BY <1>7, <1>8, <1>9 DEF When
<1> HIDE DEF verified
<1>11. /\ Capped(verified, chain.cap) \in Seq(Steps)
       /\ Keeps(base, Capped(verified, chain.cap))
  BY <1>10, CappedSound, StepwiseKeeps, KeepsOn
<1>12. capped \in Seq(Steps) /\ Keeps(base, capped)
  BY <1>10, <1>11 DEF When
<1> HIDE DEF capped
<1>13. Keeps(base, Windowed(capped))
  BY <1>12, StepwiseKeeps, KeepsOn
<1>14. Keeps(base, windowed)
  BY <1>12, <1>13 DEF When
<1> QED
  BY <1>1, <1>14

\* A plan that keeps the steps of another asks what that one asks, where it looks at
\* the disk it does so for the same service, and not later.
LEMMA KeepsAsking ==
  ASSUME NEW p, NEW q, Keeps(p, q), NEW service
  PROVE  /\ Questions(p) \subseteq Questions(q)
         /\ ByMetrics(p, service) => ByMetrics(q, service)
         /\ ByMetrics(p, service) /\ DiskFirst(p) => DiskFirst(q)
         /\ AtHome(p, service) => AtHome(q, service)
<1>1. PICK e : Embeds(e, p, q)
  BY DEF Keeps
<1>2. /\ \A i \in DOMAIN p : e[i] \in DOMAIN q /\ Question(q[e[i]]) = Question(p[i])
      /\ \A i, j \in DOMAIN p : i < j /\ p[i].tool = p[j].tool => e[i] < e[j]
      /\ \A k \in DOMAIN q : q[k].about \in Extras \/ \E i \in DOMAIN p : e[i] = k
  BY <1>1 DEF Embeds
<1>3. \A k \in DOMAIN q : OfDisk(q[k]) \/ OfRestarts(q[k]) =>
        \E i \in DOMAIN p : e[i] = k /\ q[k].tool = p[i].tool
                            /\ OfDisk(p[i]) = OfDisk(q[k]) /\ OfRestarts(p[i]) = OfRestarts(q[k])
  <2> SUFFICES ASSUME NEW k \in DOMAIN q, OfDisk(q[k]) \/ OfRestarts(q[k])
               PROVE  \E i \in DOMAIN p :
                        e[i] = k /\ q[k].tool = p[i].tool
                        /\ OfDisk(p[i]) = OfDisk(q[k]) /\ OfRestarts(p[i]) = OfRestarts(q[k])
    OBVIOUS
  <2>1. q[k].about \notin Extras
    BY DEF OfDisk, OfRestarts, Extras
  <2>2. PICK i \in DOMAIN p : e[i] = k
    BY <1>2, <2>1
  <2>3. Question(q[k]) = Question(p[i])
    BY <1>2, <2>2
  <2>4. q[k].tool = p[i].tool /\ q[k].service = p[i].service /\ q[k].about = p[i].about
    BY <2>3 DEF Question
  <2> QED
    BY <2>2, <2>4 DEF OfDisk, OfRestarts
<1>4. Questions(p) \subseteq Questions(q)
  BY <1>2 DEF Questions
<1>5. ByMetrics(p, service) => ByMetrics(q, service)
  BY <1>3 DEF ByMetrics
<1>6. ASSUME ByMetrics(p, service), DiskFirst(p)
      PROVE  DiskFirst(q)
  <2> SUFFICES ASSUME NEW k \in DOMAIN q, NEW l \in DOMAIN q, OfDisk(q[k]), OfRestarts(q[l])
               PROVE  k < l
    BY DEF DiskFirst
  <2>1. PICK i \in DOMAIN p : e[i] = k /\ OfDisk(p[i])
    BY <1>3
  <2>2. PICK j \in DOMAIN p : e[j] = l /\ OfRestarts(p[j])
    BY <1>3
  <2>3. i < j /\ p[i].tool = p[j].tool
    BY <1>6, <2>1, <2>2 DEF ByMetrics, DiskFirst
  <2> QED
    BY <1>2, <2>1, <2>2, <2>3
<1>7. ASSUME AtHome(p, service)
      PROVE  AtHome(q, service)
  <2> SUFFICES ASSUME NEW k \in DOMAIN q, q[k].about \in Telling
               PROVE  q[k].service = service
    BY DEF AtHome
  <2>1. q[k].about \notin Extras
    BY DEF Telling, Extras
  <2>2. PICK i \in DOMAIN p : e[i] = k
    BY <1>2, <2>1
  <2>3. Question(q[k]) = Question(p[i])
    BY <1>2, <2>2
  <2>4. q[k].service = p[i].service /\ q[k].about = p[i].about
    BY <2>3 DEF Question
  <2> QED
    BY <1>7, <2>4 DEF AtHome
<1> QED
  BY <1>4, <1>5, <1>6, <1>7

\* Whatever AgentService wraps around a provider that plans the legal steps in any
\* order, the plan asks for all that is needed to find the root causes.
LEMMA WrappedAsks ==
  ASSUME NEW chain, chain.cap \in Nat, NEW incident \in Incidents,
         NEW base \in Seq(PlainSteps), Distinct(base),
         ToSet(base) = ToSet(BaselinePlan(incident)),
         NEW plan, plan = WrappedPlan(chain, incident, base)
  PROVE  /\ Core(incident.service) \subseteq Questions(plan)
         /\ chain.compound => \A service \in Services : Core(service) \subseteq Questions(plan)
         /\ \E service \in Services :
              ByMetrics(plan, service) /\ (~chain.compound => service = incident.service)
         /\ chain.compound \/ base = BaselinePlan(incident) => DiskFirst(plan)
         /\ chain.compound \/ AtHome(plan, incident.service)
<1>1. incident.service \in Services /\ "worker" \in Services
  BY DEF Incidents, Services
<1>2. CASE chain.compound
  <2>1. plan = CompoundPlan
    BY <1>2 DEF WrappedPlan, When
  <2> QED
    BY <1>1, <1>2, <2>1, CompoundSound
<1>3. CASE ~chain.compound
  <2> DEFINE legal == BaselinePlan(incident)
  <2>1. /\ Core(incident.service) \subseteq Questions(legal)
        /\ ByMetrics(legal, incident.service) /\ DiskFirst(legal)
        /\ AtHome(legal, incident.service)
    BY BaselineSound
  <2>2. Keeps(base, plan)
    BY <1>3, WrappedKeeps
  <2>3. \A x \in ToSet(legal) : \E i \in DOMAIN base : base[i] = x
    BY DEF ToSet
  <2>4. \A x \in ToSet(base) : \E i \in DOMAIN legal : legal[i] = x
    BY DEF ToSet
  <2> HIDE DEF legal
  <2>5. \A i \in DOMAIN legal : \E j \in DOMAIN base : base[j] = legal[i]
    BY <2>3 DEF ToSet
  <2>6. \A i \in DOMAIN base : \E j \in DOMAIN legal : legal[j] = base[i]
    BY <2>4 DEF ToSet
  <2>7. Questions(legal) \subseteq Questions(base)
    BY <2>5 DEF Questions
  <2>8. ByMetrics(base, incident.service)
    BY <2>1, <2>6 DEF ByMetrics
  <2>9. Questions(base) \subseteq Questions(plan) /\ ByMetrics(plan, incident.service)
    BY <2>2, <2>8, KeepsAsking
  <2>10. base = legal => DiskFirst(plan)
    BY <2>1, <2>2, KeepsAsking
  <2>11. AtHome(base, incident.service)
    BY <2>1, <2>6 DEF AtHome
  <2>12. AtHome(plan, incident.service)
    BY <2>2, <2>11, KeepsAsking
  <2> QED
    BY <1>1, <1>3, <2>1, <2>7, <2>9, <2>10, <2>12 DEF legal
<1> QED
  BY <1>2, <1>3

\* Whatever AgentService wraps around a provider, the plan asks no question
\* twice, and it is as long for one order of the same steps as for another.
LEMMA WrappedSound ==
  ASSUME NEW chain, chain.cap \in Nat, NEW incident \in Incidents,
         NEW p \in Seq(PlainSteps), NEW q \in Seq(PlainSteps), Distinct(p), Distinct(q),
         ToSet(p) = ToSet(q)
  PROVE  /\ WrappedPlan(chain, incident, p) \in Seq(Steps)
         /\ Distinct(WrappedPlan(chain, incident, p))
         /\ Len(WrappedPlan(chain, incident, p)) = Len(WrappedPlan(chain, incident, q))
<1> DEFINE ordered(b) == When(chain.order # "none", ControlledOrder(b, chain.order, incident), b)
<1> DEFINE verified(b) == When(chain.verified, Verified(ordered(b), incident), ordered(b))
<1> DEFINE capped(b) == When(chain.cap > 0, Capped(verified(b), chain.cap), verified(b))
<1> DEFINE windowed(b) == When(chain.temporal, Windowed(capped(b)), capped(b))
<1> DEFINE Both == {p, q}
<1>1. \A b \in Both : WrappedPlan(chain, incident, b) = When(chain.compound, CompoundPlan, windowed(b))
  BY DEF WrappedPlan
<1>2. \A b \in Both : b \in Seq(PlainSteps) /\ Distinct(b) /\ ToSet(b) = ToSet(p)
  OBVIOUS
<1>3. incident.service \in Services
  BY DEF Incidents
<1> HIDE DEF Both
<1>4. ASSUME NEW b \in Both
      PROVE  /\ ControlledOrder(b, chain.order, incident) \in Seq(PlainSteps)
             /\ Distinct(ControlledOrder(b, chain.order, incident))
             /\ ToSet(ControlledOrder(b, chain.order, incident))
                  = ToSet(p) \cup {c \in ToSet(ContextSteps(incident.service)) :
                                     \A s \in ToSet(p) : ~SameInvocation(c, s)}
  <2> DEFINE common == CommonStepSet(b, incident.service)
  <2>1. /\ common \in Seq(PlainSteps) /\ Distinct(common)
        /\ ToSet(common) = ToSet(p) \cup {c \in ToSet(ContextSteps(incident.service)) :
                                            \A s \in ToSet(p) : ~SameInvocation(c, s)}
    BY <1>2, <1>3, CommonSound
  <2>2. ControlledOrder(b, chain.order, incident) = OrderedSteps(common, chain.order, incident)
    BY DEF ControlledOrder
  <2> HIDE DEF common
  <2>3. /\ OrderedSteps(common, chain.order, incident) \in Seq(PlainSteps)
        /\ Distinct(OrderedSteps(common, chain.order, incident))
        /\ ToSet(OrderedSteps(common, chain.order, incident)) = ToSet(common)
    BY <2>1, OrderedSound
  <2> QED
    BY <2>1, <2>2, <2>3
<1>5. \A b \in Both : /\ ordered(b) \in Seq(PlainSteps) /\ Distinct(ordered(b))
                      /\ ToSet(ordered(b)) = ToSet(ordered(p))
  <2>1. p \in Both
    BY DEF Both
  <2> QED
    BY <1>2, <1>4, <2>1 DEF When
<1> HIDE DEF ordered
<1>6. p \in Both /\ q \in Both
  BY DEF Both
<1>7. Len(ordered(p)) = Len(ordered(q))
  <2>1. ToSet(ordered(p)) = ToSet(ordered(q))
    BY <1>5, <1>6
  <2> QED
    BY <1>5, <1>6, <2>1, SameLength
<1>8. \A b \in Both : /\ verified(b) \in Seq(Steps) /\ Distinct(verified(b))
                      /\ Len(verified(b)) = When(chain.verified, Len(ordered(b)) + 1, Len(ordered(b)))
  <2>1. \A b \in Both : ordered(b) \in Seq(Steps)
    BY <1>5, PlainAreSteps
  <2>2. \A b \in Both : /\ Verified(ordered(b), incident) \in Seq(Steps)
                        /\ Distinct(Verified(ordered(b), incident))
                        /\ Len(Verified(ordered(b), incident)) = Len(ordered(b)) + 1
    BY <1>5, VerifiedSound
  <2> QED
    BY <1>5, <2>1, <2>2 DEF When
<1> HIDE DEF verified
<1>9. \A b \in Both : /\ capped(b) \in Seq(Steps) /\ Distinct(capped(b))
                      /\ Len(capped(b)) = Len(verified(b))
  <2>1. \A b \in Both : /\ Capped(verified(b), chain.cap) \in Seq(Steps)
                        /\ Distinct(Capped(verified(b), chain.cap))
                        /\ Len(Capped(verified(b), chain.cap)) = Len(verified(b))
    BY <1>8, CappedSound
  <2> QED
    BY <1>8, <2>1 DEF When
<1> HIDE DEF capped
<1>10. \A b \in Both : /\ windowed(b) \in Seq(Steps) /\ Distinct(windowed(b))
                       /\ Len(windowed(b)) = Len(capped(b))
  <2>1. \A b \in Both : /\ Windowed(capped(b)) \in Seq(Steps) /\ Distinct(Windowed(capped(b)))
                        /\ Len(Windowed(capped(b))) = Len(capped(b))
    BY <1>9, WindowedSound
  <2> QED
    BY <1>9, <2>1 DEF When
<1> HIDE DEF windowed
<1>11. Len(windowed(p)) = Len(windowed(q))
  BY <1>6, <1>7, <1>8, <1>9, <1>10
<1> QED
  BY <1>1, <1>6, <1>10, <1>11, CompoundSound DEF When

\* OllamaReasoningProvider accepts nothing but another order of the legal steps.
LEMMA OllamaSound ==
  ASSUME NEW incident \in Incidents, NEW answer \in Seq(Steps),
         NEW plan \in OllamaPlan(incident, answer)
  PROVE  /\ plan \in Seq(PlainSteps) /\ Distinct(plan)
         /\ ToSet(plan) = ToSet(BaselinePlan(incident))
<1> DEFINE legal == BaselinePlan(incident)
<1> DEFINE Ids1 == [i \in DOMAIN answer |-> answer[i].id]
<1> DEFINE Ids2 == [i \in DOMAIN legal |-> legal[i].id]
<1>1. legal \in Seq(PlainSteps) /\ Distinct(legal) /\ DistinctIds(legal)
  BY BaselineSound
<1>2. /\ plan = answer /\ Len(answer) = Len(legal) /\ ToSet(Ids1) = ToSet(Ids2)
      /\ \A i \in DOMAIN answer : \E j \in DOMAIN legal :
           answer[i].id = legal[j].id /\ SameInvocation(answer[i], legal[j])
  BY DEF OllamaPlan
<1>3. \A j \in DOMAIN legal : \E i \in DOMAIN answer : answer[i].id = legal[j].id
  <2>1. \A j \in DOMAIN legal : legal[j].id \in ToSet(Ids2)
    BY DEF ToSet
  <2>2. \A x \in ToSet(Ids1) : \E i \in DOMAIN answer : x = answer[i].id
    BY DEF ToSet
  <2> QED
    BY <1>2, <2>1, <2>2
<1> HIDE DEF legal, Ids1, Ids2
<1>4. /\ Len(legal) \in Nat /\ DOMAIN legal = 1 .. Len(legal) /\ DOMAIN answer = 1 .. Len(legal)
      /\ \A i \in DOMAIN legal : legal[i] \in PlainSteps
      /\ \A i \in DOMAIN answer : answer[i] \in Steps
  BY <1>1, <1>2
<1>5. \A i \in DOMAIN answer : \E j \in DOMAIN legal : answer[i] = legal[j]
  <2> SUFFICES ASSUME NEW i \in DOMAIN answer
               PROVE  \E j \in DOMAIN legal : answer[i] = legal[j]
    OBVIOUS
  <2>1. PICK j \in DOMAIN legal : answer[i].id = legal[j].id /\ SameInvocation(answer[i], legal[j])
    BY <1>2
  <2>2. answer[i] \in Steps /\ legal[j] \in Steps
    BY <1>4, PlainAreSteps
  <2>3. \A s, t \in Steps : s.id = t.id /\ SameInvocation(s, t) => s = t
    BY DEF Steps, SameInvocation
  <2> QED
    BY <2>1, <2>2, <2>3
<1> DEFINE f == [j \in DOMAIN legal |-> CHOOSE i \in DOMAIN answer : answer[i].id = legal[j].id]
<1>6. \A j \in DOMAIN legal : f[j] \in DOMAIN answer /\ answer[f[j]].id = legal[j].id
  BY <1>3
<1>7. f \in [DOMAIN legal -> DOMAIN answer]
  BY <1>6
<1> HIDE DEF f
<1>8. \A j, k \in DOMAIN legal : f[j] = f[k] => j = k
  BY <1>1, <1>6 DEF DistinctIds
<1>9. \A j \in DOMAIN legal : answer[f[j]] = legal[j]
  <2> SUFFICES ASSUME NEW j \in DOMAIN legal
               PROVE  answer[f[j]] = legal[j]
    OBVIOUS
  <2>1. PICK k \in DOMAIN legal : answer[f[j]] = legal[k]
    BY <1>5, <1>6
  <2>2. legal[k].id = legal[j].id
    BY <1>6, <2>1
  <2>3. k = j
    BY <1>1, <2>2 DEF DistinctIds
  <2> QED
    BY <2>1, <2>3
<1>10. f \in Injection(DOMAIN legal, DOMAIN answer)
  BY <1>7, <1>8 DEF Injection, IsInjective
<1>11. f \in Surjection(DOMAIN legal, DOMAIN answer)
  <2>1. \A n \in Nat : IsFiniteSet(1 .. n) /\ Cardinality(1 .. n) = n
    BY FS_Interval
  <2>2. IsFiniteSet(DOMAIN legal) /\ IsFiniteSet(DOMAIN answer)
        /\ Cardinality(DOMAIN legal) = Cardinality(DOMAIN answer)
    BY <1>4, <2>1
  <2> QED
    BY <1>10, <2>2, FS_Injection
<1>12. \A i \in DOMAIN answer : \E j \in DOMAIN legal : f[j] = i
  BY <1>11 DEF Surjection
<1>13. Distinct(answer)
  <2> SUFFICES ASSUME NEW h \in DOMAIN answer, NEW i \in DOMAIN answer, h # i
               PROVE  Question(answer[h]) # Question(answer[i])
    BY DEF Distinct
  <2>1. PICK j \in DOMAIN legal : f[j] = h
    BY <1>12
  <2>2. PICK k \in DOMAIN legal : f[k] = i
    BY <1>12
  <2>3. j # k /\ answer[h] = legal[j] /\ answer[i] = legal[k]
    BY <1>9, <2>1, <2>2
  <2> QED
    BY <1>1, <2>3 DEF Distinct
<1>14. answer \in Seq(PlainSteps)
  <2>1. \A i \in DOMAIN answer : answer[i] \in PlainSteps
    BY <1>4, <1>5
  <2>2. DOMAIN answer = 1 .. Len(answer) /\ Len(answer) \in Nat
    BY <1>2, <1>4
  <2>3. answer \in [1 .. Len(answer) -> PlainSteps]
    <3>1. answer \in [1 .. Len(answer) -> Steps]
      BY <2>2
    <3> QED
      BY <2>1, <2>2, <3>1
  <2> QED
    BY <2>2, <2>3, FunctionIsSequence
<1>15. \A x \in ToSet(answer) : x \in ToSet(legal)
  BY <1>5 DEF ToSet
<1>16. \A x \in ToSet(legal) : x \in ToSet(answer)
  BY <1>6, <1>9 DEF ToSet
<1> QED
  BY <1>2, <1>13, <1>14, <1>15, <1>16 DEF legal
-----------------------------------------------------------------------------
(* Sums over finite sets. *)

LEMMA OneLess ==
  ASSUME NEW s, IsFiniteSet(s), NEW n \in Nat, Cardinality(s) = n + 1, NEW x \in s
  PROVE  Cardinality(s \ {x}) = n
<1>1. Cardinality(s \ {x}) = Cardinality(s) - 1
  BY FS_RemoveElement
<1> QED
  BY <1>1

\* A finite set is reached from the empty one, element by element.
LEMMA ElementByElement ==
  ASSUME NEW S, IsFiniteSet(S), NEW T, {} \in T,
         \A s \in SUBSET S : s \in T => \A x \in S \ s : s \cup {x} \in T
  PROVE  S \in T
<1> DEFINE N == {n \in Nat : \A s \in SUBSET S : Cardinality(s) = n => s \in T}
<1>1. \A s \in SUBSET S : IsFiniteSet(s) /\ Cardinality(s) \in Nat
  BY FS_Subset, FS_CardinalityType
<1>2. 0 \in N
  <2>1. \A s \in SUBSET S : Cardinality(s) = 0 => s = {}
    BY <1>1, FS_EmptySet
  <2> QED
    BY <2>1
<1>3. ASSUME NEW n \in N
      PROVE  n + 1 \in N
  <2> SUFFICES ASSUME NEW s \in SUBSET S, Cardinality(s) = n + 1
               PROVE  s \in T
    OBVIOUS
  <2>1. n \in Nat /\ n + 1 # 0
    OBVIOUS
  <2>2. s # {}
    BY <2>1, FS_EmptySet
  <2>3. PICK x : x \in s
    BY <2>2
  <2>4. s \ {x} \in SUBSET S /\ Cardinality(s \ {x}) = n
    BY <1>1, <2>1, <2>3, OneLess
  <2>5. s \ {x} \in T
    BY <2>4
  <2>6. x \in S \ (s \ {x}) /\ (s \ {x}) \cup {x} = s
    BY <2>3
  <2> DEFINE less == s \ {x}
  <2>7. \A y \in S \ less : less \cup {y} \in T
    BY <2>4, <2>5
  <2> QED
    BY <2>6, <2>7
<1>4. N = Nat
  <2>1. N \in SUBSET Nat
    OBVIOUS
  <2> HIDE DEF N
  <2> QED
    BY <1>2, <1>3, <2>1, NumberByNumber
<1> QED
  BY <1>1, <1>4

\* The sums over the subsets of a set, taken one element after the other.
IsSum(sum, S, value, one) ==
  sum = [s \in SUBSET S |-> IF s = {} THEN 0 ELSE value[one[s]] + sum[s \ {one[s]}]]

\* The sums over the subsets of a finite set exist...
LEMMA SumExists ==
  ASSUME NEW S, IsFiniteSet(S), NEW value, NEW one,
         \A s \in SUBSET S : s # {} => one[s] \in s
  PROVE  \E sum : IsSum(sum, S, value, one)
<1> DEFINE Small(n) == {s \in SUBSET S : Cardinality(s) <= n}
<1> DEFINE After(f, s) == IF s = {} THEN 0 ELSE value[one[s]] + f[s \ {one[s]}]
<1> DEFINE T == {n \in Nat : \E f : f = [s \in Small(n) |-> After(f, s)]}
<1>1. \A s \in SUBSET S : IsFiniteSet(s) /\ Cardinality(s) \in Nat
  BY FS_Subset, FS_CardinalityType
<1>2. \A s \in SUBSET S : s # {} =>
        /\ s \ {one[s]} \in SUBSET S
        /\ Cardinality(s \ {one[s]}) = Cardinality(s) - 1
  BY <1>1, FS_RemoveElement
<1>3. 0 \in T
  <2> DEFINE f == [s \in Small(0) |-> 0]
  <2>1. \A s \in Small(0) : s = {}
    BY <1>1, FS_EmptySet
  <2>2. f = [s \in Small(0) |-> After(f, s)]
    <3> HIDE DEF Small
    <3> QED
      BY <2>1
  <2> HIDE DEF f, Small, After
  <2> QED
    BY <2>2
<1>4. ASSUME NEW n \in T
      PROVE  n + 1 \in T
  <2>1. PICK f : f = [s \in Small(n) |-> After(f, s)]
    OBVIOUS
  <2> DEFINE g == [s \in Small(n + 1) |-> After(f, s)]
  <2>2. \A s \in Small(n) : g[s] = f[s]
    <3>1. \A s \in Small(n) : s \in Small(n + 1)
      BY <1>1
    <3>2. \A s \in Small(n) : f[s] = After(f, s)
      <4> HIDE DEF After, Small
      <4> QED
        BY <2>1
    <3> HIDE DEF After, Small
    <3> QED
      BY <3>1, <3>2
  <2>3. \A s \in Small(n + 1) : s # {} => s \ {one[s]} \in Small(n)
    BY <1>1, <1>2
  <2>4. \A s \in Small(n + 1) : After(f, s) = After(g, s)
    <3> HIDE DEF Small, g
    <3> QED
      BY <2>2, <2>3
  <2>5. g = [s \in Small(n + 1) |-> After(g, s)]
    <3>1. g = [s \in Small(n + 1) |-> After(f, s)]
      OBVIOUS
    <3> HIDE DEF g, After, Small
    <3> QED
      BY <2>4, <3>1
  <2>6. n + 1 \in Nat
    OBVIOUS
  <2> HIDE DEF g, After, Small
  <2> QED
    BY <2>5, <2>6
<1>5. T = Nat
  <2>1. T \in SUBSET Nat
    OBVIOUS
  <2> HIDE DEF T
  <2> QED
    BY <1>3, <1>4, <2>1, NumberByNumber
<1>6. Small(Cardinality(S)) = SUBSET S
  BY <1>1, FS_Subset
<1>7. Cardinality(S) \in T
  BY <1>5, FS_CardinalityType
<1>8. \E f : f = [s \in SUBSET S |-> After(f, s)]
  <2> HIDE DEF Small, After
  <2> QED
    BY <1>6, <1>7
<1> QED
  BY <1>8 DEF IsSum

SumOf(value, S) == MapThenSumSet(LAMBDA x : value[x], S)

\* A sum is taken by one of these functions...
LEMMA SumTaken ==
  ASSUME NEW S, IsFiniteSet(S), NEW value
  PROVE  \E sum : /\ IsSum(sum, S, value, [s \in SUBSET S |-> CHOOSE x \in s : TRUE])
                  /\ SumOf(value, S) = sum[S]
<1> DEFINE one == [s \in SUBSET S |-> CHOOSE x \in s : TRUE]
<1> DEFINE Iterates(f) == f = [s \in SUBSET S |->
                               IF s = {} THEN 0
                               ELSE value[CHOOSE x \in s : TRUE]
                                    + f[s \ {CHOOSE x \in s : TRUE}]]
<1>1. \A s \in SUBSET S : s # {} => one[s] \in s
  OBVIOUS
<1>2. \E f : IsSum(f, S, value, one)
  <2> HIDE DEF one
  <2> QED
    BY <1>1, SumExists
<1>3. \A f : IsSum(f, S, value, one) <=> Iterates(f)
  <2> SUFFICES ASSUME NEW f
               PROVE  IsSum(f, S, value, one) <=> Iterates(f)
    OBVIOUS
  <2>1. \A s \in SUBSET S :
          one[s] = CHOOSE x \in s : TRUE
    OBVIOUS
  <2>2. \A s \in SUBSET S :
          (IF s = {} THEN 0 ELSE value[one[s]] + f[s \ {one[s]}])
            = (IF s = {} THEN 0 ELSE value[CHOOSE x \in s : TRUE]
                                     + f[s \ {CHOOSE x \in s : TRUE}])
    BY <2>1
  <2> HIDE DEF one
  <2> QED
    BY <2>2 DEF IsSum
<1> DEFINE sum == CHOOSE f : Iterates(f)
<1>4. SumOf(value, S) = sum[S]
  BY DEF SumOf, MapThenSumSet, MapThenFoldSet
<1>5. IsSum(sum, S, value, one)
  <2> HIDE DEF Iterates, one
  <2> QED
    BY <1>2, <1>3
<1> QED
  BY <1>4, <1>5

\* ... and whatever is taken by such a function is this sum.
LEMMA SumFound ==
  ASSUME NEW S, IsFiniteSet(S), NEW value, NEW sum,
         IsSum(sum, S, value, [s \in SUBSET S |-> CHOOSE x \in s : TRUE])
  PROVE  sum[S] = SumOf(value, S)
<1> DEFINE one == [s \in SUBSET S |-> CHOOSE x \in s : TRUE]
<1>1. PICK other : IsSum(other, S, value, one) /\ SumOf(value, S) = other[S]
  BY SumTaken
<1>2. /\ IsSum(sum, S, value, one)
      /\ \A s \in SUBSET S : s # {} => one[s] \in s
  OBVIOUS
<1> HIDE DEF one
<1> DEFINE T == {n \in Nat : \A s \in SUBSET S : Cardinality(s) = n => sum[s] = other[s]}
<1>3. \A s \in SUBSET S : IsFiniteSet(s) /\ Cardinality(s) \in Nat
  BY FS_Subset, FS_CardinalityType
<1>4. 0 \in T
  <2>1. \A s \in SUBSET S : Cardinality(s) = 0 => s = {}
    BY <1>3, FS_EmptySet
  <2>2. sum[{}] = 0 /\ other[{}] = 0
    BY <1>1, <1>2 DEF IsSum
  <2> QED
    BY <2>1, <2>2
<1>5. ASSUME NEW n \in T
      PROVE  n + 1 \in T
  <2> SUFFICES ASSUME NEW s \in SUBSET S, Cardinality(s) = n + 1
               PROVE  sum[s] = other[s]
    OBVIOUS
  <2> DEFINE rest == s \ {one[s]}
  <2>1. n \in Nat /\ n + 1 # 0
    OBVIOUS
  <2>2. s # {}
    BY <2>1, FS_EmptySet
  <2>3. rest \in SUBSET S /\ Cardinality(rest) = n
    BY <1>2, <1>3, <2>1, <2>2, OneLess
  <2>4. sum[rest] = other[rest]
    BY <2>3
  <2>5. sum[s] = value[one[s]] + sum[rest] /\ other[s] = value[one[s]] + other[rest]
    BY <1>1, <1>2, <2>2 DEF IsSum
  <2> HIDE DEF rest
  <2> QED
    BY <2>4, <2>5
<1>6. T = Nat
  <2>1. T \in SUBSET Nat
    OBVIOUS
  <2> HIDE DEF T
  <2> QED
    BY <1>4, <1>5, <2>1, NumberByNumber
<1> QED
  BY <1>1, <1>3, <1>6

\* ... and so are the sums over its subsets.
LEMMA SumsTaken ==
  ASSUME NEW S, IsFiniteSet(S), NEW value, \A x \in S : value[x] \in Int
  PROVE  \E sum : /\ IsSum(sum, S, value, [s \in SUBSET S |-> CHOOSE x \in s : TRUE])
                  /\ \A A \in SUBSET S : SumOf(value, A) = sum[A] /\ sum[A] \in Int
<1> DEFINE one == [s \in SUBSET S |-> CHOOSE x \in s : TRUE]
<1>1. PICK sum : IsSum(sum, S, value, one)
  BY SumTaken
<1>2. \A s \in SUBSET S : /\ IsFiniteSet(s) /\ Cardinality(s) \in Nat
                          /\ one[s] = CHOOSE x \in s : TRUE
                          /\ s # {} => one[s] \in s
                          /\ sum[s] = IF s = {} THEN 0 ELSE value[one[s]] + sum[s \ {one[s]}]
  BY <1>1, FS_Subset, FS_CardinalityType DEF IsSum
<1> HIDE DEF one
<1>3. ASSUME NEW A \in SUBSET S
      PROVE  SumOf(value, A) = sum[A] /\ sum[A] \in Int
  <2> DEFINE own == [s \in SUBSET A |-> CHOOSE x \in s : TRUE]
  <2>1. PICK mine : IsSum(mine, A, value, own) /\ SumOf(value, A) = mine[A]
    BY <1>2, SumTaken
  <2>2. \A s \in SUBSET A :
          /\ s \in SUBSET S /\ own[s] = one[s]
          /\ mine[s] = IF s = {} THEN 0 ELSE value[own[s]] + mine[s \ {own[s]}]
    BY <1>2, <2>1 DEF IsSum
  <2> HIDE DEF own
  <2> DEFINE T == {n \in Nat : \A s \in SUBSET A : Cardinality(s) = n =>
                                  mine[s] = sum[s] /\ sum[s] \in Int}
  <2>3. 0 \in T
    <3>1. \A s \in SUBSET A : Cardinality(s) = 0 => s = {}
      BY <1>2, <2>2, FS_EmptySet
    <3>2. \A s \in SUBSET A : s = {} => mine[s] = 0 /\ sum[s] = 0
      BY <1>2, <2>2
    <3>3. \A s \in SUBSET A : Cardinality(s) = 0 => mine[s] = sum[s] /\ sum[s] \in Int
      BY <3>1, <3>2
    <3> QED
      BY <3>3
  <2>4. ASSUME NEW n \in T
        PROVE  n + 1 \in T
    <3> SUFFICES ASSUME NEW s \in SUBSET A, Cardinality(s) = n + 1
                 PROVE  mine[s] = sum[s] /\ sum[s] \in Int
      OBVIOUS
    <3>1. n \in Nat /\ n + 1 # 0
      OBVIOUS
    <3>2. s # {}
      BY <3>1, FS_EmptySet
    <3> DEFINE x == one[s]
    <3>3. x \in s /\ own[s] = x /\ value[x] \in Int
      BY <1>2, <2>2, <3>2
    <3> DEFINE rest == s \ {x}
    <3>4. rest \in SUBSET A /\ Cardinality(rest) = n
      <4>1. IsFiniteSet(s)
        BY <1>2
      <4> QED
        BY <3>1, <3>3, <4>1, OneLess
    <3>5. mine[rest] = sum[rest] /\ sum[rest] \in Int
      BY <3>4
    <3>6. mine[s] = value[x] + mine[rest] /\ sum[s] = value[x] + sum[rest]
      BY <1>2, <2>2, <3>2, <3>3
    <3> HIDE DEF x, rest, T
    <3> QED
      BY <3>3, <3>5, <3>6
  <2>5. T = Nat
    <3>1. T \in SUBSET Nat
      OBVIOUS
    <3> HIDE DEF T
    <3> QED
      BY <2>3, <2>4, <3>1, NumberByNumber
  <2> QED
    BY <1>2, <2>1, <2>5
<1> QED
  BY <1>1, <1>3 DEF one

LEMMA SumOfNone ==
  ASSUME NEW value
  PROVE  SumOf(value, {}) = 0
<1>1. IsFiniteSet({})
  BY FS_EmptySet
<1>2. PICK sum : /\ IsSum(sum, {}, value, [s \in SUBSET {} |-> CHOOSE x \in s : TRUE])
                 /\ SumOf(value, {}) = sum[{}]
  BY <1>1, SumTaken
<1> QED
  BY <1>2 DEF IsSum

\* A sum takes its elements in any order.
LEMMA SumTakes ==
  ASSUME NEW S, IsFiniteSet(S), NEW value, \A x \in S : value[x] \in Int
  PROVE  /\ SumOf(value, S) \in Int
         /\ \A x \in S : /\ SumOf(value, S \ {x}) \in Int
                         /\ SumOf(value, S) = value[x] + SumOf(value, S \ {x})
<1> DEFINE one == [s \in SUBSET S |-> CHOOSE x \in s : TRUE]
<1>1. PICK sum : /\ IsSum(sum, S, value, one)
                 /\ \A A \in SUBSET S : SumOf(value, A) = sum[A] /\ sum[A] \in Int
  BY SumsTaken
<1>2. \A s \in SUBSET S : s # {} => /\ one[s] \in s
                                    /\ sum[s] = value[one[s]] + sum[s \ {one[s]}]
  BY <1>1 DEF IsSum
<1> HIDE DEF one
<1>3. \A s \in SUBSET S : IsFiniteSet(s) /\ Cardinality(s) \in Nat
  BY FS_Subset, FS_CardinalityType
<1> DEFINE T == {n \in Nat : \A s \in SUBSET S : Cardinality(s) = n =>
                                \A x \in s : sum[s] = value[x] + sum[s \ {x}]}
<1>4. 0 \in T
  <2>1. \A s \in SUBSET S : Cardinality(s) = 0 => s = {}
    BY <1>3, FS_EmptySet
  <2> QED
    BY <2>1
<1>5. ASSUME NEW n \in T
      PROVE  n + 1 \in T
  <2> SUFFICES ASSUME NEW s \in SUBSET S, Cardinality(s) = n + 1, NEW x \in s
               PROVE  sum[s] = value[x] + sum[s \ {x}]
    OBVIOUS
  <2> DEFINE y == one[s]
  <2>1. y \in s /\ sum[s] = value[y] + sum[s \ {y}]
    BY <1>2
  <2>2. CASE x = y
    BY <2>1, <2>2
  <2>3. CASE x # y
    <3>1. Cardinality(s \ {x}) = n /\ Cardinality(s \ {y}) = n
      <4>1. IsFiniteSet(s) /\ n \in Nat
        BY <1>3
      <4> QED
        BY <2>1, <4>1, OneLess
    <3> DEFINE rest == (s \ {x}) \ {y}
    <3>6. \A t \in SUBSET S : Cardinality(t) = n =>
            \A z \in t : sum[t] = value[z] + sum[t \ {z}]
      OBVIOUS
    <3> HIDE DEF T, y
    <3>2. /\ y \in s \ {x} /\ x \in s \ {y} /\ (s \ {y}) \ {x} = rest
          /\ s \ {x} \in SUBSET S /\ s \ {y} \in SUBSET S /\ rest \in SUBSET S
      BY <2>1, <2>3
    <3>3. sum[s \ {x}] = value[y] + sum[rest]
      BY <3>1, <3>2, <3>6
    <3>4. sum[s \ {y}] = value[x] + sum[rest]
      BY <3>1, <3>2, <3>6
    <3>5. value[x] \in Int /\ value[y] \in Int /\ sum[rest] \in Int
      BY <1>1, <2>1, <3>2
    <3> HIDE DEF rest
    <3> QED
      BY <2>1, <3>3, <3>4, <3>5
  <2> QED
    BY <2>2, <2>3
<1>6. T = Nat
  <2>1. T \in SUBSET Nat
    OBVIOUS
  <2> HIDE DEF T
  <2> QED
    BY <1>4, <1>5, <2>1, NumberByNumber
<1>7. \A x \in S : sum[S] = value[x] + sum[S \ {x}]
  BY <1>3, <1>6
<1>8. /\ SumOf(value, S) = sum[S] /\ sum[S] \in Int
      /\ \A x \in S : SumOf(value, S \ {x}) = sum[S \ {x}] /\ sum[S \ {x}] \in Int
  BY <1>1
<1> QED
  BY <1>7, <1>8

\* One more element.
LEMMA SumGrows ==
  ASSUME NEW S, IsFiniteSet(S), NEW x, x \notin S, NEW value,
         \A y \in S \cup {x} : value[y] \in Int
  PROVE  /\ SumOf(value, S) \in Int
         /\ SumOf(value, S \cup {x}) = value[x] + SumOf(value, S)
<1> DEFINE more == S \cup {x}
<1>1. IsFiniteSet(more) /\ x \in more /\ more \ {x} = S
  BY FS_AddElement
<1>2. \A y \in more : value[y] \in Int
  OBVIOUS
<1> HIDE DEF more
<1>3. /\ SumOf(value, more \ {x}) \in Int
      /\ SumOf(value, more) = value[x] + SumOf(value, more \ {x})
  BY <1>1, <1>2, SumTakes
<1> QED
  BY <1>1, <1>3 DEF more

\* Equal terms, equal sums.
LEMMA SumEqual ==
  ASSUME NEW S, IsFiniteSet(S), NEW v, NEW w, \A x \in S : v[x] \in Int /\ w[x] = v[x]
  PROVE  SumOf(w, S) = SumOf(v, S)
<1> DEFINE T == {s \in SUBSET S : SumOf(w, s) = SumOf(v, s)}
<1>1. {} \in T
  BY SumOfNone
<1>2. ASSUME NEW s \in SUBSET S, s \in T, NEW x \in S \ s
      PROVE  s \cup {x} \in T
  <2> DEFINE more == s \cup {x}
  <2>1. IsFiniteSet(s) /\ x \notin s /\ more \in SUBSET S
    BY FS_Subset
  <2>2. \A y \in more : v[y] \in Int /\ w[y] \in Int
    BY <2>1
  <2>3. SumOf(w, more) = w[x] + SumOf(w, s) /\ SumOf(v, more) = v[x] + SumOf(v, s)
    BY <2>1, <2>2, SumGrows
  <2>4. w[x] = v[x] /\ SumOf(w, s) = SumOf(v, s)
    BY <1>2
  <2> HIDE DEF more
  <2>5. SumOf(w, more) = SumOf(v, more)
    BY <2>3, <2>4
  <2> QED
    BY <2>1, <2>5 DEF more
<1>3. \A s \in SUBSET S : s \in T => \A x \in S \ s : s \cup {x} \in T
  <2> HIDE DEF T
  <2> QED
    BY <1>2
<1>4. S \in T
  <2> HIDE DEF T
  <2> QED
    BY <1>1, <1>3, ElementByElement
<1> QED
  BY <1>4

\* The sum of the differences is the difference of the sums.
LEMMA SumDifference ==
  ASSUME NEW S, IsFiniteSet(S), NEW d, NEW v, NEW w,
         \A x \in S : v[x] \in Int /\ w[x] \in Int /\ d[x] = v[x] - w[x]
  PROVE  SumOf(d, S) = SumOf(v, S) - SumOf(w, S)
<1> DEFINE T == {s \in SUBSET S : SumOf(d, s) = SumOf(v, s) - SumOf(w, s)}
<1>1. {} \in T
  BY SumOfNone
<1>2. ASSUME NEW s \in SUBSET S, s \in T, NEW x \in S \ s
      PROVE  s \cup {x} \in T
  <2> DEFINE more == s \cup {x}
  <2>1. IsFiniteSet(s) /\ x \notin s /\ more \in SUBSET S
    BY FS_Subset
  <2>2. \A y \in more : v[y] \in Int /\ w[y] \in Int /\ d[y] \in Int
    BY <2>1
  <2>3. /\ SumOf(d, more) = d[x] + SumOf(d, s)
        /\ SumOf(v, more) = v[x] + SumOf(v, s) /\ SumOf(w, more) = w[x] + SumOf(w, s)
        /\ SumOf(v, s) \in Int /\ SumOf(w, s) \in Int
    BY <2>1, <2>2, SumGrows
  <2>4. /\ v[x] \in Int /\ w[x] \in Int /\ d[x] = v[x] - w[x]
        /\ SumOf(d, s) = SumOf(v, s) - SumOf(w, s)
    BY <1>2
  <2> HIDE DEF more
  <2>5. SumOf(d, more) = SumOf(v, more) - SumOf(w, more)
    BY <2>3, <2>4
  <2> QED
    BY <2>1, <2>5 DEF more
<1>3. \A s \in SUBSET S : s \in T => \A x \in S \ s : s \cup {x} \in T
  <2> HIDE DEF T
  <2> QED
    BY <1>2
<1>4. S \in T
  <2> HIDE DEF T
  <2> QED
    BY <1>1, <1>3, ElementByElement
<1> QED
  BY <1>4

\* As many times the same.
LEMMA SumOfSame ==
  ASSUME NEW S, IsFiniteSet(S), NEW c \in {0, 1}, NEW value, \A x \in S : value[x] = c
  PROVE  SumOf(value, S) = IF c = 0 THEN 0 ELSE Cardinality(S)
<1> DEFINE Count(s) == IF c = 0 THEN 0 ELSE Cardinality(s)
<1> DEFINE T == {s \in SUBSET S : SumOf(value, s) = Count(s)}
<1>1. {} \in T
  BY SumOfNone, FS_EmptySet
<1>2. ASSUME NEW s \in SUBSET S, s \in T, NEW x \in S \ s
      PROVE  s \cup {x} \in T
  <2> DEFINE more == s \cup {x}
  <2>1. IsFiniteSet(s) /\ x \notin s /\ more \in SUBSET S
    BY FS_Subset
  <2>2. value[x] = c /\ \A y \in more : value[y] \in Int
    BY <2>1
  <2>3. SumOf(value, more) = value[x] + SumOf(value, s)
    BY <2>1, <2>2, SumGrows
  <2>4. Cardinality(more) = Cardinality(s) + 1 /\ Cardinality(s) \in Nat
    BY <2>1, FS_AddElement, FS_CardinalityType
  <2>5. SumOf(value, s) = Count(s)
    BY <1>2
  <2> HIDE DEF more
  <2>6. SumOf(value, more) = Count(more)
    BY <2>2, <2>3, <2>4, <2>5
  <2> QED
    BY <2>1, <2>6 DEF more
<1>3. \A s \in SUBSET S : s \in T => \A x \in S \ s : s \cup {x} \in T
  <2> HIDE DEF T
  <2> QED
    BY <1>2
<1>4. S \in T
  <2> HIDE DEF T
  <2> QED
    BY <1>1, <1>3, ElementByElement
<1> QED
  BY <1>4

\* A sum over other names for the same terms.
LEMMA SumRenamed ==
  ASSUME NEW I, IsFiniteSet(I), NEW S, NEW h \in Bijection(I, S), NEW value,
         NEW other, \A i \in I : other[i] = value[h[i]] /\ value[h[i]] \in Int
  PROVE  SumOf(value, S) = SumOf(other, I)
<1> DEFINE Image(J) == {h[i] : i \in J}
<1> DEFINE T == {J \in SUBSET I : /\ IsFiniteSet(Image(J))
                                  /\ SumOf(value, Image(J)) = SumOf(other, J)}
<1>1. /\ \A i \in I : h[i] \in S
      /\ \A i, j \in I : h[i] = h[j] => i = j
      /\ \A x \in S : \E i \in I : x = h[i]
  BY DEF Bijection, Injection, Surjection, IsInjective
<1>2. {} \in T
  <2>1. Image({}) = {}
    OBVIOUS
  <2> QED
    BY <2>1, SumOfNone, FS_EmptySet
<1>3. ASSUME NEW J \in SUBSET I, J \in T, NEW i \in I \ J
      PROVE  J \cup {i} \in T
  <2> DEFINE more == J \cup {i}
  <2> DEFINE old == Image(J)
  <2>1. IsFiniteSet(J) /\ i \notin J /\ more \in SUBSET I
    BY FS_Subset
  <2>2. IsFiniteSet(old) /\ SumOf(value, old) = SumOf(other, J)
    BY <1>3
  <2>3. Image(more) = old \cup {h[i]}
    BY <2>1
  <2>4. h[i] \notin old
    BY <1>1, <2>1
  <2>5. /\ \A y \in old \cup {h[i]} : value[y] \in Int
        /\ \A j \in more : other[j] \in Int
    BY <2>1
  <2> HIDE DEF old, more
  <2>6. SumOf(value, old \cup {h[i]}) = value[h[i]] + SumOf(value, old)
    BY <2>2, <2>4, <2>5, SumGrows
  <2>7. SumOf(other, more) = other[i] + SumOf(other, J)
    BY <2>1, <2>5, SumGrows DEF more
  <2>8. IsFiniteSet(old \cup {h[i]})
    BY <2>2, FS_AddElement
  <2>9. SumOf(value, Image(more)) = SumOf(other, more) /\ IsFiniteSet(Image(more))
    BY <2>2, <2>3, <2>6, <2>7, <2>8
  <2> QED
    BY <2>1, <2>9 DEF more
<1>4. \A J \in SUBSET I : J \in T => \A i \in I \ J : J \cup {i} \in T
  <2> HIDE DEF T
  <2> QED
    BY <1>3
<1>5. I \in T
  <2> HIDE DEF T
  <2> QED
    BY <1>2, <1>4, ElementByElement
<1>6. Image(I) = S
  BY <1>1
<1> QED
  BY <1>5, <1>6

\* Group by group, each element in the group of its key, a sum is the same.
LEMMA SumGrouped ==
  ASSUME NEW S, IsFiniteSet(S), NEW D, IsFiniteSet(D), NEW key, \A x \in S : key[x] \in D,
         NEW value, \A x \in S : value[x] \in Int
  PROVE  SumOf([d \in D |-> SumOf(value, {x \in S : key[x] = d})], D) = SumOf(value, S)
<1> DEFINE Group(A, d) == {x \in A : key[x] = d}
<1> DEFINE Parts(A) == [d \in D |-> SumOf(value, Group(A, d))]
<1> DEFINE T == {A \in SUBSET S : SumOf(Parts(A), D) = SumOf(value, A)}
<1>1. {} \in T
  <2> DEFINE parts == Parts({})
  <2>1. \A d \in D : parts[d] = 0
    <3> SUFFICES ASSUME NEW d \in D
                 PROVE  SumOf(value, Group({}, d)) = 0
      OBVIOUS
    <3>1. Group({}, d) = {}
      OBVIOUS
    <3> HIDE DEF Group
    <3> QED
      BY <3>1, SumOfNone
  <2> HIDE DEF parts
  <2>2. SumOf(parts, D) = 0
    BY <2>1, SumOfSame
  <2> QED
    BY <2>2, SumOfNone DEF parts
<1>2. ASSUME NEW A \in SUBSET S, A \in T, NEW x \in S \ A
      PROVE  A \cup {x} \in T
  <2> DEFINE more == A \cup {x}
  <2> DEFINE mine == key[x]
  <2> DEFINE old == Parts(A)
  <2> DEFINE new == Parts(more)
  <2>1. /\ IsFiniteSet(A) /\ x \notin A /\ more \in SUBSET S /\ IsFiniteSet(more)
        /\ mine \in D /\ value[x] \in Int
    BY FS_Subset
  <2>2. \A d \in D : IsFiniteSet(Group(A, d)) /\ IsFiniteSet(Group(more, d))
    <3>1. \A d \in D : Group(A, d) \in SUBSET S /\ Group(more, d) \in SUBSET S
      BY <2>1
    <3> HIDE DEF Group, more
    <3> QED
      BY <3>1, FS_Subset
  <2>3. \A d \in D : old[d] \in Int /\ new[d] \in Int
    <3> SUFFICES ASSUME NEW d \in D
                 PROVE  SumOf(value, Group(A, d)) \in Int /\ SumOf(value, Group(more, d)) \in Int
      OBVIOUS
    <3>1. \A y \in Group(A, d) : value[y] \in Int
      OBVIOUS
    <3>2. \A y \in Group(more, d) : value[y] \in Int
      BY <2>1
    <3> HIDE DEF Group, more
    <3> QED
      BY <2>2, <3>1, <3>2, SumTakes
  <2>4. \A d \in D \ {mine} : new[d] = old[d]
    <3> SUFFICES ASSUME NEW d \in D \ {mine}
                 PROVE  Group(more, d) = Group(A, d)
      OBVIOUS
    <3> QED
      OBVIOUS
  <2>5. new[mine] = value[x] + old[mine]
    <3>1. /\ Group(more, mine) = Group(A, mine) \cup {x} /\ x \notin Group(A, mine)
          /\ \A y \in Group(A, mine) \cup {x} : value[y] \in Int
      BY <2>1
    <3>2. new[mine] = SumOf(value, Group(more, mine)) /\ old[mine] = SumOf(value, Group(A, mine))
      BY <2>1
    <3> HIDE DEF Group, more, old, new
    <3>3. SumOf(value, Group(A, mine) \cup {x}) = value[x] + SumOf(value, Group(A, mine))
      BY <2>1, <2>2, <3>1, SumGrows
    <3> QED
      BY <3>1, <3>2, <3>3
  <2> HIDE DEF old, new, mine
  <2>6. /\ SumOf(new, D) = new[mine] + SumOf(new, D \ {mine})
        /\ SumOf(old, D) = old[mine] + SumOf(old, D \ {mine})
        /\ SumOf(old, D \ {mine}) \in Int
    BY <2>1, <2>3, SumTakes
  <2>7. SumOf(new, D \ {mine}) = SumOf(old, D \ {mine})
    <3>1. IsFiniteSet(D \ {mine})
      BY FS_Subset
    <3> QED
      BY <2>3, <2>4, <3>1, SumEqual
  <2>8. SumOf(value, more) = value[x] + SumOf(value, A) /\ SumOf(value, A) \in Int
    <3>1. \A y \in A \cup {x} : value[y] \in Int
      OBVIOUS
    <3> QED
      BY <2>1, <3>1, SumGrows
  <2>9. SumOf(old, D) = SumOf(value, A)
    BY <1>2 DEF old
  <2>10. old[mine] \in Int
    BY <2>1, <2>3
  <2>11. SumOf(new, D) = SumOf(value, more)
    <3> HIDE DEF more
    <3> QED
      BY <2>1, <2>5, <2>6, <2>7, <2>8, <2>9, <2>10
  <2> QED
    BY <2>1, <2>11 DEF new
<1>3. \A A \in SUBSET S : A \in T => \A x \in S \ A : A \cup {x} \in T
  <2> HIDE DEF T
  <2> QED
    BY <1>2
<1>4. S \in T
  <2> HIDE DEF T
  <2> QED
    BY <1>1, <1>3, ElementByElement
<1> QED
  BY <1>4

=============================================================================

------------------------ MODULE ParetoCampaign_proofs ------------------------
(***************************************************************************)
(* Proofs about the optimization of phase 9.  First what the Pareto report *)
(* of researchlab/pareto.py shows, for every set of configurations: the    *)
(* frontier beats everything that is not on it, it climbs, and the best    *)
(* configuration, which is looked for on the frontier alone, is the best   *)
(* of all.  Then the campaign, for every grid, cohort, catalog and         *)
(* backend: whatever dies, is repeated or deployed over, the trials ran    *)
(* under their treatments, what is compared was measured on one benchmark, *)
(* and the report keeps what PublishedStudy promises and has such points.  *)
(***************************************************************************)
EXTENDS ParetoCampaign, Plans_proofs, TLAPS

-----------------------------------------------------------------------------
(* The points of a report. *)

\* A configuration gives one point (it is the key the observations are grouped by),
\* and accuracies are bounded.
PointsUpTo(P, bound) ==
  /\ P \subseteq Point
  /\ \A p, q \in P : p.id = q.id => p = q
  /\ \A p \in P : p.accuracy <= bound

\* To beat what beats p is to beat p.
LEMMA DominationIsTransitive ==
  ASSUME NEW bound, NEW P, PointsUpTo(P, bound),
         NEW p \in P, NEW q \in P, NEW r \in P, Dominates(q, p), Dominates(r, q)
  PROVE  Dominates(r, p)
  BY DEF PointsUpTo, Point, Dominates

\* Whatever is beaten is beaten by a point that nothing beats: the cheapest and most
\* accurate of those that beat it (_is_dominated, pareto.py 100-114).
THEOREM FrontierCovers ==
  ASSUME NEW bound \in Nat, NEW P, PointsUpTo(P, bound)
  PROVE  Covered(P)
<1> SUFFICES ASSUME NEW p \in P \ Frontier(P)
             PROVE  \E q \in Frontier(P) : Dominates(q, p)
  BY DEF Covered
<1> DEFINE Above == {q \in P : Dominates(q, p)}
<1>1. Above # {}
  BY DEF Frontier, Dominated
<1>2. PICK cost \in {q.cost : q \in Above} : \A c \in {q.cost : q \in Above} : cost <= c
  <2>1. {q.cost : q \in Above} \in SUBSET Nat /\ {q.cost : q \in Above} # {}
    BY <1>1 DEF PointsUpTo, Point
  <2> QED
    BY <2>1, LeastNumber
<1> DEFINE Cheapest == {q \in Above : q.cost = cost}
<1> DEFINE Missing == {bound - q.accuracy : q \in Cheapest}
<1>3. PICK gap \in Missing : \A g \in Missing : gap <= g
  <2>1. Missing \in SUBSET Nat
    BY DEF PointsUpTo, Point
  <2>2. Missing # {}
    BY <1>2
  <2> QED
    BY <2>1, <2>2, LeastNumber
<1>4. PICK q \in Cheapest : gap = bound - q.accuracy
  BY <1>3
<1>5. q \in Frontier(P)
  <2> SUFFICES ASSUME NEW r \in P, Dominates(r, q)
               PROVE  FALSE
    BY DEF Frontier, Dominated
  <2>1. r \in Above
    BY DominationIsTransitive
  <2>2. cost <= r.cost
    BY <2>1, <1>2
  <2>3. r.cost = cost /\ r.accuracy > q.accuracy
    BY <2>2 DEF Dominates, PointsUpTo, Point
  <2>4. gap <= bound - r.accuracy
    BY <2>1, <2>3, <1>3
  <2> QED
    BY <2>3, <2>4, <1>4 DEF PointsUpTo, Point
<1> QED
  BY <1>5

\* Along the frontier, what costs more is more accurate, and what costs the same is as
\* accurate, since otherwise one point would beat another.
THEOREM FrontierClimbs ==
  ASSUME NEW bound, NEW P, PointsUpTo(P, bound)
  PROVE  Climbing(P)
  BY DEF PointsUpTo, Point, Climbing, Frontier, Dominated, Dominates

LEMMA ProductGrows ==
  ASSUME NEW a \in Nat, NEW b \in Nat, NEW c \in Nat, a <= b
  PROVE  c * a <= c * b /\ a * c <= b * c
<1>1. PICK d \in Nat : b = a + d
  BY b - a \in Nat
<1>2. c * b = c * a + c * d /\ c * d \in Nat /\ c * a \in Nat
  BY <1>1
<1>3. b * c = c * b /\ a * c = c * a
  OBVIOUS
<1> QED
  BY <1>2, <1>3

\* p buys as much as r, which is no dearer and no less accurate than q.
LEMMA BuysAsMuchAsTheBeaten ==
  ASSUME NEW p \in Point, NEW q \in Point, NEW r \in Point,
         BuysAsMuch(p, r), Dominates(r, q)
  PROVE  BuysAsMuch(p, q)
<1>1. p.accuracy * r.cost <= p.accuracy * q.cost
  BY ProductGrows DEF Dominates, Point
<1>2. q.accuracy * p.cost <= r.accuracy * p.cost
  BY ProductGrows DEF Dominates, Point
<1>3. p.accuracy * r.cost >= r.accuracy * p.cost
  BY DEF BuysAsMuch
<1>4. /\ p.accuracy * r.cost \in Nat /\ p.accuracy * q.cost \in Nat
      /\ q.accuracy * p.cost \in Nat /\ r.accuracy * p.cost \in Nat
  BY DEF Point
<1> QED
  BY <1>1, <1>2, <1>3, <1>4 DEF BuysAsMuch

\* The best configuration is best of all, although only the frontier is searched: none
\* buys more accuracy for its cost, or more for nothing (pareto.py 205-231).
THEOREM BestIsUnbeaten ==
  ASSUME NEW bound \in Nat, NEW P, PointsUpTo(P, bound), NEW p \in Best(P)
  PROVE  Unbeaten(p, P)
<1> DEFINE front == Frontier(P)
<1> DEFINE free == Free(front)
<1>1. front \subseteq P /\ P \subseteq Point
  BY DEF Frontier, PointsUpTo
<1> SUFFICES ASSUME NEW q \in P
             PROVE  BuysAsMuch(p, q) /\ (q.cost = 0 => p.cost = 0 /\ p.accuracy >= q.accuracy)
  BY DEF Unbeaten
<1>2. CASE free # {}
  <2>1. p \in front /\ p.cost = 0
    BY <1>2 DEF Best, Free
  <2>2. ~Dominates(q, p)
    BY <2>1 DEF Frontier, Dominated
  <2>3. q.cost = 0 => p.accuracy >= q.accuracy
    BY <2>1, <2>2, <1>1 DEF Dominates, Point, PointsUpTo
  <2>4. q.accuracy * p.cost = 0 /\ p.accuracy * q.cost \in Nat
    BY <2>1, <1>1 DEF Point
  <2> QED
    BY <2>1, <2>3, <2>4 DEF BuysAsMuch
<1>3. CASE free = {}
  <2>1. p \in front /\ \A r \in front \ {p} : BeforeIfPaid(p, r)
    BY <1>3 DEF Best
  <2>2. \A r \in front : BuysAsMuch(p, r)
    BY <2>1, <1>1 DEF BeforeIfPaid, BuysAsMuch, Point
  <2>3. CASE q \in front
    BY <2>2, <2>3, <1>3 DEF Free
  <2>4. CASE q \notin front
    <3>1. PICK r \in front : Dominates(r, q)
      BY <2>4, FrontierCovers DEF Covered
    <3>2. BuysAsMuch(p, q)
      BY <3>1, <2>1, <2>2, <1>1, BuysAsMuchAsTheBeaten
    <3>3. q.cost # 0
      BY <3>1, <1>1, <1>3 DEF Dominates, Free, Point
    <3> QED
      BY <3>2, <3>3
  <2> QED
    BY <2>3, <2>4
<1> QED
  BY <1>2, <1>3

\* No two configurations are both called the best, however they tie.
THEOREM BestIsOne ==
  ASSUME NEW bound, NEW P, PointsUpTo(P, bound), NEW p \in Best(P), NEW q \in Best(P)
  PROVE  p = q
<1> SUFFICES ASSUME p # q
             PROVE  FALSE
  OBVIOUS
<1>1. p \in Frontier(P) /\ q \in Frontier(P)
  BY DEF Best, Free
<1>2. p \in Point /\ q \in Point /\ p.id # q.id
  BY <1>1 DEF Frontier, PointsUpTo
<1>3. CASE Free(Frontier(P)) # {}
  <2>1. BeforeIfFree(p, q) /\ BeforeIfFree(q, p)
    BY <1>3 DEF Best
  <2> QED
    BY <2>1, <1>2 DEF BeforeIfFree, Point
<1>4. CASE Free(Frontier(P)) = {}
  <2>1. BeforeIfPaid(p, q) /\ BeforeIfPaid(q, p)
    BY <1>1, <1>4 DEF Best
  <2> QED
    BY <2>1, <1>2 DEF BeforeIfPaid, Point
<1> QED
  BY <1>3, <1>4

-----------------------------------------------------------------------------
(* Some configuration is called the best. *)

\* Of points there is a most accurate one, among the most accurate one of least
\* weight, and among those one with the least number.
LEMMA FirstInOrder ==
  ASSUME NEW bound \in Nat, NEW Q, PointsUpTo(Q, bound), Q # {}, NEW weight \in [Q -> Nat]
  PROVE  \E p \in Q : \A q \in Q \ {p} :
           \/ p.accuracy > q.accuracy
           \/ /\ p.accuracy = q.accuracy
              /\ weight[p] < weight[q] \/ (weight[p] = weight[q] /\ p.id < q.id)
<1>1. \A q \in Q : q.accuracy \in Nat /\ q.accuracy <= bound /\ q.id \in Nat /\ weight[q] \in Nat
  BY DEF PointsUpTo, Point
<1>2. \A p, q \in Q : p.id = q.id => p = q
  BY DEF PointsUpTo
<1> DEFINE Missing == {bound - q.accuracy : q \in Q}
<1>3. PICK p1 \in Q : \A q \in Q : p1.accuracy >= q.accuracy
  <2>1. Missing \in SUBSET Nat /\ Missing # {}
    BY <1>1
  <2>2. PICK gap \in Missing : \A g \in Missing : gap <= g
    <3> HIDE DEF Missing
    <3> QED
      BY <2>1, LeastNumber
  <2>3. PICK p \in Q : gap = bound - p.accuracy
    OBVIOUS
  <2>4. \A q \in Q : bound - p.accuracy <= bound - q.accuracy
    BY <2>2, <2>3
  <2> QED
    BY <1>1, <2>4
<1> DEFINE Accurate == {q \in Q : q.accuracy = p1.accuracy}
<1> DEFINE Weights == {weight[q] : q \in Accurate}
<1>4. PICK p2 \in Accurate : \A q \in Accurate : weight[p2] <= weight[q]
  <2>1. Weights \in SUBSET Nat /\ Weights # {}
    BY <1>1
  <2>2. PICK w \in Weights : \A v \in Weights : w <= v
    <3> HIDE DEF Weights
    <3> QED
      BY <2>1, LeastNumber
  <2> QED
    BY <2>2
<1> DEFINE Light == {q \in Accurate : weight[q] = weight[p2]}
<1> DEFINE Numbers == {q.id : q \in Light}
<1>5. PICK p \in Light : \A q \in Light : p.id <= q.id
  <2>1. Numbers \in SUBSET Nat /\ Numbers # {}
    BY <1>1
  <2>2. PICK n \in Numbers : \A m \in Numbers : n <= m
    <3> HIDE DEF Numbers
    <3> QED
      BY <2>1, LeastNumber
  <2> QED
    BY <2>2
<1>6. ASSUME NEW q \in Q \ {p}
      PROVE  \/ p.accuracy > q.accuracy
             \/ /\ p.accuracy = q.accuracy
                /\ weight[p] < weight[q] \/ (weight[p] = weight[q] /\ p.id < q.id)
  <2>1. p.accuracy = p1.accuracy /\ p.accuracy >= q.accuracy /\ weight[p] = weight[p2]
    BY <1>3, <1>5
  <2>2. q.accuracy = p.accuracy => weight[p] <= weight[q]
    BY <1>4, <2>1
  <2>3. q.accuracy = p.accuracy /\ weight[q] = weight[p] => p.id <= q.id
    BY <1>5, <2>1
  <2>4. q.id # p.id
    BY <1>2
  <2> QED
    BY <1>1, <2>1, <2>2, <2>3, <2>4
<1> QED
  BY <1>5, <1>6

\* To buy as much as what buys as much as r is to buy as much as r, unless it is free.
LEMMA BuyingIsTransitive ==
  ASSUME NEW p \in Point, NEW q \in Point, NEW r \in Point, q.cost > 0,
         BuysAsMuch(p, q), BuysAsMuch(q, r)
  PROVE  BuysAsMuch(p, r)
<1> DEFINE a == p.accuracy * q.cost
<1> DEFINE b == q.accuracy * p.cost
<1> DEFINE d == q.accuracy * r.cost
<1> DEFINE e == r.accuracy * q.cost
<1>1. /\ p.accuracy \in Nat /\ q.accuracy \in Nat /\ r.accuracy \in Nat
      /\ p.cost \in Nat /\ q.cost \in Nat /\ r.cost \in Nat
  BY DEF Point
<1>2. a \in Nat /\ b \in Nat /\ d \in Nat /\ e \in Nat /\ b <= a /\ e <= d
  BY <1>1 DEF BuysAsMuch
<1>3. b * r.cost <= a * r.cost /\ e * p.cost <= d * p.cost
  <2> HIDE DEF a, b, d, e
  <2> QED
    BY <1>1, <1>2, ProductGrows
<1> DEFINE x == p.accuracy * r.cost
<1> DEFINE y == r.accuracy * p.cost
<1>4. a * r.cost = x * q.cost /\ e * p.cost = y * q.cost /\ b * r.cost = d * p.cost
  BY <1>1
<1>5. x \in Nat /\ y \in Nat /\ x * q.cost \in Nat /\ y * q.cost \in Nat
  BY <1>1
<1>6. y * q.cost <= x * q.cost
  <2>1. b * r.cost \in Nat /\ a * r.cost \in Nat /\ e * p.cost \in Nat /\ d * p.cost \in Nat
    BY <1>1, <1>2
  <2> HIDE DEF a, b, d, e, x, y
  <2> QED
    BY <1>3, <1>4, <1>5, <2>1
<1>7. x < y => x * q.cost + q.cost <= y * q.cost
  <2> SUFFICES ASSUME x < y
               PROVE  x * q.cost + q.cost <= y * q.cost
    OBVIOUS
  <2> HIDE DEF x, y
  <2>1. x + 1 \in Nat /\ x + 1 <= y
    BY <1>5
  <2>2. (x + 1) * q.cost <= y * q.cost
    <3> DEFINE z == x + 1
    <3>1. z \in Nat /\ z <= y
      BY <2>1
    <3> HIDE DEF z
    <3>2. z * q.cost <= y * q.cost
      BY <1>1, <1>5, <3>1, ProductGrows
    <3> QED
      BY <3>2 DEF z
  <2>3. (x + 1) * q.cost = x * q.cost + q.cost
    <3>1. \A m, n \in Nat : (m + 1) * n = m * n + n
      OBVIOUS
    <3> QED
      BY <1>1, <1>5, <3>1
  <2> QED
    BY <2>2, <2>3
<1> HIDE DEF x, y, a, b, d, e
<1>8. y <= x
  BY <1>1, <1>5, <1>6, <1>7
<1> QED
  BY <1>8 DEF BuysAsMuch, x, y

\* Of points that all cost something there is one that buys as much as any other.
LEMMA SomeBuysMost ==
  ASSUME NEW bound \in Nat, NEW Q, PointsUpTo(Q, bound), Q # {}, \A q \in Q : q.cost > 0
  PROVE  \E p \in Q : \A q \in Q : BuysAsMuch(p, q)
<1> DEFINE Most(R) == \E p \in R : \A q \in R : BuysAsMuch(p, q)
<1> DEFINE Upto(n) == {q \in Q : q.accuracy <= n}
<1> DEFINE T == {n \in Nat : Upto(n) # {} => Most(Upto(n))}
<1>1. \A q \in Q : q \in Point /\ q.accuracy \in Nat /\ q.cost \in Nat /\ q.accuracy <= bound
  BY DEF PointsUpTo, Point
<1>2. \A p, q \in Q : BuysAsMuch(p, q) \/ BuysAsMuch(q, p)
  <2> SUFFICES ASSUME NEW p \in Q, NEW q \in Q
               PROVE  p.accuracy * q.cost >= q.accuracy * p.cost
                      \/ q.accuracy * p.cost >= p.accuracy * q.cost
    BY DEF BuysAsMuch
  <2>1. p.accuracy * q.cost \in Nat /\ q.accuracy * p.cost \in Nat
    BY <1>1
  <2> QED
    BY <2>1
<1>3. 0 \in T
  <2>1. \A p, q \in Upto(0) : BuysAsMuch(p, q)
    <3> SUFFICES ASSUME NEW p \in Upto(0), NEW q \in Upto(0)
                 PROVE  BuysAsMuch(p, q)
      OBVIOUS
    <3>1. p.accuracy = 0 /\ q.accuracy = 0 /\ p.cost \in Nat /\ q.cost \in Nat
      BY <1>1
    <3>2. 0 * q.cost = 0 /\ 0 * p.cost = 0
      BY <3>1
    <3> QED
      BY <3>1, <3>2 DEF BuysAsMuch
  <2> HIDE DEF Upto
  <2> QED
    BY <2>1
<1>4. ASSUME NEW n \in T
      PROVE  n + 1 \in T
  <2> DEFINE Old == Upto(n)
  <2> DEFINE New == {q \in Q : q.accuracy = n + 1}
  <2>1. n \in Nat /\ (Old # {} => Most(Old))
    OBVIOUS
  <2>2. Upto(n + 1) = Old \cup New /\ Old \subseteq Q /\ New \subseteq Q
    BY <1>1, <2>1
  <2>3. New # {} => Most(New)
    <3> SUFFICES ASSUME New # {}
                 PROVE  Most(New)
      OBVIOUS
    <3> DEFINE Costs == {q.cost : q \in New}
    <3>1. Costs \in SUBSET Nat /\ Costs # {}
      BY <1>1
    <3>2. PICK c \in Costs : \A d \in Costs : c <= d
      <4> HIDE DEF Costs
      <4> QED
        BY <3>1, LeastNumber
    <3>3. PICK p \in New : \A q \in New : p.cost <= q.cost
      BY <3>2
    <3>4. ASSUME NEW q \in New
          PROVE  BuysAsMuch(p, q)
      <4>1. /\ p.cost <= q.cost /\ p.cost \in Nat /\ q.cost \in Nat /\ p.accuracy \in Nat
            /\ q.accuracy = p.accuracy
        BY <1>1, <3>3
      <4>2. p.accuracy * p.cost <= p.accuracy * q.cost
        BY <4>1, ProductGrows
      <4> QED
        BY <4>1, <4>2 DEF BuysAsMuch
    <3> QED
      BY <3>3, <3>4
  <2> HIDE DEF Old, New, Upto
  <2>4. Old = {} \/ New = {} => (Old \cup New # {} => Most(Old \cup New))
    <3>1. Old = {} => Old \cup New = New
      OBVIOUS
    <3>2. New = {} => Old \cup New = Old
      OBVIOUS
    <3> HIDE DEF Most
    <3> QED
      BY <2>1, <2>3, <3>1, <3>2
  <2>5. ASSUME Old # {}, New # {}
        PROVE  Most(Old \cup New)
    <3>1. PICK p \in Old : \A q \in Old : BuysAsMuch(p, q)
      BY <2>1, <2>5
    <3>2. PICK r \in New : \A q \in New : BuysAsMuch(r, q)
      BY <2>3, <2>5
    <3>3. /\ p \in Point /\ r \in Point /\ p.cost > 0 /\ r.cost > 0
          /\ \A q \in Old \cup New : q \in Point
      BY <1>1, <2>2
    <3>4. CASE BuysAsMuch(p, r)
      BY <3>1, <3>2, <3>3, <3>4, BuyingIsTransitive
    <3>5. CASE BuysAsMuch(r, p)
      BY <3>1, <3>2, <3>3, <3>5, BuyingIsTransitive
    <3> QED
      BY <1>2, <2>2, <3>4, <3>5
  <2>6. Upto(n + 1) # {} => Most(Upto(n + 1))
    <3> HIDE DEF Most
    <3> QED
      BY <2>2, <2>4, <2>5
  <2> QED
    BY <2>1, <2>6
<1>5. T = Nat
  <2> HIDE DEF T
  <2>1. T \in SUBSET Nat
    BY DEF T
  <2> QED
    BY <1>3, <1>4, <2>1, NumberByNumber
<1>6. Upto(bound) = Q
  BY <1>1
<1> HIDE DEF Upto
<1> QED
  BY <1>5, <1>6

\* Of the points of a report that has any, some configuration is called the best.
LEMMA SomeIsBest ==
  ASSUME NEW bound \in Nat, NEW P, PointsUpTo(P, bound), P # {}
  PROVE  Best(P) # {}
<1> DEFINE front == Frontier(P)
<1> DEFINE free == Free(front)
<1>1. front # {} /\ front \subseteq P
  BY FrontierCovers DEF Covered, Frontier
<1>2. \A Q \in SUBSET P : PointsUpTo(Q, bound)
  BY DEF PointsUpTo
<1>3. CASE free # {}
  <2> DEFINE weight == [q \in free |-> q.proxy]
  <2>1. PointsUpTo(free, bound)
    BY <1>1, <1>2 DEF Free
  <2>2. weight \in [free -> Nat]
    BY <2>1 DEF PointsUpTo, Point
  <2>3. PICK p \in free : \A q \in free \ {p} :
           \/ p.accuracy > q.accuracy
           \/ /\ p.accuracy = q.accuracy
              /\ weight[p] < weight[q] \/ (weight[p] = weight[q] /\ p.id < q.id)
    <3> HIDE DEF weight, free
    <3> QED
      BY <1>3, <2>1, <2>2, FirstInOrder
  <2>4. \A q \in free : weight[q] = q.proxy
    OBVIOUS
  <2> HIDE DEF weight, free
  <2>5. \A q \in free \ {p} : BeforeIfFree(p, q)
    BY <2>3, <2>4 DEF BeforeIfFree
  <2>6. Best(P) = {r \in free : \A q \in free \ {r} : BeforeIfFree(r, q)}
    BY <1>3 DEF Best, free
  <2> QED
    BY <2>3, <2>5, <2>6
<1>4. CASE free = {}
  <2>1. PointsUpTo(front, bound)
    BY <1>1, <1>2
  <2>2. \A q \in front : q \in Point /\ q.cost > 0
    BY <1>1, <1>4 DEF Free, PointsUpTo, Point
  <2> DEFINE Most == {p \in front : \A q \in front : BuysAsMuch(p, q)}
  <2>3. Most # {}
    <3> HIDE DEF front, free
    <3> QED
      BY <1>1, <2>1, <2>2, SomeBuysMost
  <2> DEFINE weight == [q \in Most |-> q.cost]
  <2>4. PointsUpTo(Most, bound)
    BY <1>1, <1>2
  <2>5. weight \in [Most -> Nat]
    BY <2>4 DEF PointsUpTo, Point
  <2>6. PICK p \in Most : \A q \in Most \ {p} :
           \/ p.accuracy > q.accuracy
           \/ /\ p.accuracy = q.accuracy
              /\ weight[p] < weight[q] \/ (weight[p] = weight[q] /\ p.id < q.id)
    <3> HIDE DEF weight, Most
    <3> QED
      BY <2>3, <2>4, <2>5, FirstInOrder
  <2>7. \A q \in Most : weight[q] = q.cost
    OBVIOUS
  <2>8. \A q \in front : BuysAsMuch(q, p) => q \in Most
    <3> SUFFICES ASSUME NEW q \in front, BuysAsMuch(q, p), NEW r \in front
                 PROVE  BuysAsMuch(q, r)
      OBVIOUS
    <3>1. p \in front /\ BuysAsMuch(p, r)
      BY <2>6
    <3> HIDE DEF front, Most, weight
    <3> QED
      BY <2>2, <3>1, BuyingIsTransitive
  <2>9. p \in front /\ \A q \in front : BuysAsMuch(p, q)
    BY <2>6
  <2> HIDE DEF front, free, Most, weight
  <2>10. \A q \in front \ {p} : BeforeIfPaid(p, q)
    BY <2>6, <2>7, <2>8, <2>9 DEF BeforeIfPaid
  <2>11. Best(P) = {r \in front : \A q \in front \ {r} : BeforeIfPaid(r, q)}
    BY <1>4 DEF Best, free, front
  <2> QED
    BY <2>9, <2>10, <2>11
<1> QED
  BY <1>3, <1>4

-----------------------------------------------------------------------------
(* The inductive invariant. *)

Typed ==
  /\ backend \in Settings
  /\ catalog \in DOMAIN Catalogs
  /\ script \in [arm: Grid \cup {0}, at: {"idle", "check", "run", "finish"},
                 checked: Settings, version: Nat, trials: Seq(Trials)]
  /\ runs \in Nat
  /\ artifacts \in [Grid -> [version: Nat, checked: Settings, trials: Seq(Trials)]]

\* The version held the cohort when the script loaded it.
Versioned(v) == v \in DOMAIN Catalogs /\ ToSet(Catalogs[v]) = ToSet(Scenarios)

\* The trials of a script for configuration c, from the first scenario on.
GoodTrials(trials, c) ==
  \A i \in DOMAIN trials :
    /\ (trials[i].falsePositive # "none") = (trials[i].scenario = Control)
    /\ \A j \in 1 .. i - 1 : trials[j].run < trials[i].run
    /\ trials[i].calls <= FrozenGrid[c].budget /\ trials[i].evidence <= trials[i].calls

\* A script that runs: its backend was looked at, its trials are new, there is no report.
ScriptSound ==
  /\ script.at \in {"idle", "check"} => script.trials = <<>>
  /\ Running =>
       /\ script.arm \in Grid /\ Versioned(script.version) /\ report = NoReport
       /\ GoodTrials(script.trials, script.arm)
       /\ \A c \in Grid : {t.run : t \in ToSet(script.trials)} \cap RunsOf(c) = {}
       /\ script.at \in {"run", "finish"} =>
            [script.checked EXCEPT !.limits = "shipped"] = Deployed(script.arm)
       /\ script.at = "run" => Len(script.trials) < Len(Scenarios)
       /\ script.at = "finish" => Len(script.trials) = Len(Scenarios)

\* An artifact is that of a script that finished.
ArtifactSound(c) ==
  artifacts[c] # NoArtifact =>
    /\ Versioned(artifacts[c].version)
    /\ [artifacts[c].checked EXCEPT !.limits = "shipped"] = Deployed(c)
    /\ Len(artifacts[c].trials) = Len(Scenarios)
    /\ GoodTrials(artifacts[c].trials, c)

ReportSound ==
  Done => /\ Versioned(report.version)
          /\ \A c \in Grid : artifacts[c].version = report.version

Inv ==
  /\ Typed
  /\ ScriptSound
  /\ \A c \in Grid : ArtifactSound(c)
  /\ ReportSound

-----------------------------------------------------------------------------
(* Treatments. *)

LEMMA GridTyped ==
  ASSUME NEW c \in Grid
  PROVE  FrozenGrid[c] \in [architecture: Architectures, budget: {5, 15}, depth: {5, 20},
                            evidence: EvidenceModes]
<1>1. Grid \subseteq DOMAIN FrozenGrid
  BY GridAssumption, Zenon
<1> DEFINE Kinds == [architecture: Architectures, budget: {5, 15}, depth: {5, 20},
                    evidence: EvidenceModes]
<1>2. \A a \in Architectures, b \in {5, 15}, d \in {5, 20}, e \in EvidenceModes :
        Configuration(a, b, d, e) \in Kinds
  BY DEF Configuration
<1>3. FrozenGrid \in Seq(Kinds)
  BY <1>2 DEF FrozenGrid, Architectures, EvidenceModes
<1> HIDE DEF Kinds
<1>4. FrozenGrid[c] \in Kinds
  BY <1>1, <1>3
<1> QED
  BY <1>4 DEF Kinds

LEMMA DefaultTyped == DefaultSettings \in Settings
  BY DEF DefaultSettings, Settings, Architectures, EvidenceModes, TemporalModes, Orders, Stoppings

LEMMA DeployedTyped ==
  ASSUME NEW c \in Grid
  PROVE  Deployed(c) \in Settings
<1>1. /\ FrozenGrid[c].architecture \in Architectures /\ FrozenGrid[c].evidence \in EvidenceModes
      /\ FrozenGrid[c].depth \in 1 .. 1000
  BY GridTyped
<1>2. \A s \in Settings, a \in Architectures : [s EXCEPT !.architecture = a] \in Settings
  BY DEF Settings
<1>3. \A s \in Settings, e \in EvidenceModes : [s EXCEPT !.evidence = e] \in Settings
  BY DEF Settings
<1>4. \A s \in Settings, d \in 1 .. 1000 : [s EXCEPT !.depth = d] \in Settings
  BY DEF Settings
<1>5. \A s \in Settings, b \in BOOLEAN : [s EXCEPT !.capped = b] \in Settings
  BY DEF Settings
<1> DEFINE placed == [DefaultSettings EXCEPT !.architecture = FrozenGrid[c].architecture]
<1> DEFINE sourced == [placed EXCEPT !.evidence = FrozenGrid[c].evidence]
<1> DEFINE deep == [sourced EXCEPT !.depth = FrozenGrid[c].depth]
<1>6. placed \in Settings
  BY <1>1, <1>2, DefaultTyped, ZenonT(40)
<1> HIDE DEF placed
<1>7. sourced \in Settings
  BY <1>1, <1>3, <1>6, ZenonT(40)
<1> HIDE DEF sourced
<1>8. deep \in Settings
  BY <1>1, <1>4, <1>7, ZenonT(40)
<1> HIDE DEF deep
<1>9. [deep EXCEPT !.capped = TRUE] \in Settings
  BY <1>5, <1>8, Zenon
<1>10. Deployed(c) = [deep EXCEPT !.capped = TRUE]
  BY Zenon DEF Deployed, deep, sourced, placed
<1> HIDE DEF deep
<1> QED
  BY <1>9, <1>10

\* A backend that passes _assert_runtime_health (phase9-pareto-arm.py 70-94) runs with what
\* the workflow deploys for the configuration, in all but the limits on calls without
\* progress, retries and time, which the health endpoint does not report (api.py 18-33).
THEOREM HealthTellsTheTreatment ==
  ASSUME NEW c \in Grid, NEW s \in Settings, RuntimeHealthy(c, Health(s))
  PROVE  [s EXCEPT !.limits = "shipped"] = Deployed(c)
<1> DEFINE same == [s EXCEPT !.limits = "shipped"]
<1>1. /\ s.architecture = FrozenGrid[c].architecture /\ s.llm = "local"
      /\ s.temporal = "standard" /\ s.order = "free" /\ s.ordered = FALSE
      /\ s.evidence = FrozenGrid[c].evidence /\ s.depth = FrozenGrid[c].depth
      /\ s.capped = TRUE /\ s.stopping = "confidence_threshold" /\ s.compound = FALSE
  BY DEF RuntimeHealthy, Health, Settings
<1>2. /\ same \in Settings /\ same.limits = "shipped"
      /\ same.architecture = s.architecture /\ same.llm = s.llm /\ same.temporal = s.temporal
      /\ same.order = s.order /\ same.ordered = s.ordered /\ same.evidence = s.evidence
      /\ same.depth = s.depth /\ same.capped = s.capped /\ same.stopping = s.stopping
      /\ same.compound = s.compound
  BY DEF Settings
<1> HIDE DEF same
<1>3. \A t \in Settings :
        /\ t.architecture = same.architecture /\ t.llm = same.llm /\ t.temporal = same.temporal
        /\ t.order = same.order /\ t.ordered = same.ordered /\ t.evidence = same.evidence
        /\ t.depth = same.depth /\ t.capped = same.capped /\ t.stopping = same.stopping
        /\ t.compound = same.compound /\ t.limits = same.limits
        => same = t
  BY <1>2 DEF Settings
<1>4. /\ Deployed(c).architecture = FrozenGrid[c].architecture /\ Deployed(c).llm = "local"
      /\ Deployed(c).temporal = "standard" /\ Deployed(c).order = "free"
      /\ Deployed(c).ordered = FALSE /\ Deployed(c).evidence = FrozenGrid[c].evidence
      /\ Deployed(c).depth = FrozenGrid[c].depth /\ Deployed(c).capped = TRUE
      /\ Deployed(c).stopping = "confidence_threshold" /\ Deployed(c).compound = FALSE
      /\ Deployed(c).limits = "shipped"
  BY DEF Deployed, DefaultSettings
<1>5. same = Deployed(c)
  BY <1>1, <1>2, <1>3, <1>4, DeployedTyped
<1> QED
  BY <1>5 DEF same

-----------------------------------------------------------------------------
(* Trials. *)

\* What is recorded of an agent run is a trial, within the budget of its configuration.
LEMMA TrialTyped ==
  ASSUME NEW c \in Grid, NEW scenario \in ToSet(Scenarios), NEW fare \in Fares[scenario],
         NEW s \in Settings, NEW n \in Nat,
         NEW t, t = TrialOf(scenario, fare, n, s, FrozenGrid[c].budget)
  PROVE  /\ t \in [scenario: ToSet(Scenarios), run: {n}, settings: Settings, accuracy: Nat,
                   money: Nat, tokens: Nat, calls: Nat, evidence: Nat,
                   falsePositive: {"none", "yes", "no"}]
         /\ (t.falsePositive # "none") = (t.scenario = Control)
         /\ t.calls <= FrozenGrid[c].budget /\ t.evidence <= t.calls
<1>1. fare \in [accuracy: Nat, named: BOOLEAN, money: Nat, tokens: Nat, calls: Nat, evidence: Nat]
  BY CohortAssumption
<1>2. FrozenGrid[c].budget \in Nat
  BY GridTyped
<1> DEFINE calls == IF fare.calls < FrozenGrid[c].budget THEN fare.calls ELSE FrozenGrid[c].budget
<1> DEFINE evidence == IF fare.evidence < calls THEN fare.evidence ELSE calls
<1>3. /\ calls \in Nat /\ calls <= FrozenGrid[c].budget
      /\ evidence \in Nat /\ evidence <= calls
  BY <1>1, <1>2
<1> DEFINE positive == IF scenario # Control THEN "none" ELSE IF fare.named THEN "yes" ELSE "no"
<1>4. t = [scenario |-> scenario, run |-> n, settings |-> s, accuracy |-> fare.accuracy,
           money |-> fare.money, tokens |-> fare.tokens, calls |-> calls,
           evidence |-> evidence, falsePositive |-> positive]
  BY DEF TrialOf
<1>5. positive \in {"none", "yes", "no"} /\ (positive # "none") = (scenario = Control)
  OBVIOUS
<1> HIDE DEF calls, evidence, positive
<1> QED
  BY <1>1, <1>3, <1>4, <1>5

LEMMA TrialsGrow ==
  ASSUME runs \in Nat, runs' \in Nat, runs <= runs'
  PROVE  Trials \subseteq Trials' /\ Seq(Trials) \subseteq Seq(Trials')
<1>1. Trials \subseteq Trials'
  BY DEF Trials
<1> QED
  BY <1>1

-----------------------------------------------------------------------------
(* The invariant holds, action by action. *)

LEMMA IdleTyped ==
  /\ Idle \in [arm: Grid \cup {0}, at: {"idle", "check", "run", "finish"},
               checked: Settings, version: Nat, trials: Seq(Trials)]
  /\ Idle.at = "idle" /\ Idle.trials = <<>>
  BY DefaultTyped DEF Idle

LEMMA InitSound ==
  ASSUME Init
  PROVE  Inv
<1>1. catalog \in DOMAIN Catalogs
  BY CohortAssumption DEF Init
<1>2. artifacts \in [Grid -> [version: Nat, checked: Settings, trials: Seq(Trials)]]
  BY DefaultTyped DEF Init, NoArtifact
<1>3. Typed
  BY <1>1, <1>2, IdleTyped, DefaultTyped DEF Init, Typed
<1>4. ScriptSound
  BY IdleTyped DEF Init, ScriptSound, Running
<1> QED
  BY <1>3, <1>4 DEF Init, Inv, ArtifactSound, ReportSound, Done

\* What leaves artifacts and report alone leaves them sound.
LEMMA Unwritten ==
  ASSUME Inv, UNCHANGED <<artifacts, report>>
  PROVE  /\ (\A c \in Grid : ArtifactSound(c))' /\ ReportSound'
         /\ \A c \in Grid : RunsOf(c)' = RunsOf(c)
  BY DEF Inv, ArtifactSound, ReportSound, Done, RunsOf

LEMMA BeginSound ==
  ASSUME Inv, NEW c \in Grid, Begin(c)
  PROVE  Inv'
<1>1. script' = [arm |-> c, at |-> "check", checked |-> DefaultSettings, version |-> catalog,
                 trials |-> <<>>]
  BY DEF Begin, Idle
<1>2. /\ report' = NoReport /\ UNCHANGED <<artifacts, report, runs, catalog>>
      /\ backend' = Deployed(c)
  BY DEF Begin
<1>3. Versioned(catalog)
  BY DEF Begin, Versioned, Inv, Typed
<1>4. catalog \in Nat
  BY CohortAssumption DEF Inv, Typed
<1>5. Typed'
  <2>1. Trials' = Trials
    BY <1>2 DEF Trials
  <2>2. script' \in [arm: Grid \cup {0}, at: {"idle", "check", "run", "finish"},
                    checked: Settings, version: Nat, trials: Seq(Trials)]
    BY <1>1, <1>4, DefaultTyped
  <2> QED
    BY <1>2, <2>1, <2>2, DeployedTyped DEF Inv, Typed
<1>6. /\ script'.trials = <<>> /\ script'.arm = c /\ script'.version = catalog
      /\ script'.at = "check"
  BY <1>1
<1>7. GoodTrials(<<>>, c) /\ ToSet(<<>>) = {}
  BY DEF GoodTrials, ToSet
<1>8. ScriptSound'
  BY <1>2, <1>3, <1>6, <1>7 DEF ScriptSound, Running, Versioned
<1> QED
  BY <1>2, <1>5, <1>8, Unwritten DEF Inv

LEMMA CheckSound ==
  ASSUME Inv, Check
  PROVE  Inv'
<1>1. UNCHANGED <<backend, catalog, artifacts, report, runs>> /\ Running
  BY DEF Check, Running
<1>2. CASE RuntimeHealthy(script.arm, Health(backend))
  <2>1. script' = [script EXCEPT !.at = "run", !.checked = backend]
    BY <1>2 DEF Check
  <2>2. script.arm \in Grid /\ script.trials = <<>> /\ backend \in Settings
    BY <1>1 DEF Inv, Typed, ScriptSound, Check
  <2>3. [backend EXCEPT !.limits = "shipped"] = Deployed(script.arm)
    BY <1>2, <2>2, HealthTellsTheTreatment
  <2>4. Typed'
    BY <1>1, <2>1, <2>2 DEF Inv, Typed, Trials
  <2>5. Len(<<>>) < Len(Scenarios)
    BY CohortAssumption
  <2>6. ScriptSound'
    BY <1>1, <2>1, <2>2, <2>3, <2>5 DEF Inv, Typed, ScriptSound, Running, RunsOf, Versioned
  <2> QED
    BY <1>1, <2>4, <2>6, Unwritten DEF Inv
<1>3. CASE ~RuntimeHealthy(script.arm, Health(backend))
  <2>1. script' = Idle
    BY <1>3 DEF Check
  <2>2. Typed' /\ ScriptSound'
    BY <1>1, <2>1, IdleTyped DEF Inv, Typed, Trials, ScriptSound, Running
  <2> QED
    BY <1>1, <2>2, Unwritten DEF Inv
<1> QED
  BY <1>2, <1>3

LEMMA DieSound ==
  ASSUME Inv, Die
  PROVE  Inv'
<1>1. UNCHANGED <<backend, catalog, artifacts, report>> /\ script' = Idle
  BY DEF Die
<1>2. runs \in Nat /\ runs' \in Nat /\ runs <= runs'
  BY DEF Die, Inv, Typed
<1>3. Typed'
  <2>1. Idle \in [arm: Grid \cup {0}, at: {"idle", "check", "run", "finish"},
                  checked: Settings, version: Nat, trials: Seq(Trials')]
    BY DefaultTyped DEF Idle
  <2>2. artifacts \in [Grid -> [version: Nat, checked: Settings, trials: Seq(Trials')]]
    BY <1>2, TrialsGrow DEF Inv, Typed
  <2> QED
    BY <1>1, <1>2, <2>1, <2>2 DEF Inv, Typed
<1>4. ScriptSound'
  BY <1>1, IdleTyped DEF ScriptSound, Running
<1> QED
  BY <1>1, <1>3, <1>4, Unwritten DEF Inv

LEMMA DeploySound ==
  ASSUME Inv, Deploy
  PROVE  Inv'
<1>1. UNCHANGED <<catalog, script, artifacts, report, runs>> /\ backend' \in Settings
  BY CampaignAssumption DEF Deploy
<1>2. Typed' /\ ScriptSound'
  BY <1>1 DEF Inv, Typed, Trials, ScriptSound, Running, RunsOf
<1> QED
  BY <1>1, <1>2, Unwritten DEF Inv

LEMMA UpgradeSound ==
  ASSUME Inv, Upgrade
  PROVE  Inv'
<1>1. UNCHANGED <<backend, script, artifacts, report, runs>> /\ catalog' \in DOMAIN Catalogs
  BY DEF Upgrade
<1>2. Typed' /\ ScriptSound'
  BY <1>1 DEF Inv, Typed, Trials, ScriptSound, Running, RunsOf
<1> QED
  BY <1>1, <1>2, Unwritten DEF Inv

\* The runs of trials that were made are among the runs made.
LEMMA RunsMade ==
  ASSUME Inv
  PROVE  /\ \A c \in Grid : RunsOf(c) \subseteq 1 .. runs
         /\ {t.run : t \in ToSet(script.trials)} \subseteq 1 .. runs
<1>1. \A t \in Trials : t.run \in 1 .. runs
  BY DEF Trials
<1>2. \A s \in Seq(Trials) : \A i \in DOMAIN s : s[i] \in Trials
  OBVIOUS
<1>3. \A s \in Seq(Trials) : {t.run : t \in ToSet(s)} \subseteq 1 .. runs
  BY <1>1, <1>2 DEF ToSet
<1>4. script.trials \in Seq(Trials) /\ \A c \in Grid : artifacts[c].trials \in Seq(Trials)
  BY DEF Inv, Typed
<1> QED
  BY <1>3, <1>4 DEF RunsOf

LEMMA RunTrialSound ==
  ASSUME Inv, RunTrial
  PROVE  Inv'
<1> DEFINE n == Len(script.trials)
<1> DEFINE c == script.arm
<1>1. /\ script.at = "run" /\ Running /\ c \in Grid /\ n \in Nat /\ n < Len(Scenarios)
      /\ script.trials \in Seq(Trials) /\ GoodTrials(script.trials, c)
      /\ report = NoReport /\ backend \in Settings /\ runs \in Nat
  BY DEF RunTrial, Inv, Typed, ScriptSound, Running
<1>2. runs' = runs + 1 /\ UNCHANGED <<backend, catalog, artifacts, report>>
  BY DEF RunTrial
<1>3. Scenarios[n + 1] \in ToSet(Scenarios)
  BY <1>1, CohortAssumption DEF ToSet
<1>4. PICK fare \in Fares[Scenarios[n + 1]] :
        LET t == TrialOf(Scenarios[n + 1], fare, runs + 1, backend, FrozenGrid[c].budget) IN
        script' = [script EXCEPT !.trials = Append(script.trials, t),
                                 !.at = IF Len(Append(script.trials, t)) = Len(Scenarios)
                                        THEN "finish" ELSE "run"]
  BY DEF RunTrial
<1> DEFINE t == TrialOf(Scenarios[n + 1], fare, runs + 1, backend, FrozenGrid[c].budget)
<1>5. /\ t \in [scenario: ToSet(Scenarios), run: {runs + 1}, settings: Settings, accuracy: Nat,
                money: Nat, tokens: Nat, calls: Nat, evidence: Nat,
                falsePositive: {"none", "yes", "no"}]
      /\ (t.falsePositive # "none") = (t.scenario = Control)
      /\ t.calls <= FrozenGrid[c].budget /\ t.evidence <= t.calls
  <2>1. runs + 1 \in Nat
    BY <1>1
  <2> HIDE DEF c
  <2> QED
    BY <1>1, <1>3, <2>1, TrialTyped
<1> HIDE DEF t
<1> DEFINE trials == Append(script.trials, t)
<1>6. t \in Trials' /\ t.run = runs + 1 /\ script.trials \in Seq(Trials')
  <2>1. 1 .. runs' = 1 .. runs + 1 /\ runs + 1 \in 1 .. runs + 1
    BY <1>1, <1>2
  <2>2. t \in Trials'
    BY <1>5, <2>1 DEF Trials
  <2> QED
    BY <1>1, <1>2, <1>5, <2>2, TrialsGrow
<1>7. /\ trials \in Seq(Trials') /\ Len(trials) = n + 1 /\ trials[n + 1] = t
      /\ \A i \in 1 .. n : trials[i] = script.trials[i]
  BY <1>1, <1>6
<1>8. /\ script'.arm = c /\ script'.trials = trials /\ script'.checked = script.checked
      /\ script'.version = script.version
      /\ script'.at = IF n + 1 = Len(Scenarios) THEN "finish" ELSE "run"
  BY <1>4, <1>7 DEF Inv, Typed, t
<1>9. GoodTrials(trials, c)
  <2> SUFFICES ASSUME NEW i \in 1 .. n + 1
               PROVE  /\ (trials[i].falsePositive # "none") = (trials[i].scenario = Control)
                      /\ \A j \in 1 .. i - 1 : trials[j].run < trials[i].run
                      /\ trials[i].calls <= FrozenGrid[c].budget
                      /\ trials[i].evidence <= trials[i].calls
    BY <1>7 DEF GoodTrials
  <2>1. CASE i \in 1 .. n
    BY <1>1, <1>7, <2>1 DEF GoodTrials
  <2>2. CASE i = n + 1
    <3>1. \A j \in 1 .. n : script.trials[j].run \in 1 .. runs
      <4>1. \A j \in 1 .. n : script.trials[j] \in Trials
        BY <1>1
      <4> QED
        BY <4>1 DEF Trials
    <3>2. \A j \in 1 .. n : trials[j].run < t.run
      BY <1>1, <1>6, <1>7, <3>1
    <3> QED
      BY <1>1, <1>5, <1>7, <2>2, <3>2
  <2> QED
    BY <1>1, <2>1, <2>2
<1>10. {u.run : u \in ToSet(trials)} = {u.run : u \in ToSet(script.trials)} \cup {runs + 1}
  <2>1. ToSet(trials) = ToSet(script.trials) \cup {t}
    BY <1>1, <1>7 DEF ToSet
  <2> QED
    BY <1>6, <2>1
<1>11. Typed'
  <2>1. script' \in [arm: Grid \cup {0}, at: {"idle", "check", "run", "finish"},
                     checked: Settings, version: Nat, trials: Seq(Trials')]
    BY <1>4, <1>7 DEF Inv, Typed, t
  <2>2. artifacts \in [Grid -> [version: Nat, checked: Settings, trials: Seq(Trials')]]
    BY <1>1, <1>2, TrialsGrow DEF Inv, Typed
  <2> QED
    BY <1>1, <1>2, <2>1, <2>2 DEF Inv, Typed
<1>12. ScriptSound'
  <2>1. \A d \in Grid : {u.run : u \in ToSet(trials)} \cap RunsOf(d)' = {}
    <3> HIDE DEF trials
    <3>1. \A d \in Grid : RunsOf(d)' = RunsOf(d) /\ RunsOf(d) \subseteq 1 .. runs
      BY <1>2, RunsMade, Unwritten
    <3>2. \A d \in Grid : {u.run : u \in ToSet(script.trials)} \cap RunsOf(d) = {}
      BY <1>1 DEF Inv, ScriptSound
    <3>3. runs + 1 \notin 1 .. runs
      BY <1>1
    <3> QED
      BY <1>10, <3>1, <3>2, <3>3
  <2>2. /\ Versioned(script.version)
        /\ [script.checked EXCEPT !.limits = "shipped"] = Deployed(c)
    BY <1>1 DEF Inv, ScriptSound
  <2>3. Len(Scenarios) \in Nat
    BY CohortAssumption
  <2> HIDE DEF trials
  <2> QED
    BY <1>1, <1>2, <1>7, <1>8, <1>9, <2>1, <2>2, <2>3 DEF ScriptSound, Running, Versioned
<1> QED
  BY <1>2, <1>11, <1>12, Unwritten DEF Inv

\* What a script that finishes writes down.
LEMMA Written ==
  ASSUME Inv, Finish
  PROVE  /\ script.arm \in Grid /\ report = NoReport /\ UNCHANGED <<backend, catalog, report, runs>>
         /\ script' = Idle
         /\ artifacts'[script.arm] = [version |-> script.version, checked |-> script.checked,
                                      trials |-> script.trials]
         /\ \A c \in Grid \ {script.arm} : artifacts'[c] = artifacts[c]
         /\ artifacts' \in [Grid -> [version: Nat, checked: Settings, trials: Seq(Trials)]]
  BY DEF Finish, Inv, Typed, ScriptSound, Running

LEMMA FinishSound ==
  ASSUME Inv, Finish
  PROVE  Inv'
<1>1. Typed' /\ ScriptSound'
  BY Written, IdleTyped DEF Inv, Typed, Trials, ScriptSound, Running
<1>2. ASSUME NEW c \in Grid
      PROVE  ArtifactSound(c)'
  <2>1. CASE c = script.arm
    BY <2>1, Written DEF Finish, Inv, ScriptSound, Running, ArtifactSound, Versioned
  <2>2. CASE c # script.arm
    BY <2>2, Written DEF Inv, ArtifactSound
  <2> QED
    BY <2>1, <2>2
<1>3. ReportSound'
  BY Written DEF ReportSound, Done
<1> QED
  BY <1>1, <1>2, <1>3 DEF Inv

\* The artifacts a report is drawn from are those of the whole grid, of one version.
LEMMA Given ==
  ASSUME Inv, BuildReport
  PROVE  \E given \in Handed :
           /\ report' = Drawn(given) /\ ToSet(given) = Grid
           /\ \A c \in Grid : artifacts[c].version = report'.version
<1>1. PICK given \in Handed : RightArtifacts(given) /\ report' = Drawn(given)
  BY DEF BuildReport
<1>2. ToSet(given) = Grid /\ \A v, w \in Versions(given) : v = w
  BY <1>1 DEF RightArtifacts
<1>3. \A c \in Grid : artifacts[c].version \in Versions(given)
  BY <1>2 DEF Versions
<1>4. report'.version = CHOOSE v \in Versions(given) : TRUE
  BY <1>1 DEF Drawn
<1>5. \A c \in Grid : artifacts[c].version = report'.version
  BY <1>2, <1>3, <1>4
<1> QED
  BY <1>1, <1>2, <1>5

LEMMA BuildReportSound ==
  ASSUME Inv, BuildReport
  PROVE  Inv'
<1>1. /\ UNCHANGED <<backend, catalog, script, artifacts, runs>>
      /\ ~Running /\ AllWritten
  BY DEF BuildReport
<1>2. Typed' /\ ScriptSound' /\ (\A c \in Grid : ArtifactSound(c))'
  BY <1>1 DEF Inv, Typed, Trials, ScriptSound, Running, ArtifactSound
<1>3. \A c \in Grid : artifacts[c].version = report'.version /\ Versioned(artifacts[c].version)
  BY <1>1, Given DEF Inv, AllWritten, ArtifactSound
<1>4. Grid # {}
  BY GridAssumption, Zenon
<1>5. ReportSound'
  BY <1>1, <1>3, <1>4 DEF ReportSound, Versioned
<1> QED
  BY <1>2, <1>5 DEF Inv

LEMMA NextSound ==
  ASSUME Inv, [Next]_vars
  PROVE  Inv'
<1>1. CASE UNCHANGED vars
  BY <1>1 DEF vars, Inv, Typed, Trials, ScriptSound, Running, ArtifactSound, ReportSound, Done,
     RunsOf
<1> QED
  BY <1>1, BeginSound, CheckSound, RunTrialSound, FinishSound, DieSound, DeploySound,
     UpgradeSound, BuildReportSound DEF Next, Proceed

LEMMA InvHolds == Spec => []Inv
<1>1. Init => Inv
  BY InitSound
<1>2. Inv /\ [Next]_vars => Inv'
  BY NextSound
<1> QED
  BY <1>1, <1>2, PTL DEF Spec

-----------------------------------------------------------------------------
(* What follows from it. *)

\* Every variable has its type; a false positive is recorded of the control alone, and
\* no run was made twice (pareto_campaign.py 250-266, phase9-pareto-arm.py 213-214).
THEOREM TypesHold == Spec => []TypeOK
<1>1. ASSUME Inv
      PROVE  TypeOK
  <2>1. /\ GoodTrials(script.trials, script.arm)
        /\ \A c \in Grid : GoodTrials(artifacts[c].trials, c)
    BY <1>1 DEF Inv, Typed, ScriptSound, ArtifactSound, NoArtifact, GoodTrials, Running
  <2> QED
    BY <1>1, <2>1 DEF Inv, Typed, TypeOK, GoodTrials
<1> QED
  BY <1>1, InvHolds, PTL

\* A trial ran under the treatment of its configuration, up to the limits that no health
\* tells, unless the backend was deployed anew after the script's one look at it
\* (phase9-pareto-arm.py 119-120).
THEOREM TreatmentsHold == Spec => []TrialsUnderTreatment
<1>1. ASSUME Inv
      PROVE  TrialsUnderTreatment
  <2> SUFFICES ASSUME NEW c \in Grid, NEW t \in ToSet(artifacts[c].trials)
               PROVE  /\ t.settings = artifacts[c].checked =>
                           [t.settings EXCEPT !.limits = "shipped"] = Deployed(c)
                      /\ t.calls <= FrozenGrid[c].budget /\ t.evidence <= t.calls
    BY DEF TrialsUnderTreatment
  <2>1. artifacts[c] # NoArtifact
    BY DEF NoArtifact, ToSet
  <2> QED
    BY <1>1, <2>1 DEF Inv, ArtifactSound, GoodTrials, ToSet
<1> QED
  BY <1>1, InvHolds, PTL

\* What is compared was measured on one version of the benchmark, on the whole cohort
\* (phase9-pareto-report.py 51-53).
THEOREM OneBenchmarkHolds == Spec => []ComparedOnOneBenchmark
<1>1. Inv => ComparedOnOneBenchmark
  BY DEF Inv, ReportSound, ComparedOnOneBenchmark, Versioned
<1> QED
  BY <1>1, InvHolds, PTL

-----------------------------------------------------------------------------
(* The report keeps what PublishedStudy promises. *)

\* A script that finishes delivers the evidence of its arm, as a whole, and none of it old.
LEMMA FinishDelivers ==
  ASSUME Inv, Finish, NEW arm \in Grid, arm = script.arm
  PROVE  Publication!Deliver(arm)
<1> DEFINE evidence == [c \in Grid |-> RunsOf(c)]
<1> DEFINE new == {t.run : t \in ToSet(script.trials)}
<1>1. report = NoReport /\ report' = NoReport
  BY Written
<1>2. /\ RunsOf(arm)' = new
      /\ \A c \in Grid \ {arm} : RunsOf(c)' = RunsOf(c)
  BY Written DEF RunsOf
<1>3. \A c \in Grid : new \cap RunsOf(c) = {}
  BY DEF Finish, Inv, ScriptSound, Running
<1>4. new # {}
  <2>1. Len(script.trials) = Len(Scenarios) /\ script.trials \in Seq(Trials)
    BY DEF Finish, Inv, Typed, ScriptSound, Running
  <2>2. 1 \in DOMAIN script.trials
    BY <2>1, CohortAssumption
  <2> QED
    BY <2>2 DEF ToSet
<1> HIDE DEF new
<1>5. evidence' = [evidence EXCEPT ![arm] = new] /\ evidence'[arm] = new
  BY <1>1, <1>2
<1>6. \A c \in Grid : new \cap evidence[c] = {}
  BY <1>3
<1>7. DOMAIN evidence = Grid
  OBVIOUS
<1> HIDE DEF evidence
<1> SUFFICES /\ evidence'[arm] # {}
             /\ evidence' = [evidence EXCEPT ![arm] = evidence'[arm]]
             /\ \A other \in DOMAIN evidence : evidence'[arm] \cap evidence[other] = {}
  BY <1>1 DEF Publication!Deliver, Publication!Arms, evidence, Done
<1> QED
  BY <1>4, <1>5, <1>6, <1>7

LEMMA SameCardinality == \A S : Publication!Cardinality(S) = Cardinality(S)
  BY DEF Publication!Cardinality, Cardinality

\* Every artifact rests on as many runs as the cohort has scenarios.
LEMMA AsManyRuns ==
  ASSUME Inv, NEW c \in Grid, artifacts[c] # NoArtifact
  PROVE  RunsOf(c) # {} /\ Cardinality(RunsOf(c)) = Len(Scenarios)
<1> DEFINE trials == artifacts[c].trials
<1> DEFINE n == Len(Scenarios)
<1> DEFINE f == [i \in 1 .. n |-> trials[i].run]
<1>1. n \in Nat /\ n > 0
  BY CohortAssumption
<1>2. DOMAIN trials = 1 .. n /\ GoodTrials(trials, c) /\ \A i \in 1 .. n : trials[i] \in Trials
  BY DEF Inv, Typed, ArtifactSound
<1>3. RunsOf(c) = {f[i] : i \in 1 .. n}
  BY <1>2 DEF RunsOf, ToSet
<1>4. \A i, j \in 1 .. n : f[i] = f[j] => i = j
  <2>1. \A i \in 1 .. n : f[i] \in Nat
    BY <1>2 DEF Trials
  <2>2. \A i \in 1 .. n : \A j \in 1 .. i - 1 : f[j] < f[i]
    BY <1>1, <1>2 DEF GoodTrials
  <2> HIDE DEF f, trials
  <2> QED
    BY <1>1, <2>1, <2>2
<1>5. f \in Bijection(1 .. n, RunsOf(c))
  <2> HIDE DEF trials
  <2>1. f \in [1 .. n -> RunsOf(c)]
    BY <1>3
  <2> HIDE DEF f
  <2> QED
    BY <1>3, <1>4, <2>1 DEF Bijection, Injection, Surjection, IsInjective
<1>6. IsFiniteSet(1 .. n) /\ Cardinality(1 .. n) = n
  BY <1>1, FS_Interval
<1>7. ExistsBijection(1 .. n, RunsOf(c))
  BY <1>5 DEF ExistsBijection
<1>8. Cardinality(RunsOf(c)) = n
  BY <1>6, <1>7, FS_Bijection
<1> QED
  BY <1>1, <1>3, <1>8

\* The report rests on all the runs of all the artifacts.
LEMMA BuildReportPublishes ==
  ASSUME Inv, BuildReport
  PROVE  Publication!Publish
<1> DEFINE evidence == [c \in Grid |-> RunsOf(c)]
<1>1. report = NoReport /\ AllWritten /\ UNCHANGED artifacts
  BY DEF BuildReport
<1>2. PICK given \in Handed : report' = Drawn(given) /\ ToSet(given) = Grid
  BY Given
<1>3. Done'
  <2>1. report'.pairs = PairsOf(given) /\ DOMAIN report' # DOMAIN NoReport
    BY <1>2 DEF Drawn, NoReport
  <2> QED
    BY <2>1 DEF Done, NoReport
<1>4. {p.run : p \in report'.pairs} = UNION {RunsOf(c) : c \in Grid}
  <2>1. report'.pairs = PairsOf(given)
    BY <1>2 DEF Drawn
  <2>2. \A c \in Grid : \A t \in ToSet(artifacts[c].trials) : PairOf(c, t).run = t.run
    BY DEF PairOf
  <2>3. PairsOf(given) = UNION {{PairOf(c, t) : t \in ToSet(artifacts[c].trials)} : c \in Grid}
    BY <1>2 DEF PairsOf
  <2> QED
    BY <2>1, <2>2, <2>3 DEF RunsOf
<1>5. \A a, b \in Grid :
        RunsOf(a) # {} /\ Cardinality(RunsOf(a)) = Cardinality(RunsOf(b))
  BY <1>1, AsManyRuns DEF AllWritten
<1>6. evidence' = evidence
  BY <1>1 DEF RunsOf
<1>7. /\ DOMAIN evidence = Grid /\ \A c \in Grid : evidence[c] = RunsOf(c)
      /\ UNION {evidence[arm] : arm \in DOMAIN evidence} = UNION {RunsOf(c) : c \in Grid}
  OBVIOUS
<1> HIDE DEF evidence
<1>8. /\ \A a, b \in DOMAIN evidence :
           evidence[a] # {} /\ Cardinality(evidence[a]) = Cardinality(evidence[b])
      /\ {p.run : p \in report'.pairs} = UNION {evidence[arm] : arm \in DOMAIN evidence}
  BY <1>4, <1>5, <1>7
<1> QED
  BY <1>1, <1>3, <1>6, <1>8, SameCardinality DEF Publication!Publish, Publication!Arms, evidence, Done

\* Whatever scripts are repeated, die or are handed in twice, an artifact appears as a
\* whole, a repeated one replaces the runs of the first, and the report rests on all the
\* runs of all the artifacts and stays as it is (pareto_live.py 28-58).
THEOREM CampaignPublishes == Spec => StudyPublished
<1>1. Init => Publication!Init
  BY DEF Init, Publication!Init, RunsOf, NoArtifact, ToSet, Done
<1>2. ASSUME Inv, [Next]_vars
      PROVE  [Publication!Next]_(Publication!study)
  <2>1. CASE UNCHANGED <<artifacts, report>>
    BY <2>1 DEF Publication!study, RunsOf, Done
  <2>2. CASE Finish
    <3>1. PICK arm \in Grid : arm = script.arm
      BY <1>2, <2>2, Written
    <3>2. Publication!Deliver(arm)
      BY <1>2, <2>2, <3>1, FinishDelivers
    <3>3. arm \in Publication!Arms
      BY DEF Publication!Arms
    <3> QED
      BY <3>2, <3>3 DEF Publication!Next
  <2>3. CASE BuildReport
    BY <1>2, <2>3, BuildReportPublishes DEF Publication!Next
  <2> QED
    BY <1>2, <2>1, <2>2, <2>3
       DEF Next, Proceed, vars, Begin, Check, RunTrial, Die, Deploy, Upgrade
<1> QED
  BY <1>1, <1>2, InvHolds, PTL DEF Spec, StudyPublished, Publication!Spec

-----------------------------------------------------------------------------
(* What a report adds up. *)

\* The sum of numbers over a finite set is a number.
LEMMA SumIsNumber ==
  ASSUME NEW S, IsFiniteSet(S), NEW value \in [S -> Nat], NEW one,
         \A s \in SUBSET S : s # {} => one[s] \in s,
         NEW sum, IsSum(sum, S, value, one)
  PROVE  sum[S] \in Nat
<1> DEFINE T == {n \in Nat : \A s \in SUBSET S : Cardinality(s) = n => sum[s] \in Nat}
<1>1. \A s \in SUBSET S : IsFiniteSet(s) /\ Cardinality(s) \in Nat
  BY FS_Subset, FS_CardinalityType
<1>2. \A s \in SUBSET S : s # {} =>
        /\ s \ {one[s]} \in SUBSET S
        /\ Cardinality(s \ {one[s]}) = Cardinality(s) - 1
  BY <1>1, FS_RemoveElement
<1>3. \A s \in SUBSET S :
        sum[s] = IF s = {} THEN 0 ELSE value[one[s]] + sum[s \ {one[s]}]
  BY DEF IsSum
<1>4. 0 \in T
  <2>1. \A s \in SUBSET S : Cardinality(s) = 0 => s = {}
    BY <1>1, FS_EmptySet
  <2>2. \A s \in SUBSET S : s = {} => sum[s] = 0
    BY <1>3
  <2> QED
    BY <2>1, <2>2
<1>5. ASSUME NEW n \in T
      PROVE  n + 1 \in T
  <2> SUFFICES ASSUME NEW s \in SUBSET S, Cardinality(s) = n + 1
               PROVE  sum[s] \in Nat
    OBVIOUS
  <2>1. s # {}
    <3>1. n + 1 # 0
      OBVIOUS
    <3> HIDE DEF T
    <3> QED
      BY <3>1, FS_EmptySet
  <2>2. value[one[s]] \in Nat
    BY <2>1
  <2>3. sum[s \ {one[s]}] \in Nat
    <3>1. Cardinality(s \ {one[s]}) = n /\ s \ {one[s]} \in SUBSET S
      BY <1>2, <2>1
    <3> QED
      BY <3>1
  <2> QED
    BY <1>3, <2>1, <2>2, <2>3
<1>6. T = Nat
  <2>1. T \in SUBSET Nat
    OBVIOUS
  <2> HIDE DEF T
  <2> QED
    BY <1>4, <1>5, <2>1, NumberByNumber
<1> QED
  BY <1>1, <1>6

\* A total over trials whose costs are numbers is a number.
LEMMA TotalTyped ==
  ASSUME NEW field, NEW trials, NEW n \in Nat, DOMAIN trials = 1 .. n,
         \A i \in 1 .. n : trials[i][field] \in Nat
  PROVE  TotalOf(field, trials) \in Nat
<1> DEFINE S == DOMAIN trials
<1> DEFINE value == [i \in S |-> trials[i][field]]
<1> DEFINE one == [s \in SUBSET S |-> CHOOSE i \in s : TRUE]
<1> DEFINE Iterates(f) == f = [s \in SUBSET S |->
                               IF s = {} THEN 0
                               ELSE trials[CHOOSE i \in s : TRUE][field]
                                    + f[s \ {CHOOSE i \in s : TRUE}]]
<1>1. IsFiniteSet(S)
  BY FS_Interval
<1>2. value \in [S -> Nat]
  OBVIOUS
<1>3. \A s \in SUBSET S : s # {} => one[s] \in s
  OBVIOUS
<1>4. \E f : IsSum(f, S, value, one)
  <2> HIDE DEF value, one, S
  <2> QED
    BY <1>1, <1>2, <1>3, SumExists
<1>5. \A f : IsSum(f, S, value, one) <=> Iterates(f)
  <2> SUFFICES ASSUME NEW f
               PROVE  IsSum(f, S, value, one) <=> Iterates(f)
    OBVIOUS
  <2>1. \A s \in SUBSET S : s # {} =>
          value[one[s]] + f[s \ {one[s]}]
            = trials[CHOOSE i \in s : TRUE][field] + f[s \ {CHOOSE i \in s : TRUE}]
    BY <1>3
  <2> HIDE DEF value, one
  <2> QED
    BY <2>1 DEF IsSum
<1> DEFINE sum == CHOOSE f : Iterates(f)
<1>6. TotalOf(field, trials) = sum[S]
  BY DEF TotalOf, MapThenSumSet, MapThenFoldSet
<1>7. IsSum(sum, S, value, one)
  <2> HIDE DEF Iterates, S, value, one
  <2> QED
    BY <1>4, <1>5
<1> HIDE DEF sum, value, one, S
<1>8. sum[S] \in Nat
  BY <1>1, <1>2, <1>3, <1>7, SumIsNumber
<1> QED
  BY <1>6, <1>8

\* Every configuration has totals that are numbers, once it has its artifact.
LEMMA TotalsTyped ==
  ASSUME Inv, AllWritten, NEW c \in Grid
  PROVE  TotalsOf(c) \in [id: {c}, accuracy: Nat, money: Nat, tokens: Nat, calls: Nat,
                          evidence: Nat]
<1> DEFINE trials == artifacts[c].trials
<1> DEFINE n == Len(Scenarios)
<1>1. n \in Nat
  BY CohortAssumption
<1>2. DOMAIN trials = 1 .. n /\ \A i \in 1 .. n : trials[i] \in Trials
  BY DEF AllWritten, Inv, Typed, ArtifactSound
<1>3. \A field \in {"accuracy", "money", "tokens", "calls", "evidence"} :
        \A i \in 1 .. n : trials[i][field] \in Nat
  BY <1>2 DEF Trials
<1>4. \A field \in {"accuracy", "money", "tokens", "calls", "evidence"} :
        TotalOf(field, trials) \in Nat
  <2> HIDE DEF trials, n
  <2> QED
    BY <1>1, <1>2, <1>3, TotalTyped
<1> HIDE DEF trials
<1> QED
  BY <1>4 DEF TotalsOf, trials

\* Of the numbers of a grid there is a bound.
LEMMA GridBounded ==
  ASSUME NEW number \in [Grid -> Nat]
  PROVE  \E bound \in Nat : \A c \in Grid : number[c] <= bound
<1>1. Grid \subseteq Nat /\ Grid # {} /\ \A c \in Grid : c <= Len(FrozenGrid) /\ Len(FrozenGrid) \in Nat
  <2>1. Grid \subseteq DOMAIN FrozenGrid
    BY GridAssumption, Zenon
  <2>2. Grid # {}
    BY GridAssumption, Zenon
  <2> QED
    BY <2>1, <2>2 DEF FrozenGrid
<1> DEFINE Bounds(n, b) == \A c \in Grid : c <= n => number[c] <= b
<1> DEFINE T == {n \in Nat : \E b \in Nat : Bounds(n, b)}
<1>2. 0 \in T
  <2>1. 0 \notin Grid
    BY GridAssumption DEF FrozenGrid
  <2>2. Bounds(0, 0)
    BY <1>1, <2>1
  <2> HIDE DEF Bounds
  <2> QED
    BY <2>2
<1>3. ASSUME NEW n \in T
      PROVE  n + 1 \in T
  <2>1. n \in Nat /\ n + 1 \in Nat
    OBVIOUS
  <2>2. PICK b \in Nat : Bounds(n, b)
    OBVIOUS
  <2>3. CASE n + 1 \notin Grid
    <3>1. Bounds(n + 1, b)
      BY <1>1, <2>1, <2>2, <2>3
    <3> HIDE DEF Bounds
    <3> QED
      BY <2>1, <3>1
  <2>4. CASE n + 1 \in Grid
    <3> DEFINE top == IF b <= number[n + 1] THEN number[n + 1] ELSE b
    <3>1. top \in Nat /\ b <= top /\ number[n + 1] <= top
      BY <2>4
    <3> HIDE DEF top
    <3>2. Bounds(n + 1, top)
      BY <1>1, <2>1, <2>2, <2>4, <3>1
    <3> HIDE DEF Bounds
    <3> QED
      BY <2>1, <3>1, <3>2
  <2> QED
    BY <2>3, <2>4
<1>4. T = Nat
  <2>1. T \in SUBSET Nat
    OBVIOUS
  <2> HIDE DEF T
  <2> QED
    BY <1>2, <1>3, <2>1, NumberByNumber
<1>5. PICK b \in Nat : Bounds(Len(FrozenGrid), b)
  <2>1. Len(FrozenGrid) \in T
    <3> HIDE DEF T
    <3> QED
      BY <1>1, <1>4
  <2> HIDE DEF Bounds
  <2> QED
    BY <2>1
<1> QED
  BY <1>1, <1>5

\* The points of a report are those of numbers, one for every configuration.
LEMMA PointsTyped ==
  ASSUME Inv, AllWritten, NEW P, P = PointsOf({TotalsOf(c) : c \in Grid})
  PROVE  P # {} /\ \E bound \in Nat : PointsUpTo(P, bound)
<1> DEFINE basis == CostBasis({TotalsOf(c) : c \in Grid})
<1> DEFINE point == [c \in Grid |->
     [id |-> c, accuracy |-> TotalsOf(c).accuracy, proxy |-> ResourceProxy(TotalsOf(c)),
      cost |-> IF basis = "money" THEN TotalsOf(c).money ELSE ResourceProxy(TotalsOf(c))]]
<1>1. \A c \in Grid : /\ TotalsOf(c).id = c /\ TotalsOf(c).accuracy \in Nat
                      /\ TotalsOf(c).money \in Nat /\ ResourceProxy(TotalsOf(c)) \in Nat
  BY TotalsTyped DEF ResourceProxy
<1>2. P = {point[c] : c \in Grid}
  <2> DEFINE Seen(t) ==
        [id |-> t.id, accuracy |-> t.accuracy, proxy |-> ResourceProxy(t),
         cost |-> IF basis = "money" THEN t.money ELSE ResourceProxy(t)]
  <2>1. P = {Seen(t) : t \in {TotalsOf(c) : c \in Grid}}
    BY DEF PointsOf
  <2>2. \A c \in Grid : point[c] = Seen(TotalsOf(c))
    BY <1>1
  <2> HIDE DEF point, Seen
  <2> QED
    BY <2>1, <2>2
<1>3. \A c \in Grid : c \in Nat
  BY GridAssumption DEF FrozenGrid
<1>4. \A c \in Grid : point[c] \in Point /\ point[c].id = c
  <2> HIDE DEF basis
  <2> QED
    BY <1>1, <1>3 DEF Point
<1> HIDE DEF point
<1> DEFINE number == [c \in Grid |-> point[c].accuracy]
<1>5. PICK bound \in Nat : \A c \in Grid : number[c] <= bound
  <2>1. number \in [Grid -> Nat]
    BY <1>4 DEF Point
  <2> HIDE DEF number
  <2> QED
    BY <2>1, GridBounded
<1>6. PointsUpTo(P, bound)
  BY <1>2, <1>4, <1>5 DEF PointsUpTo
<1>7. Grid # {}
  BY GridAssumption, Zenon
<1> QED
  BY <1>2, <1>6, <1>7

\* A report was drawn from points of numbers, and names their best.
Drawing ==
  Done => /\ report.points # {} /\ report.best = Best(report.points)
          /\ \E bound \in Nat : PointsUpTo(report.points, bound)

\* It holds of the report that is built, and no report is built over.
LEMMA DrawingHolds == Spec => []Drawing
<1>1. Init => Drawing
  BY DEF Init, Drawing, Done
<1>2. ASSUME Inv, Drawing, [Next]_vars
      PROVE  Drawing'
  <2>1. CASE BuildReport
    <3>1. PICK given \in Handed : report' = Drawn(given)
      BY <2>1 DEF BuildReport
    <3> DEFINE points == PointsOf({TotalsOf(c) : c \in Grid})
    <3>2. report'.points = points /\ report'.best = Best(points)
      BY <3>1 DEF Drawn
    <3>3. points # {} /\ \E bound \in Nat : PointsUpTo(points, bound)
      BY <1>2, <2>1, PointsTyped DEF BuildReport
    <3> HIDE DEF points
    <3> QED
      BY <3>2, <3>3 DEF Drawing
  <2>2. CASE UNCHANGED report
    BY <1>2, <2>2 DEF Drawing, Done
  <2> QED
    BY <1>2, <2>1, <2>2
       DEF Next, Proceed, vars, Begin, Check, RunTrial, Finish, Die, Deploy, Upgrade
<1> QED
  BY <1>1, <1>2, InvHolds, PTL DEF Spec

\* What is off the frontier of a report is beaten by what is on it, and along it more cost
\* is more accuracy, whatever the agents scored and cost (pareto.py 100-114, 205).
THEOREM FrontierHolds == Spec => []FrontierIsSound
<1>1. Drawing => FrontierIsSound
  BY FrontierCovers, FrontierClimbs DEF Drawing, FrontierIsSound
<1> QED
  BY <1>1, DrawingHolds, PTL

\* A report calls exactly one configuration the best, and none buys more accuracy for its
\* cost, although the code looks for it on the frontier alone (pareto.py 205-231).
THEOREM BestHolds == Spec => []BestIsBest
<1>1. ASSUME Drawing, Done
      PROVE  /\ Cardinality(report.best) = 1
             /\ \A p \in report.best : Unbeaten(p, report.points)
  <2>1. PICK bound \in Nat : PointsUpTo(report.points, bound)
    BY <1>1 DEF Drawing
  <2>2. report.best = Best(report.points) /\ report.points # {}
    BY <1>1 DEF Drawing
  <2>3. PICK p : p \in report.best
    BY <2>1, <2>2, SomeIsBest
  <2>4. report.best = {p}
    BY <2>1, <2>2, <2>3, BestIsOne
  <2>5. Cardinality({p}) = 1
    BY FS_Singleton
  <2> QED
    BY <2>1, <2>2, <2>4, <2>5, BestIsUnbeaten
<1>2. Drawing => BestIsBest
  BY <1>1 DEF BestIsBest
<1> QED
  BY <1>2, DrawingHolds, PTL
=============================================================================

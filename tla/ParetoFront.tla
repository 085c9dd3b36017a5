----------------------------- MODULE ParetoFront -----------------------------
(***************************************************************************)
(* build_pareto_report (researchlab/pareto.py): which configurations no    *)
(* other one beats, in cost and accuracy at once, and which of them buys   *)
(* most accuracy for its cost.  Every configuration has as many trials as  *)
(* any other, so that totals stand for means; costs are in thousandths.    *)
(***************************************************************************)
EXTENDS Integers, FiniteSets

\* A point: the number of a configuration, its accuracy and its cost on the basis
\* of the report, beside the proxy that breaks ties between configurations free of cost.
Point == [id: Nat, accuracy: Nat, cost: Nat, proxy: Nat]

\* RESOURCE_PROXY_FORMULA.
ResourceProxy(total) == 1000 * total.calls + total.tokens + 100 * total.evidence

\* Money is the basis as soon as one configuration has cost any.
CostBasis(totals) == IF \E t \in totals : t.money > 0 THEN "money" ELSE "proxy"

PointsOf(totals) ==
  {[id |-> t.id, accuracy |-> t.accuracy, proxy |-> ResourceProxy(t),
    cost |-> IF CostBasis(totals) = "money" THEN t.money ELSE ResourceProxy(t)] : t \in totals}

\* Mutant: a configuration that is as good as another one beats it.
DominatesWeakly(q, p) ==
  /\ q.id # p.id
  /\ q.cost <= p.cost /\ q.accuracy >= p.accuracy

Dominates(q, p) ==
  /\ q.id # p.id
  /\ q.cost <= p.cost /\ q.accuracy >= p.accuracy
  /\ q.cost < p.cost \/ q.accuracy > p.accuracy

Dominated(p, P) == \E q \in P : Dominates(q, p)

Frontier(P) == {p \in P : ~Dominated(p, P)}

\* p stands before q: by more accuracy, then by a lower proxy, then by its number.
BeforeIfFree(p, q) ==
  \/ p.accuracy > q.accuracy
  \/ /\ p.accuracy = q.accuracy
     /\ p.proxy < q.proxy \/ (p.proxy = q.proxy /\ p.id < q.id)

\* The accuracy per cost of p is that of q, or more.
BuysAsMuch(p, q) == p.accuracy * q.cost >= q.accuracy * p.cost

\* p stands before q: by accuracy per cost, then accuracy, then cost and number.
BeforeIfPaid(p, q) ==
  /\ BuysAsMuch(p, q)
  /\ BuysAsMuch(q, p) =>
       \/ p.accuracy > q.accuracy
       \/ /\ p.accuracy = q.accuracy
          /\ p.cost < q.cost \/ (p.cost = q.cost /\ p.id < q.id)

Free(P) == {p \in P : p.cost = 0}

\* Mutant: the cheapest configuration of the frontier is the best.
BestIsCheapest(P) ==
  {p \in Frontier(P) : \A q \in Frontier(P) \ {p} : p.cost < q.cost}

\* The best configuration: of those that are free, if there are any.
Best(P) ==
  LET front == Frontier(P)
      free == Free(front)
  IN IF free # {} THEN {p \in free : \A q \in free \ {p} : BeforeIfFree(p, q)}
     ELSE {p \in front : \A q \in front \ {p} : BeforeIfPaid(p, q)}

-----------------------------------------------------------------------------
(* What a reader of the report relies on. *)

\* Every configuration that is not on the frontier is beaten by one that is.
Covered(P) ==
  \A p \in P \ Frontier(P) : \E q \in Frontier(P) : Dominates(q, p)

\* Along the frontier, what costs more is more accurate.
Climbing(P) ==
  \A p, q \in Frontier(P) :
    /\ p.cost < q.cost => p.accuracy < q.accuracy
    /\ p.cost = q.cost => p.accuracy = q.accuracy

\* Nothing, on the frontier or off it, buys more accuracy for its cost than p,
\* or more for nothing.
Unbeaten(p, P) ==
  \A q \in P : /\ BuysAsMuch(p, q)
               /\ q.cost = 0 => p.cost = 0 /\ p.accuracy >= q.accuracy
=============================================================================

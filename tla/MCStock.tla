------------------------------ MODULE MCStock ------------------------------
(* Instances of Stock for TLC. *)
EXTENDS Stock, TLC

CONSTANTS p1, p2

Line(p, n) == [product |-> p, quantity |-> n]
\* One piece of one product.
Single == {<<Line(p1, 1)>>}
\* Two products, in both orders.
Crossed == {<<Line(p1, 1), Line(p2, 1)>>, <<Line(p2, 1), Line(p1, 1)>>}
FirstSingle == <<Line(p1, 1)>>
Two == [p \in Products |-> 2]
UpDown == {1, -1}
Down == {-1}

\* What Next comes to where Ops has only sales and adjustments: its other disjuncts are then
\* disabled.
FloorNext ==
  \/ \E h \in Handlers :
       \/ \E s \in Sales, ls \in Orders : StartSale(h, s, ls)
       \/ InsertLines(h) \/ SellLine(h) \/ SellShort(h) \/ SellTimeout(h) \/ SellDeadlock(h)
       \/ DetachedSellLine(h) \/ DetachedSellFails(h) \/ CommitSale(h) \/ DetachedCommit(h)
       \/ AdjustStep(h) \/ Abort(h) \/ Done(h)
  \/ \E m \in Modes : ChangeSetting(m)
FloorSpec == Init /\ [][FloorNext]_vars

StockSymmetry == Permutations(Handlers) \cup Permutations(Sales)
=============================================================================

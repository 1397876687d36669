--------------------------- MODULE MCFulfillment ---------------------------
(* Small instances of Fulfillment for TLC.                                 *)
EXTENDS Fulfillment, TLC, SequencesExt

CONSTANTS o1, o2, p1, p2

Item(p, n) == [product |-> p, quantity |-> n]

\* Two orders that take the same two products in opposite orders; the
\* second names one product twice.
TwoOrders ==
  o1 :> <<Item(p1, 1), Item(p2, 1)>> @@ o2 :> <<Item(p2, 1), Item(p1, 1), Item(p1, 1)>>

RunningUnits ==
  [o \in Orders |-> [p \in Products |-> [i \in 0..Len(Lines[o]) |->
    FoldSeq(LAMBDA l, n : n + (IF l.product = p THEN l.quantity ELSE 0),
            0, SubSeq(Lines[o], 1, i))]]]

\* Either order can be fulfilled, not both.
ScarceStock == p1 :> 2 @@ p2 :> 1

Restocks == {-1, 1}
BothWays == {<<p1, p2>>, <<p2, p1>>}
=============================================================================

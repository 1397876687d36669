----------------------------- MODULE Warehouse -----------------------------
(***************************************************************************)
(* What the order and inventory services promise: every operation takes    *)
(* effect at once, an order is fulfilled whole or not at all, and every    *)
(* change of stock is in the inventory ledger.  No locks, no sessions.     *)
(***************************************************************************)
EXTENDS OrderBook

VARIABLES
  order,        \* order[o]: its status; "none" until it is created
  stock,        \* stock[p]: products.stock_quantity
  net,          \* net[p]: the sum of the ledger's changes of p
  taken         \* taken[o][p]: the units of p the ledger books for order o

vars == <<order, stock, net, taken>>

Init ==
  /\ order = [o \in Orders |-> "none"]
  /\ stock = Opening
  /\ net = [p \in Products |-> 0]
  /\ taken = [o \in Orders |-> [p \in Products |-> 0]]

Place(o) ==
  /\ order[o] = "none"
  /\ order' = [order EXCEPT ![o] = "pending"]
  /\ UNCHANGED <<stock, net, taken>>

\* Any move that takes no stock.
Advance(o, s) ==
  /\ order[o] # "none"
  /\ s \in Allowed[order[o]] \ {"processing"}
  /\ order' = [order EXCEPT ![o] = s]
  /\ UNCHANGED <<stock, net, taken>>

Fulfill(o) ==
  /\ order[o] = "pending"
  /\ \A p \in Products : Demand(o, p) <= stock[p]
  /\ order' = [order EXCEPT ![o] = "processing"]
  /\ stock' = [p \in Products |-> stock[p] - Demand(o, p)]
  /\ net' = [p \in Products |-> net[p] - Demand(o, p)]
  /\ taken' = [taken EXCEPT ![o] = [p \in Products |-> Demand(o, p)]]

Adjust(p, c) ==
  /\ stock[p] + c >= 0
  /\ stock' = [stock EXCEPT ![p] = @ + c]
  /\ net' = [net EXCEPT ![p] = @ + c]
  /\ UNCHANGED <<order, taken>>

Next ==
  \/ \E o \in Orders : Place(o) \/ Fulfill(o) \/ \E s \in Statuses : Advance(o, s)
  \/ \E p \in Products, c \in Changes : Adjust(p, c)

Spec == Init /\ [][Next]_vars
=============================================================================

----------------------------- MODULE OrderBook -----------------------------
(***************************************************************************)
(* The orders and products that OrderService and InventoryService work on, *)
(* and the parts of their rules that need no state.                        *)
(***************************************************************************)
EXTENDS Integers, Sequences

CONSTANTS
  Orders,       \* rows of orders, created by convert_quote_to_order
  Products,     \* rows of products
  Lines,        \* Lines[o]: the order's items, in the order the query returns them
  Units,        \* Units[o][p][i]: units of p in the first i lines of o
  Opening,      \* Opening[p]: stock_quantity before the first recorded change
  Changes,      \* quantities that update_inventory is called with
  None

ASSUME OrderBookTypes ==
  /\ Lines \in [Orders -> Seq([product : Products, quantity : Nat \ {0}])]
  /\ \A o \in Orders : Lines[o] # <<>>
  /\ Opening \in [Products -> Nat]
  /\ Changes \subseteq Int
  /\ Orders \cap Products = {}
  /\ None \notin Orders \cup Products

\* Units is the running sum of the lines, as duplicate lines add up.
ASSUME UnitsAddUp ==
  \A o \in Orders, p \in Products :
    /\ Units[o][p] \in [0..Len(Lines[o]) -> Nat]
    /\ Units[o][p][0] = 0
    /\ \A i \in 1..Len(Lines[o]) :
         Units[o][p][i] = Units[o][p][i - 1]
                          + (IF Lines[o][i].product = p THEN Lines[o][i].quantity ELSE 0)

Demand(o, p) == Units[o][p][Len(Lines[o])]

Statuses == {"pending", "processing", "shipped", "delivered", "cancelled"}

\* ALLOWED_TRANSITIONS.
Allowed == [s \in Statuses |->
  CASE s = "pending" -> {"processing", "cancelled"}
    [] s = "processing" -> {"shipped"}
    [] s = "shipped" -> {"delivered"}
    [] OTHER -> {}]

\* The statuses of an order whose stock has left the shelves.
Fulfilled == {"processing", "shipped", "delivered"}
=============================================================================

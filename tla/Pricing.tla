------------------------------- MODULE Pricing -------------------------------
(***************************************************************************)
(* What a quote costs: QuoteService's line items, totals and discounts, in *)
(* cents and hundredths of a percent, up to the order it is converted to.  *)
(* Every operation locks the quote's row (get_with_items), so an operation *)
(* is one step.  Nothing in src/ calls the three operations on line items; *)
(* they are modelled as the service offers them.                           *)
(***************************************************************************)
EXTENDS Integers, Functions

CONSTANTS
  Items,        \* line items a quote may have
  Prices,       \* catalog prices, in cents
  Quantities,   \* requested numbers of units
  Percents,     \* requested discounts, in hundredths of a percent
  Limit,        \* discount_limit of the customer
  MaxAmount     \* bound: the largest amount of a Numeric(12, 2) column

Cap == 2500

ASSUME PricingTypes ==
  /\ Prices \subseteq Nat
  /\ Quantities \subseteq Int
  /\ Percents \subseteq Nat
  /\ Limit \in 0..Cap
  /\ MaxAmount \in Nat

VARIABLES
  status, lines, percent, subtotal, discount, total,  \* the quote and its items
  held,       \* the proposal a held quote waits for
  granted,    \* history: what was last approved, by rule or by a manager
  order       \* the order it became

quote == <<status, lines, percent, subtotal, discount, total>>
vars == <<quote, held, granted, order>>

NoLine == [quantity |-> 0, price |-> 0]
NoGrant == [lines |-> [i \in Items |-> NoLine], percent |-> 0, total |-> 0, by |-> "none"]
NoOrder == [lines |-> [i \in Items |-> NoLine], subtotal |-> 0, total |-> 0]
NotHeld == [percent |-> 0, previous |-> "none"]

Init ==
  /\ status = "absent"
  /\ lines = [i \in Items |-> NoLine]
  /\ percent = 0 /\ subtotal = 0 /\ discount = 0 /\ total = 0
  /\ held = NotHeld
  /\ granted = NoGrant
  /\ order = NoOrder

-----------------------------------------------------------------------------
(* The arithmetic.                                                         *)

\* QuoteLineItem accepts a positive quantity and a price of whole cents.
Lines == [quantity : {n \in Quantities : n > 0}, price : Prices]

LineTotal(line) == line.quantity * line.price
Subtotal(ls) == FoldFunction(+, 0, [i \in Items |-> LineTotal(ls[i])])

\* quantize(Decimal("0.01"), ROUND_HALF_UP) of a nonnegative amount.
Truncated(amount, hundredths) == (amount * hundredths) \div 10000    \* mutant
DiscountAmount(amount, hundredths) == (2 * amount * hundredths + 10000) \div 20000

TotalsOfOldLines(ls, p) ==                      \* mutant: before the edit is flushed
  /\ Subtotal(lines) \in 0..MaxAmount
  /\ subtotal' = Subtotal(lines)
  /\ discount' = DiscountAmount(Subtotal(lines), p)
  /\ total' = Subtotal(lines) - DiscountAmount(Subtotal(lines), p)

\* recalculate_quote; an amount too large for its column rolls all back.
TotalsOf(ls, p) ==
  /\ Subtotal(ls) \in 0..MaxAmount
  /\ subtotal' = Subtotal(ls)
  /\ discount' = DiscountAmount(Subtotal(ls), p)
  /\ total' = Subtotal(ls) - DiscountAmount(Subtotal(ls), p)

Recalculate(ls, p) ==
  /\ lines' = ls
  /\ percent' = p
  /\ TotalsOf(ls, p)

-----------------------------------------------------------------------------
(* create_quote and the line items.                                        *)

Empty(ls) == \A i \in Items : ls[i] = NoLine

Create ==
  /\ status = "absent"
  /\ \E ls \in [Items -> Lines \cup {NoLine}] : ~Empty(ls) /\ Recalculate(ls, 0)
  /\ status' = "draft"
  /\ UNCHANGED <<held, granted, order>>

\* require_editable; expiry is part of QuoteApproval.
Editable == status \in {"draft", "approved"}

EditKeepingStatus(ls) ==                        \* mutant
  /\ Editable
  /\ Recalculate(ls, percent)
  /\ UNCHANGED <<status, held, granted, order>>

\* An edited quote is a draft again and keeps its discount.
Edit(ls) ==
  /\ Editable
  /\ Recalculate(ls, percent)
  /\ status' = "draft"
  /\ UNCHANGED <<held, granted, order>>

AddLine(i) ==
  /\ lines[i] = NoLine
  /\ \E line \in Lines : Edit([lines EXCEPT ![i] = line])

UpdateLine(i) ==
  /\ lines[i] # NoLine
  /\ \E line \in Lines : Edit([lines EXCEPT ![i] = line])

RemoveLine(i) ==
  /\ lines[i] # NoLine
  /\ Edit([lines EXCEPT ![i] = NoLine])

-----------------------------------------------------------------------------
(* Discounts.                                                              *)

Grant(p, by) ==
  granted' = [lines |-> lines, percent |-> p, by |-> by,
              total |-> Subtotal(lines) - DiscountAmount(Subtotal(lines), p)]

\* Within the customer's limit a discount is approved at once.
Discount(p) ==
  /\ Editable
  /\ p <= Cap /\ p <= Limit
  /\ Recalculate(lines, p)
  /\ status' = "approved"
  /\ Grant(p, "rule")
  /\ UNCHANGED <<held, order>>

\* Above it the quote is held; nothing of its price changes (review_action).
Propose(p) ==
  /\ Editable
  /\ p <= Cap /\ p > Limit
  /\ status' = "pending_approval"
  /\ held' = [percent |-> p, previous |-> status]
  /\ UNCHANGED <<lines, percent, subtotal, discount, total, granted, order>>

Approve ==
  /\ status = "pending_approval"
  /\ Recalculate(lines, held.percent)
  /\ status' = "approved"
  /\ Grant(held.percent, "manager")
  /\ held' = NotHeld
  /\ UNCHANGED order

RejectedAsApproved == "approved"                \* mutant: not the previous status
RejectedStatus == held.previous
Reject ==
  /\ status = "pending_approval"
  /\ status' = RejectedStatus
  /\ held' = NotHeld
  /\ UNCHANGED <<lines, percent, subtotal, discount, total, granted, order>>

-----------------------------------------------------------------------------
(* convert_to_order, create_from_quote.                                    *)
Convert ==
  /\ status = "approved"
  /\ ~Empty(lines)
  /\ status' = "converted"
  /\ order' = [lines |-> lines, subtotal |-> subtotal, total |-> total]
  /\ UNCHANGED <<lines, percent, subtotal, discount, total, held, granted>>

Next ==
  \/ Create \/ Approve \/ Reject \/ Convert
  \/ \E i \in Items : AddLine(i) \/ UpdateLine(i) \/ RemoveLine(i)
  \/ \E p \in Percents : Discount(p) \/ Propose(p)

Spec == Init /\ [][Next]_vars

-----------------------------------------------------------------------------
(* Properties.                                                             *)

LineSets == [Items -> Lines \cup {NoLine}]

\* Amounts fit their columns, and only a held quote has a proposal.
TypeOK ==
  /\ status \in {"absent", "draft", "approved", "pending_approval", "converted"}
  /\ lines \in LineSets
  /\ percent \in 0..Cap
  /\ {subtotal, discount, total} \subseteq 0..MaxAmount
  /\ held \in [percent : 0..Cap, previous : {"none", "draft", "approved"}]
  /\ status = "pending_approval" <=> held.previous # "none"
  /\ granted \in [lines : LineSets, percent : 0..Cap, total : 0..MaxAmount,
                  by : {"none", "rule", "manager"}]
  /\ order \in [lines : LineSets, subtotal : 0..MaxAmount, total : 0..MaxAmount]

\* After any sequence of edits and discounts the three stored amounts are
\* those of the stored lines: they add up to the cent (recalculate_quote).
TotalsAddUp ==
  status # "absent" =>
    /\ subtotal = Subtotal(lines)
    /\ subtotal = discount + total
    /\ discount >= 0 /\ total >= 0

Abs(n) == IF n < 0 THEN -n ELSE n
Miss(cents) == Abs(10000 * cents - subtotal * percent)

\* The discount is the exact percentage rounded to the nearest cent, and a
\* tie goes to the customer (ROUND_HALF_UP).
NearestCent ==
  \A cents \in 0..subtotal :
    /\ Miss(discount) <= Miss(cents)
    /\ Miss(discount) = Miss(cents) => cents <= discount

\* An order charges what was approved: its lines, its total and a discount
\* within the customer's limit or given by a manager, whatever edits,
\* proposals and rejections the quote went through.
OrderAsApproved ==
  status = "converted" =>
    /\ order.lines = granted.lines /\ order.total = granted.total
    /\ order.subtotal = Subtotal(order.lines)
    /\ granted.by = "rule" => granted.percent <= Limit
    /\ granted.by # "none"
=============================================================================

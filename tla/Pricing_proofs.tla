---------------------------- MODULE Pricing_proofs ----------------------------
(***************************************************************************)
(* Pricing for all lines, prices, discounts and column widths.  The        *)
(* rounding is proved once, for any amount and percentage; the totals and  *)
(* the order then follow from the invariant that an approved quote is      *)
(* still what was granted.  What Subtotal computes (a fold) is left to TLC:*)
(* only that the stored subtotal is the Subtotal of the stored lines.      *)
(***************************************************************************)
EXTENDS Pricing, TLAPS

-----------------------------------------------------------------------------
(* Rounding.                                                               *)

\* Half up: twice the error is above minus a cent and at most a cent.
LEMMA HalfUp ==
  ASSUME NEW n \in Nat, NEW d \in Int, d = (2 * n + 10000) \div 20000
  PROVE  d >= 0 /\ 20000 * d - 2 * n <= 10000 /\ -10000 < 20000 * d - 2 * n
OBVIOUS

\* A discount is a natural number of cents, at most the amount itself.
LEMMA DiscountBounds ==
  ASSUME NEW a \in Nat, NEW p \in Nat, p <= 10000
  PROVE  DiscountAmount(a, p) \in Int /\ 0 <= DiscountAmount(a, p) /\ DiscountAmount(a, p) <= a
<1>1. a * p \in Nat /\ a * p <= a * 10000
  <2>1. a * (10000 - p) >= 0
    OBVIOUS
  <2>2. a * (10000 - p) = a * 10000 - a * p
    OBVIOUS
  <2>3. QED
    BY <2>1, <2>2
<1>2. PICK n \in Nat : n = a * p
  BY <1>1
<1>3. DiscountAmount(a, p) = (2 * n + 10000) \div 20000
  <2>1. 2 * a * p = 2 * n
    BY <1>2
  <2>2. QED
    BY <2>1 DEF DiscountAmount
<1>4. PICK d \in Int : d = DiscountAmount(a, p)
  BY <1>3
<1>5. d >= 0 /\ 20000 * d - 2 * n <= 10000
  BY <1>3, <1>4, HalfUp
<1>6. n <= 10000 * a
  BY <1>1, <1>2
<1>7. d <= a
  BY <1>5, <1>6
<1>8. QED
  BY <1>4, <1>5, <1>7

\* It misses the exact percentage by half a cent at most, and not by half a
\* cent downwards.
LEMMA DiscountMiss ==
  ASSUME NEW a \in Nat, NEW p \in Nat, NEW n \in Nat, n = a * p,
         NEW d \in Int, d = DiscountAmount(a, p)
  PROVE  20000 * d - 2 * n <= 10000 /\ -10000 < 20000 * d - 2 * n
<1>1. 2 * a * p = 2 * n
  OBVIOUS
<1>2. d = (2 * n + 10000) \div 20000
  BY <1>1 DEF DiscountAmount
<1>3. QED
  BY <1>2

\* Any integer that close is the nearest one, the larger one of two.
LEMMA Nearest ==
  ASSUME NEW n \in Nat, NEW d \in Int, NEW c \in Int,
         20000 * d - 2 * n <= 10000, -10000 < 20000 * d - 2 * n
  PROVE  /\ Abs(10000 * d - n) <= Abs(10000 * c - n)
         /\ Abs(10000 * d - n) = Abs(10000 * c - n) => c <= d
BY DEF Abs

-----------------------------------------------------------------------------
(* The invariant.                                                          *)

\* An approved quote is what was granted: an edit since made it a draft.
ApprovedIsGranted ==
  \/ status = "approved"
  \/ status = "pending_approval" /\ held.previous = "approved"
  => /\ granted.lines = lines /\ granted.percent = percent /\ granted.total = total
     /\ granted.by # "none"

GrantedByRight ==
  /\ granted.by = "rule" => granted.percent <= Limit
  /\ status = "pending_approval" => held.percent > Limit

DiscountIsComputed == discount = DiscountAmount(subtotal, percent)

IInv == TypeOK /\ TotalsAddUp /\ DiscountIsComputed /\ ApprovedIsGranted /\ GrantedByRight /\ OrderAsApproved

\* The recalculated totals add up and fit.
LEMMA Recalculated ==
  ASSUME NEW ls, NEW p \in Nat, p <= Cap, Recalculate(ls, p)
  PROVE  /\ lines' = ls /\ percent' = p
         /\ subtotal' = Subtotal(ls) /\ discount' = DiscountAmount(subtotal', p)
         /\ total' = Subtotal(ls) - DiscountAmount(Subtotal(ls), p)
         /\ subtotal' \in 0..MaxAmount /\ discount' \in 0..MaxAmount /\ total' \in 0..MaxAmount
         /\ TotalsAddUp' /\ DiscountIsComputed'
<1>1. Subtotal(ls) \in 0..MaxAmount /\ MaxAmount \in Nat
  BY PricingTypes DEF Recalculate, TotalsOf
<1>2. PICK a \in Nat : a = Subtotal(ls) /\ a <= MaxAmount
  BY <1>1
<1>3. p <= 10000
  BY DEF Cap
<1>4. DiscountAmount(a, p) \in Int /\ 0 <= DiscountAmount(a, p) /\ DiscountAmount(a, p) <= a
  BY <1>3, DiscountBounds
<1>5. PICK d \in Int : d = DiscountAmount(a, p) /\ 0 <= d /\ d <= a
  BY <1>4
<1>6. lines' = ls /\ percent' = p /\ subtotal' = a /\ discount' = d /\ total' = a - d
  BY <1>2, <1>5 DEF Recalculate, TotalsOf
<1>7. Subtotal(lines)' = Subtotal(ls)
  BY <1>6
<1>8. TotalsAddUp' /\ DiscountIsComputed'
  BY <1>2, <1>5, <1>6, <1>7 DEF TotalsAddUp, DiscountIsComputed
<1>9. QED
  BY <1>1, <1>2, <1>5, <1>6, <1>8

\* An edit leaves a draft whatever the quote was.
LEMMA EditKeeps ==
  ASSUME IInv, NEW ls \in LineSets, Edit(ls)
  PROVE  IInv'
<1>1. percent \in Nat /\ percent <= Cap
  <2>1. percent \in 0..Cap /\ Cap \in Nat
    BY DEF IInv, TypeOK, Cap
  <2>2. QED
    BY <2>1
<1>2. /\ lines' = ls /\ percent' = percent /\ subtotal' \in 0..MaxAmount
      /\ discount' \in 0..MaxAmount /\ total' \in 0..MaxAmount
      /\ TotalsAddUp' /\ DiscountIsComputed'
  BY <1>1, Recalculated DEF Edit
<1>3. status' = "draft" /\ Editable /\ UNCHANGED <<held, granted, order>>
  BY DEF Edit
<1>4. TypeOK'
  BY <1>2, <1>3 DEF IInv, TypeOK, Editable
<1>5. ApprovedIsGranted' /\ GrantedByRight' /\ OrderAsApproved'
  BY <1>3 DEF IInv, ApprovedIsGranted, GrantedByRight, OrderAsApproved
<1>6. QED
  BY <1>2, <1>4, <1>5 DEF IInv

\* A discount given by the rule or by a manager is the one granted.
LEMMA GrantKeeps ==
  ASSUME IInv, NEW p \in Nat, p <= Cap, NEW by \in {"rule", "manager"}, by = "rule" => p <= Limit,
         Recalculate(lines, p), Grant(p, by), status' = "approved",
         held' \in [percent : 0..Cap, previous : {"none"}], order' = order
  PROVE  IInv'
<1>1. Limit \in 0..Cap /\ MaxAmount \in Nat /\ Cap \in Nat
  BY PricingTypes DEF Cap
<1>2. /\ lines' = lines /\ percent' = p /\ subtotal' \in 0..MaxAmount
      /\ discount' \in 0..MaxAmount /\ total' \in 0..MaxAmount
      /\ total' = Subtotal(lines) - DiscountAmount(Subtotal(lines), p)
      /\ TotalsAddUp' /\ DiscountIsComputed'
  BY Recalculated
<1>3. granted' = [lines |-> lines, percent |-> p, by |-> by, total |-> total']
  BY <1>2 DEF Grant
<1>4. TypeOK'
  BY <1>1, <1>2, <1>3 DEF IInv, TypeOK
<1>5. ApprovedIsGranted' /\ GrantedByRight' /\ OrderAsApproved'
  BY <1>2, <1>3 DEF ApprovedIsGranted, GrantedByRight, OrderAsApproved
<1>6. QED
  BY <1>2, <1>4, <1>5 DEF IInv

LEMMA InitInv == Init => IInv
<1> SUFFICES ASSUME Init
             PROVE  IInv
  OBVIOUS
<1>1. MaxAmount \in Nat /\ Cap \in Nat /\ 0 \in 0..Cap /\ 0 \in 0..MaxAmount
  BY PricingTypes DEF Cap
<1>2. lines \in LineSets /\ NoGrant.lines \in LineSets /\ NoOrder.lines \in LineSets
  BY DEF Init, LineSets, NoGrant, NoOrder
<1>3. NoGrant \in [lines : LineSets, percent : 0..Cap, total : 0..MaxAmount, by : {"none", "rule", "manager"}]
  BY <1>1, <1>2 DEF NoGrant
<1>4. NoOrder \in [lines : LineSets, subtotal : 0..MaxAmount, total : 0..MaxAmount]
  BY <1>1, <1>2 DEF NoOrder
<1>5. TypeOK
  BY <1>1, <1>2, <1>3, <1>4 DEF Init, TypeOK, NotHeld
<1>0. DiscountIsComputed
  BY DEF Init, DiscountIsComputed, DiscountAmount
<1>6. TotalsAddUp /\ ApprovedIsGranted /\ GrantedByRight /\ OrderAsApproved
  BY DEF Init, TotalsAddUp, ApprovedIsGranted, GrantedByRight, OrderAsApproved,
         NoGrant, NotHeld
<1>7. QED
  BY <1>0, <1>5, <1>6 DEF IInv

LEMMA StepInv == IInv /\ [Next]_vars => IInv'
<1> SUFFICES ASSUME IInv, [Next]_vars
             PROVE  IInv'
  OBVIOUS
<1>n. Limit \in 0..Cap /\ MaxAmount \in Nat /\ Cap \in Nat /\ Percents \subseteq Nat
  BY PricingTypes DEF Cap
<1>1. CASE Create
  <2>1. PICK ls \in LineSets : Recalculate(ls, 0)
    BY <1>1 DEF Create, LineSets
  <2>2. 0 \in Nat /\ 0 <= Cap
    BY <1>n
  <2>3. /\ lines' = ls /\ percent' = 0 /\ subtotal' \in 0..MaxAmount
        /\ discount' \in 0..MaxAmount /\ total' \in 0..MaxAmount
        /\ TotalsAddUp' /\ DiscountIsComputed'
    BY <2>1, <2>2, Recalculated
  <2>4. status = "absent" /\ status' = "draft" /\ UNCHANGED <<held, granted, order>>
    BY <1>1 DEF Create
  <2>5. TypeOK'
    BY <2>2, <2>3, <2>4 DEF IInv, TypeOK
  <2>6. ApprovedIsGranted' /\ GrantedByRight' /\ OrderAsApproved'
    BY <2>4 DEF IInv, ApprovedIsGranted, GrantedByRight, OrderAsApproved
  <2>7. QED
    BY <2>3, <2>5, <2>6 DEF IInv
<1>2. ASSUME NEW i \in Items, AddLine(i) \/ UpdateLine(i) \/ RemoveLine(i)
      PROVE  IInv'
  <2>1. PICK line \in Lines \cup {NoLine} : Edit([lines EXCEPT ![i] = line])
    BY <1>2 DEF AddLine, UpdateLine, RemoveLine
  <2>2. [lines EXCEPT ![i] = line] \in LineSets
    BY <2>1 DEF IInv, TypeOK, LineSets
  <2>3. QED
    BY <2>1, <2>2, EditKeeps
<1>3. ASSUME NEW p \in Percents, Discount(p)
      PROVE  IInv'
  <2>1. held' \in [percent : 0..Cap, previous : {"none"}]
    BY <1>3 DEF Discount, Editable, IInv, TypeOK
  <2>2. QED
    BY <1>3, <1>n, <2>1, GrantKeeps DEF Discount
<1>4. ASSUME NEW p \in Percents, Propose(p)
      PROVE  IInv'
  <2>1. /\ status \in {"draft", "approved"} /\ status' = "pending_approval" /\ p > Limit
        /\ held' = [percent |-> p, previous |-> status] /\ p \in 0..Cap
        /\ UNCHANGED <<lines, percent, subtotal, discount, total, granted, order>>
    BY <1>4, <1>n DEF Propose, Editable
  <2>2. TypeOK'
    BY <2>1 DEF IInv, TypeOK
  <2>3. TotalsAddUp' /\ DiscountIsComputed'
    BY <2>1 DEF IInv, TotalsAddUp, DiscountIsComputed
  <2>4. ApprovedIsGranted' /\ GrantedByRight' /\ OrderAsApproved'
    BY <2>1 DEF IInv, ApprovedIsGranted, GrantedByRight, OrderAsApproved
  <2>5. QED
    BY <2>2, <2>3, <2>4 DEF IInv
<1>5. CASE Approve
  <2>1. held.percent \in Nat /\ held.percent <= Cap
    BY <1>n DEF IInv, TypeOK
  <2>2. held' \in [percent : 0..Cap, previous : {"none"}]
    BY <1>5, <1>n DEF Approve, NotHeld, Cap
  <2>3. QED
    BY <1>5, <2>1, <2>2, GrantKeeps DEF Approve
<1>6. CASE Reject
  <2>1. /\ status = "pending_approval" /\ status' = held.previous /\ held' = NotHeld
        /\ UNCHANGED <<lines, percent, subtotal, discount, total, granted, order>>
    BY <1>6 DEF Reject, RejectedStatus
  <2>2. held.previous \in {"draft", "approved"}
    BY <2>1 DEF IInv, TypeOK
  <2>3. TypeOK'
    BY <1>n, <2>1, <2>2 DEF IInv, TypeOK, NotHeld
  <2>4. TotalsAddUp' /\ DiscountIsComputed'
    BY <2>1 DEF IInv, TotalsAddUp, DiscountIsComputed
  <2>5. ApprovedIsGranted' /\ GrantedByRight' /\ OrderAsApproved'
    BY <2>1, <2>2 DEF IInv, ApprovedIsGranted, GrantedByRight, OrderAsApproved
  <2>6. QED
    BY <2>3, <2>4, <2>5 DEF IInv
<1>7. CASE Convert
  <2>1. /\ status = "approved" /\ status' = "converted"
        /\ order' = [lines |-> lines, subtotal |-> subtotal, total |-> total]
        /\ UNCHANGED <<lines, percent, subtotal, discount, total, held, granted>>
    BY <1>7 DEF Convert
  <2>2. TypeOK'
    BY <2>1 DEF IInv, TypeOK
  <2>3. TotalsAddUp' /\ DiscountIsComputed'
    BY <2>1 DEF IInv, TotalsAddUp, DiscountIsComputed
  <2>4. /\ granted.lines = lines /\ granted.percent = percent /\ granted.total = total
        /\ granted.by # "none" /\ subtotal = Subtotal(lines)
        /\ granted.by = "rule" => granted.percent <= Limit
    BY <2>1 DEF IInv, ApprovedIsGranted, TotalsAddUp, GrantedByRight
  <2>5. ApprovedIsGranted' /\ GrantedByRight' /\ OrderAsApproved'
    BY <2>1, <2>4 DEF ApprovedIsGranted, GrantedByRight, OrderAsApproved
  <2>6. QED
    BY <2>2, <2>3, <2>5 DEF IInv
<1>8. CASE UNCHANGED vars
  BY <1>8 DEF vars, quote, IInv, TypeOK, TotalsAddUp, DiscountIsComputed, ApprovedIsGranted,
              GrantedByRight, OrderAsApproved
<1>9. QED
  BY <1>1, <1>2, <1>3, <1>4, <1>5, <1>6, <1>7, <1>8 DEF Next

LEMMA Invariance == Spec => []IInv
BY InitInv, StepInv, PTL DEF Spec

-----------------------------------------------------------------------------
(* The theorems.                                                           *)

\* Amounts fit their columns, and only a held quote has a proposal.
THEOREM Typing == Spec => []TypeOK
BY Invariance, PTL DEF IInv

\* The stored amounts are always those of the stored lines, to the cent.
THEOREM Totals == Spec => []TotalsAddUp
BY Invariance, PTL DEF IInv

\* A stored discount is the exact percentage rounded to the nearest cent,
\* ties upwards, for any amount and percentage.
THEOREM Rounding == Spec => []NearestCent
<1>1. IInv => NearestCent
  <2> SUFFICES ASSUME IInv, NEW cents \in 0..subtotal
               PROVE  /\ Miss(discount) <= Miss(cents)
                      /\ Miss(discount) = Miss(cents) => cents <= discount
    BY DEF NearestCent
  <2>1. subtotal \in Nat /\ percent \in 0..10000 /\ cents \in Int
    BY PricingTypes DEF IInv, TypeOK, Cap
  <2>2. PICK a \in Nat, p \in Nat : a = subtotal /\ p = percent /\ p <= 10000
    BY <2>1
  <2>3. PICK n \in Nat : n = a * p
    BY <2>2
  <2>4. PICK d \in Int : d = DiscountAmount(a, p)
    BY <2>2, DiscountBounds
  <2>5. 20000 * d - 2 * n <= 10000 /\ -10000 < 20000 * d - 2 * n
    BY <2>2, <2>3, <2>4, DiscountMiss
  <2>6. /\ Abs(10000 * d - n) <= Abs(10000 * cents - n)
        /\ Abs(10000 * d - n) = Abs(10000 * cents - n) => cents <= d
    BY <2>1, <2>5, Nearest
  <2>7. discount = d /\ subtotal * percent = n
    BY <2>2, <2>3, <2>4 DEF IInv, DiscountIsComputed
  <2>8. QED
    BY <2>6, <2>7 DEF Miss
<1>2. QED
  BY <1>1, Invariance, PTL

\* An order charges exactly what was last approved for its quote.
THEOREM OrdersAsApproved == Spec => []OrderAsApproved
BY Invariance, PTL DEF IInv
=============================================================================

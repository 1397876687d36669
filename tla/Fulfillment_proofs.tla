------------------------- MODULE Fulfillment_proofs -------------------------
(***************************************************************************)
(* Orders and stock for every set of orders, lines, products, surveys and  *)
(* sessions.  Row locks are exclusive (Exclusive), and a session that has  *)
(* read a row keeps what it relies on until it closes, because it holds    *)
(* the row's lock (Sound).  From that follow that committed stock is never *)
(* negative, that the ledger accounts for it, that an order's lines are    *)
(* booked once, and that every step of the sessions is a step of Warehouse *)
(* or changes no committed row.                                            *)
(***************************************************************************)
EXTENDS Fulfillment, TLAPS

rows == <<order, stock, net, taken>>

\* No row is locked by two sessions.
Exclusive == \A v, w \in Workers : v # w => session[v].locks \cap session[w].locks = {}

\* What a session is doing.
Kinds(s) ==
  /\ s.kind = "none" <=> s.pc = "idle"
  /\ s.kind = "survey" => s.pc = "check"
  /\ s.pc = "order" => s.kind = "order"
  /\ s.pc \in {"idle", "order", "check"} => s.booked = NoUnits

\* A transition holds its order, whose status still permits it.
OrderHeld(s) ==
  s.kind = "order" =>
    /\ s.order \in Orders /\ order[s.order] # "none" /\ s.target \in Statuses
    /\ s.pc # "order" => s.order \in s.locks /\ s.target \in Allowed[order[s.order]]
    /\ s.pc \in {"check", "write"} => s.target = "processing" /\ s.plan = PlanOf(s.order)

\* The products of the lines already checked are locked.
PlanHeld(s) ==
  s.pc \in {"check", "write"} =>
    /\ s.line \in 1..Len(s.plan)
    /\ \A i \in 1..Len(s.plan) : s.pc = "write" \/ i < s.line => s.plan[i].product \in s.locks

\* What was written is the committed balance and the session's own change.
Written(s) ==
  \A p \in Products : s.booked[p] # 0 =>
    p \in s.locks /\ s.balance[p] = stock[p] + s.booked[p] /\ s.balance[p] >= 0

\* A fulfilment has booked the lines before the one at hand, at last all.
OrderBooked(s) ==
  s.kind = "order" => \A p \in Products :
    /\ s.pc = "write" => s.booked[p] = -Units[s.order][p][s.line - 1]
    /\ s.pc = "commit" =>
         s.booked[p] = IF s.target = "processing" THEN -Demand(s.order, p) ELSE 0

\* An adjustment is one change, booked when it is written.
AdjustBooked(s) ==
  s.kind = "adjust" => \E p \in Products, c \in Changes :
    /\ s.plan = <<Change(p, c)>>
    /\ s.booked = IF s.pc = "commit" THEN [NoUnits EXCEPT ![p] = c] ELSE NoUnits

Sound(s) ==
  /\ Kinds(s) /\ OrderHeld(s) /\ PlanHeld(s)
  /\ Written(s) /\ OrderBooked(s) /\ AdjustBooked(s)

Inv ==
  /\ TypeOK /\ Exclusive /\ \A w \in Workers : Sound(session[w])
  /\ BookedOnce /\ StockMatchesLedger

-----------------------------------------------------------------------------
(* The constants.                                                          *)

LEMMA NoUnitsType == NoUnits \in [Products -> Int] /\ \A p \in Products : NoUnits[p] = 0
BY DEF NoUnits

LEMMA PlanType ==
  ASSUME NEW o \in Orders
  PROVE  /\ PlanOf(o) \in Seq(Steps) /\ Len(PlanOf(o)) = Len(Lines[o])
         /\ Len(Lines[o]) \in Nat \ {0}
         /\ \A i \in 1..Len(Lines[o]) :
              /\ PlanOf(o)[i].product = Lines[o][i].product
              /\ PlanOf(o)[i].change = -Lines[o][i].quantity
<1>1. Lines[o] \in Seq([product : Products, quantity : Nat \ {0}]) /\ Lines[o] # <<>>
  BY OrderBookTypes
<1>2. Len(Lines[o]) \in Nat \ {0} /\ DOMAIN Lines[o] = 1..Len(Lines[o])
  BY <1>1
<1>3. ASSUME NEW i \in 1..Len(Lines[o])
      PROVE  Change(Lines[o][i].product, -Lines[o][i].quantity) \in Steps
  <2>1. Lines[o][i] \in [product : Products, quantity : Nat \ {0}]
    <3> DEFINE S == [product : Products, quantity : Nat \ {0}]
    <3>1. Lines[o] \in Seq(S)
      BY <1>1
    <3> HIDE DEF S
    <3>2. Lines[o][i] \in S
      BY <3>1
    <3>3. QED
      BY <3>2 DEF S
  <2>2. Lines[o][i].product \in Products /\ -Lines[o][i].quantity \in Int
    BY <2>1
  <2>3. QED
    BY <2>2 DEF Change, Steps
<1>4. PlanOf(o) \in [1..Len(Lines[o]) -> Steps]
  BY <1>2, <1>3 DEF PlanOf
<1>5. PlanOf(o) \in Seq(Steps) /\ Len(PlanOf(o)) = Len(Lines[o])
  BY <1>2, <1>4
<1>6. QED
  BY <1>2, <1>5 DEF PlanOf, Change

LEMMA UnitsType ==
  ASSUME NEW o \in Orders, NEW p \in Products
  PROVE  /\ Demand(o, p) \in Nat /\ Units[o][p][0] = 0
         /\ \A i \in 0..Len(Lines[o]) : Units[o][p][i] \in Nat
         /\ \A i \in 1..Len(Lines[o]) :
              Units[o][p][i] = Units[o][p][i - 1]
                + (IF Lines[o][i].product = p THEN Lines[o][i].quantity ELSE 0)
<1>1. Len(Lines[o]) \in Nat \ {0}
  BY PlanType
<1>2. Units[o][p] \in [0..Len(Lines[o]) -> Nat]
  BY UnitsAddUp
<1>3. \A i \in 0..Len(Lines[o]) : Units[o][p][i] \in Nat
  BY <1>2
<1>4. Demand(o, p) \in Nat
  BY <1>1, <1>3 DEF Demand
<1>5. QED
  BY <1>3, <1>4, UnitsAddUp

-----------------------------------------------------------------------------
(* Sessions.                                                               *)

LEMMA SessionType ==
  ASSUME NEW pc \in {"idle", "order", "check", "write", "commit"},
         NEW kind \in {"none", "order", "adjust", "survey"},
         NEW o \in Orders \cup {None}, NEW target \in Statuses \cup {"none"},
         NEW plan \in Seq(Steps), NEW line \in Nat, NEW locks \in SUBSET Rows,
         NEW balance \in [Products -> Int], NEW booked \in [Products -> Int]
  PROVE  Session(pc, kind, o, target, plan, line, locks, balance, booked) \in Sessions
BY DEF Session, Sessions

LEMMA FreshType ==
  ASSUME NEW pc \in {"idle", "order", "check", "write", "commit"},
         NEW kind \in {"none", "order", "adjust", "survey"},
         NEW o \in Orders \cup {None}, NEW target \in Statuses \cup {"none"},
         NEW plan \in Seq(Steps), NEW line \in Nat, NEW locks \in SUBSET Rows
  PROVE  Fresh(pc, kind, o, target, plan, line, locks) \in Sessions
BY NoUnitsType, SessionType DEF Fresh

LEMMA ClosedSound == Closed \in Sessions /\ Closed.locks = {} /\ Sound(Closed)
<1>1. Closed \in Sessions
  BY NoUnitsType DEF Closed, Fresh, Session, Sessions
<1>2. Closed.locks = {} /\ Closed.pc = "idle" /\ Closed.kind = "none" /\ Closed.booked = NoUnits
  BY DEF Closed, Fresh, Session
<1>3. QED
  BY <1>1, <1>2, NoUnitsType
     DEF Sound, Kinds, OrderHeld, PlanHeld, Written, OrderBooked, AdjustBooked

\* The balance a session reads is the committed one and its own change.
LEMMA BalanceRead ==
  ASSUME Inv, NEW w \in Workers, NEW p \in Products
  PROVE  /\ Balance(w, p) = stock[p] + session[w].booked[p]
         /\ Balance(w, p) \in Nat
         /\ session[w].booked[p] \in Int
         /\ session[w].booked[p] # 0 => p \in session[w].locks
<1>1. Written(session[w]) /\ session[w] \in Sessions /\ stock[p] \in Nat
  BY DEF Inv, Sound, TypeOK
<1>2. session[w].booked[p] \in Int /\ session[w].balance[p] \in Int
  BY <1>1 DEF Sessions
<1>3. QED
  BY <1>1, <1>2 DEF Balance, Written

LEMMA InitInv == Init => Inv
<1> SUFFICES ASSUME Init PROVE Inv
  OBVIOUS
<1>1. \A w \in Workers : session[w] = Closed
  BY DEF Init
<1>2. TypeOK
  BY ClosedSound, NoUnitsType, OrderBookTypes, FulfillmentTypes DEF Init, TypeOK
<1>3. Exclusive
  BY <1>1, ClosedSound DEF Exclusive
<1>4. BookedOnce
  BY NoUnitsType DEF Init, BookedOnce, Fulfilled
<1>5. StockMatchesLedger
  BY NoUnitsType, OrderBookTypes DEF Init, StockMatchesLedger
<1>6. QED
  BY <1>1, <1>2, <1>3, <1>4, <1>5, ClosedSound DEF Inv

-----------------------------------------------------------------------------
(* Steps that change no committed row.                                     *)

\* It is enough that the new session is sound and shares no lock.
LEMMA QuietStep ==
  ASSUME Inv, NEW w \in Workers, NEW s \in Sessions, Sound(s),
         session' = [session EXCEPT ![w] = s],
         \A v \in Workers \ {w} : s.locks \cap session[v].locks = {},
         UNCHANGED rows, adjustments' \in 0..MaxAdjustments
  PROVE  Inv'
<1>1. session' \in [Workers -> Sessions] /\ session'[w] = s
      /\ \A v \in Workers \ {w} : session'[v] = session[v]
  BY DEF Inv, TypeOK
<1>2. order' = order /\ stock' = stock /\ net' = net /\ taken' = taken
  BY DEF rows
<1>3. TypeOK'
  BY <1>1, <1>2 DEF Inv, TypeOK
<1>4. Exclusive'
  BY <1>1 DEF Inv, Exclusive
<1>5. ASSUME NEW v \in Workers PROVE Sound(session[v])'
  <2>1. Sound(session'[v])
    BY <1>1 DEF Inv
  <2>2. QED
    BY <2>1, <1>2 DEF Sound, Kinds, OrderHeld, PlanHeld, Written, OrderBooked, AdjustBooked
<1>6. BookedOnce' /\ StockMatchesLedger'
  BY <1>2 DEF Inv, BookedOnce, StockMatchesLedger
<1>7. QED
  BY <1>3, <1>4, <1>5, <1>6 DEF Inv

\* A session that ends without a commit leaves nothing behind.
LEMMA CloseStep ==
  ASSUME Inv, NEW w \in Workers, Close(w), UNCHANGED <<rows, adjustments>>
  PROVE  Inv'
<1>1. session' = [session EXCEPT ![w] = Closed] /\ adjustments' \in 0..MaxAdjustments
  BY DEF Close, Inv, TypeOK
<1>2. QED
  BY <1>1, ClosedSound, QuietStep

LEMMA BeginStep ==
  ASSUME Inv, NEW w \in Workers, Begin(w)
  PROVE  Inv' /\ UNCHANGED rows
<1>1. CASE \E o \in Orders, t \in Statuses : BeginTransition(w, o, t)
  <2>1. PICK o \in Orders, t \in Statuses : BeginTransition(w, o, t)
    BY <1>1
  <2> DEFINE s == Fresh("order", "order", o, t, <<>>, 0, {})
  <2>2. s \in Sessions
    BY NoUnitsType DEF Fresh, Session, Sessions
  <2>3. s.pc = "order" /\ s.kind = "order" /\ s.order = o /\ s.target = t /\ s.locks = {}
        /\ s.booked = NoUnits
    BY DEF Fresh, Session
  <2>4. order[o] # "none" /\ session' = [session EXCEPT ![w] = s]
        /\ UNCHANGED rows /\ adjustments' = adjustments
    BY <2>1 DEF BeginTransition, Open, rows
  <2> HIDE DEF s
  <2>5. Sound(s)
    BY <2>3, <2>4, NoUnitsType
       DEF Sound, Kinds, OrderHeld, PlanHeld, Written, OrderBooked, AdjustBooked
  <2>6. adjustments' \in 0..MaxAdjustments
    BY <2>4 DEF Inv, TypeOK
  <2>7. Inv'
    BY <2>2, <2>3, <2>4, <2>5, <2>6, QuietStep
  <2>8. QED
    BY <2>4, <2>7
<1>2. CASE \E p \in Products, c \in Changes : BeginAdjustment(w, p, c)
  <2>1. PICK p \in Products, c \in Changes : BeginAdjustment(w, p, c)
    BY <1>2
  <2> DEFINE plan == <<Change(p, c)>>
             s == Fresh("check", "adjust", None, "none", plan, 1, {})
  <2>2. Change(p, c) \in Steps
    BY OrderBookTypes DEF Change, Steps
  <2>3. plan \in Seq(Steps) /\ Len(plan) = 1
    BY <2>2
  <2> HIDE DEF plan
  <2>4. s \in Sessions
    BY <2>3, FreshType
  <2>5. s.pc = "check" /\ s.kind = "adjust" /\ s.plan = plan /\ s.line = 1 /\ s.locks = {}
        /\ s.booked = NoUnits
    BY DEF Fresh, Session
  <2>6. session' = [session EXCEPT ![w] = s] /\ UNCHANGED rows
        /\ adjustments < MaxAdjustments /\ adjustments' = adjustments + 1
    BY <2>1 DEF BeginAdjustment, Open, rows, plan
  <2> HIDE DEF s
  <2>7. PlanHeld(s)
    <3>1. s.line = 1 /\ Len(s.plan) = 1 /\ s.pc # "write"
      BY <2>3, <2>5
    <3>2. s.line \in 1..Len(s.plan)
      BY <3>1
    <3>3. \A i \in 1..Len(s.plan) : ~(i < s.line)
      BY <3>1
    <3>4. QED
      BY <3>1, <3>2, <3>3 DEF PlanHeld
  <2>8. AdjustBooked(s)
    BY <2>5 DEF AdjustBooked, plan
  <2>9. Sound(s)
    BY <2>5, <2>7, <2>8, NoUnitsType DEF Sound, Kinds, OrderHeld, Written, OrderBooked
  <2>10. adjustments' \in 0..MaxAdjustments
    BY <2>6, FulfillmentTypes DEF Inv, TypeOK
  <2>11. Inv'
    BY <2>4, <2>5, <2>6, <2>9, <2>10, QuietStep
  <2>12. QED
    BY <2>6, <2>11
<1>3. CASE \E ps \in Surveys : BeginSurvey(w, ps)
  <2>1. PICK ps \in Surveys : BeginSurvey(w, ps)
    BY <1>3
  <2> DEFINE plan == [i \in DOMAIN ps |-> Change(ps[i], 0)]
             s == Fresh("check", "survey", None, "none", plan, 1, {})
  <2>2. ps \in Seq(Products) /\ ps # <<>>
    BY FulfillmentTypes
  <2>3. Len(ps) \in Nat \ {0} /\ DOMAIN ps = 1..Len(ps)
    BY <2>2
  <2>4. \A i \in 1..Len(ps) : Change(ps[i], 0) \in Steps
    BY <2>2, <2>3 DEF Change, Steps
  <2>5. plan \in [1..Len(ps) -> Steps]
    BY <2>3, <2>4
  <2>6. plan \in Seq(Steps) /\ Len(plan) = Len(ps)
    BY <2>3, <2>5
  <2> HIDE DEF plan
  <2>7. s \in Sessions
    BY <2>6, FreshType
  <2>8. s.pc = "check" /\ s.kind = "survey" /\ s.plan = plan /\ s.line = 1 /\ s.locks = {}
        /\ s.booked = NoUnits
    BY DEF Fresh, Session
  <2>9. session' = [session EXCEPT ![w] = s] /\ UNCHANGED rows /\ adjustments' = adjustments
    BY <2>1 DEF BeginSurvey, Open, rows, plan
  <2> HIDE DEF s
  <2>10. PlanHeld(s)
    BY <2>3, <2>6, <2>8 DEF PlanHeld
  <2>11. Sound(s)
    BY <2>8, <2>10, NoUnitsType DEF Sound, Kinds, OrderHeld, Written, OrderBooked, AdjustBooked
  <2>12. adjustments' \in 0..MaxAdjustments
    BY <2>9 DEF Inv, TypeOK
  <2>13. Inv'
    BY <2>7, <2>8, <2>9, <2>11, <2>12, QuietStep
  <2>14. QED
    BY <2>9, <2>13
<1>4. QED
  BY <1>1, <1>2, <1>3 DEF Begin

\* The row a session is granted is locked by no other.
LEMMA Granted ==
  ASSUME Inv, NEW w \in Workers, Free(w), NEW L \in SUBSET session[w].locks
  PROVE  \A v \in Workers \ {w} : (L \cup {Wanted(w)}) \cap session[v].locks = {}
BY DEF Inv, Exclusive, Free

\* The order is read under its lock; its lines are the plan.
LEMMA ReadStep ==
  ASSUME Inv, NEW w \in Workers, ReadOrder(w)
  PROVE  Inv' /\ UNCHANGED rows
<1> DEFINE o == session[w].order
           t == session[w].target
<1>1. session[w] \in Sessions /\ session[w].pc = "order" /\ session[w].kind = "order"
  BY DEF ReadOrder, At, Inv, TypeOK, Sound, Kinds
<1>2. o \in Orders /\ t \in Statuses /\ t \in Allowed[order[o]]
  BY <1>1 DEF ReadOrder, Permitted, Inv, Sound, OrderHeld
<1>3. order[o] # "none" /\ order[o] \in Statuses
  BY <1>1, <1>2 DEF Inv, TypeOK, Sound, OrderHeld
<1>4. UNCHANGED rows /\ adjustments' \in 0..MaxAdjustments
  BY DEF ReadOrder, rows, Inv, TypeOK
<1>5. Wanted(w) = o
  BY <1>1 DEF Wanted, At
<1>6. \A v \in Workers \ {w} : {o} \cap session[v].locks = {}
  BY <1>5, Granted DEF ReadOrder
<1>7. {o} \in SUBSET Rows
  BY <1>2 DEF Rows
<1>8. CASE t = "processing"
  <2> DEFINE s == Fresh("check", "order", o, t, PlanOf(o), 1, {o})
  <2>1. s \in Sessions
    BY <1>2, <1>7, PlanType, FreshType
  <2>2. s.pc = "check" /\ s.kind = "order" /\ s.order = o /\ s.target = t /\ s.plan = PlanOf(o)
        /\ s.line = 1 /\ s.locks = {o} /\ s.booked = NoUnits
    BY DEF Fresh, Session
  <2>3. session' = [session EXCEPT ![w] = s]
    BY <1>8 DEF ReadOrder
  <2> HIDE DEF s
  <2>4. PlanHeld(s)
    <3>1. Len(s.plan) \in Nat \ {0} /\ s.line = 1 /\ s.pc # "write"
      BY <1>2, <2>2, PlanType
    <3>2. s.line \in 1..Len(s.plan)
      BY <3>1
    <3>3. \A i \in 1..Len(s.plan) : ~(i < s.line)
      BY <3>1
    <3>4. QED
      BY <3>1, <3>2, <3>3 DEF PlanHeld
  <2>5. Sound(s)
    BY <1>2, <1>3, <1>8, <2>2, <2>4, NoUnitsType
       DEF Sound, Kinds, OrderHeld, Written, OrderBooked, AdjustBooked
  <2>6. Inv'
    BY <1>4, <1>6, <2>1, <2>2, <2>3, <2>5, QuietStep
  <2>7. QED
    BY <1>4, <2>6
<1>9. CASE t # "processing"
  <2> DEFINE s == Fresh("commit", "order", o, t, <<>>, 0, {o})
  <2>1. <<>> \in Seq(Steps)
    OBVIOUS
  <2>2. s \in Sessions
    BY <1>2, <1>7, <2>1, FreshType
  <2>3. s.pc = "commit" /\ s.kind = "order" /\ s.order = o /\ s.target = t
        /\ s.locks = {o} /\ s.booked = NoUnits
    BY DEF Fresh, Session
  <2>4. session' = [session EXCEPT ![w] = s]
    BY <1>9 DEF ReadOrder
  <2> HIDE DEF s
  <2>5. Sound(s)
    BY <1>2, <1>3, <1>9, <2>3, NoUnitsType
       DEF Sound, Kinds, OrderHeld, PlanHeld, Written, OrderBooked, AdjustBooked
  <2>6. Inv'
    BY <1>4, <1>6, <2>2, <2>3, <2>4, <2>5, QuietStep
  <2>7. QED
    BY <1>4, <2>6
<1>10. QED
  BY <1>8, <1>9

\* What holds of the session at hand while it has a plan.
LEMMA Planned ==
  ASSUME Inv, NEW w \in Workers, session[w].pc \in {"check", "write"}
  PROVE  /\ session[w] \in Sessions
         /\ session[w].line \in 1..Len(session[w].plan) /\ Len(session[w].plan) \in Nat
         /\ Step(w) \in Steps /\ Step(w).product \in Products /\ Step(w).change \in Int
         /\ Step(w) = session[w].plan[session[w].line]
         /\ Step(w).product \in Rows
<1>1. session[w] \in Sessions /\ session[w].line \in 1..Len(session[w].plan)
  BY DEF Inv, TypeOK, Sound, PlanHeld
<1>2. session[w].plan \in Seq(Steps)
  BY <1>1 DEF Sessions
<1>3. Step(w) = session[w].plan[session[w].line]
  BY DEF Step
<1>4. Len(session[w].plan) \in Nat /\ Step(w) \in Steps
  BY <1>1, <1>2, <1>3
<1>5. QED
  BY <1>1, <1>3, <1>4 DEF Steps, Rows

LEMMA CheckStep ==
  ASSUME Inv, NEW w \in Workers, CheckLine(w)
  PROVE  Inv' /\ UNCHANGED rows
<1> DEFINE c == session[w]
           L == c.locks \cup {Wanted(w)}
<1>1. c.pc = "check" /\ Free(w)
  BY DEF CheckLine, At
<1>2. c \in Sessions /\ c.line \in 1..Len(c.plan) /\ Len(c.plan) \in Nat
  BY <1>1, Planned
<1>3. Wanted(w) = c.plan[c.line].product /\ Wanted(w) \in Rows
  BY <1>1, Planned DEF Wanted, At
<1>4. \A v \in Workers \ {w} : L \cap session[v].locks = {}
  BY <1>1, Granted
<1>5. /\ c.kind \in {"order", "adjust", "survey"} /\ c.order \in Orders \cup {None}
      /\ c.target \in Statuses \cup {"none"} /\ c.plan \in Seq(Steps) /\ c.locks \in SUBSET Rows
  BY <1>1, <1>2 DEF Sessions, Inv, Sound, Kinds
<1>6. L \in SUBSET Rows
  BY <1>3, <1>5
<1>7. \A i \in 1..Len(c.plan) : i < c.line + 1 => c.plan[i].product \in L
  <2>1. \A i \in 1..Len(c.plan) : i < c.line => c.plan[i].product \in c.locks
    BY <1>1 DEF Inv, Sound, PlanHeld
  <2>2. \A i \in 1..Len(c.plan) : i < c.line + 1 => i < c.line \/ i = c.line
    BY <1>2
  <2>3. QED
    BY <1>3, <2>1, <2>2
<1>8. UNCHANGED rows /\ adjustments' \in 0..MaxAdjustments
  BY DEF CheckLine, rows, Inv, TypeOK
<1>9. /\ c.kind = "order" =>
           /\ c.order \in Orders /\ order[c.order] # "none" /\ c.target \in Statuses
           /\ c.order \in L /\ c.target \in Allowed[order[c.order]]
           /\ c.target = "processing" /\ c.plan = PlanOf(c.order)
      /\ c.kind = "adjust" => \E p \in Products, d \in Changes : c.plan = <<Change(p, d)>>
  BY <1>1 DEF Inv, Sound, OrderHeld, AdjustBooked
<1>10. CASE c.line < Len(c.plan)
  <2> DEFINE s == Fresh("check", c.kind, c.order, c.target, c.plan, c.line + 1, L)
  <2>1. s \in Sessions
    <3>1. c.line + 1 \in Nat /\ c.kind \in {"none", "order", "adjust", "survey"}
      BY <1>2, <1>5
    <3>2. QED
      BY <1>5, <1>6, <3>1, FreshType
  <2>2. s.pc = "check" /\ s.kind = c.kind /\ s.order = c.order /\ s.target = c.target
        /\ s.plan = c.plan /\ s.line = c.line + 1 /\ s.locks = L /\ s.booked = NoUnits
    BY DEF Fresh, Session
  <2>3. session' = [session EXCEPT ![w] = s]
    BY <1>10 DEF CheckLine
  <2> HIDE DEF s
  <2>4. PlanHeld(s)
    BY <1>2, <1>7, <1>10, <2>2 DEF PlanHeld
  <2>5. Sound(s)
    BY <1>5, <1>9, <2>2, <2>4, NoUnitsType
       DEF Sound, Kinds, OrderHeld, Written, OrderBooked, AdjustBooked
  <2>6. Inv'
    BY <1>4, <1>8, <2>1, <2>2, <2>3, <2>5, QuietStep
  <2>7. QED
    BY <1>8, <2>6
<1>11. CASE ~(c.line < Len(c.plan)) /\ c.kind = "survey"
  <2>1. Close(w) /\ adjustments' = adjustments
    BY <1>11 DEF CheckLine, Close
  <2>2. QED
    BY <1>8, <2>1, CloseStep
<1>12. CASE ~(c.line < Len(c.plan)) /\ c.kind # "survey"
  <2> DEFINE s == Fresh("write", c.kind, c.order, c.target, c.plan, 1, L)
  <2>1. s \in Sessions
    BY <1>2, <1>5, <1>6, FreshType
  <2>2. s.pc = "write" /\ s.kind = c.kind /\ s.order = c.order /\ s.target = c.target
        /\ s.plan = c.plan /\ s.line = 1 /\ s.locks = L /\ s.booked = NoUnits
    BY DEF Fresh, Session
  <2>3. session' = [session EXCEPT ![w] = s]
    BY <1>12 DEF CheckLine
  <2> HIDE DEF s
  <2>4. PlanHeld(s)
    <3>1. \A i \in 1..Len(c.plan) : i < c.line + 1
      BY <1>2, <1>12
    <3>2. QED
      BY <1>2, <1>7, <2>2, <3>1 DEF PlanHeld
  <2>5. OrderBooked(s)
    BY <1>9, <2>2, NoUnitsType, UnitsType DEF OrderBooked
  <2>6. Sound(s)
    BY <1>5, <1>9, <1>12, <2>2, <2>4, <2>5, NoUnitsType
       DEF Sound, Kinds, OrderHeld, Written, AdjustBooked
  <2>7. Inv'
    BY <1>4, <1>8, <2>1, <2>2, <2>3, <2>6, QuietStep
  <2>8. QED
    BY <1>8, <2>7
<1>13. QED
  BY <1>10, <1>11, <1>12

\* The write of one line: a fulfilment has booked one line more, an
\* adjustment is complete.
LEMMA WriteStep ==
  ASSUME Inv, NEW w \in Workers, WriteLine(w)
  PROVE  Inv' /\ UNCHANGED rows
<1> DEFINE c == session[w]
           p == Step(w).product
           d == Step(w).change
           b == Balance(w, p) + d
           last == c.line = Len(c.plan)
           balance == [c.balance EXCEPT ![p] = b]
           booked == [c.booked EXCEPT ![p] = c.booked[p] + d]
           s == Session(IF last THEN "commit" ELSE "write", c.kind, c.order, c.target, c.plan,
                        IF last THEN c.line ELSE c.line + 1, c.locks, balance, booked)
<1>1. c.pc = "write" /\ b >= 0
  BY DEF WriteLine, At, Enough
<1>2. /\ c \in Sessions /\ c.line \in 1..Len(c.plan) /\ Len(c.plan) \in Nat
      /\ p \in Products /\ d \in Int /\ Step(w) = c.plan[c.line]
  BY <1>1, Planned
<1>3. /\ c.kind \in {"order", "adjust"} /\ c.order \in Orders \cup {None}
      /\ c.target \in Statuses \cup {"none"} /\ c.plan \in Seq(Steps) /\ c.locks \in SUBSET Rows
      /\ c.balance \in [Products -> Int] /\ c.booked \in [Products -> Int]
  BY <1>1, <1>2 DEF Sessions, Inv, Sound, Kinds
<1>4. Balance(w, p) = stock[p] + c.booked[p] /\ Balance(w, p) \in Nat /\ stock[p] \in Nat
  BY <1>2, BalanceRead DEF Inv, TypeOK
<1>5. p \in c.locks
  BY <1>1, <1>2 DEF Inv, Sound, PlanHeld
<1>6. b \in Int /\ b = stock[p] + (c.booked[p] + d)
  <2>1. c.booked[p] \in Int /\ d \in Int /\ Balance(w, p) \in Int /\ stock[p] \in Int
    BY <1>2, <1>3, <1>4
  <2> HIDE DEF d, p
  <2>2. QED
    BY <1>4, <2>1
<1>7. balance \in [Products -> Int] /\ booked \in [Products -> Int]
      /\ balance[p] = b /\ booked[p] = c.booked[p] + d
      /\ \A q \in Products \ {p} : balance[q] = c.balance[q] /\ booked[q] = c.booked[q]
  <2>1. c.booked[p] + d \in Int
    BY <1>2, <1>3
  <2> HIDE DEF b, d, p
  <2>2. QED
    BY <1>2, <1>3, <1>6, <2>1
<1>8. UNCHANGED rows /\ adjustments' \in 0..MaxAdjustments
  BY DEF WriteLine, rows, Inv, TypeOK
<1>9. session' = [session EXCEPT ![w] = s]
  BY DEF WriteLine
<1>10. /\ (IF last THEN "commit" ELSE "write") \in {"idle", "order", "check", "write", "commit"}
       /\ (IF last THEN c.line ELSE c.line + 1) \in Nat
  BY <1>2
<1>11. s \in Sessions
  BY <1>3, <1>7, <1>10, SessionType
<1>12. /\ s.pc = (IF last THEN "commit" ELSE "write") /\ s.kind = c.kind /\ s.order = c.order
       /\ s.target = c.target /\ s.plan = c.plan /\ s.line = (IF last THEN c.line ELSE c.line + 1)
       /\ s.locks = c.locks /\ s.balance = balance /\ s.booked = booked
  BY DEF Session
<1> HIDE DEF s, balance, booked, b
<1>13. Kinds(s)
  BY <1>3, <1>12 DEF Kinds
<1>14. OrderHeld(s)
  BY <1>1, <1>12 DEF Inv, Sound, OrderHeld
<1>15. PlanHeld(s)
  BY <1>1, <1>2, <1>12 DEF Inv, Sound, PlanHeld
<1>16. Written(s)
  <2>1. ASSUME NEW q \in Products, s.booked[q] # 0
        PROVE  q \in s.locks /\ s.balance[q] = stock[q] + s.booked[q] /\ s.balance[q] >= 0
    <3>1. CASE q = p
      BY <3>1, <1>1, <1>5, <1>6, <1>7, <1>12
    <3>2. CASE q # p
      BY <3>2, <2>1, <1>7, <1>12 DEF Inv, Sound, Written
    <3>3. QED
      BY <3>1, <3>2
  <2>2. QED
    BY <2>1 DEF Written
<1>17. OrderBooked(s)
  <2> SUFFICES ASSUME c.kind = "order", NEW q \in Products
               PROVE  /\ s.pc = "write" => s.booked[q] = -Units[c.order][q][s.line - 1]
                      /\ s.pc = "commit" => s.booked[q] =
                           IF c.target = "processing" THEN -Demand(c.order, q) ELSE 0
    BY <1>12 DEF OrderBooked
  <2> DEFINE o == c.order
             i == c.line
  <2>1. o \in Orders /\ c.target = "processing" /\ c.plan = PlanOf(o)
    BY <1>1 DEF Inv, Sound, OrderHeld
  <2>2. Len(c.plan) = Len(Lines[o]) /\ p = Lines[o][i].product /\ d = -Lines[o][i].quantity
    BY <1>2, <2>1, PlanType
  <2>3. i \in 1..Len(Lines[o]) /\ Len(Lines[o]) \in Nat
    BY <1>2, <2>2
  <2>4. Units[o][q][i] = Units[o][q][i - 1]
          + (IF Lines[o][i].product = q THEN Lines[o][i].quantity ELSE 0)
    <3> HIDE DEF o, i
    <3>1. QED
      BY <2>1, <2>3, UnitsType
  <2>5. Units[o][q][i] \in Nat /\ Units[o][q][i - 1] \in Nat
    <3>1. i \in 0..Len(Lines[o]) /\ i - 1 \in 0..Len(Lines[o])
      BY <2>3
    <3>2. QED
      BY <2>1, <3>1, UnitsType
  <2>6. c.booked[q] = -Units[o][q][i - 1]
    BY <1>1 DEF Inv, Sound, OrderBooked
  <2>7. booked[q] = -Units[o][q][i]
    <3>1. CASE q = p
      <4>1. booked[q] = c.booked[q] + d
        BY <3>1, <1>7
      <4>2. Units[o][q][i] = Units[o][q][i - 1] + Lines[o][i].quantity
        BY <2>2, <2>4, <3>1
      <4>3. Lines[o][i].quantity \in Int
        <5> DEFINE S == [product : Products, quantity : Nat \ {0}]
        <5>1. Lines[o] \in Seq(S)
          BY <2>1, OrderBookTypes
        <5> HIDE DEF S
        <5>2. Lines[o][i] \in S
          BY <2>3, <5>1
        <5>3. QED
          BY <5>2 DEF S
      <4>4. QED
        <5>1. d = -Lines[o][i].quantity
          BY <2>2
        <5> HIDE DEF d, o, i
        <5>2. QED
          BY <2>5, <2>6, <4>1, <4>2, <4>3, <5>1
    <3>2. CASE q # p
      <4>1. booked[q] = c.booked[q]
        BY <3>2, <1>7
      <4>2. Units[o][q][i] = Units[o][q][i - 1]
        BY <2>2, <2>4, <2>5, <3>2
      <4>3. QED
        BY <2>6, <4>1, <4>2
    <3>3. QED
      BY <3>1, <3>2
  <2>8. CASE last
    BY <2>8, <1>12, <2>1, <2>2, <2>7 DEF Demand
  <2>9. CASE ~last
    BY <2>9, <1>12, <2>3, <2>7
  <2>10. QED
    BY <2>8, <2>9
<1>18. AdjustBooked(s)
  <2> SUFFICES ASSUME c.kind = "adjust" PROVE AdjustBooked(s)
    BY <1>12 DEF AdjustBooked
  <2>1. PICK q \in Products, e \in Changes : c.plan = <<Change(q, e)>> /\ c.booked = NoUnits
    BY <1>1 DEF Inv, Sound, AdjustBooked
  <2>2. Len(c.plan) = 1 /\ c.plan[1] = Change(q, e)
    BY <2>1
  <2>3. c.line = 1 /\ last /\ p = q /\ d = e
    BY <1>2, <2>2 DEF Change
  <2>4. booked = [NoUnits EXCEPT ![q] = e]
    <3>1. NoUnits[q] + e = e
      BY <1>2, <2>3, NoUnitsType
    <3>2. QED
      BY <2>1, <2>3, <3>1 DEF booked
  <2>5. QED
    <3>1. s.pc = "commit" /\ s.booked = [NoUnits EXCEPT ![q] = e] /\ s.plan = <<Change(q, e)>>
      BY <1>12, <2>1, <2>3, <2>4
    <3>2. QED
      BY <3>1 DEF AdjustBooked
<1>19. Sound(s)
  BY <1>13, <1>14, <1>15, <1>16, <1>17, <1>18 DEF Sound
<1>20. \A v \in Workers \ {w} : s.locks \cap session[v].locks = {}
  BY <1>12 DEF Inv, Exclusive
<1>21. Inv'
  BY <1>8, <1>9, <1>11, <1>19, <1>20, QuietStep
<1>22. QED
  BY <1>8, <1>21

-----------------------------------------------------------------------------
(* Steps that change committed rows.                                       *)

\* An order that is not there yet is in no session's hands.
LEMMA PlaceStep ==
  ASSUME Inv, NEW o \in Orders, Place(o)
  PROVE  Inv' /\ Promise!Place(o)
<1>1. /\ order[o] = "none" /\ order' = [order EXCEPT ![o] = "pending"]
      /\ stock' = stock /\ net' = net /\ taken' = taken
      /\ session' = session /\ adjustments' = adjustments
  BY DEF Place
<1>2. \A q \in Orders : order'[q] = IF q = o THEN "pending" ELSE order[q]
  BY <1>1 DEF Inv, TypeOK
<1>3. TypeOK'
  BY <1>1 DEF Inv, TypeOK, Statuses
<1>4. Exclusive' /\ StockMatchesLedger'
  BY <1>1 DEF Inv, Exclusive, StockMatchesLedger
<1>5. ASSUME NEW v \in Workers PROVE Sound(session[v])'
  <2>1. Sound(session[v]) /\ session'[v] = session[v]
    BY <1>1 DEF Inv
  <2>2. session[v].kind = "order" => session[v].order \in Orders \ {o}
    BY <1>1, <2>1 DEF Sound, OrderHeld
  <2>3. OrderHeld(session[v])'
    BY <1>2, <2>1, <2>2 DEF Sound, OrderHeld
  <2>4. Kinds(session[v])' /\ PlanHeld(session[v])' /\ Written(session[v])'
    BY <1>1, <2>1 DEF Sound, Kinds, PlanHeld, Written
  <2>5. OrderBooked(session[v])' /\ AdjustBooked(session[v])'
    BY <2>1 DEF Sound, OrderBooked, AdjustBooked
  <2>6. QED
    BY <2>3, <2>4, <2>5 DEF Sound
<1>6. BookedOnce'
  <2>1. ASSUME NEW q \in Orders, NEW p \in Products
        PROVE  taken'[q][p] = IF order'[q] \in Fulfilled THEN Demand(q, p) ELSE 0
    BY <1>1, <1>2 DEF Inv, BookedOnce, Fulfilled
  <2>2. QED
    BY <2>1 DEF BookedOnce
<1>7. Promise!Place(o)
  BY <1>1 DEF Promise!Place
<1>8. QED
  BY <1>3, <1>4, <1>5, <1>6, <1>7 DEF Inv

\* What a commit makes of the committed rows.
LEMMA Committed ==
  ASSUME Inv, NEW w \in Workers, Commit(w)
  PROVE  /\ session[w] \in Sessions /\ session[w].pc = "commit"
         /\ session[w].kind \in {"order", "adjust"} /\ Sound(session[w])
         /\ session' = [session EXCEPT ![w] = Closed] /\ adjustments' = adjustments
         /\ stock' = [p \in Products |-> stock[p] + session[w].booked[p]]
         /\ stock' \in [Products -> Nat]
         /\ net' = [p \in Products |-> net[p] + session[w].booked[p]]
         /\ \A p \in Products : session[w].booked[p] \in Int
         /\ \A p \in Products : session[w].booked[p] # 0 => p \in session[w].locks
<1>1. session[w] \in Sessions /\ session[w].pc = "commit" /\ Sound(session[w])
  BY DEF Commit, At, Inv, TypeOK
<1>2. session[w].kind \in {"order", "adjust"}
  BY <1>1 DEF Sound, Kinds, Sessions
<1>3. \A p \in Products :
        /\ Balance(w, p) = stock[p] + session[w].booked[p] /\ Balance(w, p) \in Nat
        /\ session[w].booked[p] \in Int
        /\ session[w].booked[p] # 0 => p \in session[w].locks
  BY BalanceRead
<1>4. stock' = [p \in Products |-> Balance(w, p)]
  BY DEF Commit
<1>5. QED
  BY <1>1, <1>2, <1>3, <1>4 DEF Commit, Close

\* The other sessions rely on rows that the commit leaves alone: those rows
\* are locked by them, and the committing session changes what it has locked.
LEMMA OthersSound ==
  ASSUME Inv, NEW w \in Workers, Commit(w), NEW v \in Workers \ {w}
  PROVE  Sound(session[v])'
<1> DEFINE c == session[w]
           s == session[v]
<1>1. Sound(s) /\ Sound(c) /\ session'[v] = s /\ s.locks \cap c.locks = {}
      /\ s \in Sessions /\ c.pc = "commit" /\ c.kind \in {"order", "adjust"}
  BY Committed DEF Inv, Exclusive, TypeOK
<1>2. \A p \in Products : p \in s.locks => stock'[p] = stock[p]
  <2>1. ASSUME NEW p \in Products, p \in s.locks PROVE stock'[p] = stock[p]
    <3>1. c.booked[p] = 0
      BY <1>1, <2>1, Committed
    <3>2. stock'[p] = stock[p] + c.booked[p] /\ stock[p] \in Int
      BY Committed DEF Inv, TypeOK
    <3>3. QED
      BY <3>1, <3>2
  <2>2. QED
    BY <2>1
<1>3. Written(s)'
  <2>1. ASSUME NEW p \in Products, s.booked[p] # 0
        PROVE  p \in s.locks /\ s.balance[p] = stock'[p] + s.booked[p] /\ s.balance[p] >= 0
    BY <1>1, <1>2, <2>1 DEF Sound, Written
  <2>2. Written(session[v])' <=> \A p \in Products : session'[v].booked[p] # 0 =>
          /\ p \in session'[v].locks /\ session'[v].balance[p] >= 0
          /\ session'[v].balance[p] = stock'[p] + session'[v].booked[p]
    BY DEF Written
  <2>3. QED
    BY <1>1, <2>1, <2>2
<1>4. OrderHeld(s)'
  <2> SUFFICES ASSUME s.kind = "order"
               PROVE  /\ order'[s.order] # "none"
                      /\ s.pc # "order" => order'[s.order] = order[s.order]
    BY <1>1 DEF Sound, OrderHeld
  <2>1. s.order \in Orders /\ order[s.order] # "none" /\ (s.pc # "order" => s.order \in s.locks)
    BY <1>1 DEF Sound, OrderHeld
  <2>2. CASE c.kind = "order"
    <3>1. c.order \in Orders /\ c.order \in c.locks /\ c.target # "none"
      BY <1>1, <2>2 DEF Sound, OrderHeld, Statuses
    <3>2. order' = [order EXCEPT ![c.order] = c.target]
      BY <2>2 DEF Commit
    <3>3. order'[s.order] = IF s.order = c.order THEN c.target ELSE order[s.order]
      BY <2>1, <3>1, <3>2 DEF Inv, TypeOK
    <3>4. QED
      BY <1>1, <2>1, <3>1, <3>3
  <2>3. CASE c.kind # "order"
    BY <2>1, <2>3 DEF Commit
  <2>4. QED
    BY <2>2, <2>3
<1>5. Kinds(s)' /\ PlanHeld(s)'
  BY <1>1 DEF Sound, Kinds, PlanHeld
<1>6. OrderBooked(s)'
  BY <1>1 DEF Sound, OrderBooked
<1>7. AdjustBooked(s)'
  <2>1. AdjustBooked(session'[v])
    BY <1>1 DEF Sound
  <2>2. QED
    BY <2>1 DEF AdjustBooked
<1>8. QED
  BY <1>3, <1>4, <1>5, <1>6, <1>7 DEF Sound

\* A commit keeps the invariant if it books what its order now says.
LEMMA CommitKeeps ==
  ASSUME Inv, NEW w \in Workers, Commit(w), BookedOnce',
         taken' \in [Orders -> [Products -> Int]],
         order' \in [Orders -> Statuses \cup {"none"}]
  PROVE  Inv'
<1>1. /\ session' = [session EXCEPT ![w] = Closed] /\ adjustments' = adjustments
      /\ stock' \in [Products -> Nat]
      /\ stock' = [p \in Products |-> stock[p] + session[w].booked[p]]
      /\ net' = [p \in Products |-> net[p] + session[w].booked[p]]
      /\ \A p \in Products : session[w].booked[p] \in Int
  BY Committed
<1>2. session' \in [Workers -> Sessions] /\ session'[w] = Closed
      /\ \A v \in Workers \ {w} : session'[v] = session[v]
  BY <1>1, ClosedSound DEF Inv, TypeOK
<1>3. net' \in [Products -> Int]
  BY <1>1 DEF Inv, TypeOK
<1>4. TypeOK'
  BY <1>1, <1>2, <1>3 DEF Inv, TypeOK
<1>5. Exclusive'
  BY <1>2, ClosedSound DEF Inv, Exclusive
<1>6. Sound(session[w])'
  <2>1. Closed.pc = "idle" /\ Closed.kind = "none" /\ Closed.booked = NoUnits
    BY DEF Closed, Fresh, Session
  <2>2. QED
    BY <1>2, <2>1, NoUnitsType
       DEF Sound, Kinds, OrderHeld, PlanHeld, Written, OrderBooked, AdjustBooked
<1>7. \A v \in Workers : Sound(session[v])'
  BY <1>6, OthersSound
<1>8. StockMatchesLedger'
  <2>1. ASSUME NEW p \in Products PROVE stock'[p] = Opening[p] + net'[p]
    <3>1. stock[p] = Opening[p] + net[p] /\ net[p] \in Int /\ Opening[p] \in Int
      BY OrderBookTypes DEF Inv, TypeOK, StockMatchesLedger
    <3>2. stock'[p] = stock[p] + session[w].booked[p] /\ net'[p] = net[p] + session[w].booked[p]
          /\ session[w].booked[p] \in Int
      BY <1>1
    <3>3. QED
      BY <3>1, <3>2
  <2>2. QED
    BY <2>1 DEF StockMatchesLedger
<1>9. QED
  BY <1>4, <1>5, <1>7, <1>8 DEF Inv

-----------------------------------------------------------------------------
(* A commit is one step of the warehouse.                                  *)

\* A transition's commit is the fulfilment or the move of its order.
LEMMA CommitOrder ==
  ASSUME Inv, NEW w \in Workers, Commit(w), session[w].kind = "order"
  PROVE  Inv' /\ [Promise!Next]_rows
<1> DEFINE c == session[w]
           o == c.order
           t == c.target
<1>1. /\ o \in Orders /\ order[o] \in Statuses /\ t \in Statuses /\ t \in Allowed[order[o]]
  BY Committed DEF Inv, TypeOK, Sound, OrderHeld
<1>2. \A p \in Products :
        c.booked[p] = IF t = "processing" THEN -Demand(o, p) ELSE 0
  BY Committed DEF Sound, OrderBooked
<1>3. /\ order' = [order EXCEPT ![o] = t]
      /\ taken' = [taken EXCEPT ![o] = [p \in Products |-> taken[o][p] - c.booked[p]]]
  BY DEF Commit
<1>4. \A q \in Orders : order'[q] = IF q = o THEN t ELSE order[q]
  BY <1>1, <1>3 DEF Inv, TypeOK
<1>5. \A q \in Orders, p \in Products :
        taken'[q][p] = IF q = o THEN taken[o][p] - c.booked[p] ELSE taken[q][p]
  BY <1>1, <1>3 DEF Inv, TypeOK
<1>6. \A p \in Products :
        /\ Demand(o, p) \in Nat
        /\ taken[o][p] = IF order[o] \in Fulfilled THEN Demand(o, p) ELSE 0
  BY <1>1, UnitsType DEF Inv, BookedOnce
<1>7. /\ t = "processing" => order[o] = "pending"
      /\ t = "cancelled" => order[o] = "pending"
      /\ t \in {"shipped", "delivered"} => order[o] \in Fulfilled
      /\ t # "pending"
  BY <1>1 DEF Allowed, Statuses, Fulfilled
<1> HIDE DEF c, o, t
<1>8. ASSUME NEW p \in Products
      PROVE  taken'[o][p] = IF t \in Fulfilled THEN Demand(o, p) ELSE 0
  <2>1. taken'[o][p] = taken[o][p] - c.booked[p] /\ Demand(o, p) \in Nat
    BY <1>1, <1>5, <1>6
  <2>2. CASE t = "processing"
    <3>1. taken[o][p] = 0 /\ c.booked[p] = -Demand(o, p)
      BY <1>2, <1>6, <1>7, <2>2 DEF Fulfilled
    <3>2. QED
      BY <2>1, <2>2, <3>1 DEF Fulfilled
  <2>3. CASE t = "cancelled"
    <3>1. taken[o][p] = 0 /\ c.booked[p] = 0
      BY <1>2, <1>6, <1>7, <2>3 DEF Fulfilled
    <3>2. QED
      BY <2>1, <2>3, <3>1 DEF Fulfilled
  <2>4. CASE t \in {"shipped", "delivered"}
    <3>1. taken[o][p] = Demand(o, p) /\ c.booked[p] = 0
      BY <1>2, <1>6, <1>7, <2>4
    <3>2. QED
      BY <2>1, <2>4, <3>1 DEF Fulfilled
  <2>5. QED
    BY <1>1, <1>7, <2>2, <2>3, <2>4 DEF Statuses
<1>9. BookedOnce'
  <2>1. \A q \in Orders, p \in Products :
          taken'[q][p] = IF order'[q] \in Fulfilled THEN Demand(q, p) ELSE 0
    BY <1>4, <1>5, <1>8 DEF Inv, BookedOnce
  <2>2. QED
    BY <2>1 DEF BookedOnce
<1>10. taken' \in [Orders -> [Products -> Int]] /\ order' \in [Orders -> Statuses \cup {"none"}]
  <2>1. \A p \in Products : c.booked[p] \in Int
    BY Committed DEF c
  <2>2. [p \in Products |-> taken[o][p] - c.booked[p]] \in [Products -> Int]
    BY <1>1, <2>1 DEF Inv, TypeOK
  <2>3. QED
    BY <1>1, <1>3, <2>2 DEF Inv, TypeOK
<1>11. Inv'
  BY <1>9, <1>10, CommitKeeps
<1>12. CASE t = "processing"
  <2>1. \A p \in Products :
          /\ stock[p] \in Nat /\ net[p] \in Int /\ Demand(o, p) \in Nat
          /\ c.booked[p] = -Demand(o, p) /\ stock'[p] \in Nat
    BY <1>2, <1>6, <1>12, Committed DEF Inv, TypeOK
  <2>2. /\ stock' = [p \in Products |-> stock[p] + c.booked[p]]
        /\ net' = [p \in Products |-> net[p] + c.booked[p]]
    BY Committed DEF c
  <2>3. \A p \in Products :
          /\ Demand(o, p) <= stock[p]
          /\ stock[p] + c.booked[p] = stock[p] - Demand(o, p)
          /\ net[p] + c.booked[p] = net[p] - Demand(o, p)
    BY <2>1, <2>2
  <2>4. /\ stock' = [p \in Products |-> stock[p] - Demand(o, p)]
        /\ net' = [p \in Products |-> net[p] - Demand(o, p)]
    BY <2>2, <2>3
  <2>5. \A p \in Products : taken[o][p] - c.booked[p] = Demand(o, p)
    BY <1>1, <1>5, <1>8, <1>12 DEF Fulfilled
  <2>6. taken' = [taken EXCEPT ![o] = [p \in Products |-> Demand(o, p)]]
    <3>1. [p \in Products |-> taken[o][p] - c.booked[p]] = [p \in Products |-> Demand(o, p)]
      BY <2>5
    <3>2. QED
      BY <1>3, <3>1
  <2>7. \A p \in Products : Promise!Demand(o, p) = Demand(o, p)
    BY DEF Promise!Demand, Demand
  <2>8. Promise!Fulfill(o)
    BY <1>3, <1>7, <1>12, <2>3, <2>4, <2>6, <2>7 DEF Promise!Fulfill
  <2>9. QED
    BY <1>1, <1>11, <2>8 DEF Promise!Next
<1>13. CASE t # "processing"
  <2>1. \A p \in Products : c.booked[p] = 0
    BY <1>2, <1>13
  <2>2. stock' = stock /\ net' = net /\ taken' = taken
    <3>1. /\ stock' = [p \in Products |-> stock[p] + c.booked[p]]
          /\ net' = [p \in Products |-> net[p] + c.booked[p]]
      BY Committed DEF c
    <3>2. stock \in [Products -> Nat] /\ net \in [Products -> Int] /\ taken \in [Orders -> [Products -> Int]]
      BY DEF Inv, TypeOK
    <3>3. \A p \in Products : stock[p] + c.booked[p] = stock[p] /\ net[p] + c.booked[p] = net[p]
      BY <2>1, <3>2
    <3>4. \A q \in Orders, p \in Products : taken'[q][p] = taken[q][p]
      BY <1>1, <1>5, <2>1, <3>2
    <3>5. QED
      BY <1>10, <3>1, <3>2, <3>3, <3>4
  <2>3. Promise!Advance(o, t)
    BY <1>1, <1>3, <1>13, <2>2 DEF Promise!Advance, Promise!Allowed, Promise!Statuses, Allowed, Statuses
  <2>4. QED
    BY <1>1, <1>11, <2>3 DEF Promise!Next, Promise!Statuses, Statuses
<1>14. QED
  BY <1>12, <1>13

\* An adjustment's commit is one change of one product.
LEMMA CommitAdjustment ==
  ASSUME Inv, NEW w \in Workers, Commit(w), session[w].kind = "adjust"
  PROVE  Inv' /\ [Promise!Next]_rows
<1> DEFINE c == session[w]
<1>1. order' = order /\ taken' = taken
  BY DEF Commit
<1>2. Inv'
  <2>1. BookedOnce'
    BY <1>1 DEF Inv, BookedOnce
  <2>2. QED
    BY <1>1, <2>1, CommitKeeps DEF Inv, TypeOK
<1>3. PICK q \in Products, e \in Changes : c.booked = [NoUnits EXCEPT ![q] = e]
  BY Committed DEF Sound, AdjustBooked
<1>4. e \in Int /\ c.booked[q] = e /\ \A p \in Products \ {q} : c.booked[p] = 0
  BY <1>3, NoUnitsType, OrderBookTypes
<1>5. /\ stock' = [p \in Products |-> stock[p] + c.booked[p]] /\ stock' \in [Products -> Nat]
      /\ net' = [p \in Products |-> net[p] + c.booked[p]]
  BY Committed
<1>6. stock \in [Products -> Nat] /\ net \in [Products -> Int]
  BY DEF Inv, TypeOK
<1> HIDE DEF c
<1>7. \A p \in Products :
        /\ stock[p] + c.booked[p] = IF p = q THEN stock[q] + e ELSE stock[p]
        /\ net[p] + c.booked[p] = IF p = q THEN net[q] + e ELSE net[p]
  BY <1>4, <1>6
<1>8. stock' = [stock EXCEPT ![q] = stock[q] + e] /\ net' = [net EXCEPT ![q] = net[q] + e]
  BY <1>5, <1>6, <1>7
<1>9. stock[q] + e >= 0
  BY <1>4, <1>5, <1>6
<1>10. Promise!Adjust(q, e)
  BY <1>1, <1>8, <1>9 DEF Promise!Adjust
<1>11. QED
  BY <1>2, <1>3, <1>10 DEF Promise!Next

-----------------------------------------------------------------------------
(* Every step.                                                             *)

LEMMA NextInv == Inv /\ [Next]_vars => Inv' /\ [Promise!Next]_rows
<1> SUFFICES ASSUME Inv, [Next]_vars PROVE Inv' /\ [Promise!Next]_rows
  OBVIOUS
<1>1. CASE \E o \in Orders : Place(o)
  BY <1>1, PlaceStep DEF Promise!Next
<1>2. CASE \E w \in Workers : Begin(w)
  BY <1>2, BeginStep
<1>3. ASSUME NEW w \in Workers, Proceed(w) PROVE Inv' /\ [Promise!Next]_rows
  <2>1. CASE ReadOrder(w)
    BY <2>1, ReadStep
  <2>2. CASE CheckLine(w)
    BY <2>2, CheckStep
  <2>3. CASE WriteLine(w)
    BY <2>3, WriteStep
  <2>4. CASE Commit(w)
    <3>1. session[w].kind \in {"order", "adjust"}
      BY <2>4, Committed
    <3>2. QED
      BY <2>4, <3>1, CommitOrder, CommitAdjustment
  <2>5. CASE RefuseTransition(w) \/ RefuseLine(w) \/ RefuseWrite(w) \/ Abort(w)
    <3>1. Close(w) /\ UNCHANGED <<rows, adjustments>>
      BY <2>5 DEF RefuseTransition, RefuseLine, RefuseWrite, Abort, rows
    <3>2. Inv'
      BY <3>1, CloseStep
    <3>3. QED
      BY <3>1, <3>2
  <2>6. QED
    BY <1>3, <2>1, <2>2, <2>3, <2>4, <2>5 DEF Proceed
<1>4. CASE \E w \in Workers : Die(w)
  <2>1. PICK w \in Workers : Die(w)
    BY <1>4
  <2>2. Close(w) /\ UNCHANGED <<rows, adjustments>>
    BY <2>1 DEF Die, rows
  <2>3. Inv'
    BY <2>2, CloseStep
  <2>4. QED
    BY <2>2, <2>3
<1>5. CASE UNCHANGED vars
  <2>1. /\ order' = order /\ stock' = stock /\ net' = net /\ taken' = taken
        /\ session' = session /\ adjustments' = adjustments
    BY <1>5 DEF vars
  <2>2. \A v \in Workers : Sound(session[v])'
    BY <2>1 DEF Inv, Sound, Kinds, OrderHeld, PlanHeld, Written, OrderBooked, AdjustBooked
  <2>3. QED
    BY <2>1, <2>2 DEF Inv, TypeOK, Exclusive, BookedOnce, StockMatchesLedger, rows
<1>6. QED
  BY <1>1, <1>2, <1>3, <1>4, <1>5 DEF Next

LEMMA Invariance == Spec => []Inv
<1>1. Inv /\ [Next]_vars => Inv'
  BY NextInv
<1>2. QED
  BY InitInv, <1>1, PTL DEF Spec

\* Committed stock is never negative, and sessions hold orders, products and
\* lines that exist.
THEOREM Typing == Spec => []TypeOK
BY Invariance, PTL DEF Inv

\* No fulfilment or restock is lost: the stock is what the ledger accounts
\* for, whatever the sessions interleave, deadlock or die.
THEOREM LedgerKept == Spec => []StockMatchesLedger
BY Invariance, PTL DEF Inv

\* An order's lines are booked as a whole, once, exactly if it was fulfilled.
THEOREM Booked == Spec => []BookedOnce
BY Invariance, PTL DEF Inv

\* The sessions implement the warehouse: each commit is one of its atomic
\* operations, and every other step leaves the committed rows alone.
THEOREM Refinement == Spec => Serializable
<1>1. Init => Promise!Init
  BY DEF Init, Promise!Init, NoUnits
<1>2. Inv /\ [Next]_vars => [Promise!Next]_(Promise!vars)
  BY NextInv DEF rows, Promise!vars
<1>3. QED
  BY Invariance, <1>1, <1>2, PTL DEF Spec, Serializable, Promise!Spec

=============================================================================

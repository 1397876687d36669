---------------------------- MODULE Fulfillment ----------------------------
(***************************************************************************)
(* Orders and stock as the tools change them: each call is one session     *)
(* whose SELECT ... FOR UPDATE statements lock the order's row and then    *)
(* one product's row after another, and whose writes appear at its commit. *)
(* Sessions interleave between statements, wait for each other's locks,    *)
(* are aborted by PostgreSQL when they deadlock, and may die.              *)
(***************************************************************************)
EXTENDS OrderBook

CONSTANTS
  Workers,        \* sessions that may be open at once
  Surveys,        \* product lists that a read-only tool looks up by UUID
  MaxAdjustments  \* bound on the calls of the update_inventory tool

ASSUME FulfillmentTypes ==
  /\ Surveys \subseteq Seq(Products) \ {<<>>}
  /\ 0 \notin Changes
  /\ MaxAdjustments \in Nat

VARIABLES
  order, stock, net, taken,   \* committed rows, as in Warehouse
  session,                    \* session[w]: the open transaction of worker w
  adjustments                 \* calls of update_inventory so far

vars == <<order, stock, net, taken, session, adjustments>>

Rows == Orders \cup Products
Steps == [product : Products, change : Int]
Change(p, c) == [product |-> p, change |-> c]

NoUnits == [p \in Products |-> 0]

\* kind: the tool; order and target: a transition's order and new status;
\* plan and line: the stock changes to make, and the one at hand; balance and
\* booked: what the session wrote and has not committed.
Session(pc, kind, o, target, plan, line, locks, balance, booked) ==
  [pc |-> pc, kind |-> kind, order |-> o, target |-> target, plan |-> plan,
   line |-> line, locks |-> locks, balance |-> balance, booked |-> booked]
Fresh(pc, kind, o, target, plan, line, locks) ==
  Session(pc, kind, o, target, plan, line, locks, NoUnits, NoUnits)
Closed == Fresh("idle", "none", None, "none", <<>>, 0, {})

Sessions ==
  [pc : {"idle", "order", "check", "write", "commit"},
   kind : {"none", "order", "adjust", "survey"},
   order : Orders \cup {None}, target : Statuses \cup {"none"},
   plan : Seq(Steps), line : Nat, locks : SUBSET Rows,
   balance : [Products -> Int], booked : [Products -> Int]]

Init ==
  /\ order = [o \in Orders |-> "none"]
  /\ stock = Opening
  /\ net = NoUnits
  /\ taken = [o \in Orders |-> NoUnits]
  /\ session = [w \in Workers |-> Closed]
  /\ adjustments = 0

-----------------------------------------------------------------------------
(* Sessions and row locks.                                                 *)

At(w, pc) == session[w].pc = pc

\* mutant: the session is not closed.
CloseKeepingLocks(w) ==
  session' = [session EXCEPT ![w] =
    Fresh("idle", "none", None, "none", <<>>, 0, session[w].locks)]

\* Commit, rollback, an error that leaves the tool, a lost connection.
Close(w) == session' = [session EXCEPT ![w] = Closed]

Step(w) == session[w].plan[session[w].line]

\* The row the session's next statement locks.
Wanted(w) ==
  CASE At(w, "order") -> session[w].order
    [] At(w, "check") -> Step(w).product
    [] OTHER -> None

AlwaysFree(w) == TRUE                           \* mutant: no FOR UPDATE
Free(w) == \A v \in Workers \ {w} : Wanted(w) \notin session[v].locks

WaitsFor(w, v) == Wanted(w) \in session[v].locks /\ v # w

\* A set of sessions each waiting for another of them.
Deadlocked(w) ==
  \E S \in SUBSET Workers :
    /\ w \in S
    /\ \A v \in S : (\E u \in S : WaitsFor(v, u)) /\ (\E u \in S : WaitsFor(u, v))

BalanceCommitted(w, p) == stock[p]              \* mutant: own writes are not read
\* The balance a session reads: its own write if it made one.
Balance(w, p) == IF session[w].booked[p] = 0 THEN stock[p] ELSE session[w].balance[p]

PermittedAlways(w) == session[w].target # "pending"  \* mutant: status not consulted
Permitted(w) == session[w].target \in Allowed[order[session[w].order]]

EnoughAlways(balance) == TRUE                   \* mutant: stock is not checked
Enough(balance) == balance >= 0

-----------------------------------------------------------------------------
(* The tools' sessions, one SQL statement at a time.                       *)

\* OrderRepository.create_from_quote; the quote's side is in QuoteApproval.
Place(o) ==
  /\ order[o] = "none"
  /\ order' = [order EXCEPT ![o] = "pending"]
  /\ UNCHANGED <<stock, net, taken, session, adjustments>>

Open(w, s) ==
  /\ At(w, "idle")
  /\ session' = [session EXCEPT ![w] = s]

\* update_ostatus, and fulfill_order as its target "processing".
BeginTransition(w, o, s) ==
  /\ order[o] # "none"
  /\ Open(w, Fresh("order", "order", o, s, <<>>, 0, {}))
  /\ UNCHANGED <<order, stock, net, taken, adjustments>>

BeginAdjustment(w, p, c) ==
  /\ adjustments < MaxAdjustments
  /\ adjustments' = adjustments + 1
  /\ Open(w, Fresh("check", "adjust", None, "none", <<Change(p, c)>>, 1, {}))
  /\ UNCHANGED <<order, stock, net, taken>>

\* A feasibility check locks what it reads, in the caller's order.
BeginSurvey(w, ps) ==
  /\ Open(w, Fresh("check", "survey", None, "none",
                   [i \in DOMAIN ps |-> Change(ps[i], 0)], 1, {}))
  /\ UNCHANGED <<order, stock, net, taken, adjustments>>

\* Fulfilment takes the items' units off the stock, in their order.
PlanOf(o) == [i \in DOMAIN Lines[o] |-> Change(Lines[o][i].product, -Lines[o][i].quantity)]

\* get_with_items, then the checks of transition_status and fulfill_order.
ReadOrder(w) ==
  LET o == session[w].order
      s == session[w].target
  IN /\ At(w, "order")
     /\ Free(w)
     /\ Permitted(w)
     /\ session' = [session EXCEPT ![w] =
          IF s = "processing" THEN Fresh("check", "order", o, s, PlanOf(o), 1, {o})
          ELSE Fresh("commit", "order", o, s, <<>>, 0, {o})]
     /\ UNCHANGED <<order, stock, net, taken, adjustments>>

\* InvalidStatusTransitionError.
RefuseTransition(w) ==
  /\ At(w, "order")
  /\ Free(w)
  /\ ~Permitted(w)
  /\ Close(w)
  /\ UNCHANGED <<order, stock, net, taken, adjustments>>

\* The locks are taken line by line: check_stock reads through get_by_id.
\* Each line is compared with the whole stock, whatever the lines before.
CheckLine(w) ==
  LET s == session[w]
  IN /\ At(w, "check")
     /\ Free(w)
     /\ Enough(stock[Step(w).product] + Step(w).change)
     /\ session' = [session EXCEPT ![w] =
          IF s.line < Len(s.plan)
          THEN Fresh("check", s.kind, s.order, s.target, s.plan, s.line + 1, s.locks \cup {Wanted(w)})
          ELSE IF s.kind = "survey" THEN Closed
          ELSE Fresh("write", s.kind, s.order, s.target, s.plan, 1, s.locks \cup {Wanted(w)})]
     /\ UNCHANGED <<order, stock, net, taken, adjustments>>

RefuseLine(w) ==
  /\ At(w, "check")
  /\ Free(w)
  /\ ~Enough(stock[Step(w).product] + Step(w).change)
  /\ Close(w)
  /\ UNCHANGED <<order, stock, net, taken, adjustments>>

\* update_inventory: the balance and its ledger row, flushed together.
WriteLine(w) ==
  LET s == session[w]
      p == Step(w).product
      balance == Balance(w, p) + Step(w).change
      last == s.line = Len(s.plan)
  IN /\ At(w, "write")
     /\ Enough(balance)
     /\ session' = [session EXCEPT ![w] =
          Session(IF last THEN "commit" ELSE "write", s.kind, s.order, s.target, s.plan,
                  IF last THEN s.line ELSE s.line + 1, s.locks,
                  [s.balance EXCEPT ![p] = balance],
                  [s.booked EXCEPT ![p] = @ + Step(w).change])]
     /\ UNCHANGED <<order, stock, net, taken, adjustments>>

\* Lines that name one product twice pass their checks and fail here.
RefuseWrite(w) ==
  /\ At(w, "write")
  /\ ~Enough(Balance(w, Step(w).product) + Step(w).change)
  /\ Close(w)
  /\ UNCHANGED <<order, stock, net, taken, adjustments>>

Commit(w) ==
  LET s == session[w]
  IN /\ At(w, "commit")
     /\ order' = IF s.kind = "order" THEN [order EXCEPT ![s.order] = s.target] ELSE order
     /\ stock' = [p \in Products |-> Balance(w, p)]
     /\ net' = [p \in Products |-> net[p] + s.booked[p]]
     /\ taken' = IF s.kind = "order"
                 THEN [taken EXCEPT ![s.order] = [p \in Products |-> @[p] - s.booked[p]]]
                 ELSE taken
     /\ Close(w)
     /\ UNCHANGED adjustments

\* PostgreSQL breaks a deadlock by aborting a session that is part of it.
Abort(w) ==
  /\ Deadlocked(w)
  /\ Close(w)
  /\ UNCHANGED <<order, stock, net, taken, adjustments>>

\* The process or its connection dies before the commit.
Die(w) ==
  /\ ~At(w, "idle")
  /\ Close(w)
  /\ UNCHANGED <<order, stock, net, taken, adjustments>>

-----------------------------------------------------------------------------
Begin(w) ==
  \/ \E o \in Orders, s \in Statuses : BeginTransition(w, o, s)
  \/ \E p \in Products, c \in Changes : BeginAdjustment(w, p, c)
  \/ \E ps \in Surveys : BeginSurvey(w, ps)

Proceed(w) ==
  \/ ReadOrder(w) \/ RefuseTransition(w)
  \/ CheckLine(w) \/ RefuseLine(w)
  \/ WriteLine(w) \/ RefuseWrite(w)
  \/ Commit(w) \/ Abort(w)

Next ==
  \/ \E o \in Orders : Place(o)
  \/ \E w \in Workers : Begin(w) \/ Proceed(w) \/ Die(w)

Spec == Init /\ [][Next]_vars

(***************************************************************************)
(* Fairness.  A session goes on when it can; strong, because others may    *)
(* take the row it waits for in between, and PostgreSQL serves a row's     *)
(* waiters in turn.                                                        *)
(***************************************************************************)
FairSpec == Spec /\ \A w \in Workers : SF_vars(Proceed(w))

-----------------------------------------------------------------------------
\* Committed rows, with no negative stock, and open sessions.
TypeOK ==
  /\ order \in [Orders -> Statuses \cup {"none"}]
  /\ stock \in [Products -> Nat]
  /\ net \in [Products -> Int]
  /\ taken \in [Orders -> [Products -> Int]]
  /\ session \in [Workers -> Sessions]
  /\ adjustments \in 0..MaxAdjustments

\* The stock of a product is what its ledger accounts for, so no concurrent
\* fulfilment or restock is ever lost (update_inventory under get_by_id's lock).
StockMatchesLedger ==
  \A p \in Products : stock[p] = Opening[p] + net[p]

\* An order's lines are booked once and as a whole, exactly if it was
\* fulfilled: a refused, cancelled or repeated call books nothing.
BookedOnce ==
  \A o \in Orders, p \in Products :
    taken[o][p] = IF order[o] \in Fulfilled THEN Demand(o, p) ELSE 0

\* Whatever the interleaving, the committed rows change as if each call ran
\* alone: the services implement the warehouse.
Promise == INSTANCE Warehouse WITH order <- order, stock <- stock, net <- net, taken <- taken
Serializable == Promise!Spec

\* No call waits for ever: a lock is released or its deadlock is broken.
EveryCallEnds == \A w \in Workers : ~At(w, "idle") ~> At(w, "idle")
=============================================================================

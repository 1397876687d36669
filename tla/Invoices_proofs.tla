-------------------------- MODULE Invoices_proofs --------------------------
(***************************************************************************)
(* Proofs about Invoices, for any number of invoices, sessions and         *)
(* payments.  The argument is the row lock: what a locking session has     *)
(* read is still what the tables hold, so its decision is taken on the     *)
(* committed rows, and its commit is a step of Receivables.                *)
(***************************************************************************)
EXTENDS Invoices, TLAPS

\* What record_payment, refresh_status and get_days_overdue read under the
\* lock is current until they end.
ReadIsCurrent ==
  \A w \in Workers : \A i \in Invoices : Holds(w, i) =>
    /\ session[w].seen = status[i]
    /\ session[w].dated = dated[i]
    /\ session[w].pc \in {"decide", "commit"} => session[w].total = paid[i]

\* One session holds an invoice; only a writing one decides, and it commits
\* what it decided.
LockedOnce ==
  /\ \A v, w \in Workers : \A i \in Invoices : Holds(v, i) /\ Holds(w, i) => v = w
  /\ \A w \in Workers :
       /\ session[w].pc \in {"decide", "commit"} => session[w].kind \in Writing
       /\ session[w].pc = "commit" => Accepted(w)
       /\ session[w].late => past[session[w].invoice]

\* What an unlocked session saw of the status may be stale when it reads the
\* payments, but an invoice is issued, paid and cancelled for good.
SeenLasts ==
  \A w \in Workers : At(w, "payments") =>
    LET now == status[session[w].invoice]
    IN /\ session[w].seen \in Statuses
       /\ session[w].seen # "draft" => now # "draft"
       /\ session[w].seen \in {"paid", "cancelled"} => now = session[w].seen

IInv == /\ TypeOK /\ ReadIsCurrent /\ LockedOnce /\ SeenLasts
        /\ NeverOverpaid /\ StatusFollowsPayments

-----------------------------------------------------------------------------
(* The rules without state.                                                *)

\* calculate_invoice_status always yields a status of the enumeration.
LEMMA StatusType ==
  ASSUME NEW i, NEW total, NEW current, NEW late
  PROVE  StatusOf(i, total, current, late) \in Statuses
BY DEF StatusOf, Statuses

\* calculate_invoice_status of a legal total agrees with the payments.
LEMMA StatusAgrees ==
  ASSUME NEW i \in Invoices, NEW total \in Nat, total <= Amount[i],
         NEW current \in Statuses, NEW late \in BOOLEAN
  PROVE  LET s == StatusOf(i, total, current, late)
         IN /\ current = "cancelled" <=> s = "cancelled"
            /\ s # "cancelled" =>
                 /\ s = "paid" <=> total = Amount[i]
                 /\ s = "partially_paid" => total > 0
                 /\ s = "overdue" => late
BY InvoiceBookTypes DEF StatusOf, Statuses

-----------------------------------------------------------------------------
(* Types.                                                                  *)

\* What an open session carries.
LEMMA OpenSession ==
  ASSUME TypeOK, NEW w \in Workers, ~At(w, "idle")
  PROVE  /\ session[w] \in Sessions /\ OfCall(session[w])
         /\ session[w].amount \in Nat
         /\ session[w].total \in Nat
         /\ session[w].dated \in BOOLEAN /\ session[w].late \in BOOLEAN
<1>1. session[w] \in Sessions /\ OfCall(session[w])
  BY DEF TypeOK
<1>2. Payable \cup {0} \subseteq Nat
  BY InvoiceBookTypes
<1>3. QED
  BY <1>1, <1>2 DEF Sessions

\* A step that replaces one session by a legal one and leaves the rows.
LEMMA SessionType ==
  ASSUME TypeOK, NEW w \in Workers, NEW s \in Sessions,
         s = Closed \/ (s.pc # "idle" /\ OfCall(s)),
         session' = [session EXCEPT ![w] = s], UNCHANGED rows
  PROVE  TypeOK'
<1>1. session' \in [Workers -> Sessions]
  BY DEF TypeOK
<1>2. ASSUME NEW v \in Workers
      PROVE  IF At(v, "idle")' THEN session'[v] = Closed ELSE OfCall(session'[v])
  <2>1. CASE v = w
    BY <2>1 DEF TypeOK, At, Closed
  <2>2. CASE v # w
    <3>1. session'[v] = session[v]
      BY <2>2 DEF TypeOK
    <3>2. QED
      BY <3>1 DEF TypeOK, At
  <2>3. QED
    BY <2>1, <2>2
<1>3. QED
  BY <1>1, <1>2 DEF TypeOK, rows

\* A session that ends is still a session.
LEMMA CloseType ==
  ASSUME TypeOK, NEW w \in Workers, Close(w), UNCHANGED rows
  PROVE  TypeOK'
<1>1. Closed \in Sessions
  BY DEF Closed, Sessions
<1>2. QED
  BY <1>1, SessionType DEF Close

LEMMA TypeInit == Init => TypeOK
BY DEF Init, TypeOK, Closed, Sessions, At, Statuses

LEMMA TypeStep == TypeOK /\ [Next]_vars => TypeOK'
<1> SUFFICES ASSUME TypeOK, [Next]_vars
             PROVE  TypeOK'
  OBVIOUS
<1>1. ASSUME NEW i \in Invoices, Issue(i) \/ Cancel(i) \/ BecomePast(i)
      PROVE  TypeOK'
  BY <1>1 DEF Issue, Cancel, BecomePast, TypeOK, At, Statuses
<1>2. ASSUME NEW w \in Workers, NEW i \in Invoices, NEW kind \in Kinds, NEW a \in Payable \cup {0},
             kind # "pay" => a = 0, Begin(w, kind, i, a)
      PROVE  TypeOK'
  <2> DEFINE s == [Closed EXCEPT !.pc = "invoice", !.kind = kind, !.invoice = i, !.amount = a,
                                 !.late = (kind = "list" /\ past[i])]
  <2>1. past[i] \in BOOLEAN
    BY DEF TypeOK
  <2>2. s \in Sessions /\ s.pc # "idle" /\ OfCall(s)
    BY <1>2, <2>1 DEF Sessions, Closed, OfCall
  <2>3. session' = [session EXCEPT ![w] = s] /\ UNCHANGED rows
    BY <1>2, Zenon DEF Begin
  <2> HIDE DEF s
  <2>4. QED
    BY <2>2, <2>3, SessionType
<1>3. ASSUME NEW w \in Workers, ReadInvoice(w)
      PROVE  TypeOK'
  <2> DEFINE i == session[w].invoice
             s == [session[w] EXCEPT !.pc = "payments", !.seen = status[i], !.dated = dated[i]]
  <2>1. session[w] \in Sessions /\ OfCall(session[w])
    BY <1>3, OpenSession DEF ReadInvoice, At
  <2>2. status[i] \in Statuses /\ dated[i] \in BOOLEAN
    BY <2>1 DEF TypeOK, OfCall
  <2>3. s \in Sessions /\ s.pc # "idle" /\ OfCall(s)
    BY <2>1, <2>2 DEF Sessions, OfCall
  <2>4. session' = [session EXCEPT ![w] = s] /\ UNCHANGED rows
    BY <1>3 DEF ReadInvoice
  <2> HIDE DEF s
  <2>5. QED
    BY <2>3, <2>4, SessionType
<1>4. ASSUME NEW w \in Workers, ReadPayments(w)
      PROVE  TypeOK'
  <2> DEFINE i == session[w].invoice
             pc == IF session[w].kind \in Writing THEN "decide" ELSE "told"
             late == IF session[w].kind \in Writing \cup {"list"} THEN session[w].late ELSE past[i]
             s == [session[w] EXCEPT !.pc = pc, !.total = paid[i], !.late = late]
  <2>1. session[w] \in Sessions /\ OfCall(session[w]) /\ session[w].late \in BOOLEAN
    BY <1>4, OpenSession DEF ReadPayments, At
  <2>2. paid[i] \in Nat /\ late \in BOOLEAN /\ pc \in {"decide", "told"}
    BY <2>1 DEF TypeOK, OfCall
  <2>3. session' = [session EXCEPT ![w] = s] /\ UNCHANGED rows
    BY <1>4 DEF ReadPayments
  <2> HIDE DEF pc, late
  <2>4. s \in Sessions /\ s.pc # "idle" /\ OfCall(s)
    BY <2>1, <2>2 DEF Sessions, OfCall
  <2> HIDE DEF s
  <2>5. QED
    BY <2>3, <2>4, SessionType
<1>5. ASSUME NEW w \in Workers, Accept(w)
      PROVE  TypeOK'
  <2>1. session[w] \in Sessions /\ OfCall(session[w])
    BY <1>5, OpenSession DEF Accept, At
  <2>2. past[session[w].invoice] \in BOOLEAN
    BY <2>1 DEF TypeOK, OfCall
  <2>3. PICK late \in BOOLEAN :
          session' = [session EXCEPT ![w] = [session[w] EXCEPT !.pc = "commit", !.late = late]]
    BY <1>5, <2>2 DEF Accept
  <2> DEFINE s == [session[w] EXCEPT !.pc = "commit", !.late = late]
  <2>4. s \in Sessions /\ s.pc # "idle" /\ OfCall(s)
    BY <2>1 DEF Sessions, OfCall
  <2>5. session' = [session EXCEPT ![w] = s] /\ UNCHANGED rows
    BY <1>5, <2>3 DEF Accept
  <2> HIDE DEF s
  <2>6. QED
    BY <2>4, <2>5, SessionType
<1>6. ASSUME NEW w \in Workers, Commit(w)
      PROVE  TypeOK'
  <2> DEFINE i == session[w].invoice
             s == StatusOf(i, Paying(w), session[w].seen, session[w].late)
             d == DatedAfter(s, session[w].dated)
  <2>1. i \in Invoices /\ session[w].amount \in Nat /\ d \in BOOLEAN
    BY <1>6, OpenSession DEF Commit, At, DatedAfter, OfCall
  <2>2. s \in Statuses
    BY StatusType
  <2>3. /\ status' = [status EXCEPT ![i] = s] /\ dated' = [dated EXCEPT ![i] = d]
        /\ paid' = [paid EXCEPT ![i] = @ + session[w].amount]
        /\ past' = past /\ session' = [session EXCEPT ![w] = Closed]
    BY <1>6 DEF Commit, Close
  <2> HIDE DEF i, s, d
  <2>4. QED
    <3>1. /\ status' \in [Invoices -> Statuses] /\ dated' \in [Invoices -> BOOLEAN]
          /\ paid' \in [Invoices -> Nat] /\ past' \in [Invoices -> BOOLEAN]
      BY <2>1, <2>2, <2>3 DEF TypeOK
    <3>2. Closed \in Sessions
      BY DEF Closed, Sessions
    <3>3. QED
      BY <2>3, <3>1, <3>2 DEF TypeOK, At, Closed
<1>7. ASSUME NEW w \in Workers, PassOver(w) \/ Refuse(w) \/ End(w)
      PROVE  TypeOK'
  BY <1>7, CloseType DEF PassOver, Refuse, End
<1>8. CASE UNCHANGED vars
  BY <1>8 DEF vars, rows, TypeOK, At
<1>9. QED
  BY <1>1, <1>2, <1>3, <1>4, <1>5, <1>6, <1>7, <1>8 DEF Next, Kinds, Locking, Writing

-----------------------------------------------------------------------------
(* The lock.                                                               *)

\* A session at its commit decided on the rows as they still are.
LEMMA CommitSeesRows ==
  ASSUME TypeOK, LockedOnce, ReadIsCurrent, NeverOverpaid,
         NEW w \in Workers, At(w, "commit")
  PROVE  LET i == session[w].invoice
         IN /\ i \in Invoices
            /\ Holds(w, i)
            /\ session[w].seen = status[i] /\ session[w].dated = dated[i]
            /\ session[w].total = paid[i]
            /\ session[w].amount \in Nat
            /\ Paying(w) = paid[i] + session[w].amount
            /\ Paying(w) \in Nat /\ Paying(w) <= Amount[i]
            /\ session[w].kind = "refresh" => session[w].amount = 0
            /\ session[w].kind = "pay" => session[w].amount \in Payable \/ session[w].amount = 0
            /\ session[w].kind \in Writing
            /\ session[w].late \in BOOLEAN
            /\ session[w].late => past[i]
<1> DEFINE i == session[w].invoice
<1>1. i \in Invoices /\ session[w].amount \in Nat /\ session[w].late \in BOOLEAN
  BY OpenSession DEF At, OfCall
<1>2. session[w].kind \in Writing /\ Accepted(w) /\ (session[w].late => past[i])
  BY DEF LockedOnce, At
<1>3. Holds(w, i)
  BY <1>2 DEF Holds, Locking, At
<1>4. session[w].seen = status[i] /\ session[w].dated = dated[i] /\ session[w].total = paid[i]
  BY <1>1, <1>3 DEF ReadIsCurrent, At
<1>5. /\ session[w].kind = "refresh" => session[w].amount = 0
      /\ session[w].kind = "pay" => session[w].amount \in Payable \/ session[w].amount = 0
  BY DEF TypeOK, At, OfCall, Sessions
<1>6. paid[i] \in Nat /\ paid[i] <= Amount[i] /\ Amount[i] \in Nat
  BY <1>1, InvoiceBookTypes DEF TypeOK, NeverOverpaid
<1>7. Paying(w) = paid[i] + session[w].amount /\ Paying(w) \in Nat
  BY <1>1, <1>4, <1>6 DEF Paying
<1>8. Paying(w) <= Amount[i]
  BY <1>2, <1>4, <1>5, <1>6, <1>7 DEF Accepted, Writing
<1>9. QED
  BY <1>1, <1>2, <1>3, <1>4, <1>5, <1>7, <1>8

\* A step of one session disturbs no other if the rows it changes are
\* locked by it; what it must establish is its own part of the invariant.
LEMMA OneSession ==
  ASSUME ReadIsCurrent, LockedOnce, NEW w \in Workers, past' = past,
         \A v \in Workers \ {w} : session'[v] = session[v],
         \A i \in Invoices :
           Holds(w, i) \/ (status'[i] = status[i] /\ dated'[i] = dated[i] /\ paid'[i] = paid[i]),
         \A i \in Invoices : Holds(w, i)' =>
           /\ \A v \in Workers \ {w} : ~Holds(v, i)
           /\ session'[w].seen = status'[i] /\ session'[w].dated = dated'[i]
           /\ session'[w].pc \in {"decide", "commit"} => session'[w].total = paid'[i],
         session'[w].pc \in {"decide", "commit"} => session'[w].kind \in Writing,
         session'[w].pc = "commit" => Accepted(w)',
         session'[w].late => past'[session'[w].invoice]
  PROVE  ReadIsCurrent' /\ LockedOnce'
<1>1. ASSUME NEW v \in Workers, v # w
      PROVE  /\ \A i \in Invoices : Holds(v, i)' <=> Holds(v, i)
             /\ Accepted(v)' <=> Accepted(v)
  BY <1>1 DEF Holds, Accepted
<1>2. ReadIsCurrent'
  <2> SUFFICES ASSUME NEW v \in Workers, NEW i \in Invoices, Holds(v, i)', v # w
               PROVE  /\ session'[v].seen = status'[i]
                      /\ session'[v].dated = dated'[i]
                      /\ session'[v].pc \in {"decide", "commit"} => session'[v].total = paid'[i]
    BY DEF ReadIsCurrent
  <2>1. Holds(v, i) /\ session'[v] = session[v]
    BY <1>1
  <2>2. ~Holds(w, i)
    BY <2>1 DEF LockedOnce
  <2>3. QED
    BY <2>1, <2>2 DEF ReadIsCurrent
<1>3. LockedOnce'
  <2>1. ASSUME NEW u \in Workers, NEW v \in Workers, NEW i \in Invoices, Holds(u, i)', Holds(v, i)'
        PROVE  u = v
    BY <1>1, <2>1 DEF LockedOnce
  <2>2. ASSUME NEW v \in Workers
        PROVE  /\ session'[v].pc \in {"decide", "commit"} => session'[v].kind \in Writing
               /\ session'[v].pc = "commit" => Accepted(v)'
               /\ session'[v].late => past'[session'[v].invoice]
    BY <1>1, <2>2 DEF LockedOnce
  <2>3. QED
    BY <2>1, <2>2 DEF LockedOnce
<1>4. QED
  BY <1>2, <1>3

\* Every step that can be taken while w holds an invoice: its row and
\* payments are only changed by the session that holds it.
LEMMA ReadStep == IInv /\ [Next]_vars => ReadIsCurrent' /\ LockedOnce'
<1> SUFFICES ASSUME IInv, [Next]_vars
             PROVE  ReadIsCurrent' /\ LockedOnce'
  OBVIOUS
<1>t. TypeOK /\ TypeOK'
  BY TypeStep DEF IInv
<1>1. ASSUME NEW i \in Invoices, Issue(i) \/ Cancel(i)
      PROVE  ReadIsCurrent' /\ LockedOnce'
  BY <1>1, <1>t DEF Issue, Cancel, Unlocked, IInv, TypeOK, ReadIsCurrent, LockedOnce, Holds, Accepted
<1>2. ASSUME NEW i \in Invoices, BecomePast(i)
      PROVE  ReadIsCurrent' /\ LockedOnce'
  BY <1>2, <1>t DEF BecomePast, IInv, TypeOK, ReadIsCurrent, LockedOnce, Holds, Accepted
<1>3. ASSUME NEW w \in Workers, NEW i \in Invoices, NEW kind \in Kinds, NEW a \in Payable \cup {0},
             Begin(w, kind, i, a)
      PROVE  ReadIsCurrent' /\ LockedOnce'
  <2>1. UNCHANGED rows /\ \A v \in Workers \ {w} : session'[v] = session[v]
    BY <1>3, <1>t DEF Begin, TypeOK
  <2>2. session'[w].pc = "invoice" /\ session'[w].invoice = i /\ (session'[w].late => past[i])
    BY <1>3, <1>t DEF Begin, TypeOK, Closed
  <2>3. QED
    BY <2>1, <2>2, OneSession DEF IInv, rows, Holds
<1>4. ASSUME NEW w \in Workers, ReadInvoice(w)
      PROVE  ReadIsCurrent' /\ LockedOnce'
  <2>1. /\ UNCHANGED rows /\ \A v \in Workers \ {w} : session'[v] = session[v]
        /\ session'[w].pc = "payments" /\ session'[w].kind = session[w].kind
        /\ session'[w].late = session[w].late
        /\ session'[w].invoice = session[w].invoice
        /\ session'[w].seen = status[session[w].invoice]
        /\ session'[w].dated = dated[session[w].invoice]
    BY <1>4, <1>t DEF ReadInvoice, TypeOK, Sessions
  <2>2. session[w].kind \in Locking => \A v \in Workers \ {w} : ~Holds(v, session[w].invoice)
    BY <1>4 DEF ReadInvoice, Free
  <2>3. QED
    BY <2>1, <2>2, OneSession DEF IInv, rows, Holds, LockedOnce
<1>5. ASSUME NEW w \in Workers, ReadPayments(w)
      PROVE  ReadIsCurrent' /\ LockedOnce'
  <2>1. /\ UNCHANGED rows /\ \A v \in Workers \ {w} : session'[v] = session[v]
        /\ session'[w].pc = IF session[w].kind \in Writing THEN "decide" ELSE "told"
        /\ session'[w].total = paid[session[w].invoice]
        /\ session'[w].late => session[w].late \/ past[session[w].invoice]
        /\ session'[w].kind = session[w].kind /\ session'[w].invoice = session[w].invoice
        /\ session'[w].seen = session[w].seen /\ session'[w].dated = session[w].dated
    BY <1>5, <1>t DEF ReadPayments, TypeOK, Sessions
  <2>2. \A i \in Invoices : Holds(w, i)' => Holds(w, i)
    BY <1>5, <2>1 DEF ReadPayments, Holds, At
  <2>3. QED
    BY <2>1, <2>2, OneSession DEF IInv, rows, Holds, ReadIsCurrent, LockedOnce
<1>6. ASSUME NEW w \in Workers, Accept(w)
      PROVE  ReadIsCurrent' /\ LockedOnce'
  <2>1. PICK late \in {FALSE, past[session[w].invoice]} :
          session' = [session EXCEPT ![w] = [session[w] EXCEPT !.pc = "commit", !.late = late]]
    BY <1>6 DEF Accept
  <2>r. UNCHANGED rows
    BY <1>6 DEF Accept
  <2>2. /\ \A v \in Workers \ {w} : session'[v] = session[v]
        /\ session'[w].pc = "commit" /\ session'[w].late = late
        /\ session'[w].kind = session[w].kind /\ session'[w].invoice = session[w].invoice
        /\ session'[w].seen = session[w].seen /\ session'[w].dated = session[w].dated
        /\ session'[w].total = session[w].total /\ session'[w].amount = session[w].amount
    BY <1>t, <2>1 DEF TypeOK, Sessions
  <2>3. session[w].pc = "decide" /\ Accepted(w)' /\ \A i \in Invoices : Holds(w, i)' => Holds(w, i)
    BY <1>6, <2>2 DEF Accept, Accepted, Holds, At
  <2>4. session'[w].late => past[session'[w].invoice]
    BY <2>1, <2>2
  <2>5. QED
    BY <2>2, <2>3, <2>4, <2>r, OneSession DEF IInv, rows, Holds, ReadIsCurrent, LockedOnce
<1>7. ASSUME NEW w \in Workers, Commit(w)
      PROVE  ReadIsCurrent' /\ LockedOnce'
  <2>1. session[w].invoice \in Invoices /\ Holds(w, session[w].invoice) /\ session[w].amount \in Nat
    BY <1>7, CommitSeesRows DEF Commit, IInv
  <2>2. /\ \A v \in Workers \ {w} : session'[v] = session[v]
        /\ session'[w] = Closed /\ past' = past
        /\ \A i \in Invoices : i # session[w].invoice =>
             status'[i] = status[i] /\ dated'[i] = dated[i] /\ paid'[i] = paid[i]
    BY <1>7, <2>1, <1>t DEF Commit, Close, TypeOK
  <2>3. session'[w].pc = "idle" /\ ~session'[w].late
    BY <2>2 DEF Closed
  <2>4. QED
    BY <2>1, <2>2, <2>3, OneSession DEF IInv, Holds
<1>8. ASSUME NEW w \in Workers, PassOver(w) \/ Refuse(w) \/ End(w)
      PROVE  ReadIsCurrent' /\ LockedOnce'
  <2>1. session' = [session EXCEPT ![w] = Closed] /\ UNCHANGED rows
    BY <1>8 DEF PassOver, Refuse, End, Close
  <2>2. session'[w].pc = "idle" /\ ~session'[w].late /\ \A v \in Workers \ {w} : session'[v] = session[v]
    BY <2>1, <1>t DEF TypeOK, Closed
  <2>3. QED
    BY <2>1, <2>2, OneSession DEF rows, IInv, Holds
<1>9. CASE UNCHANGED vars
  BY <1>9 DEF vars, rows, IInv, ReadIsCurrent, LockedOnce, Holds, Accepted
<1>10. QED
  BY <1>1, <1>2, <1>3, <1>4, <1>5, <1>6, <1>7, <1>8, <1>9 DEF Next, Kinds, Locking, Writing


\* Only its own read of the payments lets a session answer.
LEMMA OnlyReadTells ==
  ASSUME TypeOK, [Next]_vars, NEW w \in Workers,
         At(w, "payments"), session'[w].pc = "told"
  PROVE  ReadPayments(w)
<1>1. ASSUME NEW v \in Workers, NEW s, session' = [session EXCEPT ![v] = s], v # w \/ s.pc # "told"
      PROVE  FALSE
  BY <1>1 DEF TypeOK, At
<1>2. UNCHANGED session => FALSE
  BY DEF At
<1>3. Closed.pc # "told"
  BY DEF Closed
<1>4. \A v \in Workers : ~(PassOver(v) \/ Refuse(v) \/ Commit(v) \/ End(v))
  BY <1>1, <1>3 DEF PassOver, Refuse, Commit, End, Close
<1>5. ASSUME NEW v \in Workers, NEW i, NEW kind, NEW a, Begin(v, kind, i, a)
      PROVE  FALSE
  <2> DEFINE s == [Closed EXCEPT !.pc = "invoice", !.kind = kind, !.invoice = i, !.amount = a,
                                 !.late = (kind = "list" /\ past[i])]
  <2>1. s.pc = "invoice"
    BY DEF Closed
  <2>2. session' = [session EXCEPT ![v] = s]
    BY <1>5, Zenon DEF Begin
  <2> HIDE DEF s
  <2>3. QED
    BY <1>1, <2>1, <2>2
<1>6. ASSUME NEW v \in Workers, ReadInvoice(v)
      PROVE  FALSE
  <2>1. v # w
    BY <1>6 DEF ReadInvoice, At
  <2>2. QED
    BY <1>1, <1>6, <2>1 DEF ReadInvoice
<1>7. ASSUME NEW v \in Workers, Accept(v)
      PROVE  FALSE
  <2>1. v # w
    BY <1>7 DEF Accept, At
  <2>2. QED
    BY <1>1, <1>7, <2>1 DEF Accept
<1>8. ASSUME NEW v \in Workers, ReadPayments(v), v # w
      PROVE  FALSE
  BY <1>1, <1>8 DEF ReadPayments
<1>9. QED
  BY <1>2, <1>4, <1>5, <1>6, <1>7, <1>8 DEF Next, vars, Issue, Cancel, BecomePast

-----------------------------------------------------------------------------
(* The rows.                                                               *)

\* Only a commit, an issue, a cancellation and the date change the rows.
LEMMA RowsStep ==
  ASSUME [Next]_vars,
         ~\E i \in Invoices : Issue(i) \/ Cancel(i) \/ BecomePast(i),
         ~\E w \in Workers : Commit(w)
  PROVE  UNCHANGED rows
BY DEF Next, vars, rows, Begin, ReadInvoice, PassOver, ReadPayments, Accept, Refuse, End

\* Receivables has the same rules.
LEMMA SameRules ==
  /\ \A i, total, current, late :
       Promise!StatusOf(i, total, current, late) = StatusOf(i, total, current, late)
  /\ \A now, was : Promise!DatedAfter(now, was) = DatedAfter(now, was)
BY DEF StatusOf, Promise!StatusOf, DatedAfter, Promise!DatedAfter

\* A commit is the payment, or the refresh, that Receivables describes.
LEMMA CommitSettles ==
  ASSUME IInv, NEW w \in Workers, Commit(w)
  PROVE  \E i \in Invoices :
           /\ Promise!Settle(i, paid[i] + session[w].amount)
           /\ paid[i] + session[w].amount \in Nat
           /\ paid[i] + session[w].amount <= Amount[i]
           /\ \/ session[w].amount = 0
              \/ status[i] # "cancelled" /\ session[w].amount \in Payable
<1> DEFINE i == session[w].invoice
           a == session[w].amount
           s == StatusOf(i, paid[i] + a, status[i], session[w].late)
<1>1. /\ i \in Invoices /\ a \in Nat /\ session[w].late \in {FALSE, past[i]}
      /\ session[w].seen = status[i] /\ session[w].dated = dated[i]
      /\ Paying(w) = paid[i] + a /\ paid[i] + a \in Nat /\ paid[i] + a <= Amount[i]
  BY CommitSeesRows DEF IInv, Commit, TypeOK
<1>2. a = 0 \/ (status[i] # "cancelled" /\ a \in Payable)
  BY CommitSeesRows DEF IInv, Commit, LockedOnce, Accepted, Writing, At
<1>3. /\ status' = [status EXCEPT ![i] = s]
      /\ dated' = [dated EXCEPT ![i] = DatedAfter(s, @)]
      /\ paid' = [paid EXCEPT ![i] = paid[i] + a]
      /\ past' = past
  <2>1. s = StatusOf(i, Paying(w), session[w].seen, session[w].late)
    BY <1>1
  <2>2. dated[i] = session[w].dated
    BY <1>1
  <2> HIDE DEF s
  <2>3. QED
    BY <2>1, <2>2 DEF Commit
<1>4. Promise!Settle(i, paid[i] + a)
  <2> HIDE DEF a
  <2>1. QED
    BY <1>1, <1>3, SameRules DEF Promise!Settle
<1>5. QED
  BY <1>1, <1>2, <1>4

LEMMA RowsKeep == IInv /\ [Next]_vars => NeverOverpaid' /\ StatusFollowsPayments'
<1> SUFFICES ASSUME IInv, [Next]_vars
             PROVE  NeverOverpaid' /\ StatusFollowsPayments'
  OBVIOUS
<1>1. ASSUME NEW i \in Invoices, Issue(i) \/ Cancel(i) \/ BecomePast(i)
      PROVE  NeverOverpaid' /\ StatusFollowsPayments'
  BY <1>1 DEF Issue, Cancel, BecomePast, IInv, TypeOK, NeverOverpaid, StatusFollowsPayments
<1>2. ASSUME NEW w \in Workers, Commit(w)
      PROVE  NeverOverpaid' /\ StatusFollowsPayments'
  <2>1. PICK i \in Invoices :
          /\ Promise!Settle(i, paid[i] + session[w].amount)
          /\ paid[i] + session[w].amount \in Nat
          /\ paid[i] + session[w].amount <= Amount[i]
    BY <1>2, CommitSettles
  <2> DEFINE total == paid[i] + session[w].amount
  <2>2. PICK late \in {FALSE, past[i]} :
          LET s == StatusOf(i, total, status[i], late)
          IN /\ status' = [status EXCEPT ![i] = s]
             /\ dated' = [dated EXCEPT ![i] = DatedAfter(s, @)]
             /\ paid' = [paid EXCEPT ![i] = total]
             /\ UNCHANGED past
    BY <2>1, SameRules DEF Promise!Settle
  <2> DEFINE s == StatusOf(i, total, status[i], late)
  <2>3. late \in BOOLEAN /\ status[i] \in Statuses /\ total \in Nat /\ total <= Amount[i]
    BY <2>1 DEF IInv, TypeOK
  <2>4. /\ status[i] = "cancelled" <=> s = "cancelled"
        /\ s # "cancelled" =>
             /\ s = "paid" <=> total = Amount[i]
             /\ s = "partially_paid" => total > 0
             /\ s = "overdue" => late
    BY <2>3, StatusAgrees
  <2>5. /\ status'[i] = s /\ paid'[i] = total /\ past' = past
        /\ s # "cancelled" => (dated'[i] <=> s = "paid")
    BY <2>2 DEF IInv, TypeOK, DatedAfter
  <2>6. \A j \in Invoices \ {i} : status'[j] = status[j] /\ dated'[j] = dated[j] /\ paid'[j] = paid[j]
    BY <2>2 DEF IInv, TypeOK
  <2> HIDE DEF s, total
  <2>7. QED
    BY <2>3, <2>4, <2>5, <2>6 DEF IInv, NeverOverpaid, StatusFollowsPayments
<1>3. CASE UNCHANGED rows
  BY <1>3 DEF rows, IInv, NeverOverpaid, StatusFollowsPayments
<1>4. QED
  BY <1>1, <1>2, <1>3, RowsStep

\* A status changes for good in these ways, whoever changes it.
LEMMA StatusLasts ==
  ASSUME IInv, [Next]_vars, NEW i \in Invoices
  PROVE  /\ status[i] # "draft" => status'[i] # "draft"
         /\ status[i] \in {"paid", "cancelled"} => status'[i] = status[i]
<1>1. ASSUME NEW j \in Invoices, Issue(j) \/ Cancel(j) \/ BecomePast(j)
      PROVE  /\ status[i] # "draft" => status'[i] # "draft"
             /\ status[i] \in {"paid", "cancelled"} => status'[i] = status[i]
  BY <1>1 DEF Issue, Cancel, BecomePast, IInv, TypeOK
<1>2. ASSUME NEW w \in Workers, Commit(w)
      PROVE  /\ status[i] # "draft" => status'[i] # "draft"
             /\ status[i] \in {"paid", "cancelled"} => status'[i] = status[i]
  <2>1. PICK j \in Invoices :
          /\ Promise!Settle(j, paid[j] + session[w].amount)
          /\ paid[j] + session[w].amount \in Nat
          /\ paid[j] + session[w].amount <= Amount[j]
    BY <1>2, CommitSettles
  <2> DEFINE total == paid[j] + session[w].amount
  <2>2. PICK late \in {FALSE, past[j]} :
          status' = [status EXCEPT ![j] = StatusOf(j, total, status[j], late)]
    BY <2>1, SameRules DEF Promise!Settle
  <2> DEFINE s == StatusOf(j, total, status[j], late)
  <2>3. CASE i # j
    BY <2>2, <2>3 DEF IInv, TypeOK
  <2>4. CASE i = j
    <3>1. status'[j] = s
      BY <2>2 DEF IInv, TypeOK
    <3>2. session[w].amount \in Nat
      BY <1>2, CommitSeesRows DEF IInv, Commit
    <3>3. paid[j] \in Nat /\ Amount[j] \in Nat
      BY InvoiceBookTypes DEF IInv, TypeOK
    <3>4. status[j] = "paid" => total = Amount[j]
      BY <2>1, <3>2, <3>3 DEF IInv, StatusFollowsPayments
    <3>5. /\ status[j] # "draft" => s # "draft"
          /\ status[j] = "cancelled" => s = "cancelled"
          /\ status[j] = "paid" => s = "paid"
      <4> HIDE DEF total
      <4> QED
        BY <3>4 DEF StatusOf
    <3> HIDE DEF s
    <3>6. QED
      BY <2>4, <3>1, <3>5
  <2>5. QED
    BY <2>3, <2>4
<1>3. CASE UNCHANGED rows
  BY <1>3 DEF rows
<1>4. QED
  BY <1>1, <1>2, <1>3, RowsStep

\* Only its own read of the row brings a session to the payments.
LEMMA OnlyReadSees ==
  ASSUME TypeOK, [Next]_vars, NEW w \in Workers, session'[w].pc = "payments"
  PROVE  ReadInvoice(w) \/ session'[w] = session[w]
<1>1. ASSUME NEW v \in Workers, NEW s, session' = [session EXCEPT ![v] = s],
             v # w \/ s.pc # "payments"
      PROVE  session'[w] = session[w]
  BY <1>1 DEF TypeOK
<1>2. Closed.pc # "payments"
  BY DEF Closed
<1>3. ASSUME NEW v \in Workers, PassOver(v) \/ Refuse(v) \/ Commit(v) \/ End(v)
      PROVE  session'[w] = session[w]
  BY <1>1, <1>2, <1>3 DEF PassOver, Refuse, Commit, End, Close
<1>4. ASSUME NEW v \in Workers, NEW i, NEW kind, NEW a, Begin(v, kind, i, a)
      PROVE  session'[w] = session[w]
  <2> DEFINE s == [Closed EXCEPT !.pc = "invoice", !.kind = kind, !.invoice = i, !.amount = a,
                                 !.late = (kind = "list" /\ past[i])]
  <2>1. s.pc = "invoice"
    BY DEF Closed
  <2>2. session' = [session EXCEPT ![v] = s]
    BY <1>4, Zenon DEF Begin
  <2> HIDE DEF s
  <2>3. QED
    BY <1>1, <2>1, <2>2
<1>5. ASSUME NEW v \in Workers, ReadInvoice(v), v # w
      PROVE  session'[w] = session[w]
  BY <1>1, <1>5 DEF ReadInvoice
<1>6. ASSUME NEW v \in Workers, ReadPayments(v) \/ Accept(v)
      PROVE  session'[w] = session[w]
  <2>1. CASE v # w
    BY <1>1, <1>6, <2>1 DEF ReadPayments, Accept
  <2>2. CASE v = w
    <3>1. session[w] \in Sessions
      BY DEF TypeOK
    <3>2. ASSUME ReadPayments(w)
          PROVE  session'[w].pc \in {"decide", "told"}
      BY <3>1, <3>2 DEF ReadPayments, TypeOK, Sessions
    <3>3. ASSUME Accept(w)
          PROVE  session'[w].pc = "commit"
      BY <3>1, <3>3 DEF Accept, TypeOK, Sessions
    <3>4. QED
      BY <1>6, <2>2, <3>2, <3>3
  <2>3. QED
    BY <2>1, <2>2
<1>7. QED
  BY <1>3, <1>4, <1>5, <1>6 DEF Next, vars, Issue, Cancel, BecomePast

LEMMA SeenStep == IInv /\ [Next]_vars => SeenLasts'
<1> SUFFICES ASSUME IInv, [Next]_vars, NEW w \in Workers, At(w, "payments")'
             PROVE  LET now == status'[session'[w].invoice]
                    IN /\ session'[w].seen \in Statuses
                       /\ session'[w].seen # "draft" => now # "draft"
                       /\ session'[w].seen \in {"paid", "cancelled"} => now = session'[w].seen
  BY DEF SeenLasts
<1>1. CASE ReadInvoice(w)
  <2>1. /\ status' = status /\ session'[w].invoice = session[w].invoice
        /\ session'[w].seen = status[session[w].invoice]
    BY <1>1 DEF ReadInvoice, rows, IInv, TypeOK, Sessions
  <2>2. status[session[w].invoice] \in Statuses
    BY <1>1, OpenSession DEF ReadInvoice, At, IInv, TypeOK, OfCall
  <2>3. QED
    BY <2>1, <2>2
<1>2. CASE session'[w] = session[w]
  <2>1. At(w, "payments") /\ session[w].invoice \in Invoices
    BY <1>2, OpenSession DEF At, IInv, OfCall
  <2>2. QED
    BY <1>2, <2>1, StatusLasts DEF IInv, SeenLasts
<1>3. QED
  BY <1>1, <1>2, OnlyReadSees DEF IInv, At

LEMMA Invariance == Spec => []IInv
<1>1. ASSUME Init
      PROVE  IInv
  <2>1. \A w \in Workers : session[w].pc = "idle" /\ ~session[w].late
    BY <1>1 DEF Init, Closed
  <2>2. ReadIsCurrent /\ LockedOnce /\ SeenLasts
    BY <2>1 DEF ReadIsCurrent, LockedOnce, SeenLasts, Holds, At
  <2>3. \A i \in Invoices : /\ status[i] \in {"draft", "sent"} /\ dated[i] = FALSE /\ paid[i] = 0
                           /\ Amount[i] \in Nat /\ Amount[i] > 0
    <3>1. \A i \in Invoices : Amount[i] \in Nat /\ Amount[i] > 0
      BY InvoiceBookTypes
    <3>2. QED
      BY <1>1, <3>1 DEF Init
  <2>4. NeverOverpaid /\ StatusFollowsPayments
    BY <2>3 DEF NeverOverpaid, StatusFollowsPayments
  <2>5. QED
    BY <1>1, <2>2, <2>4, TypeInit DEF IInv
<1>2. IInv /\ [Next]_vars => IInv'
  BY TypeStep, ReadStep, SeenStep, RowsKeep DEF IInv
<1>3. QED
  BY <1>1, <1>2, PTL DEF Spec

-----------------------------------------------------------------------------
(* The theorems.                                                           *)

\* Rows and sessions keep their types.
THEOREM Typing == Spec => []TypeOK
BY Invariance, PTL DEF IInv

\* No interleaving of payments pays an invoice more than it was billed.
THEOREM NoOverpayment == Spec => []NeverOverpaid
BY Invariance, PTL DEF IInv

\* Status and paid_date agree with the payments after every commit.
THEOREM StatusAgreement == Spec => []StatusFollowsPayments
BY Invariance, PTL DEF IInv

\* Listings, reminders and days overdue are right although the stored
\* status knows nothing of the calendar, but for an invoice that is cancelled
\* between the two unlocked reads.
THEOREM OverdueExactness == Spec => OverdueIsExact
<1>1. ASSUME IInv, IInv', [Next]_vars, NEW w \in Workers, PassOver(w), session[w].late
      PROVE  ~Overdue(session[w].invoice)
  BY <1>1, OpenSession DEF PassOver, Selected, Overdue, Due, Open, IInv, TypeOK, At, OfCall,
     StatusFollowsPayments, Statuses
<1>2. ASSUME IInv, IInv', [Next]_vars, NEW w \in Workers,
             At(w, "payments"), session'[w].pc = "told"
      PROVE  LET i == session[w].invoice
                 kind == session[w].kind
             IN /\ kind = "days" => (Claims(w)' <=> Overdue(i))
                /\ kind = "show" => (Claims(w)' <=> Due(i))
                /\ kind = "remind" /\ Overdue(i) => Claims(w)' \/ session[w].seen = "draft"
                /\ Claims(w)' =>
                     /\ past[i] /\ paid[i] < Amount[i]
                     /\ Balance(i, session'[w].seen, session'[w].total) = Amount[i] - paid[i]
                     /\ kind # "show" => Overdue(i) \/ status[i] = "cancelled"
  <2> DEFINE i == session[w].invoice
             kind == session[w].kind
             seen == session[w].seen
  <2>1. ReadPayments(w)
    BY <1>2, OnlyReadTells DEF IInv
  <2>2. /\ i \in Invoices /\ session'[w].invoice = i /\ session'[w].seen = seen
        /\ session'[w].total = paid[i] /\ session'[w].kind = kind
        /\ kind \in {"days", "show", "remind"} => session'[w].late = past[i]
    BY <1>2, <2>1, OpenSession DEF ReadPayments, IInv, TypeOK, Sessions, At, OfCall, Writing
  <2>3. session'[w].late => past[i]
    BY <1>2, <2>1, <2>2 DEF IInv, LockedOnce, ReadPayments, rows
  <2>4. /\ paid[i] \in Nat /\ Amount[i] \in Nat /\ paid[i] <= Amount[i]
        /\ status[i] = "paid" <=> (paid[i] = Amount[i] /\ status[i] # "cancelled")
    BY <1>2, <2>2, InvoiceBookTypes DEF IInv, TypeOK, NeverOverpaid, StatusFollowsPayments
  <2>5. kind \in {"days", "show"} => seen = status[i]
    BY <1>2, <2>2 DEF At, Holds, Locking, IInv, ReadIsCurrent
  <2>6. /\ seen # "draft" => status[i] # "draft"
        /\ seen \in {"paid", "cancelled"} => status[i] = seen
        /\ status[i] \in Statuses
        /\ seen \in Open \cup {"draft", "paid", "cancelled"}
    BY <1>2, <2>2 DEF IInv, SeenLasts, TypeOK, Statuses, Open
  <2>7. Balance(i, seen, paid[i]) =
          IF seen \in {"paid", "cancelled"} THEN 0 ELSE Amount[i] - paid[i]
    BY <2>4 DEF Balance
  <2>8. Claims(w)' <=>
          /\ session'[w].late
          /\ IF kind = "show" THEN seen \notin {"paid", "cancelled"}
             ELSE seen \in Open /\ Balance(i, seen, paid[i]) > 0
    BY <2>2 DEF Claims
  <2> HIDE DEF kind, seen
  <2>9. kind = "days" => (Claims(w)' <=> Overdue(i))
    BY <2>2, <2>4, <2>5, <2>6, <2>7, <2>8 DEF Overdue, Due, Open
  <2>10. kind = "show" => (Claims(w)' <=> Due(i))
    BY <2>2, <2>4, <2>5, <2>6, <2>8 DEF Due, Open
  <2>11. kind = "remind" /\ Overdue(i) => Claims(w)' \/ seen = "draft"
    <3> SUFFICES ASSUME kind = "remind", Overdue(i), seen # "draft"
                 PROVE  Claims(w)'
      OBVIOUS
    <3>1. past[i] /\ paid[i] < Amount[i] /\ status[i] \notin {"paid", "cancelled"}
      BY <2>4 DEF Overdue, Due
    <3>2. seen \in Open
      BY <2>6, <3>1
    <3>3. Balance(i, seen, paid[i]) > 0
      BY <2>4, <2>7, <3>1, <3>2 DEF Open
    <3>4. QED
      BY <2>2, <2>8, <3>1, <3>2, <3>3
  <2>12. Claims(w)' =>
           /\ past[i] /\ paid[i] < Amount[i]
           /\ Balance(i, seen, paid[i]) = Amount[i] - paid[i]
           /\ kind # "show" => Overdue(i) \/ status[i] = "cancelled"
    BY <2>3, <2>4, <2>5, <2>6, <2>7, <2>8 DEF Overdue, Due, Open
  <2>13. QED
    BY <2>2, <2>9, <2>10, <2>11, <2>12 DEF kind, seen
<1>3. IInv /\ IInv' /\ [Next]_vars =>
        [\A w \in Workers :
           LET i == session[w].invoice
               kind == session[w].kind
           IN /\ PassOver(w) /\ session[w].late => ~Overdue(i)
              /\ At(w, "payments") /\ session'[w].pc = "told" =>
                   /\ kind = "days" => (Claims(w)' <=> Overdue(i))
                   /\ kind = "show" => (Claims(w)' <=> Due(i))
                   /\ kind = "remind" /\ Overdue(i) => Claims(w)' \/ session[w].seen = "draft"
                   /\ Claims(w)' =>
                        /\ past[i] /\ paid[i] < Amount[i]
                        /\ Balance(i, session'[w].seen, session'[w].total) = Amount[i] - paid[i]
                        /\ kind # "show" => Overdue(i) \/ status[i] = "cancelled"]_vars
  BY <1>1, <1>2, Zenon
<1>4. QED
  BY <1>3, Invariance, PTL DEF Spec, OverdueIsExact

\* The sessions implement the atomic operations of Receivables.
THEOREM Refinement == Spec => Serializable
<1>1. Init => Promise!Init
  BY DEF Init, Promise!Init
<1>2. ASSUME IInv, [Next]_vars
      PROVE  [Promise!Next]_(Promise!vars)
  <2>1. ASSUME NEW i \in Invoices, Issue(i) \/ Cancel(i) \/ BecomePast(i)
        PROVE  Promise!Next
    BY <2>1 DEF Issue, Cancel, BecomePast, Promise!Next, Promise!Issue, Promise!Cancel, Promise!BecomePast
  <2>2. ASSUME NEW w \in Workers, Commit(w)
        PROVE  Promise!Next
    <3>1. PICK i \in Invoices :
            /\ Promise!Settle(i, paid[i] + session[w].amount)
            /\ paid[i] + session[w].amount <= Amount[i]
            /\ session[w].amount = 0 \/ (status[i] # "cancelled" /\ session[w].amount \in Payable)
      BY <1>2, <2>2, CommitSettles
    <3>2. session[w].amount = 0 => paid[i] + session[w].amount = paid[i]
      BY <1>2 DEF IInv, TypeOK
    <3>3. QED
      BY <3>1, <3>2 DEF Promise!Next, Promise!Pay, Promise!Refresh
  <2>3. CASE UNCHANGED rows
    BY <2>3 DEF rows, Promise!vars
  <2>4. QED
    BY <1>2, <2>1, <2>2, <2>3, RowsStep
<1>3. QED
  BY <1>1, <1>2, Invariance, PTL DEF Spec, Serializable, Promise!Spec
=============================================================================

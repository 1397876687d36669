------------------------------ MODULE Invoices ------------------------------
(***************************************************************************)
(* Invoices and their payments as InvoiceService works on them: a session  *)
(* selects the invoice's row (FOR UPDATE in get_with_payments), selects    *)
(* its payments with a second statement, decides, and its caller commits.  *)
(* The listings and the reminder guard read the same two tables without a  *)
(* lock.  Sessions interleave between statements and may die.              *)
(***************************************************************************)
EXTENDS InvoiceBook

CONSTANTS
  Workers,      \* sessions that may be open at once
  None

ASSUME InvoicesTypes == None \notin Invoices

VARIABLES
  status, dated, paid, past,  \* committed rows and the date, as in Receivables
  session                     \* session[w]: the open transaction of worker w

rows == <<status, dated, paid, past>>
vars == <<rows, session>>

\* record_payment and refresh_status; the reads of get_days_overdue and of the
\* get_invoice tool; those of the overdue listings and the reminder guard.
Writing == {"pay", "refresh"}
Locking == Writing \cup {"days", "show"}
Kinds == Locking \cup {"list", "remind"}

\* seen, dated: the status and the date read; total: the payments read;
\* late: the due date was over when the session looked at the calendar.
Closed == [pc |-> "idle", kind |-> "none", invoice |-> None, amount |-> 0,
           seen |-> "none", dated |-> FALSE, total |-> 0, late |-> FALSE]

Init ==
  /\ status \in [Invoices -> {"draft", "sent"}]
  /\ dated = [i \in Invoices |-> FALSE]
  /\ paid = [i \in Invoices |-> 0]
  /\ past \in [Invoices -> BOOLEAN]
  /\ session = [w \in Workers |-> Closed]

At(w, pc) == session[w].pc = pc

Close(w) == session' = [session EXCEPT ![w] = Closed]

\* A locking session holds its invoice's row from its first statement on.
Holds(w, i) ==
  /\ session[w].invoice = i
  /\ session[w].kind \in Locking
  /\ session[w].pc \in {"payments", "decide", "commit"}

AlwaysFree(w) == TRUE                           \* mutant: no FOR UPDATE
Free(w) ==
  session[w].kind \in Locking =>
    \A v \in Workers \ {w} : ~Holds(v, session[w].invoice)

-----------------------------------------------------------------------------
(* Statements outside src/ that issue and cancel invoices, and the date.   *)

Unlocked(i) == \A w \in Workers : ~Holds(w, i)

Issue(i) ==
  /\ Unlocked(i)
  /\ status[i] = "draft"
  /\ status' = [status EXCEPT ![i] = "sent"]
  /\ UNCHANGED <<dated, paid, past, session>>

Cancel(i) ==
  /\ Unlocked(i)
  /\ status[i] \notin {"paid", "cancelled"}
  /\ status' = [status EXCEPT ![i] = "cancelled"]
  /\ UNCHANGED <<dated, paid, past, session>>

BecomePast(i) ==
  /\ ~past[i]
  /\ past' = [past EXCEPT ![i] = TRUE]
  /\ UNCHANGED <<status, dated, paid, session>>

-----------------------------------------------------------------------------
(* Sessions, one SQL statement at a time.                                  *)

Begin(w, kind, i, a) ==
  /\ At(w, "idle")
  /\ session' = [session EXCEPT ![w] =
       [Closed EXCEPT !.pc = "invoice", !.kind = kind, !.invoice = i, !.amount = a,
                      !.late = (kind = "list" /\ past[i])]]
  /\ UNCHANGED rows

\* mutant: the listings trust the stored status.
SelectedAsOverdue(w, i) == session[w].kind = "list" => status[i] = "overdue" /\ session[w].late

\* The WHERE clause of the listings.
Selected(w, i) == session[w].kind = "list" => status[i] \in Open /\ session[w].late

\* The first statement: the invoice's row, locked or not.
ReadInvoice(w) ==
  LET i == session[w].invoice
  IN /\ At(w, "invoice")
     /\ Free(w)
     /\ Selected(w, i)
     /\ session' = [session EXCEPT ![w] =
          [@ EXCEPT !.pc = "payments", !.seen = status[i], !.dated = dated[i]]]
     /\ UNCHANGED rows

\* The row is not in the list.
PassOver(w) ==
  /\ At(w, "invoice")
  /\ ~Selected(w, session[w].invoice)
  /\ Close(w)
  /\ UNCHANGED rows

\* selectinload, the second statement; all but a listing, which had the date
\* for its WHERE clause, then look at the calendar.
ReadPayments(w) ==
  /\ At(w, "payments")
  /\ session' = [session EXCEPT ![w] =
       [@ EXCEPT !.pc = IF session[w].kind \in Writing THEN "decide" ELSE "told",
                 !.total = paid[session[w].invoice],
                 !.late = IF session[w].kind \in Writing \cup {"list"} THEN session[w].late
                          ELSE past[session[w].invoice]]]
  /\ UNCHANGED rows

BelowAmount(w) == session[w].amount <= Amount[session[w].invoice]  \* mutant: payments not added
\* record_payment's checks; refresh_status has none.
Accepted(w) ==
  session[w].kind = "pay" =>
    /\ session[w].seen # "cancelled"
    /\ session[w].total + session[w].amount <= Amount[session[w].invoice]

\* The payment is flushed and appended; as_of is today or an earlier day.
Accept(w) ==
  /\ At(w, "decide")
  /\ Accepted(w)
  /\ \E late \in {FALSE, past[session[w].invoice]} :
       session' = [session EXCEPT ![w] = [@ EXCEPT !.pc = "commit", !.late = late]]
  /\ UNCHANGED rows

Refuse(w) ==
  /\ At(w, "decide")
  /\ ~Accepted(w)
  /\ Close(w)
  /\ UNCHANGED rows

\* refresh_status sees the payment in the loaded collection.
Paying(w) == session[w].total + session[w].amount

Commit(w) ==
  LET c == session[w]
      s == StatusOf(c.invoice, Paying(w), c.seen, c.late)
  IN /\ At(w, "commit")
     /\ status' = [status EXCEPT ![c.invoice] = s]
     /\ dated' = [dated EXCEPT ![c.invoice] = DatedAfter(s, c.dated)]
     /\ paid' = [paid EXCEPT ![c.invoice] = @ + c.amount]
     /\ Close(w)
     /\ UNCHANGED past

\* The answer goes out, or the session rolls back or dies.
End(w) ==
  /\ ~At(w, "idle")
  /\ Close(w)
  /\ UNCHANGED rows

-----------------------------------------------------------------------------
Next ==
  \/ \E i \in Invoices : Issue(i) \/ Cancel(i) \/ BecomePast(i)
  \/ \E w \in Workers :
       \/ \E i \in Invoices :
            \/ \E a \in Payable : Begin(w, "pay", i, a)
            \/ \E kind \in Kinds \ {"pay"} : Begin(w, kind, i, 0)
       \/ ReadInvoice(w) \/ PassOver(w) \/ ReadPayments(w)
       \/ Accept(w) \/ Refuse(w) \/ Commit(w) \/ End(w)

Spec == Init /\ [][Next]_vars

-----------------------------------------------------------------------------
Sessions ==
  [pc : {"idle", "invoice", "payments", "decide", "commit", "told"},
   kind : Kinds \cup {"none"}, invoice : Invoices \cup {None},
   amount : Payable \cup {0}, seen : Statuses \cup {"none"},
   dated : BOOLEAN, total : Nat, late : BOOLEAN]

\* A call's session: whose invoice it is, and a payment if it is one.
OfCall(s) ==
  /\ s.invoice \in Invoices
  /\ s.kind \in Kinds
  /\ s.kind # "pay" => s.amount = 0

\* The rows, the date and the sessions: one that ends keeps nothing.
TypeOK ==
  /\ status \in [Invoices -> Statuses]
  /\ dated \in [Invoices -> BOOLEAN]
  /\ paid \in [Invoices -> Nat]
  /\ past \in [Invoices -> BOOLEAN]
  /\ session \in [Workers -> Sessions]
  /\ \A w \in Workers : IF At(w, "idle") THEN session[w] = Closed ELSE OfCall(session[w])

\* Payments that were each below the balance never exceed the invoice
\* together (record_payment under get_with_payments' lock).
NeverOverpaid == \A i \in Invoices : paid[i] <= Amount[i]

\* The stored status never contradicts the payments, and an invoice has a
\* paid_date exactly while it is paid: no order of payments, refreshes and
\* midnights leaves a settled invoice open or an open one settled.
StatusFollowsPayments ==
  \A i \in Invoices : status[i] # "cancelled" =>
    /\ status[i] = "paid" <=> paid[i] = Amount[i]
    /\ status[i] = "partially_paid" => paid[i] > 0
    /\ status[i] = "overdue" => past[i]
    /\ dated[i] <=> status[i] = "paid"

\* Somebody has not paid i and is late; and the invoice was issued.
Due(i) == status[i] # "cancelled" /\ past[i] /\ paid[i] < Amount[i]
Overdue(i) == status[i] # "draft" /\ Due(i)

\* What a session that has read both tables says: days overdue, a line of a
\* listing, or a reminder that is sent.  The get_invoice tool says it of a
\* draft too, and does not look at the balance.
Claims(w) ==
  LET c == session[w]
  IN /\ c.late
     /\ IF c.kind = "show" THEN c.seen \notin {"paid", "cancelled"}
        ELSE c.seen \in Open /\ Balance(c.invoice, c.seen, c.total) > 0

\* The stored status goes stale at midnight and the listings and the reminder
\* guard read without a lock.  Yet a listing passes over an invoice only if it
\* is not overdue, a reminder is refused for an overdue one only if that was a
\* draft when its row was read, and whatever is claimed when the payments are
\* read is late and of exactly the unpaid amount.  The locked reads are exact.
\* The unlocked ones can be wrong in one way: the invoice was cancelled since
\* its row was read.
OverdueIsExact ==
  [][\A w \in Workers :
       LET i == session[w].invoice
           kind == session[w].kind
       IN /\ PassOver(w) /\ session[w].late => ~Overdue(i)
          /\ At(w, "payments") /\ session'[w].pc = "told" =>
               /\ kind = "days" => (Claims(w)' <=> Overdue(i))
               /\ kind = "show" => (Claims(w)' <=> Due(i))
               /\ kind = "remind" /\ Overdue(i) => Claims(w)' \/ session[w].seen = "draft"
               /\ Claims(w)' =>
                    /\ past[i] /\ paid[i] < Amount[i]
                    /\ Balance(i, session'[w].seen, session'[w].total) = Amount[i] - paid[i]
                    /\ kind # "show" => Overdue(i) \/ status[i] = "cancelled"]_vars

\* Whatever the interleaving, the rows change as if each call ran alone.
Promise == INSTANCE Receivables
  WITH status <- status, dated <- dated, paid <- paid, past <- past
Serializable == Promise!Spec
=============================================================================

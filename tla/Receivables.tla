---------------------------- MODULE Receivables ----------------------------
(***************************************************************************)
(* What the invoice service promises: a payment and the status it implies  *)
(* appear together, never more is paid than was billed, and an invoice     *)
(* that was cancelled takes no payment.  No sessions, no locks.            *)
(***************************************************************************)
EXTENDS InvoiceBook

VARIABLES
  status,       \* status[i]: invoices.status
  dated,        \* dated[i]: paid_date is set
  paid,         \* paid[i]: the sum of the invoice's payments
  past          \* past[i]: due_date is before today

vars == <<status, dated, paid, past>>

Init ==
  /\ status \in [Invoices -> {"draft", "sent"}]
  /\ dated = [i \in Invoices |-> FALSE]
  /\ paid = [i \in Invoices |-> 0]
  /\ past \in [Invoices -> BOOLEAN]

Issue(i) ==
  /\ status[i] = "draft"
  /\ status' = [status EXCEPT ![i] = "sent"]
  /\ UNCHANGED <<dated, paid, past>>

Cancel(i) ==
  /\ status[i] \notin {"paid", "cancelled"}
  /\ status' = [status EXCEPT ![i] = "cancelled"]
  /\ UNCHANGED <<dated, paid, past>>

BecomePast(i) ==
  /\ ~past[i]
  /\ past' = [past EXCEPT ![i] = TRUE]
  /\ UNCHANGED <<status, dated, paid>>

\* The status is computed for today or an earlier day.
Settle(i, total) ==
  \E late \in {FALSE, past[i]} :
    LET s == StatusOf(i, total, status[i], late)
    IN /\ status' = [status EXCEPT ![i] = s]
       /\ dated' = [dated EXCEPT ![i] = DatedAfter(s, @)]
       /\ paid' = [paid EXCEPT ![i] = total]
       /\ UNCHANGED past

Pay(i, a) ==
  /\ status[i] # "cancelled"
  /\ paid[i] + a <= Amount[i]
  /\ Settle(i, paid[i] + a)

Refresh(i) == Settle(i, paid[i])

Next ==
  \E i \in Invoices :
    \/ Issue(i) \/ Cancel(i) \/ BecomePast(i) \/ Refresh(i)
    \/ \E a \in Payable : Pay(i, a)

Spec == Init /\ [][Next]_vars
=============================================================================

---------------------------- MODULE InvoiceBook ----------------------------
(***************************************************************************)
(* The invoices that InvoiceService works on, and the rules of             *)
(* invoice_service.py that need no state.                                  *)
(***************************************************************************)
EXTENDS Naturals

CONSTANTS
  Invoices,     \* rows of invoices
  Amount,       \* Amount[i]: the amount of invoice i, in cents
  Payable       \* the payment amounts that record_payment is called with

ASSUME InvoiceBookTypes ==
  /\ Amount \in [Invoices -> Nat \ {0}]
  /\ Payable \subseteq Nat \ {0}

\* The enumeration invoice_status.
Statuses == {"draft", "sent", "partially_paid", "paid", "overdue", "cancelled"}

\* The statuses that the overdue listings and the reminder guard accept.
Open == {"sent", "partially_paid", "overdue"}

\* mutant: a fully paid draft stays a draft.
StatusOfDraftFirst(i, total, current, late) ==
  IF current \in {"cancelled", "draft"} THEN current
  ELSE IF total = Amount[i] THEN "paid"
  ELSE IF late THEN "overdue"
  ELSE IF total > 0 THEN "partially_paid" ELSE "sent"

\* calculate_invoice_status; late: the due date is before as_of.
StatusOf(i, total, current, late) ==
  IF current = "cancelled" THEN current
  ELSE IF total = Amount[i] THEN "paid"
  ELSE IF current = "draft" THEN current
  ELSE IF late THEN "overdue"
  ELSE IF total > 0 THEN "partially_paid" ELSE "sent"

\* refresh_status: whether the row has a paid_date afterwards.
DatedAfter(now, was) == now = "paid" \/ (now = "cancelled" /\ was)

\* outstanding_balance, from the status and the payments a session has read.
Balance(i, read, total) ==
  IF read \in {"paid", "cancelled"} \/ total > Amount[i] THEN 0 ELSE Amount[i] - total
=============================================================================

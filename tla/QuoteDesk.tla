----------------------------- MODULE QuoteDesk -----------------------------
(***************************************************************************)
(* What the quotes and the approvals promise to who reads the two tables:  *)
(* no calls, no conversations, no checkpoints, no failures.  A quote's     *)
(* price changes within its customer's authority, or by a manager's        *)
(* decision about the very price that was proposed; a decision is executed *)
(* once, and never after it has been answered; it is answered once, and    *)
(* with a result only if it was executed.                                  *)
(***************************************************************************)
EXTENDS QuoteBook

VARIABLES
  quote,        \* quote[q]: the row; "absent" until create_quote
  approval      \* approval[r]: the approval_requests row of request r

vars == <<quote, approval>>

Init ==
  /\ quote = [q \in Quotes |-> NoQuote]
  /\ approval = [r \in Requests |-> NoApproval]

-----------------------------------------------------------------------------
(* The quotes, until an approval holds them.                               *)

Create(q) ==
  /\ quote[q].status = "absent"
  /\ quote' = [quote EXCEPT ![q].status = "draft"]
  /\ UNCHANGED approval

Discount(q, p) ==
  /\ Editable(quote[q])
  /\ p <= Cap /\ WithinAuthority(q, p)
  /\ quote' = [quote EXCEPT ![q] = [@ EXCEPT !.status = "approved", !.discount = p,
                                             !.approval = None]]
  /\ UNCHANGED approval

Convert(q) ==
  /\ Editable(quote[q]) /\ quote[q].status = "approved"
  /\ quote' = [quote EXCEPT ![q].status = "converted"]
  /\ UNCHANGED approval

Expire(q) ==
  /\ Expiring
  /\ quote[q].status # "absent" /\ ~quote[q].expired
  /\ quote' = [quote EXCEPT ![q].expired = TRUE]
  /\ UNCHANGED approval

-----------------------------------------------------------------------------
(* The approvals.                                                          *)

Pending(a, t, proposal) ==
  /\ approval[a].status = "none"
  /\ approval' = [approval EXCEPT ![a] =
       [status |-> "pending", thread |-> t, proposal |-> proposal,
        executed |-> FALSE, saved |-> None]]

\* What is proposed is beyond the customer's limit, and about the quote as
\* it is when the proposal takes hold of it.
ProposeDiscount(a, t, q, p) ==
  /\ Editable(quote[q])
  /\ p <= Cap /\ ~WithinAuthority(q, p)
  /\ Pending(a, t, [quote |-> q, percent |-> p,
                    previous |-> quote[q].status, price |-> quote[q].discount])
  /\ quote' = [quote EXCEPT ![q] = [@ EXCEPT !.status = "pending_approval", !.approval = a]]

ProposeRefund(a, t) ==
  /\ Pending(a, t, NoQuoteProposal)
  /\ UNCHANGED quote

\* The first decision stands, and repeating it changes nothing.
Decide(a, d) ==
  /\ approval[a].status \in {"pending", d}
  /\ approval[a].saved = None
  /\ approval' = [approval EXCEPT ![a].status = d]
  /\ UNCHANGED quote

Due(a, d) == approval[a].status = d /\ ~approval[a].executed /\ approval[a].saved = None
Executed(a) == approval' = [approval EXCEPT ![a].executed = TRUE]

Held(a) ==
  LET q == approval[a].proposal.quote
  IN /\ q # None
     /\ quote[q].status = "pending_approval" /\ quote[q].approval = a
     /\ quote[q].discount = approval[a].proposal.price

\* The quote gets the discount that was proposed for it.
Approve(a) ==
  LET proposal == approval[a].proposal
  IN /\ Due(a, "approved")
     /\ Held(a) /\ ~quote[proposal.quote].expired
     /\ quote' = [quote EXCEPT ![proposal.quote] =
          [@ EXCEPT !.status = "approved", !.discount = proposal.percent, !.approval = a]]
     /\ Executed(a)

\* The quote is what it was before, and free.
Reject(a) ==
  LET proposal == approval[a].proposal
  IN /\ Due(a, "rejected")
     /\ Held(a)
     /\ quote' = [quote EXCEPT ![proposal.quote] =
          [@ EXCEPT !.status = proposal.previous, !.approval = None]]
     /\ Executed(a)

\* A refund decision is only recorded.
Review(a) ==
  /\ \E d \in Decisions : Due(a, d)
  /\ approval[a].proposal.quote = None
  /\ Executed(a)
  /\ UNCHANGED quote

\* What the manager is told, then and on every repetition.
Answer(a) ==
  /\ approval[a].status \in Decisions
  /\ approval[a].saved = None
  /\ approval' = [approval EXCEPT ![a].saved =
       IF approval[a].executed THEN "done" ELSE "paused"]
  /\ UNCHANGED quote

-----------------------------------------------------------------------------
Next ==
  \/ \E q \in Quotes :
       Create(q) \/ Convert(q) \/ Expire(q) \/ \E p \in Percents : Discount(q, p)
  \/ \E a \in Requests :
       \/ \E t \in Threads :
            ProposeRefund(a, t) \/ \E q \in Quotes, p \in Percents : ProposeDiscount(a, t, q, p)
       \/ \E d \in Decisions : Decide(a, d)
       \/ Approve(a) \/ Reject(a) \/ Review(a) \/ Answer(a)

Spec == Init /\ [][Next]_vars
=============================================================================

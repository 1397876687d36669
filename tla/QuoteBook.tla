----------------------------- MODULE QuoteBook -----------------------------
(***************************************************************************)
(* The rows of quotes and approval_requests, and the rules of              *)
(* quote_service.py and authorization_service.py about one row.            *)
(***************************************************************************)
EXTENDS Naturals

CONSTANTS
  Quotes,       \* rows of quotes
  Requests,     \* request ids; approval_key gives each at most one approval
  Threads,      \* conversations, each with one LangGraph checkpoint
  Percents,     \* discount percentages the tool may be called with
  Limit,        \* Limit[q]: discount_limit of the quote's customer, 10 or 15
  Expiring,     \* quotes carry an expires_at that may pass
  None          \* SQL NULL, Python None

Cap == 25       \* the absolute cap of apply_discount, and its threshold on resume

Decisions == {"approved", "rejected"}

ASSUME ParameterTypes ==
  /\ Percents \subseteq Nat
  /\ Limit \in [Quotes -> 0..Cap]
  /\ Expiring \in BOOLEAN
  /\ None \notin Quotes \cup Requests \cup Threads \cup Decisions \cup {"none"}

QuoteStatuses == {"absent", "draft", "approved", "pending_approval", "converted"}

(***************************************************************************)
(* A proposal keeps what the tool read: the total is a function of the     *)
(* discount, as nothing else changes the price of an existing quote.  The  *)
(* proposal of a refund review names no quote.                             *)
(***************************************************************************)
Proposals == [quote : Quotes \cup {None}, percent : Nat,
              previous : QuoteStatuses, price : Nat]
NoQuoteProposal == [quote |-> None, percent |-> 0, previous |-> "absent", price |-> 0]

QuoteRows == [status : QuoteStatuses, discount : Nat,
              approval : Requests \cup {None}, expired : BOOLEAN]
NoQuote == [status |-> "absent", discount |-> 0, approval |-> None, expired |-> FALSE]

\* executed: action_payload has execution_result; saved: its final_result.
NoApproval == [status |-> "none", thread |-> None, proposal |-> NoQuoteProposal,
               executed |-> FALSE, saved |-> None]
ApprovalRows == {NoApproval} \cup
  [status : {"pending"} \cup Decisions, thread : Threads, proposal : Proposals,
   executed : BOOLEAN, saved : {None, "paused", "done"}]

Editable(row) ==
  /\ row.status \notin {"absent", "converted", "pending_approval"}
  /\ ~row.expired

\* What may be given without a manager.
WithinCap(q, p) == p <= Cap                     \* mutant: only the absolute cap
WithinAuthority(q, p) == p <= Limit[q]
=============================================================================

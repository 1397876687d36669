--------------------------- MODULE QuoteApproval ---------------------------
(***************************************************************************)
(* Human approval of quote discounts and refunds: the chat requests that   *)
(* propose them (run_agent), the managers' calls that decide them          *)
(* (resume_agent), and what the two leave in the database, which is all    *)
(* that survives a crash: the quotes, the approval_requests rows and the   *)
(* LangGraph checkpoints.                                                  *)
(*                                                                         *)
(* Every action is one database transaction or one checkpoint write; calls *)
(* on different conversations interleave between them.  A failure (a       *)
(* process dying, or an exception outside the nodes' own handlers) may     *)
(* fall between any two.                                                   *)
(***************************************************************************)
EXTENDS QuoteBook

CONSTANTS
  Workers,      \* HTTP calls and scheduler jobs that may be in progress at once
  Durable,      \* PostgresSaver checkpoints; FALSE is the MemorySaver fallback
  MaxFailures   \* bound on the failures of a behaviour

ASSUME FailureTypes == Durable \in BOOLEAN /\ MaxFailures \in Nat

VARIABLES
  quote,        \* quote[q]: the row; "absent" until create_quote
  approval,     \* approval[r]: the approval_requests row of request r
  checkpoint,   \* checkpoint[t]: what get_state(t) returns
  call,         \* call[w]: the invocation worker w is running
  started,      \* the request ids run_agent has used
  failures

vars == <<quote, approval, checkpoint, call, started, failures>>

\* next: snapshot.next ("node" is any node before formulate_response);
\* paused: some task holds an interrupt; decision: values["approval_decision"].
Checkpoints == [request : Requests \cup {None}, next : {"none", "node", "respond"},
                paused : BOOLEAN, decision : Decisions \cup {None}]

\* decision is None in a run_agent call.
Idle == [pc |-> "idle", thread |-> None, request |-> None,
         proposal |-> NoQuoteProposal, decision |-> None]
Calls == {Idle} \cup
  [pc : {"node", "proposed", "pausing", "resume", "executed", "respond",
         "savePaused", "saveDone"},
   thread : Threads, request : Requests, proposal : Proposals,
   decision : Decisions \cup {None}]

NoCheckpoint == [request |-> None, next |-> "none", paused |-> FALSE, decision |-> None]

Init ==
  /\ quote = [q \in Quotes |-> NoQuote]
  /\ approval = [r \in Requests |-> NoApproval]
  /\ checkpoint = [t \in Threads |-> NoCheckpoint]
  /\ call = [w \in Workers |-> Idle]
  /\ started = {}
  /\ failures = 0

-----------------------------------------------------------------------------
(* _thread_lock: a try-lock on the conversation, held by the call's own    *)
(* connection and gone when the call ends, however it ends.                *)
NeverLocked(t) == FALSE                         \* mutant: no lock
Locked(t) == \E w \in Workers : call[w].thread = t

\* mutant: a conversation is busy while its approval is pending.
PendingOnly(t) == \E a \in Requests : approval[a].thread = t /\ approval[a].status = "pending"
\* snapshot.next is empty only when the graph has finished.
Unfinished(t) == checkpoint[t].next # "none"

At(w, pc) == call[w].pc = pc
Goto(w, pc) == call' = [call EXCEPT ![w].pc = pc]

Exit(w) == call' = [call EXCEPT ![w] = Idle]

-----------------------------------------------------------------------------
(* run_agent: a chat request, up to its answer or its pause.               *)

\* Take the lock, refuse a conversation with an unfinished graph, and let
\* invoke write the input checkpoint.  A refusal changes nothing.
StartChat(w, r, t) ==
  /\ At(w, "idle")
  /\ r \notin started
  /\ ~Locked(t)
  /\ ~Unfinished(t)
  /\ started' = started \cup {r}
  /\ checkpoint' = [checkpoint EXCEPT ![t] =
       [request |-> r, next |-> "node", paused |-> FALSE, decision |-> None]]
  /\ call' = [call EXCEPT ![w] = [pc |-> "node", thread |-> t, request |-> r,
                                  proposal |-> NoQuoteProposal, decision |-> None]]
  /\ UNCHANGED <<quote, approval, failures>>

CreateQuote(w, q) ==
  /\ At(w, "node")
  /\ quote[q].status = "absent"
  /\ quote' = [quote EXCEPT ![q].status = "draft"]
  /\ UNCHANGED <<approval, checkpoint, call, started, failures>>

\* A discount within the customer's own limit is applied and committed.
ApplyDiscount(w, q, p) ==
  /\ At(w, "node")
  /\ Editable(quote[q])
  /\ p <= Cap /\ WithinAuthority(q, p)
  /\ quote' = [quote EXCEPT ![q] = [@ EXCEPT !.status = "approved", !.discount = p,
                                             !.approval = None]]
  /\ UNCHANGED <<approval, checkpoint, call, started, failures>>

\* A larger one raises ApprovalRequired with what was read; the session
\* closes and its row lock with it, before review_action reads again.
ProposeDiscount(w, q, p) ==
  /\ At(w, "node")
  /\ Editable(quote[q])
  /\ p <= Cap /\ ~WithinAuthority(q, p)
  /\ call' = [call EXCEPT ![w] = [@ EXCEPT !.pc = "proposed",
       !.proposal = [quote |-> q, percent |-> p,
                     previous |-> quote[q].status, price |-> quote[q].discount]]]
  /\ UNCHANGED <<quote, approval, checkpoint, started, failures>>

\* resolve_issue_node: an amount above the refund threshold.
ProposeRefund(w) ==
  /\ At(w, "node")
  /\ call' = [call EXCEPT ![w] = [@ EXCEPT !.pc = "proposed", !.proposal = NoQuoteProposal]]
  /\ UNCHANGED <<quote, approval, checkpoint, started, failures>>

ConvertQuote(w, q) ==
  /\ At(w, "node")
  /\ quote[q].status = "approved"
  /\ Editable(quote[q])
  /\ quote' = [quote EXCEPT ![q].status = "converted"]
  /\ UNCHANGED <<approval, checkpoint, call, started, failures>>

\* mutant: the totals are not compared.
FreshByStatus(proposal) ==
  proposal.quote # None =>
    Editable(quote[proposal.quote]) /\ quote[proposal.quote].status = proposal.previous

\* The quote is still what the proposal was computed from.
Fresh(proposal) ==
  proposal.quote # None =>
    /\ Editable(quote[proposal.quote])
    /\ quote[proposal.quote].status = proposal.previous
    /\ quote[proposal.quote].discount = proposal.price

\* The first transaction of review_action: save the proposal, hold the quote.
SaveProposal(w) ==
  LET r == call[w].request
      proposal == call[w].proposal
  IN /\ At(w, "proposed")
     /\ approval[r].status = "none"
     /\ Fresh(proposal)
     /\ approval' = [approval EXCEPT ![r] =
          [status |-> "pending", thread |-> call[w].thread, proposal |-> proposal,
           executed |-> FALSE, saved |-> None]]
     /\ quote' = IF proposal.quote = None THEN quote
                 ELSE [quote EXCEPT ![proposal.quote] =
                        [@ EXCEPT !.status = "pending_approval", !.approval = r]]
     /\ Goto(w, "pausing")
     /\ UNCHANGED <<checkpoint, started, failures>>

\* Its ValidationError is raised inside an except clause of the node, so it
\* leaves the graph: run_agent answers with the error, the node stays next.
RefuseStaleProposal(w) ==
  /\ At(w, "proposed")
  /\ ~Fresh(call[w].proposal)
  /\ Exit(w)
  /\ UNCHANGED <<quote, approval, checkpoint, started, failures>>

\* interrupt(): the pause is written to the checkpoint and the call answers.
Pause(w) ==
  /\ At(w, "pausing")
  /\ checkpoint' = [checkpoint EXCEPT ![call[w].thread].paused = TRUE]
  /\ Exit(w)
  /\ UNCHANGED <<quote, approval, started, failures>>

\* A node that proposed nothing returns, with results or with an error.
FinishNode(w) ==
  /\ At(w, "node")
  /\ checkpoint' = [checkpoint EXCEPT ![call[w].thread].next = "respond"]
  /\ Goto(w, "respond")
  /\ UNCHANGED <<quote, approval, started, failures>>

\* formulate_response ends the graph; a resume still has its result to save.
Respond(w) ==
  /\ At(w, "respond")
  /\ checkpoint' = [checkpoint EXCEPT ![call[w].thread].next = "none"]
  /\ IF call[w].decision = None THEN Exit(w) ELSE Goto(w, "saveDone")
  /\ UNCHANGED <<quote, approval, started, failures>>

-----------------------------------------------------------------------------
(* resume_agent: a manager's approve or reject call, and its retries.      *)

\* mutant: a second, contradictory decision wins.
AcceptsAny(a, d) == approval[a].status # "none"
Accepts(a, d) == approval[a].status \in {"pending", d}

AlwaysUnanswered(a) == TRUE                     \* mutant: final_result is not looked for
Unanswered(a) == approval[a].saved = None

\* Take the lock and persist the decision.  A contradictory decision is
\* refused, and a call that finds a final_result returns it: neither
\* changes anything.
Decide(w, a, d) ==
  /\ At(w, "idle")
  /\ Accepts(a, d)
  /\ Unanswered(a)
  /\ ~Locked(approval[a].thread)
  /\ approval' = [approval EXCEPT ![a].status = d]
  /\ call' = [call EXCEPT ![w] = [pc |-> "resume", thread |-> approval[a].thread,
                                  request |-> a, proposal |-> NoQuoteProposal, decision |-> d]]
  /\ UNCHANGED <<quote, checkpoint, started, failures>>

\* The checkpoint holds the pause of this very approval, so the decision is
\* sent into the graph and the second transaction of review_action runs.
Resuming(w) ==
  LET cp == checkpoint[call[w].thread]
  IN /\ At(w, "resume")
     /\ cp.request = call[w].request
     /\ cp.next = "node"
     /\ cp.paused

\* The decision in the row is the one the call carries.
Persisted(w) == approval[call[w].request].status = call[w].decision

Executing(w) == Resuming(w) /\ Persisted(w) /\ ~approval[call[w].request].executed

Executed(a) == approval' = [approval EXCEPT ![a].executed = TRUE]

\* The quote is still held for this approval.
HeldInTime(a) ==                                \* mutant: a rejection is an edit
  LET q == approval[a].proposal.quote
  IN quote[q].status = "pending_approval" /\ quote[q].approval = a /\ ~quote[q].expired
Held(a) ==
  LET q == approval[a].proposal.quote
  IN quote[q].status = "pending_approval" /\ quote[q].approval = a

\* The previous status restored, the quote may be edited again.
RestoredAsDraft(a) ==                           \* mutant: not the previous one
  [quote[approval[a].proposal.quote] EXCEPT !.status = "draft"]
Restored(a) ==
  [quote[approval[a].proposal.quote] EXCEPT !.status = approval[a].proposal.previous]

ExecuteApproval(w) ==
  LET a == call[w].request
      proposal == approval[a].proposal
  IN /\ Executing(w)
     /\ call[w].decision = "approved"
     /\ proposal.quote # None
     /\ Held(a)
     /\ Editable(Restored(a))
     /\ proposal.percent <= Cap
     /\ quote' = [quote EXCEPT ![proposal.quote] =
          [@ EXCEPT !.status = "approved", !.discount = proposal.percent, !.approval = a]]
     /\ Executed(a)
     /\ Goto(w, "executed")
     /\ UNCHANGED <<checkpoint, started, failures>>

ExecuteRejection(w) ==
  LET a == call[w].request
      proposal == approval[a].proposal
  IN /\ Executing(w)
     /\ call[w].decision = "rejected"
     /\ proposal.quote # None
     /\ Held(a)
     /\ quote' = [quote EXCEPT ![proposal.quote] =
          [Restored(a) EXCEPT !.approval = None]]
     /\ Executed(a)
     /\ Goto(w, "executed")
     /\ UNCHANGED <<checkpoint, started, failures>>

\* A refund decision is only recorded.
RecordRefundReview(w) ==
  LET a == call[w].request
  IN /\ Executing(w)
     /\ approval[a].proposal.quote = None
     /\ Executed(a)
     /\ Goto(w, "executed")
     /\ UNCHANGED <<quote, checkpoint, started, failures>>

\* A retry that finds execution_result repeats nothing.
SkipExecution(w) ==
  /\ Resuming(w)
  /\ Persisted(w)
  /\ approval[call[w].request].executed
  /\ Goto(w, "executed")
  /\ UNCHANGED <<quote, approval, checkpoint, started, failures>>

\* apply_discount refuses a quote that expired while it was held: the
\* transaction rolls back and the pause stays for a retry.
RefuseExecution(w) ==
  LET a == call[w].request
  IN /\ Resuming(w)
     /\ \/ ~Persisted(w)
        \/ /\ ~approval[a].executed
           /\ approval[a].proposal.quote # None
           /\ \/ ~Held(a)
              \/ call[w].decision = "approved" /\ ~Editable(Restored(a))
     /\ Exit(w)
     /\ UNCHANGED <<quote, approval, checkpoint, started, failures>>

\* review_action returns: the node's writes reach the checkpoint.
ReturnDecision(w) ==
  /\ At(w, "executed")
  /\ checkpoint' = [checkpoint EXCEPT ![call[w].thread] =
       [@ EXCEPT !.next = "respond", !.paused = FALSE, !.decision = call[w].decision]]
  /\ Goto(w, "respond")
  /\ UNCHANGED <<quote, approval, started, failures>>

\* The row was saved but the pause was not: the graph runs without a
\* command and pauses now, and that paused state becomes the result.
PauseAgain(w) ==
  LET t == call[w].thread
  IN /\ At(w, "resume")
     /\ checkpoint[t].request = call[w].request
     /\ checkpoint[t].next = "node"
     /\ ~checkpoint[t].paused
     /\ checkpoint' = [checkpoint EXCEPT ![t].paused = TRUE]
     /\ Goto(w, "savePaused")
     /\ UNCHANGED <<quote, approval, started, failures>>

\* The node finished and formulate_response did not: go on from there.
ContinueGraph(w) ==
  LET t == call[w].thread
  IN /\ At(w, "resume")
     /\ checkpoint[t].request = call[w].request
     /\ checkpoint[t].next = "respond"
     /\ Goto(w, "respond")
     /\ UNCHANGED <<quote, approval, checkpoint, started, failures>>

\* The graph finished and its result was not saved.
RecoverResult(w) ==
  LET t == call[w].thread
  IN /\ At(w, "resume")
     /\ checkpoint[t].request = call[w].request
     /\ checkpoint[t].next = "none"
     /\ checkpoint[t].decision # None
     /\ Goto(w, "saveDone")
     /\ UNCHANGED <<quote, approval, checkpoint, started, failures>>

\* The checkpoint is another request's, or lost: the call fails.
RefuseCheckpoint(w) ==
  /\ At(w, "resume")
  /\ checkpoint[call[w].thread].request # call[w].request
  /\ Exit(w)
  /\ UNCHANGED <<quote, approval, checkpoint, started, failures>>

\* final_result is saved whatever the state the graph stopped in.
SaveResult(w) ==
  /\ call[w].pc \in {"savePaused", "saveDone"}
  /\ approval' = [approval EXCEPT ![call[w].request].saved =
       IF call[w].pc = "savePaused" THEN "paused" ELSE "done"]
  /\ Exit(w)
  /\ UNCHANGED <<quote, checkpoint, started, failures>>

-----------------------------------------------------------------------------
(* The environment.                                                        *)

\* A call dies, or an exception leaves the graph, between two writes: the
\* lock goes, the unfinished checkpoint stays.
Fail(w) ==
  /\ ~At(w, "idle")
  /\ failures < MaxFailures
  /\ failures' = failures + 1
  /\ Exit(w)
  /\ UNCHANGED <<quote, approval, checkpoint, started>>

\* With the MemorySaver fallback a restart loses every checkpoint.
Restart ==
  /\ ~Durable
  /\ failures < MaxFailures
  /\ failures' = failures + 1
  /\ call' = [w \in Workers |-> Idle]
  /\ checkpoint' = [t \in Threads |-> NoCheckpoint]
  /\ UNCHANGED <<quote, approval, started>>

\* expires_at passes, as require_editable reads it.
Expire(q) ==
  /\ Expiring
  /\ quote[q].status # "absent" /\ ~quote[q].expired
  /\ quote' = [quote EXCEPT ![q].expired = TRUE]
  /\ UNCHANGED <<approval, checkpoint, call, started, failures>>

-----------------------------------------------------------------------------
Tools(w) ==
  \/ \E q \in Quotes : CreateQuote(w, q) \/ ConvertQuote(w, q)
  \/ \E q \in Quotes, p \in Percents : ApplyDiscount(w, q, p) \/ ProposeDiscount(w, q, p)
  \/ ProposeRefund(w)

Execute(w) ==
  \/ ExecuteApproval(w) \/ ExecuteRejection(w) \/ RecordRefundReview(w)
  \/ SkipExecution(w) \/ RefuseExecution(w)

\* What a call in progress does once its node has chosen its tools.
Proceed(w) ==
  \/ SaveProposal(w) \/ RefuseStaleProposal(w) \/ Pause(w)
  \/ FinishNode(w) \/ Respond(w)
  \/ Execute(w) \/ ReturnDecision(w)
  \/ PauseAgain(w) \/ ContinueGraph(w) \/ RecoverResult(w) \/ RefuseCheckpoint(w)
  \/ SaveResult(w)

Next ==
  \/ \E w \in Workers :
       \/ \E r \in Requests, t \in Threads : StartChat(w, r, t)
       \/ \E a \in Requests, d \in Decisions : Decide(w, a, d)
       \/ Tools(w)
       \/ Proceed(w)
       \/ Fail(w)
  \/ Restart
  \/ \E q \in Quotes : Expire(q)

Spec == Init /\ [][Next]_vars

(***************************************************************************)
(* Fairness.  A call in progress reaches its next write; the model calls   *)
(* and tools of a node end (at most six rounds).  A manager's client that  *)
(* got an error retries the same decision, which is strong fairness        *)
(* because other calls on the conversation take the lock in between.       *)
(***************************************************************************)
Fairness ==
  /\ \A w \in Workers : WF_vars(Proceed(w))
  /\ \A a \in Requests, d \in Decisions :
       SF_vars(approval[a].status = d /\ \E w \in Workers : Decide(w, a, d))

FairSpec == Spec /\ Fairness

-----------------------------------------------------------------------------
(* Invariants.                                                             *)

\* Every variable has the shape of the rows and records it stands for.
TypeOK ==
  /\ quote \in [Quotes -> QuoteRows]
  /\ approval \in [Requests -> ApprovalRows]
  /\ checkpoint \in [Threads -> Checkpoints]
  /\ call \in [Workers -> Calls]
  /\ started \subseteq Requests
  /\ failures \in 0..MaxFailures

Decided(a) == approval[a].status \in Decisions
Live(a) == approval[a].status # "none" /\ ~approval[a].executed

\* A quote never carries a discount above its customer's limit unless a
\* manager approved exactly that discount for exactly that quote and the
\* approval was executed: whatever the tools, retries and failures did.
DiscountAuthorized ==
  \A q \in Quotes : quote[q].discount > Limit[q] =>
    \E a \in Requests :
      /\ approval[a].status = "approved" /\ approval[a].executed
      /\ approval[a].proposal.quote = q
      /\ approval[a].proposal.percent = quote[q].discount

\* A quote is pending approval exactly while one unexecuted approval holds
\* it, and its price is still the one that approval was proposed against
\* (review_action's two transactions, and everything that edits quotes).
HeldByItsProposal ==
  /\ \A q \in Quotes : quote[q].status = "pending_approval" =>
       \E a \in Requests : Live(a) /\ quote[q].approval = a
                                   /\ approval[a].proposal.quote = q
  /\ \A a \in Requests : Live(a) /\ approval[a].proposal.quote # None =>
       /\ Held(a)
       /\ quote[approval[a].proposal.quote].discount = approval[a].proposal.price

\* One call at a time works on a conversation, and the checkpoint it works
\* on is that of its own request (_thread_lock; the 409 of run_agent).
WorksOnOwnCheckpoint ==
  \A w \in Workers :
    call[w].pc \notin {"idle", "resume"} =>
      /\ checkpoint[call[w].thread].request = call[w].request
      /\ \A v \in Workers \ {w} : call[v].thread # call[w].thread

-----------------------------------------------------------------------------
(* What a step may never do.                                               *)

\* A persisted decision is never changed or lost, and an execution happens
\* at most once, under the decision that was persisted before it.
DecisionIsFinal ==
  [][\A a \in Requests :
       /\ Decided(a) => approval'[a].status = approval[a].status
       /\ approval'[a].executed # approval[a].executed =>
            Decided(a) /\ approval'[a].executed]_vars

\* Executing a rejection leaves the quote's price and status as they were
\* when the discount was proposed, although other conversations ran since.
RejectionPreserves ==
  [][\A a \in Requests :
       LET proposal == approval[a].proposal
       IN approval'[a].executed /\ ~approval[a].executed
          /\ approval[a].status = "rejected" /\ proposal.quote # None =>
            /\ quote'[proposal.quote].discount = proposal.price
            /\ quote'[proposal.quote].status = proposal.previous]_vars

\* The approval waits to be resumed: its pause is in the checkpoint, and no
\* result has been given or is about to be given for it.
Waiting(a) ==
  LET cp == checkpoint[approval[a].thread]
  IN /\ Live(a) /\ Unanswered(a)
     /\ cp.request = a /\ cp.next = "node" /\ cp.paused
     /\ \A w \in Workers : At(w, "savePaused") => call[w].request # a

\* Once the pause of an approval is in a durable checkpoint, nothing but the
\* execution of its decision ends the wait: not a chat in that conversation,
\* a refused or failed resume, or a decision about another approval
\* (run_agent's 409, resume_agent).  It promises nothing for an approval whose
\* call died before the interrupt was written: see SavedResultIsFinal.
PauseIsKept ==
  [][Durable => \A a \in Requests :
       Waiting(a) => Waiting(a)' \/ approval'[a].executed]_vars

\* A quote that became an order is never edited again, by any conversation
\* or by a decision that arrives late.
ConvertedIsFrozen ==
  [][\A q \in Quotes : quote[q].status = "converted" =>
       /\ quote'[q].status = "converted"
       /\ quote'[q].discount = quote[q].discount]_vars

\* Whatever is interrupted, retried or decided twice, the two tables change as
\* QuoteDesk says: a proposal is about the quote it takes hold of, nothing is
\* executed after it was answered, and no result is saved as done but that of
\* an executed decision.  (review_action, resume_agent)
Promise == INSTANCE QuoteDesk WITH quote <- quote, approval <- approval
Contract == Promise!Spec

-----------------------------------------------------------------------------
(* Liveness.                                                               *)

\* A decided approval whose pause was saved and whose call is over: the
\* state a failed resume leaves behind.
AwaitsRetry(a) ==
  /\ Decided(a) /\ approval[a].saved = None
  /\ checkpoint[approval[a].thread].request = a
  /\ checkpoint[approval[a].thread].paused
  /\ ~Locked(approval[a].thread)

\* Retrying the same decision after a failure executes it (resume_agent's
\* "the same decision can be retried"), once the pause was saved.  Only an
\* approval can then be stopped for good, and only by its quote expiring while
\* held: apply_discount refuses every retry.
RetryExecutes ==
  \A a \in Requests : AwaitsRetry(a) ~>
    \/ approval[a].executed
    \/ /\ approval[a].status = "approved"
       /\ approval[a].proposal.quote # None
       /\ quote[approval[a].proposal.quote].expired

-----------------------------------------------------------------------------
(* What the documentation says and the code does not do.                   *)

\* A saved final_result is the result of an executed decision, as the audit
\* guide says of repeated requests.  A call that died between SaveProposal and
\* Pause makes it false: the decision pauses the graph again, that pause is
\* saved as the result, and no decision is accepted any more.
SavedResultIsFinal ==
  \A a \in Requests : approval[a].saved # None => approval[a].executed

\* A conversation refused as having a pending operation has one that can be
\* resolved: a call still running, or an approval without a final result.
PendingIsResolvable ==
  \A t \in Threads : Unfinished(t) /\ ~Locked(t) =>
    LET r == checkpoint[t].request
    IN approval[r].status # "none" /\ approval[r].saved = None

\* A discount beyond the customer's limit is linked, from its quote, to the
\* decision that gave it.
DiscountIsLinked ==
  \A q \in Quotes :
    quote[q].discount > Limit[q] /\ quote[q].status # "pending_approval" =>
      \E a \in Requests :
        /\ quote[q].approval = a
        /\ approval[a].proposal.percent = quote[q].discount

\* A decision executed by a call that died before saving the result can
\* still be answered from the finished graph.
ResultIsRecoverable ==
  \A a \in Requests : approval[a].executed /\ approval[a].saved = None =>
    checkpoint[approval[a].thread].request = a
=============================================================================

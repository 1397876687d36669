------------------------ MODULE QuoteApproval_proofs ------------------------
(***************************************************************************)
(* Proofs about QuoteApproval, for any number of quotes, conversations,    *)
(* calls and failures.  The types come first, with the one fact about the  *)
(* calls they need; then a lemma on what each step writes to the quotes    *)
(* and approvals; then the inductive invariant of the two tables and the   *)
(* theorems that follow from it; then the inductive invariant of the calls *)
(* and their checkpoints; last the refinement of QuoteDesk, with what a    *)
(* call and a checkpoint tell about their approval.                        *)
(***************************************************************************)
EXTENDS QuoteApproval, TLAPS

-----------------------------------------------------------------------------
(* Types: one lemma per kind of step, one step per variable it assigns.    *)

\* A resume call carries the decision that is in its approval's row, and
\* keeps it: no other call changes a persisted decision.
DecisionCarried ==
  \A w \in Workers :
    /\ call[w].pc \in {"resume", "executed", "savePaused", "saveDone"} => call[w].decision # None
    /\ call[w].decision # None => approval[call[w].request].status = call[w].decision

ActivePcs == {"node", "proposed", "pausing", "resume", "executed", "respond",
              "savePaused", "saveDone"}

\* What a call in progress carries.
LEMMA ActiveCall ==
  ASSUME TypeOK, NEW w \in Workers, call[w].pc \in ActivePcs
  PROVE  /\ call[w].thread \in Threads
         /\ call[w].request \in Requests
         /\ call[w].proposal \in Proposals
         /\ call[w].decision \in Decisions \cup {None}
         /\ \A pc \in ActivePcs : [call[w] EXCEPT !.pc = pc] \in Calls
BY DEF TypeOK, Calls, Idle, ActivePcs

\* A call that moves on, or ends, is still a call.
LEMMA CallType ==
  ASSUME TypeOK, NEW w \in Workers,
         \/ Exit(w)
         \/ /\ call[w].pc \in ActivePcs
            /\ \E pc \in ActivePcs : Goto(w, pc)
  PROVE  call' \in [Workers -> Calls]
<1>1. Idle \in Calls
  BY DEF Calls
<1>2. QED
  BY <1>1, ActiveCall DEF Exit, Goto, TypeOK

\* A saved approval, and the rows its later steps make of it.
LEMMA SavedRow ==
  ASSUME TypeOK, NEW a \in Requests, approval[a].status # "none"
  PROVE  /\ approval[a].thread \in Threads
         /\ approval[a].status \in {"pending"} \cup Decisions
         /\ \A d \in Decisions : [approval[a] EXCEPT !.status = d] \in ApprovalRows
         /\ [approval[a] EXCEPT !.executed = TRUE] \in ApprovalRows
         /\ \A s \in {"paused", "done"} : [approval[a] EXCEPT !.saved = s] \in ApprovalRows
<1>1. approval[a] \in [status : {"pending"} \cup Decisions, thread : Threads,
                        proposal : Proposals, executed : BOOLEAN,
                        saved : {None, "paused", "done"}]
  BY DEF TypeOK, ApprovalRows, NoApproval
<1>2. QED
  BY <1>1 DEF ApprovalRows

\* What a row proposes, if it proposes nothing too.
LEMMA ProposalFields ==
  ASSUME TypeOK, NEW a \in Requests
  PROVE  approval[a].proposal \in Proposals
<1>1. NoQuoteProposal \in Proposals
  BY DEF NoQuoteProposal, Proposals, QuoteStatuses
<1>2. QED
  BY <1>1 DEF TypeOK, ApprovalRows, NoApproval

\* Whether a row is executed, if it is there at all.
LEMMA ExecutedType ==
  ASSUME TypeOK, NEW a \in Requests
  PROVE  approval[a].executed \in BOOLEAN
<1>1. approval[a] \in ApprovalRows
  BY DEF TypeOK
<1>2. CASE approval[a] = NoApproval
  BY <1>2 DEF NoApproval
<1>3. CASE approval[a] # NoApproval
  BY <1>1, <1>3 DEF ApprovalRows
<1>4. QED
  BY <1>2, <1>3

\* run_agent takes its lock with a fresh call and a fresh checkpoint.
LEMMA StartChatType ==
  ASSUME TypeOK, NEW w \in Workers, NEW r \in Requests, NEW t \in Threads,
         StartChat(w, r, t)
  PROVE  TypeOK'
<1>1. checkpoint' \in [Threads -> Checkpoints]
  BY DEF StartChat, TypeOK, Checkpoints
<1>2. call' \in [Workers -> Calls]
  <2>1. NoQuoteProposal \in Proposals
    BY DEF NoQuoteProposal, Proposals, QuoteStatuses
  <2>2. QED
    BY <2>1 DEF StartChat, TypeOK, Calls
<1>3. QED
  BY <1>1, <1>2 DEF StartChat, TypeOK

\* resume_agent writes the decision to a saved approval and starts a call.
LEMMA DecideType ==
  ASSUME TypeOK, NEW w \in Workers, NEW a \in Requests, NEW d \in Decisions,
         Decide(w, a, d)
  PROVE  TypeOK'
<1>1. approval[a].status # "none"
  BY DEF Decide, Accepts, Decisions
<1>2. approval' \in [Requests -> ApprovalRows]
  BY <1>1, SavedRow DEF Decide, TypeOK
<1>3. call' \in [Workers -> Calls]
  <2>1. NoQuoteProposal \in Proposals
    BY DEF NoQuoteProposal, Proposals, QuoteStatuses
  <2>2. QED
    BY <1>1, <2>1, SavedRow DEF Decide, TypeOK, Calls
<1>4. QED
  BY <1>2, <1>3 DEF Decide, TypeOK

\* The tools of a node write quotes and proposals of the right shape.
LEMMA ToolsType ==
  ASSUME TypeOK, NEW w \in Workers, Tools(w)
  PROVE  TypeOK'
<1>1. ASSUME NEW q \in Quotes, CreateQuote(w, q) \/ ConvertQuote(w, q) PROVE TypeOK'
  BY <1>1 DEF CreateQuote, ConvertQuote, TypeOK, QuoteRows, QuoteStatuses
<1>2. ASSUME NEW q \in Quotes, NEW p \in Percents, ApplyDiscount(w, q, p) PROVE TypeOK'
  BY <1>2, ParameterTypes DEF ApplyDiscount, TypeOK, QuoteRows, QuoteStatuses
<1>3. ASSUME call[w].pc = "node", NEW proposal \in Proposals,
             call' = [call EXCEPT ![w] = [@ EXCEPT !.pc = "proposed", !.proposal = proposal]]
      PROVE  call' \in [Workers -> Calls]
  <2>1. [call[w] EXCEPT !.pc = "proposed", !.proposal = proposal] \in Calls
    <3>1. call[w] \in [pc : ActivePcs, thread : Threads, request : Requests,
                       proposal : Proposals, decision : Decisions \cup {None}]
      BY <1>3 DEF TypeOK, Calls, Idle, ActivePcs
    <3>2. QED
      BY <3>1 DEF Calls, ActivePcs
  <2>2. QED
    BY <1>3, <2>1 DEF TypeOK
<1>4. ASSUME NEW q \in Quotes, NEW p \in Percents, ProposeDiscount(w, q, p) PROVE TypeOK'
  <2>1. [quote |-> q, percent |-> p, previous |-> quote[q].status,
         price |-> quote[q].discount] \in Proposals
    BY <1>4, ParameterTypes DEF ProposeDiscount, TypeOK, Proposals, QuoteRows
  <2>2. QED
    BY <1>3, <1>4, <2>1 DEF ProposeDiscount, At, TypeOK
<1>5. CASE ProposeRefund(w)
  <2>1. NoQuoteProposal \in Proposals
    BY DEF NoQuoteProposal, Proposals, QuoteStatuses
  <2>2. QED
    BY <1>3, <1>5, <2>1 DEF ProposeRefund, At, TypeOK
<1>6. QED
  BY <1>1, <1>2, <1>4, <1>5 DEF Tools

\* review_action's first transaction writes a row and holds a quote.
LEMMA SaveProposalType ==
  ASSUME TypeOK, NEW w \in Workers, SaveProposal(w)
  PROVE  TypeOK'
<1>1. call[w].pc \in ActivePcs
  BY DEF SaveProposal, At, ActivePcs
<1>2. call' \in [Workers -> Calls]
  BY <1>1, CallType DEF SaveProposal, ActivePcs
<1>3. approval' \in [Requests -> ApprovalRows]
  BY <1>1, ActiveCall DEF SaveProposal, TypeOK, ApprovalRows
<1>4. quote' \in [Quotes -> QuoteRows]
  BY <1>1, ActiveCall DEF SaveProposal, TypeOK, QuoteRows, QuoteStatuses, Proposals
<1>5. QED
  BY <1>2, <1>3, <1>4 DEF SaveProposal, TypeOK

\* review_action's second transaction, in each of its outcomes.
LEMMA ExecuteType ==
  ASSUME TypeOK, NEW w \in Workers, Execute(w)
  PROVE  TypeOK'
<1> DEFINE a == call[w].request
           proposal == approval[a].proposal
<1>1. call[w].pc \in ActivePcs /\ a \in Requests
  BY ActiveCall DEF Execute, ExecuteApproval, ExecuteRejection, RecordRefundReview,
        SkipExecution, RefuseExecution, Executing, Resuming, At, ActivePcs
<1>2. call' \in [Workers -> Calls]
  BY <1>1, CallType DEF Execute, ExecuteApproval, ExecuteRejection, RecordRefundReview,
        SkipExecution, RefuseExecution, ActivePcs
<1>3. Persisted(w) /\ Executed(a) => approval' \in [Requests -> ApprovalRows]
  <2> HAVE Persisted(w) /\ Executed(a)
  <2>0. approval[a].status # "none"
    BY <1>1, ActiveCall, ParameterTypes DEF Persisted, Decisions
  <2>1. [approval[a] EXCEPT !.executed = TRUE] \in ApprovalRows
    BY <1>1, <2>0, SavedRow
  <2>2. QED
    BY <2>1 DEF Executed, TypeOK
<1>4. proposal \in Proposals
  BY <1>1, ProposalFields
<1>5. CASE ExecuteApproval(w)
  <2>1. quote' \in [Quotes -> QuoteRows]
    BY <1>1, <1>4, <1>5 DEF ExecuteApproval, TypeOK, QuoteRows, QuoteStatuses, Proposals
  <2>2. QED
    BY <1>2, <1>3, <1>5, <2>1 DEF Executing, ExecuteApproval, TypeOK
<1>6. CASE ExecuteRejection(w)
  <2>1. quote' \in [Quotes -> QuoteRows]
    BY <1>1, <1>4, <1>6 DEF ExecuteRejection, Restored, TypeOK, QuoteRows, Proposals
  <2>2. QED
    BY <1>2, <1>3, <1>6, <2>1 DEF Executing, ExecuteRejection, TypeOK
<1>7. CASE RecordRefundReview(w)
  BY <1>2, <1>3, <1>7 DEF Executing, RecordRefundReview, TypeOK
<1>8. CASE SkipExecution(w) \/ RefuseExecution(w)
  BY <1>2, <1>8 DEF SkipExecution, RefuseExecution, TypeOK
<1>9. QED
  BY <1>5, <1>6, <1>7, <1>8 DEF Execute

\* Every other step of a call in progress.
LEMMA ProceedType ==
  ASSUME TypeOK, DecisionCarried, NEW w \in Workers, Proceed(w)
  PROVE  TypeOK'
<1>1. CASE SaveProposal(w)
  BY <1>1, SaveProposalType
<1>2. CASE RefuseStaleProposal(w) \/ RefuseCheckpoint(w)
  BY <1>2, CallType DEF RefuseStaleProposal, RefuseCheckpoint, TypeOK
<1>3. CASE ContinueGraph(w) \/ RecoverResult(w)
  BY <1>3, CallType DEF ContinueGraph, RecoverResult, TypeOK, At, ActivePcs
<1>4. CASE Pause(w)
  <2>1. checkpoint' \in [Threads -> Checkpoints]
    BY <1>4, ActiveCall DEF Pause, At, ActivePcs, TypeOK, Checkpoints
  <2>2. QED
    BY <1>4, <2>1, CallType DEF Pause, TypeOK
<1>5. CASE PauseAgain(w)
  <2>1. checkpoint' \in [Threads -> Checkpoints]
    BY <1>5, ActiveCall DEF PauseAgain, At, ActivePcs, TypeOK, Checkpoints
  <2>2. QED
    BY <1>5, <2>1, CallType DEF PauseAgain, TypeOK, At, ActivePcs
<1>6. CASE FinishNode(w)
  <2>1. checkpoint' \in [Threads -> Checkpoints]
    BY <1>6, ActiveCall DEF FinishNode, At, ActivePcs, TypeOK, Checkpoints
  <2>2. QED
    BY <1>6, <2>1, CallType DEF FinishNode, TypeOK, At, ActivePcs
<1>7. CASE Respond(w)
  <2>1. checkpoint' \in [Threads -> Checkpoints]
    BY <1>7, ActiveCall DEF Respond, At, ActivePcs, TypeOK, Checkpoints
  <2>2. Exit(w) \/ Goto(w, "saveDone")
    BY <1>7 DEF Respond
  <2>3. QED
    BY <1>7, <2>1, <2>2, CallType DEF Respond, TypeOK, At, ActivePcs
<1>8. CASE Execute(w)
  BY <1>8, ExecuteType
<1>9. CASE ReturnDecision(w)
  <2>1. checkpoint' \in [Threads -> Checkpoints]
    BY <1>9, ActiveCall DEF ReturnDecision, At, ActivePcs, TypeOK, Checkpoints
  <2>2. QED
    BY <1>9, <2>1, CallType DEF ReturnDecision, TypeOK, At, ActivePcs
<1>10. CASE SaveResult(w)
  <2>1. approval' \in [Requests -> ApprovalRows]
    <3> DEFINE a == call[w].request
               s == IF call[w].pc = "savePaused" THEN "paused" ELSE "done"
    <3>1. a \in Requests
      BY <1>10, ActiveCall DEF SaveResult, ActivePcs
    <3>2. approval[a].status # "none"
      BY <1>10, ActiveCall, ParameterTypes DEF SaveResult, DecisionCarried, ActivePcs, Decisions
    <3>3. QED
      BY <1>10, <3>1, <3>2, SavedRow DEF SaveResult, TypeOK
  <2>2. QED
    BY <1>10, <2>1, CallType DEF SaveResult, TypeOK
<1>11. QED
  BY <1>1, <1>2, <1>3, <1>4, <1>5, <1>6, <1>7, <1>8, <1>9, <1>10 DEF Proceed

\* A call that keeps its decision, in a step that changes no decision.
LEMMA CarriedStep ==
  ASSUME TypeOK, DecisionCarried, NEW w \in Workers, Proceed(w)
  PROVE  DecisionCarried'
<1>1. \A a \in Requests : approval[a].status # "none" => approval'[a].status = approval[a].status
  <2>1. CASE SaveProposal(w)
    BY <2>1 DEF SaveProposal, TypeOK, ApprovalRows, NoApproval
  <2>2. CASE Execute(w)
    <3>1. UNCHANGED approval \/ Executed(call[w].request)
      BY <2>2 DEF Execute, ExecuteApproval, ExecuteRejection, RecordRefundReview,
            SkipExecution, RefuseExecution
    <3>2. QED
      BY <3>1 DEF Executed, TypeOK, ApprovalRows, NoApproval
  <2>3. CASE SaveResult(w)
    BY <2>3 DEF SaveResult, TypeOK
  <2>4. QED
    BY <2>1, <2>2, <2>3 DEF Proceed, RefuseStaleProposal, Pause, FinishNode, Respond,
          ReturnDecision, PauseAgain, ContinueGraph, RecoverResult, RefuseCheckpoint
<1>2. \/ call' = [call EXCEPT ![w] = Idle]
      \/ /\ \E pc \in {"pausing", "executed", "respond", "savePaused", "saveDone"} :
              /\ call' = [call EXCEPT ![w].pc = pc]
              /\ pc \in {"executed", "savePaused", "saveDone"} => call[w].decision # None
         /\ call[w].pc \in ActivePcs
  BY DEF Proceed, Execute, SaveProposal, RefuseStaleProposal, Pause, FinishNode, Respond,
         ExecuteApproval, ExecuteRejection, RecordRefundReview, SkipExecution,
         RefuseExecution, ReturnDecision, PauseAgain, ContinueGraph, RecoverResult,
         RefuseCheckpoint, SaveResult, Executing, Resuming, DecisionCarried, At, Goto, Exit,
         ActivePcs
<1>3. ASSUME NEW v \in Workers, call[v].decision # None
      PROVE  approval'[call[v].request].status = call[v].decision
  <2>1. call[v].pc \in ActivePcs
    BY <1>3 DEF TypeOK, Calls, Idle, ActivePcs
  <2>2. call[v].request \in Requests /\ call[v].decision \in Decisions
    BY <1>3, <2>1, ActiveCall
  <2>3. QED
    BY <1>1, <1>3, <2>2 DEF DecisionCarried, Decisions
<1>4. QED
  BY <1>2, <1>3 DEF DecisionCarried, TypeOK, Idle, Calls

\* The types and the carried decisions are inductive together: a final result
\* is only ever written to a row that exists because its decision is in it.
LEMMA Base == Spec => [](TypeOK /\ DecisionCarried)
<1>1. Init => TypeOK
  BY ParameterTypes, FailureTypes DEF Init, TypeOK, QuoteRows, QuoteStatuses, ApprovalRows, Checkpoints,
     Calls, NoQuote, NoCheckpoint
<1>2. TypeOK /\ DecisionCarried /\ [Next]_vars => TypeOK'
  <2> SUFFICES ASSUME TypeOK, DecisionCarried, [Next]_vars PROVE TypeOK'
    OBVIOUS
  <2>1. ASSUME NEW w \in Workers, NEW r \in Requests, NEW t \in Threads, StartChat(w, r, t)
        PROVE  TypeOK'
    BY <2>1, StartChatType
  <2>2. ASSUME NEW w \in Workers, NEW a \in Requests, NEW d \in Decisions, Decide(w, a, d)
        PROVE  TypeOK'
    BY <2>2, DecideType
  <2>3. ASSUME NEW w \in Workers, Tools(w) PROVE TypeOK'
    BY <2>3, ToolsType
  <2>4. ASSUME NEW w \in Workers, Proceed(w) PROVE TypeOK'
    BY <2>4, ProceedType
  <2>5. ASSUME NEW w \in Workers, Fail(w) PROVE TypeOK'
    BY <2>5, CallType, FailureTypes DEF Fail, TypeOK
  <2>6. CASE Restart
    BY <2>6, FailureTypes DEF Restart, TypeOK, NoCheckpoint, Checkpoints, Calls
  <2>7. ASSUME NEW q \in Quotes, Expire(q) PROVE TypeOK'
    BY <2>7 DEF Expire, TypeOK, QuoteRows
  <2>8. CASE UNCHANGED vars
    BY <2>8 DEF vars, TypeOK
  <2>9. QED
    BY <2>1, <2>2, <2>3, <2>4, <2>5, <2>6, <2>7, <2>8 DEF Next
<1>3. Init => DecisionCarried
  BY DEF Init, DecisionCarried, Idle
<1>4. TypeOK /\ DecisionCarried /\ [Next]_vars => DecisionCarried'
  <2> SUFFICES ASSUME TypeOK, DecisionCarried, [Next]_vars PROVE DecisionCarried'
    OBVIOUS
  <2>1. ASSUME NEW w \in Workers, NEW r \in Requests, NEW t \in Threads, StartChat(w, r, t)
        PROVE  DecisionCarried'
    BY <2>1 DEF StartChat, DecisionCarried, TypeOK
  <2>2. ASSUME NEW w \in Workers, NEW a \in Requests, NEW d \in Decisions, Decide(w, a, d)
        PROVE  DecisionCarried'
    <3>1. ASSUME NEW v \in Workers, call[v].decision # None
          PROVE  approval'[call[v].request].status = call[v].decision
      BY <2>2, <3>1, ParameterTypes DEF Decide, Accepts, DecisionCarried, TypeOK, Calls, Idle, Decisions
    <3>2. approval'[a].status = d /\ d # None
      BY <2>2, ParameterTypes DEF Decide, TypeOK
    <3>3. QED
      BY <2>2, <3>1, <3>2 DEF Decide, DecisionCarried, TypeOK
  <2>3. ASSUME NEW w \in Workers, Tools(w) PROVE DecisionCarried'
    <3>1. UNCHANGED approval
      BY <2>3 DEF Tools, CreateQuote, ConvertQuote, ApplyDiscount, ProposeDiscount, ProposeRefund
    <3>2. \/ UNCHANGED call
          \/ /\ call[w].pc = "node"
             /\ \E proposal : call' = [call EXCEPT ![w] =
                               [@ EXCEPT !.pc = "proposed", !.proposal = proposal]]
      BY <2>3 DEF Tools, CreateQuote, ConvertQuote, ApplyDiscount, ProposeDiscount,
            ProposeRefund, At
    <3>3. ASSUME NEW proposal, call' = [call EXCEPT ![w] =
                                 [@ EXCEPT !.pc = "proposed", !.proposal = proposal]],
                 call[w].pc = "node"
          PROVE  /\ call'[w].pc = "proposed"
                 /\ call'[w].request = call[w].request
                 /\ call'[w].decision = call[w].decision
                 /\ \A v \in Workers \ {w} : call'[v] = call[v]
      BY <3>3 DEF TypeOK, Calls, Idle
    <3>4. QED
      BY <3>1, <3>2, <3>3 DEF DecisionCarried
  <2>4. ASSUME NEW w \in Workers, Proceed(w) PROVE DecisionCarried'
    BY <2>4, CarriedStep
  <2>5. ASSUME NEW w \in Workers, Fail(w) PROVE DecisionCarried'
    BY <2>5 DEF Fail, Exit, Idle, DecisionCarried, TypeOK
  <2>6. CASE Restart
    BY <2>6 DEF Restart, Idle, DecisionCarried
  <2>7. ASSUME NEW q \in Quotes, Expire(q) PROVE DecisionCarried'
    BY <2>7 DEF Expire, DecisionCarried
  <2>8. CASE UNCHANGED vars
    BY <2>8 DEF vars, DecisionCarried
  <2>9. QED
    BY <2>1, <2>2, <2>3, <2>4, <2>5, <2>6, <2>7, <2>8 DEF Next
<1>5. QED
  BY <1>1, <1>2, <1>3, <1>4, PTL DEF Spec

\* Every step of every action keeps the rows, checkpoints and calls in the
\* shapes that the code's tables and graph state have.
THEOREM TypeCorrect == Spec => []TypeOK
BY Base, PTL


-----------------------------------------------------------------------------
(* What each kind of step does to the quotes and the approvals.            *)

\* The steps that touch neither table leave only these.
LEMMA DataStep ==
  ASSUME [Next]_vars
  PROVE  \/ UNCHANGED <<quote, approval>>
         \/ \E w \in Workers :
              \/ \E q \in Quotes : CreateQuote(w, q) \/ ConvertQuote(w, q)
              \/ \E q \in Quotes, p \in Percents : ApplyDiscount(w, q, p)
              \/ \E a \in Requests, d \in Decisions : Decide(w, a, d)
              \/ SaveProposal(w) \/ SaveResult(w)
              \/ ExecuteApproval(w) \/ ExecuteRejection(w) \/ RecordRefundReview(w)
         \/ \E q \in Quotes : Expire(q)
BY DEF Next, vars, Tools, Proceed, Execute, StartChat, ProposeDiscount, ProposeRefund,
       RefuseStaleProposal, Pause, FinishNode, Respond, SkipExecution, RefuseExecution,
       ReturnDecision, PauseAgain, ContinueGraph, RecoverResult, RefuseCheckpoint, Fail, Restart

\* The steps of a tool, or of the clock, on one quote.
LEMMA QuoteEffect ==
  ASSUME TypeOK, NEW q \in Quotes,
         \/ \E w \in Workers : CreateQuote(w, q) \/ ConvertQuote(w, q)
         \/ Expire(q)
  PROVE  /\ UNCHANGED approval
         /\ \A o \in Quotes \ {q} : quote'[o] = quote[o]
         /\ quote'[q].discount = quote[q].discount
         /\ quote'[q].approval = quote[q].approval
         /\ \/ quote'[q].status = quote[q].status
            \/ quote[q].status = "absent" /\ quote'[q].status = "draft"
            \/ quote[q].status = "approved" /\ quote'[q].status = "converted"
BY DEF CreateQuote, ConvertQuote, Expire, TypeOK, QuoteRows

\* A discount within the limit: only a free quote, and only up to its limit.
LEMMA ApplyDiscountEffect ==
  ASSUME TypeOK, NEW w \in Workers, NEW q \in Quotes, NEW p \in Percents,
         ApplyDiscount(w, q, p)
  PROVE  /\ UNCHANGED approval
         /\ \A o \in Quotes \ {q} : quote'[o] = quote[o]
         /\ quote[q].status \in {"draft", "approved"}
         /\ quote'[q].status = "approved"
         /\ quote'[q].discount = p /\ p <= Limit[q]
BY DEF ApplyDiscount, WithinAuthority, Editable, TypeOK, QuoteRows, QuoteStatuses

\* Persisting a decision changes one row's status, and no decided one.
LEMMA DecideEffect ==
  ASSUME TypeOK, NEW w \in Workers, NEW a \in Requests, NEW d \in Decisions,
         Decide(w, a, d)
  PROVE  /\ UNCHANGED quote
         /\ \A o \in Requests \ {a} : approval'[o] = approval[o]
         /\ approval[a].status \in {"pending", d}
         /\ approval'[a].status = d
         /\ approval'[a].executed = approval[a].executed
         /\ approval'[a].proposal = approval[a].proposal
         /\ approval'[a].thread = approval[a].thread
BY DEF Decide, Accepts, TypeOK, ApprovalRows, NoApproval

\* Saving a result changes nothing that the approval was about.
LEMMA SaveResultEffect ==
  ASSUME TypeOK, NEW w \in Workers, SaveResult(w)
  PROVE  /\ UNCHANGED quote
         /\ \A a \in Requests :
              /\ approval'[a].status = approval[a].status
              /\ approval'[a].executed = approval[a].executed
              /\ approval'[a].proposal = approval[a].proposal
              /\ approval'[a].thread = approval[a].thread
BY DEF SaveResult, TypeOK, ApprovalRows, NoApproval

\* review_action's first transaction: the row is new, the quote was free and
\* still as proposed, and now waits for this approval.
LEMMA SaveProposalEffect ==
  ASSUME TypeOK, NEW w \in Workers, SaveProposal(w)
  PROVE  LET r == call[w].request
             proposal == call[w].proposal
             q == proposal.quote
         IN /\ r \in Requests /\ proposal \in Proposals
            /\ approval[r].status = "none"
            /\ approval'[r].status = "pending" /\ approval'[r].executed = FALSE
            /\ approval'[r].proposal = proposal
            /\ approval'[r].thread = call[w].thread
            /\ \A o \in Requests \ {r} : approval'[o] = approval[o]
            /\ q \notin Quotes => UNCHANGED quote
            /\ q \in Quotes =>
                 /\ quote[q].status \in {"draft", "approved"}
                 /\ quote[q].status = proposal.previous
                 /\ quote[q].discount = proposal.price
                 /\ quote'[q].status = "pending_approval"
                 /\ quote'[q].discount = quote[q].discount
                 /\ quote'[q].approval = r
                 /\ \A o \in Quotes \ {q} : quote'[o] = quote[o]
<1> DEFINE r == call[w].request
           proposal == call[w].proposal
           q == proposal.quote
<1>1. r \in Requests /\ proposal \in Proposals
  BY ActiveCall DEF SaveProposal, At, ActivePcs
<1>2. /\ approval[r].status = "none"
      /\ approval'[r].status = "pending" /\ approval'[r].executed = FALSE
      /\ approval'[r].proposal = proposal
      /\ approval'[r].thread = call[w].thread
      /\ \A o \in Requests \ {r} : approval'[o] = approval[o]
  BY <1>1 DEF SaveProposal, TypeOK
<1>3. CASE q \in Quotes
  <2>1. q # None /\ Fresh(proposal)
    BY <1>3, ParameterTypes DEF SaveProposal
  <2>2. /\ quote[q].status \in {"draft", "approved"}
        /\ quote[q].status = proposal.previous
        /\ quote[q].discount = proposal.price
    BY <1>3, <2>1 DEF Fresh, Editable, TypeOK, QuoteRows, QuoteStatuses
  <2>3. quote' = [quote EXCEPT ![q] = [@ EXCEPT !.status = "pending_approval", !.approval = r]]
    BY <2>1 DEF SaveProposal
  <2>4. /\ quote'[q].status = "pending_approval"
        /\ quote'[q].discount = quote[q].discount
        /\ quote'[q].approval = r
        /\ \A o \in Quotes \ {q} : quote'[o] = quote[o]
    <3> HIDE DEF q, r
    <3> QED
      BY <1>3, <2>3 DEF TypeOK, QuoteRows
  <2>5. QED
    BY <1>1, <1>2, <1>3, <2>2, <2>4
<1>4. CASE q \notin Quotes
  <2>1. UNCHANGED quote
    BY <1>1, <1>4 DEF SaveProposal, Proposals
  <2>2. QED
    BY <1>1, <1>2, <1>4, <2>1
<1>5. QED
  BY <1>3, <1>4

\* review_action's second transaction: whatever the decision, it runs once,
\* under the decision in the row, on a quote still held for this approval.
LEMMA ExecuteEffect ==
  ASSUME TypeOK, DecisionCarried, NEW w \in Workers,
         ExecuteApproval(w) \/ ExecuteRejection(w)
  PROVE  LET a == call[w].request
             proposal == approval[a].proposal
             q == proposal.quote
         IN /\ a \in Requests /\ q \in Quotes /\ proposal \in Proposals
            /\ approval[a].status \in Decisions
            /\ ~approval[a].executed /\ approval'[a].executed
            /\ approval'[a].status = approval[a].status
            /\ approval'[a].proposal = proposal
            /\ approval'[a].thread = approval[a].thread
            /\ \A o \in Requests \ {a} : approval'[o] = approval[o]
            /\ quote[q].status = "pending_approval" /\ quote[q].approval = a
            /\ \A o \in Quotes \ {q} : quote'[o] = quote[o]
            /\ \/ /\ approval[a].status = "approved"
                  /\ quote'[q].status = "approved"
                  /\ quote'[q].discount = proposal.percent
               \/ /\ approval[a].status = "rejected"
                  /\ quote'[q].status = proposal.previous
                  /\ quote'[q].discount = quote[q].discount
<1> DEFINE a == call[w].request
           proposal == approval[a].proposal
           q == proposal.quote
<1>1. call[w].pc \in ActivePcs /\ a \in Requests /\ call[w].decision = approval[a].status
  BY ActiveCall DEF ExecuteApproval, ExecuteRejection, Executing, Resuming, Persisted,
        At, ActivePcs
<1>2. proposal \in Proposals
  BY <1>1, ProposalFields
<1>3. q \in Quotes
  BY <1>2 DEF ExecuteApproval, ExecuteRejection, Proposals
<1>4. approval[a].status \in Decisions
  BY <1>1 DEF ExecuteApproval, ExecuteRejection, Decisions
<1>5. /\ ~approval[a].executed /\ approval'[a].executed
      /\ approval'[a].status = approval[a].status
      /\ approval'[a].proposal = proposal
      /\ approval'[a].thread = approval[a].thread
      /\ \A o \in Requests \ {a} : approval'[o] = approval[o]
  <2>1. approval' = [approval EXCEPT ![a].executed = TRUE] /\ ~approval[a].executed
    BY DEF ExecuteApproval, ExecuteRejection, Executed, Executing
  <2>2. approval[a].status # "none"
    BY <1>4 DEF Decisions
  <2> HIDE DEF a
  <2>3. QED
    BY <1>1, <2>1, <2>2 DEF TypeOK, ApprovalRows, NoApproval
<1>6. quote[q].status = "pending_approval" /\ quote[q].approval = a
  BY DEF ExecuteApproval, ExecuteRejection, Held
<1>7. \A o \in Quotes \ {q} : quote'[o] = quote[o]
  BY <1>3 DEF ExecuteApproval, ExecuteRejection, TypeOK
<1>8. CASE ExecuteApproval(w)
  <2>1. quote'[q].status = "approved" /\ quote'[q].discount = proposal.percent
    BY <1>3, <1>8 DEF ExecuteApproval, TypeOK, QuoteRows
  <2>2. QED
    BY <1>1, <1>2, <1>3, <1>4, <1>5, <1>6, <1>7, <1>8, <2>1 DEF ExecuteApproval
<1>9. CASE ExecuteRejection(w)
  <2>1. quote'[q].status = proposal.previous /\ quote'[q].discount = quote[q].discount
    BY <1>3, <1>9 DEF ExecuteRejection, Restored, TypeOK, QuoteRows
  <2>2. QED
    BY <1>1, <1>2, <1>3, <1>4, <1>5, <1>6, <1>7, <1>9, <2>1 DEF ExecuteRejection
<1>10. QED
  BY <1>8, <1>9

\* The decision on a refund is executed once and touches no quote.
LEMMA RefundEffect ==
  ASSUME TypeOK, DecisionCarried, NEW w \in Workers, RecordRefundReview(w)
  PROVE  LET a == call[w].request
         IN /\ a \in Requests /\ UNCHANGED quote
            /\ approval[a].status \in Decisions
            /\ approval[a].proposal.quote = None
            /\ ~approval[a].executed /\ approval'[a].executed
            /\ approval'[a].status = approval[a].status
            /\ approval'[a].proposal = approval[a].proposal
            /\ approval'[a].thread = approval[a].thread
            /\ \A o \in Requests \ {a} : approval'[o] = approval[o]
<1> DEFINE a == call[w].request
<1>1. call[w].pc \in ActivePcs /\ a \in Requests /\ call[w].decision = approval[a].status
  BY ActiveCall DEF RecordRefundReview, Executing, Resuming, Persisted, At, ActivePcs
<1>2. approval[a].status \in Decisions
  BY <1>1, ActiveCall DEF DecisionCarried, RecordRefundReview, Executing, Resuming, At
<1>3. approval' = [approval EXCEPT ![a].executed = TRUE] /\ ~approval[a].executed
  BY DEF RecordRefundReview, Executed, Executing
<1>4. approval[a].proposal.quote = None /\ UNCHANGED quote
  BY DEF RecordRefundReview
<1> HIDE DEF a
<1>5. /\ approval'[a].executed
      /\ approval'[a].status = approval[a].status
      /\ approval'[a].proposal = approval[a].proposal
      /\ approval'[a].thread = approval[a].thread
      /\ \A o \in Requests \ {a} : approval'[o] = approval[o]
  <2>1. approval[a].status # "none"
    BY <1>2 DEF Decisions
  <2>2. QED
    BY <1>1, <1>3, <2>1 DEF TypeOK, ApprovalRows, NoApproval
<1>6. QED
  BY <1>1, <1>2, <1>3, <1>4, <1>5 DEF a


-----------------------------------------------------------------------------
(* The inductive invariant of the approvals.                               *)

\* Only a decided approval has been executed, and what a proposal restores
\* is a status a quote could be edited in.
RowsSound ==
  \A a \in Requests :
    /\ approval[a].executed => Decided(a)
    /\ Live(a) /\ approval[a].proposal.quote # None =>
         approval[a].proposal.previous \in {"draft", "approved"}

ApprovalInv == RowsSound /\ DiscountAuthorized /\ HeldByItsProposal

\* An empty database satisfies the invariant.
LEMMA ApprovalInvInit == Init => ApprovalInv
BY ParameterTypes DEF Init, ApprovalInv, RowsSound, DiscountAuthorized, HeldByItsProposal, Live,
       NoQuote, NoApproval

\* Steps that change neither a quote's price or hold nor an approval.
LEMMA ApprovalInvTools ==
  ASSUME TypeOK, ApprovalInv, NEW q \in Quotes,
         \/ \E w \in Workers : CreateQuote(w, q) \/ ConvertQuote(w, q)
         \/ Expire(q)
         \/ \E w \in Workers, p \in Percents : ApplyDiscount(w, q, p)
  PROVE  ApprovalInv'
<1> DEFINE Harmless ==
             /\ UNCHANGED approval
             /\ \A o \in Quotes \ {q} : quote'[o] = quote[o]
             /\ \/ /\ quote'[q].discount = quote[q].discount
                   /\ quote'[q].approval = quote[q].approval
                \/ /\ ~(quote'[q].discount > Limit[q])
                   /\ quote[q].status # "pending_approval"
             /\ quote'[q].status = "pending_approval" <=> quote[q].status = "pending_approval"
<1>1. Harmless
  <2>1. ASSUME NEW w \in Workers, NEW p \in Percents, ApplyDiscount(w, q, p)
        PROVE  Harmless
    BY <2>1, ApplyDiscountEffect, ParameterTypes
  <2>2. QED
    BY <2>1, QuoteEffect
<1>2. RowsSound'
  BY <1>1 DEF ApprovalInv, RowsSound, Decided, Live
<1>3. DiscountAuthorized'
  BY <1>1 DEF ApprovalInv, DiscountAuthorized
<1>4. HeldByItsProposal'
  <2>1. ASSUME NEW o \in Quotes, quote'[o].status = "pending_approval"
        PROVE  quote[o].status = "pending_approval" /\ quote'[o].approval = quote[o].approval
    BY <1>1, <2>1
  <2>2. ASSUME NEW a \in Requests, Live(a)', approval'[a].proposal.quote # None
        PROVE  /\ Held(a)'
               /\ quote'[approval'[a].proposal.quote].discount = approval'[a].proposal.price
    <3>1. /\ Held(a)
          /\ quote[approval[a].proposal.quote].discount = approval[a].proposal.price
          /\ approval[a].proposal.quote \in Quotes
      BY <1>1, <2>2, ProposalFields DEF ApprovalInv, HeldByItsProposal, Live, Proposals
    <3>2. QED
      BY <1>1, <3>1 DEF Held
  <2>3. QED
    BY <1>1, <2>1, <2>2 DEF ApprovalInv, HeldByItsProposal, Live
<1>5. QED
  BY <1>2, <1>3, <1>4 DEF ApprovalInv

\* Saving a proposal takes a free quote, so it displaces no other approval.
LEMMA ApprovalInvSave ==
  ASSUME TypeOK, ApprovalInv, NEW w \in Workers, SaveProposal(w)
  PROVE  ApprovalInv'
<1> DEFINE r == call[w].request
           proposal == call[w].proposal
           q == proposal.quote
<1>1. /\ r \in Requests /\ proposal \in Proposals
      /\ approval[r].status = "none"
      /\ approval'[r].status = "pending" /\ ~approval'[r].executed
      /\ approval'[r].proposal = proposal
      /\ \A o \in Requests \ {r} : approval'[o] = approval[o]
  BY SaveProposalEffect
<1>2. \/ q \notin Quotes /\ UNCHANGED quote
      \/ /\ q \in Quotes
         /\ quote[q].status \in {"draft", "approved"}
         /\ quote[q].status = proposal.previous
         /\ quote[q].discount = proposal.price
         /\ quote'[q].status = "pending_approval"
         /\ quote'[q].discount = quote[q].discount
         /\ quote'[q].approval = r
         /\ \A o \in Quotes \ {q} : quote'[o] = quote[o]
  BY SaveProposalEffect
<1>3. q \in Quotes \cup {None}
  BY <1>1 DEF Proposals
<1>4. ~approval[r].executed
  BY <1>1 DEF ApprovalInv, RowsSound, Decided, Decisions
<1> HIDE DEF r, proposal
<1>5. RowsSound'
  <2>1. ASSUME NEW a \in Requests
        PROVE  /\ approval'[a].executed => Decided(a)'
               /\ Live(a)' /\ approval'[a].proposal.quote # None =>
                    approval'[a].proposal.previous \in {"draft", "approved"}
    <3>1. CASE a = r
      BY <1>1, <1>2, <1>3, <3>1
    <3>2. CASE a # r
      BY <1>1, <3>2 DEF ApprovalInv, RowsSound, Decided, Live
    <3>3. QED
      BY <3>1, <3>2
  <2>2. QED
    BY <2>1 DEF RowsSound
<1>6. DiscountAuthorized'
  <2>1. \A o \in Quotes : quote'[o].discount = quote[o].discount
    BY <1>2
  <2>2. \A a \in Requests : approval[a].status = "approved" => approval'[a] = approval[a]
    BY <1>1
  <2>3. QED
    BY <2>1, <2>2 DEF ApprovalInv, DiscountAuthorized
<1>7. HeldByItsProposal'
  <2>1. ASSUME NEW o \in Quotes, quote'[o].status = "pending_approval"
        PROVE  \E a \in Requests : Live(a)' /\ quote'[o].approval = a
                                           /\ approval'[a].proposal.quote = o
    <3>1. CASE o = q
      BY <1>1, <1>2, <3>1 DEF Live
    <3>2. CASE o # q
      <4>1. quote'[o] = quote[o]
        BY <1>2, <3>2
      <4>2. PICK a \in Requests : Live(a) /\ quote[o].approval = a
                                         /\ approval[a].proposal.quote = o
        BY <2>1, <4>1 DEF ApprovalInv, HeldByItsProposal
      <4>3. a # r
        BY <1>1, <4>2 DEF Live
      <4>4. QED
        BY <1>1, <4>1, <4>2, <4>3 DEF Live
    <3>3. QED
      BY <3>1, <3>2
  <2>2. ASSUME NEW a \in Requests, Live(a)', approval'[a].proposal.quote # None
        PROVE  /\ Held(a)'
               /\ quote'[approval'[a].proposal.quote].discount = approval'[a].proposal.price
    <3>1. CASE a = r
      BY <1>1, <1>2, <1>3, <2>2, <3>1 DEF Held
    <3>2. CASE a # r
      <4> DEFINE o == approval[a].proposal.quote
      <4>1. Live(a) /\ o # None /\ approval'[a] = approval[a]
        BY <1>1, <2>2, <3>2 DEF Live
      <4>2. Held(a) /\ quote[o].discount = approval[a].proposal.price /\ o \in Quotes
        BY <4>1, ProposalFields DEF ApprovalInv, HeldByItsProposal, Proposals
      <4>3. o # q
        BY <1>2, <4>2 DEF Held
      <4>4. QED
        BY <1>2, <4>1, <4>2, <4>3 DEF Held
    <3>3. QED
      BY <3>1, <3>2
  <2>3. QED
    BY <2>1, <2>2 DEF HeldByItsProposal
<1>8. QED
  BY <1>5, <1>6, <1>7 DEF ApprovalInv

\* Executing a decision frees exactly the quote its approval held.
LEMMA ApprovalInvExecute ==
  ASSUME TypeOK, DecisionCarried, ApprovalInv, NEW w \in Workers,
         ExecuteApproval(w) \/ ExecuteRejection(w)
  PROVE  ApprovalInv'
<1> DEFINE a == call[w].request
           proposal == approval[a].proposal
           q == proposal.quote
<1>1. /\ a \in Requests /\ q \in Quotes
      /\ approval[a].status \in Decisions
      /\ ~approval[a].executed /\ approval'[a].executed
      /\ approval'[a].status = approval[a].status
      /\ approval'[a].proposal = proposal
      /\ \A o \in Requests \ {a} : approval'[o] = approval[o]
  BY ExecuteEffect
<1>2. /\ quote[q].status = "pending_approval" /\ quote[q].approval = a
      /\ \A o \in Quotes \ {q} : quote'[o] = quote[o]
      /\ \/ /\ approval[a].status = "approved"
            /\ quote'[q].status = "approved"
            /\ quote'[q].discount = proposal.percent
         \/ /\ approval[a].status = "rejected"
            /\ quote'[q].status = proposal.previous
            /\ quote'[q].discount = quote[q].discount
  BY ExecuteEffect
<1> HIDE DEF a
<1>3. proposal.previous \in {"draft", "approved"}
  BY <1>1, ParameterTypes DEF ApprovalInv, RowsSound, Live, Decisions
<1>4. RowsSound'
  BY <1>1 DEF ApprovalInv, RowsSound, Decided, Live
<1>5. DiscountAuthorized'
  <2>1. ASSUME NEW o \in Quotes, quote'[o].discount > Limit[o]
        PROVE  \E b \in Requests :
                 /\ approval'[b].status = "approved" /\ approval'[b].executed
                 /\ approval'[b].proposal.quote = o
                 /\ approval'[b].proposal.percent = quote'[o].discount
    <3>1. CASE quote'[o].discount = quote[o].discount
      <4>1. PICK b \in Requests :
              /\ approval[b].status = "approved" /\ approval[b].executed
              /\ approval[b].proposal.quote = o
              /\ approval[b].proposal.percent = quote[o].discount
        BY <2>1, <3>1 DEF ApprovalInv, DiscountAuthorized
      <4>2. approval'[b] = approval[b]
        BY <1>1, <4>1
      <4>3. QED
        BY <3>1, <4>1, <4>2
    <3>2. CASE quote'[o].discount # quote[o].discount
      BY <1>1, <1>2, <3>2
    <3>3. QED
      BY <3>1, <3>2
  <2>2. QED
    BY <2>1 DEF DiscountAuthorized
<1>6. HeldByItsProposal'
  <2>1. ASSUME NEW o \in Quotes, quote'[o].status = "pending_approval"
        PROVE  \E b \in Requests : Live(b)' /\ quote'[o].approval = b
                                           /\ approval'[b].proposal.quote = o
    <3>1. o # q
      BY <1>2, <1>3, <2>1
    <3>2. PICK b \in Requests : Live(b) /\ quote[o].approval = b
                                       /\ approval[b].proposal.quote = o
      BY <1>2, <2>1, <3>1 DEF ApprovalInv, HeldByItsProposal
    <3>3. approval'[b] = approval[b]
      BY <1>1, <3>1, <3>2
    <3>4. QED
      BY <1>2, <3>1, <3>2, <3>3 DEF Live
  <2>2. ASSUME NEW b \in Requests, Live(b)', approval'[b].proposal.quote # None
        PROVE  /\ Held(b)'
               /\ quote'[approval'[b].proposal.quote].discount = approval'[b].proposal.price
    <3> DEFINE o == approval[b].proposal.quote
    <3>1. b # a /\ approval'[b] = approval[b]
      BY <1>1, <2>2 DEF Live
    <3>2. Held(b) /\ quote[o].discount = approval[b].proposal.price /\ o \in Quotes
      BY <2>2, <3>1, ProposalFields DEF ApprovalInv, HeldByItsProposal, Live, Proposals
    <3>3. o # q
      BY <1>2, <3>1, <3>2 DEF Held
    <3>4. QED
      BY <1>2, <3>1, <3>2, <3>3 DEF Held
  <2>3. QED
    BY <2>1, <2>2 DEF HeldByItsProposal
<1>7. QED
  BY <1>4, <1>5, <1>6 DEF ApprovalInv

\* Steps that leave the quotes and the proposals, and only advance a row.
LEMMA ApprovalInvRow ==
  ASSUME TypeOK, DecisionCarried, ApprovalInv, NEW w \in Workers,
         \/ \E a \in Requests, d \in Decisions : Decide(w, a, d)
         \/ SaveResult(w) \/ RecordRefundReview(w)
  PROVE  ApprovalInv'
<1> DEFINE Advances(a) ==
             /\ approval'[a].proposal = approval[a].proposal
             /\ approval[a].executed => approval'[a].executed
             /\ \/ approval'[a].status = approval[a].status
                \/ approval[a].status = "pending" /\ approval'[a].status \in Decisions
             /\ \/ approval'[a].executed = approval[a].executed
                \/ approval[a].status \in Decisions /\ approval[a].proposal.quote = None
<1>1. UNCHANGED quote /\ \A a \in Requests : Advances(a)
  <2>1. ASSUME NEW a \in Requests, NEW d \in Decisions, Decide(w, a, d)
        PROVE  UNCHANGED quote /\ \A b \in Requests : Advances(b)
    BY <2>1, DecideEffect
  <2>2. QED
    BY <2>1, SaveResultEffect, RefundEffect
<1>2. RowsSound'
  BY <1>1 DEF ApprovalInv, RowsSound, Decided, Live, Decisions
<1>3. DiscountAuthorized'
  BY <1>1 DEF ApprovalInv, DiscountAuthorized
<1>4. HeldByItsProposal'
  <2>1. ASSUME NEW q \in Quotes, quote'[q].status = "pending_approval"
        PROVE  \E a \in Requests : Live(a)' /\ quote'[q].approval = a
                                           /\ approval'[a].proposal.quote = q
    <3>1. PICK a \in Requests : Live(a) /\ quote[q].approval = a
                               /\ approval[a].proposal.quote = q
      BY <1>1, <2>1 DEF ApprovalInv, HeldByItsProposal
    <3>2. Live(a)'
      BY <1>1, <3>1, ParameterTypes DEF Live, Decisions
    <3>3. QED
      BY <1>1, <3>1, <3>2
  <2>2. ASSUME NEW a \in Requests, Live(a)', approval'[a].proposal.quote # None
        PROVE  /\ Held(a)'
               /\ quote'[approval'[a].proposal.quote].discount = approval'[a].proposal.price
    <3>1. Live(a) /\ approval'[a].proposal = approval[a].proposal
      BY <1>1, <2>2 DEF Live
    <3>2. QED
      BY <1>1, <2>2, <3>1 DEF ApprovalInv, HeldByItsProposal, Held
  <2>3. QED
    BY <2>1, <2>2 DEF HeldByItsProposal
<1>5. QED
  BY <1>2, <1>3, <1>4 DEF ApprovalInv

\* Each kind of step preserves the invariant.
LEMMA ApprovalInvStep ==
  ASSUME TypeOK, DecisionCarried, ApprovalInv, [Next]_vars
  PROVE  ApprovalInv'
<1>1. CASE UNCHANGED <<quote, approval>>
  BY <1>1 DEF ApprovalInv, RowsSound, DiscountAuthorized, HeldByItsProposal, Live, Held, Decided
<1>2. QED
  BY <1>1, DataStep, ApprovalInvTools, ApprovalInvSave, ApprovalInvExecute, ApprovalInvRow

\* So it holds of every state the program reaches.
LEMMA ApprovalInvariant == Spec => []ApprovalInv
<1>1. ApprovalInv /\ TypeOK /\ DecisionCarried /\ [Next]_vars => ApprovalInv'
  BY ApprovalInvStep
<1>2. QED
  BY <1>1, ApprovalInvInit, Base, PTL DEF Spec

\* No interleaving of conversations, retries and failures gives a quote a
\* discount above its customer's limit without its own executed approval.
THEOREM DiscountIsAuthorized == Spec => []DiscountAuthorized
<1>1. ApprovalInv => DiscountAuthorized
  BY DEF ApprovalInv
<1>2. QED
  BY <1>1, ApprovalInvariant, PTL

\* A quote pending approval and its one unexecuted approval always match,
\* and the price the manager was shown is still the quote's price.
THEOREM QuoteIsHeld == Spec => []HeldByItsProposal
<1>1. ApprovalInv => HeldByItsProposal
  BY DEF ApprovalInv
<1>2. QED
  BY <1>1, ApprovalInvariant, PTL

-----------------------------------------------------------------------------
(* Steps.                                                                  *)

\* A manager's decision, once persisted, stands, and is executed at most
\* once: never before it is persisted, never undone.
THEOREM DecisionStands == Spec => DecisionIsFinal
<1> DEFINE Stands(a) ==
      /\ Decided(a) => approval'[a].status = approval[a].status
      /\ approval'[a].executed # approval[a].executed => Decided(a) /\ approval'[a].executed
<1>1. ASSUME TypeOK, DecisionCarried, ApprovalInv, [Next]_vars
      PROVE  \A a \in Requests : Stands(a)
  <2>1. CASE UNCHANGED <<quote, approval>>
    BY <2>1
  <2>2. ASSUME NEW w \in Workers, NEW b \in Requests, NEW d \in Decisions, Decide(w, b, d)
        PROVE  \A a \in Requests : Stands(a)
    <3>1. approval[b].status \in Decisions => approval[b].status = d
      BY <1>1, <2>2, DecideEffect DEF Decisions
    <3>2. QED
      BY <1>1, <2>2, <3>1, DecideEffect DEF Decided
  <2>3. ASSUME NEW w \in Workers, SaveProposal(w)
        PROVE  \A a \in Requests : Stands(a)
    <3> DEFINE r == call[w].request
    <3>1. /\ r \in Requests /\ approval[r].status = "none" /\ approval'[r].executed = FALSE
          /\ \A a \in Requests \ {r} : approval'[a] = approval[a]
      BY <1>1, <2>3, SaveProposalEffect
    <3> HIDE DEF r
    <3>2. ~Decided(r)
      BY <3>1 DEF Decided, Decisions
    <3>3. approval[r].executed = FALSE
      <4>1. approval[r].executed \in BOOLEAN
        BY <1>1, <3>1, ExecutedType
      <4>2. QED
        BY <1>1, <3>1, <3>2, <4>1 DEF ApprovalInv, RowsSound
    <3>4. QED
      BY <3>1, <3>2, <3>3 DEF Decided
  <2>4. ASSUME NEW w \in Workers, SaveResult(w)
        PROVE  \A a \in Requests : Stands(a)
    BY <1>1, <2>4, SaveResultEffect
  <2>5. ASSUME NEW a \in Requests, approval[a].status \in Decisions, approval'[a].executed,
               approval'[a].status = approval[a].status,
               \A o \in Requests \ {a} : approval'[o] = approval[o]
        PROVE  \A o \in Requests : Stands(o)
    BY <2>5 DEF Decided
  <2>6. ASSUME NEW w \in Workers,
               ExecuteApproval(w) \/ ExecuteRejection(w) \/ RecordRefundReview(w)
        PROVE  \A a \in Requests : Stands(a)
    <3> DEFINE a == call[w].request
    <3>1. /\ a \in Requests
          /\ approval[a].status \in Decisions
          /\ approval'[a].executed
          /\ approval'[a].status = approval[a].status
          /\ \A o \in Requests \ {a} : approval'[o] = approval[o]
      BY <1>1, <2>6, ExecuteEffect, RefundEffect
    <3> HIDE DEF a, Stands
    <3>2. QED
      BY <2>5, <3>1
  <2>7. QED
    BY <1>1, <2>1, <2>2, <2>3, <2>4, <2>6, DataStep, QuoteEffect, ApplyDiscountEffect
<1>2. QED
  BY <1>1, Base, ApprovalInvariant, PTL DEF Spec, DecisionIsFinal

\* A rejection gives the quote back as it was proposed: price and status.
THEOREM RejectionGivesBack == Spec => RejectionPreserves
<1> DEFINE GivesBack(a) ==
      LET proposal == approval[a].proposal
      IN approval'[a].executed /\ ~approval[a].executed
         /\ approval[a].status = "rejected" /\ proposal.quote # None =>
           /\ quote'[proposal.quote].discount = proposal.price
           /\ quote'[proposal.quote].status = proposal.previous
<1>1. ASSUME TypeOK, DecisionCarried, ApprovalInv, [Next]_vars
      PROVE  \A a \in Requests : GivesBack(a)
  <2>1. ASSUME NEW w \in Workers, ExecuteApproval(w) \/ ExecuteRejection(w)
        PROVE  \A a \in Requests : GivesBack(a)
    <3> DEFINE a == call[w].request
               q == approval[a].proposal.quote
    <3>1. /\ a \in Requests /\ q \in Quotes /\ ~approval[a].executed
          /\ \A o \in Requests \ {a} : approval'[o] = approval[o]
          /\ approval[a].status = "rejected" =>
               /\ quote'[q].status = approval[a].proposal.previous
               /\ quote'[q].discount = quote[q].discount
      BY <1>1, <2>1, ExecuteEffect
    <3>2. approval[a].status = "rejected" => quote[q].discount = approval[a].proposal.price
      BY <1>1, <3>1, ParameterTypes DEF ApprovalInv, HeldByItsProposal, Live
    <3>3. QED
      BY <3>1, <3>2
  <2>2. ASSUME NEW w \in Workers, RecordRefundReview(w)
        PROVE  \A a \in Requests : GivesBack(a)
    BY <1>1, <2>2, RefundEffect
  <2>3. ASSUME \A a \in Requests : approval'[a].executed => approval[a].executed
        PROVE  \A a \in Requests : GivesBack(a)
    BY <2>3
  <2>4. ASSUME NEW w \in Workers, NEW b \in Requests, NEW d \in Decisions, Decide(w, b, d)
        PROVE  \A a \in Requests : GivesBack(a)
    BY <1>1, <2>3, <2>4, DecideEffect
  <2>5. QED
    BY <1>1, <2>1, <2>2, <2>3, <2>4, DataStep, QuoteEffect, ApplyDiscountEffect,
       SaveProposalEffect, SaveResultEffect
<1>2. QED
  BY <1>1, Base, ApprovalInvariant, PTL DEF Spec, RejectionPreserves

\* A quote that became an order keeps its status and price for ever.
THEOREM ConvertedStaysFrozen == Spec => ConvertedIsFrozen
<1> DEFINE Frozen(q) ==
      quote[q].status = "converted" =>
        /\ quote'[q].status = "converted"
        /\ quote'[q].discount = quote[q].discount
<1>1. ASSUME TypeOK, DecisionCarried, [Next]_vars
      PROVE  \A q \in Quotes : Frozen(q)
  <2>1. CASE UNCHANGED quote
    BY <2>1
  <2>2. ASSUME NEW w \in Workers, NEW q \in Quotes, NEW p \in Percents, ApplyDiscount(w, q, p)
        PROVE  \A o \in Quotes : Frozen(o)
    BY <1>1, <2>2, ApplyDiscountEffect
  <2>3. ASSUME NEW w \in Workers, SaveProposal(w)
        PROVE  \A o \in Quotes : Frozen(o)
    BY <1>1, <2>3, SaveProposalEffect
  <2>4. ASSUME NEW w \in Workers, ExecuteApproval(w) \/ ExecuteRejection(w)
        PROVE  \A o \in Quotes : Frozen(o)
    BY <1>1, <2>4, ExecuteEffect
  <2>5. ASSUME NEW q \in Quotes,
               (\E w \in Workers : CreateQuote(w, q) \/ ConvertQuote(w, q)) \/ Expire(q)
        PROVE  \A o \in Quotes : Frozen(o)
    BY <1>1, <2>5, QuoteEffect
  <2>6. QED
    BY <1>1, <2>1, <2>2, <2>3, <2>4, <2>5, DataStep, DecideEffect, SaveResultEffect, RefundEffect
<1>2. QED
  BY <1>1, Base, PTL DEF Spec, ConvertedIsFrozen

-----------------------------------------------------------------------------
(* The calls and their checkpoints: WorksOnOwnCheckpoint and PauseIsKept   *)
(* rest on the lock of the conversation and on request ids that are never  *)
(* used again, not on the rows alone.                                      *)

\* The lock: no other call has the conversation of a call in progress.
OneCall ==
  \A v, w \in Workers : v # w /\ ~At(v, "idle") => call[v].thread # call[w].thread

\* A call past the test of the checkpoint's request works on its own, and
\* knows which node comes next in it.
OnCheckpoint ==
  \A w \in Workers :
    LET cp == checkpoint[call[w].thread]
    IN /\ call[w].pc \notin {"idle", "resume"} => cp.request = call[w].request
       /\ call[w].pc \in {"node", "proposed"} => cp.next = "node"
       /\ call[w].pc = "respond" => cp.next = "respond"

\* What the call knows of its approval: none before it proposes, an executed
\* one after review_action.
OnRow ==
  \A w \in Workers :
    /\ call[w].pc \in {"node", "proposed"} => approval[call[w].request].status = "none"
    /\ call[w].pc = "executed" => approval[call[w].request].executed

\* A request id is used once, in one conversation.
OneThread ==
  /\ \A a \in Requests : approval[a].status # "none" => a \in started
  /\ \A t \in Threads : checkpoint[t].request # None => checkpoint[t].request \in started
  /\ \A s, t \in Threads :
       s # t /\ checkpoint[s].request # None => checkpoint[s].request # checkpoint[t].request

\* The checkpoint of an unexecuted approval is still at the node that proposed it.
LiveAtNode ==
  Durable => \A a \in Requests : Live(a) =>
    /\ checkpoint[approval[a].thread].request = a
    /\ checkpoint[approval[a].thread].next = "node"

GraphInv == OneCall /\ OnCheckpoint /\ OnRow /\ OneThread /\ LiveAtNode

\* What the steps of a call in progress do to it and to its checkpoint.
Proposes(w) ==
  /\ At(w, "node")
  /\ \E proposal : call' = [call EXCEPT ![w] = [@ EXCEPT !.pc = "proposed", !.proposal = proposal]]
Leaves(w) == ~At(w, "idle") /\ Exit(w)
Resumes(w) ==
  /\ At(w, "resume")
  /\ checkpoint[call[w].thread].request = call[w].request
  /\ \/ Goto(w, "executed") /\ approval'[call[w].request].executed
     \/ Goto(w, "respond") /\ checkpoint[call[w].thread].next = "respond"
     \/ Goto(w, "saveDone")

\* The record of a call in progress.
LEMMA BusyCall ==
  ASSUME TypeOK, NEW w \in Workers, ~At(w, "idle")
  PROVE  call[w] \in [pc : ActivePcs, thread : Threads, request : Requests,
                      proposal : Proposals, decision : Decisions \cup {None}]
<1>1. call[w] \in Calls
  BY DEF TypeOK
<1>2. call[w] # Idle
  BY DEF At, Idle
<1>3. QED
  BY <1>1, <1>2 DEF Calls, ActivePcs

\* Which steps write the checkpoint, and what the others do to the call.
LEMMA GraphSteps ==
  ASSUME TypeOK, NEW w \in Workers, Tools(w) \/ Proceed(w) \/ Fail(w)
  PROVE  \/ /\ UNCHANGED checkpoint
            /\ \/ UNCHANGED call /\ At(w, "node")
               \/ Proposes(w) \/ Leaves(w) \/ Resumes(w)
               \/ At(w, "proposed") /\ Goto(w, "pausing")
         \/ Pause(w) \/ FinishNode(w) \/ Respond(w) \/ ReturnDecision(w) \/ PauseAgain(w)
<1>1. CASE Tools(w)
  BY <1>1 DEF Tools, CreateQuote, ConvertQuote, ApplyDiscount, ProposeDiscount, ProposeRefund,
        Proposes
<1>2. CASE Fail(w)
  BY <1>2 DEF Fail, Leaves
<1>3. CASE SaveProposal(w)
  BY <1>3 DEF SaveProposal
<1>4. CASE RefuseStaleProposal(w) \/ RefuseCheckpoint(w) \/ SaveResult(w) \/ RefuseExecution(w)
  BY <1>4 DEF RefuseStaleProposal, RefuseCheckpoint, SaveResult, RefuseExecution, Resuming,
        Leaves, At
<1>5. CASE ContinueGraph(w) \/ RecoverResult(w)
  BY <1>5 DEF ContinueGraph, RecoverResult, Resumes
<1>6. CASE SkipExecution(w)
  BY <1>6 DEF SkipExecution, Resuming, Resumes
<1>7. CASE ExecuteApproval(w) \/ ExecuteRejection(w) \/ RecordRefundReview(w)
  <2>1. /\ UNCHANGED checkpoint /\ Goto(w, "executed") /\ Executed(call[w].request)
        /\ At(w, "resume") /\ checkpoint[call[w].thread].request = call[w].request
    BY <1>7 DEF ExecuteApproval, ExecuteRejection, RecordRefundReview, Executing, Resuming
  <2>2. call[w].request \in Requests
    BY <2>1, ActiveCall DEF At, ActivePcs
  <2>3. Persisted(w) /\ call[w].decision # None => approval[call[w].request].status # "none"
    BY <2>2, ActiveCall, <2>1 DEF Persisted, At, ActivePcs, Decisions
  <2>4. approval'[call[w].request].executed
    BY <2>1, <2>2 DEF Executed, TypeOK, ApprovalRows, NoApproval
  <2>5. QED
    BY <2>1, <2>4 DEF Resumes
<1>8. QED
  BY <1>1, <1>2, <1>3, <1>4, <1>5, <1>6, <1>7 DEF Proceed, Execute

\* So the step leaves the other calls and conversations alone, and keeps its
\* own conversation and request until it ends.
LEMMA MoveEffect ==
  ASSUME TypeOK, NEW w \in Workers, Tools(w) \/ Proceed(w) \/ Fail(w)
  PROVE  LET t == call[w].thread
         IN /\ call[w].pc \in ActivePcs /\ t \in Threads /\ call[w].request \in Requests
            /\ \A v \in Workers \ {w} : call'[v] = call[v]
            /\ call'[w] = Idle \/ (call'[w].thread = t /\ call'[w].request = call[w].request)
            /\ \A u \in Threads \ {t} : checkpoint'[u] = checkpoint[u]
            /\ checkpoint'[t].request = checkpoint[t].request
<1>1. ~At(w, "idle")
  BY GraphSteps DEF Proposes, Leaves, Resumes, Pause, FinishNode, Respond, ReturnDecision,
        PauseAgain, At
<1>2. /\ call[w].pc \in ActivePcs
      /\ call[w].thread \in Threads /\ call[w].request \in Requests
  BY <1>1, BusyCall
<1>3. \/ UNCHANGED call
      \/ Exit(w)
      \/ \E pc \in ActivePcs : Goto(w, pc)
      \/ Proposes(w)
  BY GraphSteps DEF Leaves, Resumes, Pause, FinishNode, Respond, ReturnDecision,
        PauseAgain, ActivePcs
<1>4. /\ \A v \in Workers \ {w} : call'[v] = call[v]
      /\ call'[w] = Idle \/ (call'[w].thread = call[w].thread /\ call'[w].request = call[w].request)
  <2>1. CASE UNCHANGED call
    BY <2>1
  <2>2. CASE Exit(w)
    <3>1. call'[w] = Idle /\ \A v \in Workers \ {w} : call'[v] = call[v]
      BY <2>2 DEF Exit, TypeOK
    <3>2. QED
      BY <3>1
  <2>3. CASE \E pc \in ActivePcs : Goto(w, pc)
    BY <1>1, <2>3, BusyCall DEF Goto, TypeOK
  <2>4. CASE Proposes(w)
    BY <1>1, <2>4, BusyCall DEF Proposes, TypeOK
  <2>5. QED
    BY <1>3, <2>1, <2>2, <2>3, <2>4
<1>5. \/ UNCHANGED checkpoint
      \/ checkpoint' = [checkpoint EXCEPT ![call[w].thread].paused = TRUE]
      \/ \E n \in {"none", "respond"} : checkpoint' = [checkpoint EXCEPT ![call[w].thread].next = n]
      \/ ReturnDecision(w)
  BY GraphSteps DEF Pause, FinishNode, Respond, PauseAgain
<1>6. /\ \A u \in Threads \ {call[w].thread} : checkpoint'[u] = checkpoint[u]
      /\ checkpoint'[call[w].thread].request = checkpoint[call[w].thread].request
  <2>1. CASE UNCHANGED checkpoint
    BY <2>1
  <2>2. CASE checkpoint' = [checkpoint EXCEPT ![call[w].thread].paused = TRUE]
    BY <1>2, <2>2 DEF TypeOK, Checkpoints
  <2>3. CASE \E n \in {"none", "respond"} : checkpoint' = [checkpoint EXCEPT ![call[w].thread].next = n]
    BY <1>2, <2>3 DEF TypeOK, Checkpoints
  <2>4. CASE ReturnDecision(w)
    BY <1>2, <2>4 DEF ReturnDecision, TypeOK, Checkpoints
  <2>5. QED
    BY <1>5, <2>1, <2>2, <2>3, <2>4
<1>7. QED
  BY <1>1, <1>2, <1>4, <1>6

\* Where the step takes the call, and the next node of its checkpoint.
LEMMA MoveNext ==
  ASSUME TypeOK, NEW w \in Workers, Tools(w) \/ Proceed(w) \/ Fail(w)
  PROVE  LET cp == checkpoint[call[w].thread]
             next == checkpoint'[call[w].thread].next
             pc == call'[w].pc
         IN /\ \/ next = cp.next
               \/ call[w].pc \in {"node", "executed"} /\ pc = "respond" /\ next = "respond"
               \/ call[w].pc = "respond" /\ pc \in {"idle", "saveDone"} /\ next = "none"
            /\ pc # "resume"
            /\ pc \in {"node", "proposed"} => call[w].pc = "node" /\ next = cp.next
            /\ pc = "executed" => approval'[call[w].request].executed
            /\ pc = "respond" => next = "respond"
            /\ call[w].pc = "resume" /\ pc # "idle" => cp.request = call[w].request
<1> DEFINE t == call[w].thread
<1>1. /\ call[w].pc \in ActivePcs /\ t \in Threads
      /\ call[w] \in [pc : ActivePcs, thread : Threads, request : Requests,
                      proposal : Proposals, decision : Decisions \cup {None}]
  <2>1. call[w].pc \in ActivePcs
    BY MoveEffect
  <2>2. QED
    BY <2>1, BusyCall DEF At, ActivePcs
<1>2. \A pc \in ActivePcs : Goto(w, pc) => call'[w].pc = pc
  BY <1>1 DEF Goto, TypeOK
<1>3. Exit(w) => call'[w].pc = "idle"
  BY DEF Exit, TypeOK, Idle
<1>4. Proposes(w) => call'[w].pc = "proposed"
  BY <1>1 DEF Proposes, TypeOK
<1>5. \A n : checkpoint' = [checkpoint EXCEPT ![t].next = n] => checkpoint'[t].next = n
  BY <1>1 DEF TypeOK, Checkpoints
<1>6. checkpoint' = [checkpoint EXCEPT ![t].paused = TRUE] => checkpoint'[t].next = checkpoint[t].next
  BY <1>1 DEF TypeOK, Checkpoints
<1>7. ReturnDecision(w) => checkpoint'[t].next = "respond"
  BY <1>1 DEF ReturnDecision, TypeOK, Checkpoints
<1>8. CASE UNCHANGED checkpoint /\ UNCHANGED call /\ At(w, "node")
  BY <1>8 DEF At
<1>9. CASE UNCHANGED checkpoint /\ (Proposes(w) \/ Leaves(w))
  BY <1>3, <1>4, <1>9 DEF Proposes, Leaves, At
<1>10. CASE UNCHANGED checkpoint /\ Resumes(w)
  BY <1>2, <1>10 DEF Resumes, At, ActivePcs
<1>11. CASE UNCHANGED checkpoint /\ At(w, "proposed") /\ Goto(w, "pausing")
  BY <1>2, <1>11 DEF At, ActivePcs
<1>12. CASE Pause(w)
  BY <1>3, <1>6, <1>12 DEF Pause, At
<1>13. CASE FinishNode(w)
  BY <1>2, <1>5, <1>13 DEF FinishNode, At, ActivePcs
<1>14. CASE Respond(w)
  BY <1>2, <1>3, <1>5, <1>14 DEF Respond, At, ActivePcs
<1>15. CASE ReturnDecision(w)
  BY <1>2, <1>7, <1>15 DEF ReturnDecision, At, ActivePcs
<1>16. CASE PauseAgain(w)
  BY <1>2, <1>6, <1>16 DEF PauseAgain, At, ActivePcs
<1>17. QED
  BY GraphSteps, <1>8, <1>9, <1>10, <1>11, <1>12, <1>13, <1>14, <1>15, <1>16

\* What the step does to the rows: one may appear, when a proposal is saved,
\* and none loses its conversation or its execution.
LEMMA MoveRows ==
  ASSUME TypeOK, NEW w \in Workers, Tools(w) \/ Proceed(w) \/ Fail(w),
         NEW a \in Requests
  PROVE  /\ approval[a].executed => approval'[a].executed
         /\ \/ /\ approval[a].status = "none" <=> approval'[a].status = "none"
               /\ approval'[a].thread = approval[a].thread
            \/ /\ call[w].pc = "proposed" /\ call'[w].pc = "pausing"
               /\ a = call[w].request /\ approval'[a].thread = call[w].thread
<1> DEFINE r == call[w].request
<1>1. /\ r \in Requests /\ ~At(w, "idle")
  <2>1. call[w].pc \in ActivePcs /\ r \in Requests
    BY MoveEffect
  <2>2. QED
    BY <2>1 DEF At, ActivePcs
<1>2. CASE UNCHANGED approval
  BY <1>2
<1>3. CASE SaveProposal(w)
  <2>1. /\ call[w].pc = "proposed" /\ call'[w].pc = "pausing"
        /\ approval[r].status = "none"
        /\ approval' = [approval EXCEPT ![r] =
             [status |-> "pending", thread |-> call[w].thread, proposal |-> call[w].proposal,
              executed |-> FALSE, saved |-> None]]
    BY <1>1, <1>3, BusyCall DEF SaveProposal, At, Goto, TypeOK
  <2>2. ~approval[r].executed
    <3>1. approval[r] = NoApproval
      BY <1>1, <2>1 DEF TypeOK, ApprovalRows, Decisions
    <3>2. QED
      BY <3>1 DEF NoApproval
  <2>3. QED
    BY <1>1, <2>1, <2>2 DEF TypeOK
<1>4. CASE Executed(r)
  <2>1. approval[r] \in ApprovalRows
    BY <1>1 DEF TypeOK
  <2>2. /\ approval'[r].status = approval[r].status /\ approval'[r].thread = approval[r].thread
        /\ approval'[r].executed
        /\ \A o \in Requests \ {r} : approval'[o] = approval[o]
    BY <1>1, <1>4, <2>1 DEF Executed, TypeOK, ApprovalRows, NoApproval
  <2>3. QED
    BY <2>2
<1>5. CASE SaveResult(w)
  BY <1>5, SaveResultEffect
<1>6. QED
  BY <1>2, <1>3, <1>4, <1>5 DEF Tools, Proceed, Execute, Fail, CreateQuote, ConvertQuote,
     ApplyDiscount, ProposeDiscount, ProposeRefund, RefuseStaleProposal, Pause, FinishNode,
     Respond, ExecuteApproval, ExecuteRejection, RecordRefundReview, SkipExecution,
     RefuseExecution, ReturnDecision, PauseAgain, ContinueGraph, RecoverResult, RefuseCheckpoint

-----------------------------------------------------------------------------
(* The four kinds of step, each with the parts of GraphInv it disturbs.    *)

\* A call in progress goes on, or ends.
LEMMA GraphInvMove ==
  ASSUME TypeOK, GraphInv, NEW w \in Workers,
         Tools(w) \/ Proceed(w) \/ Fail(w), UNCHANGED started
  PROVE  GraphInv'
<1> DEFINE t == call[w].thread
           r == call[w].request
<1>1. /\ call[w].pc \in ActivePcs /\ t \in Threads /\ r \in Requests
      /\ \A v \in Workers \ {w} : call'[v] = call[v]
      /\ call'[w] = Idle \/ (call'[w].thread = t /\ call'[w].request = r)
      /\ \A u \in Threads \ {t} : checkpoint'[u] = checkpoint[u]
      /\ checkpoint'[t].request = checkpoint[t].request
  BY MoveEffect
<1>2. /\ \/ checkpoint'[t].next = checkpoint[t].next
         \/ call[w].pc \in {"node", "executed"} /\ call'[w].pc = "respond"
            /\ checkpoint'[t].next = "respond"
         \/ call[w].pc = "respond" /\ call'[w].pc \in {"idle", "saveDone"}
            /\ checkpoint'[t].next = "none"
      /\ call'[w].pc # "resume"
      /\ call'[w].pc \in {"node", "proposed"} =>
           call[w].pc = "node" /\ checkpoint'[t].next = checkpoint[t].next
      /\ call'[w].pc = "executed" => approval'[r].executed
      /\ call'[w].pc = "respond" => checkpoint'[t].next = "respond"
      /\ call[w].pc = "resume" /\ call'[w].pc # "idle" => checkpoint[t].request = r
  BY MoveNext
<1>3. \A a \in Requests :
        /\ approval[a].executed => approval'[a].executed
        /\ \/ /\ approval[a].status = "none" <=> approval'[a].status = "none"
              /\ approval'[a].thread = approval[a].thread
           \/ /\ call[w].pc = "proposed" /\ call'[w].pc = "pausing"
              /\ a = r /\ approval'[a].thread = t
  BY MoveRows
<1>4. \A v \in Workers \ {w} : ~At(v, "idle") => call[v].thread \in Threads \ {t} /\ call[v].request \in Requests
  BY <1>1, BusyCall DEF GraphInv, OneCall, At, ActivePcs
<1>5. OneCall'
  <2> SUFFICES ASSUME NEW u \in Workers, NEW v \in Workers, u # v, ~(call'[u].pc = "idle")
               PROVE  call'[u].thread # call'[v].thread
    BY DEF OneCall, At
  <2>1. CASE u = w
    <3>1. call'[u].thread = t /\ call'[v] = call[v]
      BY <1>1, <2>1 DEF Idle
    <3>2. QED
      BY <1>1, <2>1, <3>1 DEF GraphInv, OneCall, At, ActivePcs
  <2>2. CASE v = w
    <3>1. call'[u] = call[u] /\ call[u].thread \in Threads /\ call[u].thread # t
      BY <1>1, <1>4, <2>2 DEF At
    <3>2. call'[v].thread = t \/ call'[v].thread = None
      BY <1>1, <2>2 DEF Idle
    <3>3. QED
      BY <3>1, <3>2, ParameterTypes
  <2>3. CASE u # w /\ v # w
    BY <1>1, <2>3 DEF GraphInv, OneCall, At
  <2>4. QED
    BY <2>1, <2>2, <2>3
<1>6. \A v \in Workers \ {w} : ~At(v, "idle") => checkpoint'[call[v].thread] = checkpoint[call[v].thread]
  BY <1>1, <1>4
<1>7. OnCheckpoint'
  <2> SUFFICES ASSUME NEW v \in Workers
               PROVE  LET cp == checkpoint'[call'[v].thread]
                      IN /\ call'[v].pc \notin {"idle", "resume"} => cp.request = call'[v].request
                         /\ call'[v].pc \in {"node", "proposed"} => cp.next = "node"
                         /\ call'[v].pc = "respond" => cp.next = "respond"
    BY DEF OnCheckpoint
  <2>1. CASE v # w
    BY <1>1, <1>6, <2>1 DEF GraphInv, OnCheckpoint, At
  <2>2. CASE call'[w] = Idle
    BY <1>1, <1>6, <2>1, <2>2 DEF Idle
  <2>3. CASE v = w /\ call'[w].thread = t /\ call'[w].request = r
    BY <1>1, <1>2, <2>3 DEF GraphInv, OnCheckpoint, ActivePcs
  <2>4. QED
    BY <1>1, <2>1, <2>2, <2>3
<1>8. OnRow'
  <2> SUFFICES ASSUME NEW v \in Workers
               PROVE  /\ call'[v].pc \in {"node", "proposed"} => approval'[call'[v].request].status = "none"
                      /\ call'[v].pc = "executed" => approval'[call'[v].request].executed
    BY DEF OnRow
  <2>1. CASE v # w /\ ~At(v, "idle")
    <3>1. call'[v] = call[v] /\ call[v].request \in Requests
      BY <1>1, <1>4, <2>1
    <3>2. call[v].pc \in {"node", "proposed"} /\ call[w].pc = "proposed" => call[v].request # r
      BY <1>1, <1>4, <2>1, ParameterTypes DEF GraphInv, OnCheckpoint, OneThread
    <3>3. QED
      BY <1>3, <3>1, <3>2 DEF GraphInv, OnRow
  <2>2. CASE v # w /\ At(v, "idle")
    BY <1>1, <2>2 DEF At
  <2>3. CASE v = w
    <3>1. CASE call'[w] = Idle
      BY <2>3, <3>1 DEF Idle
    <3>2. CASE call'[w].request = r
      BY <1>1, <1>2, <1>3, <2>3, <3>2 DEF GraphInv, OnRow
    <3>3. QED
      BY <1>1, <3>1, <3>2
  <2>4. QED
    BY <2>1, <2>2, <2>3
<1>9. OneThread'
  <2>1. call[w].pc = "proposed" => r \in started
    BY <1>1, ParameterTypes DEF GraphInv, OnCheckpoint, OneThread
  <2>2. \A u \in Threads : checkpoint'[u].request = checkpoint[u].request
    BY <1>1
  <2>3. QED
    BY <1>3, <2>1, <2>2 DEF GraphInv, OneThread
<1>10. LiveAtNode'
  <2> SUFFICES ASSUME Durable, NEW a \in Requests, approval'[a].status # "none", ~approval'[a].executed
               PROVE  /\ checkpoint'[approval'[a].thread].request = a
                      /\ checkpoint'[approval'[a].thread].next = "node"
    BY DEF LiveAtNode, Live
  <2>1. CASE call[w].pc = "proposed" /\ call'[w].pc = "pausing" /\ a = r /\ approval'[a].thread = t
    BY <1>1, <1>2, <2>1 DEF GraphInv, OnCheckpoint
  <2>2. CASE approval[a].status # "none" /\ approval'[a].thread = approval[a].thread
    <3> DEFINE s == approval[a].thread
    <3>1. s \in Threads /\ checkpoint[s].request = a /\ checkpoint[s].next = "node"
      BY <1>3, <2>2, SavedRow DEF GraphInv, LiveAtNode, Live
    <3>2. CASE s # t
      BY <1>1, <2>2, <3>1, <3>2
    <3>3. CASE s = t
      <4>1. checkpoint'[t].next = checkpoint[t].next
        <5>1. call[w].pc = "node" => approval[r].status = "none" /\ r = a
          BY <1>1, <3>1, <3>3 DEF GraphInv, OnCheckpoint, OnRow
        <5>2. call[w].pc = "executed" => approval[r].executed /\ r = a
          BY <1>1, <3>1, <3>3 DEF GraphInv, OnCheckpoint, OnRow
        <5>3. call[w].pc # "respond"
          BY <1>1, <3>1, <3>3 DEF GraphInv, OnCheckpoint
        <5>4. QED
          BY <1>2, <1>3, <2>2, <5>1, <5>2, <5>3
      <4>2. QED
        BY <1>1, <2>2, <3>1, <3>3, <4>1
    <3>4. QED
      BY <3>2, <3>3
  <2>3. QED
    BY <1>3, <2>1, <2>2
<1>11. QED
  BY <1>5, <1>7, <1>8, <1>9, <1>10 DEF GraphInv

\* A chat call takes a conversation that no call has and whose graph is over.
LEMMA GraphInvStart ==
  ASSUME TypeOK, GraphInv, NEW w \in Workers, NEW r \in Requests, NEW t \in Threads,
         StartChat(w, r, t)
  PROVE  GraphInv'
<1>1. /\ r \notin started /\ \A v \in Workers : call[v].thread # t
      /\ checkpoint[t].next = "none"
      /\ started' = started \cup {r} /\ UNCHANGED approval
      /\ \A v \in Workers \ {w} : call'[v] = call[v]
      /\ call'[w].pc = "node" /\ call'[w].thread = t /\ call'[w].request = r
      /\ \A s \in Threads \ {t} : checkpoint'[s] = checkpoint[s]
      /\ checkpoint'[t].request = r /\ checkpoint'[t].next = "node"
  BY DEF StartChat, Locked, Unfinished, TypeOK
<1>2. \A v \in Workers : ~At(v, "idle") => call[v].thread \in Threads
  BY BusyCall
<1>3. OneCall'
  BY <1>1 DEF GraphInv, OneCall, At
<1>4. OnCheckpoint'
  <2> SUFFICES ASSUME NEW v \in Workers
               PROVE  LET cp == checkpoint'[call'[v].thread]
                      IN /\ call'[v].pc \notin {"idle", "resume"} => cp.request = call'[v].request
                         /\ call'[v].pc \in {"node", "proposed"} => cp.next = "node"
                         /\ call'[v].pc = "respond" => cp.next = "respond"
    BY DEF OnCheckpoint
  <2>1. CASE v = w
    BY <1>1, <2>1
  <2>2. CASE v # w
    <3>1. ~At(v, "idle") => checkpoint'[call[v].thread] = checkpoint[call[v].thread]
      BY <1>1, <1>2, <2>2
    <3>2. QED
      BY <1>1, <2>2, <3>1 DEF GraphInv, OnCheckpoint, At
  <2>3. QED
    BY <2>1, <2>2
<1>5. OnRow'
  <2>1. approval[r].status = "none"
    BY <1>1 DEF GraphInv, OneThread
  <2>2. QED
    BY <1>1, <2>1 DEF GraphInv, OnRow
<1>6. OneThread'
  BY <1>1 DEF GraphInv, OneThread
<1>7. LiveAtNode'
  <2> SUFFICES ASSUME Durable, NEW a \in Requests, Live(a)
               PROVE  /\ checkpoint'[approval[a].thread].request = a
                      /\ checkpoint'[approval[a].thread].next = "node"
    BY <1>1 DEF LiveAtNode, Live
  <2>1. /\ approval[a].thread \in Threads
        /\ checkpoint[approval[a].thread].request = a
        /\ checkpoint[approval[a].thread].next = "node"
    BY SavedRow DEF GraphInv, LiveAtNode, Live
  <2>2. QED
    BY <1>1, <2>1
<1>8. QED
  BY <1>3, <1>4, <1>5, <1>6, <1>7 DEF GraphInv

\* A manager's call takes the conversation of its approval.
LEMMA GraphInvDecide ==
  ASSUME TypeOK, GraphInv, NEW w \in Workers, NEW a \in Requests, NEW d \in Decisions,
         Decide(w, a, d)
  PROVE  GraphInv'
<1>1. /\ approval[a].status # "none" /\ approval'[a].status # "none"
      /\ \A v \in Workers : call[v].thread # approval[a].thread
      /\ UNCHANGED <<checkpoint, started>>
      /\ \A v \in Workers \ {w} : call'[v] = call[v]
      /\ call'[w].pc = "resume" /\ call'[w].thread = approval[a].thread
  BY DecideEffect DEF Decide, Accepts, Locked, TypeOK, Decisions
<1>2. \A b \in Requests : /\ approval[b].status = "none" <=> approval'[b].status = "none"
                          /\ approval'[b].executed = approval[b].executed
                          /\ approval'[b].thread = approval[b].thread
  BY <1>1, DecideEffect
<1>3. OneCall'
  BY <1>1 DEF GraphInv, OneCall, At
<1>4. OnCheckpoint'
  BY <1>1 DEF GraphInv, OnCheckpoint
<1>5. OnRow'
  <2> SUFFICES ASSUME NEW v \in Workers
               PROVE  /\ call'[v].pc \in {"node", "proposed"} => approval'[call'[v].request].status = "none"
                      /\ call'[v].pc = "executed" => approval'[call'[v].request].executed
    BY DEF OnRow
  <2>1. call[v].pc \in {"node", "proposed", "executed"} => call[v].request \in Requests
    BY ActiveCall DEF ActivePcs
  <2>2. QED
    BY <1>1, <1>2, <2>1 DEF GraphInv, OnRow
<1>6. OneThread'
  BY <1>1, <1>2 DEF GraphInv, OneThread
<1>7. LiveAtNode'
  BY <1>1, <1>2 DEF GraphInv, LiveAtNode, Live
<1>8. QED
  BY <1>3, <1>4, <1>5, <1>6, <1>7 DEF GraphInv

\* The invariant of the calls, the rows and the checkpoints.
LEMMA GraphInvariant == Spec => []GraphInv
<1>1. Init => GraphInv
  BY DEF Init, GraphInv, OneCall, OnCheckpoint, OnRow, OneThread, LiveAtNode, Live, At,
     Idle, NoApproval, NoCheckpoint
<1>2. ASSUME TypeOK, GraphInv, [Next]_vars PROVE GraphInv'
  <2>1. ASSUME NEW w \in Workers, NEW r \in Requests, NEW t \in Threads, StartChat(w, r, t)
        PROVE  GraphInv'
    BY <1>2, <2>1, GraphInvStart
  <2>2. ASSUME NEW w \in Workers, NEW a \in Requests, NEW d \in Decisions, Decide(w, a, d)
        PROVE  GraphInv'
    BY <1>2, <2>2, GraphInvDecide
  <2>3. ASSUME NEW w \in Workers, Tools(w) \/ Proceed(w) \/ Fail(w) PROVE GraphInv'
    <3>1. UNCHANGED started
      BY <2>3 DEF Tools, Proceed, Execute, Fail, CreateQuote, ConvertQuote, ApplyDiscount,
         ProposeDiscount, ProposeRefund, SaveProposal, RefuseStaleProposal, Pause, FinishNode,
         Respond, ExecuteApproval, ExecuteRejection, RecordRefundReview, SkipExecution,
         RefuseExecution, ReturnDecision, PauseAgain, ContinueGraph, RecoverResult,
         RefuseCheckpoint, SaveResult
    <3>2. QED
      BY <1>2, <2>3, <3>1, GraphInvMove
  <2>4. CASE Restart
    <3>1. /\ ~Durable /\ UNCHANGED <<approval, started>>
          /\ \A w \in Workers : call'[w] = Idle
          /\ \A t \in Threads : checkpoint'[t] = NoCheckpoint
      BY <2>4 DEF Restart
    <3>2. QED
      BY <1>2, <3>1 DEF GraphInv, OneCall, OnCheckpoint, OnRow, OneThread, LiveAtNode, At,
         Idle, NoCheckpoint
  <2>5. CASE UNCHANGED <<approval, checkpoint, call, started>>
    BY <1>2, <2>5 DEF GraphInv, OneCall, OnCheckpoint, OnRow, OneThread, LiveAtNode, Live, At
  <2>6. QED
    BY <1>2, <2>1, <2>2, <2>3, <2>4, <2>5 DEF Next, Expire, vars
<1>3. QED
  BY <1>1, <1>2, Base, PTL DEF Spec

\* One call at a time works on a conversation, and it works on the checkpoint
\* of its own request: whatever fails, restarts or is retried meanwhile.
THEOREM OwnCheckpoint == Spec => []WorksOnOwnCheckpoint
<1>1. GraphInv => WorksOnOwnCheckpoint
  BY DEF GraphInv, OneCall, OnCheckpoint, WorksOnOwnCheckpoint, At
<1>2. QED
  BY <1>1, GraphInvariant, PTL

-----------------------------------------------------------------------------
(* The contract: whatever the calls do between them, the two tables change *)
(* as QuoteDesk says.  This needs to know what a call and a checkpoint     *)
(* tell about the approval they belong to.                                 *)

\* What the tools may propose: a refund review, or a discount that is beyond the
\* customer's limit.
Offered(proposal) ==
  \/ proposal = NoQuoteProposal
  \/ /\ proposal.quote \in Quotes /\ proposal.percent \in Percents
     /\ proposal.percent <= Cap /\ ~WithinAuthority(proposal.quote, proposal.percent)
OffersOnly == \A w \in Workers : At(w, "proposed") => Offered(call[w].proposal)

\* A manager's call is about an approval of its conversation that nobody has
\* answered.
ToldOnce ==
  \A w \in Workers : call[w].decision # None =>
    /\ approval[call[w].request].saved = None
    /\ approval[call[w].request].thread = call[w].thread

\* How far the call has come tells whether the decision was executed.
Progress ==
  \A w \in Workers :
    /\ call[w].decision # None /\ call[w].pc \in {"respond", "saveDone"} =>
         approval[call[w].request].executed
    /\ call[w].pc = "savePaused" => ~approval[call[w].request].executed

\* So does the checkpoint, while it is still that of the approval's request.
CheckpointTells ==
  \A a \in Requests :
    LET cp == checkpoint[approval[a].thread]
    IN approval[a].status # "none" /\ cp.request = a =>
         /\ cp.next # "node" => approval[a].executed
         /\ approval[a].executed /\ cp.next = "node" => cp.paused

DeskInv == OffersOnly /\ ToldOnce /\ Progress /\ CheckpointTells

\* The rows that a call in progress writes, and that its decision stays its own.
LEMMA MoveWrites ==
  ASSUME TypeOK, DecisionCarried, NEW w \in Workers, Tools(w) \/ Proceed(w) \/ Fail(w)
  PROVE  LET r == call[w].request
         IN /\ call'[w] = Idle \/ call'[w].decision = call[w].decision
            /\ \A a \in Requests \ {r} : approval'[a] = approval[a]
            /\ \/ approval'[r] = approval[r]
               \/ SaveProposal(w)
               \/ /\ Resuming(w) /\ Executing(w) /\ call'[w].pc = "executed"
                  /\ approval'[r].executed
                  /\ approval'[r].status = approval[r].status
                  /\ approval'[r].saved = approval[r].saved
                  /\ approval'[r].thread = approval[r].thread
               \/ /\ SaveResult(w) /\ call'[w] = Idle
                  /\ approval'[r].executed = approval[r].executed
                  /\ approval'[r].status = approval[r].status
                  /\ approval'[r].thread = approval[r].thread
<1> DEFINE r == call[w].request
<1>1. /\ ~At(w, "idle") /\ r \in Requests
      /\ call[w] \in [pc : ActivePcs, thread : Threads, request : Requests,
                      proposal : Proposals, decision : Decisions \cup {None}]
  <2>1. call[w].pc \in ActivePcs
    BY MoveEffect
  <2>2. ~At(w, "idle")
    BY <2>1 DEF At, ActivePcs
  <2>3. QED
    BY <2>2, BusyCall
<1>2. call'[w] = Idle \/ call'[w].decision = call[w].decision
  <2>1. \/ UNCHANGED call
        \/ Exit(w)
        \/ \E pc \in ActivePcs : Goto(w, pc)
        \/ Proposes(w)
    BY GraphSteps DEF Leaves, Resumes, Pause, FinishNode, Respond, ReturnDecision,
          PauseAgain, ActivePcs
  <2>2. CASE Exit(w)
    BY <2>2 DEF Exit, TypeOK
  <2>3. CASE \E pc \in ActivePcs : Goto(w, pc)
    BY <1>1, <2>3 DEF Goto, TypeOK
  <2>4. CASE Proposes(w)
    BY <1>1, <2>4 DEF Proposes, TypeOK
  <2>5. QED
    BY <2>1, <2>2, <2>3, <2>4
<1>3. CASE UNCHANGED approval
  BY <1>2, <1>3
<1>4. CASE SaveProposal(w)
  <2>1. \A a \in Requests \ {r} : approval'[a] = approval[a]
    BY <1>4, SaveProposalEffect
  <2>2. QED
    BY <1>2, <1>4, <2>1
<1>5. CASE ExecuteApproval(w) \/ ExecuteRejection(w) \/ RecordRefundReview(w)
  <2>1. Executing(w) /\ Executed(r) /\ Goto(w, "executed")
    BY <1>5 DEF ExecuteApproval, ExecuteRejection, RecordRefundReview
  <2>2. Resuming(w) /\ call'[w].pc = "executed"
    BY <1>1, <2>1 DEF Executing, Goto, TypeOK
  <2>3. approval[r] \in ApprovalRows
    BY <1>1 DEF TypeOK
  <2>4. /\ approval'[r].executed
        /\ approval'[r].status = approval[r].status
        /\ approval'[r].saved = approval[r].saved
        /\ approval'[r].thread = approval[r].thread
        /\ \A a \in Requests \ {r} : approval'[a] = approval[a]
    <3> HIDE DEF r
    <3> QED
      BY <1>1, <2>1, <2>3 DEF Executed, TypeOK, ApprovalRows, NoApproval
  <2>5. QED
    BY <1>2, <2>1, <2>2, <2>4
<1>6. CASE SaveResult(w)
  <2>1. Exit(w) /\ \A a \in Requests \ {r} : approval'[a] = approval[a]
    <3>1. Exit(w) /\ \E s \in {"paused", "done"} : approval' = [approval EXCEPT ![r].saved = s]
      BY <1>6 DEF SaveResult
    <3> HIDE DEF r
    <3>2. QED
      BY <3>1 DEF TypeOK
  <2>2. call'[w] = Idle
    BY <2>1 DEF Exit, TypeOK
  <2>3. QED
    BY <1>1, <1>6, <2>1, <2>2, SaveResultEffect
<1>7. QED
  BY <1>3, <1>4, <1>5, <1>6 DEF Tools, Proceed, Execute, Fail, CreateQuote, ConvertQuote,
     ApplyDiscount, ProposeDiscount, ProposeRefund, RefuseStaleProposal, Pause, FinishNode,
     Respond, SkipExecution,
     RefuseExecution, ReturnDecision, PauseAgain, ContinueGraph, RecoverResult, RefuseCheckpoint

\* A manager's call is the only one about its approval.
LEMMA OneManager ==
  ASSUME TypeOK, DecisionCarried, GraphInv, ToldOnce,
         NEW v \in Workers, NEW w \in Workers, v # w,
         call[v].decision # None, call[w].decision # None
  PROVE  call[v].request # call[w].request
<1>1. ~At(v, "idle")
  BY DEF TypeOK, Calls, At, Idle
<1>2. QED
  BY <1>1 DEF GraphInv, OneCall, ToldOnce

\* What a manager's call is about.
LEMMA Manager ==
  ASSUME TypeOK, DecisionCarried, NEW w \in Workers, call[w].decision # None
  PROVE  /\ ~At(w, "idle") /\ call[w].request \in Requests /\ call[w].thread \in Threads
         /\ call[w].decision \in Decisions
         /\ approval[call[w].request].status \in Decisions
<1>1. ~At(w, "idle")
  BY DEF TypeOK, Calls, At, Idle
<1>2. QED
  BY <1>1, BusyCall DEF DecisionCarried

\* Where the answer of a call comes from, and what it makes of its checkpoint.
LEMMA MoveFlow ==
  ASSUME TypeOK, NEW w \in Workers, Tools(w) \/ Proceed(w) \/ Fail(w)
  PROVE  LET r == call[w].request
             t == call[w].thread
             cp == checkpoint[t]
             pc == call'[w].pc
         IN /\ pc = "respond" => \/ call[w].pc \in {"node", "executed"}
                                 \/ cp.request = r /\ cp.next = "respond"
            /\ pc = "saveDone" => \/ At(w, "respond")
                                  \/ cp.request = r /\ cp.next = "none"
            /\ pc = "savePaused" =>
                 At(w, "resume") /\ cp.request = r /\ cp.next = "node" /\ ~cp.paused
            /\ pc \in {"respond", "saveDone", "savePaused"} => UNCHANGED approval
            /\ \/ UNCHANGED checkpoint
               \/ UNCHANGED approval /\ checkpoint'[t].paused /\ checkpoint'[t].next = cp.next
               \/ /\ UNCHANGED approval /\ call[w].pc \in {"node", "executed", "respond"}
                  /\ checkpoint'[t].next \in {"none", "respond"}
<1> DEFINE t == call[w].thread
<1>1. /\ call[w].pc \in ActivePcs /\ t \in Threads
      /\ call[w] \in [pc : ActivePcs, thread : Threads, request : Requests,
                      proposal : Proposals, decision : Decisions \cup {None}]
  <2>1. call[w].pc \in ActivePcs
    BY MoveEffect
  <2>2. QED
    BY <2>1, BusyCall DEF At, ActivePcs
<1>2. \A pc \in ActivePcs : Goto(w, pc) => call'[w].pc = pc
  BY <1>1 DEF Goto, TypeOK
<1>3. Exit(w) => call'[w].pc = "idle"
  BY DEF Exit, TypeOK, Idle
<1>4. Proposes(w) => call'[w].pc = "proposed"
  BY <1>1 DEF Proposes, TypeOK
<1>5. checkpoint' = [checkpoint EXCEPT ![t].paused = TRUE] =>
        checkpoint'[t].paused /\ checkpoint'[t].next = checkpoint[t].next
  BY <1>1 DEF TypeOK, Checkpoints
<1>0. \A n : checkpoint' = [checkpoint EXCEPT ![t].next = n] => checkpoint'[t].next = n
  BY <1>1 DEF TypeOK, Checkpoints
<1>16. ReturnDecision(w) => checkpoint'[t].next = "respond"
  BY <1>1 DEF ReturnDecision, TypeOK, Checkpoints
<1>6. CASE Tools(w)
  <2>1. UNCHANGED checkpoint /\ ((At(w, "node") /\ UNCHANGED call) \/ Proposes(w))
    BY <1>6 DEF Tools, CreateQuote, ConvertQuote, ApplyDiscount, ProposeDiscount, ProposeRefund,
       Proposes
  <2>2. QED
    BY <1>4, <2>1 DEF At
<1>7. CASE Fail(w) \/ RefuseStaleProposal(w) \/ RefuseExecution(w) \/ RefuseCheckpoint(w)
           \/ SaveResult(w)
  BY <1>3, <1>7 DEF Fail, RefuseStaleProposal, RefuseExecution, RefuseCheckpoint, SaveResult
<1>8. CASE SaveProposal(w)
  BY <1>2, <1>8 DEF SaveProposal, ActivePcs
<1>9. CASE Pause(w)
  BY <1>3, <1>5, <1>9 DEF Pause
<1>10. CASE FinishNode(w) \/ ReturnDecision(w)
  BY <1>0, <1>16, <1>2, <1>10 DEF FinishNode, ReturnDecision, At, ActivePcs
<1>11. CASE Respond(w)
  BY <1>0, <1>2, <1>3, <1>11 DEF Respond, At, ActivePcs
<1>12. CASE ExecuteApproval(w) \/ ExecuteRejection(w) \/ RecordRefundReview(w) \/ SkipExecution(w)
  BY <1>2, <1>12 DEF ExecuteApproval, ExecuteRejection, RecordRefundReview, SkipExecution, ActivePcs
<1>13. CASE PauseAgain(w)
  BY <1>2, <1>5, <1>13 DEF PauseAgain, ActivePcs
<1>14. CASE ContinueGraph(w) \/ RecoverResult(w)
  BY <1>2, <1>14 DEF ContinueGraph, RecoverResult, ActivePcs
<1>15. QED
  BY <1>6, <1>7, <1>8, <1>9, <1>10, <1>11, <1>12, <1>13, <1>14 DEF Proceed, Execute

\* A call in progress goes on, or ends.
LEMMA DeskInvMove ==
  ASSUME TypeOK, DecisionCarried, GraphInv, DeskInv,
         NEW w \in Workers, Tools(w) \/ Proceed(w) \/ Fail(w)
  PROVE  DeskInv'
<1> DEFINE t == call[w].thread
           r == call[w].request
<1>1. /\ call[w].pc \in ActivePcs /\ t \in Threads /\ r \in Requests /\ ~At(w, "idle")
      /\ \A v \in Workers \ {w} : call'[v] = call[v]
      /\ call'[w] = Idle \/ (call'[w].thread = t /\ call'[w].request = r)
      /\ \A u \in Threads \ {t} : checkpoint'[u] = checkpoint[u]
      /\ checkpoint'[t].request = checkpoint[t].request
  BY MoveEffect DEF At, ActivePcs
<1>2. /\ call'[w] = Idle \/ call'[w].decision = call[w].decision
      /\ \A a \in Requests \ {r} : approval'[a] = approval[a]
      /\ \/ approval'[r] = approval[r]
         \/ SaveProposal(w)
         \/ /\ Resuming(w) /\ Executing(w) /\ call'[w].pc = "executed"
            /\ approval'[r].executed
            /\ approval'[r].status = approval[r].status
            /\ approval'[r].saved = approval[r].saved
            /\ approval'[r].thread = approval[r].thread
         \/ /\ SaveResult(w) /\ call'[w] = Idle
            /\ approval'[r].executed = approval[r].executed
            /\ approval'[r].status = approval[r].status
            /\ approval'[r].thread = approval[r].thread
  BY MoveWrites
<1>3. Resuming(w) \/ SaveResult(w) => call[w].decision # None
  BY DEF DecisionCarried, Resuming, SaveResult, At
<1>4. SaveProposal(w) => /\ approval[r].status = "none"
                         /\ approval'[r].status = "pending" /\ ~approval'[r].executed
                         /\ approval'[r].thread = t
  BY SaveProposalEffect
<1>5. \A v \in Workers : call[v].decision # None =>
        /\ ~At(v, "idle") /\ call[v].request \in Requests
        /\ approval[call[v].request].status # "none"
  BY Manager DEF Decisions
<1>6. \A v \in Workers \ {w} : call[v].decision # None /\ call[w].decision # None => call[v].request # r
  BY OneManager DEF DeskInv
<1>7. OffersOnly'
  <2> SUFFICES ASSUME NEW v \in Workers, call'[v].pc = "proposed" PROVE Offered(call'[v].proposal)
    BY DEF OffersOnly, At, Offered
  <2>1. CASE v # w
    BY <1>1, <2>1 DEF DeskInv, OffersOnly, At
  <2>2. CASE v = w /\ Tools(w)
    <3>1. CASE UNCHANGED call
      BY <2>2, <3>1 DEF DeskInv, OffersOnly, At
    <3>2. ASSUME NEW q \in Quotes, NEW p \in Percents, ProposeDiscount(w, q, p)
          PROVE  Offered(call'[w].proposal)
      <4>1. call'[w].proposal = [quote |-> q, percent |-> p,
                                 previous |-> quote[q].status, price |-> quote[q].discount]
        BY <1>1, <3>2, BusyCall DEF ProposeDiscount, TypeOK
      <4>2. QED
        BY <3>2, <4>1 DEF Offered, ProposeDiscount
    <3>3. CASE ProposeRefund(w)
      <4>1. call'[w].proposal = NoQuoteProposal
        BY <1>1, <3>3, BusyCall DEF ProposeRefund, TypeOK
      <4>2. QED
        BY <2>2, <4>1 DEF Offered
    <3>4. QED
      BY <2>2, <3>1, <3>2, <3>3 DEF Tools, CreateQuote, ConvertQuote, ApplyDiscount
  <2>3. CASE v = w /\ (Proceed(w) \/ Fail(w))
    <3>1. \/ Exit(w)
          \/ \E pc \in ActivePcs \ {"proposed"} : Goto(w, pc)
      BY <2>3 DEF Proceed, Execute, Fail, SaveProposal, RefuseStaleProposal, Pause, FinishNode,
         Respond, ExecuteApproval, ExecuteRejection, RecordRefundReview, SkipExecution,
         RefuseExecution, ReturnDecision, PauseAgain, ContinueGraph, RecoverResult,
         RefuseCheckpoint, SaveResult, ActivePcs
    <3>2. call'[w].pc # "proposed"
      BY <1>1, <3>1, BusyCall DEF Exit, Goto, Idle, TypeOK
    <3>3. QED
      BY <2>3, <3>2
  <2>4. QED
    BY <2>1, <2>2, <2>3
<1>8. ToldOnce'
  <2> SUFFICES ASSUME NEW v \in Workers, call'[v].decision # None
               PROVE  /\ approval'[call'[v].request].saved = None
                      /\ approval'[call'[v].request].thread = call'[v].thread
    BY DEF ToldOnce
  <2>1. /\ call[v].decision # None
        /\ call'[v].request = call[v].request /\ call'[v].thread = call[v].thread
    BY <1>1, <1>2 DEF Idle
  <2>2. call[v].request \in Requests /\ approval[call[v].request].status # "none"
    BY <1>5, <2>1
  <2>3. /\ approval[call[v].request].saved = None
        /\ approval[call[v].request].thread = call[v].thread
    BY <2>1 DEF DeskInv, ToldOnce
  <2>4. CASE call[v].request # r
    BY <1>2, <2>1, <2>2, <2>3, <2>4
  <2>5. CASE call[v].request = r
    <3>1. ~SaveProposal(w)
      BY <1>4, <2>2, <2>5
    <3>2. ~(SaveResult(w) /\ call'[w] = Idle)
      BY <1>3, <1>6, <2>1, <2>5 DEF Idle
    <3>3. QED
      BY <1>2, <2>1, <2>3, <2>5, <3>1, <3>2
  <2>6. QED
    BY <2>4, <2>5
<1>9. \A a \in Requests : approval[a].executed => approval'[a].executed
  BY MoveRows
<1>10. /\ checkpoint[t] \in Checkpoints /\ checkpoint'[t].request = checkpoint[t].request
       /\ \A a \in Requests : approval[a].executed \in BOOLEAN
  BY <1>1, ExecutedType DEF TypeOK
<1>11. Progress'
  <2> SUFFICES ASSUME NEW v \in Workers
               PROVE  /\ call'[v].decision # None /\ call'[v].pc \in {"respond", "saveDone"} =>
                           approval'[call'[v].request].executed
                      /\ call'[v].pc = "savePaused" => ~approval'[call'[v].request].executed
    BY DEF Progress
  <2>1. CASE v # w
    <3>1. call'[v] = call[v]
      BY <1>1, <2>1
    <3>2. call[v].decision # None /\ call[v].pc \in {"respond", "saveDone"} =>
            approval'[call[v].request].executed
      BY <1>5, <1>9 DEF DeskInv, Progress
    <3>3. ASSUME call[v].pc = "savePaused" PROVE ~approval'[call[v].request].executed
      <4>1. call[v].decision # None /\ ~approval[call[v].request].executed
        BY <3>3 DEF DecisionCarried, DeskInv, Progress
      <4>2. call[v].request \in Requests /\ approval[call[v].request].status # "none"
        BY <1>5, <4>1
      <4>3. approval'[call[v].request] = approval[call[v].request]
        <5>1. CASE call[v].request # r
          BY <1>2, <4>2, <5>1
        <5>2. CASE call[v].request = r
          BY <1>2, <1>3, <1>4, <1>6, <2>1, <4>1, <4>2, <5>2
        <5>3. QED
          BY <5>1, <5>2
      <4>4. QED
        BY <4>1, <4>3
    <3>4. QED
      BY <3>1, <3>2, <3>3
  <2>2. ASSUME v = w, call'[w] # Idle, call'[w].pc \in {"respond", "saveDone", "savePaused"},
               call[w].decision # None
        PROVE  /\ call'[w].pc \in {"respond", "saveDone"} => approval[r].executed
               /\ call'[w].pc = "savePaused" => ~approval[r].executed
    <3>1. /\ approval[r].status # "none" /\ approval[r].thread = t
          /\ At(w, "executed") => approval[r].executed
          /\ At(w, "respond") => approval[r].executed
          /\ ~At(w, "node")
      BY <1>5, <2>2 DEF DeskInv, ToldOnce, Progress, GraphInv, OnRow, At
    <3>2. checkpoint[t].request = r =>
            /\ checkpoint[t].next # "node" => approval[r].executed
            /\ approval[r].executed /\ checkpoint[t].next = "node" => checkpoint[t].paused
      BY <1>1, <3>1 DEF DeskInv, CheckpointTells
    <3>3. QED
      BY <2>2, <3>1, <3>2, MoveFlow DEF At
  <2>3. CASE v = w
    <3>1. ASSUME call'[w].pc \in {"respond", "saveDone", "savePaused"}
          PROVE  /\ call'[w] # Idle /\ call'[w].request = r /\ call'[w].decision = call[w].decision
                 /\ UNCHANGED approval
                 /\ call'[w].pc = "savePaused" => call[w].decision # None
      BY <1>1, <1>2, <3>1, MoveFlow DEF Idle, DecisionCarried, At
    <3>2. QED
      BY <2>2, <2>3, <3>1
  <2>4. QED
    BY <2>1, <2>3
<1>12. CheckpointTells'
  <2> SUFFICES ASSUME NEW a \in Requests, approval'[a].status # "none",
                      checkpoint'[approval'[a].thread].request = a
               PROVE  LET cp == checkpoint'[approval'[a].thread]
                      IN /\ cp.next # "node" => approval'[a].executed
                         /\ approval'[a].executed /\ cp.next = "node" => cp.paused
    BY DEF CheckpointTells
  <2>1. CASE SaveProposal(w) /\ a = r
    <3>1. checkpoint[t].next = "node" /\ UNCHANGED checkpoint
      BY <2>1 DEF SaveProposal, GraphInv, OnCheckpoint, At
    <3>2. QED
      BY <1>4, <2>1, <3>1
  <2>2. CASE ~(SaveProposal(w) /\ a = r)
    <3> DEFINE s == approval[a].thread
    <3>1. /\ approval[a].status # "none" /\ approval'[a].thread = s /\ s \in Threads
          /\ \/ approval'[a].executed = approval[a].executed
             \/ /\ a = r /\ Resuming(w) /\ s = t /\ approval'[a].executed
                /\ UNCHANGED checkpoint
      <4>1. /\ approval[a].status # "none" /\ approval'[a].thread = s
            /\ \/ approval'[a].executed = approval[a].executed
               \/ a = r /\ Resuming(w) /\ Executing(w) /\ approval'[a].executed
        BY <1>2, <2>2
      <4>2. Resuming(w) => approval[r].thread = t
        BY <1>3 DEF DeskInv, ToldOnce
      <4>3. s \in Threads
        BY <4>1, SavedRow
      <4>4. approval'[a].executed # approval[a].executed => UNCHANGED checkpoint
        BY MoveFlow
      <4>5. QED
        BY <4>1, <4>2, <4>3, <4>4
    <3>2. checkpoint[s].request = a
      BY <1>1, <3>1
    <3>3. /\ checkpoint[s].next # "node" => approval[a].executed
          /\ approval[a].executed /\ checkpoint[s].next = "node" => checkpoint[s].paused
      BY <3>1, <3>2 DEF DeskInv, CheckpointTells
    <3>4. CASE a = r /\ Resuming(w) /\ s = t /\ approval'[a].executed /\ UNCHANGED checkpoint
      BY <3>1, <3>4 DEF Resuming
    <3>5. CASE approval'[a].executed = approval[a].executed /\ checkpoint'[s] = checkpoint[s]
      BY <3>1, <3>3, <3>5
    <3>6. CASE approval'[a].executed = approval[a].executed /\ s = t /\ checkpoint'[s] # checkpoint[s]
      <4>1. \/ checkpoint'[t].paused /\ checkpoint'[t].next = checkpoint[t].next
            \/ /\ call[w].pc \in {"node", "executed", "respond"}
               /\ checkpoint'[t].next \in {"none", "respond"}
        BY <3>6, MoveFlow
      <4>2. CASE /\ call[w].pc \in {"node", "executed", "respond"}
                /\ checkpoint'[t].next \in {"none", "respond"}
        <5>1. checkpoint[t].request = r /\ (At(w, "respond") => checkpoint[t].next = "respond")
          BY <4>2 DEF GraphInv, OnCheckpoint, At
        <5>2. a = r
          BY <3>2, <3>6, <5>1
        <5>3. approval[a].executed
          BY <3>1, <3>3, <3>6, <4>2, <5>1, <5>2 DEF GraphInv, OnRow, At
        <5>4. checkpoint'[t].next # "node"
          BY <4>2
        <5>5. QED
          BY <3>1, <3>6, <5>3, <5>4
      <4>3. CASE checkpoint'[t].paused /\ checkpoint'[t].next = checkpoint[t].next
        BY <3>1, <3>3, <3>6, <4>3
      <4>4. QED
        BY <4>1, <4>2, <4>3
    <3>7. QED
      BY <1>1, <3>1, <3>4, <3>5, <3>6
  <2>3. QED
    BY <2>1, <2>2
<1>13. QED
  BY <1>7, <1>8, <1>11, <1>12 DEF DeskInv

\* A chat call starts with a request that has no approval, and without a decision.
LEMMA DeskInvStart ==
  ASSUME TypeOK, GraphInv, DeskInv, NEW w \in Workers, NEW r \in Requests, NEW t \in Threads,
         StartChat(w, r, t)
  PROVE  DeskInv'
<1>1. /\ UNCHANGED approval /\ approval[r].status = "none"
      /\ \A v \in Workers \ {w} : call'[v] = call[v]
      /\ call'[w].pc = "node" /\ call'[w].decision = None
      /\ \A s \in Threads \ {t} : checkpoint'[s] = checkpoint[s]
      /\ checkpoint'[t].request = r
  BY DEF StartChat, TypeOK, GraphInv, OneThread
<1>2. OffersOnly'
  BY <1>1 DEF DeskInv, OffersOnly, At, Offered
<1>3. ToldOnce'
  BY <1>1 DEF DeskInv, ToldOnce
<1>4. Progress'
  BY <1>1 DEF DeskInv, Progress
<1>5. CheckpointTells'
  <2> SUFFICES ASSUME NEW a \in Requests, approval[a].status # "none",
                      checkpoint'[approval[a].thread].request = a
               PROVE  LET cp == checkpoint'[approval[a].thread]
                      IN /\ cp.next # "node" => approval[a].executed
                         /\ approval[a].executed /\ cp.next = "node" => cp.paused
    BY <1>1 DEF CheckpointTells
  <2>1. a # r /\ approval[a].thread \in Threads
    BY <1>1, SavedRow
  <2>2. checkpoint'[approval[a].thread] = checkpoint[approval[a].thread]
    BY <1>1, <2>1
  <2>3. QED
    BY <2>2 DEF DeskInv, CheckpointTells
<1>6. QED
  BY <1>2, <1>3, <1>4, <1>5 DEF DeskInv

\* A manager's call takes an unanswered approval, which no other call has.
LEMMA DeskInvDecide ==
  ASSUME TypeOK, DecisionCarried, GraphInv, DeskInv,
         NEW w \in Workers, NEW a \in Requests, NEW d \in Decisions, Decide(w, a, d)
  PROVE  DeskInv'
<1>1. /\ UNCHANGED checkpoint
      /\ approval[a].saved = None /\ approval[a].status # "none"
      /\ \A v \in Workers : call[v].thread # approval[a].thread
      /\ \A v \in Workers \ {w} : call'[v] = call[v]
      /\ call'[w].pc = "resume" /\ call'[w].thread = approval[a].thread
      /\ call'[w].request = a
  BY DEF Decide, Accepts, Unanswered, Locked, TypeOK, Decisions
<1>2. \A b \in Requests :
        /\ approval'[b].executed = approval[b].executed
        /\ approval'[b].thread = approval[b].thread
        /\ approval'[b].saved = approval[b].saved
        /\ approval[b].status = "none" <=> approval'[b].status = "none"
  <2>1. approval' = [approval EXCEPT ![a].status = d]
    BY DEF Decide
  <2>2. approval[a] \in ApprovalRows
    BY DEF TypeOK
  <2>3. /\ approval'[a].executed = approval[a].executed
        /\ approval'[a].thread = approval[a].thread
        /\ approval'[a].saved = approval[a].saved
        /\ approval'[a].status = d
        /\ \A b \in Requests \ {a} : approval'[b] = approval[b]
    BY <2>1, <2>2 DEF TypeOK, ApprovalRows, NoApproval
  <2>4. QED
    BY <1>1, <2>3 DEF Decisions
<1>3. \A v \in Workers : call[v].decision # None => call[v].request \in Requests
  BY Manager
<1>4. OffersOnly'
  BY <1>1 DEF DeskInv, OffersOnly, At, Offered
<1>5. ToldOnce'
  <2> SUFFICES ASSUME NEW v \in Workers, call'[v].decision # None
               PROVE  /\ approval'[call'[v].request].saved = None
                      /\ approval'[call'[v].request].thread = call'[v].thread
    BY DEF ToldOnce
  <2>1. CASE v = w
    BY <1>1, <1>2, <2>1
  <2>2. CASE v # w
    BY <1>1, <1>2, <1>3, <2>2 DEF DeskInv, ToldOnce
  <2>3. QED
    BY <2>1, <2>2
<1>6. Progress'
  <2> SUFFICES ASSUME NEW v \in Workers
               PROVE  /\ call'[v].decision # None /\ call'[v].pc \in {"respond", "saveDone"} =>
                           approval'[call'[v].request].executed
                      /\ call'[v].pc = "savePaused" => ~approval'[call'[v].request].executed
    BY DEF Progress
  <2>1. CASE v = w
    BY <1>1, <2>1
  <2>2. CASE v # w
    <3>1. call[v].pc = "savePaused" => call[v].decision # None
      BY DEF DecisionCarried
    <3>2. QED
      BY <1>1, <1>2, <1>3, <2>2, <3>1 DEF DeskInv, Progress
  <2>3. QED
    BY <2>1, <2>2
<1>7. CheckpointTells'
  BY <1>1, <1>2 DEF DeskInv, CheckpointTells
<1>8. QED
  BY <1>4, <1>5, <1>6, <1>7 DEF DeskInv

\* So what a call and a checkpoint tell is true in every reachable state.
LEMMA DeskInvariant == Spec => []DeskInv
<1>1. Init => DeskInv
  BY DEF Init, DeskInv, OffersOnly, ToldOnce, Progress, CheckpointTells, At, Idle, NoApproval
<1>2. ASSUME TypeOK, DecisionCarried, GraphInv, DeskInv, [Next]_vars PROVE DeskInv'
  <2>1. ASSUME NEW w \in Workers, NEW r \in Requests, NEW t \in Threads, StartChat(w, r, t)
        PROVE  DeskInv'
    BY <1>2, <2>1, DeskInvStart
  <2>2. ASSUME NEW w \in Workers, NEW a \in Requests, NEW d \in Decisions, Decide(w, a, d)
        PROVE  DeskInv'
    BY <1>2, <2>2, DeskInvDecide
  <2>3. ASSUME NEW w \in Workers, Tools(w) \/ Proceed(w) \/ Fail(w) PROVE DeskInv'
    BY <1>2, <2>3, DeskInvMove
  <2>4. CASE Restart
    <3>1. /\ UNCHANGED approval
          /\ \A w \in Workers : call'[w] = Idle
          /\ \A t \in Threads : checkpoint'[t] = NoCheckpoint
      BY <2>4 DEF Restart
    <3>2. \A a \in Requests : approval[a].status # "none" => approval[a].thread \in Threads
      BY <1>2, SavedRow
    <3>3. CheckpointTells'
      BY <3>1, <3>2, ParameterTypes DEF CheckpointTells, NoCheckpoint
    <3>4. OffersOnly' /\ ToldOnce' /\ Progress'
      BY <3>1 DEF OffersOnly, ToldOnce, Progress, At, Idle
    <3>5. QED
      BY <3>3, <3>4 DEF DeskInv
  <2>5. CASE UNCHANGED <<approval, checkpoint, call>>
    BY <1>2, <2>5 DEF DeskInv, OffersOnly, ToldOnce, Progress, CheckpointTells, At, Offered
  <2>6. QED
    BY <1>2, <2>1, <2>2, <2>3, <2>4, <2>5 DEF Next, Expire, vars
<1>3. QED
  BY <1>1, <1>2, Base, GraphInvariant, PTL DEF Spec

-----------------------------------------------------------------------------
(* What a saved pause survives: it takes the graph's invariant, and what a *)
(* call and a checkpoint tell about the execution.                         *)

\* A decision, persisted or repeated, leaves the pause and the answers alone.
LEMMA DecideKeeps ==
  ASSUME TypeOK, NEW w \in Workers, NEW b \in Requests, NEW d \in Decisions,
         Decide(w, b, d), NEW a \in Requests, Waiting(a)
  PROVE  Waiting(a)'
<1>1. /\ UNCHANGED checkpoint
      /\ \A o \in Requests : approval'[o].executed = approval[o].executed
                           /\ approval'[o].thread = approval[o].thread
                           /\ approval'[o].saved = approval[o].saved
      /\ approval'[a].status # "none"
  BY DEF Decide, Accepts, TypeOK, ApprovalRows, NoApproval, Waiting, Live, Decisions
<1>2. \A v \in Workers : call'[v].pc = "savePaused" => call[v].pc = "savePaused"
                                                     /\ call'[v].request = call[v].request
  BY DEF Decide, TypeOK
<1>3. QED
  BY <1>1, <1>2 DEF Waiting, Live, Unanswered, At

\* A new chat is refused where an approval waits, and its request id is new.
LEMMA StartKeeps ==
  ASSUME TypeOK, NEW w \in Workers, NEW r \in Requests, NEW t \in Threads,
         StartChat(w, r, t), NEW a \in Requests, Waiting(a)
  PROVE  Waiting(a)'
<1>1. approval[a].thread \in Threads /\ approval[a].thread # t
  BY SavedRow DEF Waiting, Live, StartChat, Unfinished
<1>2. checkpoint'[approval[a].thread] = checkpoint[approval[a].thread] /\ UNCHANGED approval
  BY <1>1 DEF StartChat, TypeOK
<1>3. \A v \in Workers : call'[v].pc = "savePaused" => call'[v] = call[v]
  BY DEF StartChat, TypeOK
<1>4. QED
  BY <1>2, <1>3 DEF Waiting, Live, Unanswered, At

\* A call in progress: if it is about the waiting approval it can only execute
\* it or leave it; about another, it works in another conversation.
LEMMA MoveKeeps ==
  ASSUME TypeOK, DecisionCarried, GraphInv, DeskInv, Durable,
         NEW w \in Workers, Tools(w) \/ Proceed(w) \/ Fail(w),
         NEW a \in Requests, Waiting(a), ~approval'[a].executed
  PROVE  Waiting(a)'
<1> DEFINE r == call[w].request
           t == call[w].thread
           s == approval[a].thread
<1>1. /\ call[w].pc \in ActivePcs /\ t \in Threads /\ r \in Requests
      /\ \A v \in Workers \ {w} : call'[v] = call[v]
      /\ call'[w] = Idle \/ (call'[w].thread = t /\ call'[w].request = r)
      /\ \A u \in Threads \ {t} : checkpoint'[u] = checkpoint[u]
      /\ checkpoint'[t].request = checkpoint[t].request
  BY MoveEffect
<1>2. /\ s \in Threads /\ approval[a].status # "none" /\ ~approval[a].executed
      /\ approval[a].saved = None
      /\ checkpoint[s].request = a /\ checkpoint[s].next = "node" /\ checkpoint[s].paused
      /\ \A v \in Workers : call[v].pc = "savePaused" => call[v].request # a
  BY SavedRow DEF Waiting, Live, Unanswered, At
<1>3. /\ approval'[a].status # "none" /\ approval'[a].thread = s /\ approval'[a].saved = None
      /\ ~approval'[a].executed
  <2>1. CASE a # r
    BY <1>1, <1>2, <2>1, MoveWrites
  <2>2. CASE a = r /\ approval'[r] = approval[r]
    BY <1>2, <2>2
  <2>3. CASE a = r /\ SaveProposal(w)
    BY <1>2, <2>3 DEF SaveProposal
  <2>4. CASE a = r /\ SaveResult(w)
    <3>1. call[w].decision # None /\ call[w].pc = "saveDone"
      BY <1>2, <2>4 DEF SaveResult, DecisionCarried
    <3>2. QED
      BY <1>2, <2>4, <3>1 DEF DeskInv, Progress
  <2>5. QED
    BY <1>1, <2>1, <2>2, <2>3, <2>4, MoveWrites
<1>4. checkpoint'[s].request = a /\ checkpoint'[s].next = "node" /\ checkpoint'[s].paused
  <2>1. CASE s # t
    BY <1>1, <1>2, <2>1
  <2>2. CASE s = t /\ UNCHANGED checkpoint
    BY <1>2, <2>2
  <2>3. CASE s = t /\ checkpoint'[t].paused /\ checkpoint'[t].next = checkpoint[t].next
    BY <1>1, <1>2, <2>3
  <2>4. CASE s = t /\ call[w].pc \in {"node", "executed", "respond"}
    <3>1. r = a
      BY <1>2, <2>4 DEF GraphInv, OnCheckpoint
    <3>2. QED
      BY <1>2, <2>4, <3>1 DEF GraphInv, OnCheckpoint, OnRow
  <2>5. QED
    BY <2>1, <2>2, <2>3, <2>4, MoveFlow
<1>5. \A v \in Workers : call'[v].pc = "savePaused" => call'[v].request # a
  <2>1. CASE call'[w].pc = "savePaused"
    <3>1. call[w].pc = "resume" /\ ~checkpoint[t].paused /\ checkpoint[t].request = r
      BY <2>1, MoveFlow DEF At
    <3>2. r # a
      <4>1. call[w].decision # None
        BY <3>1, BusyCall DEF DecisionCarried, At
      <4>2. approval[r].thread = t
        BY <4>1 DEF DeskInv, ToldOnce
      <4>3. QED
        BY <1>2, <3>1, <4>2
    <3>3. call'[w].request = r
      BY <1>1, <2>1 DEF Idle
    <3>4. QED
      BY <1>1, <1>2, <3>2, <3>3
  <2>2. CASE call'[w].pc # "savePaused"
    BY <1>1, <1>2, <2>2
  <2>3. QED
    BY <2>1, <2>2
<1>6. QED
  BY <1>3, <1>4, <1>5 DEF Waiting, Live, Unanswered, At

\* With durable checkpoints an approval whose pause was written waits until its
\* decision is executed, whatever chats, decisions, failures and retries come.
THEOREM PauseSurvives == Spec => PauseIsKept
<1>1. ASSUME TypeOK, DecisionCarried, GraphInv, DeskInv, [Next]_vars, Durable,
             NEW a \in Requests, Waiting(a), ~approval'[a].executed
      PROVE  Waiting(a)'
  <2>1. ASSUME NEW w \in Workers, NEW r \in Requests, NEW t \in Threads, StartChat(w, r, t)
        PROVE  Waiting(a)'
    BY <1>1, <2>1, StartKeeps
  <2>2. ASSUME NEW w \in Workers, NEW b \in Requests, NEW d \in Decisions, Decide(w, b, d)
        PROVE  Waiting(a)'
    BY <1>1, <2>2, DecideKeeps
  <2>3. ASSUME NEW w \in Workers, Tools(w) \/ Proceed(w) \/ Fail(w) PROVE Waiting(a)'
    BY <1>1, <2>3, MoveKeeps
  <2>4. CASE UNCHANGED <<approval, checkpoint, call>>
    BY <1>1, <2>4 DEF Waiting, Live, Unanswered, At
  <2>5. QED
    BY <1>1, <2>1, <2>2, <2>3, <2>4 DEF Next, Restart, Expire, vars
<1>2. TypeOK /\ DecisionCarried /\ GraphInv /\ DeskInv /\ [Next]_vars
        => [Durable => \A a \in Requests :
              Waiting(a) => Waiting(a)' \/ approval'[a].executed]_vars
  BY <1>1
<1>3. QED
  BY <1>2, Base, GraphInvariant, DeskInvariant, PTL DEF Spec, PauseIsKept

\* What a tool does to a quote, or the clock, the desk does.
LEMMA ToolRefines ==
  ASSUME NEW q \in Quotes,
         \/ \E w \in Workers : CreateQuote(w, q) \/ ConvertQuote(w, q)
         \/ \E w \in Workers, p \in Percents : ApplyDiscount(w, q, p)
         \/ Expire(q)
  PROVE  Promise!Next
<1>1. ASSUME NEW w \in Workers, CreateQuote(w, q) PROVE Promise!Next
  BY <1>1 DEF CreateQuote, Promise!Create, Promise!Next
<1>2. ASSUME NEW w \in Workers, ConvertQuote(w, q) PROVE Promise!Next
  BY <1>2 DEF ConvertQuote, Editable, Promise!Convert, Promise!Editable, Promise!Next
<1>3. ASSUME NEW w \in Workers, NEW p \in Percents, ApplyDiscount(w, q, p) PROVE Promise!Next
  <2>1. Promise!Discount(q, p)
    BY <1>3 DEF ApplyDiscount, Editable, WithinAuthority, Cap, Promise!Discount, Promise!Editable,
          Promise!WithinAuthority, Promise!Cap
  <2>2. QED
    BY <2>1 DEF Promise!Next
<1>4. CASE Expire(q)
  BY <1>4 DEF Expire, Promise!Expire, Promise!Next
<1>5. QED
  BY <1>1, <1>2, <1>3, <1>4

\* A proposal that is saved is one that the desk may take: the quote is as the
\* proposal says, and the percentage was beyond the limit when it was offered.
LEMMA ProposalRefines ==
  ASSUME TypeOK, DeskInv, NEW w \in Workers, SaveProposal(w)
  PROVE  Promise!Next
<1> DEFINE a == call[w].request
           t == call[w].thread
           proposal == call[w].proposal
           q == proposal.quote
<1>1. /\ a \in Requests /\ t \in Threads /\ proposal \in Proposals /\ Offered(proposal)
  BY ActiveCall DEF SaveProposal, At, ActivePcs, DeskInv, OffersOnly
<1>2. Promise!Pending(a, t, proposal)
  BY DEF SaveProposal, Promise!Pending
<1>3. CASE proposal = NoQuoteProposal
  <2>1. UNCHANGED quote
    BY <1>3 DEF SaveProposal, NoQuoteProposal
  <2>2. Promise!ProposeRefund(a, t)
    BY <1>2, <1>3, <2>1 DEF Promise!ProposeRefund, Promise!NoQuoteProposal, NoQuoteProposal
  <2>3. QED
    BY <1>1, <2>2 DEF Promise!Next
<1>4. CASE proposal # NoQuoteProposal
  <2>1. /\ q \in Quotes /\ proposal.percent \in Percents
        /\ proposal.percent <= Cap /\ ~WithinAuthority(q, proposal.percent)
    BY <1>1, <1>4 DEF Offered
  <2>2. q # None
    BY <2>1, ParameterTypes
  <2>3. /\ Editable(quote[q]) /\ quote[q].status = proposal.previous
        /\ quote[q].discount = proposal.price
        /\ quote' = [quote EXCEPT ![q] = [@ EXCEPT !.status = "pending_approval", !.approval = a]]
    BY <2>2 DEF SaveProposal, Fresh
  <2>4. proposal = [quote |-> q, percent |-> proposal.percent,
                    previous |-> quote[q].status, price |-> quote[q].discount]
    <3>1. proposal = [quote |-> proposal.quote, percent |-> proposal.percent,
                      previous |-> proposal.previous, price |-> proposal.price]
      BY <1>1 DEF Proposals
    <3>2. QED
      BY <2>3, <3>1
  <2>5. Promise!Pending(a, t, [quote |-> q, percent |-> proposal.percent,
                               previous |-> quote[q].status, price |-> quote[q].discount])
    BY <1>2, <2>4
  <2>6. Promise!ProposeDiscount(a, t, q, proposal.percent)
    <3> HIDE DEF q, proposal, a, t
    <3> QED
      BY <2>1, <2>3, <2>5 DEF Promise!ProposeDiscount, Editable, WithinAuthority, Cap,
         Promise!Editable, Promise!WithinAuthority, Promise!Cap
  <2>7. QED
    BY <1>1, <2>1, <2>6 DEF Promise!Next
<1>5. QED
  BY <1>3, <1>4

\* What is executed is due: decided, not executed and not answered.
LEMMA ExecutingIsDue ==
  ASSUME TypeOK, DecisionCarried, DeskInv, NEW w \in Workers, Executing(w)
  PROVE  /\ call[w].request \in Requests /\ call[w].decision \in Decisions
         /\ Promise!Due(call[w].request, call[w].decision)
<1>1. call[w].decision # None
  BY DEF Executing, Resuming, At, DecisionCarried
<1>2. call[w].request \in Requests /\ call[w].decision \in Decisions
  BY <1>1, Manager
<1>3. QED
  BY <1>1, <1>2 DEF DeskInv, ToldOnce, Executing, Persisted, Promise!Due

\* A decision is executed as the desk executes it.
LEMMA ExecutionRefines ==
  ASSUME TypeOK, DecisionCarried, ApprovalInv, DeskInv, NEW w \in Workers,
         ExecuteApproval(w) \/ ExecuteRejection(w) \/ RecordRefundReview(w)
  PROVE  Promise!Next
<1> DEFINE a == call[w].request
           proposal == approval[a].proposal
           q == proposal.quote
<1>1. /\ a \in Requests /\ call[w].decision \in Decisions
      /\ Promise!Due(a, call[w].decision) /\ Promise!Executed(a)
  BY ExecutingIsDue DEF ExecuteApproval, ExecuteRejection, RecordRefundReview, Executed,
     Promise!Executed
<1>2. CASE RecordRefundReview(w)
  <2>1. Promise!Review(a)
    BY <1>1, <1>2 DEF RecordRefundReview, Promise!Review, Promise!Decisions, Decisions
  <2>2. QED
    BY <1>1, <2>1 DEF Promise!Next
<1>3. CASE ExecuteApproval(w) \/ ExecuteRejection(w)
  <2>1. /\ q # None /\ quote[q].status = "pending_approval" /\ quote[q].approval = a
        /\ q \in Quotes
    BY <1>1, <1>3, ProposalFields DEF ExecuteApproval, ExecuteRejection, Held, Proposals
  <2>2. quote[q].discount = proposal.price
    BY <1>1, <2>1 DEF Promise!Due, Decisions, ApprovalInv, HeldByItsProposal, Live
  <2>3. Promise!Held(a)
    BY <2>1, <2>2 DEF Promise!Held
  <2>4. CASE ExecuteApproval(w)
    <3>1. ~quote[q].expired
      <4>1. Restored(a) = [quote[q] EXCEPT !.status = proposal.previous] /\ ~Restored(a).expired
        BY <2>4 DEF ExecuteApproval, Restored, Editable
      <4>2. quote[q] \in QuoteRows
        BY <2>1 DEF TypeOK
      <4>3. QED
        BY <4>1, <4>2 DEF QuoteRows
    <3>2. Promise!Approve(a)
      BY <1>1, <2>3, <2>4, <3>1 DEF ExecuteApproval, Promise!Approve
    <3>3. QED
      BY <1>1, <3>2 DEF Promise!Next
  <2>5. CASE ExecuteRejection(w)
    <3>1. quote' = [quote EXCEPT ![q] = [@ EXCEPT !.status = proposal.previous, !.approval = None]]
      BY <2>5 DEF ExecuteRejection, Restored
    <3>2. Promise!Reject(a)
      BY <1>1, <2>3, <2>5, <3>1 DEF ExecuteRejection, Promise!Reject
    <3>3. QED
      BY <1>1, <3>2 DEF Promise!Next
  <2>6. QED
    BY <1>3, <2>4, <2>5
<1>4. QED
  BY <1>2, <1>3

\* The result that is saved says whether the decision was executed.
LEMMA AnswerRefines ==
  ASSUME TypeOK, DecisionCarried, DeskInv, NEW w \in Workers, SaveResult(w)
  PROVE  Promise!Next
<1> DEFINE a == call[w].request
<1>1. call[w].pc \in {"savePaused", "saveDone"} /\ call[w].decision # None
  BY DEF SaveResult, DecisionCarried
<1>2. a \in Requests /\ approval[a].status \in Decisions /\ approval[a].saved = None
  BY <1>1, Manager DEF DeskInv, ToldOnce
<1>3. call[w].pc = "savePaused" <=> ~approval[a].executed
  BY <1>1 DEF DeskInv, Progress
<1>4. (IF call[w].pc = "savePaused" THEN "paused" ELSE "done")
        = (IF approval[a].executed THEN "done" ELSE "paused")
  BY <1>3
<1>5. Promise!Answer(a)
  BY <1>2, <1>4 DEF SaveResult, Promise!Answer, Promise!Decisions, Decisions
<1>6. QED
  BY <1>2, <1>5 DEF Promise!Next

\* Each step of the program is a step of the desk, or changes neither table.
LEMMA StepRefines ==
  ASSUME TypeOK, DecisionCarried, ApprovalInv, DeskInv, [Next]_vars
  PROVE  [Promise!Next]_(Promise!vars)
<1>1. ASSUME NEW w \in Workers, NEW a \in Requests, NEW d \in Decisions, Decide(w, a, d)
      PROVE  Promise!Next
  <2>1. Promise!Decide(a, d)
    BY <1>1 DEF Decide, Accepts, Unanswered, Promise!Decide
  <2>2. QED
    BY <2>1 DEF Promise!Next, Promise!Decisions, Decisions
<1>2. CASE UNCHANGED <<quote, approval>>
  BY <1>2 DEF Promise!vars
<1>3. QED
  BY <1>1, <1>2, DataStep, ToolRefines, ProposalRefines, ExecutionRefines, AnswerRefines

\* For every number of calls, quotes and conversations, with every failure,
\* restart and retry between them, the two tables change only as the desk says.
THEOREM Refinement == Spec => Contract
<1>1. Init => Promise!Init
  BY DEF Init, Promise!Init, NoQuote, NoApproval, NoQuoteProposal, Promise!NoQuote,
     Promise!NoApproval, Promise!NoQuoteProposal
<1>2. TypeOK /\ DecisionCarried /\ ApprovalInv /\ DeskInv /\ [Next]_vars
        => [Promise!Next]_(Promise!vars)
  BY StepRefines
<1>3. QED
  BY <1>1, <1>2, Base, ApprovalInvariant, DeskInvariant, PTL DEF Spec, Contract, Promise!Spec
=============================================================================

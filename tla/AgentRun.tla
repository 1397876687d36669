------------------------------ MODULE AgentRun ------------------------------
(***************************************************************************)
(* One request from the chat to its answer: run_agent and resume_agent     *)
(* around the LangGraph graph, the loop in which the language model calls  *)
(* tools, and what is told about it: the answer, the agent_runs row and    *)
(* the audit_logs rows.                                                    *)
(*                                                                         *)
(* A tool commits in its own session, so what it did is final before its   *)
(* result is in any list; the model follows the distance between the two.  *)
(* What the language model says is arbitrary.  The calls of a request      *)
(* follow one another under the lock of its conversation.                  *)
(***************************************************************************)
EXTENDS Naturals

CONSTANTS
  Workflows,    \* the workflows the classification may choose
  Tools,        \* the tools the language model may name
  Inputs,       \* what the checks of the text see
  Rounds,       \* answers of the language model per node, 6 in the code
  MaxBatch,     \* bound on the tool calls in one answer
  MaxFailures,  \* bound on crashes, lost writes and stray exceptions
  None          \* Python None

\* What each node binds; "lookup" is any tool that only reads.
ToolsForInventory == {"lookup", "update_inventory", "fulfill_order", "update_order_status"}
ToolsForQuote == {"lookup", "create_quote", "apply_discount_to_quote", "convert_quote_to_order",
                  "update_order_status", "fulfill_order"}
ToolsForInvoice == {"lookup", "log_communication"}
ToolsForIssue == {"lookup", "log_communication"}
ToolsForCustomer == {"lookup", "log_communication"}
ToolsForFollowup == {"lookup", "log_communication", "create_followup_task"}

Offered == [inventory_check     |-> ToolsForInventory,
            create_quote        |-> ToolsForQuote,
            invoice_status      |-> ToolsForInvoice,
            issue_resolution    |-> ToolsForIssue,
            customer_management |-> ToolsForCustomer,
            follow_up           |-> ToolsForFollowup]

ALL_WORKFLOWS == DOMAIN Offered
ALL_TOOLS == UNION {Offered[f] : f \in ALL_WORKFLOWS}
Decisions == {"approved", "rejected"}

ASSUME ParameterTypes ==
  /\ Workflows \subseteq ALL_WORKFLOWS
  /\ Tools \subseteq ALL_TOOLS
  /\ Inputs \subseteq {"empty", "refund", "plain"}
  /\ Rounds \in Nat
  /\ MaxBatch \in Nat
  /\ MaxFailures \in Nat
  /\ None \notin Decisions \cup ALL_WORKFLOWS

VARIABLES
  pc,        \* where the call in progress is, "idle" when there is none
  resume,    \* the decision resume_agent carries, None in run_agent
  graph,     \* the checkpoint: the next node and the values of AgentState
  node,      \* the locals of the workflow node
  approval,  \* the approval_requests row
  result,    \* the dictionary the call answers with
  row,       \* status of the agent_runs row, "none" without one
  visits,    \* audit_logs rows of audit_node: node and outcome
  audited,   \* audit_logs rows of _record_run: tool results
  kept,      \* the turn is in the messages of the conversation
  done,      \* the effects committed: number of the call and tool
  calls,     \* tool calls made so far
  failures

vars == <<pc, resume, graph, node, approval, result, row, visits, audited, kept,
          done, calls, failures>>
local == <<resume, node>>
outcome == <<row, visits, audited, kept>>

Routing == {"parse_request", "classify_intent", "identify_entities", "select_workflow"}
Nodes == Routing \cup {"workflow", "formulate_response"}

Entry(c, t, ok) == [call |-> c, tool |-> t, ok |-> ok]
Entries == [call : Nat, tool : ALL_TOOLS \cup {"direct_response", "manager_approval"}, ok : BOOLEAN]
Said == Entry(0, "direct_response", TRUE)
Managed == Entry(0, "manager_approval", TRUE)
Reported(entries) == {<<e.call, e.tool>> : e \in entries}

\* The entity amount, followed only where it is read, in a refund review.
Amounts == {"missing", "unreadable", "small", "large"}

Checkpoint(next, paused, input, workflow, amount, results, error, decision) ==
  [next |-> next, paused |-> paused, input |-> input, workflow |-> workflow,
   amount |-> amount, results |-> results, error |-> error, decision |-> decision]

Result(kind, error, required, decision, results) ==
  [kind |-> kind, error |-> error, required |-> required, decision |-> decision,
   results |-> results]

\* kind is how the graph was left; "initial" while it runs, when the rest
\* is what would be told if it raised an exception.
Kinds == {"none", "initial", "ended", "paused", "raised"}

Approval(status, results, executed, saved, run) ==
  [status |-> status, results |-> results, executed |-> executed, saved |-> saved, run |-> run]

NoNode == [round |-> 0, left |-> 0, results |-> {}]
NoApproval == Approval("none", {}, FALSE, FALSE, FALSE)
Initial == Result("initial", FALSE, FALSE, None, {})

Init ==
  /\ pc = "idle" /\ resume = None
  /\ graph = Checkpoint("none", FALSE, "plain", None, "missing", {}, FALSE, None)
  /\ node = NoNode
  /\ approval = NoApproval
  /\ result = Result("none", FALSE, FALSE, None, {})
  /\ row = "none" /\ visits = {} /\ audited = {} /\ kept = FALSE
  /\ done = {} /\ calls = 0 /\ failures = 0

-----------------------------------------------------------------------------
(* record_audit_log swallows its failures, and audit_logs.run_id           *)
(* references agent_runs: without a run nothing is stored.                 *)
Faulty == failures < MaxFailures /\ failures' = failures + 1

Visited(n, how) ==
  \/ visits' = (IF row = "none" THEN visits ELSE visits \cup {<<n, how>>}) /\ UNCHANGED failures
  \/ UNCHANGED visits /\ Faulty

\* A node that is not the workflow's returns: its writes are checkpointed.
AtNode(n) == pc = "graph" /\ graph.next = n
Routed(n, next, workflow, amount, error) ==
  /\ AtNode(n)
  /\ graph' = Checkpoint(next, FALSE, graph.input, workflow, amount, graph.results, error, None)
  /\ Visited(n, "ok")
  /\ UNCHANGED <<pc, local, approval, result, row, audited, kept, done, calls>>

(* run_agent: the lock is free and the conversation is not paused.         *)
Chat(input) ==
  /\ pc = "idle" /\ result.kind = "none"
  /\ pc' = "begin"
  /\ result' = Initial
  /\ graph' = Checkpoint("none", FALSE, input, None, "missing", {}, FALSE, None)
  /\ UNCHANGED <<local, approval, outcome, done, calls, failures>>

\* _begin_run, and the checkpoint of the input that invoke writes.
Begin(input) ==
  /\ pc = "begin"
  /\ pc' = "graph"
  /\ graph' = Checkpoint("parse_request", FALSE, input, None, "missing", {}, FALSE, None)
  /\ \/ row' = "running" /\ UNCHANGED failures
     \/ UNCHANGED row /\ Faulty
  /\ UNCHANGED <<local, approval, result, visits, audited, kept, done, calls>>

ParseRequest == Routed("parse_request", "classify_intent", None, "missing", FALSE)

\* The model's word, or the keywords when it fails: any workflow.
ClassifyIntent(workflow) ==
  /\ graph.input = "empty" => workflow = "customer_management"
  /\ Routed("classify_intent", "identify_entities", workflow, "missing", graph.input = "empty")

RefundQuestion == graph.workflow = "issue_resolution" /\ graph.input = "refund"

IdentifyEntities(amount) ==
  /\ RefundQuestion \/ amount = "missing"
  /\ Routed("identify_entities", "select_workflow", graph.workflow, amount, graph.error)

SelectWorkflow ==
  Routed("select_workflow", "workflow", graph.workflow, graph.amount, graph.error)

-----------------------------------------------------------------------------
(* The six workflow nodes.                                                 *)

\* The node returns entries, with or without an error of its own; the error
\* of classify_intent stays.
Returned(entries, error, decision) ==
  /\ graph' = Checkpoint("formulate_response", FALSE, graph.input, graph.workflow, graph.amount,
                         entries, graph.error \/ error, decision)
  /\ node' = NoNode
  /\ pc' = "graph"
  /\ Visited("workflow", "ok")
  /\ UNCHANGED <<resume, approval, result, row, audited, kept, done, calls>>

\* A saved approval takes the node straight to review_action.
RerunsTheLoop == FALSE                          \* mutant: saved_approval is not asked
SavedApproval == approval.status # "none"

Step(to) == pc' = to /\ UNCHANGED <<local, graph, approval, result, outcome, done, calls, failures>>

EnterWorkflow ==
  /\ AtNode("workflow")
  /\ IF SavedApproval
     THEN Step(IF resume # None /\ graph.paused THEN "execute" ELSE "pause")
     ELSE /\ RefundQuestion => graph.amount \in {"small", "large"}
          /\ Step(IF RefundQuestion /\ graph.amount = "large" THEN "review" ELSE "ask")

\* resolve_issue asks for a refund amount, and fails on one it cannot read.
AskAmount ==
  /\ AtNode("workflow") /\ ~SavedApproval
  /\ RefundQuestion
  /\ \/ graph.amount = "missing" /\ Returned({Said}, FALSE, None)
     \/ graph.amount = "unreadable" /\ Returned({}, TRUE, None)

\* One answer of the language model: an error, a last word, or tool calls.
LlmFails == pc = "ask" /\ node.round < Rounds /\ Returned(node.results, TRUE, None)
LlmCloses == pc = "ask" /\ node.round < Rounds /\ Returned(node.results \cup {Said}, FALSE, None)
LlmCalls(n) ==
  /\ pc = "ask" /\ node.round < Rounds
  /\ pc' = "calls"
  /\ node' = [round |-> node.round + 1, left |-> n, results |-> node.results]
  /\ UNCHANGED <<resume, graph, approval, result, outcome, done, calls, failures>>

ToolLimitAsSuccess == pc = "ask" /\ node.round = Rounds /\ Returned(node.results, FALSE, None) \* mutant: no else
ToolLimit == pc = "ask" /\ node.round = Rounds /\ Returned(node.results, TRUE, None)

\* Tools that may answer without "Error" and have changed nothing: those that
\* only read, and update_inventory, which says that a product was not found.
Harmless == {"lookup", "update_inventory"}

\* The next call of the answer; its effect is committed before its result
\* is appended, and an error may follow the commit.  ok: the result does not
\* start with "Error".
CallTool(tool, ok, effect) ==
  /\ pc = "calls"
  /\ IF tool \in Offered[graph.workflow]
     THEN (effect => tool # "lookup") /\ (ok => effect \/ tool \in Harmless)
     ELSE ~ok /\ ~effect
  /\ calls' = calls + 1
  /\ done' = IF effect THEN done \cup {<<calls + 1, tool>>} ELSE done
  /\ node' = [round |-> node.round, left |-> node.left - 1,
              results |-> node.results \cup {Entry(calls + 1, tool, ok)}]
  /\ pc' = IF node.left = 1 THEN "ask" ELSE "calls"
  /\ UNCHANGED <<resume, graph, approval, result, outcome, failures>>

\* Arguments that do not validate raise before the tool runs.
CallRaises == pc = "calls" /\ Returned(node.results, TRUE, None)

\* ApprovalRequired leaves the loop, the rest of the answer with it.
ProposeDiscount ==
  /\ pc = "calls"
  /\ graph.workflow = "create_quote" /\ "apply_discount_to_quote" \in Tools
  /\ Step("review")

\* The first transaction of review_action; action_payload keeps what the
\* request did before its proposal.
Proposed(entries) == approval' = Approval("pending", entries, FALSE, FALSE, FALSE)
KeepNothing(entries) == Proposed({})            \* mutant: the payload has no results
Keep(entries) == Proposed(entries)

SaveApproval ==
  /\ pc = "review"
  /\ Keep(node.results)
  /\ pc' = "pause"
  /\ UNCHANGED <<local, graph, result, outcome, done, calls, failures>>

\* The quote has changed meanwhile.  create_quote_node calls review_action
\* in an except clause, so the exception leaves the graph.
Raised ==
  /\ result' = Result("raised", TRUE, resume # None, resume, result.results)
  /\ pc' = "record"
  /\ node' = NoNode
  /\ UNCHANGED <<resume, graph, approval, row, audited, kept, done, calls>>

ReviewRefused ==
  /\ pc = "review" /\ graph.workflow = "create_quote"
  /\ Visited("workflow", "error")
  /\ Raised

\* interrupt: the pause is checkpointed and invoke returns.
Pause ==
  /\ pc = "pause"
  /\ graph' = Checkpoint("workflow", TRUE, graph.input, graph.workflow, graph.amount,
                         graph.results, graph.error, None)
  /\ result' = Result("paused", graph.error, TRUE, None, graph.results)
  /\ Visited("workflow", "pending")
  /\ node' = NoNode
  /\ pc' = IF resume = None THEN "record" ELSE "save"
  /\ UNCHANGED <<resume, approval, row, audited, kept, done, calls>>

\* The second transaction of review_action, skipped when it has run before.
Execute ==
  /\ pc = "execute"
  /\ pc' = "executed"
  /\ approval' = Approval(approval.status, approval.results, TRUE, approval.saved, approval.run)
  /\ done' = done \cup {<<0, "manager_approval">>}
  /\ UNCHANGED <<local, graph, result, outcome, calls, failures>>

\* apply_discount refuses the quote, and the pause stays.
ExecutionRefused ==
  /\ pc = "execute" /\ ~approval.executed /\ graph.workflow = "create_quote"
  /\ Visited("workflow", "error")
  /\ Raised

ReviewReturns == pc = "executed" /\ Returned(approval.results \cup {Managed}, FALSE, resume)

-----------------------------------------------------------------------------
(* formulate_response, and the end of the call.                            *)

SomeFailed == \E e \in graph.results : ~e.ok

RespondAgain ==                                 \* mutant: its edge leads back to it
  /\ AtNode("formulate_response")
  /\ graph' = Checkpoint("formulate_response", FALSE, graph.input, graph.workflow, graph.amount,
                         graph.results, graph.error, graph.decision)
  /\ Visited("formulate_response", "ok")
  /\ UNCHANGED <<pc, local, approval, result, row, audited, kept, done, calls>>
Respond ==
  /\ AtNode("formulate_response")
  /\ graph' = Checkpoint("none", FALSE, graph.input, graph.workflow, graph.amount, graph.results,
                         graph.error \/ SomeFailed, graph.decision)
  /\ result' = Result("ended", graph.error \/ SomeFailed, graph.decision # None, graph.decision,
                      graph.results)
  /\ pc' = IF resume = None THEN "record" ELSE "save"
  /\ Visited("formulate_response", "ok")
  /\ UNCHANGED <<local, approval, row, audited, kept, done, calls>>

(* resume_agent: the decision is committed, and the graph goes on from its *)
(* checkpoint.  An answer that was saved before is returned as it is, and  *)
(* a contradictory decision is refused.                                    *)
Resume(d) ==
  /\ pc = "idle"
  /\ approval.status \in {"pending", d} /\ ~approval.saved
  /\ approval' = Approval(d, approval.results, approval.executed, approval.saved, approval.run)
  /\ resume' = d
  /\ IF graph.next = "none"
     THEN /\ graph.decision # None
          /\ pc' = "save"
          /\ result' = Result("ended", graph.error, TRUE, graph.decision, graph.results)
     ELSE /\ pc' = "graph"
          /\ result' = Result("initial", FALSE, FALSE, None, graph.results)
  /\ UNCHANGED <<graph, node, outcome, done, calls, failures>>

SaveResult ==
  /\ pc = "save"
  /\ approval' = Approval(approval.status, approval.results, approval.executed, TRUE, approval.run)
  /\ pc' = "record"
  /\ UNCHANGED <<local, graph, result, outcome, done, calls, failures>>

\* mutant: a decision does not end the wait.
StatusByRequirement(r) ==
  IF r.error THEN "failed" ELSE IF r.required THEN "waiting_approval" ELSE "completed"
Status(r) ==
  IF r.error THEN "failed"
  ELSE IF r.required /\ r.decision = None THEN "waiting_approval" ELSE "completed"

\* A turn joins the messages when run_agent ends without error or pause.
Keeps == resume = None /\ result.kind = "ended" /\ ~result.error

RecordRun ==
  /\ pc = "record"
  /\ \/ /\ row' = Status(result)
        /\ audited' = audited \cup result.results
        /\ approval' = Approval(approval.status, approval.results, approval.executed, approval.saved,
                                 approval.run \/ result.required)
        /\ UNCHANGED failures
     \/ UNCHANGED <<row, audited, approval>> /\ Faulty
  /\ pc' = IF Keeps THEN "messages" ELSE "idle"
  /\ resume' = None
  /\ UNCHANGED <<graph, node, result, visits, kept, done, calls>>

KeepMessages ==
  /\ pc = "messages"
  /\ kept' = TRUE
  /\ pc' = "idle"
  /\ UNCHANGED <<local, graph, approval, result, row, visits, audited, done, calls, failures>>

-----------------------------------------------------------------------------
(* Faults.                                                                 *)

\* An exception outside the handlers of the nodes, such as a checkpoint
\* that cannot be written.
Invoking == pc \in {"graph", "ask", "calls", "review", "pause", "execute", "executed"}
InvocationFails ==
  /\ Invoking /\ Faulty
  /\ UNCHANGED visits
  /\ Raised

\* The process dies, or the database fails between two steps.
Crash ==
  /\ pc # "idle" /\ Faulty
  /\ pc' = "idle" /\ resume' = None /\ node' = NoNode
  /\ UNCHANGED <<graph, approval, result, outcome, done, calls>>

-----------------------------------------------------------------------------
Route ==
  \/ Begin(graph.input) \/ ParseRequest \/ SelectWorkflow
  \/ \E workflow \in Workflows : ClassifyIntent(workflow)
  \/ \E amount \in Amounts : IdentifyEntities(amount)

Loop ==
  \/ EnterWorkflow \/ AskAmount
  \/ LlmFails \/ LlmCloses \/ ToolLimit
  \/ \E n \in 1..MaxBatch : LlmCalls(n)
  \/ \E tool \in Tools, ok, effect \in BOOLEAN : CallTool(tool, ok, effect)
  \/ CallRaises \/ ProposeDiscount

Review ==
  SaveApproval \/ ReviewRefused \/ Pause \/ Execute \/ ExecutionRefused \/ ReviewReturns

Finish == Respond \/ SaveResult \/ RecordRun \/ KeepMessages

Progress == Route \/ Loop \/ Review \/ Finish

Next ==
  \/ \E input \in Inputs : Chat(input)
  \/ \E d \in Decisions : Resume(d)
  \/ Progress
  \/ InvocationFails \/ Crash

Spec == Init /\ [][Next]_vars

\* A thread that holds the lock runs on; the language model answers or
\* times out.
FairSpec == Spec /\ WF_vars(Progress)

-----------------------------------------------------------------------------
(* Properties.                                                             *)

Results == SUBSET Entries
Checkpoints == [next : {"none"} \cup Nodes, paused : BOOLEAN, input : {"empty", "refund", "plain"},
                workflow : ALL_WORKFLOWS \cup {None}, amount : Amounts, results : Results,
                error : BOOLEAN, decision : Decisions \cup {None}]

\* Every variable holds what its column, key or local can hold.
TypeOK ==
  /\ pc \in {"idle", "begin", "graph", "ask", "calls", "review", "pause", "execute",
             "executed", "save", "record", "messages"}
  /\ resume \in Decisions \cup {None}
  /\ graph \in Checkpoints
  /\ node \in [round : Nat, left : Nat, results : Results]
  /\ pc = "calls" => node.left > 0
  /\ approval \in [status : {"none", "pending"} \cup Decisions, results : Results,
                   executed : BOOLEAN, saved : BOOLEAN, run : BOOLEAN]
  /\ result \in [kind : Kinds, error : BOOLEAN, required : BOOLEAN,
                 decision : Decisions \cup {None}, results : Results]
  /\ row \in {"none", "running", "waiting_approval", "completed", "failed"}
  /\ visits \subseteq Nodes \X {"ok", "pending", "error"}
  /\ audited \in Results
  /\ kept \in BOOLEAN
  /\ done \subseteq Nat \X (ALL_TOOLS \cup {"manager_approval"})
  /\ calls \in Nat
  /\ failures \in Nat

\* An answer that reports no error leaves nothing out and glosses over no
\* error: every committed effect is among its results (in the approval's,
\* when it waits for one), none of its results is an error, and without a
\* manager's decision the language model had said its last word, so no call it
\* wanted was cut off.  (The tool loop of the nodes, its limit, and
\* formulate_response.)  A result without an effect may be among them, as when
\* update_inventory finds no product: that is no error to the code.
SuccessIsWhole ==
  result.kind \in {"ended", "paused"} /\ ~result.error =>
    IF result.kind = "paused"
    THEN approval.status # "none" /\ (~approval.executed => done \subseteq Reported(approval.results))
    ELSE /\ done \subseteq Reported(result.results)
         /\ \A e \in result.results : e.ok
         /\ result.decision = None => Said \in result.results

\* A run is recorded as completed only when the audit log has every effect of
\* the request, over pauses, crashes, retries and lost telemetry, and an
\* approval it needed was executed.  (_record_run)
CompletedIsAudited ==
  row = "completed" =>
    /\ done \subseteq Reported(audited)
    /\ approval.status # "none" => approval.executed

\* Once a proposal is saved the request changes nothing but what the manager
\* decides: no retry or resume runs the tool loop again.  (saved_approval)
StopsAtProposal ==
  [][approval.status # "none" => done' \ done \subseteq {<<0, "manager_approval">>}]_vars

\* Between the calls of a request in which no fault happened, the run waits
\* for approval exactly while the approval is pending, and is finished
\* otherwise; each of the four routing nodes left its audit row.
\* (_begin_run, _record_run, audit_node)
RowFollowsRequest ==
  failures = 0 /\ pc = "idle" /\ result.kind # "none" =>
    /\ row = "waiting_approval" <=> approval.status = "pending"
    /\ row \notin {"none", "running"}
    /\ Routing \subseteq {v[1] : v \in visits}

\* Every call ends and gives the conversation's lock back, whatever the
\* language model says and whatever fails.
CallsEnd == pc # "idle" ~> pc = "idle"

(* What the documents say.                                                 *)

\* "tool results reference the actual deterministic AgentRun ID": without a
\* fault, the audit log of a finished request has all it did.
FinishedIsAudited ==
  failures = 0 /\ pc = "idle" /\ row \in {"completed", "failed"}
    => done \subseteq Reported(audited)

\* "completed user/assistant turns are retained in the existing messages
\* field".
CompletedIsKept == failures = 0 /\ pc = "idle" /\ row = "completed" => kept

\* The inventory workflow needs no approval because it is "Read-only / Safe".
InventoryIsReadOnly == graph.workflow = "inventory_check" => done = {}
=============================================================================

--------------------------- MODULE AgentRun_proofs ---------------------------
(***************************************************************************)
(* An answer without error is whole, a completed run is audited, and a     *)
(* request that has proposed does nothing more, for every set of           *)
(* workflows and tools, any limit of rounds and any number of faults; and  *)
(* without a fault the agent_runs row follows the request.                 *)
(***************************************************************************)
EXTENDS AgentRun, TLAPS

-----------------------------------------------------------------------------
(* The inductive invariant, by the place where what was done is kept: in   *)
(* no list yet, in the locals of the node, in the approval, in the         *)
(* checkpoint, in the answer, in the audit log.                            *)

Manager == <<0, "manager_approval">>
Started == Routing \cup {"workflow"}
InLoop == {"ask", "calls", "review"}
InReview == {"pause", "execute", "executed"}

Before ==
  /\ result.kind = "none" => pc = "idle"
  /\ \/ result.kind = "none"
     \/ pc = "begin"
     \/ pc = "graph" /\ graph.next \in Started /\ approval.status = "none"
     => done = {}
  /\ result.kind = "none" \/ pc = "begin" \/ graph.next \in Routing => approval.status = "none"
  /\ pc \in {"begin", "graph"} \cup InLoop \cup InReview => result.kind = "initial"
  /\ result.kind = "none" \/ pc = "begin" => graph.next = "none" /\ graph.decision = None
  /\ pc = "graph" => graph.next # "none"

Looping ==
  /\ pc \in InLoop =>
       /\ graph.next = "workflow"
       /\ approval.status = "none"
       /\ done \subseteq Reported(node.results)
  /\ pc \in InReview => graph.next = "workflow" /\ approval.status # "none"
  /\ pc \in {"execute", "executed"} => resume # None
  /\ pc = "executed" => approval.executed

Saved ==
  /\ approval.status # "none" =>
       done \subseteq Reported(approval.results) \cup (IF approval.executed THEN {Manager} ELSE {})
  /\ approval.executed \/ approval.saved \/ resume # None => approval.status # "none"
  /\ pc \in {"graph"} \cup InLoop /\ resume = None => approval.status = "none"

Left ==
  /\ graph.decision # None => graph.next \in {"formulate_response", "none"}
  /\ \/ graph.next = "formulate_response"
     \/ graph.next = "none" /\ graph.decision # None
     => /\ done \subseteq Reported(graph.results)
        /\ approval.status # "none" => approval.executed /\ graph.decision # None
        /\ ~graph.error /\ graph.decision = None => Said \in graph.results
  /\ graph.next = "none" /\ graph.decision # None /\ ~graph.error
     => \A e \in graph.results : e.ok

Told ==
  /\ result.kind = "ended" =>
       /\ graph.next = "none"
       /\ done \subseteq Reported(result.results)
       /\ approval.status # "none" => approval.executed /\ result.decision # None
       /\ ~result.error => /\ \A e \in result.results : e.ok
                           /\ result.decision = None => Said \in result.results
       /\ pc = "record" => approval.status = "none" \/ approval.saved
  /\ result.kind = "paused" =>
       approval.status # "none" /\ result.required /\ result.decision = None
  /\ result.kind = "raised" => result.error
  /\ pc \in {"save", "record", "messages"} => result.kind \in {"ended", "paused", "raised"}
  /\ pc = "save" => approval.status # "none"

Closed ==
  row = "completed" =>
    /\ done \subseteq Reported(audited)
    /\ approval.status # "none" => approval.executed /\ approval.saved
    /\ pc \in {"idle", "messages"}
    /\ result.kind # "none"

Inv == Before /\ Looping /\ Saved /\ Left /\ Told /\ Closed

\* More entries report more.
LEMMA ReportedAll ==
  ASSUME NEW S, NEW T, S \subseteq T
  PROVE  Reported(S) \subseteq Reported(T)
BY DEF Reported

\* One entry more reports one call more.
LEMMA ReportedOne ==
  ASSUME NEW S, NEW e
  PROVE  Reported(S \cup {e}) = Reported(S) \cup {<<e.call, e.tool>>}
BY DEF Reported

\* Effects begin in the tool loop, and never before it.
LEMMA BeforeKept ==
  ASSUME TypeOK, Inv, [Next]_vars
  PROVE  Before'
<1> USE DEF Inv, Before, Looping, Saved, Left, Told, Closed, local, outcome, Started, InLoop, InReview, Routing
<1>1. CASE \E input \in Inputs : Chat(input)
  BY <1>1 DEF Chat, Initial, Result, Checkpoint
<1>2. CASE \E d \in Decisions : Resume(d)
  BY <1>2 DEF Resume, Result, Approval, Decisions
<1>3. CASE Begin(graph.input)
  BY <1>3 DEF Begin, Checkpoint
<1>4. CASE ParseRequest
  BY <1>4 DEF ParseRequest, Routed, AtNode, Checkpoint
<1>5. CASE \E workflow \in Workflows : ClassifyIntent(workflow)
  BY <1>5 DEF ClassifyIntent, Routed, AtNode, Checkpoint
<1>6. CASE \E amount \in Amounts : IdentifyEntities(amount)
  BY <1>6 DEF IdentifyEntities, Routed, AtNode, Checkpoint
<1>7. CASE SelectWorkflow
  BY <1>7 DEF SelectWorkflow, Routed, AtNode, Checkpoint
<1>8. CASE EnterWorkflow
  BY <1>8 DEF EnterWorkflow, AtNode, Step, SavedApproval
<1>9. CASE AskAmount
  BY <1>9 DEF AskAmount, AtNode, SavedApproval, Returned, Checkpoint, NoNode
<1>10. CASE LlmFails
  BY <1>10 DEF LlmFails, Returned, Checkpoint, NoNode
<1>11. CASE LlmCloses
  BY <1>11 DEF LlmCloses, Returned, Checkpoint, NoNode
<1>12. CASE ToolLimit
  BY <1>12 DEF ToolLimit, Returned, Checkpoint, NoNode
<1>13. CASE \E n \in 1..MaxBatch : LlmCalls(n)
  BY <1>13 DEF LlmCalls
<1>14. CASE \E tool \in Tools, ok, effect \in BOOLEAN : CallTool(tool, ok, effect)
  BY <1>14 DEF CallTool
<1>15. CASE CallRaises
  BY <1>15 DEF CallRaises, Returned, Checkpoint, NoNode
<1>16. CASE ProposeDiscount
  BY <1>16 DEF ProposeDiscount, Step
<1>17. CASE SaveApproval
  BY <1>17 DEF SaveApproval, Keep, Proposed, Approval
<1>18. CASE ReviewRefused
  BY <1>18 DEF ReviewRefused, Raised, Result
<1>19. CASE Pause
  BY <1>19 DEF Pause, Checkpoint, Result
<1>20. CASE Execute
  BY <1>20 DEF Execute, Approval, Manager
<1>21. CASE ExecutionRefused
  BY <1>21 DEF ExecutionRefused, Raised, Result
<1>22. CASE ReviewReturns
  BY <1>22 DEF ReviewReturns, Returned, Checkpoint
<1>23. CASE Respond
  BY <1>23 DEF Respond, AtNode, Checkpoint, Result, SomeFailed
<1>24. CASE SaveResult
  BY <1>24 DEF SaveResult, Approval
<1>25. CASE RecordRun
  BY <1>25 DEF RecordRun, Keeps, Status, Approval
<1>26. CASE KeepMessages
  BY <1>26 DEF KeepMessages
<1>27. CASE InvocationFails
  BY <1>27 DEF InvocationFails, Invoking, Raised, Result
<1>28. CASE Crash
  BY <1>28 DEF Crash
<1>29. CASE UNCHANGED vars
  BY <1>29 DEF vars
<1> QED
  BY <1>1, <1>2, <1>3, <1>4, <1>5, <1>6, <1>7, <1>8, <1>9, <1>10, <1>11, <1>12, <1>13, <1>14, <1>15, <1>16, <1>17, <1>18, <1>19, <1>20, <1>21, <1>22, <1>23, <1>24, <1>25, <1>26, <1>27, <1>28, <1>29 DEF Next, Progress, Route, Loop, Review, Finish

\* In the loop the list of the node has every effect, and no approval exists.
LEMMA LoopingKept ==
  ASSUME TypeOK, Inv, [Next]_vars
  PROVE  Looping'
<1> USE DEF Inv, Before, Looping, Saved, Left, Told, Closed, local, outcome, Started, InLoop, InReview, Routing
<1>1. CASE \E input \in Inputs : Chat(input)
  BY <1>1 DEF Chat, Initial, Result, Checkpoint
<1>2. CASE \E d \in Decisions : Resume(d)
  BY <1>2 DEF Resume, Result, Approval, Decisions
<1>3. CASE Begin(graph.input)
  BY <1>3 DEF Begin, Checkpoint
<1>4. CASE ParseRequest
  BY <1>4 DEF ParseRequest, Routed, AtNode, Checkpoint
<1>5. CASE \E workflow \in Workflows : ClassifyIntent(workflow)
  BY <1>5 DEF ClassifyIntent, Routed, AtNode, Checkpoint
<1>6. CASE \E amount \in Amounts : IdentifyEntities(amount)
  BY <1>6 DEF IdentifyEntities, Routed, AtNode, Checkpoint
<1>7. CASE SelectWorkflow
  BY <1>7 DEF SelectWorkflow, Routed, AtNode, Checkpoint
<1>8. CASE EnterWorkflow
  BY <1>8 DEF EnterWorkflow, AtNode, Step, SavedApproval
<1>9. CASE AskAmount
  BY <1>9 DEF AskAmount, AtNode, SavedApproval, Returned, Checkpoint, NoNode
<1>10. CASE LlmFails
  BY <1>10 DEF LlmFails, Returned, Checkpoint, NoNode
<1>11. CASE LlmCloses
  BY <1>11 DEF LlmCloses, Returned, Checkpoint, NoNode
<1>12. CASE ToolLimit
  BY <1>12 DEF ToolLimit, Returned, Checkpoint, NoNode
<1>13. CASE \E n \in 1..MaxBatch : LlmCalls(n)
  BY <1>13 DEF LlmCalls
<1>14. CASE \E tool \in Tools, ok, effect \in BOOLEAN : CallTool(tool, ok, effect)
  <2> PICK tool \in Tools, ok \in BOOLEAN, effect \in BOOLEAN : CallTool(tool, ok, effect)
    BY <1>14
  <2>1. Reported(node'.results) = Reported(node.results) \cup {<<calls + 1, tool>>}
    BY ReportedOne DEF CallTool, Entry
  <2> QED
    BY <2>1 DEF CallTool
<1>15. CASE CallRaises
  BY <1>15 DEF CallRaises, Returned, Checkpoint, NoNode
<1>16. CASE ProposeDiscount
  BY <1>16 DEF ProposeDiscount, Step
<1>17. CASE SaveApproval
  BY <1>17 DEF SaveApproval, Keep, Proposed, Approval
<1>18. CASE ReviewRefused
  BY <1>18 DEF ReviewRefused, Raised, Result
<1>19. CASE Pause
  BY <1>19 DEF Pause, Checkpoint, Result
<1>20. CASE Execute
  BY <1>20 DEF Execute, Approval, Manager
<1>21. CASE ExecutionRefused
  BY <1>21 DEF ExecutionRefused, Raised, Result
<1>22. CASE ReviewReturns
  BY <1>22 DEF ReviewReturns, Returned, Checkpoint
<1>23. CASE Respond
  BY <1>23 DEF Respond, AtNode, Checkpoint, Result, SomeFailed
<1>24. CASE SaveResult
  BY <1>24 DEF SaveResult, Approval
<1>25. CASE RecordRun
  BY <1>25 DEF RecordRun, Keeps, Status, Approval
<1>26. CASE KeepMessages
  BY <1>26 DEF KeepMessages
<1>27. CASE InvocationFails
  BY <1>27 DEF InvocationFails, Invoking, Raised, Result
<1>28. CASE Crash
  BY <1>28 DEF Crash
<1>29. CASE UNCHANGED vars
  BY <1>29 DEF vars
<1> QED
  BY <1>1, <1>2, <1>3, <1>4, <1>5, <1>6, <1>7, <1>8, <1>9, <1>10, <1>11, <1>12, <1>13, <1>14, <1>15, <1>16, <1>17, <1>18, <1>19, <1>20, <1>21, <1>22, <1>23, <1>24, <1>25, <1>26, <1>27, <1>28, <1>29 DEF Next, Progress, Route, Loop, Review, Finish

\* From the proposal on, the payload of the approval has every effect but its own.
LEMMA SavedKept ==
  ASSUME TypeOK, Inv, [Next]_vars
  PROVE  Saved'
<1> USE DEF Inv, Before, Looping, Saved, Left, Told, Closed, local, outcome, Started, InLoop, InReview, Routing
<1>1. CASE \E input \in Inputs : Chat(input)
  BY <1>1 DEF Chat, Initial, Result, Checkpoint
<1>2. CASE \E d \in Decisions : Resume(d)
  BY <1>2, ParameterTypes DEF Resume, Result, Approval, Decisions
<1>3. CASE Begin(graph.input)
  BY <1>3 DEF Begin, Checkpoint
<1>4. CASE ParseRequest
  BY <1>4 DEF ParseRequest, Routed, AtNode, Checkpoint
<1>5. CASE \E workflow \in Workflows : ClassifyIntent(workflow)
  BY <1>5 DEF ClassifyIntent, Routed, AtNode, Checkpoint
<1>6. CASE \E amount \in Amounts : IdentifyEntities(amount)
  BY <1>6 DEF IdentifyEntities, Routed, AtNode, Checkpoint
<1>7. CASE SelectWorkflow
  BY <1>7 DEF SelectWorkflow, Routed, AtNode, Checkpoint
<1>8. CASE EnterWorkflow
  BY <1>8 DEF EnterWorkflow, AtNode, Step, SavedApproval
<1>9. CASE AskAmount
  BY <1>9 DEF AskAmount, AtNode, SavedApproval, Returned, Checkpoint, NoNode
<1>10. CASE LlmFails
  BY <1>10 DEF LlmFails, Returned, Checkpoint, NoNode
<1>11. CASE LlmCloses
  BY <1>11 DEF LlmCloses, Returned, Checkpoint, NoNode
<1>12. CASE ToolLimit
  BY <1>12 DEF ToolLimit, Returned, Checkpoint, NoNode
<1>13. CASE \E n \in 1..MaxBatch : LlmCalls(n)
  BY <1>13 DEF LlmCalls
<1>14. CASE \E tool \in Tools, ok, effect \in BOOLEAN : CallTool(tool, ok, effect)
  BY <1>14 DEF CallTool
<1>15. CASE CallRaises
  BY <1>15 DEF CallRaises, Returned, Checkpoint, NoNode
<1>16. CASE ProposeDiscount
  BY <1>16 DEF ProposeDiscount, Step
<1>17. CASE SaveApproval
  BY <1>17 DEF SaveApproval, Keep, Proposed, Approval
<1>18. CASE ReviewRefused
  BY <1>18 DEF ReviewRefused, Raised, Result
<1>19. CASE Pause
  BY <1>19 DEF Pause, Checkpoint, Result
<1>20. CASE Execute
  BY <1>20 DEF Execute, Approval, Manager
<1>21. CASE ExecutionRefused
  BY <1>21 DEF ExecutionRefused, Raised, Result
<1>22. CASE ReviewReturns
  BY <1>22 DEF ReviewReturns, Returned, Checkpoint
<1>23. CASE Respond
  BY <1>23 DEF Respond, AtNode, Checkpoint, Result, SomeFailed
<1>24. CASE SaveResult
  BY <1>24 DEF SaveResult, Approval
<1>25. CASE RecordRun
  BY <1>25 DEF RecordRun, Keeps, Status, Approval
<1>26. CASE KeepMessages
  BY <1>26 DEF KeepMessages
<1>27. CASE InvocationFails
  BY <1>27 DEF InvocationFails, Invoking, Raised, Result
<1>28. CASE Crash
  BY <1>28 DEF Crash
<1>29. CASE UNCHANGED vars
  BY <1>29 DEF vars
<1> QED
  BY <1>1, <1>2, <1>3, <1>4, <1>5, <1>6, <1>7, <1>8, <1>9, <1>10, <1>11, <1>12, <1>13, <1>14, <1>15, <1>16, <1>17, <1>18, <1>19, <1>20, <1>21, <1>22, <1>23, <1>24, <1>25, <1>26, <1>27, <1>28, <1>29 DEF Next, Progress, Route, Loop, Review, Finish

\* The checkpoint of a finished node has every effect.
LEMMA LeftKept ==
  ASSUME TypeOK, Inv, [Next]_vars
  PROVE  Left'
<1> USE DEF Inv, Before, Looping, Saved, Left, Told, Closed, local, outcome, Started, InLoop, InReview, Routing
<1>1. CASE \E input \in Inputs : Chat(input)
  BY <1>1 DEF Chat, Initial, Result, Checkpoint
<1>2. CASE \E d \in Decisions : Resume(d)
  BY <1>2 DEF Resume, Result, Approval, Decisions
<1>3. CASE Begin(graph.input)
  BY <1>3 DEF Begin, Checkpoint
<1>4. CASE ParseRequest
  BY <1>4 DEF ParseRequest, Routed, AtNode, Checkpoint
<1>5. CASE \E workflow \in Workflows : ClassifyIntent(workflow)
  BY <1>5 DEF ClassifyIntent, Routed, AtNode, Checkpoint
<1>6. CASE \E amount \in Amounts : IdentifyEntities(amount)
  BY <1>6 DEF IdentifyEntities, Routed, AtNode, Checkpoint
<1>7. CASE SelectWorkflow
  BY <1>7 DEF SelectWorkflow, Routed, AtNode, Checkpoint
<1>8. CASE EnterWorkflow
  BY <1>8 DEF EnterWorkflow, AtNode, Step, SavedApproval
<1>9. CASE AskAmount
  <2>1. done = {} /\ approval.status = "none" /\ graph.decision = None
    BY <1>9 DEF AskAmount, AtNode, SavedApproval
  <2>2. CASE Returned({Said}, FALSE, None)
    BY <2>1, <2>2 DEF Returned, Checkpoint
  <2>3. CASE Returned({}, TRUE, None)
    BY <2>1, <2>3 DEF Returned, Checkpoint
  <2> QED
    BY <1>9, <2>2, <2>3 DEF AskAmount
<1>10. CASE LlmFails
  BY <1>10 DEF LlmFails, Returned, Checkpoint, NoNode
<1>11. CASE LlmCloses
  <2>1. Reported(node.results) \subseteq Reported(node.results \cup {Said})
    BY ReportedAll
  <2> QED
    BY <1>11, <2>1 DEF LlmCloses, Returned, Checkpoint, NoNode
<1>12. CASE ToolLimit
  BY <1>12 DEF ToolLimit, Returned, Checkpoint, NoNode
<1>13. CASE \E n \in 1..MaxBatch : LlmCalls(n)
  BY <1>13 DEF LlmCalls
<1>14. CASE \E tool \in Tools, ok, effect \in BOOLEAN : CallTool(tool, ok, effect)
  BY <1>14 DEF CallTool
<1>15. CASE CallRaises
  BY <1>15 DEF CallRaises, Returned, Checkpoint, NoNode
<1>16. CASE ProposeDiscount
  BY <1>16 DEF ProposeDiscount, Step
<1>17. CASE SaveApproval
  BY <1>17 DEF SaveApproval, Keep, Proposed, Approval
<1>18. CASE ReviewRefused
  BY <1>18 DEF ReviewRefused, Raised, Result
<1>19. CASE Pause
  BY <1>19 DEF Pause, Checkpoint, Result
<1>20. CASE Execute
  BY <1>20 DEF Execute, Approval, Manager
<1>21. CASE ExecutionRefused
  BY <1>21 DEF ExecutionRefused, Raised, Result
<1>22. CASE ReviewReturns
  <2>1. Reported(approval.results \cup {Managed}) = Reported(approval.results) \cup {Manager}
    BY ReportedOne DEF Managed, Entry, Manager
  <2> QED
    BY <1>22, <2>1 DEF ReviewReturns, Returned, Checkpoint
<1>23. CASE Respond
  BY <1>23 DEF Respond, AtNode, Checkpoint, Result, SomeFailed
<1>24. CASE SaveResult
  BY <1>24 DEF SaveResult, Approval
<1>25. CASE RecordRun
  BY <1>25 DEF RecordRun, Keeps, Status, Approval
<1>26. CASE KeepMessages
  BY <1>26 DEF KeepMessages
<1>27. CASE InvocationFails
  BY <1>27 DEF InvocationFails, Invoking, Raised, Result
<1>28. CASE Crash
  BY <1>28 DEF Crash
<1>29. CASE UNCHANGED vars
  BY <1>29 DEF vars
<1> QED
  BY <1>1, <1>2, <1>3, <1>4, <1>5, <1>6, <1>7, <1>8, <1>9, <1>10, <1>11, <1>12, <1>13, <1>14, <1>15, <1>16, <1>17, <1>18, <1>19, <1>20, <1>21, <1>22, <1>23, <1>24, <1>25, <1>26, <1>27, <1>28, <1>29 DEF Next, Progress, Route, Loop, Review, Finish

\* So has an answer of the graph, and it hides no failed tool.
LEMMA ToldKept ==
  ASSUME TypeOK, Inv, [Next]_vars
  PROVE  Told'
<1> USE DEF Inv, Before, Looping, Saved, Left, Told, Closed, local, outcome, Started, InLoop, InReview, Routing
<1>1. CASE \E input \in Inputs : Chat(input)
  BY <1>1 DEF Chat, Initial, Result, Checkpoint
<1>2. CASE \E d \in Decisions : Resume(d)
  BY <1>2 DEF Resume, Result, Approval, Decisions
<1>3. CASE Begin(graph.input)
  BY <1>3 DEF Begin, Checkpoint
<1>4. CASE ParseRequest
  BY <1>4 DEF ParseRequest, Routed, AtNode, Checkpoint
<1>5. CASE \E workflow \in Workflows : ClassifyIntent(workflow)
  BY <1>5 DEF ClassifyIntent, Routed, AtNode, Checkpoint
<1>6. CASE \E amount \in Amounts : IdentifyEntities(amount)
  BY <1>6 DEF IdentifyEntities, Routed, AtNode, Checkpoint
<1>7. CASE SelectWorkflow
  BY <1>7 DEF SelectWorkflow, Routed, AtNode, Checkpoint
<1>8. CASE EnterWorkflow
  BY <1>8 DEF EnterWorkflow, AtNode, Step, SavedApproval
<1>9. CASE AskAmount
  BY <1>9 DEF AskAmount, AtNode, SavedApproval, Returned, Checkpoint, NoNode
<1>10. CASE LlmFails
  BY <1>10 DEF LlmFails, Returned, Checkpoint, NoNode
<1>11. CASE LlmCloses
  BY <1>11 DEF LlmCloses, Returned, Checkpoint, NoNode
<1>12. CASE ToolLimit
  BY <1>12 DEF ToolLimit, Returned, Checkpoint, NoNode
<1>13. CASE \E n \in 1..MaxBatch : LlmCalls(n)
  BY <1>13 DEF LlmCalls
<1>14. CASE \E tool \in Tools, ok, effect \in BOOLEAN : CallTool(tool, ok, effect)
  BY <1>14 DEF CallTool
<1>15. CASE CallRaises
  BY <1>15 DEF CallRaises, Returned, Checkpoint, NoNode
<1>16. CASE ProposeDiscount
  BY <1>16 DEF ProposeDiscount, Step
<1>17. CASE SaveApproval
  BY <1>17 DEF SaveApproval, Keep, Proposed, Approval
<1>18. CASE ReviewRefused
  BY <1>18 DEF ReviewRefused, Raised, Result
<1>19. CASE Pause
  BY <1>19 DEF Pause, Checkpoint, Result
<1>20. CASE Execute
  BY <1>20 DEF Execute, Approval, Manager
<1>21. CASE ExecutionRefused
  BY <1>21 DEF ExecutionRefused, Raised, Result
<1>22. CASE ReviewReturns
  BY <1>22 DEF ReviewReturns, Returned, Checkpoint
<1>23. CASE Respond
  BY <1>23 DEF Respond, AtNode, Checkpoint, Result, SomeFailed
<1>24. CASE SaveResult
  BY <1>24 DEF SaveResult, Approval
<1>25. CASE RecordRun
  BY <1>25 DEF RecordRun, Keeps, Status, Approval
<1>26. CASE KeepMessages
  BY <1>26 DEF KeepMessages
<1>27. CASE InvocationFails
  BY <1>27 DEF InvocationFails, Invoking, Raised, Result
<1>28. CASE Crash
  BY <1>28 DEF Crash
<1>29. CASE UNCHANGED vars
  BY <1>29 DEF vars
<1> QED
  BY <1>1, <1>2, <1>3, <1>4, <1>5, <1>6, <1>7, <1>8, <1>9, <1>10, <1>11, <1>12, <1>13, <1>14, <1>15, <1>16, <1>17, <1>18, <1>19, <1>20, <1>21, <1>22, <1>23, <1>24, <1>25, <1>26, <1>27, <1>28, <1>29 DEF Next, Progress, Route, Loop, Review, Finish

\* A completed run has them in the audit log, and nothing moves any more.
LEMMA ClosedKept ==
  ASSUME TypeOK, Inv, [Next]_vars
  PROVE  Closed'
<1> USE DEF Inv, Before, Looping, Saved, Left, Told, Closed, local, outcome, Started, InLoop, InReview, Routing
<1>1. CASE \E input \in Inputs : Chat(input)
  BY <1>1 DEF Chat, Initial, Result, Checkpoint
<1>2. CASE \E d \in Decisions : Resume(d)
  BY <1>2 DEF Resume, Result, Approval, Decisions
<1>3. CASE Begin(graph.input)
  BY <1>3 DEF Begin, Checkpoint
<1>4. CASE ParseRequest
  BY <1>4 DEF ParseRequest, Routed, AtNode, Checkpoint
<1>5. CASE \E workflow \in Workflows : ClassifyIntent(workflow)
  BY <1>5 DEF ClassifyIntent, Routed, AtNode, Checkpoint
<1>6. CASE \E amount \in Amounts : IdentifyEntities(amount)
  BY <1>6 DEF IdentifyEntities, Routed, AtNode, Checkpoint
<1>7. CASE SelectWorkflow
  BY <1>7 DEF SelectWorkflow, Routed, AtNode, Checkpoint
<1>8. CASE EnterWorkflow
  BY <1>8 DEF EnterWorkflow, AtNode, Step, SavedApproval
<1>9. CASE AskAmount
  BY <1>9 DEF AskAmount, AtNode, SavedApproval, Returned, Checkpoint, NoNode
<1>10. CASE LlmFails
  BY <1>10 DEF LlmFails, Returned, Checkpoint, NoNode
<1>11. CASE LlmCloses
  BY <1>11 DEF LlmCloses, Returned, Checkpoint, NoNode
<1>12. CASE ToolLimit
  BY <1>12 DEF ToolLimit, Returned, Checkpoint, NoNode
<1>13. CASE \E n \in 1..MaxBatch : LlmCalls(n)
  BY <1>13 DEF LlmCalls
<1>14. CASE \E tool \in Tools, ok, effect \in BOOLEAN : CallTool(tool, ok, effect)
  BY <1>14 DEF CallTool
<1>15. CASE CallRaises
  BY <1>15 DEF CallRaises, Returned, Checkpoint, NoNode
<1>16. CASE ProposeDiscount
  BY <1>16 DEF ProposeDiscount, Step
<1>17. CASE SaveApproval
  BY <1>17 DEF SaveApproval, Keep, Proposed, Approval
<1>18. CASE ReviewRefused
  BY <1>18 DEF ReviewRefused, Raised, Result
<1>19. CASE Pause
  BY <1>19 DEF Pause, Checkpoint, Result
<1>20. CASE Execute
  BY <1>20 DEF Execute, Approval, Manager
<1>21. CASE ExecutionRefused
  BY <1>21 DEF ExecutionRefused, Raised, Result
<1>22. CASE ReviewReturns
  BY <1>22 DEF ReviewReturns, Returned, Checkpoint
<1>23. CASE Respond
  BY <1>23 DEF Respond, AtNode, Checkpoint, Result, SomeFailed
<1>24. CASE SaveResult
  BY <1>24 DEF SaveResult, Approval
<1>25. CASE RecordRun
  <2>1. Reported(result.results) \subseteq Reported(audited \cup result.results)
    BY ReportedAll
  <2> QED
    BY <1>25, <2>1 DEF RecordRun, Keeps, Status, Approval
<1>26. CASE KeepMessages
  BY <1>26 DEF KeepMessages
<1>27. CASE InvocationFails
  BY <1>27 DEF InvocationFails, Invoking, Raised, Result
<1>28. CASE Crash
  BY <1>28 DEF Crash
<1>29. CASE UNCHANGED vars
  BY <1>29 DEF vars
<1> QED
  BY <1>1, <1>2, <1>3, <1>4, <1>5, <1>6, <1>7, <1>8, <1>9, <1>10, <1>11, <1>12, <1>13, <1>14, <1>15, <1>16, <1>17, <1>18, <1>19, <1>20, <1>21, <1>22, <1>23, <1>24, <1>25, <1>26, <1>27, <1>28, <1>29 DEF Next, Progress, Route, Loop, Review, Finish

\* Every action keeps every variable in its type.
LEMMA TypeKept ==
  ASSUME TypeOK, [Next]_vars
  PROVE  TypeOK'
<1> USE ParameterTypes DEF TypeOK, Results, Checkpoints, Entries, Entry, Nodes, Routing, Kinds, Decisions,
        Amounts, NoNode, Said, Managed, Visited, Faulty, local, outcome
<1>1. CASE \E input \in Inputs : Chat(input)
  BY <1>1 DEF Chat, Initial, Result, Checkpoint
<1>2. CASE \E d \in Decisions : Resume(d)
  <2> PICK d \in Decisions : Resume(d)
    BY <1>2
  <2>1. approval' \in [status : {"none", "pending"} \cup Decisions, results : Results,
                       executed : BOOLEAN, saved : BOOLEAN, run : BOOLEAN]
    BY DEF Resume, Approval
  <2>2. result' \in [kind : Kinds, error : BOOLEAN, required : BOOLEAN,
                     decision : Decisions \cup {None}, results : Results]
    <3>1. graph.results \in Results /\ graph.error \in BOOLEAN /\ graph.decision \in Decisions \cup {None}
      OBVIOUS
    <3> HIDE DEF TypeOK, Results, Decisions
    <3>2. \/ result' = Result("ended", graph.error, TRUE, graph.decision, graph.results)
          \/ result' = Result("initial", FALSE, FALSE, None, graph.results)
      BY DEF Resume
    <3>3. Result("ended", graph.error, TRUE, graph.decision, graph.results) \in
            [kind : Kinds, error : BOOLEAN, required : BOOLEAN, decision : Decisions \cup {None}, results : Results]
      BY <3>1 DEF Result
    <3>4. Result("initial", FALSE, FALSE, None, graph.results) \in
            [kind : Kinds, error : BOOLEAN, required : BOOLEAN, decision : Decisions \cup {None}, results : Results]
      BY <3>1 DEF Result
    <3> QED
      BY <3>2, <3>3, <3>4
  <2>3. pc' \in {"graph", "save"} /\ resume' \in Decisions \cup {None}
    BY DEF Resume
  <2> QED
    BY <2>1, <2>2, <2>3 DEF Resume
<1>3. CASE Begin(graph.input)
  BY <1>3 DEF Begin, Checkpoint
<1>4. CASE ParseRequest
  BY <1>4 DEF ParseRequest, Routed, AtNode, Checkpoint
<1>5. CASE \E workflow \in Workflows : ClassifyIntent(workflow)
  BY <1>5 DEF ClassifyIntent, Routed, AtNode, Checkpoint
<1>6. CASE \E amount \in Amounts : IdentifyEntities(amount)
  BY <1>6 DEF IdentifyEntities, Routed, AtNode, Checkpoint
<1>7. CASE SelectWorkflow
  BY <1>7 DEF SelectWorkflow, Routed, AtNode, Checkpoint
<1>8. CASE EnterWorkflow
  BY <1>8 DEF EnterWorkflow, AtNode, Step, SavedApproval
<1>9. CASE AskAmount
  <2>1. {Said} \in Results /\ {} \in Results
    OBVIOUS
  <2> HIDE DEF Said, Entries
  <2>2. CASE Returned({Said}, FALSE, None)
    BY <2>1, <2>2 DEF Returned, Checkpoint
  <2>3. CASE Returned({}, TRUE, None)
    BY <2>1, <2>3 DEF Returned, Checkpoint
  <2> QED
    BY <1>9, <2>2, <2>3 DEF AskAmount
<1>10. CASE LlmFails
  BY <1>10 DEF LlmFails, Returned, Checkpoint, NoNode
<1>11. CASE LlmCloses
  <2>1. Said \in Entries /\ Managed \in Entries
    OBVIOUS
  <2> HIDE DEF Said, Managed, Entries
  <2> QED
    BY <1>11, <2>1 DEF LlmCloses, Returned, Checkpoint
<1>12. CASE ToolLimit
  BY <1>12 DEF ToolLimit, Returned, Checkpoint, NoNode
<1>13. CASE \E n \in 1..MaxBatch : LlmCalls(n)
  BY <1>13 DEF LlmCalls
<1>14. CASE \E tool \in Tools, ok, effect \in BOOLEAN : CallTool(tool, ok, effect)
  <2> PICK tool \in Tools, ok \in BOOLEAN, effect \in BOOLEAN : CallTool(tool, ok, effect)
    BY <1>14
  <2>1. tool \in ALL_TOOLS /\ calls + 1 \in Nat
    OBVIOUS
  <2>2. Entry(calls + 1, tool, ok) \in Entries
    BY <2>1
  <2>3. node.left - 1 \in Nat
    BY DEF CallTool
  <2> QED
    BY <2>1, <2>2, <2>3 DEF CallTool
<1>15. CASE CallRaises
  BY <1>15 DEF CallRaises, Returned, Checkpoint, NoNode
<1>16. CASE ProposeDiscount
  BY <1>16 DEF ProposeDiscount, Step
<1>17. CASE SaveApproval
  BY <1>17 DEF SaveApproval, Keep, Proposed, Approval
<1>18. CASE ReviewRefused
  BY <1>18 DEF ReviewRefused, Raised, Result
<1>19. CASE Pause
  BY <1>19 DEF Pause, Checkpoint, Result
<1>20. CASE Execute
  BY <1>20 DEF Execute, Approval, Manager
<1>21. CASE ExecutionRefused
  BY <1>21 DEF ExecutionRefused, Raised, Result
<1>22. CASE ReviewReturns
  <2>1. Said \in Entries /\ Managed \in Entries
    OBVIOUS
  <2> HIDE DEF Said, Managed, Entries
  <2> QED
    BY <1>22, <2>1 DEF ReviewReturns, Returned, Checkpoint
<1>23. CASE Respond
  BY <1>23 DEF Respond, AtNode, Checkpoint, Result, SomeFailed
<1>24. CASE SaveResult
  BY <1>24 DEF SaveResult, Approval
<1>25. CASE RecordRun
  BY <1>25 DEF RecordRun, Keeps, Status, Approval
<1>26. CASE KeepMessages
  BY <1>26 DEF KeepMessages
<1>27. CASE InvocationFails
  BY <1>27 DEF InvocationFails, Invoking, Raised, Result
<1>28. CASE Crash
  BY <1>28 DEF Crash
<1>29. CASE UNCHANGED vars
  BY <1>29 DEF vars
<1> QED
  BY <1>1, <1>2, <1>3, <1>4, <1>5, <1>6, <1>7, <1>8, <1>9, <1>10, <1>11, <1>12, <1>13, <1>14, <1>15, <1>16, <1>17, <1>18, <1>19, <1>20, <1>21, <1>22, <1>23, <1>24, <1>25, <1>26, <1>27, <1>28, <1>29 DEF Next, Progress, Route, Loop, Review, Finish

\* Every column, key and local of a request keeps its type.
THEOREM Typing == Spec => []TypeOK
<1>1. ASSUME Init PROVE TypeOK
  <2> USE <1>1 DEF Init, Results
  <2>1. graph \in Checkpoints
    BY DEF Checkpoints, Checkpoint, Amounts
  <2>2. node \in [round : Nat, left : Nat, results : Results]
    BY DEF NoNode
  <2>3. approval \in [status : {"none", "pending"} \cup Decisions, results : Results,
                      executed : BOOLEAN, saved : BOOLEAN, run : BOOLEAN]
    BY DEF NoApproval, Approval
  <2>4. result \in [kind : Kinds, error : BOOLEAN, required : BOOLEAN,
                    decision : Decisions \cup {None}, results : Results]
    BY DEF Result, Kinds
  <2> QED
    BY <2>1, <2>2, <2>3, <2>4 DEF TypeOK
<1>2. TypeOK /\ [Next]_vars => TypeOK'
  BY TypeKept
<1> QED
  BY <1>1, <1>2, PTL DEF Spec

\* The inductive invariant: each effect is where the next step looks for it.
THEOREM Invariance == Spec => []Inv
<1>1. Init => Inv
  BY DEF Init, Inv, Before, Looping, Saved, Left, Told, Closed, Result, Checkpoint, NoNode, NoApproval, Approval,
     Started, InLoop, InReview, Routing
<1>2. TypeOK /\ Inv /\ [Next]_vars => Inv'
  BY BeforeKept, LoopingKept, SavedKept, LeftKept, ToldKept, ClosedKept DEF Inv
<1> QED
  BY <1>1, <1>2, Typing, PTL DEF Spec

\* An answer without error reports every effect and no error: the tool loop
\* and formulate_response lose nothing.
THEOREM WholeAnswers == Spec => []SuccessIsWhole
<1>1. Inv => SuccessIsWhole
  BY DEF Inv, Saved, Told, SuccessIsWhole
<1> QED
  BY <1>1, Invariance, PTL

\* _record_run calls a run completed only with all its effects in the audit log.
THEOREM AuditedCompletions == Spec => []CompletedIsAudited
<1>1. Inv => CompletedIsAudited
  BY DEF Inv, Closed, CompletedIsAudited
<1> QED
  BY <1>1, Invariance, PTL

\* After review_action saved a proposal, only the manager's decision has effects.
THEOREM NothingAfterProposal == Spec => StopsAtProposal
<1>1. Inv /\ [Next]_vars =>
        [approval.status # "none" => done' \ done \subseteq {<<0, "manager_approval">>}]_vars
  <2> SUFFICES ASSUME Inv, Next, approval.status # "none"
               PROVE  done' \ done \subseteq {<<0, "manager_approval">>}
    OBVIOUS
  <2>1. CASE \E tool \in Tools, ok, effect \in BOOLEAN : CallTool(tool, ok, effect)
    BY <2>1 DEF CallTool, Inv, Looping, InLoop
  <2>2. CASE Execute
    BY <2>2 DEF Execute
  <2> QED
    BY <2>1, <2>2 DEF Next, Progress, Route, Loop, Review, Finish, Chat, Resume, Begin, ParseRequest, ClassifyIntent,
       IdentifyEntities, SelectWorkflow, Routed, EnterWorkflow, AskAmount, Step, LlmFails, LlmCloses, ToolLimit,
       LlmCalls, CallRaises, ProposeDiscount, Returned, SaveApproval, ReviewRefused, Pause, ExecutionRefused, Raised,
       ReviewReturns, Respond, SaveResult, RecordRun, KeepMessages, InvocationFails, Crash
<1> QED
  BY <1>1, Invariance, PTL DEF Spec, StopsAtProposal

-----------------------------------------------------------------------------
(* Without a fault, what the agent_runs and audit_logs rows say of the     *)
(* request.  The row is written last, so that what it will say is followed *)
(* through the approval, the checkpoint and the answer.                    *)

\* A call in progress, and the answer of the call before it.
Answered == result.kind # "none" /\ pc # "begin"
Over == result.kind # "none" /\ pc \in {"save", "record", "messages", "idle"}

\* audit_node leaves a row for each routing node behind the checkpoint.
Trail ==
  Answered =>
    /\ row # "none"
    /\ graph.next # "parse_request" => <<"parse_request", "ok">> \in visits
    /\ graph.next \notin {"parse_request", "classify_intent"} =>
         <<"classify_intent", "ok">> \in visits
    /\ graph.next \notin Routing \ {"select_workflow"} => <<"identify_entities", "ok">> \in visits
    /\ graph.next \notin Routing => <<"select_workflow", "ok">> \in visits

\* Only a request that has proposed waits, and only a resumed one is decided:
\* a saved proposal is always behind a checkpointed pause.
Deciding ==
  /\ resume # None => approval.status = resume
  /\ approval.executed => approval.status \in Decisions
  /\ approval.status # "none" /\ graph.next = "workflow" /\ pc # "pause" => graph.paused
  /\ pc = "pause" => resume = None /\ approval.status = "pending"

\* The node of a proposal is not the one an empty request is sent to, so a
\* pause carries no error.
Proposing ==
  /\ graph.next \in Routing \cup {"workflow"} /\ graph.error =>
       graph.workflow = "customer_management"
  /\ pc \in {"review", "pause"} => graph.workflow \in {"create_quote", "issue_resolution"}

\* What the row will say once it is written, and what it says after that.
Reporting ==
  /\ Over => graph.next \notin Routing
  /\ result.kind = "ended" => (result.required <=> result.decision # None)
  /\ pc = "save" => result.kind = "ended"
  /\ pc = "record" =>
       /\ result.kind = "paused" => approval.status = "pending" /\ ~result.error
       /\ result.kind \in {"ended", "raised"} => approval.status # "pending"
  /\ Over /\ pc \in {"idle", "messages"} =>
       /\ row \notin {"none", "running"}
       /\ row = "waiting_approval" <=> approval.status = "pending"

Faultless ==
  failures = 0 =>
    /\ result.kind = "none" \/ pc = "begin" => row = "none" /\ resume = None
    /\ Trail /\ Deciding /\ Proposing /\ Reporting

\* Each step keeps what the rows will say, as long as no fault happens.
LEMMA FaultlessKept ==
  ASSUME TypeOK, Inv, Faultless, [Next]_vars
  PROVE  Faultless'
<1> SUFFICES ASSUME failures' = 0 PROVE Faultless'
  BY DEF Faultless
<1>0. ~Faulty /\ failures \in Nat
  BY DEF Faulty, TypeOK
<1> USE ParameterTypes, <1>0 DEF Faultless, Answered, Over, Trail, Deciding, Proposing, Reporting,
        Inv, Before, Looping, Saved, Told,
        Visited, local, outcome, Started, InLoop, InReview, Routing
<1>1. CASE \E input \in Inputs : Chat(input)
  BY <1>1 DEF Chat, Initial, Result, Checkpoint
<1>2. CASE \E d \in Decisions : Resume(d)
  BY <1>2 DEF Resume, Result, Approval, Decisions
<1>3. CASE Begin(graph.input)
  BY <1>3 DEF Begin, Checkpoint
<1>4. CASE ParseRequest
  BY <1>4 DEF ParseRequest, Routed, AtNode, Checkpoint
<1>5. CASE \E workflow \in Workflows : ClassifyIntent(workflow)
  <2> PICK workflow \in Workflows : ClassifyIntent(workflow)
    BY <1>5
  <2>1. graph'.error => graph'.workflow = "customer_management"
    BY DEF ClassifyIntent, Routed, Checkpoint
  <2> QED
    BY <2>1 DEF ClassifyIntent, Routed, AtNode, Checkpoint
<1>6. CASE \E amount \in Amounts : IdentifyEntities(amount)
  BY <1>6 DEF IdentifyEntities, Routed, AtNode, Checkpoint
<1>7. CASE SelectWorkflow
  BY <1>7 DEF SelectWorkflow, Routed, AtNode, Checkpoint
<1>8. CASE EnterWorkflow
  BY <1>8 DEF EnterWorkflow, AtNode, Step, SavedApproval, RefundQuestion
<1>9. CASE AskAmount
  BY <1>9 DEF AskAmount, AtNode, SavedApproval, Returned, Checkpoint
<1>10. CASE LlmFails \/ LlmCloses \/ ToolLimit
  BY <1>10 DEF LlmFails, LlmCloses, ToolLimit, Returned, Checkpoint
<1>11. CASE (\E n \in 1..MaxBatch : LlmCalls(n))
  BY <1>11 DEF LlmCalls
<1>12. CASE \E tool \in Tools, ok, effect \in BOOLEAN : CallTool(tool, ok, effect)
  BY <1>12 DEF CallTool
<1>13. CASE CallRaises
  BY <1>13 DEF CallRaises, Returned, Checkpoint
<1>14. CASE ProposeDiscount
  BY <1>14 DEF ProposeDiscount, Step
<1>15. CASE SaveApproval
  BY <1>15 DEF SaveApproval, Keep, Proposed, Approval, Decisions
<1>16. CASE ReviewRefused
  BY <1>16 DEF ReviewRefused, Raised, Result
<1>17. CASE Pause
  BY <1>17 DEF Pause, Checkpoint, Result
<1>18. CASE Execute
  BY <1>18 DEF Execute, Approval, TypeOK, Decisions
<1>19. CASE ExecutionRefused
  BY <1>19 DEF ExecutionRefused, Raised, Result, TypeOK, Decisions
<1>20. CASE ReviewReturns
  BY <1>20 DEF ReviewReturns, Returned, Checkpoint
<1>21. CASE Respond
  BY <1>21 DEF Respond, AtNode, Checkpoint, Result, SomeFailed, Decisions
<1>22. CASE SaveResult
  BY <1>22 DEF SaveResult, Approval, Decisions
<1>23. CASE RecordRun
  BY <1>23 DEF RecordRun, Keeps, Status, Approval
<1>24. CASE KeepMessages
  BY <1>24 DEF KeepMessages
<1>25. CASE InvocationFails \/ Crash
  BY <1>25 DEF InvocationFails, Crash
<1>26. CASE UNCHANGED vars
  BY <1>26 DEF vars
<1> QED
  BY <1>1, <1>2, <1>3, <1>4, <1>5, <1>6, <1>7, <1>8, <1>9, <1>10, <1>11, <1>12, <1>13, <1>14,
     <1>15, <1>16, <1>17, <1>18, <1>19, <1>20, <1>21, <1>22, <1>23, <1>24, <1>25, <1>26
     DEF Next, Progress, Route, Loop, Review, Finish

\* The rows of a request without a fault, from the first call on.
LEMMA FaultlessInvariance == Spec => []Faultless
<1>1. Init => Faultless
  BY DEF Init, Faultless, Answered, Over, Trail, Deciding, Proposing, Reporting, Result, Checkpoint,
     NoApproval, Approval, Routing
<1>2. TypeOK /\ Inv /\ Faultless /\ [Next]_vars => Faultless'
  BY FaultlessKept
<1> QED
  BY <1>1, <1>2, Typing, Invariance, PTL DEF Spec

\* Between the calls of a request without a fault, its run waits for approval
\* exactly while the approval is pending, is finished otherwise, and has the
\* audit rows of every routing node.
THEOREM RowsFollow == Spec => []RowFollowsRequest
<1>1. TypeOK /\ Faultless => RowFollowsRequest
  <2> SUFFICES ASSUME TypeOK, Faultless, failures = 0, pc = "idle", result.kind # "none"
               PROVE  /\ row = "waiting_approval" <=> approval.status = "pending"
                      /\ row \notin {"none", "running"}
                      /\ Routing \subseteq {v[1] : v \in visits}
    BY DEF RowFollowsRequest
  <2>1. \A n \in Routing : <<n, "ok">> \in visits
    BY DEF Faultless, Trail, Answered, Reporting, Over, Routing
  <2>2. ASSUME NEW n \in Routing PROVE n \in {v[1] : v \in visits}
    <3>1. <<n, "ok">>[1] = n
      OBVIOUS
    <3> QED
      BY <2>1, <3>1
  <2> QED
    BY <2>2 DEF Faultless, Reporting, Over
<1> QED
  BY <1>1, Typing, FaultlessInvariance, PTL

=============================================================================

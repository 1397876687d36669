# A TLA+ model of the AI Operations Manager

The program is an operations agent for an office supplier: a LangGraph agent
behind a FastAPI service, with its business rules in service classes and its
state in PostgreSQL. The models here are about what is hard to test in it:
conversations that pause for a manager and resume days later in another
process, sessions that interleave on the same rows, sweeps that run twice, and
crashes between two commits.

## The system

| Component | State | Operations | Hard behaviour |
|---|---|---|---|
| Human approval (`agents/agent_service.py`, `agents/graph/nodes/approval_helpers.py`, `create_quote_node.py`, `resolve_issue_node.py`, `backend/app/services/quote_service.py`, `approval_repository.py`) | `quotes`, `approval_requests`, one checkpoint per conversation, an advisory lock per conversation | `run_agent`, `resume_agent`, `review_action`, quote tools | crashes between database commits and checkpoint writes, retries, contradictory decisions, several conversations on one quote |
| Checkpoints (`agents/memory/checkpointer.py`) | LangGraph state per thread | `get_state`, `invoke`, `update_state` | `MemorySaver` fallback forgets everything at a restart |
| Orders and inventory (`order_service.py`, `inventory_service.py`, repositories, tools) | `orders`, `products.stock_quantity`, the `inventory` ledger | fulfil, change status, adjust stock, check feasibility | row locks taken one by one, deadlocks, partial failures, lost updates |
| Follow-ups (`scheduler/jobs.py`, `followup_repository.py`, `execution_service.py`, `routes/tasks.py`, `routes/internal.py`, `routes/invoices.py`) | `followup_tasks` | create, sweep, claim, settle, remind | three triggers of the same sweep, claims that outlive their worker, workers that outlive their claim |
| Communications (`communication_service.py`, `execution_service.py`, `log_communication`) | `communications` | record, complete a task on a record, mark sent or failed | the row a task completes on must be its own; outcomes written from an unlocked read |
| Invoices and payments (`invoice_service.py`, `invoice_tools.py`) | `invoices`, `payments` | record a payment, refresh the status, list overdue, remind | concurrent payments, a stored status that midnight makes stale, unlocked reads of two tables |
| Pricing (`quote_service.py`) | amounts of `quotes`, `quote_line_items`, `orders` | create, edit lines, discount, convert | rounding to the cent, approved price against charged price |
| Business policy (`rag/`) | `documents`, `document_chunks`, the dimension of `embedding` | ingest, force, search, migrate | a document committed before its chunks, overlapping jobs, a failed replacement |
| Connection pools (`database.py`, `checkpointer.py`, routes) | connections lent to sessions | every route, job and tool | a pool exhausted by calls that wait for a model |
| Agent graph (`agents/graph/`) | `AgentState` | routing, six workflow nodes with a tool loop, response | tool-round limit, partial batches, tools that committed before an error |
| Telemetry (`_record_run`, `core/audit.py`) | `agent_runs`, `audit_logs` | best-effort writes | what a run is said to have done against what it did |
| Customers, identity, prompts, migrations, seeds | | read-only or one-off | |

A chat request enters `run_agent`, which takes a try-lock on the conversation,
refuses one whose graph is unfinished, and invokes the graph. One workflow node
runs; its language model chooses tools, and each tool is a session of its own
on the services. A discount above the customer's limit, or a refund above the
threshold, is proposed: `review_action` saves the proposal and holds the quote
in one transaction, then interrupts the graph, which saves the pause in the
checkpoint. A manager's call enters `resume_agent`, which takes the same lock,
persists the decision, and sends it into the checkpoint; `review_action` runs
again and executes the saved proposal in a second transaction; the response
node ends the graph and the result is saved in the approval row. The scheduler
and two endpoints run `process_due_followups`, which calls `run_agent` for each
task it claims. An approved quote is converted into an order, whose fulfilment
is a session of the order service.

What makes each component correct: a discount is authorized and a quote is held
by exactly the approval that will decide it; decisions are final and executed
once; stock equals its ledger and an order is booked whole and once; a task runs
once, settles, and is completed only with evidence of its own; an invoice is
never overpaid and its status says what was paid; an order charges what was
approved; an answer without error leaves out nothing that was done; a search sees
whole policies; and no call waits for a model while it holds a connection that
others wait for.

## The modules

| Module | Models |
|---|---|
| `QuoteBook` | quotes, approval rows and the rules about one row, shared by the next two |
| `QuoteDesk` | the abstract approval of discounts and refunds: what happens to the two tables |
| `QuoteApproval`, `QuoteApproval_proofs` | the same as calls with checkpoints, locks, crashes and retries, implementing `QuoteDesk` |
| `OrderBook` | orders, products and the status machine, shared by the next two |
| `Warehouse` | the abstract order and inventory services: every operation at once |
| `Fulfillment`, `Fulfillment_proofs` | the same services as sessions with row locks, implementing `Warehouse` |
| `Followups`, `Followups_proofs` | tasks, sweeps, reminders and the communications they record |
| `InvoiceBook` | invoices and the rules of their status, shared by the next two |
| `Receivables` | the abstract invoice service: every operation at once |
| `Invoices`, `Invoices_proofs` | the same service as sessions of two statements, implementing `Receivables` |
| `Pricing`, `Pricing_proofs` | line items, totals, discounts and orders in cents |
| `AgentRun`, `AgentRun_proofs` | one request through the graph, its tool loop, its answer and its telemetry |
| `Communications`, `Communications_proofs` | the rows of the log, the evidence of a task, the outcome of a delivery |
| `PolicyIndex` | ingestion of policies, searches and the migration of the column |
| `Connections` | the connection pools under all calls |
| `SharedByCalls_proofs` | proofs about `PolicyIndex` and `Connections`, what all calls of the service share |
| `MC...` | instances of the above for TLC |

The modules meet where the code does. `QuoteApproval` follows many requests over
few writes and lets a node call any tool at any time; `AgentRun` follows one
request through every node and takes the approval row as it is. `Pricing` is what
`apply_discount` and `convert` do to amounts that `QuoteApproval` carries as a
percentage. `Followups` counts the communications of a task; `Communications`
says which row is meant. `Connections` has the transactions of all of them in
order, without their data.

### QuoteBook, QuoteDesk, QuoteApproval

*State.* `quote[q]` is the row's status, its discount, its `approval_id` and
whether `expires_at` has passed. Nothing else changes the price of an existing
quote (the line-item methods of `QuoteService` have no caller), so the discount
stands for `subtotal` and `total`. `approval[r]` is the `approval_requests` row
of request `r`: `approval_key` derives its id from the request, so a request has
at most one. `executed` is the presence of `execution_result` in the payload and
`saved` that of `final_result`, which is `"paused"` when the saved state was
that of an interrupt. `checkpoint[t]` is what `get_state` shows: the request,
`snapshot.next`, whether a task holds an interrupt, and the decision. `call[w]`
is a call in progress and where it stands between two writes; the advisory lock
of a conversation is the existence of such a call, since it lives on the call's
own connection.

*Actions.* One per database transaction or checkpoint write.
`StartChat` ... `Respond` are `run_agent` and the node; `SaveProposal` and
`Pause` are the first transaction of `review_action` and its `interrupt`;
`Decide` ... `SaveResult` are `resume_agent`, where `ExecuteApproval`,
`ExecuteRejection`, `RecordRefundReview` and `SkipExecution` are the outcomes of
the second transaction. A refusal that changes nothing is an action only if it
ends a call (`RefuseStaleProposal`, `RefuseExecution`, `RefuseCheckpoint`); the
409 of a busy or unfinished conversation is a guard. `Fail` ends a call between
any two writes, which is a killed process, a lost connection or an exception
that leaves the graph; `Restart` is the same for all with the in-memory
checkpointer. The language model is the environment: in a node any tool may be
called, any number of times.

*The contract.* `QuoteDesk` is what a reader of `quotes` and `approval_requests`
may rely on, in one action per change: a proposal takes hold of a quote only as
it is at that moment and only beyond the customer's limit; a decision is
repeated but never changed, and not after it was answered; it is executed once,
on a quote held by this approval at the price that was proposed; an answer says
"done" exactly if it was executed. `QuoteApproval` has to get there by reading
the quote in one session and holding it in another, by finding out from the
checkpoint how far an earlier call came, and by answering from a call that did
not execute anything itself.

*Left out.* The wording of results, the identity checks of `resolve` (a caller
without the role changes nothing), the two-decimal check of percentages, quote
statuses `rejected` and `expired` (nothing sets them).

### OrderBook, Warehouse, Fulfillment

`session[w]` is an open session: which statement comes next, the row locks it
holds, and the writes it has flushed and not committed. `CheckLine` is one call
of `check_stock`, whose `get_by_id` is a `SELECT ... FOR UPDATE` that refreshes
what it reads; `WriteLine` is one call of `update_inventory`, which reads under
a lock the session already has. A session that waits for a row cannot step;
`Abort` is PostgreSQL ending a session of a deadlock and `Die` any loss of a
session before its commit. `update_order_status` and `fulfill_order` are one
action because `transition_status` calls `fulfill_order` for `processing`.
`BeginSurvey` is `check_fulfillment_feasibility`, which locks the products it
reads in the caller's order. `net` and `taken` are sums over the `inventory`
ledger: per product, and per product and order.

`Units` gives the running sum of an order's lines as a constant that an
assumption defines, so that proofs can use it without recursion.

### Followups

`task[f]` is the row, with `due` and `stale` for the two comparisons with the
clock. `sweep[w]` is a run of `process_due_followups`, which on Vercel takes one
task (`Limits`), or a reminder request of
`POST /invoices/{id}/remind`, which inserts a task that is already in progress
and runs it in the request (`Remind`). The agent run in the middle is its own
conversation with a fresh id, so it is only what it records
(`LogCommunication`) and how it ends (`EndRun`); a communication stands for an
outbound one that matches the task. `CompleteUnheard` is a `mark_completed`
whose commit succeeded and whose refresh raised, so that the handler calls
`mark_failed` on a completed task. The status `cancelled` is never set.

### InvoiceBook, Receivables, Invoices

`session[w]` is a transaction between two SQL statements: `get_with_payments`
selects the invoice (`FOR UPDATE`) and then its payments, so a session that
locks nothing may read them from before and after another's commit. The kind of
`Begin` is the caller: `pay` is `record_payment`, `refresh` is `refresh_status`,
`days` is `get_days_overdue` and `show` the `get_invoice` tool, all under the row
lock; `list` is the overdue listings and `remind` the guard of
`POST /invoices/{id}/remind`, which take no lock. `Claims` is what each then says:
days overdue only of an issued invoice with a balance, except that `get_invoice`
says it of a draft too and does not look at the balance. `OverdueIsExact`
compares that with the tables. The locked reads are exact. A listing leaves out
no overdue invoice, a reminder refuses only one that was a draft when it was
read, and both state the unpaid amount; but they may be about an invoice
cancelled after its row was read, and the property says so. `past[i]` is the due
date against today and may change between any two statements; `Accept` may use
an `as_of` of today or of a day before. `record_payment` has no caller in the
program, and nothing issues or cancels an invoice: payments are sessions of any
caller, `Issue` and `Cancel` are external updates.

### Pricing

One quote, in cents and hundredths of a percent. Every operation locks the
quote's row before it reads it, so each is one step; what two of them do to each
other is in `QuoteApproval`. `TotalsOf` is `recalculate_quote`: the subtotal of
the lines, the discount rounded half up, and an overflow of `Numeric(12, 2)`
that rolls everything back. `Propose`, `Approve` and `Reject` are the writes of
`review_action`. `granted` is a history variable: the lines, percentage and total
that a rule or a manager approved last.

### AgentRun

One request with its calls, one after another under the lock of its
conversation: `Chat`, then `Resume` until the approval has a saved result, each
retried after a crash. `graph` is the checkpoint, `node` the locals of the
workflow node, which a crash or a replay forgets, `result` the dictionary that
the call returns, `row`, `visits` and `audited` the telemetry, `done` the effects
tools have committed. `LlmCalls`, `LlmCloses` and `LlmFails` are one answer of the
language model, with any batch of calls, without calls, or an error; `CallTool` one
call with any outcome, `CallRaises` the exception that makes the node return an
error, `ProposeDiscount` the approval that leaves the loop. An outcome is an effect
or none, and a result that starts with "Error" or does not, which is all that
`formulate_response` looks at. A tool that changes state answers without "Error"
only when it did, but for `update_inventory`, whose "Product ... not found." counts
as success (`Harmless`); the run includes it. The classification and the extracted amount are arbitrary. Every
telemetry write may fail on its own; `InvocationFails` is an exception out of
the graph, `Crash` the death of the process.

### Communications

`log` is the table in the order of its ids; `run[t]` is a follow-up or reminder
with the ids that its own `log_communication` calls returned, and `Complete` is
`require_logged_communication`, which takes the first result that names an
outbound row of the task's customer and entity. The language model chooses
customer, direction and entity freely, and chats log rows in between.
`ReadPending` and `WriteOutcome` are `mark_sent` and `mark_failed`, which decide
on an unlocked read and write at their caller's commit; only tests call them.

### PolicyIndex

`document[d]` and `chunks[d]` are committed rows, `job[j]` a run of
`python -m rag.ingestion` between two statements: the check on `source_path`,
the deletion of a forced run and its commit, the document and its commit, one
insertion per chunk and the commit of all. Inserting a chunk locks its document
against deletion, which `Pinned` says; ids are never shared. An exception ends
the job, and `Refuse` is the insertion of a vector of the wrong dimension or of
a document that was deleted. `Upgrade` is revision 002. Two histories are kept
for the properties: `ingested[f]` says whether a file was ever ingested and lost
since by a failed replacement or the migration, `renewed[j]` which files the
present or last run of `j` has ingested itself. How a text is cut, its vectors, and
the ranking are left out: a file is a number of sections, and a search sees the
chunks that join to a document.

### Connections

`path[t]` is what a thread serves: the sequence of its transactions,
checkpointer uses, model calls and the conversation's lock, each with the depth of
the `try` and `with` blocks around it. `Acquire` takes a connection at a
session's first statement; `Finish` commits, rolls back or closes; `Raise` is any
error or the timeout of an empty pool, and goes on at the handler; `Drop` is an
error that is logged and dropped. A session keeps its connection after
an operation only where the code leaves its transaction open. `Close` is the
end of `get_db`. A decision has four ways through the graph (`ResumeAgent`): the
node executes it, only the answer is left, the node pauses again, or the graph had
ended and its result is recovered; a fifth returns the saved result (`Replay`). Whether a lock is granted, and what the transactions do, is in
the other modules: here every path may be taken. The specification is called
`CallsSpec`, with `CallsInit` and `CallsNext`, so that one module can hold the
proofs about it and about `PolicyIndex`.

## The runs

| Run | Specification | Instance | Checks |
|---|---|---|---|
| `MCQuoteApproval` | `Spec` | 1 quote, 3 requests, 2 conversations, 2 calls, discounts 0, 10, 20, 30 against a limit of 10, 1 failure or restart with in-memory checkpoints, expiry | `DiscountAuthorized`, `HeldByItsProposal`, `DecisionIsFinal`, `RejectionPreserves`, `Contract` |
| `MCQuoteApprovalRetry` | `FairSpec` | 2 requests, 2 conversations, 2 calls, discount 20, 2 failures, PostgreSQL checkpoints, expiry | `WorksOnOwnCheckpoint`, `PauseIsKept`, `RetryExecutes` |
| `MCQuoteApprovalPending` | `Spec` | 2 requests, no failure | `PendingIsResolvable`, violated |
| `MCFulfillment` | `FairSpec` | 2 orders over 2 products in opposite orders, one with two lines for a product, stock for one of them, 2 sessions, surveys in both orders, 2 adjustments | `TypeOK`, `StockMatchesLedger`, `BookedOnce`, `Serializable`, `EveryCallEnds` |
| `MCFollowups` | `FairSpec` | 2 tasks, 3 workers, 2 failures, limited and unlimited sweeps, runs that may outlast their claim | `RunOnce`, `CompletedIsLogged`, `FailedIsQuiet`, `EveryTaskSettles` |
| `MCInvoices` | `Spec` | 2 invoices of 2 and 3, payments of 1 and 2, 2 sessions | `NeverOverpaid`, `StatusFollowsPayments`, `OverdueIsExact`, `Serializable` |
| `MCPricing` | `Spec` | 2 items, prices 0, 2 and 7 cents, quantities 0 to 2, percentages below, between and above the limits, amounts up to 18 cents | `TotalsAddUp`, `NearestCent`, `OrderAsApproved` |
| `MCAgentRun` | `FairSpec` | 1 request, quote, refund, customer and stock workflows, batches of 2 calls, 2 rounds, 2 faults | `SuccessIsWhole`, `CompletedIsAudited`, `RowFollowsRequest`, `StopsAtProposal`, `CallsEnd` |
| `MCCommunications` | `Spec` | 2 tasks of one customer, 2 customers, 2 entities, 2 senders, 2 rows | `EvidenceIsOwn`, `SentHasTime` |
| `MCPolicyIndex` | `FairSpec` | 2 files of 2 sections, 2 jobs forced or not, 2 failures, the migration at any time | `TypeOK`, `AllOrNothing`, `NoGap`, `ForcedRunIsComplete`, `ForcedRunsRepair` |
| `MCPolicyIndexSkipped` | `Spec` | 1 unforced job, 1 failure | `SkippedIsIngested`, violated |
| `MCConnections` | `CallsFairSpec` | pools of 1 connection each, 2 threads, every path | `CallsTypeOK`, `WaitersHoldNothing`, `NothingLeaks`, `EveryCallEnds` |

*Bounds.* Three requests on one quote are the least with a proposal that is
overtaken twice; two conversations let one lock exclude and another not; the
four percentages are below, at and above the customer's limit and above the cap.
One failure per behaviour reaches every crash point of every call, two reach a
crash of the retry (`MaxFailures`). Two orders and two products deadlock, the
stock suffices for either order and not for both, and two adjustments
(`MaxAdjustments`) restock or drain it in between. Three workers are two that
race for a claim and one that sweeps it as stale; one communication per task
(`MaxLogs`) is all that its settlement looks at. `Documents` is the number of
ids of `documents`; with 6 no insertion ever waits for a free one. `Rounds` is 2 where the code has 6: one round that
continues and one that meets the limit. `MaxBatch` 2 is a batch with a call after
the one that commits, fails or proposes. `MaxAmount` 18 stands for the largest
value of `Numeric(12, 2)`, so that a few cents overflow it. `MaxRows` 2 is a row
for each task to confuse. In `Connections` a
tool round repeats what a path has anyway, a model call and a transaction of
its own (the check for a saved approval and `review_action` are such
transactions), so the run takes the paths without rounds (`Rounds` 0), and a
pool of one connection is the hardest for two threads.

*Deadlock* is checked wherever the system always has a next call.
`CHECK_DEADLOCK FALSE` is set for `QuoteApproval`, `Pricing`, `AgentRun` and
`Communications`, whose instances may stop: all requests used and settled, the
quote converted, the request answered, the log full of settled rows.

*Fairness.* `QuoteApproval`: a call in progress reaches its next write, and a
manager's client that got an error retries the same decision; the latter is
strong because other calls take the conversation's lock in between, and the
error text asks for exactly this retry. `RetryExecutes` is about approvals whose
pause was saved; what becomes of the others is `MCQuoteApprovalSaved.cfg`. `Fulfillment`: a session goes on when it
can, strongly because the row it waits for may be taken by another, and
PostgreSQL queues the waiters of a row. `Followups`: the interval job keeps
starting sweeps, a sweep goes on, an agent run ends, and time passes; nothing
requires a run to record anything or a crash to happen. `PolicyIndex`: the start
command migrates the database, a running job goes on, and some operator runs an
ingestion again. The property is about forced runs that no other run overlaps,
because two forced jobs may delete each other's work for ever. `AgentRun`: the
thread that holds the lock runs on, and the model answers or times out.
`Connections`: both pools serve their waiters in turn, so a thread that could
proceed again and again does; no timeout of a pool is counted on, since a call
that ends by one has failed its user.

## What the models showed

Two runs expect a violation and have one of the program's promises as their
property.

* **A conversation refused for ever** (`PendingIsResolvable`). A stale proposal
  raises past the node's error handling, so the node stays next in the
  checkpoint while no approval exists. The message says to retry, and
  `run_agent` refuses every retry in that conversation.
* **A policy that is never ingested** (`SkippedIsIngested`). The document is
  committed before its chunks; after a failure in between, every unforced run
  takes the file for ingested and no search can find it.

Nine further configurations are kept beside the runs. Each has one property,
taken from a document, comment or test, and TLC answers with a trace.

* `MCQuoteApprovalSaved.cfg` (`SavedResultIsFinal`): when `review_action` has
  committed its row and the pause was not written, the manager's call re-runs
  the node without a command, the graph pauses again, and `resume_agent` saves
  that pause as `final_result`. Every later call returns it and the approval is
  never executed. `PauseIsKept` and `RetryExecutes` therefore begin when the pause
  is saved.
* `MCQuoteApprovalRecover.cfg` (`ResultIsRecoverable`): a finished graph does not
  refuse a new chat, whose input overwrites the checkpoint from which
  `resume_agent` would recover the result of a decision already executed.
* `MCQuoteApprovalLinked.cfg` (`DiscountIsLinked`): an approved quote can be
  proposed a second discount, which takes over `approval_id`; rejecting it sets
  the link to `None`, not back to the first approval, so the quote keeps its
  first discount and has no link to the decision that gave it.
* `MCFollowupsFailed.cfg` (`FailuresRemain`): `mark_completed` does not look at the
  status it replaces, so a run that outlasts its claim turns a task failed by
  the stale sweep into a completed one. `FailedIsQuiet`, which holds, says that
  only such a run does so.
* `MCPolicyIndexOpenAI.cfg` (`ForcedRunsRepair`): with `EMBEDDING_BACKEND=openai`
  a vector has 1536 values and revision 002 has made the column 384 wide, so
  every insertion is refused and what a forced run had deleted stays deleted.
* `MCAgentRunAudit.cfg` (`FinishedIsAudited`): a proposal refused by
  `review_action` leaves the graph by an exception, and `run_agent` answers from
  its initial state: the tools that the request had run are in neither the
  answer nor the audit log.
* `MCAgentRunKept.cfg` (`CompletedIsKept`): only `run_agent` appends a turn to the
  messages of the conversation, so one that needed a manager completes without.
* `MCAgentRunStock.cfg` (`InventoryIsReadOnly`): `README.md` calls the inventory
  workflow read-only, and its node binds three tools that change stock and
  orders.
* `MCCommunicationsFinal.cfg` (`SentIsFinal`): of two sessions that read the same
  pending row, the later one marks a sent communication failed. Only tests call
  the two methods. `SentHasTime`, which holds, is about the time stamp only.

## What is proved

Each module has its proofs beside it, or in `SharedByCalls_proofs`. Every theorem is of the
form `Spec => []Invariant`, `Spec => [][Action]_vars` or `Spec => Abstract!Spec`, for every value of the
constants, under the assumption that the module names next to them (types of
the parameters, limits at most the cap, lines that are not empty, `Units` adding
up the lines, distinct values for `None`). A run checks the same property on
its instance; type correctness is proved everywhere.

* `QuoteApproval_proofs`: `TypeCorrect`, `DiscountIsAuthorized`, `QuoteIsHeld`,
  `DecisionStands`, `RejectionGivesBack`, `ConvertedStaysFrozen`. Executing an
  approval needs to know that the decision a call carries is the persisted one
  (`DecisionCarried`, proved with the types), and that an executed row is
  decided and one still to be executed was proposed from a draft or an approved
  quote (`RowsSound`). `ApprovalInv` is `RowsSound` with the two invariants,
  which support each other: a discount above the limit can only appear through
  a row that holds its quote, and a held quote cannot be given another
  discount. One lemma per kind of action states its effect on the rows; each
  conjunct follows from the effects. Neither the locks nor the checkpoints occur
  in `ApprovalInv`: the rows protect themselves. `OwnCheckpoint` and `PauseSurvives`
  are about the graph, and need `GraphInv`: a conversation has one call
  (`OneCall`), a call past its first test works on the checkpoint of its own
  request and knows which node is next in it (`OnCheckpoint`), it has not
  proposed before it proposes (`OnRow`), and a request id is used in one
  conversation (`OneThread`). One lemma says what every kind of step does to the
  calls and checkpoints (`GraphSteps`), the others that a move of one call keeps
  the invariant. Part of it is that an approval still to be executed has its conversation at the
  node that proposed it (`LiveAtNode`), since a chat that overwrote a checkpoint
  would leave the later calls without theirs. That alone does not make a decision
  effective, as the call that died before its pause shows; `PauseSurvives` follows
  the approvals whose pause is saved and that nobody has answered (`Waiting`), and
  shows for every kind of step that only their execution ends that.
  `Refinement` (`Spec => Contract`) says that the two tables change as `QuoteDesk`
  says. The mapping is the identity, and the work is in the steps whose guard in
  the code is about something else than the guard in the contract. `DeskInv` has
  what they need: what waits to be saved is beyond the limit although the tool's
  session is closed (`OffersOnly`); a manager's call is about an approval that is
  still unanswered (`ToldOnce`, since `resume_agent` looks for a result only when
  it starts); a call that answers "done" comes after the execution, and one that
  answers "paused" before it (`Progress`), which it knows from the checkpoint it
  found: past the node means executed, and a node that is next in the checkpoint
  of an executed approval holds its interrupt (`CheckpointTells`). A restart that
  loses the checkpoints keeps all four. `ConvertedStaysFrozen` is a consequence of
  the contract too, and is proved directly.
* `Fulfillment_proofs`: `Typing`, `LedgerKept`, `Booked` and `Refinement`, that the
  sessions implement `Warehouse`. No row is locked by two sessions
  (`Exclusive`), and a session's reads stay true while it holds the locks it
  took for them (`Sound`), so a commit is one step of the abstract operation and
  everything else a stutter.
* `Invoices_proofs`: `NoOverpayment`, `StatusAgreement`, `OverdueExactness`,
  `Typing` and `Refinement`, that the sessions implement `Receivables`. What a
  locking session has read is still what the tables hold (`ReadIsCurrent`), and
  one session at most has an invoice's lock (`LockedOnce`). What a session that
  locks nothing has read is not; but an invoice never goes back to draft or leaves
  paid or cancelled, so what it has seen tells what can have followed (`SeenLasts`),
  which is what `OverdueExactness` needs.
* `Followups_proofs`: `AtMostOnce`, `CompletionIsEvidenced`, `FailureIsQuiet`,
  `Typing`. A task's attempts tell whether it was ever claimed (`ClaimedOnce`),
  whoever runs it claimed it alone (`RunnerClaimed`), and a result that names a
  communication has one (`ResultIsLogged`). `FailureIsQuiet` needs that a task in
  progress and not stale is settled by its runner only, who then neither records
  for it nor completes it (`RunIsOpen`).
* `SharedByCalls_proofs`, about `PolicyIndex`: `NoPartialPolicy`,
  `GapsAreExplained`, `ForcedSuccess`, `Typing`. A job's document is its file's or
  deleted, and is not deleted once it has uncommitted chunks (`OwnDocument`); the
  files behind a forced job were ingested by this run of it (`Behind`).
* `Pricing_proofs`: `Rounding`, `Totals`, `OrdersAsApproved`, `Typing`. `HalfUp`,
  `DiscountMiss` and `Nearest` say that the rounding misses by half a cent at
  most and never by half a cent downwards, hence is the nearest; an approved
  quote is still what was granted, because every edit makes it a draft. What
  the fold `Subtotal` computes is left to TLC.
* `AgentRun_proofs`: `WholeAnswers`, `AuditedCompletions`, `NothingAfterProposal`,
  `Typing`. The invariant says where what was done is kept as the request
  proceeds, and that a list of results without error is one of calls without error:
  nowhere yet (`Before`), in the locals of the node (`Looping`), in the
  approval (`Saved`), in the checkpoint (`Left`), in the answer (`Told`), in the
  audit log (`Closed`). `RowsFollow` is about requests without a fault, and its
  invariant `Faultless` says what a row will say once it is written: a call that
  ends knows whether it pauses, a decided approval is behind a pause that was
  saved, an empty request never proposes, and the audit rows follow the
  checkpoint from node to node.
* `Communications_proofs`: `OwnEvidence`, `TimedOutcomes`, `Typing`. Two runs never
  share a row (`Disjoint`), and the evidence of a completed task is a result of
  its own run (`Evidenced`).
* `SharedByCalls_proofs`, about `Connections`: `PoolsBounded`,
  `NobodyHoldsAndWaits`, `NothingLeft`, for any number of threads and rounds and
  any sizes of the pools. Most of the proof is about the paths, which are built
  of concatenations: an operation keeps its session only if it takes the lock and
  everything up to where the lock is given up is inside its block, or if it is
  the last but for handlers and `get_db` closes it (`KeepsSoundly`). `PathsSound`
  proves that of every path, from its parts. The invariant `HoldingInv` then
  follows a thread: beside the operation's own session it holds at most the
  lock, inside the block (`Holding`), and what a pool has lent is finite and at
  most its size (`Lent`). An error goes to the next handler outside its block,
  which the `finally` of the lock is, or is before it.

Every safety property of a passing run is stated by a theorem. Only
model-checked are the liveness properties `RetryExecutes`, `EveryCallEnds` (of
`Fulfillment` and of `Connections`), `EveryTaskSettles`, `ForcedRunsRepair` and
`CallsEnd`, which are out of the prover's reach.

## Not modelled

* Customers: read-only lookups. The language model and its prompts are the
  environment: it may name any tool, classify anything and say anything.
* HTTP parsing, response schemas, listings and the check of the caller's role.
* Revisions 003 and 004, the seeds and the scripts: run once, by hand. Revision
  002 is in `PolicyIndex`, since the start command runs it beside the jobs.
* Chunking, vectors and their ranking: no property depends on them.
* The loss of the advisory lock's connection during a call: what two invocations
  then do to one checkpoint is decided inside LangGraph.
* Two unforced ingestions that overlap may store one path twice, since
  `source_path` has no unique constraint. The model allows it and no property
  forbids it, as nothing in the documents does.

## What is left

What was planned is done. Worth adding: an abstract contract of a follow-up
task (claimed, run, settled once) that `Followups` implements, as `QuoteApproval`
implements `QuoteDesk`.

---------------------------- MODULE Connections ----------------------------
(***************************************************************************)
(* The database connections that requests, approvals, reminders and sweeps *)
(* share.  A session takes a connection of its pool at its first statement *)
(* and gives it back at commit, rollback or close; a call waits when its   *)
(* pool is empty and, after a while, gives up.  Meanwhile the calls of     *)
(* the language model take as long as they take.                           *)
(*                                                                         *)
(* What a handler does is a path: the sequence of its transactions and     *)
(* model calls, with the try, except and finally around them.              *)
(***************************************************************************)
EXTENDS Integers, Sequences, FiniteSets, FiniteSetsExt

CONSTANTS
  Threads,         \* threads that serve requests or run the scheduler
  BusinessSize,    \* pool_size + max_overflow of the engine, 4 on Vercel
  CheckpointSize,  \* max_size of the checkpointer's pool, 4 on Vercel
  Rounds           \* bound on the tool calls of a workflow node

ASSUME SizesPositive ==
  /\ BusinessSize \in Nat \ {0}
  /\ CheckpointSize \in Nat \ {0}
  /\ Rounds \in Nat

-----------------------------------------------------------------------------
(* Sessions and pools.  "request" is the session of Depends(get_db),       *)
(* "inner" one that the agent opens for a single transaction.              *)

Sessions == {"request", "inner", "checkpoint", "lock"}

\* mutant: the conversation lock takes a connection of the engine.
PoolOfSharedLock(s) == IF s = "checkpoint" THEN "checkpoint" ELSE "business"

\* The lock's engine has a NullPool: it opens a connection for each lock.
PoolOf(s) ==
  CASE s = "checkpoint" -> "checkpoint"
    [] s = "lock" -> "none"
    [] OTHER -> "business"

Size(pool) == IF pool = "business" THEN BusinessSize ELSE CheckpointSize

-----------------------------------------------------------------------------
(* Operations: one transaction, with the refresh that follows its commit,  *)
(* a use of the checkpointer, the conversation's lock, or a model call.    *)
(* depth counts the try and with blocks around it; an error goes to the    *)
(* next operation that catches errors of a block inside its own.           *)

Op(needs, depth) ==
  [needs |-> needs, depth |-> depth, keeps |-> FALSE, quiet |-> FALSE, runs |-> "normal"]

Keeping(op) == [op EXCEPT !.keeps = TRUE]    \* the transaction stays open
Quiet(op) == [op EXCEPT !.quiet = TRUE]      \* its own errors are logged and dropped
Finally(op) == [op EXCEPT !.runs = "finally"]
Except(op) == [op EXCEPT !.runs = "except"]
Reraise(op) == [op EXCEPT !.runs = "reraise"]   \* an except block that raises again

Ops == [needs : Sessions \cup {"model"}, depth : 0..4, keeps : BOOLEAN, quiet : BOOLEAN,
        runs : {"normal", "finally", "except", "reraise"}]

-----------------------------------------------------------------------------
(* The paths of the handlers.                                              *)

IdentityOpen == <<Keeping(Op("request", 0))>>   \* mutant: no rollback
\* get_current_user reads the user and rolls back.
Identity == <<Op("request", 0)>>

Audit == Quiet(Finally(Op("inner", 3)))
Saved == Op("checkpoint", 3)

\* A node that asks the model and falls back when it fails.
ModelNode == <<Quiet(Op("model", 4)), Audit, Saved>>

ToolCalls(n) ==
  [i \in 1..2 * n |-> Quiet(Op(IF i % 2 = 1 THEN "model" ELSE "inner", 4))]

\* A workflow node: has an approval been saved (the quote and issue nodes), the
\* loop of tool calls, the model's last word; a policy query is embedded
\* before the policy tool's statement.
Workflow(n) ==
  <<Op("inner", 4)>> \o ToolCalls(n) \o <<Quiet(Op("model", 4)), Audit, Saved>>

\* review_action saves its proposal and interrupts the graph.
Proposing(n) ==
  <<Op("inner", 4)>> \o ToolCalls(n) \o <<Quiet(Op("model", 4)), Op("inner", 4), Audit, Saved>>

\* parse_request and select_workflow ask nobody.
Routing == <<Audit, Saved>> \o ModelNode \o ModelNode \o <<Audit, Saved>>

Record == Quiet(Finally(Op("inner", 2)))
TakeLock == Keeping(Op("lock", 1))
LeaveLockAtEnd == Op("lock", 1)                 \* mutant: not a with block
LeaveLock == Finally(Op("lock", 1))

\* The lock, get_state, _begin_run, the graph, _record_run, update_state.
Guarded(graph, tail) ==
  <<TakeLock, Op("checkpoint", 2), Quiet(Op("inner", 2))>> \o graph \o <<Record>>
    \o tail \o <<LeaveLock>>

RunAgent ==
  {Guarded(Routing \o Workflow(n) \o ModelNode, <<Op("checkpoint", 2)>>) : n \in 0..Rounds}
    \cup {Guarded(Routing \o Proposing(n), <<>>) : n \in 0..Rounds}

\* The node under review, after a decision: has an approval been saved, its
\* row, its execution.  Before a decision reaches it, it pauses after the row.
Executing == <<Op("inner", 4), Op("inner", 4), Op("inner", 4), Audit, Saved>>
PausingAgain == <<Op("inner", 4), Op("inner", 4), Audit, Saved>>

\* Find the thread, lock it, resolve, get_state, go on with the graph; a
\* failure is recorded and raised; store the answer, record.
Resuming(graph) ==
  <<Op("inner", 0), TakeLock, Op("inner", 2), Op("checkpoint", 2)>> \o graph
    \o <<Quiet(Reraise(Op("inner", 2))), Op("inner", 2), Quiet(Op("inner", 2)), LeaveLock>>

\* The graph goes on from the node under review or from the answer, pauses
\* again, or had finished before its result was stored.
ResumeAgent ==
  {Resuming(graph) : graph \in {Executing \o ModelNode, ModelNode, PausingAgain, <<>>}}

\* The decision was executed before: its answer is returned again.
Replay == <<Op("inner", 0), TakeLock, Op("inner", 2), LeaveLock>>

Chat == {Identity \o run : run \in RunAgent}

\* get_approval, rollback, resume_agent.
Decide == {Identity \o <<Op("request", 0)>> \o call : call \in ResumeAgent \cup {Replay}}

\* The task is committed; what is read after that is rolled back.
ReadInvoice == <<Op("request", 0)>>

\* Look for the communication, mark_completed; else rollback, mark_failed.
Remind ==
  {Identity \o ReadInvoice \o run
     \o <<Keeping(Op("request", 1)), Keeping(Except(Op("request", 0)))>> : run \in RunAgent}

\* Claim a task, if nobody else has, run the agent, settle the task.
DueTask ==
  {<<Op("inner", 1)>>} \cup
  {<<Op("inner", 1)>> \o run \o <<Op("inner", 1), Quiet(Except(Op("inner", 0)))>> : run \in RunAgent}

\* process_due_followups, of the scheduler or behind either trigger.
Sweep == {<<Op("inner", 0)>>} \cup {<<Op("inner", 0)>> \o task : task \in DueTask}

Triggered == {Identity \o sweep : sweep \in Sweep}

\* The routes that read, and the one that creates a task.
Read == {Identity \o <<Keeping(Op("request", 0))>>}

Paths == UNION {Chat, Decide, Remind, Sweep, Triggered, Read}

-----------------------------------------------------------------------------
VARIABLES
  path,    \* path[t]: what thread t is serving, <<>> when it serves nothing
  at,      \* at[t]: the operation it has come to
  raised,  \* raised[t]: an error is on its way through the path
  conn     \* conn[t]: the sessions of t that have a connection

callsVars == <<path, at, raised, conn>>

CallsInit ==
  /\ path = [t \in Threads |-> <<>>]
  /\ at = [t \in Threads |-> 0]
  /\ raised = [t \in Threads |-> FALSE]
  /\ conn = [t \in Threads |-> {}]

Busy(t) == path[t] # <<>>
Running(t) == Busy(t) /\ at[t] <= Len(path[t])
Now(t) == path[t][at[t]]

\* Its session has a connection, or it needs none.
Ready(t) == Now(t).needs \in conn[t] \cup {"model"}

InUse(pool) ==
  UNION {{<<t, s>> : s \in {x \in conn[t] : PoolOf(x) = pool}} : t \in Threads}

FreeAlways(s) == TRUE                           \* mutant: the pools have no bound
Free(s) == PoolOf(s) = "none" \/ Cardinality(InUse(PoolOf(s))) < Size(PoolOf(s))

\* Where control goes after the operation; past the end when nothing is left.
Following(t) ==
  Min({i \in at[t] + 1..Len(path[t]) : path[t][i].runs \in {"normal", "finally"}}
        \cup {Len(path[t]) + 1})
Handler(t) ==
  Min({i \in at[t] + 1..Len(path[t]) :
         path[t][i].runs # "normal" /\ path[t][i].depth < Now(t).depth}
        \cup {Len(path[t]) + 1})

-----------------------------------------------------------------------------
Arrive(t, p) ==
  /\ ~Busy(t)
  /\ path' = [path EXCEPT ![t] = p]
  /\ at' = [at EXCEPT ![t] = 1]
  /\ UNCHANGED <<raised, conn>>

Acquire(t) ==
  /\ Running(t)
  /\ ~Ready(t)
  /\ Free(Now(t).needs)
  /\ conn' = [conn EXCEPT ![t] = @ \cup {Now(t).needs}]
  /\ UNCHANGED <<path, at, raised>>

\* On to what follows, or, while an error is being raised, to its handler.
Advance(t, left) ==
  LET goesOn == raised[t] /\ Now(t).runs # "except"
  IN /\ at' = [at EXCEPT ![t] = IF goesOn THEN Handler(t) ELSE Following(t)]
     /\ raised' = [raised EXCEPT ![t] = goesOn]
     /\ conn' = [conn EXCEPT ![t] = left]
     /\ UNCHANGED path

\* Commit, rollback or close; the model answers.
Finish(t) ==
  /\ Running(t)
  /\ Ready(t)
  /\ Advance(t, IF Now(t).keeps THEN conn[t] ELSE conn[t] \ {Now(t).needs})

\* An error, an empty pool for too long, or a lock somebody else has.  The
\* sessions inside the blocks that are left are closed or rolled back.
Raise(t) ==
  /\ Running(t)
  /\ ~Now(t).quiet
  /\ at' = [at EXCEPT ![t] = Handler(t)]
  /\ raised' = [raised EXCEPT ![t] = TRUE]
  /\ conn' = [conn EXCEPT ![t] = @ \cap ({"lock"} \ {Now(t).needs})]
  /\ UNCHANGED path

\* An error that is logged and dropped.
Drop(t) ==
  /\ Running(t)
  /\ Now(t).quiet
  /\ Advance(t, conn[t] \ {Now(t).needs})

\* The answer is sent, and get_db closes the request's session.
Close(t) ==
  /\ Busy(t)
  /\ ~Running(t)
  /\ path' = [path EXCEPT ![t] = <<>>]
  /\ at' = [at EXCEPT ![t] = 0]
  /\ raised' = [raised EXCEPT ![t] = FALSE]
  /\ conn' = [conn EXCEPT ![t] = {}]

Proceed(t) == Acquire(t) \/ Finish(t) \/ Close(t)

CallsNext ==
  \E t \in Threads :
    (\E p \in Paths : Arrive(t, p)) \/ Proceed(t) \/ Raise(t) \/ Drop(t)

CallsSpec == CallsInit /\ [][CallsNext]_callsVars

(***************************************************************************)
(* Fairness.  The database works and the model answers or times out; a     *)
(* thread that waits for a connection gets one if they keep coming back,   *)
(* because both pools serve their waiters in turn.  No error and no        *)
(* timeout of a pool is counted on.                                        *)
(***************************************************************************)
CallsFairSpec == CallsSpec /\ \A t \in Threads : SF_callsVars(Proceed(t))

-----------------------------------------------------------------------------
\* Paths are built of operations, and no pool lends more than it has.
CallsTypeOK ==
  /\ \A t \in Threads :
       /\ path[t] \in Paths \cup {<<>>}
       /\ \A i \in DOMAIN path[t] : path[t][i] \in Ops
       /\ at[t] \in 0..Len(path[t]) + 1
       /\ conn[t] \in SUBSET Sessions
       /\ raised[t] \in BOOLEAN
  /\ \A pool \in {"business", "checkpoint"} : Cardinality(InUse(pool)) <= Size(pool)

\* Whoever waits, for the model or for a connection, has no connection of a
\* pool: "concurrent LLM requests cannot exhaust the normal tool-session
\* pool by holding its connections" (AUDIT_FIXES.md:49).
WaitersHoldNothing ==
  \A t \in Threads :
    Running(t) /\ (Now(t).needs = "model" \/ ~Ready(t)) => conn[t] \subseteq {"lock"}

\* After an error as well, the conversation's lock is given up before the
\* call ends, and an error leaves no session of the agent behind.
NothingLeaks ==
  \A t \in Threads : Busy(t) /\ ~Running(t) => conn[t] \subseteq {"request"}

\* However small the pools, every call ends: nobody waits for a connection
\* that is held by somebody who waits.
EveryCallEnds == \A t \in Threads : Busy(t) ~> ~Busy(t)
=============================================================================

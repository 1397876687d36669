----------------------------- MODULE Followups -----------------------------
(***************************************************************************)
(* Scheduled follow-ups: the sweep process_due_followups, which the        *)
(* in-process scheduler, POST /tasks/trigger and POST                      *)
(* /internal/run-followups may run at the same time, the reminders of      *)
(* POST /invoices/{id}/remind, which are born claimed, the followup_tasks  *)
(* rows that both settle, and the communications that the agent run of a   *)
(* task records.                                                           *)
(*                                                                         *)
(* Each action is one transaction.  The agent run in the middle of a sweep *)
(* is a conversation of its own and may record any number of               *)
(* communications before it ends in a result, an error or a crash.         *)
(***************************************************************************)
EXTENDS Naturals, Sequences, FiniteSets, SequencesExt

CONSTANTS
  Tasks,        \* ids of followup_tasks, in the order of their scheduled_at
  Workers,      \* sweeps and reminder requests that may run at once
  Limits,       \* whether a sweep takes only the first due task: on Vercel it does
  MaxLogs,      \* bound on the communications one task's runs record
  MaxFailures   \* bound on the crashes and lost database replies

ASSUME FollowupsTypes ==
  /\ Tasks \subseteq Nat /\ IsFiniteSet(Tasks)
  /\ Limits \subseteq BOOLEAN /\ Limits # {}
  /\ MaxLogs \in Nat
  /\ MaxFailures \in Nat

VARIABLES
  task,         \* task[f]: the row; "none" until it is created
  logged,       \* logged[f]: outbound communications recorded for the task
  sweep,        \* sweep[w]: the sweep or the reminder worker w is running
  failures

vars == <<task, logged, sweep, failures>>

Settled == {"completed", "failed"}

\* due: scheduled_at has passed; stale: started_at is over 30 minutes ago.
NoTask == [status |-> "none", due |-> FALSE, stale |-> FALSE, attempts |-> 0]

\* todo: the ids listed by get_due_tasks; recorded: the run's action_results
\* name a communication it recorded for the task.
Idle == [pc |-> "idle", todo |-> <<>>, recorded |-> FALSE]

Init ==
  /\ task = [f \in Tasks |-> NoTask]
  /\ logged = [f \in Tasks |-> 0]
  /\ sweep = [w \in Workers |-> Idle]
  /\ failures = 0

At(w, pc) == sweep[w].pc = pc
Goto(w, pc) == sweep' = [sweep EXCEPT ![w].pc = pc]
Current(w) == Head(sweep[w].todo)

\* mutant: the result of one task is taken for the next one's.
NextTaskKeepingResult(w) ==
  sweep' = [sweep EXCEPT ![w] =
    IF Len(@.todo) > 1 THEN [@ EXCEPT !.pc = "claim", !.todo = Tail(@)] ELSE Idle]

\* On to the next id of the list; an exhausted list ends the sweep.
NextTask(w) ==
  sweep' = [sweep EXCEPT ![w] =
    IF Len(@.todo) > 1 THEN [pc |-> "claim", todo |-> Tail(@.todo), recorded |-> FALSE]
    ELSE Idle]

-----------------------------------------------------------------------------
(* followup_service.create_followup: always in the future.                 *)
Create(f) ==
  /\ task[f].status = "none"
  /\ task' = [task EXCEPT ![f].status = "pending"]
  /\ UNCHANGED <<logged, sweep, failures>>

\* send_invoice_reminder inserts a task that is in progress and runs it in
\* the request: a list of one task, past its claim.
Remind(w, f) ==
  /\ At(w, "idle")
  /\ task[f].status = "none"
  /\ task' = [task EXCEPT ![f] = [@ EXCEPT !.status = "in_progress", !.attempts = 1]]
  /\ sweep' = [sweep EXCEPT ![w] = [pc |-> "run", todo |-> <<f>>, recorded |-> FALSE]]
  /\ UNCHANGED <<logged, failures>>

-----------------------------------------------------------------------------
(* process_due_followups.                                                  *)

\* mutants: stale claims are left; every claim is failed.
LeaveStale(row) == row
FailClaimed(row) == IF row.status = "in_progress" THEN [row EXCEPT !.status = "failed"] ELSE row

\* A claim over 30 minutes old fails, never to be replayed.
FailStale(row) == IF row.status = "in_progress" /\ row.stale
                  THEN [row EXCEPT !.status = "failed"] ELSE row

\* get_due_tasks, first transaction.
StartSweep(w) ==
  /\ At(w, "idle")
  /\ task' = [f \in Tasks |-> FailStale(task[f])]
  /\ Goto(w, "list")
  /\ UNCHANGED <<logged, failures>>

Due == {f \in Tasks : task[f].status = "pending" /\ task[f].due}

\* ORDER BY scheduled_at: the one such sequence.
OldestFirst(S) ==
  {ids \in SetToSeqs(S) : \A i, j \in DOMAIN ids : i < j => ids[i] < ids[j]}

\* get_due_tasks, second transaction: the ids only, oldest first.
ListDue(w) ==
  /\ At(w, "list")
  /\ \E ids \in OldestFirst(Due), limited \in Limits :
       sweep' = [sweep EXCEPT ![w] =
         IF ids = <<>> THEN Idle
         ELSE [pc |-> "claim", todo |-> IF limited THEN <<Head(ids)>> ELSE ids,
               recorded |-> FALSE]]
  /\ UNCHANGED <<task, logged, failures>>

ClaimableAny(f) == TRUE                         \* mutant: claimed without a condition
Claimable(f) == task[f].status = "pending"

\* mark_in_progress: one conditional UPDATE.
Claim(w) ==
  LET f == Current(w)
  IN /\ At(w, "claim")
     /\ Claimable(f)
     /\ task' = [task EXCEPT ![f] = [task[f] EXCEPT !.status = "in_progress", !.stale = FALSE,
                                                    !.attempts = task[f].attempts + 1]]
     /\ Goto(w, "run")
     /\ UNCHANGED <<logged, failures>>

\* Another sweep claimed it since it was listed.
SkipClaimed(w) ==
  /\ At(w, "claim")
  /\ ~Claimable(Current(w))
  /\ NextTask(w)
  /\ UNCHANGED <<task, logged, failures>>

\* The log_communication tool commits during the agent run.
LogCommunication(w) ==
  LET f == Current(w)
  IN /\ At(w, "run")
     /\ logged[f] < MaxLogs
     /\ logged' = [logged EXCEPT ![f] = @ + 1]
     /\ sweep' = [sweep EXCEPT ![w].recorded = TRUE]
     /\ UNCHANGED <<task, failures>>

\* The run ends; its result may be an error although it recorded something.
EndRun(w) ==
  /\ At(w, "run")
  /\ \E pc \in {"verify", "fail"} : Goto(w, pc)
  /\ UNCHANGED <<task, logged, failures>>

\* require_logged_communication finds a matching record.
Verified(w) == sweep[w].recorded

\* mark_completed reads the row and sets its status, whatever it was.
Complete(w) ==
  /\ At(w, "verify")
  /\ Verified(w)
  /\ task' = [task EXCEPT ![Current(w)].status = "completed"]
  /\ NextTask(w)
  /\ UNCHANGED <<logged, failures>>

\* Its commit succeeds and the refresh after it raises.
CompleteUnheard(w) ==
  /\ At(w, "verify")
  /\ Verified(w)
  /\ failures < MaxFailures
  /\ failures' = failures + 1
  /\ task' = [task EXCEPT ![Current(w)].status = "completed"]
  /\ Goto(w, "fail")
  /\ UNCHANGED logged

RefuseCompletion(w) ==
  /\ At(w, "verify")
  /\ ~Verified(w)
  /\ Goto(w, "fail")
  /\ UNCHANGED <<task, logged, failures>>

\* mark_failed, from the exception handler.
MarkFailed(w) ==
  /\ At(w, "fail")
  /\ task' = [task EXCEPT ![Current(w)].status = "failed"]
  /\ NextTask(w)
  /\ UNCHANGED <<logged, failures>>

\* mark_failed raises as well: the handler logs it and the loop goes on.
LeaveUnmarked(w) ==
  /\ At(w, "fail")
  /\ failures < MaxFailures
  /\ failures' = failures + 1
  /\ NextTask(w)
  /\ UNCHANGED <<task, logged>>

\* The process dies, or the request reaches its maximum duration.
Crash(w) ==
  /\ ~At(w, "idle")
  /\ failures < MaxFailures
  /\ failures' = failures + 1
  /\ sweep' = [sweep EXCEPT ![w] = Idle]
  /\ UNCHANGED <<task, logged>>

-----------------------------------------------------------------------------
(* Time.                                                                   *)

BecomeDue(f) ==
  /\ task[f].status # "none" /\ ~task[f].due
  /\ task' = [task EXCEPT ![f].due = TRUE]
  /\ UNCHANGED <<logged, sweep, failures>>

\* The sweep that claimed f is still at it.
Running(w, f) == sweep[w].pc \in {"run", "verify", "fail"} /\ Current(w) = f

\* Thirty minutes pass since the claim, its agent run ended or not.
Age(f) ==
  /\ task[f].status = "in_progress" /\ ~task[f].stale
  /\ task' = [task EXCEPT ![f].stale = TRUE]
  /\ UNCHANGED <<logged, sweep, failures>>

-----------------------------------------------------------------------------
Settle(w) ==
  Complete(w) \/ CompleteUnheard(w) \/ RefuseCompletion(w) \/ MarkFailed(w) \/ LeaveUnmarked(w)

Sweep(w) ==
  \/ StartSweep(w) \/ ListDue(w)
  \/ Claim(w) \/ SkipClaimed(w) \/ EndRun(w)
  \/ Settle(w)

Next ==
  \/ \E f \in Tasks : Create(f) \/ BecomeDue(f) \/ Age(f)
  \/ \E w \in Workers :
       \/ Sweep(w) \/ LogCommunication(w) \/ Crash(w)
       \/ \E f \in Tasks : Remind(w, f)

Spec == Init /\ [][Next]_vars

(***************************************************************************)
(* Fairness.  The scheduler starts a sweep every interval, a sweep goes on *)
(* to its next transaction, an agent run ends, and the clock runs.         *)
(***************************************************************************)
FairSpec ==
  /\ Spec
  /\ \A w \in Workers : WF_vars(Sweep(w))
  /\ \A f \in Tasks : WF_vars(BecomeDue(f)) /\ WF_vars(Age(f))

-----------------------------------------------------------------------------
Rows == [status : {"none", "pending", "in_progress"} \cup Settled,
         due : BOOLEAN, stale : BOOLEAN, attempts : Nat]

Sweeps == [pc : {"idle", "list", "claim", "run", "verify", "fail"},
           todo : Seq(Tasks), recorded : BOOLEAN]

\* The rows and the sweeps; a result belongs to the task that is running.
TypeOK ==
  /\ task \in [Tasks -> Rows]
  /\ logged \in [Tasks -> 0..MaxLogs]
  /\ sweep \in [Workers -> Sweeps]
  /\ \A w \in Workers : sweep[w].recorded => sweep[w].pc \in {"run", "verify", "fail"}
  /\ failures \in 0..MaxFailures

\* However many sweeps list a task, one of them runs it, once: its
\* communications are never recorded a second time (the conditional UPDATE of
\* mark_in_progress, and stale claims that fail instead of being requeued).
RunOnce ==
  \A f \in Tasks :
    /\ task[f].attempts <= 1
    /\ \A v, w \in Workers : Running(v, f) /\ Running(w, f) => v = w

\* A completed task has a communication in the database, whatever the agent
\* answered and whichever sweep completed it.
CompletedIsLogged ==
  \A f \in Tasks : task[f].status = "completed" => logged[f] > 0

\* A task marked failed is ready for review: nothing records a communication
\* for it or completes it any more, except a run that had outlasted the 30
\* minutes of its claim (FailuresRemain, below, is about those).
FailedIsQuiet ==
  [][\A f \in Tasks : task[f].status = "failed" /\ ~task[f].stale =>
       task'[f].status = "failed" /\ logged'[f] = logged[f]]_vars

\* Every task that is due or was claimed is settled in the end, in spite of
\* crashed sweeps and reminders, lost replies and the one-task limit.
EveryTaskSettles ==
  \A f \in Tasks :
    f \in Due \/ task[f].status = "in_progress" ~> task[f].status \in Settled

-----------------------------------------------------------------------------
(* What the documentation says and the code does not do.                   *)

\* Failures remain failures.
FailuresRemain ==
  [][\A f \in Tasks : task[f].status = "failed" => task'[f].status = "failed"]_vars
=============================================================================

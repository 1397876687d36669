--------------------------- MODULE Communications ---------------------------
(***************************************************************************)
(* The communications log: the rows that the log_communication tool        *)
(* commits during agent runs, the check that lets a due task or a reminder *)
(* complete only on such a row (require_logged_communication), and the     *)
(* delivery outcome that CommunicationService can record on a row.         *)
(*                                                                         *)
(* A run logs what the language model asks for: any customer, direction    *)
(* and related entity.  mark_sent and mark_failed read a row, decide, and  *)
(* write it at the caller's commit, with no lock between.                  *)
(***************************************************************************)
EXTENDS Naturals, Sequences

CONSTANTS
  Tasks,        \* due follow-ups and invoice reminders, each with a run of its own
  Customers,
  Entities,     \* quotes and invoices a communication may be related to
  CustomerOf,   \* CustomerOf[t]: followup_tasks.customer_id
  EntityOf,     \* EntityOf[t]: the quote or invoice the task is about, or None
  Senders,      \* sessions that record a delivery outcome
  MaxRows,      \* bound on the rows of the log
  None          \* SQL NULL, Python None

Directions == {"inbound", "outbound"}
Outcomes == {"sent", "failed"}

ASSUME CommunicationsTypes ==
  /\ CustomerOf \in [Tasks -> Customers]
  /\ EntityOf \in [Tasks -> Entities \cup {None}]
  /\ None \notin Entities
  /\ MaxRows \in Nat

VARIABLES
  log,          \* the rows of communications, in the order of their ids
  run,          \* run[t]: the run of task t, then what the check made of it
  sender        \* sender[s]: the outcome session s is about to write

vars == <<log, run, sender>>

\* timed: sent_at is not null.
Rows == [customer : Customers, direction : Directions, entity : Entities \cup {None},
         status : {"pending"} \cup Outcomes, timed : BOOLEAN]

\* results: the ids in the action_results of the run's log_communication calls.
Runs == [pc : {"waiting", "running", "answered", "completed", "failed"},
         results : Seq(1..MaxRows), evidence : 0..MaxRows]
Run(pc, results, evidence) == [pc |-> pc, results |-> results, evidence |-> evidence]
NotRun == Run("waiting", <<>>, 0)

Outcome(i, outcome) == [id |-> i, outcome |-> outcome]
Idle == Outcome(0, "sent")

Init ==
  /\ log = <<>>
  /\ run = [t \in Tasks |-> NotRun]
  /\ sender = [s \in Senders |-> Idle]

-----------------------------------------------------------------------------
(* A task's agent run.                                                     *)

StartRun(t) ==
  /\ run[t].pc = "waiting"
  /\ run' = [run EXCEPT ![t] = Run("running", <<>>, 0)]
  /\ UNCHANGED <<log, sender>>

Row(c, d, e, status, timed) ==
  [customer |-> c, direction |-> d, entity |-> e, status |-> status, timed |-> timed]

\* CommunicationRepository.create: every row starts as an unsent draft.
NewRow(c, d, e) == Row(c, d, e, "pending", FALSE)

\* The tool commits the row and names its id in its result.
LogCommunication(t, c, d, e) ==
  /\ run[t].pc = "running"
  /\ Len(log) < MaxRows
  /\ log' = Append(log, NewRow(c, d, e))
  /\ run' = [run EXCEPT ![t] = Run("running", Append(run[t].results, Len(log) + 1), 0)]
  /\ UNCHANGED sender

\* A chat logs rows too: they are in the log and in no task's results.
LogFromChat(c, d, e) ==
  /\ Len(log) < MaxRows
  /\ log' = Append(log, NewRow(c, d, e))
  /\ UNCHANGED <<run, sender>>

Answer(t) ==
  /\ run[t].pc = "running"
  /\ run' = [run EXCEPT ![t] = Run("answered", run[t].results, 0)]
  /\ UNCHANGED <<log, sender>>

\* The run raises, answers with an error (the tool limit, a failed node) or
\* stops at an approval: the rows it logged stay, the task fails.
FailRun(t) ==
  /\ run[t].pc = "running"
  /\ run' = [run EXCEPT ![t] = Run("failed", run[t].results, 0)]
  /\ UNCHANGED <<log, sender>>

\* mutant: the log itself is searched.
AnyRow(t) == [i \in 1..Len(log) |-> i]
Candidates(t) == run[t].results

Matches(t, i) ==
  /\ log[i].customer = CustomerOf[t]
  /\ log[i].direction = "outbound"
  /\ log[i].status # "failed"
  /\ EntityOf[t] # None => log[i].entity = EntityOf[t]

\* The k-th result is the first that names a matching row.
FirstMatch(t, k) ==
  /\ Matches(t, Candidates(t)[k])
  /\ \A j \in 1..k-1 : ~Matches(t, Candidates(t)[j])

Complete(t) ==
  /\ run[t].pc = "answered"
  /\ \E k \in DOMAIN Candidates(t) :
       /\ FirstMatch(t, k)
       /\ run' = [run EXCEPT ![t] = Run("completed", run[t].results, Candidates(t)[k])]
  /\ UNCHANGED <<log, sender>>

\* Prose is no evidence.
RefuseProse(t) ==
  /\ run[t].pc = "answered"
  /\ \A k \in DOMAIN Candidates(t) : ~Matches(t, Candidates(t)[k])
  /\ run' = [run EXCEPT ![t] = Run("failed", run[t].results, 0)]
  /\ UNCHANGED <<log, sender>>

-----------------------------------------------------------------------------
(* CommunicationService.mark_sent and mark_failed.                         *)

Exists(i) == i \in 1..Len(log)
Markable(i) == Exists(i) /\ log[i].status = "pending"

ReadPending(s, i, outcome) ==
  /\ sender[s].id = 0
  /\ Markable(i)
  /\ sender' = [sender EXCEPT ![s] = Outcome(i, outcome)]
  /\ UNCHANGED <<log, run>>

\* mutant: the time is left to a later save.
MarkedUntimed(row, outcome) == Row(row.customer, row.direction, row.entity, outcome, row.timed)

\* The UPDATE names the columns that differ from what the session read: a
\* failure sets sent_at to the null it read, so only its status is written.
Marked(row, outcome) ==
  Row(row.customer, row.direction, row.entity, outcome, outcome = "sent" \/ row.timed)

WriteOutcome(s) ==
  LET i == sender[s].id
  IN /\ i # 0
     /\ log' = [log EXCEPT ![i] = Marked(log[i], sender[s].outcome)]
     /\ sender' = [sender EXCEPT ![s] = Idle]
     /\ UNCHANGED run

\* The caller's session closes without a commit.
Rollback(s) ==
  /\ sender[s].id # 0
  /\ sender' = [sender EXCEPT ![s] = Idle]
  /\ UNCHANGED <<log, run>>

-----------------------------------------------------------------------------
Next ==
  \/ \E t \in Tasks :
       \/ StartRun(t) \/ Answer(t) \/ FailRun(t)
       \/ Complete(t) \/ RefuseProse(t)
       \/ \E c \in Customers, d \in Directions, e \in Entities \cup {None} :
            LogCommunication(t, c, d, e)
  \/ \E c \in Customers, d \in Directions, e \in Entities \cup {None} :
       LogFromChat(c, d, e)
  \/ \E s \in Senders :
       \/ WriteOutcome(s) \/ Rollback(s)
       \/ \E i \in 1..MaxRows, outcome \in Outcomes : ReadPending(s, i, outcome)

Spec == Init /\ [][Next]_vars

-----------------------------------------------------------------------------
\* Rows, runs and sessions have their types, and every id names a row.
TypeOK ==
  /\ log \in Seq(Rows) /\ Len(log) <= MaxRows
  /\ run \in [Tasks -> Runs]
  /\ \A t \in Tasks : \A k \in DOMAIN run[t].results : Exists(run[t].results[k])
  /\ sender \in [Senders -> [id : 0..MaxRows, outcome : Outcomes]]
  /\ \A s \in Senders : sender[s].id # 0 => Exists(sender[s].id)

\* A completed task stands on an outbound row about its own customer and its
\* own quote or invoice, and no row is the evidence of two tasks, whatever
\* chats and other tasks logged meanwhile (require_logged_communication).
EvidenceIsOwn ==
  \A t \in Tasks : run[t].pc = "completed" =>
    LET i == run[t].evidence
    IN /\ Exists(i)
       /\ log[i].customer = CustomerOf[t] /\ log[i].direction = "outbound"
       /\ EntityOf[t] # None => log[i].entity = EntityOf[t]
       /\ \A u \in Tasks \ {t} : run[u].pc = "completed" => run[u].evidence # i

\* A row that says sent says when, and a draft does not: also after two
\* sessions that read the same draft wrote different outcomes on it.
SentHasTime ==
  \A i \in 1..Len(log) :
    /\ log[i].status = "sent" => log[i].timed
    /\ log[i].status = "pending" => ~log[i].timed

\* A communication that was sent is never marked failed, as the service's
\* test test_sent_communication_cannot_be_marked_failed says.
SentIsFinal ==
  [][\A i \in 1..Len(log) : log[i].status = "sent" => log'[i].status = "sent"]_vars
=============================================================================

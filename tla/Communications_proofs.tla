------------------------ MODULE Communications_proofs ------------------------
(***************************************************************************)
(* The communications log for every number of tasks, rows and sessions.    *)
(* EvidenceIsOwn is not inductive: that two tasks never share a row needs  *)
(* the invariant that the results of two runs name different rows, and     *)
(* that the evidence of a completed task is one of its own results.        *)
(***************************************************************************)
EXTENDS Communications, TLAPS

\* Every result and every pending outcome names a row of the log.
Named ==
  /\ \A t \in Tasks : \A k \in DOMAIN run[t].results : Exists(run[t].results[k])
  /\ \A s \in Senders : sender[s].id # 0 => Exists(sender[s].id)

Shape ==
  /\ log \in Seq(Rows) /\ Len(log) <= MaxRows
  /\ run \in [Tasks -> Runs]
  /\ sender \in [Senders -> [id : 0..MaxRows, outcome : Outcomes]]

\* A row is a result of one run at most.
Disjoint ==
  \A t, u \in Tasks : t # u =>
    \A k \in DOMAIN run[t].results, j \in DOMAIN run[u].results :
      run[t].results[k] # run[u].results[j]

\* Evidence is a result of the task's own run, and about the task.
Evidenced ==
  \A t \in Tasks : run[t].pc = "completed" =>
    /\ \E k \in DOMAIN run[t].results : run[t].evidence = run[t].results[k]
    /\ log[run[t].evidence].customer = CustomerOf[t]
    /\ log[run[t].evidence].direction = "outbound"
    /\ EntityOf[t] # None => log[run[t].evidence].entity = EntityOf[t]

Inv == Shape /\ Named /\ Disjoint /\ Evidenced /\ SentHasTime

-----------------------------------------------------------------------------
LEMMA RowType ==
  ASSUME NEW c \in Customers, NEW d \in Directions, NEW e \in Entities \cup {None},
         NEW st \in {"pending"} \cup Outcomes, NEW timed \in BOOLEAN
  PROVE  Row(c, d, e, st, timed) \in Rows
BY DEF Row, Rows

LEMMA RunType ==
  ASSUME NEW pc \in {"waiting", "running", "answered", "completed", "failed"},
         NEW results \in Seq(1..MaxRows), NEW i \in 0..MaxRows
  PROVE  Run(pc, results, i) \in Runs
BY DEF Run, Runs

LEMMA InitInv == Init => Inv
<1> SUFFICES ASSUME Init PROVE Inv
  OBVIOUS
<1> USE CommunicationsTypes
<1>1. NotRun \in Runs
  BY DEF NotRun, Run, Runs
<1>2. Idle \in [id : 0..MaxRows, outcome : Outcomes]
  BY DEF Idle, Outcome, Outcomes
<1>3. Shape
  BY <1>1, <1>2 DEF Init, Shape
<1>4. Named /\ Disjoint /\ Evidenced
  BY DEF Init, NotRun, Run, Idle, Outcome, Named, Disjoint, Evidenced
<1>5. SentHasTime
  BY DEF Init, SentHasTime
<1>6. QED
  BY <1>3, <1>4, <1>5 DEF Inv

\* What logging a row does to the log: the old rows stay where they were.
LEMMA Logged ==
  ASSUME Inv, Len(log) < MaxRows, NEW row \in Rows, log' = Append(log, row)
  PROVE  /\ log' \in Seq(Rows) /\ Len(log') = Len(log) + 1 /\ Len(log') <= MaxRows
         /\ log'[Len(log) + 1] = row
         /\ \A i \in 1..Len(log) : log'[i] = log[i]
BY CommunicationsTypes DEF Inv, Shape

\* What writing an outcome does: only status and time of one row change.
LEMMA Marking ==
  ASSUME Inv, NEW s \in Senders, WriteOutcome(s)
  PROVE  /\ sender[s].id \in 1..Len(log)
         /\ log' \in Seq(Rows) /\ Len(log') = Len(log)
         /\ \A i \in 1..Len(log) :
              /\ log'[i].customer = log[i].customer
              /\ log'[i].direction = log[i].direction
              /\ log'[i].entity = log[i].entity
              /\ i # sender[s].id => log'[i] = log[i]
              /\ i = sender[s].id => log'[i] = Marked(log[i], sender[s].outcome)
<1> DEFINE id == sender[s].id
<1>1. id \in 1..Len(log)
  BY DEF Inv, Shape, Named, Exists, WriteOutcome
<1>2. log[id] \in Rows
  BY <1>1 DEF Inv, Shape
<1>3. sender[s].outcome \in Outcomes
  BY DEF Inv, Shape
<1>4. (sender[s].outcome = "sent" \/ log[id].timed) \in BOOLEAN
  OBVIOUS
<1>5. Marked(log[id], sender[s].outcome) \in Rows
  BY <1>2, <1>3, <1>4, RowType DEF Marked, Rows
<1>6. log' = [log EXCEPT ![id] = Marked(log[id], sender[s].outcome)]
  BY DEF WriteOutcome
<1>7. log' \in Seq(Rows) /\ Len(log') = Len(log)
  BY <1>1, <1>5, <1>6 DEF Inv, Shape
<1>8. ASSUME NEW i \in 1..Len(log)
      PROVE  /\ i # id => log'[i] = log[i]
             /\ i = id => log'[i] = Marked(log[i], sender[s].outcome)
  BY <1>6 DEF Inv, Shape
<1>9. ASSUME NEW i \in 1..Len(log)
      PROVE  /\ log'[i].customer = log[i].customer
             /\ log'[i].direction = log[i].direction
             /\ log'[i].entity = log[i].entity
  <2>1. CASE i = id
    <3>1. log'[i] = Marked(log[i], sender[s].outcome)
      BY <1>8, <2>1
    <3>2. QED
      BY <3>1 DEF Marked, Row
  <2>2. CASE i # id
    BY <1>8, <2>2
  <2>3. QED
    BY <2>1, <2>2
<1>10. QED
  BY <1>1, <1>7, <1>8, <1>9

\* A step of task t's run keeps every other run as it was.
LEMMA OthersKept ==
  ASSUME Inv, NEW t \in Tasks, NEW r \in Runs, run' = [run EXCEPT ![t] = r]
  PROVE  /\ run' \in [Tasks -> Runs] /\ run'[t] = r
         /\ \A u \in Tasks \ {t} : run'[u] = run[u]
BY DEF Inv, Shape

\* A step of a run that leaves the log and its results alone, and ends in a
\* completion only with evidence.
LEMMA RunStep ==
  ASSUME Inv, NEW t \in Tasks, UNCHANGED <<log, sender>>,
         NEW pc \in {"waiting", "running", "answered", "completed", "failed"},
         NEW i \in 0..MaxRows,
         run' = [run EXCEPT ![t] = Run(pc, run[t].results, i)],
         pc = "completed" =>
           /\ \E k \in DOMAIN run[t].results : i = run[t].results[k]
           /\ Matches(t, i)
  PROVE  Inv'
<1> DEFINE r == Run(pc, run[t].results, i)
<1>1. run[t].results \in Seq(1..MaxRows)
  BY DEF Inv, Shape, Runs
<1>2. r \in Runs
  BY <1>1, RunType
<1>3. r.pc = pc /\ r.results = run[t].results /\ r.evidence = i
  BY DEF Run
<1> HIDE DEF r
<1>4. run' \in [Tasks -> Runs] /\ run'[t] = r /\ \A u \in Tasks \ {t} : run'[u] = run[u]
  BY <1>2, OthersKept DEF r
<1>5. \A u \in Tasks : run'[u].results = run[u].results
  BY <1>3, <1>4
<1>6. Shape'
  BY <1>4 DEF Inv, Shape
<1>7. Named' /\ Disjoint'
  BY <1>5 DEF Inv, Named, Disjoint, Exists
<1>8. Evidenced'
  BY <1>3, <1>4 DEF Inv, Evidenced, Matches
<1>9. SentHasTime'
  BY DEF Inv, SentHasTime
<1>10. QED
  BY <1>6, <1>7, <1>8, <1>9 DEF Inv

\* The evidence of a completed task is a row.
LEMMA EvidenceExists ==
  ASSUME Inv, NEW t \in Tasks, run[t].pc = "completed"
  PROVE  run[t].evidence \in 1..Len(log)
BY DEF Inv, Evidenced, Named, Exists

LEMMA LogStep ==
  ASSUME Inv, NEW t \in Tasks, NEW c \in Customers, NEW d \in Directions,
         NEW e \in Entities \cup {None}, LogCommunication(t, c, d, e)
  PROVE  Inv'
<1> DEFINE new == Len(log) + 1
           r == Run("running", Append(run[t].results, new), 0)
<1>1. NewRow(c, d, e) \in Rows
  BY RowType DEF NewRow
<1>2. /\ log' \in Seq(Rows) /\ Len(log') = new /\ Len(log') <= MaxRows
      /\ log'[new] = NewRow(c, d, e)
      /\ \A i \in 1..Len(log) : log'[i] = log[i]
  BY <1>1, Logged DEF LogCommunication
<1>3. run[t].results \in Seq(1..MaxRows) /\ Len(log) \in Nat
  BY DEF Inv, Shape, Runs
<1>4. new \in 1..MaxRows
  BY <1>2, <1>3
<1>5. Append(run[t].results, new) \in Seq(1..MaxRows)
  BY <1>3, <1>4
<1>6. r \in Runs
  BY <1>5, CommunicationsTypes DEF Run, Runs
<1>7. r.pc = "running" /\ r.results = Append(run[t].results, new)
  BY DEF Run
<1>8. run' = [run EXCEPT ![t] = r]
  BY DEF LogCommunication
<1>9. DOMAIN run[t].results = 1..Len(run[t].results)
      /\ DOMAIN r.results = 1..Len(run[t].results) + 1
      /\ Len(run[t].results) \in Nat
      /\ \A k \in DOMAIN r.results :
           r.results[k] = IF k = Len(run[t].results) + 1 THEN new ELSE run[t].results[k]
  BY <1>3, <1>4, <1>7
<1> HIDE DEF r
<1>10. run' \in [Tasks -> Runs] /\ run'[t] = r /\ \A u \in Tasks \ {t} : run'[u] = run[u]
  BY <1>6, <1>8, OthersKept
<1>11. sender' = sender
  BY DEF LogCommunication
<1>12. \A u \in Tasks : \A k \in DOMAIN run[u].results :
         run[u].results[k] \in 1..Len(log) /\ run[u].results[k] # new
  BY <1>3 DEF Inv, Named, Exists
<1>13. Shape'
  BY <1>2, <1>10, <1>11 DEF Inv, Shape
<1>14. Named'
  <2>1. ASSUME NEW u \in Tasks, NEW k \in DOMAIN run'[u].results
        PROVE  run'[u].results[k] \in 1..Len(log')
    <3>1. CASE u = t
      <4>1. run'[u].results = r.results /\ k \in DOMAIN r.results
        BY <3>1, <2>1, <1>10
      <4>2. CASE k = Len(run[t].results) + 1
        BY <4>1, <4>2, <1>2, <1>3, <1>9
      <4>3. CASE k # Len(run[t].results) + 1
        <5>1. k \in DOMAIN run[t].results /\ r.results[k] = run[t].results[k]
          BY <4>1, <4>3, <1>9
        <5>2. QED
          BY <4>1, <5>1, <1>2, <1>3, <1>12
      <4>4. QED
        BY <4>2, <4>3
    <3>2. CASE u # t
      BY <3>2, <2>1, <1>2, <1>3, <1>10, <1>12
    <3>3. QED
      BY <3>1, <3>2
  <2>2. ASSUME NEW s \in Senders, sender'[s].id # 0
        PROVE  sender'[s].id \in 1..Len(log')
    BY <2>2, <1>2, <1>3, <1>11 DEF Inv, Named, Exists
  <2>3. QED
    BY <2>1, <2>2 DEF Named, Exists
<1>15. Disjoint'
  <2> SUFFICES ASSUME NEW v \in Tasks, NEW u \in Tasks, v # u,
                      NEW k \in DOMAIN run'[v].results, NEW j \in DOMAIN run'[u].results
               PROVE  run'[v].results[k] # run'[u].results[j]
    BY DEF Disjoint
  <2>1. CASE v = t
    <3>1. run'[v].results = r.results /\ run'[u].results = run[u].results
      BY <2>1, <1>10
    <3>2. k \in DOMAIN r.results /\ j \in DOMAIN run[u].results
      BY <3>1
    <3>3. CASE k = Len(run[t].results) + 1
      BY <3>1, <3>2, <3>3, <1>9, <1>12
    <3>4. CASE k # Len(run[t].results) + 1
      <4>1. k \in DOMAIN run[t].results /\ r.results[k] = run[t].results[k]
        BY <3>2, <3>4, <1>9
      <4>2. QED
        BY <2>1, <3>1, <3>2, <4>1 DEF Inv, Disjoint
    <3>5. QED
      BY <3>3, <3>4
  <2>2. CASE u = t
    <3>1. run'[v].results = run[v].results /\ run'[u].results = r.results
      BY <2>2, <1>10
    <3>2. k \in DOMAIN run[v].results /\ j \in DOMAIN r.results
      BY <3>1
    <3>3. CASE j = Len(run[t].results) + 1
      BY <3>1, <3>2, <3>3, <1>9, <1>12
    <3>4. CASE j # Len(run[t].results) + 1
      <4>1. j \in DOMAIN run[t].results /\ r.results[j] = run[t].results[j]
        BY <3>2, <3>4, <1>9
      <4>2. QED
        BY <2>2, <3>1, <3>2, <4>1 DEF Inv, Disjoint
    <3>5. QED
      BY <3>3, <3>4
  <2>3. CASE v # t /\ u # t
    BY <2>3, <1>10 DEF Inv, Disjoint
  <2>4. QED
    BY <2>1, <2>2, <2>3
<1>16. Evidenced'
  BY <1>2, <1>7, <1>10, EvidenceExists DEF Inv, Evidenced
<1>17. SentHasTime'
  BY <1>2, <1>3 DEF Inv, SentHasTime, NewRow, Row
<1>18. QED
  BY <1>13, <1>14, <1>15, <1>16, <1>17 DEF Inv

LEMMA ChatStep ==
  ASSUME Inv, NEW c \in Customers, NEW d \in Directions,
         NEW e \in Entities \cup {None}, LogFromChat(c, d, e)
  PROVE  Inv'
<1>1. NewRow(c, d, e) \in Rows
  BY RowType DEF NewRow
<1>2. /\ log' \in Seq(Rows) /\ Len(log') = Len(log) + 1 /\ Len(log') <= MaxRows
      /\ log'[Len(log) + 1] = NewRow(c, d, e)
      /\ \A i \in 1..Len(log) : log'[i] = log[i]
  BY <1>1, Logged DEF LogFromChat
<1>3. Len(log) \in Nat /\ run' = run /\ sender' = sender
  BY DEF Inv, Shape, LogFromChat
<1>4. Shape' /\ Disjoint'
  BY <1>2, <1>3 DEF Inv, Shape, Disjoint
<1>5. Named'
  BY <1>2, <1>3 DEF Inv, Named, Exists
<1>6. Evidenced'
  BY <1>2, <1>3, EvidenceExists DEF Inv, Evidenced
<1>7. SentHasTime'
  BY <1>2, <1>3 DEF Inv, SentHasTime, NewRow, Row
<1>8. QED
  BY <1>4, <1>5, <1>6, <1>7 DEF Inv

LEMMA WriteStep ==
  ASSUME Inv, NEW s \in Senders, WriteOutcome(s)
  PROVE  Inv'
<1>1. /\ log' \in Seq(Rows) /\ Len(log') = Len(log)
      /\ \A i \in 1..Len(log) :
           /\ log'[i].customer = log[i].customer
           /\ log'[i].direction = log[i].direction
           /\ log'[i].entity = log[i].entity
           /\ i # sender[s].id => log'[i] = log[i]
           /\ i = sender[s].id => log'[i] = Marked(log[i], sender[s].outcome)
  BY Marking
<1>2. run' = run /\ sender' = [sender EXCEPT ![s] = Idle]
  BY DEF WriteOutcome
<1>3. Idle \in [id : 0..MaxRows, outcome : Outcomes] /\ Idle.id = 0
  BY CommunicationsTypes DEF Idle, Outcome, Outcomes
<1>4. Shape'
  BY <1>1, <1>2, <1>3 DEF Inv, Shape
<1>5. Named' /\ Disjoint'
  BY <1>1, <1>2, <1>3 DEF Inv, Shape, Named, Disjoint, Exists
<1>6. Evidenced'
  BY <1>1, <1>2, EvidenceExists DEF Inv, Evidenced
<1>7. sender[s].outcome \in {"sent", "failed"}
  BY DEF Inv, Shape, Outcomes
<1>8. SentHasTime'
  <2> SUFFICES ASSUME NEW i \in 1..Len(log)
               PROVE  /\ log'[i].status = "sent" => log'[i].timed
                      /\ log'[i].status = "pending" => ~log'[i].timed
    BY <1>1 DEF SentHasTime
  <2>1. CASE i = sender[s].id
    <3>1. log'[i] = Marked(log[i], sender[s].outcome)
      BY <1>1, <2>1
    <3>2. log'[i].status = sender[s].outcome
      BY <3>1 DEF Marked, Row
    <3>3. log'[i].timed = (sender[s].outcome = "sent" \/ log[i].timed)
      BY <3>1 DEF Marked, Row
    <3>4. CASE sender[s].outcome = "sent"
      BY <3>2, <3>3, <3>4
    <3>5. CASE sender[s].outcome = "failed"
      BY <3>2, <3>5
    <3>6. QED
      BY <3>4, <3>5, <1>7
  <2>2. CASE i # sender[s].id
    BY <1>1, <2>2 DEF Inv, SentHasTime
  <2>3. QED
    BY <2>1, <2>2
<1>9. QED
  BY <1>4, <1>5, <1>6, <1>8 DEF Inv

LEMMA SenderStep ==
  ASSUME Inv, NEW s \in Senders,
         \/ Rollback(s)
         \/ \E i \in 1..MaxRows, outcome \in Outcomes : ReadPending(s, i, outcome)
  PROVE  Inv'
<1>1. PICK o \in [id : 0..MaxRows, outcome : Outcomes] :
        sender' = [sender EXCEPT ![s] = o] /\ (o.id # 0 => Exists(o.id))
  <2>1. CASE Rollback(s)
    <3>1. Idle \in [id : 0..MaxRows, outcome : Outcomes] /\ Idle.id = 0
      BY CommunicationsTypes DEF Idle, Outcome, Outcomes
    <3>2. sender' = [sender EXCEPT ![s] = Idle]
      BY <2>1 DEF Rollback
    <3>3. QED
      BY <3>1, <3>2
  <2>2. CASE \E i \in 1..MaxRows, outcome \in Outcomes : ReadPending(s, i, outcome)
    <3>1. PICK i \in 1..MaxRows, outcome \in Outcomes : ReadPending(s, i, outcome)
      BY <2>2
    <3>2. Outcome(i, outcome) \in [id : 0..MaxRows, outcome : Outcomes]
          /\ Outcome(i, outcome).id = i
      BY CommunicationsTypes DEF Outcome
    <3>3. QED
      BY <3>1, <3>2 DEF ReadPending, Markable
  <2>3. QED
    BY <2>1, <2>2
<1>2. log' = log /\ run' = run
  BY DEF Rollback, ReadPending
<1>3. Shape' /\ Named'
  BY <1>1, <1>2 DEF Inv, Shape, Named, Exists
<1>4. Disjoint' /\ Evidenced' /\ SentHasTime'
  BY <1>2 DEF Inv, Disjoint, Evidenced, SentHasTime
<1>5. QED
  BY <1>3, <1>4 DEF Inv

LEMMA NextInv == Inv /\ [Next]_vars => Inv'
<1> SUFFICES ASSUME Inv, [Next]_vars PROVE Inv'
  OBVIOUS
<1> USE CommunicationsTypes
<1>1. ASSUME NEW t \in Tasks, StartRun(t) PROVE Inv'
  <2>1. run[t].results \in Seq(1..MaxRows)
    BY DEF Inv, Shape, Runs
  <2>2. Run("running", <<>>, 0) \in Runs /\ Run("running", <<>>, 0).results = <<>>
        /\ Run("running", <<>>, 0).pc = "running"
    BY DEF Run, Runs
  <2>3. run' \in [Tasks -> Runs] /\ run'[t].results = <<>> /\ run'[t].pc = "running"
        /\ \A u \in Tasks \ {t} : run'[u] = run[u]
    BY <1>1, <2>2, OthersKept DEF StartRun
  <2>4. log' = log /\ sender' = sender
    BY <1>1 DEF StartRun
  <2>5. Shape' /\ Named'
    BY <2>3, <2>4 DEF Inv, Shape, Named, Exists
  <2>6. Disjoint' /\ Evidenced' /\ SentHasTime'
    BY <2>3, <2>4 DEF Inv, Disjoint, Evidenced, SentHasTime
  <2>7. QED
    BY <2>5, <2>6 DEF Inv
<1>2. ASSUME NEW t \in Tasks, Answer(t) PROVE Inv'
  <2>1. run' = [run EXCEPT ![t] = Run("answered", run[t].results, 0)] /\ UNCHANGED <<log, sender>>
    BY <1>2 DEF Answer
  <2>2. 0 \in 0..MaxRows /\ "answered" \in {"waiting", "running", "answered", "completed", "failed"}
    OBVIOUS
  <2>3. QED
    BY <2>1, <2>2, RunStep
<1>3. ASSUME NEW t \in Tasks, FailRun(t) PROVE Inv'
  <2>1. run' = [run EXCEPT ![t] = Run("failed", run[t].results, 0)] /\ UNCHANGED <<log, sender>>
    BY <1>3 DEF FailRun
  <2>2. 0 \in 0..MaxRows /\ "failed" \in {"waiting", "running", "answered", "completed", "failed"}
    OBVIOUS
  <2>3. QED
    BY <2>1, <2>2, RunStep
<1>4. ASSUME NEW t \in Tasks, Complete(t) PROVE Inv'
  <2>1. PICK k \in DOMAIN run[t].results :
          /\ Matches(t, run[t].results[k])
          /\ run' = [run EXCEPT ![t] = Run("completed", run[t].results, run[t].results[k])]
    BY <1>4 DEF Complete, FirstMatch, Candidates
  <2>2. run[t].results[k] \in 0..MaxRows
    BY <2>1 DEF Inv, Shape, Runs
  <2>3. UNCHANGED <<log, sender>>
    BY <1>4 DEF Complete
  <2>4. QED
    BY <2>1, <2>2, <2>3, RunStep
<1>5. ASSUME NEW t \in Tasks, RefuseProse(t) PROVE Inv'
  <2>1. run' = [run EXCEPT ![t] = Run("failed", run[t].results, 0)] /\ UNCHANGED <<log, sender>>
    BY <1>5 DEF RefuseProse
  <2>2. 0 \in 0..MaxRows /\ "failed" \in {"waiting", "running", "answered", "completed", "failed"}
    OBVIOUS
  <2>3. QED
    BY <2>1, <2>2, RunStep
<1>6. CASE UNCHANGED vars
  BY <1>6 DEF vars, Inv, Shape, Named, Exists, Disjoint, Evidenced, SentHasTime
<1>7. QED
  BY <1>1, <1>2, <1>3, <1>4, <1>5, <1>6, LogStep, ChatStep, WriteStep, SenderStep DEF Next

-----------------------------------------------------------------------------
LEMMA Invariance == Spec => []Inv
BY InitInv, NextInv, PTL DEF Spec

\* The log, the runs and the sessions keep their types (record_communication,
\* mark_sent and mark_failed write nothing else).
THEOREM Typing == Spec => []TypeOK
<1>1. Inv => TypeOK
  BY DEF Inv, Shape, Named, TypeOK
<1>2. QED
  BY <1>1, Invariance, PTL

\* Whatever any number of chats, tasks and sessions do, a completed task
\* stands on an outbound row of its own (require_logged_communication).
THEOREM OwnEvidence == Spec => []EvidenceIsOwn
<1>1. Inv => EvidenceIsOwn
  <2> SUFFICES ASSUME Inv, NEW t \in Tasks, run[t].pc = "completed"
               PROVE  /\ Exists(run[t].evidence)
                      /\ log[run[t].evidence].customer = CustomerOf[t]
                      /\ log[run[t].evidence].direction = "outbound"
                      /\ EntityOf[t] # None => log[run[t].evidence].entity = EntityOf[t]
                      /\ \A u \in Tasks \ {t} :
                           run[u].pc = "completed" => run[u].evidence # run[t].evidence
    BY DEF EvidenceIsOwn
  <2>1. Exists(run[t].evidence)
    BY EvidenceExists DEF Exists
  <2>2. \A u \in Tasks \ {t} : run[u].pc = "completed" => run[u].evidence # run[t].evidence
    BY DEF Inv, Evidenced, Disjoint
  <2>3. QED
    BY <2>1, <2>2 DEF Inv, Evidenced
<1>2. QED
  BY <1>1, Invariance, PTL

\* Two racing outcomes never leave a sent row without its time.
THEOREM TimedOutcomes == Spec => []SentHasTime
<1>1. Inv => SentHasTime
  BY DEF Inv
<1>2. QED
  BY <1>1, Invariance, PTL
=============================================================================

-------------------------- MODULE Followups_proofs --------------------------
(***************************************************************************)
(* Proofs about Followups, for any number of tasks, sweeps, communications *)
(* and failures.  The argument is the claim: a task's attempts tell        *)
(* whether it was ever claimed, and whoever runs it claimed it.            *)
(***************************************************************************)
EXTENDS Followups, FiniteSetTheorems, TLAPS

\* A sweep past its listing has a task at the head of its list.
Working == {"claim", "run", "verify", "fail"}

HasWork ==
  \A w \in Workers : sweep[w].pc \in Working => Len(sweep[w].todo) > 0

\* Nobody claims a task twice: a task that left "pending" was claimed once.
ClaimedOnce ==
  \A f \in Tasks :
    task[f].attempts = IF task[f].status \in {"none", "pending"} THEN 0 ELSE 1

\* Who runs a task claimed it, alone.
RunnerClaimed ==
  /\ \A w \in Workers, f \in Tasks : Running(w, f) => task[f].status \notin {"none", "pending"}
  /\ \A v, w \in Workers, f \in Tasks : Running(v, f) /\ Running(w, f) => v = w

\* A result that names a communication has one in the database.
ResultIsLogged ==
  \A w \in Workers, f \in Tasks : Running(w, f) /\ sweep[w].recorded => logged[f] > 0

IInv == TypeOK /\ HasWork /\ ClaimedOnce /\ RunnerClaimed /\ ResultIsLogged /\ CompletedIsLogged

-----------------------------------------------------------------------------
(* Lists of ids.                                                           *)

\* get_due_tasks lists ids of tasks.
LEMMA Listed ==
  ASSUME NEW ids \in OldestFirst(Due), ids # <<>>
  PROVE  /\ ids \in Seq(Tasks) /\ Len(ids) > 0
         /\ <<Head(ids)>> \in Seq(Tasks) /\ Len(<<Head(ids)>>) = 1
<1>1. IsFiniteSet(Due) /\ Due \subseteq Tasks
  BY FollowupsTypes, FS_Subset DEF Due
<1>2. Cardinality(Due) \in Nat
  BY <1>1, FS_CardinalityType
<1>3. ids \in [1..Cardinality(Due) -> Tasks]
  BY <1>1 DEF OldestFirst, SetToSeqs
<1>4. ids \in Seq(Tasks)
  BY <1>2, <1>3
<1>5. Len(ids) > 0 /\ Head(ids) \in Tasks
  BY <1>4
<1>6. QED
  BY <1>4, <1>5

\* What a sweep at work carries.
LEMMA AtWork ==
  ASSUME TypeOK, HasWork, NEW w \in Workers, sweep[w].pc \in Working
  PROVE  /\ sweep[w].todo \in Seq(Tasks) /\ Len(sweep[w].todo) > 0
         /\ Current(w) \in Tasks
         /\ Tail(sweep[w].todo) \in Seq(Tasks)
         /\ Len(sweep[w].todo) > 1 => Len(Tail(sweep[w].todo)) > 0
<1>1. sweep[w].todo \in Seq(Tasks) /\ Len(sweep[w].todo) > 0
  BY DEF TypeOK, Sweeps, HasWork
<1>2. QED
  BY <1>1 DEF Current

\* After its task a sweep is idle or about to claim the next one.
LEMMA MovedOn ==
  ASSUME TypeOK, HasWork, NEW w \in Workers, sweep[w].pc \in Working, NextTask(w)
  PROVE  /\ sweep' \in [Workers -> Sweeps]
         /\ sweep'[w].pc \in {"idle", "claim"} /\ ~sweep'[w].recorded
         /\ sweep'[w].pc = "claim" => Len(sweep'[w].todo) > 0
         /\ \A v \in Workers \ {w} : sweep'[v] = sweep[v]
<1>1. CASE Len(sweep[w].todo) > 1
  <2> DEFINE s == [pc |-> "claim", todo |-> Tail(sweep[w].todo), recorded |-> FALSE]
  <2>1. s \in Sweeps /\ Len(s.todo) > 0
    BY <1>1, AtWork DEF Sweeps
  <2>2. sweep' = [sweep EXCEPT ![w] = s]
    BY <1>1 DEF NextTask
  <2>3. sweep'[w] = s
    BY <2>2 DEF TypeOK
  <2>4. QED
    BY <2>1, <2>2, <2>3 DEF TypeOK
<1>2. CASE ~(Len(sweep[w].todo) > 1)
  <2>1. Idle \in Sweeps
    BY DEF Idle, Sweeps
  <2>2. sweep' = [sweep EXCEPT ![w] = Idle]
    BY <1>2 DEF NextTask
  <2>3. QED
    BY <2>1, <2>2 DEF TypeOK, Idle
<1>3. QED
  BY <1>1, <1>2

\* A row whose status is written is still a row.
LEMMA StatusWritten ==
  ASSUME TypeOK, NEW f \in Tasks, NEW s \in {"none", "pending", "in_progress"} \cup Settled,
         task' = [task EXCEPT ![f].status = s]
  PROVE  /\ task' \in [Tasks -> Rows]
         /\ task'[f].status = s /\ task'[f].attempts = task[f].attempts
         /\ \A g \in Tasks \ {f} : task'[g] = task[g]
<1> DEFINE r == [task[f] EXCEPT !.status = s]
<1>1. r \in Rows /\ r.status = s /\ r.attempts = task[f].attempts
  BY DEF TypeOK, Rows
<1>2. task' = [task EXCEPT ![f] = r]
  OBVIOUS
<1> HIDE DEF r
<1>3. QED
  BY <1>1, <1>2 DEF TypeOK

-----------------------------------------------------------------------------
(* What a step must show: lemmas on the four kinds of steps.               *)

\* A step of sweep w that leaves the rows, its list and its result.
LEMMA MovesPc ==
  ASSUME IInv, NEW w \in Workers, NEW pc \in {"list", "run", "verify", "fail"},
         pc = "list" => ~sweep[w].recorded,
         pc # "list" => sweep[w].pc \in {"run", "verify", "fail"},
         Goto(w, pc), UNCHANGED <<task, logged, failures>>
  PROVE  IInv'
<1>1. /\ sweep' \in [Workers -> Sweeps]
      /\ sweep'[w].pc = pc /\ sweep'[w].todo = sweep[w].todo /\ sweep'[w].recorded = sweep[w].recorded
      /\ \A v \in Workers \ {w} : sweep'[v] = sweep[v]
  BY DEF IInv, TypeOK, Sweeps, Goto
<1>2. \A v \in Workers, f \in Tasks : Running(v, f)' => Running(v, f)
  BY <1>1 DEF Running, Current
<1>3. TypeOK' /\ HasWork'
  BY <1>1 DEF IInv, TypeOK, HasWork, Working
<1>4. QED
  BY <1>1, <1>2, <1>3 DEF IInv, ClaimedOnce, RunnerClaimed, ResultIsLogged, CompletedIsLogged

\* A step after which w runs nothing, and whose row, if it writes one, is of
\* a task that was claimed and is settled now.
LEMMA Releases ==
  ASSUME IInv, NEW w \in Workers, UNCHANGED logged, failures' \in 0..MaxFailures,
         sweep' \in [Workers -> Sweeps],
         \A v \in Workers \ {w} : sweep'[v] = sweep[v],
         sweep'[w].pc \in {"idle", "claim"}, ~sweep'[w].recorded,
         sweep'[w].pc = "claim" => Len(sweep'[w].todo) > 0,
         \/ UNCHANGED task
         \/ \E f \in Tasks, s \in Settled :
              /\ Running(w, f)
              /\ task' = [task EXCEPT ![f].status = s]
              /\ s = "completed" => logged[f] > 0
  PROVE  IInv'
<1>1. \A v \in Workers, f \in Tasks : Running(v, f)' => v # w /\ Running(v, f)
  BY DEF Running, Current
<1>2. /\ task' \in [Tasks -> Rows]
      /\ \A f \in Tasks :
           \/ task'[f] = task[f]
           \/ /\ task'[f].attempts = task[f].attempts
              /\ task[f].status \notin {"none", "pending"}
              /\ task'[f].status \in Settled
              /\ task'[f].status = "completed" => logged[f] > 0
  <2>1. CASE UNCHANGED task
    BY <2>1 DEF IInv, TypeOK
  <2>2. ASSUME NEW f \in Tasks, NEW s \in Settled, Running(w, f),
               task' = [task EXCEPT ![f].status = s], s = "completed" => logged[f] > 0
        PROVE  /\ task' \in [Tasks -> Rows]
               /\ \A g \in Tasks :
                    \/ task'[g] = task[g]
                    \/ /\ task'[g].attempts = task[g].attempts
                       /\ task[g].status \notin {"none", "pending"}
                       /\ task'[g].status \in Settled
                       /\ task'[g].status = "completed" => logged[g] > 0
    <3>1. task[f].status \notin {"none", "pending"}
      BY <2>2 DEF IInv, RunnerClaimed
    <3>2. /\ task' \in [Tasks -> Rows] /\ task'[f].status = s /\ task'[f].attempts = task[f].attempts
          /\ \A g \in Tasks \ {f} : task'[g] = task[g]
      BY <2>2, StatusWritten DEF IInv
    <3>3. QED
      BY <2>2, <3>1, <3>2
  <2>3. QED
    BY <2>1, <2>2
<1>3. TypeOK' /\ HasWork'
  BY <1>2 DEF IInv, TypeOK, HasWork, Working
<1>4. ClaimedOnce' /\ CompletedIsLogged'
  BY <1>2 DEF IInv, ClaimedOnce, CompletedIsLogged, Settled
<1>5. RunnerClaimed' /\ ResultIsLogged'
  BY <1>1, <1>2 DEF IInv, RunnerClaimed, ResultIsLogged, Settled
<1>6. QED
  BY <1>3, <1>4, <1>5 DEF IInv

\* A step that changes rows only, without claiming: each row stays as far
\* as it was claimed or not, and completes nothing.
LEMMA RowsOnly ==
  ASSUME IInv, UNCHANGED <<logged, failures, sweep>>, task' \in [Tasks -> Rows],
         \A f \in Tasks :
           /\ task'[f].attempts = task[f].attempts
           /\ task'[f].status \in {"none", "pending"} <=> task[f].status \in {"none", "pending"}
           /\ task'[f].status = "completed" => task[f].status = "completed"
  PROVE  IInv'
<1>1. \A w \in Workers, f \in Tasks : Running(w, f)' <=> Running(w, f)
  BY DEF Running, Current
<1>2. TypeOK' /\ HasWork'
  BY DEF IInv, TypeOK, HasWork
<1>3. QED
  BY <1>1, <1>2 DEF IInv, ClaimedOnce, RunnerClaimed, ResultIsLogged, CompletedIsLogged

\* A step that claims f, or inserts it claimed, and starts to run it.
LEMMA Claims ==
  ASSUME IInv, NEW w \in Workers, NEW f \in Tasks, UNCHANGED <<logged, failures>>,
         task[f].status \in {"none", "pending"},
         task' \in [Tasks -> Rows], sweep' \in [Workers -> Sweeps],
         \A g \in Tasks \ {f} : task'[g] = task[g],
         \A v \in Workers \ {w} : sweep'[v] = sweep[v],
         task'[f].status = "in_progress", task'[f].attempts = 1,
         sweep'[w].pc = "run", ~sweep'[w].recorded,
         Len(sweep'[w].todo) > 0, Head(sweep'[w].todo) = f
  PROVE  IInv'
<1>1. \A v \in Workers : ~Running(v, f)
  BY DEF IInv, RunnerClaimed
<1>2. /\ \A v \in Workers \ {w}, g \in Tasks : Running(v, g)' <=> Running(v, g)
      /\ \A g \in Tasks : Running(w, g)' => g = f
  BY DEF Running, Current
<1>3. TypeOK' /\ HasWork'
  BY DEF IInv, TypeOK, HasWork, Working
<1>4. ClaimedOnce' /\ CompletedIsLogged'
  BY DEF IInv, ClaimedOnce, CompletedIsLogged
<1>5. RunnerClaimed' /\ ResultIsLogged'
  BY <1>1, <1>2 DEF IInv, RunnerClaimed, ResultIsLogged
<1>6. QED
  BY <1>3, <1>4, <1>5 DEF IInv

-----------------------------------------------------------------------------
(* The steps.                                                              *)

LEMMA InitInv == Init => IInv
<1> SUFFICES ASSUME Init
             PROVE  IInv
  OBVIOUS
<1>1. \A w \in Workers : sweep[w] = Idle /\ sweep[w].pc = "idle" /\ ~sweep[w].recorded
  BY DEF Init, Idle
<1>2. Idle \in Sweeps /\ NoTask \in Rows
  BY DEF Idle, Sweeps, NoTask, Rows
<1>3. TypeOK
  BY <1>1, <1>2, FollowupsTypes DEF Init, TypeOK
<1>4. QED
  BY <1>1, <1>3 DEF Init, NoTask, IInv, HasWork, Working, ClaimedOnce, RunnerClaimed, Running,
     ResultIsLogged, CompletedIsLogged

LEMMA StepInv == IInv /\ [Next]_vars => IInv'
<1> SUFFICES ASSUME IInv, [Next]_vars
             PROVE  IInv'
  OBVIOUS
<1>t. TypeOK /\ HasWork
  BY DEF IInv
<1>1. ASSUME NEW f \in Tasks, Create(f)
      PROVE  IInv'
  <2>1. task' \in [Tasks -> Rows] /\ \A g \in Tasks : g # f => task'[g] = task[g]
    BY <1>1, <1>t DEF Create, TypeOK, Rows
  <2>2. task'[f].status = "pending" /\ task'[f].attempts = task[f].attempts
    BY <1>1, <1>t DEF Create, TypeOK, Rows
  <2>3. QED
    BY <1>1, <2>1, <2>2, RowsOnly DEF Create
<1>2. ASSUME NEW f \in Tasks, BecomeDue(f) \/ Age(f)
      PROVE  IInv'
  <2>1. /\ task' \in [Tasks -> Rows]
        /\ \A g \in Tasks : task'[g].status = task[g].status /\ task'[g].attempts = task[g].attempts
    <3> DEFINE due == [task[f] EXCEPT !.due = TRUE]
               stale == [task[f] EXCEPT !.stale = TRUE]
    <3>1. /\ due \in Rows /\ due.status = task[f].status /\ due.attempts = task[f].attempts
          /\ stale \in Rows /\ stale.status = task[f].status /\ stale.attempts = task[f].attempts
      BY <1>t DEF TypeOK, Rows
    <3>2. PICK r \in {due, stale} : task' = [task EXCEPT ![f] = r]
      BY <1>2 DEF BecomeDue, Age
    <3> HIDE DEF due, stale
    <3>3. QED
      BY <1>t, <3>1, <3>2 DEF TypeOK
  <2>2. QED
    BY <1>2, <2>1, RowsOnly DEF BecomeDue, Age
<1>3. ASSUME NEW w \in Workers, NEW f \in Tasks, Remind(w, f)
      PROVE  IInv'
  <2> DEFINE s == [pc |-> "run", todo |-> <<f>>, recorded |-> FALSE]
  <2>1. s \in Sweeps /\ Len(s.todo) > 0 /\ Head(s.todo) = f
    BY DEF Sweeps
  <2>2. /\ sweep' \in [Workers -> Sweeps] /\ sweep'[w] = s
        /\ \A v \in Workers \ {w} : sweep'[v] = sweep[v]
    BY <1>3, <1>t, <2>1 DEF Remind, TypeOK
  <2>3. /\ task' \in [Tasks -> Rows] /\ task'[f].status = "in_progress" /\ task'[f].attempts = 1
        /\ \A g \in Tasks \ {f} : task'[g] = task[g]
    BY <1>3, <1>t DEF Remind, TypeOK, Rows
  <2>4. QED
    BY <1>3, <2>1, <2>2, <2>3, Claims DEF Remind
<1>4. ASSUME NEW w \in Workers, StartSweep(w)
      PROVE  IInv'
  <2>1. /\ task' \in [Tasks -> Rows]
        /\ \A f \in Tasks :
             /\ task'[f].attempts = task[f].attempts
             /\ task'[f] = task[f] \/ (task[f].status = "in_progress" /\ task'[f].status = "failed")
    <3>1. task' = [f \in Tasks |-> FailStale(task[f])]
      BY <1>4 DEF StartSweep
    <3>2. ASSUME NEW f \in Tasks
          PROVE  /\ FailStale(task[f]) \in Rows
                 /\ FailStale(task[f]).attempts = task[f].attempts
                 /\ \/ FailStale(task[f]) = task[f]
                    \/ task[f].status = "in_progress" /\ FailStale(task[f]).status = "failed"
      BY <1>t DEF FailStale, TypeOK, Rows, Settled
    <3>3. QED
      BY <3>1, <3>2
  <2>2. /\ sweep' \in [Workers -> Sweeps] /\ sweep'[w].pc = "list" /\ ~sweep'[w].recorded
        /\ \A v \in Workers \ {w} : sweep'[v] = sweep[v]
    BY <1>4, <1>t DEF StartSweep, Goto, At, TypeOK, Sweeps
  <2>3. \A v \in Workers, f \in Tasks : Running(v, f)' => v # w /\ Running(v, f)
    BY <2>2 DEF Running, Current
  <2>4. TypeOK' /\ HasWork'
    BY <1>4, <2>1, <2>2 DEF StartSweep, IInv, TypeOK, HasWork, Working
  <2>5. UNCHANGED logged
    BY <1>4 DEF StartSweep
  <2>6. QED
    BY <2>1, <2>2, <2>3, <2>4, <2>5
       DEF IInv, ClaimedOnce, RunnerClaimed, ResultIsLogged, CompletedIsLogged
<1>5. ASSUME NEW w \in Workers, ListDue(w)
      PROVE  IInv'
  <2>1. PICK ids \in OldestFirst(Due), limited \in Limits :
          sweep' = [sweep EXCEPT ![w] =
            IF ids = <<>> THEN Idle
            ELSE [pc |-> "claim", todo |-> IF limited THEN <<Head(ids)>> ELSE ids,
                  recorded |-> FALSE]]
    BY <1>5 DEF ListDue
  <2>2. UNCHANGED <<task, logged, failures>>
    BY <1>5 DEF ListDue
  <2>3. CASE ids = <<>>
    <3>1. sweep' = [sweep EXCEPT ![w] = Idle] /\ Idle \in Sweeps
      BY <2>1, <2>3 DEF Idle, Sweeps
    <3>2. QED
      BY <3>1, <2>2, Releases DEF IInv, TypeOK, Idle
  <2>4. CASE ids # <<>>
    <3> DEFINE todo == IF limited THEN <<Head(ids)>> ELSE ids
               s == [pc |-> "claim", todo |-> todo, recorded |-> FALSE]
    <3>1. todo \in Seq(Tasks) /\ Len(todo) > 0
      BY <2>4, Listed
    <3> HIDE DEF todo
    <3>2. s \in Sweeps /\ s.pc = "claim" /\ ~s.recorded /\ Len(s.todo) > 0
      BY <3>1 DEF Sweeps
    <3>3. sweep' = [sweep EXCEPT ![w] = s]
      BY <2>1, <2>4 DEF todo
    <3> HIDE DEF s
    <3>4. QED
      BY <3>2, <3>3, <2>2, Releases DEF IInv, TypeOK
  <2>5. QED
    BY <2>3, <2>4
<1>6. ASSUME NEW w \in Workers, Claim(w)
      PROVE  IInv'
  <2> DEFINE f == Current(w)
  <2>1. f \in Tasks /\ Len(sweep[w].todo) > 0 /\ task[f].status = "pending" /\ ~sweep[w].recorded
    BY <1>6, <1>t, AtWork DEF Claim, Claimable, Working, At, TypeOK
  <2>2. task[f].attempts = 0
    BY <2>1 DEF IInv, ClaimedOnce
  <2>3. /\ task' \in [Tasks -> Rows] /\ task'[f].status = "in_progress" /\ task'[f].attempts = 1
        /\ \A g \in Tasks \ {f} : task'[g] = task[g]
    <3> DEFINE r == [task[f] EXCEPT !.status = "in_progress", !.stale = FALSE,
                                    !.attempts = task[f].attempts + 1]
    <3>0. task[f] \in Rows /\ 0 + 1 = 1 /\ 1 \in Nat
      BY <1>t, <2>1 DEF TypeOK
    <3>1. r \in Rows /\ r.status = "in_progress" /\ r.attempts = 1
      BY <3>0, <2>2 DEF Rows
    <3>2. task' = [task EXCEPT ![f] = r]
      BY <1>6 DEF Claim
    <3> HIDE DEF r
    <3>3. QED
      BY <1>t, <2>1, <3>1, <3>2 DEF TypeOK
  <2>4. /\ sweep' \in [Workers -> Sweeps] /\ sweep'[w].pc = "run"
        /\ sweep'[w].todo = sweep[w].todo /\ sweep'[w].recorded = sweep[w].recorded
        /\ \A v \in Workers \ {w} : sweep'[v] = sweep[v]
    BY <1>6, <1>t DEF Claim, Goto, TypeOK, Sweeps
  <2>5. UNCHANGED <<logged, failures>> /\ Head(sweep[w].todo) = f
    BY <1>6 DEF Claim, Current
  <2>6. QED
    BY <2>1, <2>3, <2>4, <2>5, Claims
<1>7. ASSUME NEW w \in Workers, SkipClaimed(w)
      PROVE  IInv'
  BY <1>7, <1>t, MovedOn, Releases DEF SkipClaimed, At, Working, TypeOK
<1>8. ASSUME NEW w \in Workers, LogCommunication(w)
      PROVE  IInv'
  <2> DEFINE f == Current(w)
  <2>1. f \in Tasks
    BY <1>8, <1>t, AtWork DEF LogCommunication, Working, At
  <2>2. /\ logged' \in [Tasks -> 0..MaxLogs] /\ logged'[f] > 0
        /\ \A g \in Tasks : logged'[g] >= logged[g]
    BY <1>8, <1>t, <2>1, FollowupsTypes DEF LogCommunication, TypeOK
  <2>3. /\ sweep' \in [Workers -> Sweeps] /\ sweep'[w].pc = "run" /\ sweep'[w].todo = sweep[w].todo
        /\ sweep[w].pc = "run"
        /\ \A v \in Workers \ {w} : sweep'[v] = sweep[v]
    BY <1>8, <1>t DEF LogCommunication, At, TypeOK, Sweeps
  <2>4. UNCHANGED <<task, failures>>
    BY <1>8 DEF LogCommunication
  <2>5. /\ \A v \in Workers, g \in Tasks : Running(v, g)' <=> Running(v, g)
        /\ \A g \in Tasks : Running(w, g)' => g = f
    BY <2>3 DEF Running, Current
  <2>6. TypeOK' /\ HasWork'
    BY <2>2, <2>3, <2>4 DEF IInv, TypeOK, HasWork, Working
  <2>7. ResultIsLogged' /\ CompletedIsLogged'
    BY <2>2, <2>3, <2>4, <2>5, <1>t DEF IInv, ResultIsLogged, CompletedIsLogged, TypeOK
  <2>8. QED
    BY <2>4, <2>5, <2>6, <2>7 DEF IInv, ClaimedOnce, RunnerClaimed
<1>9. ASSUME NEW w \in Workers, EndRun(w) \/ RefuseCompletion(w)
      PROVE  IInv'
  BY <1>9, MovesPc DEF EndRun, RefuseCompletion, At
<1>10. ASSUME NEW w \in Workers, Complete(w) \/ MarkFailed(w)
      PROVE  IInv'
  <2> DEFINE f == Current(w)
  <2>1. sweep[w].pc \in Working /\ NextTask(w) /\ UNCHANGED <<logged, failures>>
    BY <1>10 DEF Complete, MarkFailed, At, Working
  <2>2. f \in Tasks /\ Running(w, f)
    BY <1>10, <2>1, <1>t, AtWork DEF Complete, MarkFailed, At, Running
  <2>3. PICK s \in Settled : task' = [task EXCEPT ![f].status = s] /\ (s = "completed" => Complete(w))
    BY <1>10 DEF Complete, MarkFailed, Settled
  <2>4. Complete(w) => logged[f] > 0
    BY <2>2 DEF Complete, Verified, IInv, ResultIsLogged
  <2>5. QED
    BY <2>1, <2>2, <2>3, <2>4, <1>t, MovedOn, Releases DEF TypeOK
<1>11. ASSUME NEW w \in Workers, CompleteUnheard(w)
      PROVE  IInv'
  <2> DEFINE f == Current(w)
  <2>1. f \in Tasks /\ Running(w, f) /\ sweep[w].recorded
    BY <1>11, <1>t, AtWork DEF CompleteUnheard, Verified, At, Running, Working
  <2>2. logged[f] > 0 /\ task[f].status \notin {"none", "pending"}
    BY <2>1 DEF IInv, ResultIsLogged, RunnerClaimed
  <2>3. /\ task' \in [Tasks -> Rows] /\ task'[f].status = "completed"
        /\ task'[f].attempts = task[f].attempts /\ \A g \in Tasks \ {f} : task'[g] = task[g]
    BY <1>11, <1>t, <2>1 DEF CompleteUnheard, TypeOK, Rows, Settled
  <2>4. /\ sweep' \in [Workers -> Sweeps] /\ sweep'[w].pc = "fail" /\ sweep[w].pc = "verify"
        /\ sweep'[w].todo = sweep[w].todo /\ sweep'[w].recorded = sweep[w].recorded
        /\ \A v \in Workers \ {w} : sweep'[v] = sweep[v]
    BY <1>11, <1>t DEF CompleteUnheard, Goto, At, TypeOK, Sweeps
  <2>5. UNCHANGED logged /\ failures' \in 0..MaxFailures
    BY <1>11, <1>t, FollowupsTypes DEF CompleteUnheard, TypeOK
  <2>6. \A v \in Workers, g \in Tasks : Running(v, g)' <=> Running(v, g)
    BY <2>4 DEF Running, Current
  <2>7. TypeOK' /\ HasWork'
    BY <2>3, <2>4, <2>5 DEF IInv, TypeOK, HasWork, Working
  <2>8. ClaimedOnce' /\ CompletedIsLogged'
    BY <2>2, <2>3, <2>5 DEF IInv, ClaimedOnce, CompletedIsLogged
  <2>9. RunnerClaimed' /\ ResultIsLogged'
    BY <2>3, <2>4, <2>5, <2>6 DEF IInv, RunnerClaimed, ResultIsLogged
  <2>10. QED
    BY <2>7, <2>8, <2>9 DEF IInv
<1>12. ASSUME NEW w \in Workers, LeaveUnmarked(w)
      PROVE  IInv'
  <2>1. failures' \in 0..MaxFailures /\ UNCHANGED <<task, logged>> /\ sweep[w].pc \in Working
    BY <1>12, <1>t, FollowupsTypes DEF LeaveUnmarked, TypeOK, At, Working
  <2>2. QED
    BY <1>12, <2>1, <1>t, MovedOn, Releases DEF LeaveUnmarked
<1>13. ASSUME NEW w \in Workers, Crash(w)
      PROVE  IInv'
  <2>1. failures' \in 0..MaxFailures /\ UNCHANGED <<task, logged>>
    BY <1>13, <1>t, FollowupsTypes DEF Crash, TypeOK
  <2>2. /\ sweep' \in [Workers -> Sweeps] /\ sweep'[w].pc = "idle" /\ ~sweep'[w].recorded
        /\ \A v \in Workers \ {w} : sweep'[v] = sweep[v]
    BY <1>13, <1>t DEF Crash, TypeOK, Idle, Sweeps
  <2>3. QED
    BY <2>1, <2>2, Releases
<1>14. CASE UNCHANGED vars
  <2>1. \A w \in Workers, f \in Tasks : Running(w, f)' <=> Running(w, f)
    BY <1>14 DEF vars, Running, Current
  <2>2. QED
    BY <1>14, <2>1 DEF vars, IInv, TypeOK, HasWork, ClaimedOnce, RunnerClaimed, ResultIsLogged, CompletedIsLogged
<1>15. QED
  BY <1>1, <1>2, <1>3, <1>4, <1>5, <1>6, <1>7, <1>8, <1>9, <1>10, <1>11, <1>12, <1>13, <1>14
     DEF Next, Sweep, Settle

LEMMA Invariance == Spec => []IInv
BY InitInv, StepInv, PTL DEF Spec

-----------------------------------------------------------------------------
(* Who may still record for a task, or complete it.                        *)

Answering(v) == sweep[v].pc \in {"run", "verify"}
Recording(w, f) == Answering(w) /\ Current(w) = f

\* A task that a run may record for or complete is not settled, unless its
\* claim is old.
RunIsOpen ==
  \A w \in Workers, f \in Tasks :
    Recording(w, f) => task[f].status = "in_progress" \/ task[f].stale

\* A step that starts no run, and that writes the status of no task but one
\* its own sweep runs, or the status of a stale one.
LEMMA StaysOpen ==
  ASSUME RunIsOpen,
         \A w \in Workers, f \in Tasks : Recording(w, f)' =>
           /\ Recording(w, f)
           /\ task'[f].status = task[f].status \/ task'[f].stale
           /\ task[f].stale => task'[f].stale
  PROVE  RunIsOpen'
BY DEF RunIsOpen

\* Only the runner of a task settles it, and then it does no more for it.
LEMMA SettledByRunner ==
  ASSUME IInv, RunIsOpen, NEW v \in Workers, NEW s \in Settled, NEW g \in Tasks,
         Running(v, g), task' = [task EXCEPT ![g].status = s], ~Answering(v)',
         \A w \in Workers \ {v} : sweep'[w] = sweep[w]
  PROVE  RunIsOpen'
<1>1. ASSUME NEW w \in Workers, NEW f \in Tasks, Recording(w, f)'
      PROVE  Recording(w, f) /\ f # g
  <2>1. w # v /\ Recording(w, f)
    BY <1>1 DEF Recording, Answering, Current
  <2>2. QED
    BY <2>1 DEF IInv, RunnerClaimed, Recording, Answering, Running
<1>2. \A f \in Tasks \ {g} : task'[f] = task[f]
  BY StatusWritten DEF IInv
<1>3. QED
  BY <1>1, <1>2, StaysOpen

LEMMA OpenStep == IInv /\ RunIsOpen /\ [Next]_vars => RunIsOpen'
<1> SUFFICES ASSUME IInv, RunIsOpen, [Next]_vars
             PROVE  RunIsOpen'
  OBVIOUS
<1>t. TypeOK /\ HasWork
  BY DEF IInv
<1>1. ASSUME NEW f \in Tasks, Create(f) \/ BecomeDue(f) \/ Age(f)
      PROVE  RunIsOpen'
  <2>1. ASSUME NEW w \in Workers, NEW g \in Tasks, Recording(w, g)'
        PROVE  Recording(w, g) /\ task[g].status # "none"
    BY <1>1, <2>1 DEF Create, BecomeDue, Age, Recording, Answering, At, Current, IInv, RunnerClaimed, Running
  <2>2. \A g \in Tasks : g # f => task'[g] = task[g]
    BY <1>1, <1>t DEF Create, BecomeDue, Age, TypeOK
  <2>3. /\ task[f].status = "none" \/ task'[f].status = task[f].status
        /\ task[f].stale => task'[f].stale
    BY <1>1, <1>t DEF Create, BecomeDue, Age, TypeOK, Rows
  <2>4. QED
    BY <2>1, <2>2, <2>3, StaysOpen
<1>2. ASSUME NEW v \in Workers, NEW f \in Tasks, Remind(v, f) \/ (Claim(v) /\ f = Current(v))
      PROVE  RunIsOpen'
  <2>1. task[f].status \in {"none", "pending"} /\ task'[f].status = "in_progress"
    <3> DEFINE born == [task[f] EXCEPT !.status = "in_progress", !.attempts = 1]
               claimed == [task[f] EXCEPT !.status = "in_progress", !.stale = FALSE,
                                          !.attempts = task[f].attempts + 1]
    <3>1. task[f].status \in {"none", "pending"}
      BY <1>2 DEF Remind, Claim, Claimable
    <3>2. born.status = "in_progress" /\ claimed.status = "in_progress"
      BY <1>t DEF TypeOK, Rows
    <3>3. \E row \in {born, claimed} : task' = [task EXCEPT ![f] = row]
      BY <1>2 DEF Remind, Claim
    <3> HIDE DEF born, claimed
    <3>4. QED
      BY <1>t, <3>1, <3>2, <3>3 DEF TypeOK
  <2>2. \A g \in Tasks \ {f} : task'[g] = task[g]
    BY <1>2, <1>t DEF Remind, Claim, TypeOK
  <2>3. \A w \in Workers \ {v} : sweep'[w] = sweep[w]
    BY <1>2, <1>t DEF Remind, Claim, Goto, TypeOK
  <2>4. Current(v)' = f
    <3>1. CASE Remind(v, f)
      BY <3>1, <1>t DEF Remind, Current, TypeOK
    <3>2. CASE Claim(v) /\ f = Current(v)
      BY <3>2, <1>t DEF Claim, Goto, Current, TypeOK, Sweeps
    <3>3. QED
      BY <1>2, <3>1, <3>2
  <2>5. QED
    BY <2>1, <2>2, <2>3, <2>4 DEF RunIsOpen, Recording, Answering, At, Current
<1>3. ASSUME NEW v \in Workers, StartSweep(v)
      PROVE  RunIsOpen'
  <2>1. \A f \in Tasks : task'[f] = task[f] \/ (task[f].stale /\ task'[f].stale)
    <3>1. \A f \in Tasks : task'[f] = FailStale(task[f])
      BY <1>3 DEF StartSweep
    <3>2. QED
      BY <3>1, <1>t DEF FailStale, TypeOK, Rows
  <2>2. \A w \in Workers, f \in Tasks : Recording(w, f)' => Recording(w, f)
    BY <1>3, <1>t DEF StartSweep, Goto, At, Recording, Answering, Current, TypeOK, Sweeps
  <2>3. QED
    BY <2>1, <2>2, StaysOpen
<1>4. ASSUME NEW v \in Workers, UNCHANGED task,
             \A w \in Workers \ {v} : sweep'[w] = sweep[w],
             Answering(v)' => Answering(v) /\ sweep'[v].todo = sweep[v].todo
      PROVE  RunIsOpen'
  <2>1. \A w \in Workers, f \in Tasks : Recording(w, f)' => Recording(w, f)
    BY <1>4 DEF Recording, Answering, Current
  <2>2. QED
    BY <1>4, <2>1, StaysOpen
<1>5. ASSUME NEW v \in Workers, ListDue(v) \/ RefuseCompletion(v) \/ Crash(v)
      PROVE  RunIsOpen'
  <2>1. /\ UNCHANGED task /\ ~Answering(v)'
        /\ \A w \in Workers \ {v} : sweep'[w] = sweep[w]
    BY <1>5, <1>t DEF ListDue, RefuseCompletion, Crash, Goto, Answering, Idle, TypeOK, Sweeps
  <2>2. QED
    BY <2>1, <1>4
<1>6. ASSUME NEW v \in Workers, SkipClaimed(v) \/ LeaveUnmarked(v)
      PROVE  RunIsOpen'
  <2>1. sweep[v].pc \in Working /\ NextTask(v) /\ UNCHANGED task
    BY <1>6 DEF SkipClaimed, LeaveUnmarked, At, Working
  <2>2. ~Answering(v)' /\ \A w \in Workers \ {v} : sweep'[w] = sweep[w]
    BY <2>1, <1>t, MovedOn DEF Answering
  <2>3. QED
    BY <2>1, <2>2, <1>4
<1>7. ASSUME NEW v \in Workers, LogCommunication(v) \/ EndRun(v)
      PROVE  RunIsOpen'
  <2>1. /\ UNCHANGED task /\ Answering(v) /\ sweep'[v].todo = sweep[v].todo
        /\ \A w \in Workers \ {v} : sweep'[w] = sweep[w]
    BY <1>7, <1>t DEF LogCommunication, EndRun, Goto, At, Answering, TypeOK, Sweeps
  <2>2. QED
    BY <2>1, <1>4
<1>8. ASSUME NEW v \in Workers, Complete(v) \/ MarkFailed(v) \/ CompleteUnheard(v)
      PROVE  RunIsOpen'
  <2> DEFINE g == Current(v)
  <2>1. g \in Tasks /\ Running(v, g) /\ sweep[v].pc \in Working
    BY <1>8, <1>t, AtWork DEF Complete, MarkFailed, CompleteUnheard, At, Running, Working
  <2>2. \E s \in Settled : task' = [task EXCEPT ![g].status = s]
    BY <1>8 DEF Complete, MarkFailed, CompleteUnheard, Settled
  <2>3. ~Answering(v)' /\ \A w \in Workers \ {v} : sweep'[w] = sweep[w]
    <3>1. CASE NextTask(v)
      BY <3>1, <2>1, <1>t, MovedOn DEF Answering
    <3>2. CASE Goto(v, "fail")
      BY <3>2, <1>t DEF Goto, Answering, TypeOK, Sweeps
    <3>3. QED
      BY <1>8, <3>1, <3>2 DEF Complete, MarkFailed, CompleteUnheard
  <2>4. QED
    BY <2>1, <2>2, <2>3, SettledByRunner
<1>9. CASE UNCHANGED vars
  BY <1>9 DEF vars, RunIsOpen, Recording, Answering, At, Current
<1>10. ASSUME NEW w \in Workers, Claim(w)
       PROVE  RunIsOpen'
  BY <1>10, <1>2, <1>t, AtWork DEF Claim, At, Working
<1>11. QED
  BY <1>1, <1>2, <1>3, <1>5, <1>6, <1>7, <1>8, <1>9, <1>10 DEF Next, Sweep, Settle

-----------------------------------------------------------------------------
(* The theorems.                                                           *)

\* Rows and sweeps keep their types, and a result belongs to a running task.
THEOREM Typing == Spec => []TypeOK
BY Invariance, PTL DEF IInv

\* However many sweeps and reminders overlap, crash and outlast their
\* claims, a task is run at most once and by one of them.
THEOREM AtMostOnce == Spec => []RunOnce
<1>1. IInv => RunOnce
  <2> SUFFICES ASSUME IInv, NEW f \in Tasks
               PROVE  /\ task[f].attempts <= 1
                      /\ \A v, w \in Workers : Running(v, f) /\ Running(w, f) => v = w
    BY DEF RunOnce
  <2>1. task[f].attempts <= 1
    BY DEF IInv, ClaimedOnce
  <2>2. QED
    BY <2>1 DEF IInv, RunnerClaimed
<1>2. QED
  BY <1>1, Invariance, PTL

\* A failed task is left alone and stays failed, except by a run that
\* outlasted its claim.
THEOREM FailureIsQuiet == Spec => FailedIsQuiet
<1>1. Init => RunIsOpen
  BY DEF Init, Idle, RunIsOpen, Recording, Answering
<1>2. IInv /\ RunIsOpen /\ [Next]_vars =>
        [\A f \in Tasks : task[f].status = "failed" /\ ~task[f].stale =>
           task'[f].status = "failed" /\ logged'[f] = logged[f]]_vars
  <2> SUFFICES ASSUME IInv, RunIsOpen, Next, NEW f \in Tasks,
                      task[f].status = "failed", ~task[f].stale
               PROVE  task'[f].status = "failed" /\ logged'[f] = logged[f]
    BY DEF vars
  <2>t. TypeOK /\ HasWork
    BY DEF IInv
  <2>1. ASSUME NEW w \in Workers, Answering(w)
        PROVE  Current(w) # f
    BY <2>1 DEF RunIsOpen, Recording
  <2>2. ASSUME NEW w \in Workers, LogCommunication(w)
        PROVE  logged'[f] = logged[f]
    BY <2>1, <2>2, <2>t DEF LogCommunication, Answering, At, TypeOK
  <2>3. UNCHANGED logged \/ \E w \in Workers : LogCommunication(w)
    BY DEF Next, Create, BecomeDue, Age, Sweep, StartSweep, ListDue, Claim, SkipClaimed, EndRun,
       Settle, Complete, CompleteUnheard, RefuseCompletion, MarkFailed, LeaveUnmarked, Crash, Remind
  <2>4. ASSUME NEW w \in Workers, Complete(w) \/ CompleteUnheard(w) \/ MarkFailed(w)
        PROVE  task'[f].status = "failed"
    <3>1. Current(w) # f \/ MarkFailed(w)
      BY <2>1, <2>4 DEF Complete, CompleteUnheard, Answering, At
    <3>2. PICK s \in Settled : /\ task' = [task EXCEPT ![Current(w)].status = s]
                               /\ MarkFailed(w) => s = "failed"
      BY <2>4 DEF Complete, CompleteUnheard, MarkFailed, At, Settled
    <3>3. Current(w) \in Tasks
      BY <2>4, <2>t, AtWork DEF Complete, CompleteUnheard, MarkFailed, At, Working
    <3>4. CASE Current(w) = f
      BY <3>1, <3>2, <3>4, <2>t, StatusWritten
    <3>5. CASE Current(w) # f
      BY <3>2, <3>3, <3>5, <2>t, StatusWritten
    <3>6. QED
      BY <3>4, <3>5
  <2>5. ASSUME NEW w \in Workers, StartSweep(w)
        PROVE  task'[f].status = "failed"
    BY <2>5 DEF StartSweep, FailStale
  <2>6. ASSUME NEW w \in Workers, NEW g \in Tasks,
               Remind(w, g) \/ (Claim(w) /\ g = Current(w))
        PROVE  task'[f].status = "failed"
    <3>1. g # f
      BY <2>6 DEF Remind, Claim, Claimable
    <3>2. QED
      BY <2>6, <2>t, <3>1 DEF Remind, Claim, TypeOK
  <2>7. ASSUME NEW g \in Tasks, Create(g) \/ BecomeDue(g) \/ Age(g)
        PROVE  task'[f].status = "failed"
    BY <2>7, <2>t DEF Create, BecomeDue, Age, TypeOK, Rows
  <2>8. UNCHANGED task
          \/ (\E w \in Workers : \/ Complete(w) \/ CompleteUnheard(w) \/ MarkFailed(w)
                                 \/ StartSweep(w) \/ Claim(w)
                                 \/ \E g \in Tasks : Remind(w, g))
          \/ \E g \in Tasks : Create(g) \/ BecomeDue(g) \/ Age(g)
    BY DEF Next, Sweep, ListDue, SkipClaimed, EndRun, LogCommunication,
       Settle, RefuseCompletion, LeaveUnmarked, Crash
  <2>9. ASSUME NEW w \in Workers, Claim(w)
        PROVE  Current(w) \in Tasks
    BY <2>9, <2>t, AtWork DEF Claim, At, Working
  <2>10. QED
    BY <2>2, <2>3, <2>4, <2>5, <2>6, <2>7, <2>8, <2>9
<1>3. QED
  BY <1>1, <1>2, OpenStep, Invariance, PTL DEF Spec, FailedIsQuiet

\* A task is completed only with a recorded communication.
THEOREM CompletionIsEvidenced == Spec => []CompletedIsLogged
BY Invariance, PTL DEF IInv
=============================================================================

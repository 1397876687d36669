------------------------ MODULE SharedByCalls_proofs ------------------------
(***************************************************************************)
(* What all calls of the service share, each for every value of its        *)
(* constants: the policy index, then the database connections.             *)
(*                                                                         *)
(* Policies: for every number of files, sections, ids and jobs.  The       *)
(* inductive invariant ties a job's document to its file (a row with       *)
(* uncommitted chunks cannot be deleted) and a forced job's progress to    *)
(* the files behind it, which this very run has ingested.                  *)
(*                                                                         *)
(* Connections: for every number of threads and tool calls and any sizes   *)
(* of the pools.  What the handlers' paths have in common is proved first, *)
(* of every path: an operation keeps its session only if it takes the lock *)
(* and the lock's block, with nothing kept in it, is open up to where the  *)
(* lock is given up, or if it is the request's last and get_db closes it.  *)
(* The invariant then follows a thread from place to place: what it holds  *)
(* beside the operation's own session is the lock, inside the block.       *)
(***************************************************************************)
EXTENDS PolicyIndex, Connections, FiniteSetTheorems, SequenceTheorems, WellFoundedInduction,
        TLAPS


\* Only a forced job deletes and only an unforced one skips.
ForceDecides ==
  \A j \in Jobs : /\ At(j, "delete") => job[j].force
                  /\ At(j, "skip") => ~job[j].force

AtWork ==
  \A j \in Jobs : /\ ~At(j, "idle") => job[j].file \in 1..Files /\ job[j].outcome = "none"
                  /\ At(j, "embed") => job[j].doc \in 1..Documents

\* A job's document is its file's or is gone, and is not gone once pinned.
OwnDocument ==
  \A j \in Jobs :
    At(j, "embed") => /\ document[job[j].doc] \in {0, job[j].file}
                      /\ job[j].written > 0 => document[job[j].doc] # 0

\* A forced job has ingested the files behind it, in this very run.
Behind ==
  \A j \in Jobs :
    ~At(j, "idle") /\ job[j].force =>
      \A f \in 1..Files : f < job[j].file => f \in renewed[j]

IInv ==
  /\ TypeOK /\ ForceDecides /\ AtWork /\ OwnDocument /\ Behind
  /\ AllOrNothing /\ NoGap /\ ForcedRunIsComplete

-----------------------------------------------------------------------------
(* What a job's row may become.                                            *)

\* The parts of the invariant about a job whose row is r and whose present or
\* last run has ingested the files done.
GoodJob(r, done) ==
  /\ r \in JobRows
  /\ done \subseteq 1..Files
  /\ r.pc = "delete" => r.force
  /\ r.pc = "skip" => ~r.force
  /\ r.pc # "idle" => r.file \in 1..Files /\ r.outcome = "none"
  /\ r.pc = "embed" => /\ r.doc \in 1..Documents
                       /\ document[r.doc] \in {0, r.file}
                       /\ r.written > 0 => document[r.doc] # 0
  /\ r.pc # "idle" /\ r.force => \A f \in 1..Files : f < r.file => f \in done
  /\ r.outcome = "ok" /\ r.force => done = 1..Files

JobsGood ==
  /\ job \in [Jobs -> JobRows]
  /\ renewed \in [Jobs -> SUBSET (1..Files)]
  /\ \A j \in Jobs : GoodJob(job[j], renewed[j])

TablesTyped ==
  /\ column \in {384, 1536}
  /\ document \in [1..Documents -> 0..Files]
  /\ chunks \in [1..Documents -> 0..Sections]
  /\ ingested \in [1..Files -> {"never", "complete", "lost"}]
  /\ failures \in 0..MaxFailures
  /\ \A d \in 1..Documents : chunks[d] > 0 => document[d] # 0

\* The invariant, by the tables and by the jobs.
LEMMA Parts == IInv <=> TablesTyped /\ JobsGood /\ AllOrNothing /\ NoGap
BY DEF IInv, TypeOK, TablesTyped, JobsGood, GoodJob, ForceDecides, AtWork, OwnDocument, Behind,
       ForcedRunIsComplete, At

\* A job that works on a document keeps it while the tables keep the row, and
\* what it has ingested stays its own: the other jobs stay good.
LEMMA OthersStay ==
  ASSUME NEW j \in Jobs, NEW r, NEW done, JobsGood, GoodJob(r, done)',
         job' = [job EXCEPT ![j] = r], renewed' = [renewed EXCEPT ![j] = done],
         \A k \in Jobs \ {j} : job[k].pc = "embed" =>
            document'[job[k].doc] \in {0, document[job[k].doc]},
         \A k \in Jobs \ {j} : job[k].pc = "embed" /\ job[k].written > 0 =>
            document'[job[k].doc] = document[job[k].doc]
  PROVE  JobsGood'
<1>1. r \in JobRows /\ done \subseteq 1..Files
  BY DEF GoodJob
<1>2. job' \in [Jobs -> JobRows] /\ renewed' \in [Jobs -> SUBSET (1..Files)]
  BY <1>1 DEF JobsGood
<1>3. ASSUME NEW k \in Jobs
      PROVE  GoodJob(job[k], renewed[k])'
  <2>1. CASE k = j
    BY <2>1, <1>2 DEF JobsGood, GoodJob
  <2>2. CASE k # j
    <3>1. job'[k] = job[k] /\ renewed'[k] = renewed[k] /\ GoodJob(job[k], renewed[k])
      BY <2>2 DEF JobsGood
    <3>2. QED
      BY <2>2, <3>1 DEF GoodJob
  <2>3. QED
    BY <2>1, <2>2
<1>4. QED
  BY <1>2, <1>3 DEF JobsGood

\* A file that stays searchable leaves no gap.
LEMMA GapsStay ==
  ASSUME NoGap,
         \A f \in 1..Files : ingested'[f] = "complete" =>
            \/ ingested[f] = "complete" /\ (Searchable(f) => Searchable(f)')
               /\ \A k \in Jobs : Replacing(k, f) => \E l \in Jobs : Replacing(l, f)'
            \/ Searchable(f)'
            \/ \E l \in Jobs : Replacing(l, f)'
  PROVE  NoGap'
BY DEF NoGap

\* The end of a file: the job stays good if it was not forced or has just
\* ingested the file.
LEMMA NextFileGood ==
  ASSUME NEW j \in Jobs, NEW done \in SUBSET (1..Files), JobsGood, NextFile(j), ~At(j, "idle"),
         PolicyIndexTypes, renewed[j] \subseteq done, job[j].force => job[j].file \in done
  PROVE  \E r : job' = [job EXCEPT ![j] = r] /\ GoodJob(r, done)' /\ r.pc # "embed"
<1> DEFINE f == job[j].file
<1>1. f \in 1..Files /\ job[j].force \in BOOLEAN /\ Files \in Nat /\ Documents \in Nat /\ Sections \in Nat
  BY PolicyIndexTypes DEF JobsGood, GoodJob, JobRows, At
<1>2. job[j].force => \A g \in 1..Files : g <= f => g \in done
  <2> SUFFICES ASSUME job[j].force, NEW g \in 1..Files, g <= f
               PROVE  g \in done
    OBVIOUS
  <2>1. CASE g = f
    BY <2>1
  <2>2. CASE g < f
    BY <2>2 DEF JobsGood, GoodJob, At
  <2>3. QED
    BY <2>1, <2>2, <1>1
<1>3. CASE f = Files
  <2>1. PICK r : r = [pc |-> "idle", force |-> job[j].force, file |-> 0, doc |-> 0, written |-> 0,
                      outcome |-> "ok"]
    OBVIOUS
  <2>2. job' = [job EXCEPT ![j] = r]
    BY <1>3, <2>1 DEF NextFile, End, Row
  <2>3. r \in JobRows /\ r.pc = "idle" /\ r.force = job[j].force
    BY <1>1, <2>1 DEF JobRows
  <2>e. job[j].force => done = 1..Files
    <3> SUFFICES ASSUME job[j].force
                 PROVE  done = 1..Files
      OBVIOUS
    <3>1. \A g \in 1..Files : g \in done
      BY <1>1, <1>2, <1>3
    <3>2. QED
      BY <3>1
  <2>4. GoodJob(r, done)'
    BY <1>1, <2>3, <2>e DEF GoodJob
  <2>5. QED
    BY <2>2, <2>3, <2>4
<1>4. CASE f # Files
  <2>1. PICK r : r = [pc |-> "check", force |-> job[j].force, file |-> f + 1, doc |-> 0,
                      written |-> 0, outcome |-> "none"]
    OBVIOUS
  <2>2. job' = [job EXCEPT ![j] = r]
    BY <1>4, <2>1 DEF NextFile, Row
  <2>3. f + 1 \in 1..Files
    BY <1>1, <1>4
  <2>4. r \in JobRows /\ r.pc = "check" /\ r.force = job[j].force /\ r.file = f + 1 /\ r.outcome = "none"
    BY <1>1, <2>1, <2>3 DEF JobRows
  <2>5. r.force => \A g \in 1..Files : g < r.file => g \in done
    BY <1>1, <1>2, <2>4
  <2>6. GoodJob(r, done)'
    BY <2>3, <2>4, <2>5 DEF GoodJob
  <2>7. QED
    BY <2>2, <2>4, <2>6
<1>5. QED
  BY <1>3, <1>4

\* Start, Check, Skip and the insertion of a chunk change the job alone.
LEMMA JobAlone ==
  ASSUME IInv, NEW j \in Jobs, NEW r, NEW done,
         job' = [job EXCEPT ![j] = r], renewed' = [renewed EXCEPT ![j] = done], GoodJob(r, done)',
         UNCHANGED <<column, document, chunks, ingested, failures>>,
         \A f \in 1..Files : Replacing(j, f) => r.file = f /\ r.force /\ r.pc \in {"insert", "embed"}
  PROVE  IInv'
<1>1. TablesTyped /\ JobsGood /\ AllOrNothing /\ NoGap
  BY Parts
<1>2. JobsGood'
  BY <1>1, OthersStay
<1>3. TablesTyped' /\ AllOrNothing'
  BY <1>1 DEF TablesTyped, AllOrNothing
<1>4. NoGap'
  <2>1. \A f \in 1..Files, k \in Jobs : Replacing(k, f) => Replacing(k, f)'
    <3> SUFFICES ASSUME NEW f \in 1..Files, NEW k \in Jobs, Replacing(k, f)
                 PROVE  Replacing(k, f)'
      OBVIOUS
    <3>1. CASE k = j
      BY <3>1, <1>1, <1>2 DEF Replacing, JobsGood
    <3>2. CASE k # j
      BY <3>2, <1>1 DEF Replacing, JobsGood
    <3>3. QED
      BY <3>1, <3>2
  <2>2. \A f \in 1..Files : Searchable(f)' <=> Searchable(f)
    BY DEF Searchable, Rows
  <2>3. QED
    BY <1>1, <2>1, <2>2, GapsStay
<1>5. QED
  BY <1>2, <1>3, <1>4, Parts, PTL

\* An exception: the job ends and its replacement is given up for lost.
LEMMA AbortKeeps ==
  ASSUME IInv, NEW j \in Jobs, ~At(j, "idle"), Abort(j), failures' \in 0..MaxFailures
  PROVE  IInv'
<1>1. TablesTyped /\ JobsGood /\ AllOrNothing /\ NoGap
  BY Parts
<1>2. job[j].force \in BOOLEAN /\ Files \in Nat /\ Documents \in Nat /\ Sections \in Nat
  BY <1>1, PolicyIndexTypes DEF JobsGood, JobRows
<1>3. \A f \in 1..Files :
        ingested'[f] = "complete" => ingested[f] = "complete" /\ ~Replacing(j, f)
  BY <1>1 DEF Abort, Lose, TablesTyped
<1>4. PICK r : r = [pc |-> "idle", force |-> job[j].force, file |-> 0, doc |-> 0, written |-> 0,
                    outcome |-> "failed"]
  OBVIOUS
<1>5. job' = [job EXCEPT ![j] = r]
  BY <1>4 DEF Abort, AfterError, End, Row
<1>6. r \in JobRows /\ r.pc = "idle" /\ r.outcome = "failed"
  BY <1>2, <1>4 DEF JobRows
<1>7. PICK done \in SUBSET (1..Files) : renewed' = [renewed EXCEPT ![j] = done]
  BY <1>1 DEF JobsGood, Abort
<1>e. GoodJob(r, done)'
  BY <1>6 DEF GoodJob
<1>8. JobsGood'
  BY <1>1, <1>5, <1>7, <1>e, OthersStay DEF Abort
<1>9. TablesTyped' /\ AllOrNothing'
  BY <1>1 DEF Abort, Lose, TablesTyped, AllOrNothing
<1>10. NoGap'
  <2>1. \A f \in 1..Files, k \in Jobs \ {j} : Replacing(k, f) => Replacing(k, f)'
    BY <1>1, <1>5 DEF Replacing, JobsGood
  <2>2. \A f \in 1..Files : Searchable(f)' <=> Searchable(f)
    BY DEF Abort, Searchable, Rows
  <2>3. QED
    BY <1>1, <1>3, <2>1, <2>2, GapsStay
<1>11. QED
  BY <1>8, <1>9, <1>10, Parts, PTL

-----------------------------------------------------------------------------
(* The steps.                                                              *)

LEMMA InitInv == Init => IInv
<1> SUFFICES ASSUME Init
             PROVE  IInv
  OBVIOUS
<1>1. Files \in Nat /\ Sections \in Nat /\ Documents \in Nat /\ MaxFailures \in Nat
  BY PolicyIndexTypes
<1>2. TypeOK
  BY <1>1 DEF Init, TypeOK, JobRows, Row
<1>3. ForceDecides /\ AtWork /\ OwnDocument /\ Behind /\ AllOrNothing /\ NoGap /\ ForcedRunIsComplete
  BY <1>1 DEF Init, Row, At, ForceDecides, AtWork, OwnDocument, Behind, AllOrNothing, NoGap,
              ForcedRunIsComplete
<1>4. QED
  BY <1>2, <1>3 DEF IInv

LEMMA StepInv == IInv /\ [Next]_vars => IInv'
<1> SUFFICES ASSUME IInv, [Next]_vars
             PROVE  IInv'
  OBVIOUS
<1>t. TablesTyped /\ JobsGood /\ AllOrNothing /\ NoGap
  BY Parts
<1>n. /\ Files \in Nat /\ Files > 0 /\ Sections \in Nat /\ Sections > 0 /\ Documents \in Nat
      /\ MaxFailures \in Nat /\ Forcing \subseteq BOOLEAN
  BY PolicyIndexTypes
<1>j. \A j \in Jobs : job[j] \in JobRows /\ GoodJob(job[j], renewed[j])
  BY <1>t DEF JobsGood
<1>s. \A j \in Jobs : renewed[j] \in SUBSET (1..Files)
  BY <1>t DEF JobsGood
<1>k. \A j \in Jobs : renewed' = renewed => renewed' = [renewed EXCEPT ![j] = renewed[j]]
  BY <1>t DEF JobsGood
<1>1. ASSUME NEW j \in Jobs, Start(j)
      PROVE  IInv'
  <2>1. PICK force \in Forcing :
          job' = [job EXCEPT ![j] = Row("check", force, 1, 0, "none")]
    BY <1>1 DEF Start
  <2>2. PICK r : r = [pc |-> "check", force |-> force, file |-> 1, doc |-> 0, written |-> 0,
                      outcome |-> "none"]
    OBVIOUS
  <2>3. job' = [job EXCEPT ![j] = r]
    BY <2>1, <2>2 DEF Row
  <2>4. r \in JobRows /\ r.pc = "check" /\ r.file = 1 /\ r.outcome = "none"
    BY <2>2, <1>n DEF JobRows
  <2>d. PICK done : done = {}
    OBVIOUS
  <2>r. renewed' = [renewed EXCEPT ![j] = done]
    BY <1>1, <2>d DEF Start
  <2>5. GoodJob(r, done)'
    BY <2>4, <2>d, <1>n DEF GoodJob
  <2>6. \A f \in 1..Files : ~Replacing(j, f)
    BY <1>1 DEF Start, At, Replacing
  <2>7. QED
    BY <1>1, <2>3, <2>5, <2>6, <2>r, JobAlone DEF Start
<1>2. ASSUME NEW j \in Jobs, Check(j)
      PROVE  IInv'
  <2>1. PICK pc : /\ pc \in {"insert", "delete", "skip"} /\ job' = [job EXCEPT ![j].pc = pc]
                  /\ pc = "delete" => job[j].force
                  /\ pc = "skip" => ~job[j].force
    BY <1>2 DEF Check, Goto
  <2>2. PICK r : r = [job[j] EXCEPT !.pc = pc]
    OBVIOUS
  <2>3. job' = [job EXCEPT ![j] = r]
    BY <2>1, <2>2
  <2>4. /\ r \in JobRows /\ r.pc = pc /\ r.force = job[j].force /\ r.file = job[j].file
        /\ r.outcome = job[j].outcome
    BY <2>1, <2>2, <1>j DEF JobRows
  <2>d. PICK done : done = renewed[j]
    OBVIOUS
  <2>5. renewed' = [renewed EXCEPT ![j] = done] /\ GoodJob(r, done)'
    BY <1>2, <2>1, <2>4, <2>d, <1>j, <1>k DEF GoodJob, Check, At
  <2>6. \A f \in 1..Files : ~Replacing(j, f)
    BY <1>2 DEF Check, At, Replacing
  <2>7. QED
    BY <1>2, <2>3, <2>5, <2>6, JobAlone DEF Check
<1>3. ASSUME NEW j \in Jobs, Skip(j)
      PROVE  IInv'
  <2>1. ~job[j].force
    BY <1>3, <1>j DEF Skip, At, GoodJob
  <2>d. PICK done \in SUBSET (1..Files) : done = renewed[j]
    BY <1>s
  <2>2. PICK r : job' = [job EXCEPT ![j] = r] /\ GoodJob(r, done)'
    BY <1>3, <1>t, <2>1, <2>d, NextFileGood, PolicyIndexTypes DEF Skip, At
  <2>3. \A f \in 1..Files : ~Replacing(j, f)
    BY <2>1 DEF Replacing
  <2>4. QED
    BY <1>3, <1>k, <2>d, <2>2, <2>3, JobAlone DEF Skip
<1>4. ASSUME NEW j \in Jobs, Embed(j)
      PROVE  IInv'
  <2>1. PICK r : r = [job[j] EXCEPT !.written = job[j].written + 1]
    OBVIOUS
  <2>2. job' = [job EXCEPT ![j] = r]
    BY <1>4, <2>1 DEF Embed
  <2>3. /\ r \in JobRows /\ r.pc = job[j].pc /\ r.force = job[j].force /\ r.file = job[j].file
        /\ r.doc = job[j].doc /\ r.outcome = job[j].outcome
    BY <1>4, <2>1, <1>j, <1>n DEF JobRows, Embed
  <2>d. PICK done : done = renewed[j]
    OBVIOUS
  <2>4. renewed' = [renewed EXCEPT ![j] = done] /\ GoodJob(r, done)'
    BY <1>4, <2>3, <2>d, <1>j, <1>k DEF GoodJob, Embed, At, Accepted
  <2>5. QED
    BY <1>4, <2>2, <2>3, <2>4, JobAlone DEF Embed, Replacing
<1>5. ASSUME NEW j \in Jobs, Refuse(j)
      PROVE  IInv'
  BY <1>5, <1>t, AbortKeeps DEF Refuse, At, TablesTyped
<1>6. ASSUME NEW j \in Jobs, Fail(j)
      PROVE  IInv'
  BY <1>6, <1>t, <1>n, AbortKeeps DEF Fail, TablesTyped
<1>7. ASSUME NEW j \in Jobs, Delete(j)
      PROVE  IInv'
  <2>0. PICK f : f = job[j].file
    OBVIOUS
  <2>1. f \in 1..Files /\ job[j].force /\ At(j, "delete") /\ job[j].outcome = "none"
    BY <2>0, <1>7, <1>j DEF Delete, At, GoodJob
  <2>2. /\ document' = [d \in 1..Documents |-> IF document[d] = f THEN 0 ELSE document[d]]
        /\ chunks' = [d \in 1..Documents |-> IF document[d] = f THEN 0 ELSE chunks[d]]
        /\ UNCHANGED <<column, ingested, renewed, failures>>
    BY <2>0, <1>7, <1>t DEF Delete, Deleted, Rows
  <2>3. PICK r : r = [job[j] EXCEPT !.pc = "insert"]
    OBVIOUS
  <2>4. job' = [job EXCEPT ![j] = r]
    BY <2>0, <1>7, <2>3 DEF Delete, Goto
  <2>5. /\ r \in JobRows /\ r.pc = "insert" /\ r.force = job[j].force /\ r.file = f
        /\ r.outcome = "none"
    BY <2>0, <2>1, <2>3, <1>j DEF JobRows
  <2>d. PICK done : done = renewed[j]
    OBVIOUS
  <2>6. renewed' = [renewed EXCEPT ![j] = done] /\ GoodJob(r, done)'
    BY <2>0, <2>1, <2>2, <2>5, <2>d, <1>j, <1>k DEF GoodJob, At
  <2>7. \A k \in Jobs \ {j} : job[k].pc = "embed" =>
          /\ document'[job[k].doc] \in {0, document[job[k].doc]}
          /\ job[k].written > 0 => document'[job[k].doc] = document[job[k].doc]
    <3> SUFFICES ASSUME NEW k \in Jobs \ {j}, job[k].pc = "embed"
                 PROVE  /\ document'[job[k].doc] \in {0, document[job[k].doc]}
                        /\ job[k].written > 0 => document'[job[k].doc] = document[job[k].doc]
      OBVIOUS
    <3>1. job[k].doc \in 1..Documents
      BY <1>j DEF GoodJob
    <3>2. job[k].written > 0 => document[job[k].doc] # f
      BY <2>0, <1>7, <3>1 DEF Delete, Deleted, Rows, Pinned, At
    <3>3. QED
      BY <2>2, <3>1, <3>2
  <2>8. JobsGood'
    BY <1>t, <2>2, <2>4, <2>6, <2>7, OthersStay
  <2>9. TablesTyped' /\ AllOrNothing'
    BY <1>t, <1>n, <2>2 DEF TablesTyped, AllOrNothing
  <2>10. Replacing(j, f)'
    BY <1>t, <2>0, <2>1, <2>4, <2>5 DEF Replacing, JobsGood
  <2>11. \A g \in 1..Files \ {f} : Searchable(g) => Searchable(g)'
    BY <2>2 DEF Searchable, Rows
  <2>12. \A g \in 1..Files, k \in Jobs : Replacing(k, g) => Replacing(k, g)'
    BY <1>t, <2>0, <2>1, <2>4 DEF Replacing, JobsGood, At
  <2>13. NoGap'
    BY <1>t, <2>2, <2>10, <2>11, <2>12, GapsStay
  <2>14. QED
    BY <2>8, <2>9, <2>13, Parts, PTL
<1>8. ASSUME NEW j \in Jobs, InsertDocument(j)
      PROVE  IInv'
  <2>0. PICK f : f = job[j].file
    OBVIOUS
  <2>1. f \in 1..Files /\ At(j, "insert") /\ job[j].outcome = "none"
    BY <2>0, <1>8, <1>j DEF InsertDocument, At, GoodJob
  <2>2. PICK d \in 1..Documents :
          /\ Fresh(d)
          /\ document' = [document EXCEPT ![d] = f]
          /\ job' = [job EXCEPT ![j] = Row("embed", job[j].force, f, d, "none")]
    BY <2>0, <1>8 DEF InsertDocument
  <2>3. PICK r : r = [pc |-> "embed", force |-> job[j].force, file |-> f, doc |-> d,
                      written |-> 0, outcome |-> "none"]
    OBVIOUS
  <2>4. job[j].force \in BOOLEAN
    BY <1>j DEF JobRows
  <2>5. job' = [job EXCEPT ![j] = r]
    BY <2>0, <2>2, <2>3 DEF Row
  <2>6. /\ r \in JobRows /\ r.pc = "embed" /\ r.force = job[j].force /\ r.file = f /\ r.doc = d
        /\ r.outcome = "none"
    BY <2>0, <2>1, <2>3, <2>4, <1>n DEF JobRows
  <2>7. document'[d] = f /\ document[d] = 0 /\ \A e \in 1..Documents \ {d} : document'[e] = document[e]
    BY <2>2, <1>t DEF Fresh, TablesTyped
  <2>8. UNCHANGED <<column, chunks, ingested, renewed, failures>>
    BY <2>0, <1>8 DEF InsertDocument
  <2>d. PICK done : done = renewed[j]
    OBVIOUS
  <2>9. renewed' = [renewed EXCEPT ![j] = done] /\ GoodJob(r, done)'
    BY <2>0, <2>1, <2>6, <2>7, <2>8, <2>d, <1>j, <1>k DEF GoodJob, At
  <2>10. \A k \in Jobs \ {j} : job[k].pc = "embed" => document'[job[k].doc] = document[job[k].doc]
    BY <2>2, <2>7, <1>j DEF Fresh, GoodJob
  <2>11. JobsGood'
    BY <1>t, <2>0, <2>5, <2>8, <2>9, <2>10, OthersStay
  <2>12. TablesTyped' /\ AllOrNothing'
    BY <1>t, <2>0, <2>1, <2>2, <2>7, <2>8 DEF TablesTyped, AllOrNothing
  <2>13. \A g \in 1..Files : Searchable(g) => Searchable(g)'
    BY <2>7, <2>8 DEF Searchable, Rows
  <2>14. \A g \in 1..Files, k \in Jobs : Replacing(k, g) => Replacing(k, g)'
    BY <1>t, <2>0, <2>5, <2>6 DEF Replacing, JobsGood
  <2>15. NoGap'
    BY <1>t, <2>8, <2>13, <2>14, GapsStay
  <2>16. QED
    BY <2>11, <2>12, <2>15, Parts, PTL
<1>9. ASSUME NEW j \in Jobs, CommitChunks(j)
      PROVE  IInv'
  <2>0. PICK f, d : f = job[j].file /\ d = job[j].doc
    OBVIOUS
  <2>1. /\ f \in 1..Files /\ d \in 1..Documents /\ At(j, "embed") /\ document[d] = f
        /\ job[j].written = Sections
    BY <2>0, <1>9, <1>j, <1>n DEF CommitChunks, At, GoodJob
  <2>2. /\ chunks' = [chunks EXCEPT ![d] = Sections] /\ ingested' = [ingested EXCEPT ![f] = "complete"]
        /\ UNCHANGED <<column, document, failures>>
    BY <2>0, <1>9 DEF CommitChunks
  <2>3. PICK done : done = renewed[j] \cup {f}
    OBVIOUS
  <2>c. renewed' = [renewed EXCEPT ![j] = renewed[j] \cup {f}]
    BY <2>0, <1>9 DEF CommitChunks
  <2>4. done \in SUBSET (1..Files) /\ renewed' = [renewed EXCEPT ![j] = done]
    BY <2>1, <2>3, <2>c, <1>s
  <2>5. PICK r : job' = [job EXCEPT ![j] = r] /\ GoodJob(r, done)'
    BY <2>0, <1>9, <1>t, <2>1, <2>3, <2>4, NextFileGood, PolicyIndexTypes DEF CommitChunks, At
  <2>6. JobsGood'
    BY <1>t, <2>2, <2>4, <2>5, OthersStay
  <2>7. TablesTyped' /\ AllOrNothing'
    BY <1>t, <1>n, <2>1, <2>2 DEF TablesTyped, AllOrNothing
  <2>8. chunks'[d] = Sections /\ \A e \in 1..Documents \ {d} : chunks'[e] = chunks[e]
    BY <2>0, <2>1, <2>2, <1>t DEF TablesTyped
  <2>9. \A g \in 1..Files : Searchable(g) => Searchable(g)'
    BY <2>2, <2>8 DEF Searchable, Rows
  <2>10. Searchable(f)'
    BY <2>0, <2>1, <2>2, <2>8 DEF Searchable, Rows
  <2>11. \A g \in 1..Files \ {f}, k \in Jobs : Replacing(k, g) => Replacing(k, g)'
    BY <1>t, <2>0, <2>5 DEF Replacing, JobsGood
  <2>12. \A g \in 1..Files \ {f} : ingested'[g] = ingested[g]
    BY <2>0, <2>1, <2>2, <1>t DEF TablesTyped
  <2>13. NoGap'
    BY <1>t, <2>9, <2>10, <2>11, <2>12, GapsStay
  <2>14. QED
    BY <2>6, <2>7, <2>13, Parts, PTL
<1>10. CASE Upgrade
  <2>1. /\ column' = 384 /\ document' = [d \in 1..Documents |-> 0]
        /\ chunks' = [d \in 1..Documents |-> 0] /\ UNCHANGED <<job, renewed, failures>>
        /\ \A d \in 1..Documents : ~Pinned(d)
    BY <1>10 DEF Upgrade
  <2>2. /\ ingested' \in [1..Files -> {"never", "complete", "lost"}]
        /\ \A f \in 1..Files : ingested'[f] # "complete"
    BY <1>10, <1>t DEF Upgrade, Lose, TablesTyped
  <2>3. \A j \in Jobs : job[j].pc = "embed" => ~(job[j].written > 0)
    BY <2>1, <1>j DEF Pinned, At, GoodJob
  <2>4. \A j \in Jobs : GoodJob(job[j], renewed[j])'
    BY <2>1, <2>3, <1>j DEF GoodJob
  <2>5. JobsGood' /\ NoGap'
    BY <1>t, <2>1, <2>2, <2>4 DEF JobsGood, NoGap
  <2>6. TablesTyped' /\ AllOrNothing'
    BY <1>t, <1>n, <2>1, <2>2 DEF TablesTyped, AllOrNothing
  <2>7. QED
    BY <2>5, <2>6, Parts, PTL
<1>11. CASE UNCHANGED vars
  BY <1>11 DEF vars, IInv, TypeOK, ForceDecides, AtWork, OwnDocument, Behind, AllOrNothing, NoGap,
               ForcedRunIsComplete, At, Searchable, Rows, Replacing
<1>12. QED
  BY <1>1, <1>2, <1>3, <1>4, <1>5, <1>6, <1>7, <1>8, <1>9, <1>10, <1>11 DEF Next, Step

LEMMA Invariance == Spec => []IInv
BY InitInv, StepInv, PTL DEF Spec

-----------------------------------------------------------------------------
(* What the searches of the calls find.                                    *)

\* Rows and jobs keep their types, and chunks have a document.
THEOREM Typing == Spec => []TypeOK
BY Invariance, PTL DEF IInv

\* No search ever sees part of a policy, however many jobs, deletions,
\* failures and the migration overlap.
THEOREM NoPartialPolicy == Spec => []AllOrNothing
BY Invariance, PTL DEF IInv

\* An ingested policy is missing only while a forced job replaces it or
\* after one failed to.
THEOREM GapsAreExplained == Spec => []NoGap
BY Invariance, PTL DEF IInv

\* The success a forced run reports covers every file: this very run has
\* ingested each, whatever other jobs, failures and the migration did.
THEOREM ForcedSuccess == Spec => []ForcedRunIsComplete
BY Invariance, PTL DEF IInv

-----------------------------------------------------------------------------
(* The connections.  First: a path, as a sequence of operations.           *)

\* Min is the least of a set of places.
LEMMA LeastPlace ==
  ASSUME NEW S, S \subseteq Nat, S # {}
  PROVE  Min(S) \in S /\ \A i \in S : Min(S) <= i
<1> DEFINE R == {ss \in Nat \X Nat : ss[1] < ss[2]}
<1>1. IsWellFoundedOn(R, Nat)
  BY NatLessThanWellFounded, SMT DEF OpToRel
<1>2. PICK x \in S : \A y \in S : ~(<<y, x>> \in R)
  <2> HIDE DEF R
  <2>1. QED
    BY <1>1, WFMin, Zenon
<1>3. ASSUME NEW y \in S PROVE x <= y
  <2>1. y < x => <<y, x>> \in R
    <3>1. <<y, x>>[1] = y /\ <<y, x>>[2] = x /\ <<y, x>> \in Nat \X Nat
      OBVIOUS
    <3>2. QED
      BY <3>1
  <2>2. QED
    BY <1>2, <2>1
<1>4. QED
  BY <1>3 DEF Min

-----------------------------------------------------------------------------
(* What a path may keep, and the paths that are built.                     *)

\* An operation under the conversation's lock, further in than its with block.
Inside(op) == ~op.keeps /\ op.depth > 1 /\ op.needs # "lock"

\* From place i on the lock is given up before anything leaves its block.
LockedUntil(s, i) ==
  \E j \in i..Len(s) : s[j] = LeaveLock /\ \A k \in i..j - 1 : s[k].depth > 1

\* What an operation of the path may keep: the lock while its block is open, or,
\* with nothing but handlers left, a session of last, which get_db closes.
KeepsSoundly(s, i, last) ==
  \/ s[i] = TakeLock /\ LockedUntil(s, i + 1)
  \/ /\ s[i].needs \in last
     /\ s[i].runs \in {"normal", "except"}
     /\ \A j \in i + 1..Len(s) : s[j].runs \notin {"normal", "finally"}

Sound(s, last) ==
  /\ s \in Seq(Ops) /\ Len(s) > 0
  /\ \A i \in DOMAIN s : s[i].keeps => KeepsSoundly(s, i, last)

\* A path up to some place of the lock's block, and the rest of that block.
OpenBlock(s) ==
  /\ s \in Seq(Ops)
  /\ \E m \in DOMAIN s :
       /\ s[m] = TakeLock
       /\ \A i \in 1..m - 1 : ~s[i].keeps
       /\ \A i \in m + 1..Len(s) : Inside(s[i])
Deep(s) == s \in Seq(Ops) /\ \A i \in DOMAIN s : Inside(s[i])
Closing(s) ==
  /\ s \in Seq(Ops) /\ s # <<>> /\ s[Len(s)] = LeaveLock
  /\ \A i \in 1..Len(s) - 1 : Inside(s[i])

\* The operations that the paths are made of.
LEMMA OpFields ==
  ASSUME NEW needs \in Sessions \cup {"model"}, NEW depth \in 0..4
  PROVE  LET op == Op(needs, depth)
         IN op \in Ops /\ op.needs = needs /\ op.depth = depth /\ ~op.keeps /\ op.runs = "normal"
BY DEF Op, Ops

LEMMA QuietFields ==
  ASSUME NEW op \in Ops
  PROVE  /\ Quiet(op) \in Ops
         /\ Quiet(op).needs = op.needs /\ Quiet(op).depth = op.depth
         /\ Quiet(op).keeps = op.keeps /\ Quiet(op).runs = op.runs
BY DEF Quiet, Ops

LEMMA KeepingFields ==
  ASSUME NEW op \in Ops
  PROVE  /\ Keeping(op) \in Ops /\ Keeping(op).keeps
         /\ Keeping(op).needs = op.needs /\ Keeping(op).depth = op.depth
         /\ Keeping(op).runs = op.runs
BY DEF Keeping, Ops

LEMMA HandlerFields ==
  ASSUME NEW op \in Ops
  PROVE  /\ Finally(op) \in Ops /\ Finally(op).runs = "finally"
         /\ Except(op) \in Ops /\ Except(op).runs = "except"
         /\ Reraise(op) \in Ops
         /\ \A h \in {Finally(op), Except(op), Reraise(op)} :
              h.needs = op.needs /\ h.depth = op.depth /\ h.keeps = op.keeps
BY DEF Finally, Except, Reraise, Ops

\* Those inside the block, and the two at its ends.
LEMMA InsideOps ==
  /\ \A needs \in {"model", "inner", "checkpoint"}, depth \in 2..4 :
       LET op == Op(needs, depth)
       IN /\ op \in Ops /\ Inside(op)
          /\ Quiet(op) \in Ops /\ Inside(Quiet(op))
          /\ Quiet(Reraise(op)) \in Ops /\ Inside(Quiet(Reraise(op)))
          /\ Quiet(Finally(op)) \in Ops /\ Inside(Quiet(Finally(op)))
  /\ Audit \in Ops /\ Inside(Audit)
  /\ Saved \in Ops /\ Inside(Saved)
  /\ Record \in Ops /\ Inside(Record)
<1>1. ASSUME NEW needs \in {"model", "inner", "checkpoint"}, NEW depth \in 2..4
      PROVE  LET op == Op(needs, depth)
             IN /\ op \in Ops /\ Inside(op)
                /\ Quiet(op) \in Ops /\ Inside(Quiet(op))
                /\ Quiet(Reraise(op)) \in Ops /\ Inside(Quiet(Reraise(op)))
                /\ Quiet(Finally(op)) \in Ops /\ Inside(Quiet(Finally(op)))
  <2> DEFINE op == Op(needs, depth)
  <2>1. op \in Ops /\ op.needs # "lock" /\ op.depth > 1 /\ ~op.keeps
    BY OpFields DEF Sessions
  <2> HIDE DEF op
  <2>2. QED
    BY <2>1, QuietFields, HandlerFields DEF Inside, op
<1>2. QED
  BY <1>1 DEF Audit, Saved, Record

LEMMA LockOps ==
  /\ TakeLock \in Ops /\ TakeLock.needs = "lock" /\ TakeLock.depth = 1 /\ TakeLock.runs = "normal"
  /\ LeaveLock \in Ops /\ LeaveLock.needs = "lock" /\ LeaveLock.depth = 1
  /\ LeaveLock.runs = "finally" /\ ~LeaveLock.keeps
BY OpFields, KeepingFields, HandlerFields DEF TakeLock, LeaveLock, Sessions

LEMMA DeepConcat ==
  ASSUME NEW s, NEW u, Deep(s), Deep(u)
  PROVE  Deep(s \o u)
BY ConcatProperties DEF Deep

LEMMA OpenConcat ==
  ASSUME NEW s, NEW u, OpenBlock(s), Deep(u)
  PROVE  OpenBlock(s \o u)
<1>1. PICK m \in DOMAIN s : /\ s[m] = TakeLock
                            /\ \A i \in 1..m - 1 : ~s[i].keeps
                            /\ \A i \in m + 1..Len(s) : Inside(s[i])
  BY DEF OpenBlock
<1>2. /\ s \in Seq(Ops) /\ u \in Seq(Ops)
      /\ s \o u \in Seq(Ops) /\ Len(s \o u) = Len(s) + Len(u)
      /\ \A i \in 1..Len(s) + Len(u) :
           (s \o u)[i] = IF i <= Len(s) THEN s[i] ELSE u[i - Len(s)]
  BY ConcatProperties DEF OpenBlock, Deep
<1>3. \A i \in 1..Len(u) : Inside(u[i])
  BY <1>2 DEF Deep
<1>4. /\ m \in DOMAIN (s \o u) /\ (s \o u)[m] = TakeLock
      /\ \A i \in 1..m - 1 : ~(s \o u)[i].keeps
  BY <1>1, <1>2
<1>5. ASSUME NEW i \in m + 1..Len(s \o u) PROVE Inside((s \o u)[i])
  BY <1>1, <1>2, <1>3
<1>6. QED
  BY <1>2, <1>4, <1>5 DEF OpenBlock

\* A block that is closed keeps the lock soundly, and nothing else.
LEMMA BlockSound ==
  ASSUME NEW s, NEW u, OpenBlock(s), Closing(u)
  PROVE  Sound(s \o u, {})
<1>1. PICK m \in DOMAIN s : /\ s[m] = TakeLock
                            /\ \A i \in 1..m - 1 : ~s[i].keeps
                            /\ \A i \in m + 1..Len(s) : Inside(s[i])
  BY DEF OpenBlock
<1> DEFINE p == s \o u
<1>2. /\ s \in Seq(Ops) /\ u \in Seq(Ops)
      /\ p \in Seq(Ops) /\ Len(p) = Len(s) + Len(u)
      /\ \A i \in 1..Len(s) + Len(u) : p[i] = IF i <= Len(s) THEN s[i] ELSE u[i - Len(s)]
      /\ Len(u) \in Nat \ {0} /\ u[Len(u)] = LeaveLock
      /\ \A i \in 1..Len(u) - 1 : Inside(u[i])
  BY ConcatProperties DEF OpenBlock, Closing
<1> HIDE DEF p
<1>3. p[m] = TakeLock /\ m \in 1..Len(p) - 1 /\ p[Len(p)] = LeaveLock
  <2>1. m \in 1..Len(s) /\ Len(s) \in Nat
    BY <1>1, <1>2
  <2>2. QED
    BY <1>1, <1>2, <2>1
<1>4. ASSUME NEW i \in m + 1..Len(p) - 1 PROVE Inside(p[i])
  <2>1. CASE i <= Len(s)
    <3>1. i \in m + 1..Len(s) /\ p[i] = s[i]
      BY <1>1, <1>2, <2>1
    <3>2. QED
      BY <1>1, <3>1
  <2>2. CASE i > Len(s)
    <3>1. i - Len(s) \in 1..Len(u) - 1 /\ p[i] = u[i - Len(s)]
      BY <1>1, <1>2, <2>2
    <3>2. QED
      BY <1>2, <3>1
  <2>3. QED
    BY <1>1, <1>2, <2>1, <2>2
<1>5. LockedUntil(p, m + 1)
  <2>1. \A k \in m + 1..Len(p) - 1 : p[k].depth > 1
    BY <1>4 DEF Inside
  <2>2. QED
    BY <1>2, <1>3, <2>1 DEF LockedUntil
<1>6. ~LeaveLock.keeps
  BY LockOps
<1>7. ASSUME NEW i \in DOMAIN p, p[i].keeps PROVE i = m
  <2>1. CASE i < m
    BY <1>1, <1>2, <1>7, <2>1
  <2>2. CASE i > m
    BY <1>2, <1>3, <1>4, <1>6, <1>7, <2>2 DEF Inside
  <2>3. QED
    BY <1>2, <2>1, <2>2
<1>8. QED
  BY <1>2, <1>3, <1>5, <1>7 DEF Sound, KeepsSoundly, p

\* Soundness of what comes first and of what follows.
LEMMA SoundConcat ==
  ASSUME NEW s, NEW u, NEW last, Sound(s, {}), Sound(u, last)
  PROVE  Sound(s \o u, last)
<1> DEFINE p == s \o u
           n == Len(s)
<1>1. /\ s \in Seq(Ops) /\ u \in Seq(Ops) /\ n \in Nat
      /\ p \in Seq(Ops) /\ Len(p) = n + Len(u)
      /\ \A i \in 1..n + Len(u) : p[i] = IF i <= n THEN s[i] ELSE u[i - n]
  BY ConcatProperties DEF Sound
<1> HIDE DEF p
<1>2. ASSUME NEW i \in 1..n, p[i].keeps PROVE KeepsSoundly(p, i, last)
  <2>1. p[i] = s[i] /\ s[i] = TakeLock /\ LockedUntil(s, i + 1)
    BY <1>1, <1>2 DEF Sound, KeepsSoundly
  <2>2. PICK j \in i + 1..n : s[j] = LeaveLock /\ \A k \in i + 1..j - 1 : s[k].depth > 1
    BY <2>1 DEF LockedUntil
  <2>3. /\ j \in i + 1..Len(p) /\ p[j] = LeaveLock
        /\ \A k \in i + 1..j - 1 : p[k].depth > 1
    <3>1. j \in 1..n /\ j \in i + 1..Len(p) /\ \A k \in i + 1..j - 1 : k \in 1..n
      BY <1>1, <2>2
    <3>2. \A k \in 1..n : p[k] = s[k]
      BY <1>1
    <3>3. QED
      BY <2>2, <3>1, <3>2
  <2>4. LockedUntil(p, i + 1)
    BY <2>3 DEF LockedUntil
  <2>5. QED
    BY <2>1, <2>4 DEF KeepsSoundly
<1>3. ASSUME NEW i \in 1..Len(u), u[i].keeps PROVE KeepsSoundly(p, n + i, last)
  <2>1. p[n + i] = u[i] /\ KeepsSoundly(u, i, last)
    <3>1. n + i \in 1..n + Len(u) /\ ~(n + i <= n) /\ (n + i) - n = i /\ i \in DOMAIN u
      BY <1>1
    <3>2. QED
      BY <1>1, <1>3, <3>1 DEF Sound
  <2>2. CASE u[i] = TakeLock /\ LockedUntil(u, i + 1)
    <3>1. PICK j \in i + 1..Len(u) : u[j] = LeaveLock /\ \A k \in i + 1..j - 1 : u[k].depth > 1
      BY <2>2 DEF LockedUntil
    <3>2. /\ n + j \in n + i + 1..Len(p) /\ p[n + j] = LeaveLock
      BY <1>1, <3>1
    <3>3. ASSUME NEW k \in n + i + 1..n + j - 1 PROVE p[k].depth > 1
      <4>1. k - n \in i + 1..j - 1 /\ p[k] = u[k - n]
        BY <1>1
      <4>2. QED
        BY <3>1, <4>1
    <3>4. QED
      BY <1>1, <2>1, <2>2, <3>2, <3>3 DEF KeepsSoundly, LockedUntil
  <2>3. CASE /\ u[i].needs \in last
             /\ u[i].runs \in {"normal", "except"}
             /\ \A j \in i + 1..Len(u) : u[j].runs \notin {"normal", "finally"}
    <3>1. ASSUME NEW j \in n + i + 1..Len(p) PROVE p[j].runs \notin {"normal", "finally"}
      <4>1. j - n \in i + 1..Len(u) /\ p[j] = u[j - n]
        BY <1>1
      <4>2. QED
        BY <2>3, <4>1
    <3>2. QED
      BY <2>1, <2>3, <3>1 DEF KeepsSoundly
  <2>4. QED
    BY <2>1, <2>2, <2>3 DEF KeepsSoundly
<1>4. ASSUME NEW i \in DOMAIN p, p[i].keeps PROVE KeepsSoundly(p, i, last)
  <2>1. CASE i <= n
    BY <1>1, <1>2, <1>4, <2>1
  <2>2. CASE i > n
    <3>1. i - n \in 1..Len(u) /\ p[i] = u[i - n] /\ n + (i - n) = i
      BY <1>1, <1>4, <2>2
    <3>2. QED
      BY <1>3, <1>4, <3>1
  <2>3. QED
    BY <1>1, <2>1, <2>2
<1>5. QED
  BY <1>1, <1>4 DEF Sound, p

\* The audit, model and checkpoint steps of the graph are inside the lock's block.
LEMMA NodesDeep ==
  /\ Deep(ModelNode) /\ Deep(Routing)
  /\ \A n \in Nat : Deep(Workflow(n)) /\ Deep(Proposing(n))
<1>1. /\ Inside(Audit) /\ Inside(Saved) /\ Inside(Quiet(Op("model", 4))) /\ Inside(Op("inner", 4))
      /\ Audit \in Ops /\ Saved \in Ops /\ Quiet(Op("model", 4)) \in Ops /\ Op("inner", 4) \in Ops
  BY InsideOps
<1>2. \A a, b, c, d : Inside(a) /\ Inside(b) /\ Inside(c) /\ Inside(d)
                      /\ a \in Ops /\ b \in Ops /\ c \in Ops /\ d \in Ops =>
        Deep(<<a>>) /\ Deep(<<a, b>>) /\ Deep(<<a, b, c>>) /\ Deep(<<a, b, c, d>>)
  BY DEF Deep
<1>3. Deep(ModelNode) /\ Deep(Routing)
  <2>1. Deep(ModelNode) /\ Deep(<<Audit, Saved>>)
    BY <1>1, <1>2 DEF ModelNode
  <2>2. QED
    BY <2>1, DeepConcat DEF Routing
<1>4. ASSUME NEW n \in Nat PROVE Deep(ToolCalls(n))
  <2>1. \A needs \in {"model", "inner"} :
          Quiet(Op(needs, 4)) \in Ops /\ Inside(Quiet(Op(needs, 4)))
    BY InsideOps
  <2>2. ToolCalls(n) \in Seq(Ops) /\ DOMAIN ToolCalls(n) = 1..2 * n
    BY <2>1 DEF ToolCalls
  <2>3. \A i \in 1..2 * n : Inside(ToolCalls(n)[i])
    BY <2>1 DEF ToolCalls
  <2>4. QED
    BY <2>2, <2>3 DEF Deep
<1>5. ASSUME NEW n \in Nat PROVE Deep(Workflow(n)) /\ Deep(Proposing(n))
  <2>1. /\ Deep(<<Op("inner", 4)>>) /\ Deep(ToolCalls(n))
        /\ Deep(<<Quiet(Op("model", 4)), Audit, Saved>>)
        /\ Deep(<<Quiet(Op("model", 4)), Op("inner", 4), Audit, Saved>>)
    BY <1>1, <1>2, <1>4
  <2>2. QED
    BY <2>1, DeepConcat DEF Workflow, Proposing
<1>6. QED
  BY <1>3, <1>5

\* The lock's block of a chat and of a decision.
LEMMA GuardedSound ==
  ASSUME NEW graph, NEW tail, Deep(graph), Deep(tail)
  PROVE  Sound(Guarded(graph, tail), {})
<1>1. OpenBlock(<<TakeLock, Op("checkpoint", 2), Quiet(Op("inner", 2))>>)
  <2>1. \A a, b : a \in Ops /\ b \in Ops /\ Inside(a) /\ Inside(b) => OpenBlock(<<TakeLock, a, b>>)
    BY LockOps DEF OpenBlock
  <2>2. QED
    BY <2>1, InsideOps
<1>2. Deep(<<Record>>)
  BY InsideOps DEF Deep
<1>3. Closing(<<LeaveLock>>)
  BY LockOps DEF Closing
<1>4. QED
  BY <1>1, <1>2, <1>3, OpenConcat, BlockSound DEF Guarded

LEMMA RunsSound ==
  ASSUME NEW run \in RunAgent
  PROVE  Sound(run, {})
<1>1. \A n \in 0..Rounds : n \in Nat
  BY SizesPositive
<1>2. Deep(<<Op("checkpoint", 2)>>) /\ Deep(<<>>)
  BY InsideOps DEF Deep
<1>3. \A n \in 0..Rounds : Deep(Routing \o Workflow(n) \o ModelNode) /\ Deep(Routing \o Proposing(n))
  BY <1>1, NodesDeep, DeepConcat
<1>4. QED
  BY <1>2, <1>3, GuardedSound DEF RunAgent

LEMMA ResumeSound == Sound(Replay, {}) /\ \A call \in ResumeAgent : Sound(call, {})
<1>1. Op("inner", 0) \in Ops /\ ~Op("inner", 0).keeps
  BY OpFields DEF Sessions
<1>2. OpenBlock(<<Op("inner", 0), TakeLock, Op("inner", 2), Op("checkpoint", 2)>>)
  <2>1. \A a, b, c : a \in Ops /\ ~a.keeps /\ b \in Ops /\ c \in Ops /\ Inside(b) /\ Inside(c) =>
          OpenBlock(<<a, TakeLock, b, c>>)
    BY LockOps DEF OpenBlock
  <2>2. QED
    BY <1>1, <2>1, InsideOps
<1>3. Closing(<<Quiet(Reraise(Op("inner", 2))), Op("inner", 2), Quiet(Op("inner", 2)), LeaveLock>>)
  BY InsideOps, LockOps DEF Closing
<1>d. Deep(Executing) /\ Deep(PausingAgain) /\ Deep(<<>>)
  <2>1. /\ Inside(Audit) /\ Inside(Saved) /\ Inside(Op("inner", 4))
        /\ Audit \in Ops /\ Saved \in Ops /\ Op("inner", 4) \in Ops
    BY InsideOps
  <2>2. \A a, b, c : Inside(a) /\ Inside(b) /\ Inside(c) /\ a \in Ops /\ b \in Ops /\ c \in Ops =>
          Deep(<<a, a, a, b, c>>) /\ Deep(<<a, a, b, c>>)
    BY DEF Deep
  <2>3. Deep(<<>>)
    BY DEF Deep
  <2>4. QED
    BY <2>1, <2>2, <2>3 DEF Executing, PausingAgain
<1>4. ASSUME NEW call \in ResumeAgent PROVE Sound(call, {})
  <2>1. PICK graph : Deep(graph) /\ call = Resuming(graph)
    BY <1>d, NodesDeep, DeepConcat DEF ResumeAgent
  <2>2. QED
    BY <1>2, <1>3, <2>1, OpenConcat, BlockSound DEF Resuming
<1>5. Sound(Replay, {})
  <2>1. LockedUntil(Replay, 3)
    <3>1. Len(Replay) = 4 /\ Replay[4] = LeaveLock /\ Replay[3] = Op("inner", 2)
      BY DEF Replay
    <3>2. Replay[3].depth > 1 /\ \A k \in 3..4 - 1 : k = 3
      BY <3>1, InsideOps DEF Inside
    <3>3. QED
      BY <3>1, <3>2 DEF LockedUntil
  <2>2. /\ Replay \in Seq(Ops) /\ Len(Replay) = 4 /\ Replay[2] = TakeLock
        /\ ~Replay[1].keeps /\ ~Replay[3].keeps /\ ~Replay[4].keeps
    BY <1>1, InsideOps, LockOps DEF Replay, Inside
  <2>3. QED
    BY <2>1, <2>2 DEF Sound, KeepsSoundly
<1>6. QED
  BY <1>4, <1>5

\* Every path gives up the lock it takes, and at its end keeps nothing but
\* the session of the request.
LEMMA PathsSound ==
  ASSUME NEW p \in Paths
  PROVE  Sound(p, {"request"}) /\ p # <<>>
<1>1. \A s : Sound(s, {}) => Sound(s, {"request"})
  BY DEF Sound, KeepsSoundly
<1>2. /\ Sound(Identity, {}) /\ Sound(ReadInvoice, {})
      /\ Sound(<<Op("request", 0)>>, {}) /\ Sound(<<Op("inner", 0)>>, {})
      /\ Sound(<<Op("inner", 1)>>, {})
  <2>1. \A op \in Ops : ~op.keeps => Sound(<<op>>, {})
    BY DEF Sound
  <2>2. QED
    BY <2>1, OpFields DEF Identity, ReadInvoice, Sessions
<1>3. Sound(<<Op("inner", 1), Quiet(Except(Op("inner", 0)))>>, {})
  <2>1. \A a, b \in Ops : ~a.keeps /\ ~b.keeps => Sound(<<a, b>>, {})
    BY DEF Sound
  <2>2. QED
    BY <2>1, OpFields, QuietFields, HandlerFields DEF Sessions
<1>4. Sound(<<Keeping(Op("request", 0))>>, {"request"})
  <2>1. \A a \in Ops : a.needs = "request" /\ a.runs = "normal" => Sound(<<a>>, {"request"})
    BY DEF Sound, KeepsSoundly
  <2>2. QED
    BY <2>1, OpFields, KeepingFields DEF Sessions
<1>5. Sound(<<Keeping(Op("request", 1)), Keeping(Except(Op("request", 0)))>>, {"request"})
  <2>1. \A a, b \in Ops : a.needs = "request" /\ a.runs = "normal"
                          /\ b.needs = "request" /\ b.runs = "except" => Sound(<<a, b>>, {"request"})
    BY DEF Sound, KeepsSoundly
  <2>2. QED
    BY <2>1, OpFields, KeepingFields, HandlerFields DEF Sessions
<1>6. \A run \in RunAgent : Sound(run, {})
  BY RunsSound
<1>7. ASSUME NEW run \in RunAgent, p = Identity \o run PROVE Sound(p, {"request"})
  BY <1>1, <1>2, <1>6, <1>7, SoundConcat
<1>8. ASSUME NEW call \in ResumeAgent \cup {Replay}, p = Identity \o <<Op("request", 0)>> \o call
      PROVE  Sound(p, {"request"})
  <2>1. Sound(Identity \o <<Op("request", 0)>>, {})
    BY <1>2, SoundConcat
  <2>2. QED
    BY <1>1, <1>8, <2>1, ResumeSound, SoundConcat
<1>9. ASSUME NEW run \in RunAgent,
             p = Identity \o ReadInvoice \o run
                   \o <<Keeping(Op("request", 1)), Keeping(Except(Op("request", 0)))>>
      PROVE  Sound(p, {"request"})
  <2>1. Sound(Identity \o ReadInvoice, {})
    BY <1>2, SoundConcat
  <2>2. Sound(Identity \o ReadInvoice \o run, {})
    BY <2>1, <1>6, SoundConcat
  <2>3. QED
    BY <1>5, <1>9, <2>2, SoundConcat
<1>10. ASSUME NEW task \in DueTask PROVE Sound(task, {})
  <2>1. ASSUME NEW run \in RunAgent,
               task = <<Op("inner", 1)>> \o run \o <<Op("inner", 1), Quiet(Except(Op("inner", 0)))>>
        PROVE  Sound(task, {})
    <3>1. Sound(<<Op("inner", 1)>> \o run, {})
      BY <1>2, <1>6, SoundConcat
    <3>2. QED
      BY <1>3, <2>1, <3>1, SoundConcat
  <2>2. QED
    BY <1>2, <2>1 DEF DueTask
<1>11. ASSUME NEW sweep \in Sweep PROVE Sound(sweep, {})
  <2>1. ASSUME NEW task \in DueTask, sweep = <<Op("inner", 0)>> \o task PROVE Sound(sweep, {})
    BY <1>2, <1>10, <2>1, SoundConcat
  <2>2. QED
    BY <1>2, <2>1 DEF Sweep
<1>12. ASSUME NEW sweep \in Sweep, p = Identity \o sweep PROVE Sound(p, {"request"})
  BY <1>1, <1>2, <1>11, <1>12, SoundConcat
<1>13. CASE p = Identity \o <<Keeping(Op("request", 0))>>
  BY <1>2, <1>4, <1>13, SoundConcat
<1>14. Sound(p, {"request"})
  BY <1>1, <1>7, <1>8, <1>9, <1>11, <1>12, <1>13
  DEF Paths, Chat, Decide, Remind, Triggered, Read
<1>15. QED
  BY <1>14 DEF Sound

-----------------------------------------------------------------------------
(* Threads, places and connections.                                        *)

Typed ==
  /\ path \in [Threads -> Paths \cup {<<>>}]
  /\ at \in [Threads -> Nat]
  /\ raised \in [Threads -> BOOLEAN]
  /\ conn \in [Threads -> SUBSET Sessions]
  /\ \A t \in Threads : at[t] \in 0..Len(path[t]) + 1 /\ (Busy(t) => at[t] > 0)

\* A thread comes to an operation with no connection of a pool but its own, and
\* with the lock only inside its block; an error is on its way to a handler;
\* at the end of the path there is at most the session of the request.
Holding(t) ==
  /\ ~Busy(t) => conn[t] = {} /\ ~raised[t]
  /\ Running(t) =>
       /\ conn[t] \subseteq {"lock", Now(t).needs}
       /\ "lock" \in conn[t] => Now(t).needs = "lock" \/ LockedUntil(path[t], at[t])
       /\ raised[t] => Now(t).runs # "normal"
  /\ Busy(t) /\ ~Running(t) => conn[t] \subseteq {"request"}

Lent ==
  \A pool \in {"business", "checkpoint"} :
    IsFiniteSet(InUse(pool)) /\ Cardinality(InUse(pool)) <= Size(pool)

HoldingInv == Typed /\ Lent /\ \A t \in Threads : Holding(t)

\* The two places that control may go to.
LEMMA Places ==
  ASSUME Typed, NEW t \in Threads, Running(t)
  PROVE  /\ path[t] \in Paths /\ Sound(path[t], {"request"})
         /\ Len(path[t]) \in Nat /\ at[t] \in 1..Len(path[t])
         /\ Now(t) \in Ops
         /\ Following(t) \in at[t] + 1..Len(path[t]) + 1
         /\ Following(t) <= Len(path[t]) => path[t][Following(t)].runs \in {"normal", "finally"}
         /\ \A i \in at[t] + 1..Len(path[t]) :
              path[t][i].runs \in {"normal", "finally"} => Following(t) <= i
         /\ Handler(t) \in at[t] + 1..Len(path[t]) + 1
         /\ Handler(t) <= Len(path[t]) => path[t][Handler(t)].runs # "normal"
         /\ \A i \in at[t] + 1..Len(path[t]) :
              path[t][i].runs # "normal" /\ path[t][i].depth < Now(t).depth => Handler(t) <= i
<1> DEFINE p == path[t]
           n == Len(p)
           F == {i \in at[t] + 1..n : p[i].runs \in {"normal", "finally"}} \cup {n + 1}
           H == {i \in at[t] + 1..n : p[i].runs # "normal" /\ p[i].depth < Now(t).depth} \cup {n + 1}
<1>1. p \in Paths /\ Sound(p, {"request"})
  BY PathsSound DEF Typed, Running, Busy
<1>2. n \in Nat /\ at[t] \in 1..n /\ p[at[t]] \in Ops
  <2>1. p \in Seq(Ops)
    BY <1>1 DEF Sound
  <2>2. n \in Nat /\ at[t] \in 0..n
    BY <2>1 DEF Typed, Running
  <2>3. at[t] > 0
    BY DEF Typed, Running
  <2>4. QED
    BY <2>1, <2>2, <2>3
<1>3. Min(F) \in F /\ \A i \in F : Min(F) <= i
  <2>1. F \subseteq Nat /\ F # {}
    BY <1>2
  <2> HIDE DEF F
  <2>2. QED
    BY <2>1, LeastPlace
<1>4. Min(H) \in H /\ \A i \in H : Min(H) <= i
  <2>1. H \subseteq Nat /\ H # {}
    BY <1>2
  <2> HIDE DEF H
  <2>2. QED
    BY <2>1, LeastPlace
<1>5. Following(t) = Min(F) /\ Handler(t) = Min(H)
  BY DEF Following, Handler
<1>6. /\ Min(F) \in at[t] + 1..n + 1
      /\ Min(F) <= n => p[Min(F)].runs \in {"normal", "finally"}
      /\ \A i \in at[t] + 1..n : p[i].runs \in {"normal", "finally"} => Min(F) <= i
  BY <1>2, <1>3
<1>7. /\ Min(H) \in at[t] + 1..n + 1
      /\ Min(H) <= n => p[Min(H)].runs # "normal"
      /\ \A i \in at[t] + 1..n : p[i].runs # "normal" /\ p[i].depth < Now(t).depth => Min(H) <= i
  BY <1>2, <1>4
<1> HIDE DEF F, H
<1>8. QED
  BY <1>1, <1>2, <1>5, <1>6, <1>7 DEF Now

\* Inside the lock's block what follows, normally or after an error, is still
\* in the block or gives the lock up.
LEMMA BlockGoesOn ==
  ASSUME Typed, NEW t \in Threads, Running(t), LockedUntil(path[t], at[t] + 1)
  PROVE  /\ Following(t) <= Len(path[t]) /\ LockedUntil(path[t], Following(t))
         /\ Now(t).depth > 1 =>
              Handler(t) <= Len(path[t]) /\ LockedUntil(path[t], Handler(t))
<1> DEFINE p == path[t]
<1>1. PICK j \in at[t] + 1..Len(p) :
        p[j] = LeaveLock /\ \A k \in at[t] + 1..j - 1 : p[k].depth > 1
  BY DEF LockedUntil
<1>2. Len(p) \in Nat /\ at[t] \in 1..Len(p) /\ Now(t).depth \in 0..4
  BY Places DEF Ops
<1>3. ASSUME NEW to \in at[t] + 1..Len(p) + 1, to <= j
      PROVE  to <= Len(p) /\ LockedUntil(p, to)
  <2>1. to <= Len(p) /\ j \in to..Len(p) /\ \A k \in to..j - 1 : k \in at[t] + 1..j - 1
    BY <1>1, <1>2, <1>3
  <2>2. QED
    BY <1>1, <2>1 DEF LockedUntil
<1>4. Following(t) \in at[t] + 1..Len(p) + 1 /\ Following(t) <= j
  BY <1>1, Places, LockOps
<1>5. Now(t).depth > 1 => Handler(t) \in at[t] + 1..Len(p) + 1 /\ Handler(t) <= j
  BY <1>1, <1>2, Places, LockOps
<1>6. QED
  BY <1>3, <1>4, <1>5

\* Who has the lock and is not at its ends is inside its block.
LEMMA HolderInside ==
  ASSUME Typed, NEW t \in Threads, Holding(t), Running(t),
         "lock" \in conn[t], Now(t).needs # "lock"
  PROVE  LockedUntil(path[t], at[t] + 1) /\ Now(t).depth > 1
<1> DEFINE p == path[t]
<1>1. PICK j \in at[t]..Len(p) : p[j] = LeaveLock /\ \A k \in at[t]..j - 1 : p[k].depth > 1
  BY DEF Holding, LockedUntil
<1>2. Len(p) \in Nat /\ at[t] \in 1..Len(p)
  BY Places
<1>3. j # at[t]
  BY <1>1, LockOps DEF Now
<1>4. j \in at[t] + 1..Len(p) /\ at[t] \in at[t]..j - 1 /\ \A k \in at[t] + 1..j - 1 : k \in at[t]..j - 1
  BY <1>1, <1>2, <1>3
<1>5. QED
  BY <1>1, <1>4 DEF LockedUntil, Now

\* The connections of a pool, each a thread and a session of it.
LEMMA InUseMembers ==
  ASSUME Typed, NEW pool
  PROVE  InUse(pool) = {e \in Threads \X Sessions : e[2] \in conn[e[1]] /\ PoolOf(e[2]) = pool}
BY DEF Typed, InUse

\* Who gives connections back lends nothing more.
LEMMA LessLent ==
  ASSUME Typed, Typed', Lent, \A t \in Threads : conn'[t] \subseteq conn[t]
  PROVE  Lent'
<1> SUFFICES ASSUME NEW pool \in {"business", "checkpoint"}
             PROVE  IsFiniteSet(InUse(pool)') /\ Cardinality(InUse(pool)') <= Size(pool)
  BY DEF Lent, Size
<1>1. InUse(pool)' = {e \in Threads \X Sessions : e[2] \in conn'[e[1]] /\ PoolOf(e[2]) = pool}
  BY DEF Typed, InUse
<1>2. InUse(pool)' \subseteq InUse(pool)
  BY <1>1, InUseMembers
<1>3. Size(pool) \in Nat
  BY SizesPositive DEF Size
<1>4. QED
  BY <1>2, <1>3, FS_Subset, FS_CardinalityType DEF Lent

\* Control leaves an operation, for a place where what is still held may be held.
LEMMA MovesOn ==
  ASSUME HoldingInv, NEW t \in Threads, Running(t),
         NEW to \in at[t] + 1..Len(path[t]) + 1, NEW r \in BOOLEAN, NEW left \in SUBSET conn[t],
         \/ left \subseteq {"lock"}
         \/ to = Len(path[t]) + 1 /\ left \subseteq {"request"},
         "lock" \in left => to <= Len(path[t]) /\ LockedUntil(path[t], to),
         r /\ to <= Len(path[t]) => path[t][to].runs # "normal",
         at' = [at EXCEPT ![t] = to], raised' = [raised EXCEPT ![t] = r],
         conn' = [conn EXCEPT ![t] = left], UNCHANGED path
  PROVE  HoldingInv'
<1>1. Len(path[t]) \in Nat /\ at[t] \in 1..Len(path[t])
  BY Places DEF HoldingInv
<1>2. Typed'
  <2>1. to \in Nat
    BY <1>1
  <2>2. at'[t] = to /\ \A u \in Threads \ {t} : at'[u] = at[u]
    BY DEF HoldingInv, Typed
  <2>3. \A u \in Threads : at'[u] \in 0..Len(path[u]) + 1 /\ (Busy(u) => at'[u] > 0)
    BY <1>1, <2>2 DEF HoldingInv, Typed
  <2>4. QED
    BY <2>1, <2>3 DEF HoldingInv, Typed, Busy
<1>3. \A u \in Threads : conn'[u] \subseteq conn[u]
  BY DEF HoldingInv, Typed
<1>4. Lent'
  BY <1>2, <1>3, LessLent DEF HoldingInv
<1>5. ASSUME NEW u \in Threads \ {t} PROVE Holding(u)'
  <2>1. at'[u] = at[u] /\ conn'[u] = conn[u] /\ raised'[u] = raised[u] /\ path'[u] = path[u]
    BY DEF HoldingInv, Typed
  <2>2. QED
    BY <2>1 DEF HoldingInv, Holding, Busy, Running, Now, LockedUntil
<1>6. Holding(t)'
  <2>1. at'[t] = to /\ conn'[t] = left /\ raised'[t] = r /\ path'[t] = path[t] /\ path[t] # <<>>
    BY DEF HoldingInv, Typed, Running, Busy
  <2>2. to <= Len(path[t]) => left \subseteq {"lock"}
    BY <1>1
  <2>3. to > Len(path[t]) => left \subseteq {"request"}
    BY <1>1
  <2>4. QED
    BY <1>1, <2>1, <2>2, <2>3 DEF Holding, Busy, Running, Now, LockedUntil
<1>7. QED
  BY <1>2, <1>4, <1>5, <1>6 DEF HoldingInv

\* The operation ends, its errors handled, and left is what it leaves.
LEMMA AdvanceKept ==
  ASSUME HoldingInv, NEW t \in Threads, Running(t), NEW left,
         left = conn[t] \ {Now(t).needs} \/ (left = conn[t] /\ Now(t).keeps),
         Advance(t, left)
  PROVE  HoldingInv'
<1> DEFINE p == path[t]
           now == Now(t)
<1>1. /\ Typed /\ Holding(t) /\ Sound(p, {"request"}) /\ now \in Ops /\ raised[t] \in BOOLEAN
      /\ Len(p) \in Nat /\ at[t] \in 1..Len(p)
  BY Places DEF HoldingInv, Typed
<1>2. CASE raised[t] /\ now.runs # "except"
  <2>1. ~now.keeps
    <3>1. now.runs \notin {"normal", "except"}
      BY <1>1, <1>2 DEF Holding
    <3>2. now.keeps => KeepsSoundly(p, at[t], {"request"})
      BY <1>1 DEF Sound, Now
    <3>3. QED
      BY <3>1, <3>2, LockOps DEF KeepsSoundly, Now
  <2>2. left = conn[t] \ {now.needs} /\ left \subseteq {"lock"}
    BY <1>1, <2>1 DEF Holding
  <2>3. "lock" \in left => LockedUntil(p, at[t] + 1) /\ now.depth > 1
    BY <1>1, <2>2, HolderInside
  <2>4. "lock" \in left => Handler(t) <= Len(p) /\ LockedUntil(p, Handler(t))
    BY <1>1, <2>3, BlockGoesOn
  <2>5. /\ at' = [at EXCEPT ![t] = Handler(t)] /\ raised' = [raised EXCEPT ![t] = TRUE]
        /\ conn' = [conn EXCEPT ![t] = left] /\ UNCHANGED path
    BY <1>2 DEF Advance
  <2>6. /\ Handler(t) \in at[t] + 1..Len(p) + 1
        /\ Handler(t) <= Len(p) => p[Handler(t)].runs # "normal"
    BY <1>1, Places
  <2>7. QED
    BY <2>2, <2>4, <2>5, <2>6, MovesOn
<1>3. CASE ~(raised[t] /\ now.runs # "except")
  <2>1. /\ at' = [at EXCEPT ![t] = Following(t)] /\ raised' = [raised EXCEPT ![t] = FALSE]
        /\ conn' = [conn EXCEPT ![t] = left] /\ UNCHANGED path
    BY <1>3 DEF Advance
  <2>2. Following(t) \in at[t] + 1..Len(p) + 1
    BY <1>1, Places
  <2>3. CASE left = conn[t] \ {now.needs}
    <3>1. left \subseteq {"lock"}
      BY <1>1, <2>3 DEF Holding
    <3>2. "lock" \in left => LockedUntil(p, at[t] + 1)
      BY <1>1, <2>3, HolderInside
    <3>3. "lock" \in left => Following(t) <= Len(p) /\ LockedUntil(p, Following(t))
      BY <1>1, <3>2, BlockGoesOn
    <3>4. QED
      BY <2>1, <2>2, <2>3, <3>1, <3>3, MovesOn
  <2>4. CASE left = conn[t] /\ now.keeps /\ now = TakeLock /\ LockedUntil(p, at[t] + 1)
    <3>1. left \subseteq {"lock"}
      BY <1>1, <2>4, LockOps DEF Holding
    <3>2. Following(t) <= Len(p) /\ LockedUntil(p, Following(t))
      BY <1>1, <2>4, BlockGoesOn
    <3>3. QED
      BY <2>1, <2>2, <2>4, <3>1, <3>2, MovesOn
  <2>5. CASE /\ left = conn[t] /\ now.needs = "request"
             /\ \A j \in at[t] + 1..Len(p) : p[j].runs \notin {"normal", "finally"}
    <3>1. Following(t) = Len(p) + 1
      <4>1. Following(t) <= Len(p) => Following(t) \in at[t] + 1..Len(p)
        BY <1>1, <2>2
      <4>2. Following(t) <= Len(p) => p[Following(t)].runs \in {"normal", "finally"}
        BY <1>1, Places
      <4>3. ~(Following(t) <= Len(p))
        BY <2>5, <4>1, <4>2
      <4>4. QED
        BY <1>1, <2>2, <4>3
    <3>2. "lock" \notin left
      <4>1. ~LockedUntil(p, at[t] + 1)
        BY <1>1, <2>5, LockOps DEF LockedUntil
      <4>2. QED
        BY <1>1, <2>5, <4>1, HolderInside
    <3>3. left \subseteq {"request"}
      BY <1>1, <2>5, <3>2 DEF Holding
    <3>4. QED
      BY <2>1, <2>2, <2>5, <3>1, <3>2, <3>3, MovesOn
  <2>6. now.keeps => KeepsSoundly(p, at[t], {"request"})
    BY <1>1 DEF Sound, Now
  <2>7. QED
    BY <2>3, <2>4, <2>5, <2>6 DEF KeepsSoundly, Now
<1>4. QED
  BY <1>2, <1>3

-----------------------------------------------------------------------------
(* One call's steps.                                                       *)

\* A call arrives at an operation with nothing held.
LEMMA ArriveKept ==
  ASSUME HoldingInv, NEW t \in Threads, NEW p \in Paths, Arrive(t, p)
  PROVE  HoldingInv'
<1>1. p # <<>> /\ Len(p) \in Nat \ {0}
  <2>1. p # <<>> /\ p \in Seq(Ops)
    BY PathsSound DEF Sound
  <2>2. QED
    BY <2>1, EmptySeq
<1>2. conn[t] = {} /\ ~raised[t]
  BY DEF Arrive, HoldingInv, Holding
<1>3. /\ path'[t] = p /\ at'[t] = 1 /\ conn' = conn /\ raised' = raised
      /\ \A u \in Threads \ {t} : path'[u] = path[u] /\ at'[u] = at[u]
  BY DEF Arrive, HoldingInv, Typed
<1>4. Typed'
  <2>1. path' \in [Threads -> Paths \cup {<<>>}] /\ at' \in [Threads -> Nat]
    BY DEF Arrive, HoldingInv, Typed
  <2>2. \A u \in Threads : at'[u] \in 0..Len(path'[u]) + 1 /\ (path'[u] # <<>> => at'[u] > 0)
    BY <1>1, <1>3 DEF HoldingInv, Typed, Busy
  <2>3. QED
    BY <1>3, <2>1, <2>2 DEF HoldingInv, Typed, Busy
<1>5. Lent'
  BY <1>3, <1>4, LessLent DEF HoldingInv
<1>6. Holding(t)'
  BY <1>1, <1>2, <1>3 DEF Holding, Busy, Running, Now
<1>7. ASSUME NEW u \in Threads \ {t} PROVE Holding(u)'
  BY <1>3 DEF HoldingInv, Holding, Busy, Running, Now, LockedUntil
<1>8. QED
  BY <1>4, <1>5, <1>6, <1>7 DEF HoldingInv

\* A connection is taken only while its pool has one to lend.
LEMMA AcquireKept ==
  ASSUME HoldingInv, NEW t \in Threads, Acquire(t)
  PROVE  HoldingInv'
<1> DEFINE s == Now(t).needs
<1>1. Typed /\ Running(t) /\ s \in Sessions /\ s \notin conn[t]
  <2>1. Now(t) \in Ops
    BY Places DEF Acquire, HoldingInv
  <2>2. QED
    BY <2>1 DEF Acquire, HoldingInv, Ready, Ops
<1>2. /\ conn'[t] = conn[t] \cup {s} /\ path' = path /\ at' = at /\ raised' = raised
      /\ \A u \in Threads \ {t} : conn'[u] = conn[u]
  BY DEF Acquire, HoldingInv, Typed
<1>3. Typed'
  <2>1. conn' \in [Threads -> SUBSET Sessions]
    BY <1>1 DEF Acquire, Typed
  <2>2. QED
    BY <1>1, <1>2, <2>1 DEF Typed, Busy
<1>4. ASSUME NEW pool \in {"business", "checkpoint"}
      PROVE  IsFiniteSet(InUse(pool)') /\ Cardinality(InUse(pool)') <= Size(pool)
  <2>1. InUse(pool)' = {e \in Threads \X Sessions : e[2] \in conn'[e[1]] /\ PoolOf(e[2]) = pool}
    BY <1>3 DEF Typed, InUse
  <2>2. InUse(pool) = {e \in Threads \X Sessions : e[2] \in conn[e[1]] /\ PoolOf(e[2]) = pool}
    BY <1>1, InUseMembers
  <2>3. IsFiniteSet(InUse(pool)) /\ Cardinality(InUse(pool)) <= Size(pool)
    BY DEF HoldingInv, Lent
  <2>4. CASE PoolOf(s) # pool
    <3>1. InUse(pool)' = InUse(pool)
      BY <1>1, <1>2, <2>1, <2>2, <2>4
    <3>2. QED
      BY <2>3, <3>1
  <2>5. CASE PoolOf(s) = pool
    <3>1. Cardinality(InUse(pool)) < Size(pool)
      BY <2>5 DEF Acquire, Free
    <3>2. InUse(pool)' = InUse(pool) \cup {<<t, s>>} /\ <<t, s>> \notin InUse(pool)
      BY <1>1, <1>2, <2>1, <2>2, <2>5
    <3>3. Cardinality(InUse(pool)) \in Nat /\ Size(pool) \in Nat
      BY <2>3, FS_CardinalityType, SizesPositive DEF Size
    <3>4. IsFiniteSet(InUse(pool)') /\ Cardinality(InUse(pool)') = Cardinality(InUse(pool)) + 1
      BY <2>3, <3>2, FS_AddElement
    <3>5. QED
      BY <3>1, <3>3, <3>4
  <2>6. QED
    BY <2>4, <2>5
<1>5. Lent'
  BY <1>4 DEF Lent, Size
<1>6. Holding(t)'
  BY <1>1, <1>2 DEF HoldingInv, Holding, Busy, Running, Now, LockedUntil
<1>7. ASSUME NEW u \in Threads \ {t} PROVE Holding(u)'
  BY <1>2 DEF HoldingInv, Holding, Busy, Running, Now, LockedUntil
<1>8. QED
  BY <1>3, <1>5, <1>6, <1>7 DEF HoldingInv

\* An error keeps nothing but the lock, and goes no further than its block.
LEMMA FailKept ==
  ASSUME HoldingInv, NEW t \in Threads, Raise(t)
  PROVE  HoldingInv'
<1> DEFINE p == path[t]
           left == conn[t] \cap ({"lock"} \ {Now(t).needs})
<1>1. Typed /\ Holding(t) /\ Running(t)
  BY DEF Raise, HoldingInv
<1>2. /\ Handler(t) \in at[t] + 1..Len(p) + 1
      /\ Handler(t) <= Len(p) => p[Handler(t)].runs # "normal"
  BY <1>1, Places
<1>3. "lock" \in left => Handler(t) <= Len(p) /\ LockedUntil(p, Handler(t))
  BY <1>1, HolderInside, BlockGoesOn
<1>4. /\ at' = [at EXCEPT ![t] = Handler(t)] /\ raised' = [raised EXCEPT ![t] = TRUE]
      /\ conn' = [conn EXCEPT ![t] = left] /\ UNCHANGED path
  BY DEF Raise, HoldingInv, Typed
<1>5. left \in SUBSET conn[t] /\ left \subseteq {"lock"}
  OBVIOUS
<1>6. QED
  BY <1>1, <1>2, <1>3, <1>4, <1>5, MovesOn

\* At the end of a call every connection has been given back.
LEMMA CloseKept ==
  ASSUME HoldingInv, NEW t \in Threads, Close(t)
  PROVE  HoldingInv'
<1>1. /\ path'[t] = <<>> /\ at'[t] = 0 /\ conn'[t] = {} /\ raised'[t] = FALSE
      /\ \A u \in Threads \ {t} : /\ path'[u] = path[u] /\ at'[u] = at[u]
                                  /\ conn'[u] = conn[u] /\ raised'[u] = raised[u]
  BY DEF Close, HoldingInv, Typed
<1>2. Typed'
  <2>1. /\ path' \in [Threads -> Paths \cup {<<>>}] /\ at' \in [Threads -> Nat]
        /\ raised' \in [Threads -> BOOLEAN] /\ conn' \in [Threads -> SUBSET Sessions]
    BY DEF Close, HoldingInv, Typed
  <2>2. \A u \in Threads : at'[u] \in 0..Len(path'[u]) + 1 /\ (path'[u] # <<>> => at'[u] > 0)
    BY <1>1, EmptySeq DEF HoldingInv, Typed, Busy
  <2>3. QED
    BY <2>1, <2>2 DEF Typed, Busy
<1>3. Lent'
  BY <1>1, <1>2, LessLent DEF HoldingInv
<1>4. Holding(t)'
  BY <1>1 DEF Holding, Busy, Running
<1>5. ASSUME NEW u \in Threads \ {t} PROVE Holding(u)'
  BY <1>1 DEF HoldingInv, Holding, Busy, Running, Now, LockedUntil
<1>6. QED
  BY <1>2, <1>3, <1>4, <1>5 DEF HoldingInv

-----------------------------------------------------------------------------
(* All steps, and what becomes of the pools.                               *)

LEMMA HoldingInit == CallsInit => HoldingInv
<1> SUFFICES ASSUME CallsInit PROVE HoldingInv
  OBVIOUS
<1>1. Typed
  BY EmptySeq DEF CallsInit, Typed, Busy
<1>2. Lent
  <2>1. \A pool : InUse(pool) = {}
    BY DEF CallsInit, InUse
  <2>2. QED
    BY <2>1, FS_EmptySet, SizesPositive DEF Lent, Size
<1>3. \A t \in Threads : Holding(t)
  BY DEF CallsInit, Holding, Busy, Running
<1>4. QED
  BY <1>1, <1>2, <1>3 DEF HoldingInv

LEMMA HoldingKept == HoldingInv /\ [CallsNext]_callsVars => HoldingInv'
<1> SUFFICES ASSUME HoldingInv, [CallsNext]_callsVars PROVE HoldingInv'
  OBVIOUS
<1>1. CASE UNCHANGED callsVars
  BY <1>1 DEF callsVars, HoldingInv, Typed, Lent, InUse, Holding, Busy, Running, Now, LockedUntil, Size
<1>2. ASSUME NEW t \in Threads,
             (\E p \in Paths : Arrive(t, p)) \/ Proceed(t) \/ Raise(t) \/ Drop(t)
      PROVE  HoldingInv'
  <2>1. CASE \E p \in Paths : Arrive(t, p)
    BY <2>1, ArriveKept
  <2>2. CASE Acquire(t)
    BY <2>2, AcquireKept
  <2>3. CASE Finish(t)
    <3>1. Running(t) /\ (\/ Now(t).keeps /\ Advance(t, conn[t])
                         \/ Advance(t, conn[t] \ {Now(t).needs}))
      BY <2>3 DEF Finish
    <3>2. QED
      BY <3>1, AdvanceKept
  <2>4. CASE Close(t)
    BY <2>4, CloseKept
  <2>5. CASE Raise(t)
    BY <2>5, FailKept
  <2>6. CASE Drop(t)
    <3>1. Running(t) /\ Advance(t, conn[t] \ {Now(t).needs})
      BY <2>6 DEF Drop
    <3>2. QED
      BY <3>1, AdvanceKept
  <2>7. QED
    BY <1>2, <2>1, <2>2, <2>3, <2>4, <2>5, <2>6 DEF Proceed
<1>3. QED
  BY <1>1, <1>2 DEF CallsNext

LEMMA HoldingInvariant == CallsSpec => []HoldingInv
BY HoldingInit, HoldingKept, PTL DEF CallsSpec

\* However many threads serve calls of whatever lengths, a thread is at a place
\* of a handler's path, and no pool lends more connections than its size.
THEOREM PoolsBounded == CallsSpec => []CallsTypeOK
<1>1. HoldingInv => CallsTypeOK
  <2> SUFFICES ASSUME HoldingInv PROVE CallsTypeOK
    OBVIOUS
  <2>1. ASSUME NEW t \in Threads
        PROVE  /\ path[t] \in Paths \cup {<<>>}
               /\ \A i \in DOMAIN path[t] : path[t][i] \in Ops
               /\ at[t] \in 0..Len(path[t]) + 1
               /\ conn[t] \in SUBSET Sessions
               /\ raised[t] \in BOOLEAN
    <3>1. path[t] \in Paths \cup {<<>>}
      BY DEF HoldingInv, Typed
    <3>2. path[t] \in Seq(Ops)
      BY <3>1, PathsSound, EmptySeq DEF Sound
    <3>3. QED
      BY <3>1, <3>2 DEF HoldingInv, Typed
  <2>2. QED
    BY <2>1 DEF CallsTypeOK, HoldingInv, Lent, Size
<1>2. QED
  BY HoldingInvariant, <1>1, PTL

\* Whoever waits for the model or for a connection of a pool has none: model
\* calls, however slow and however many, never use up the sessions of the tools.
THEOREM NobodyHoldsAndWaits == CallsSpec => []WaitersHoldNothing
<1>1. HoldingInv => WaitersHoldNothing
  <2> SUFFICES ASSUME HoldingInv, NEW t \in Threads, Running(t),
                      Now(t).needs = "model" \/ ~Ready(t)
               PROVE  conn[t] \subseteq {"lock"}
    BY DEF WaitersHoldNothing
  <2>1. conn[t] \subseteq {"lock", Now(t).needs} /\ conn[t] \subseteq Sessions
    BY DEF HoldingInv, Holding, Typed
  <2>2. QED
    BY <2>1 DEF Ready, Sessions
<1>2. QED
  BY HoldingInvariant, <1>1, PTL

\* Whatever fails on the way, at the end of a call the conversation's lock has
\* been given up and no session of the agent has a connection.
THEOREM NothingLeft == CallsSpec => []NothingLeaks
<1>1. HoldingInv => NothingLeaks
  BY DEF HoldingInv, Holding, NothingLeaks
<1>2. QED
  BY HoldingInvariant, <1>1, PTL
=============================================================================

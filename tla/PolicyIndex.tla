----------------------------- MODULE PolicyIndex -----------------------------
(***************************************************************************)
(* The policy documents and their embedded chunks: ingestion jobs (python  *)
(* -m rag.ingestion) work through the files, one database session a file,  *)
(* and commit the document before its chunks; searches read what is        *)
(* committed.  Jobs interleave, raise and die; the migration that narrows  *)
(* the embedding column may run at any time.                               *)
(***************************************************************************)
EXTENDS Integers

CONSTANTS
  Files,         \* policy files, 1..Files in the order of sorted(glob)
  Sections,      \* chunks of a file
  Documents,     \* bound: ids, 1..Documents
  Jobs,
  Forcing,       \* values of --force that operators use
  Backend,       \* EMBEDDING_BACKEND
  MaxFailures    \* bound: exceptions and deaths

ASSUME PolicyIndexTypes ==
  /\ {Files, Sections, Documents} \subseteq Nat \ {0}
  /\ Forcing \subseteq BOOLEAN
  /\ Backend \in {"local", "openai"}
  /\ MaxFailures \in Nat

VARIABLES
  column,     \* dimension of document_chunks.embedding
  document,   \* document[d]: file of the committed row with id d, 0 for none
  chunks,     \* chunks[d]: number of committed chunks of d
  job,        \* job[j]: where ingestion job j is
  ingested,   \* history: what became of a file's last complete ingestion
  renewed,    \* history: renewed[j]: files that j's present or last run has ingested
  failures

vars == <<column, document, chunks, job, ingested, renewed, failures>>

\* outcome: the last exit of the job; written: chunks inserted, uncommitted.
Row(pc, force, file, doc, outcome) ==
  [pc |-> pc, force |-> force, file |-> file, doc |-> doc, written |-> 0, outcome |-> outcome]

\* Revision 002 narrows the column revision 001 made for OpenAI.
Init ==
  /\ column \in {384, 1536}
  /\ document = [d \in 1..Documents |-> 0]
  /\ chunks = [d \in 1..Documents |-> 0]
  /\ job = [j \in Jobs |-> Row("idle", FALSE, 0, 0, "none")]
  /\ ingested = [f \in 1..Files |-> "never"]
  /\ renewed = [j \in Jobs |-> {}]
  /\ failures = 0

Dimension == IF Backend = "openai" THEN 1536 ELSE 384

At(j, pc) == job[j].pc = pc
Goto(j, pc) == job' = [job EXCEPT ![j].pc = pc]
End(j, outcome) ==
  job' = [job EXCEPT ![j] = Row("idle", job[j].force, 0, 0, outcome)]

Rows(f) == {d \in 1..Documents : document[d] = f}

\* The search joins chunks with their documents.
Searchable(f) == \E d \in Rows(f) : chunks[d] = Sections

\* Inserting a chunk locks its document's row against deletion (FOR KEY SHARE).
NeverPinned(d) == FALSE                         \* mutant
Pinned(d) == \E j \in Jobs : At(j, "embed") /\ job[j].doc = d /\ job[j].written > 0

-----------------------------------------------------------------------------
(* ingest_policies, ingest_policy_file.                                    *)
Start(j) ==
  /\ At(j, "idle")
  /\ \E force \in Forcing :
       job' = [job EXCEPT ![j] = Row("check", force, 1, 0, "none")]
  /\ renewed' = [renewed EXCEPT ![j] = {}]
  /\ UNCHANGED <<column, document, chunks, ingested, failures>>

CheckIgnoringForce(j) ==                        \* mutant
  /\ At(j, "check")
  /\ Goto(j, IF Rows(job[j].file) = {} THEN "insert" ELSE "skip")
  /\ UNCHANGED <<column, document, chunks, ingested, renewed, failures>>

Check(j) ==
  /\ At(j, "check")
  /\ \/ Rows(job[j].file) = {} /\ Goto(j, "insert")
     \/ Rows(job[j].file) # {} /\ job[j].force /\ Goto(j, "delete")
     \/ Rows(job[j].file) # {} /\ ~job[j].force /\ Goto(j, "skip")
  /\ UNCHANGED <<column, document, chunks, ingested, renewed, failures>>

\* The next file, or the end of the job.
NextFile(j) ==
  IF job[j].file = Files THEN End(j, "ok")
  ELSE job' = [job EXCEPT ![j] = Row("check", job[j].force, job[j].file + 1, 0, "none")]

Skip(j) ==
  /\ At(j, "skip")
  /\ NextFile(j)
  /\ UNCHANGED <<column, document, chunks, ingested, renewed, failures>>

\* DELETE ... CASCADE and its commit.
DeletedAll(f) == 1..Documents                   \* mutant: no WHERE
Deleted(f) == Rows(f)
Delete(j) ==
  LET rows == Deleted(job[j].file)
  IN /\ At(j, "delete")
     /\ \A d \in rows : ~Pinned(d)
     /\ document' = [d \in 1..Documents |-> IF d \in rows THEN 0 ELSE document[d]]
     /\ chunks' = [d \in 1..Documents |-> IF d \in rows THEN 0 ELSE chunks[d]]
     /\ Goto(j, "insert")
     /\ UNCHANGED <<column, ingested, renewed, failures>>

\* A new id: no row and no job has it.
Fresh(d) == document[d] = 0 /\ \A j \in Jobs : job[j].doc # d

\* The document's row is committed before its first chunk exists.
InsertDocument(j) ==
  /\ At(j, "insert")
  /\ \E d \in 1..Documents :
       /\ Fresh(d)
       /\ \A e \in 1..(d - 1) : ~Fresh(e)
       /\ document' = [document EXCEPT ![d] = job[j].file]
       /\ job' = [job EXCEPT ![j] = Row("embed", job[j].force, job[j].file, d, "none")]
  /\ UNCHANGED <<column, chunks, ingested, renewed, failures>>

\* The vector has the column's dimension and the document still exists.
Accepted(j) == Dimension = column /\ document[job[j].doc] # 0

EmbedAndCommit(j) ==                            \* mutant: each chunk is committed
  /\ At(j, "embed")
  /\ job[j].written < Sections
  /\ Accepted(j)
  /\ job' = [job EXCEPT ![j].written = @ + 1]
  /\ chunks' = [chunks EXCEPT ![job[j].doc] = @ + 1]
  /\ UNCHANGED <<column, document, ingested, renewed, failures>>

Embed(j) ==
  /\ At(j, "embed")
  /\ job[j].written < Sections
  /\ Accepted(j)
  /\ job' = [job EXCEPT ![j].written = @ + 1]
  /\ UNCHANGED <<column, document, chunks, ingested, renewed, failures>>

CommitChunks(j) ==
  /\ At(j, "embed")
  /\ job[j].written = Sections
  /\ chunks' = [chunks EXCEPT ![job[j].doc] = Sections]
  /\ ingested' = [ingested EXCEPT ![job[j].file] = "complete"]
  /\ renewed' = [renewed EXCEPT ![j] = @ \cup {job[j].file}]
  /\ NextFile(j)
  /\ UNCHANGED <<column, document, failures>>

\* The complete ingestion of these files is gone.
Lose(S) ==
  ingested' = [f \in 1..Files |->
                 IF f \in S /\ ingested[f] = "complete" THEN "lost" ELSE ingested[f]]

\* An exception rolls the session back and ends the whole job.
NextAfterError(j) == NextFile(j)                \* mutant: the error is passed over
AfterError(j) == End(j, "failed")
Replacing(j, f) == job[j].file = f /\ job[j].force /\ job[j].pc \in {"insert", "embed"}
Abort(j) ==
  /\ Lose({f \in 1..Files : Replacing(j, f)})
  /\ AfterError(j)
  /\ UNCHANGED <<column, document, chunks, renewed>>

\* The insertion of a chunk is refused.
Refuse(j) ==
  /\ At(j, "embed")
  /\ job[j].written < Sections
  /\ ~Accepted(j)
  /\ Abort(j)
  /\ UNCHANGED failures

\* Reading, embedding or the database fails, or the process dies.
Fail(j) ==
  /\ ~At(j, "idle")
  /\ failures < MaxFailures
  /\ failures' = failures + 1
  /\ Abort(j)

-----------------------------------------------------------------------------
(* Revision 002 empties both tables and narrows the column; it waits for   *)
(* the sessions that have inserted chunks.                                 *)
Upgrade ==
  /\ column = 1536
  /\ \A d \in 1..Documents : ~Pinned(d)
  /\ column' = 384
  /\ document' = [d \in 1..Documents |-> 0]
  /\ chunks' = [d \in 1..Documents |-> 0]
  /\ Lose(1..Files)
  /\ UNCHANGED <<job, renewed, failures>>

-----------------------------------------------------------------------------
Step(j) ==
  \/ Check(j) \/ Skip(j) \/ Delete(j) \/ InsertDocument(j)
  \/ Embed(j) \/ CommitChunks(j) \/ Refuse(j)

Next == Upgrade \/ \E j \in Jobs : Start(j) \/ Step(j) \/ Fail(j)

Spec == Init /\ [][Next]_vars

(***************************************************************************)
(* Fairness: a job that runs goes on, the start command migrates the       *)
(* database, and some operator runs an ingestion again.                    *)
(***************************************************************************)
FairSpec ==
  /\ Spec
  /\ WF_vars(Upgrade)
  /\ WF_vars(\E j \in Jobs : Start(j))
  /\ \A j \in Jobs : WF_vars(Step(j))

-----------------------------------------------------------------------------
(* Properties.                                                             *)

JobRows == [pc : {"idle", "check", "skip", "delete", "insert", "embed"}, force : BOOLEAN,
            file : 0..Files, doc : 0..Documents, written : 0..Sections,
            outcome : {"none", "ok", "failed"}]

\* Rows and jobs keep their types, and only a committed document has chunks.
TypeOK ==
  /\ column \in {384, 1536}
  /\ document \in [1..Documents -> 0..Files]
  /\ chunks \in [1..Documents -> 0..Sections]
  /\ job \in [Jobs -> JobRows]
  /\ ingested \in [1..Files -> {"never", "complete", "lost"}]
  /\ renewed \in [Jobs -> SUBSET (1..Files)]
  /\ failures \in 0..MaxFailures
  /\ \A d \in 1..Documents : chunks[d] > 0 => document[d] # 0

\* A search never sees part of a policy: whatever jobs, deletions and
\* failures overlap, a document has all of its chunks or none
\* (ingest_policy_file commits the chunks together).
AllOrNothing == \A d \in 1..Documents : chunks[d] \in {0, Sections}

\* A policy that was ingested stays searchable unless a forced job is
\* replacing it, or one failed after it had committed the deletion.
NoGap ==
  \A f \in 1..Files :
    ingested[f] = "complete" => Searchable(f) \/ \E j \in Jobs : Replacing(j, f)

\* A forced ingestion that reports success has itself ingested every file
\* in this run, with all its chunks: what an earlier run had ingested does
\* not count, as --force deletes it first (ingest_policy_file).
ForcedRunIsComplete ==
  \A j \in Jobs : job[j].outcome = "ok" /\ job[j].force => renewed[j] = 1..Files

\* A file reported as already ingested can be searched ("Idempotent:
\* re-running on an already-ingested file skips it", ingest.py).
SkippedIsIngested == \A j \in Jobs : At(j, "skip") => Searchable(job[j].file)

\* No job but j is at work, and the runs of j are forced.
ForcedAlone(j) == job[j].force /\ \A k \in Jobs \ {j} : At(k, "idle")

\* Forced runs that no other run overlaps repair what failed, unforced and
\* overlapping runs and the migration left: each policy is searchable again.
ForcedRunsRepair ==
  \A j \in Jobs, f \in 1..Files : <>[]ForcedAlone(j) => []<>Searchable(f)
=============================================================================

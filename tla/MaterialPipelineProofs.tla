---------------------- MODULE MaterialPipelineProofs ------------------------
(***************************************************************************)
(* Theorems about MaterialPipeline, for every set of documents and workers *)
(* and every value of the other constants: the queue hands a job out once, *)
(* a removal is undone by a parse alone, and what the session derives from *)
(* its documents is right while no two of its writers have collided.       *)
(***************************************************************************)
EXTENDS MaterialPipeline, FiniteSetTheorems, TLAPS

-----------------------------------------------------------------------------
(* The inductive invariant.                                                *)

Copies == [status : Statuses, art : Artifacts]

\* What each point of run_once guarantees about the worker's own variables:
\* there is a document exactly while it runs, a loaded copy whenever the copy
\* is written back, a computed outcome whenever one is committed.
WorkerShape ==
    \A w \in Workers :
        /\ pc[w] = "idle" => cur[w] = None
        /\ pc[w] # "idle" => cur[w] \in Docs
        /\ pc[w] \in {"understanding", "committing", "reporting", "failing"} =>
              view[w] \in Copies
        /\ pc[w] \in {"committing", "notifying"} => wtx[w] \in WorkerTxs
        /\ pc[w] = "failing" => wtx[w] \in WorkerTxs
        /\ pc[w] = "committing" => wtx[w].outcome \in {"completed", "failed"}

\* A document and its job come into being together, and only a document that
\* exists is removed.
RowsTogether ==
    \A d \in Docs :
        /\ status[d] = "absent" <=> job[d] = "none"
        /\ dtx[d] # None => /\ status[d] # "absent"
                            /\ dtx[d].status \in {None, "tombstoned"}

\* A job somebody works on has left the queue.
HeldLeftQueue ==
    \A w \in Workers : cur[w] # None => job[cur[w]] \notin {"none", "queued"}

IInv == TypeOK /\ WorkerShape /\ RowsTogether /\ HeldLeftQueue /\ ClaimExclusive

-----------------------------------------------------------------------------
(* What the derived values are, whatever they are computed from.           *)

\* Board, funding field and gate have their types whatever rows they come from.
LEMMA DerivedTypes ==
    /\ \A st, ar : BoardOf(st, ar) \in SUBSET Docs
    /\ \A st, ar : FieldOf(st, ar) \in Fields
    /\ \A st, ar, jb, fl : GateOf(st, ar, jb, fl) \in Gates
<1>1. \A st, ar : BoardOf(st, ar) \in SUBSET Docs
  BY DEF BoardOf
<1>2. \A st, ar : FieldOf(st, ar) \in Fields
  BY DEF FieldOf, Fields
<1>3. \A st, ar, jb, fl : GateOf(st, ar, jb, fl) \in Gates
  BY DEF GateOf, Gates
<1>4. QED
  BY <1>1, <1>2, <1>3

\* The unit of work's writes stay within the column's type.
LEMMA WrittenType ==
    ASSUME NEW S, NEW change \in S \cup {None}, NEW committed \in S
    PROVE  Written(change, committed) \in S
  BY DEF Written

\* A column's change is a value of the column, or nothing.
LEMMA ChangedType ==
    ASSUME NEW S, NEW old, NEW new \in S
    PROVE  Changed(old, new) \in S \cup {None}
  BY DEF Changed

\* Whatever is written of a board is a set of documents, or nothing.
LEMMA BoardWritesType ==
    ASSUME NEW board \in SUBSET Docs
    PROVE  BoardWrites(board) \subseteq (SUBSET Docs) \cup {None}
  BY DEF BoardWrites, Changed

\* upsert_material_understanding and tombstone_document yield artifacts.
LEMMA ArtifactTypes ==
    ASSUME NEW a \in Artifacts
    PROVE  /\ \A o \in {"none", "completed", "failed"} : Understood(a, o) \in Artifacts
           /\ Removed(a) \in Artifacts
  BY DEF Artifacts, Understood, Removed

\* The artifacts that an upload and a parse write.
LEMMA FreshTypes ==
    FreshArtifact \in Artifacts /\ ParsedArtifact \in Artifacts
  BY DEF FreshArtifact, ParsedArtifact, Artifacts

\* job_id order: the number a new job gets.
LEMMA NextSeqno ==
    1 + Cardinality({e \in Docs : status[e] # "absent"}) \in Nat
<1>1. IsFiniteSet({e \in Docs : status[e] # "absent"})
  BY DocsFinite, FS_Subset
<1>2. QED
  BY <1>1, FS_CardinalityType

-----------------------------------------------------------------------------
\* An empty session satisfies the invariant.
LEMMA InitInv == Init => IInv
<1> SUFFICES ASSUME Init PROVE IInv
  OBVIOUS
<1>1. status \in [Docs -> Statuses] /\ job \in [Docs -> JobStatuses]
  BY DEF Init, Statuses, JobStatuses
<1>2. art \in [Docs -> Artifacts]
  BY FreshTypes DEF Init
<1>3. /\ evidence \in [Docs -> Values \cup {None}]
      /\ seqno \in [Docs -> Nat]
      /\ snap \in SUBSET Docs
  BY DEF Init
<1>4. field \in Fields /\ gate \in Gates
  BY DEF Init, Fields, Gates
<1>5. /\ pc \in [Workers -> PCs]
      /\ cur \in [Workers -> Docs \cup {None}]
      /\ view \in [Workers -> [status : Statuses, art : Artifacts] \cup {None}]
      /\ wtx \in [Workers -> WorkerTxs \cup {None}]
      /\ dtx \in [Docs -> RemovalTxs \cup {None}]
  BY DEF Init, PCs
<1>6. crashes \in 0 .. MaxCrashes /\ removals \in 0 .. MaxRemovals /\ overlap \in BOOLEAN
  <2>1. crashes = 0 /\ removals = 0 /\ overlap \in BOOLEAN
    BY DEF Init
  <2>2. MaxCrashes \in Nat /\ MaxRemovals \in Nat
    BY BoundsNat
  <2>3. QED
    BY <2>1, <2>2
<1>7. TypeOK
  BY <1>1, <1>2, <1>3, <1>4, <1>5, <1>6 DEF TypeOK
<1>8. WorkerShape /\ RowsTogether /\ HeldLeftQueue /\ ClaimExclusive
  BY DEF Init, WorkerShape, RowsTogether, HeldLeftQueue, ClaimExclusive
<1>9. QED
  BY <1>7, <1>8 DEF IInv

-----------------------------------------------------------------------------
(* Steps that change only the variables of the worker that takes them, and *)
(* leave it with its document.                                             *)

\* What such a step must establish about its worker.
LEMMA LocalStep ==
    ASSUME IInv, NEW w \in Workers, NEW p \in PCs \ {"idle"}, pc[w] # "idle",
           pc' = [pc EXCEPT ![w] = p],
           view' \in [Workers -> Copies \cup {None}],
           wtx' \in [Workers -> WorkerTxs \cup {None}],
           \A v \in Workers \ {w} : view'[v] = view[v] /\ wtx'[v] = wtx[v],
           p \in {"understanding", "committing", "reporting", "failing"} => view'[w] \in Copies,
           p \in {"committing", "notifying", "failing"} => wtx'[w] \in WorkerTxs,
           p = "committing" => wtx'[w].outcome \in {"completed", "failed"},
           UNCHANGED <<docVars, sessionVars, cur, dtx, crashes, removals, overlap>>
    PROVE  IInv'
<1>1. TypeOK'
  <2>1. pc' \in [Workers -> PCs]
    BY DEF IInv, TypeOK
  <2>2. QED
    BY <2>1 DEF IInv, TypeOK, docVars, sessionVars, Copies
<1>2. WorkerShape'
  BY DEF IInv, TypeOK, WorkerShape, PCs
<1>3. RowsTogether' /\ HeldLeftQueue' /\ ClaimExclusive'
  BY DEF IInv, RowsTogether, HeldLeftQueue, ClaimExclusive, docVars
<1>4. QED
  BY <1>1, <1>2, <1>3 DEF IInv

\* The worker's steps that write no row: reads, flushes and rollbacks.
LEMMA LocalSteps ==
    ASSUME IInv, NEW w \in Workers,
           \/ StartParse(w)
           \/ RefreshBeforeWrite(w)
           \/ StartUnderstanding(w)
           \/ \E outcome \in {"completed", "failed"} : FlushUpsert(w, outcome)
           \/ StartMaterialRefresh(w)
           \/ Raise(w)
           \/ LoadForFailure(w)
           \/ FlushFailure(w)
    PROVE  IInv'
<1> USE DEF IInv
<1>0. /\ view \in [Workers -> Copies \cup {None}] /\ wtx \in [Workers -> WorkerTxs \cup {None}]
      /\ pc[w] # "idle" => [status |-> status[cur[w]], art |-> art[cur[w]]] \in Copies
  BY DEF TypeOK, Copies, WorkerShape
<1>1. CASE StartParse(w)
  <2>1. pc[w] # "idle" /\ "parsing" \in PCs \ {"idle"}
    BY <1>1 DEF StartParse, PCs
  <2>2. QED
    BY <1>0, <1>1, <2>1, LocalStep DEF StartParse
<1>2. CASE RefreshBeforeWrite(w)
  <2>1. pc[w] # "idle" /\ "writing" \in PCs \ {"idle"}
    BY <1>2 DEF RefreshBeforeWrite, PCs
  <2>2. QED
    BY <1>0, <1>2, <2>1, LocalStep DEF RefreshBeforeWrite
<1>3. CASE StartUnderstanding(w)
  <2>1. pc[w] # "idle" /\ "understanding" \in PCs \ {"idle"}
    BY <1>3 DEF StartUnderstanding, PCs
  <2>2. view' \in [Workers -> Copies \cup {None}] /\ view'[w] \in Copies
    BY <1>0, <1>3, <2>1 DEF StartUnderstanding
  <2>3. \A v \in Workers \ {w} : view'[v] = view[v]
    BY <1>0, <1>3 DEF StartUnderstanding
  <2>4. QED
    BY <1>0, <1>3, <2>1, <2>2, <2>3, LocalStep DEF StartUnderstanding
<1>4. CASE \E outcome \in {"completed", "failed"} : FlushUpsert(w, outcome)
  <2> PICK outcome \in {"completed", "failed"} : FlushUpsert(w, outcome)
    BY <1>4
  <2>1. pc[w] # "idle" /\ "committing" \in PCs \ {"idle"} /\ view'[w] \in Copies
    BY DEF FlushUpsert, PCs, WorkerShape
  <2>2. PICK b \in (SUBSET Docs) \cup {None} :
          wtx' = [wtx EXCEPT ![w] = [outcome |-> outcome, gate |-> None, board |-> b]]
    <3>1. BoardWith(cur[w], view[w].status, Understood(view[w].art, outcome)) \in SUBSET Docs
      BY DerivedTypes DEF BoardWith
    <3>2. QED
      BY <3>1, BoardWritesType DEF FlushUpsert
  <2>3. [outcome |-> outcome, gate |-> None, board |-> b] \in WorkerTxs
    BY DEF WorkerTxs
  <2>4. wtx' \in [Workers -> WorkerTxs \cup {None}] /\ wtx'[w] \in WorkerTxs
        /\ wtx'[w].outcome = outcome /\ \A v \in Workers \ {w} : wtx'[v] = wtx[v]
    BY <1>0, <2>2, <2>3
  <2>5. QED
    BY <1>0, <2>1, <2>4, LocalStep DEF FlushUpsert
<1>5. CASE StartMaterialRefresh(w)
  <2>1. pc[w] # "idle" /\ "notifying" \in PCs \ {"idle"}
    BY <1>5 DEF StartMaterialRefresh, PCs
  <2>2. PICK g \in Gates \cup {None} :
          wtx' = [wtx EXCEPT ![w] = [outcome |-> "none", board |-> None, gate |-> g]]
    BY <1>5, DerivedTypes, ChangedType DEF StartMaterialRefresh
  <2>3. [outcome |-> "none", board |-> None, gate |-> g] \in WorkerTxs
    BY DEF WorkerTxs
  <2>4. wtx' \in [Workers -> WorkerTxs \cup {None}] /\ wtx'[w] \in WorkerTxs
        /\ \A v \in Workers \ {w} : wtx'[v] = wtx[v]
    BY <1>0, <2>2, <2>3
  <2>5. QED
    BY <1>0, <1>5, <2>1, <2>4, LocalStep DEF StartMaterialRefresh
<1>6. CASE Raise(w)
  <2>1. pc[w] # "idle" /\ "raised" \in PCs \ {"idle"}
    BY <1>6 DEF Raise, PCs
  <2>2. /\ view' \in [Workers -> Copies \cup {None}] /\ wtx' \in [Workers -> WorkerTxs \cup {None}]
        /\ \A v \in Workers \ {w} : view'[v] = view[v] /\ wtx'[v] = wtx[v]
    BY <1>0, <1>6 DEF Raise
  <2>3. QED
    BY <1>6, <2>1, <2>2, LocalStep DEF Raise
<1>7. CASE LoadForFailure(w)
  <2>1. pc[w] # "idle" /\ "reporting" \in PCs \ {"idle"}
    BY <1>7 DEF LoadForFailure, PCs
  <2>2. view' \in [Workers -> Copies \cup {None}] /\ view'[w] \in Copies
        /\ \A v \in Workers \ {w} : view'[v] = view[v]
    BY <1>0, <1>7, <2>1 DEF LoadForFailure
  <2>3. QED
    BY <1>0, <1>7, <2>1, <2>2, LocalStep DEF LoadForFailure
<1>8. CASE FlushFailure(w)
  <2>1. pc[w] # "idle" /\ "failing" \in PCs \ {"idle"} /\ view'[w] \in Copies
    BY <1>8 DEF FlushFailure, PCs, WorkerShape
  <2>2. PICK b \in (SUBSET Docs) \cup {None} :
          wtx' = [wtx EXCEPT ![w] = [outcome |-> "failed", gate |-> None, board |-> b]]
    <3>1. BoardWith(cur[w], view[w].status, Understood(view[w].art, "failed")) \in SUBSET Docs
      BY DerivedTypes DEF BoardWith
    <3>2. QED
      BY <1>8, <3>1, BoardWritesType DEF FlushFailure
  <2>3. [outcome |-> "failed", gate |-> None, board |-> b] \in WorkerTxs
    BY DEF WorkerTxs
  <2>4. wtx' \in [Workers -> WorkerTxs \cup {None}] /\ wtx'[w] \in WorkerTxs
        /\ \A v \in Workers \ {w} : wtx'[v] = wtx[v]
    BY <1>0, <2>2, <2>3
  <2>5. QED
    BY <1>0, <1>8, <2>1, <2>4, LocalStep DEF FlushFailure
<1>9. QED
  BY <1>1, <1>2, <1>3, <1>4, <1>5, <1>6, <1>7, <1>8

-----------------------------------------------------------------------------
(* Steps that write the database.                                          *)

\* A worker that ends its run (or dies) gives up its document; the job it had
\* may be closed on the way but does not return to the queue.
LEMMA LeaveStep ==
    ASSUME IInv, NEW w \in Workers, GoIdle(w), TypeOK',
           UNCHANGED <<status, dtx>>,
           \A d \in Docs : job'[d] # job[d] => d = cur[w] /\ job'[d] \in Finished
    PROVE  IInv'
<1> USE DEF IInv
<1>1. cur' \in [Workers -> Docs \cup {None}] /\ cur'[w] = None
      /\ \A v \in Workers \ {w} : cur'[v] = cur[v]
  BY DEF GoIdle, TypeOK
<1>2. WorkerShape'
  BY <1>1 DEF GoIdle, TypeOK, WorkerShape, PCs
<1>3. \A d \in Docs : job'[d] = job[d] \/ job'[d] \notin {"none", "queued"}
  BY DEF Finished
<1>4. HeldLeftQueue' /\ ClaimExclusive'
  BY <1>1, <1>3 DEF HeldLeftQueue, ClaimExclusive, TypeOK
<1>5. \A d \in Docs : job'[d] # job[d] => job[d] # "none" /\ job'[d] # "none"
  BY NoneIsNone, <1>3 DEF HeldLeftQueue, Finished
<1>6. RowsTogether'
  BY <1>5 DEF RowsTogether
<1>7. QED
  BY <1>2, <1>4, <1>6

\* A removal that commits touches no worker and only cancels jobs.
LEMMA RemovalStepKeeps ==
    ASSUME IInv, TypeOK', UNCHANGED workerVars,
           \A d \in Docs : job'[d] # job[d] => job[d] # "none" /\ job'[d] = "cancelled",
           \A d \in Docs : status'[d] # status[d] =>
                              status[d] # "absent" /\ status'[d] = "tombstoned",
           \A d \in Docs : dtx'[d] # dtx[d] => dtx'[d] = None
    PROVE  IInv'
<1> USE DEF IInv
<1>1. WorkerShape' /\ ClaimExclusive'
  BY DEF WorkerShape, ClaimExclusive, workerVars
<1>2. HeldLeftQueue'
  BY DEF HeldLeftQueue, TypeOK, workerVars
<1>3. RowsTogether'
  BY DEF RowsTogether
<1>4. QED
  BY <1>1, <1>2, <1>3

\* An upload brings document and job into being together.
LEMMA UploadInv == ASSUME IInv, NEW d \in Docs, Upload(d) PROVE IInv'
<1> USE DEF IInv
<1>1. status' \in [Docs -> Statuses] /\ job' \in [Docs -> JobStatuses] /\ seqno' \in [Docs -> Nat]
  BY NextSeqno DEF Upload, TypeOK, Statuses, JobStatuses, Active
<1>2. TypeOK'
  BY <1>1, DerivedTypes DEF Upload, TypeOK, workerVars
<1>3. job[d] = "none" /\ \A w \in Workers : cur[w] # d
  BY NoneIsNone DEF Upload, RowsTogether, HeldLeftQueue
<1>4. WorkerShape' /\ ClaimExclusive'
  BY DEF Upload, WorkerShape, ClaimExclusive, workerVars
<1>5. HeldLeftQueue'
  BY <1>3 DEF Upload, HeldLeftQueue, TypeOK, workerVars
<1>6. RowsTogether'
  BY DEF Upload, RowsTogether, TypeOK
<1>7. QED
  BY <1>2, <1>4, <1>5, <1>6

\* The one step that gives a worker a document: it was in the queue, so nobody
\* had it.
LEMMA ClaimInv == ASSUME IInv, NEW w \in Workers, NEW d \in Docs, Claim(w, d) PROVE IInv'
<1> USE DEF IInv
<1> DEFINE skipped == {e \in Candidates : seqno[e] < seqno[d]}
<1>1. \A e \in Candidates : e \in Docs /\ job[e] = "queued"
  BY DEF Candidates
<1>2. job' = [e \in Docs |-> IF e = d THEN "processing"
                             ELSE IF e \in skipped THEN "cancelled" ELSE job[e]]
  BY DEF Claim
<1>3. job[d] = "queued" /\ \A e \in skipped : job[e] = "queued"
  BY <1>1 DEF Claim
<1> HIDE DEF skipped
<1>4. \A v \in Workers : cur[v] # d /\ cur[v] \notin skipped
  BY <1>3, NoneIsNone, <1>1 DEF HeldLeftQueue, skipped
<1>5. job' \in [Docs -> JobStatuses]
  BY <1>2 DEF TypeOK, JobStatuses, Active, Finished
<1>6. /\ pc' = [pc EXCEPT ![w] = "claimed"] /\ cur' = [cur EXCEPT ![w] = d]
      /\ UNCHANGED <<status, art, evidence, seqno, snap, field, gate, view, wtx, dtx,
                     crashes, removals, overlap>>
  BY DEF Claim, sessionVars
<1>7. TypeOK'
  BY <1>5, <1>6 DEF TypeOK, PCs
<1>8. WorkerShape'
  BY <1>6 DEF WorkerShape, TypeOK, PCs
<1>9. HeldLeftQueue'
  BY <1>2, <1>4, <1>6 DEF HeldLeftQueue, TypeOK
<1>10. ClaimExclusive'
  BY <1>4, <1>6 DEF ClaimExclusive, TypeOK
<1>11. RowsTogether'
  BY <1>2, <1>3, <1>6 DEF RowsTogether
<1>12. QED
  BY <1>7, <1>8, <1>9, <1>10, <1>11

\* process_document's write, between two looks at the tombstone.
LEMMA WriteParsedInv == ASSUME IInv, NEW w \in Workers, WriteParsed(w) PROVE IInv'
<1> USE DEF IInv
<1>1. cur[w] \in Docs /\ job[cur[w]] # "none"
  BY NoneIsNone DEF WriteParsed, WorkerShape, HeldLeftQueue
<1>2. PICK s \in {"parsed", "unsupported"} : status' = [status EXCEPT ![cur[w]] = s]
  BY DEF WriteParsed
<1>3. /\ status' \in [Docs -> Statuses]
      /\ art' \in [Docs -> Artifacts]
      /\ evidence' \in [Docs -> Values \cup {None}]
      /\ pc' \in [Workers -> PCs]
  BY <1>1, <1>2, FreshTypes DEF WriteParsed, TypeOK, Statuses, PCs
<1>4. TypeOK'
  BY <1>3 DEF WriteParsed, TypeOK, sessionVars
<1>5. WorkerShape' /\ HeldLeftQueue' /\ ClaimExclusive'
  BY DEF WriteParsed, WorkerShape, HeldLeftQueue, ClaimExclusive, TypeOK, PCs
<1>6. RowsTogether'
  BY <1>1, <1>2 DEF WriteParsed, RowsTogether, TypeOK
<1>7. QED
  BY <1>4, <1>5, <1>6

\* The projection's commit closes the job whatever it is by then.
LEMMA CommitUpsertInv == ASSUME IInv, NEW w \in Workers, CommitUpsert(w) PROVE IInv'
<1> USE DEF IInv
<1> DEFINE d == cur[w]
           o == wtx[w].outcome
<1>1. /\ d \in Docs /\ job[d] \notin {"none", "queued"}
      /\ view[w] \in Copies /\ wtx[w] \in WorkerTxs /\ o \in {"completed", "failed"}
  BY NoneIsNone DEF CommitUpsert, WorkerShape, HeldLeftQueue
<1>2. /\ art' = [art EXCEPT ![d] = Understood(view[w].art, o)]
      /\ job' = [job EXCEPT ![d] = o]
      /\ pc' = [pc EXCEPT ![w] = "committed"]
      /\ view' = [view EXCEPT ![w] = None]
      /\ wtx' = [wtx EXCEPT ![w] = None]
      /\ UNCHANGED <<status, evidence, seqno, cur, dtx, crashes, removals>>
  BY DEF CommitUpsert, ArtWith
<1>3. art' \in [Docs -> Artifacts] /\ job' \in [Docs -> JobStatuses]
  BY <1>1, <1>2, ArtifactTypes DEF TypeOK, Copies, JobStatuses, Finished
<1>4. snap' \in SUBSET Docs
  BY <1>1, WrittenType DEF CommitUpsert, TypeOK, WorkerTxs
<1>5. field' \in Fields /\ gate' \in Gates
  BY DerivedTypes DEF CommitUpsert
<1>6. overlap' \in BOOLEAN
  BY DEF CommitUpsert, NoteCommit
<1>7. TypeOK'
  BY <1>2, <1>3, <1>4, <1>5, <1>6 DEF TypeOK, PCs
<1>8. WorkerShape'
  BY <1>2 DEF CommitUpsert, WorkerShape, TypeOK, PCs
<1>9. HeldLeftQueue' /\ ClaimExclusive'
  BY <1>1, <1>2 DEF HeldLeftQueue, ClaimExclusive, TypeOK
<1>10. RowsTogether'
  BY <1>1, <1>2 DEF RowsTogether, TypeOK
<1>11. QED
  BY <1>7, <1>8, <1>9, <1>10

\* A worker that ends its run leaves its variables typed.
LEMMA GoIdleTypes ==
    ASSUME TypeOK, NEW w \in Workers, GoIdle(w)
    PROVE  /\ pc' \in [Workers -> PCs]
           /\ cur' \in [Workers -> Docs \cup {None}]
           /\ view' \in [Workers -> [status : Statuses, art : Artifacts] \cup {None}]
           /\ wtx' \in [Workers -> WorkerTxs \cup {None}]
  BY DEF GoIdle, TypeOK, PCs

\* The ways a worker ends run_once, or dies.
LEMMA LeaveSteps ==
    ASSUME IInv, NEW w \in Workers,
           SeesTombstone(w) \/ FinishMaterialRefresh(w) \/ SkipMaterialRefresh(w)
             \/ CommitFailure(w) \/ Crash(w)
    PROVE  IInv'
<1> USE DEF IInv
<1>1. CASE SeesTombstone(w)
  <2>1. /\ GoIdle(w)
        /\ job' = [job EXCEPT ![cur[w]] = IF @ \in Finished THEN @ ELSE "cancelled"]
        /\ UNCHANGED <<status, art, evidence, seqno, snap, field, gate, dtx, crashes, removals, overlap>>
    BY <1>1 DEF SeesTombstone, CancelOwnJob, sessionVars
  <2>2. job' \in [Docs -> JobStatuses]
    BY <2>1 DEF TypeOK, JobStatuses, Finished
  <2>3. TypeOK'
    BY <2>1, <2>2, GoIdleTypes DEF TypeOK
  <2>4. \A d \in Docs : job'[d] # job[d] => d = cur[w] /\ job'[d] \in Finished
    BY <2>1 DEF TypeOK, Finished
  <2>5. QED
    BY <2>1, <2>3, <2>4, LeaveStep
<1>2. CASE FinishMaterialRefresh(w)
  <2>1. /\ GoIdle(w)
        /\ gate' = Written(wtx[w].gate, gate)
        /\ UNCHANGED <<status, art, evidence, job, seqno, snap, field, dtx, crashes, removals, overlap>>
    BY <1>2 DEF FinishMaterialRefresh, docVars
  <2>2. gate' \in Gates
    <3>1. wtx[w] \in WorkerTxs
      BY <1>2 DEF FinishMaterialRefresh, WorkerShape
    <3>2. wtx[w].gate \in Gates \cup {None} /\ gate \in Gates
      BY <3>1 DEF WorkerTxs, TypeOK
    <3>3. QED
      BY <2>1, <3>2 DEF Written
  <2>3. TypeOK'
    BY <2>1, <2>2, GoIdleTypes DEF TypeOK
  <2>4. QED
    BY <2>1, <2>3, LeaveStep
<1>3. CASE SkipMaterialRefresh(w)
  <2>1. /\ GoIdle(w)
        /\ UNCHANGED <<status, art, evidence, job, seqno, snap, field, gate, dtx, crashes, removals, overlap>>
    BY <1>3 DEF SkipMaterialRefresh, docVars, sessionVars
  <2>2. TypeOK'
    BY <2>1, GoIdleTypes DEF TypeOK
  <2>3. QED
    BY <2>1, <2>2, LeaveStep
<1>4. CASE CommitFailure(w)
  <2>1. cur[w] \in Docs /\ view[w] \in Copies /\ wtx[w] \in WorkerTxs
    BY <1>4 DEF CommitFailure, WorkerShape
  <2>2. /\ GoIdle(w)
        /\ art' = [art EXCEPT ![cur[w]] = Understood(view[w].art, "failed")]
        /\ job' = [job EXCEPT ![cur[w]] = "failed"]
        /\ UNCHANGED <<status, evidence, seqno, field, gate, dtx, crashes, removals>>
    BY <1>4 DEF CommitFailure, ArtWith
  <2>3. art' \in [Docs -> Artifacts] /\ job' \in [Docs -> JobStatuses]
    BY <2>1, <2>2, ArtifactTypes DEF TypeOK, Copies, JobStatuses, Finished
  <2>4. snap' \in SUBSET Docs
    BY <1>4, <2>1, WrittenType DEF CommitFailure, TypeOK, WorkerTxs
  <2>5. overlap' \in BOOLEAN
    BY <1>4 DEF CommitFailure, NoteCommit
  <2>6. TypeOK'
    BY <2>2, <2>3, <2>4, <2>5, GoIdleTypes DEF TypeOK
  <2>7. \A d \in Docs : job'[d] # job[d] => d = cur[w] /\ job'[d] \in Finished
    BY <2>2 DEF TypeOK, Finished
  <2>8. QED
    BY <2>2, <2>6, <2>7, LeaveStep
<1>5. CASE Crash(w)
  <2>1. /\ GoIdle(w)
        /\ UNCHANGED <<status, art, evidence, job, seqno, snap, field, gate, dtx, removals, overlap>>
    BY <1>5 DEF Crash, docVars, sessionVars
  <2>2. crashes' \in 0 .. MaxCrashes
    BY <1>5, BoundsNat DEF Crash, TypeOK
  <2>3. TypeOK'
    BY <2>1, <2>2, GoIdleTypes DEF TypeOK
  <2>4. QED
    BY <2>1, <2>3, LeaveStep
<1>6. QED
  BY <1>1, <1>2, <1>3, <1>4, <1>5

\* An opened removal: the document exists, and only its tombstone is pending.
LEMMA BeginRemovalInv ==
    ASSUME IInv, NEW d \in Docs, NEW kind \in {"delete", "rollback"}, BeginRemoval(d, kind)
    PROVE  IInv'
<1> USE DEF IInv
<1> DEFINE tx == [kind |-> kind, flushed |-> FALSE, board |-> None,
                  status |-> Changed(status[d], "tombstoned"),
                  art |-> Changed(art[d], Removed(art[d])),
                  cancels |-> kind = "delete" /\ job[d] \in Active]
<1>1. /\ dtx' = [dtx EXCEPT ![d] = tx] /\ removals' = removals + 1 /\ removals < MaxRemovals
      /\ status[d] # "absent"
      /\ UNCHANGED <<status, art, evidence, job, seqno, snap, field, gate, pc, cur, view, wtx,
                     crashes, overlap>>
  BY DEF BeginRemoval, docVars, sessionVars, workerVars
<1>2. tx \in RemovalTxs /\ tx.status \in {None, "tombstoned"}
  <2>1. Changed(art[d], Removed(art[d])) \in Artifacts \cup {None}
    BY ArtifactTypes DEF TypeOK, Changed
  <2>2. Changed(status[d], "tombstoned") \in {None, "tombstoned"}
    BY DEF Changed
  <2>3. Changed(status[d], "tombstoned") \in Statuses \cup {None}
    BY <2>2 DEF Statuses
  <2>4. QED
    BY <2>1, <2>2, <2>3 DEF RemovalTxs
<1> HIDE DEF tx
<1>3. dtx' \in [Docs -> RemovalTxs \cup {None}] /\ removals' \in 0 .. MaxRemovals
  BY <1>1, <1>2, BoundsNat DEF TypeOK
<1>4. TypeOK'
  BY <1>1, <1>3 DEF TypeOK
<1>5. WorkerShape' /\ HeldLeftQueue' /\ ClaimExclusive'
  BY <1>1 DEF WorkerShape, HeldLeftQueue, ClaimExclusive
<1>6. RowsTogether'
  BY <1>1, <1>2 DEF RowsTogether, TypeOK
<1>7. QED
  BY <1>4, <1>5, <1>6

\* The rows a removal writes, whichever of the two kinds it is.
LEMMA RemovalRows ==
    ASSUME IInv, NEW d \in Docs, dtx[d] # None
    PROVE  /\ dtx[d] \in RemovalTxs
           /\ StatusRemoved(d) \in [Docs -> Statuses]
           /\ ArtRemoved(d) \in [Docs -> Artifacts]
           /\ \A e \in Docs : StatusRemoved(d)[e] # status[e] =>
                 status[e] # "absent" /\ StatusRemoved(d)[e] = "tombstoned"
<1> USE DEF IInv
<1>1. dtx[d] \in RemovalTxs /\ status[d] # "absent" /\ dtx[d].status \in {None, "tombstoned"}
  BY DEF TypeOK, RowsTogether
<1>2. Written(dtx[d].status, status[d]) \in Statuses /\ Written(dtx[d].art, art[d]) \in Artifacts
  BY <1>1 DEF TypeOK, RemovalTxs, Written
<1>3. StatusRemoved(d) \in [Docs -> Statuses] /\ ArtRemoved(d) \in [Docs -> Artifacts]
  BY <1>2 DEF StatusRemoved, StatusWith, ArtRemoved, ArtWith, TypeOK
<1>4. Written(dtx[d].status, status[d]) \in {"tombstoned", status[d]}
  BY <1>1 DEF Written
<1>5. \A e \in Docs : StatusRemoved(d)[e] # status[e] =>
          status[e] # "absent" /\ StatusRemoved(d)[e] = "tombstoned"
  BY <1>1, <1>4 DEF StatusRemoved, StatusWith, TypeOK
<1>6. QED
  BY <1>1, <1>3, <1>5

\* A removal that takes its locks.
LEMMA FlushRemovalInv ==
    ASSUME IInv, NEW d \in Docs, FlushDelete(d) \/ FlushRollback(d) \/ AbortRemoval(d)
    PROVE  IInv'
<1> USE DEF IInv
<1>0. dtx[d] # None /\ dtx[d] \in RemovalTxs
  BY DEF FlushDelete, FlushRollback, AbortRemoval, TypeOK
<1>1. PICK b \in (SUBSET Docs) \cup {None} :
        /\ \/ dtx' = [dtx EXCEPT ![d] = [dtx[d] EXCEPT !.flushed = TRUE]]
           \/ dtx' = [dtx EXCEPT ![d] = [dtx[d] EXCEPT !.flushed = TRUE, !.board = b]]
           \/ dtx' = [dtx EXCEPT ![d] = None]
        /\ UNCHANGED <<status, art, evidence, job, seqno, snap, field, gate, pc, cur, view, wtx,
                       crashes, removals, overlap>>
  <2>1. BoardWith(d, "tombstoned", art[d]) \in SUBSET Docs
    BY DerivedTypes DEF BoardWith
  <2>2. BoardWrites(BoardWith(d, "tombstoned", art[d])) \subseteq (SUBSET Docs) \cup {None}
    BY <2>1, BoardWritesType
  <2>3. CASE FlushRollback(d)
    <3>1. PICK b \in BoardWrites(BoardWith(d, "tombstoned", art[d])) :
            dtx' = [dtx EXCEPT ![d] = [dtx[d] EXCEPT !.flushed = TRUE, !.board = b]]
      BY <2>3 DEF FlushRollback
    <3>2. b \in (SUBSET Docs) \cup {None}
      BY <2>2, <3>1
    <3>3. QED
      BY <2>3, <3>1, <3>2, Zenon DEF FlushRollback, docVars, sessionVars, workerVars
  <2>4. CASE FlushDelete(d) \/ AbortRemoval(d)
    BY <2>4 DEF FlushDelete, AbortRemoval, docVars, sessionVars, workerVars
  <2>5. QED
    BY <2>3, <2>4
<1> DEFINE t1 == [dtx[d] EXCEPT !.flushed = TRUE]
           t2 == [dtx[d] EXCEPT !.flushed = TRUE, !.board = b]
<1>2. /\ t1 \in RemovalTxs /\ t1.status = dtx[d].status
      /\ t2 \in RemovalTxs /\ t2.status = dtx[d].status
  BY <1>0 DEF RemovalTxs
<1> HIDE DEF t1, t2
<1>3. PICK t \in {t1, t2, None} : dtx' = [dtx EXCEPT ![d] = t]
  BY <1>1 DEF t1, t2
<1>4. dtx' \in [Docs -> RemovalTxs \cup {None}]
  BY <1>2, <1>3 DEF TypeOK
<1>5. \A e \in Docs : dtx'[e] # None =>
          dtx[e] # None /\ dtx'[e].status = dtx[e].status
  BY <1>0, <1>2, <1>3 DEF TypeOK
<1>6. TypeOK' /\ WorkerShape' /\ HeldLeftQueue' /\ ClaimExclusive'
  BY <1>1, <1>4 DEF TypeOK, WorkerShape, HeldLeftQueue, ClaimExclusive
<1>7. RowsTogether'
  BY <1>1, <1>5 DEF RowsTogether
<1>8. QED
  BY <1>6, <1>7

\* A removal that commits or is rolled back.
LEMMA CommitRemovalInv ==
    ASSUME IInv, NEW d \in Docs, CommitDelete(d) \/ CommitRollback(d)
    PROVE  IInv'
<1> USE DEF IInv
<1>1. /\ dtx[d] # None
      /\ status' = StatusRemoved(d) /\ art' = ArtRemoved(d)
      /\ dtx' = [dtx EXCEPT ![d] = None]
      /\ UNCHANGED <<evidence, seqno, pc, cur, view, wtx, crashes, removals>>
  BY DEF CommitDelete, CommitRollback, workerVars
<1>2. dtx[d] \in RemovalTxs /\ job[d] # "none"
  BY <1>1, RemovalRows DEF RowsTogether
<1>3. overlap' \in BOOLEAN
  BY DEF CommitDelete, CommitRollback, NoteCommit
<1>4. PICK s \in {job[d], "cancelled"} : job' = [job EXCEPT ![d] = s]
  BY DEF CommitDelete, CommitRollback, TypeOK
<1>5. job' \in [Docs -> JobStatuses]
  BY <1>4 DEF TypeOK, JobStatuses, Finished
<1>6. snap' \in SUBSET Docs /\ field' \in Fields /\ gate' \in Gates
  <2>1. CASE CommitDelete(d)
    BY <2>1, DerivedTypes DEF CommitDelete
  <2>2. CASE CommitRollback(d)
    BY <1>2, <2>2 DEF CommitRollback, Written, TypeOK, RemovalTxs
  <2>3. QED
    BY <2>1, <2>2
<1>7. TypeOK'
  BY <1>1, <1>3, <1>5, <1>6, RemovalRows DEF TypeOK
<1>8. \A e \in Docs : job'[e] # job[e] => job[e] # "none" /\ job'[e] = "cancelled"
  BY <1>2, <1>4 DEF TypeOK
<1>9. \A e \in Docs : dtx'[e] # dtx[e] => dtx'[e] = None
  BY <1>1 DEF TypeOK
<1>10. QED
  BY <1>1, <1>7, <1>8, <1>9, RemovalRows, RemovalStepKeeps DEF workerVars

\* The gate refresh of a user turn writes nothing but the gate.
LEMMA TurnRefreshInv == ASSUME IInv, TurnRefreshesGate PROVE IInv'
  BY DerivedTypes DEF IInv, TurnRefreshesGate, TypeOK, WorkerShape, RowsTogether, HeldLeftQueue,
     ClaimExclusive, docVars, workerVars

-----------------------------------------------------------------------------
\* Every step, and a stuttering one, keeps the invariant.
LEMMA NextInv == IInv /\ [Next]_vars => IInv'
<1> SUFFICES ASSUME IInv, [Next]_vars PROVE IInv'
  OBVIOUS
<1>1. CASE UNCHANGED vars
  BY <1>1 DEF IInv, TypeOK, WorkerShape, RowsTogether, HeldLeftQueue, ClaimExclusive,
     vars, docVars, sessionVars, workerVars
<1>2. ASSUME NEW w \in Workers, WorkerStep(w) PROVE IInv'
  BY <1>2, ClaimInv, WriteParsedInv, CommitUpsertInv, LeaveSteps, LocalSteps DEF WorkerStep
<1>3. ASSUME NEW w \in Workers, Crash(w) PROVE IInv'
  BY <1>3, LeaveSteps
<1>4. ASSUME NEW d \in Docs, Upload(d) PROVE IInv'
  BY <1>4, UploadInv
<1>5. ASSUME NEW d \in Docs, RemovalStep(d) PROVE IInv'
  BY <1>5, FlushRemovalInv, CommitRemovalInv DEF RemovalStep
<1>6. ASSUME NEW d \in Docs, NEW kind \in {"delete", "rollback"}, BeginRemoval(d, kind)
      PROVE  IInv'
  BY <1>6, BeginRemovalInv
<1>7. QED
  BY <1>1, <1>2, <1>3, <1>4, <1>5, <1>6, TurnRefreshInv DEF Next

\* Workers, documents and jobs stay together as run_once and the endpoints assume.
THEOREM Invariant == Spec => []IInv
<1>1. Init => IInv
  BY InitInv
<1>2. IInv /\ [Next]_vars => IInv'
  BY NextInv
<1>3. QED
  BY <1>1, <1>2, PTL DEF Spec

\* The rows and every worker's copies of them stay within their types: what a
\* stale commit writes back is always a legal row.
THEOREM TypeCorrect == Spec => []TypeOK
<1>1. IInv => TypeOK
  BY DEF IInv
<1>2. QED
  BY <1>1, Invariant, PTL

\* However many workers run and die, and whatever removals do to the jobs, no
\* job is worked on by two of them: run_once's claim is exclusive.
THEOREM ClaimIsExclusive == Spec => []ClaimExclusive
<1>1. IInv => ClaimExclusive
  BY DEF IInv
<1>2. QED
  BY <1>1, Invariant, PTL

-----------------------------------------------------------------------------
(* How jobs and assignments change, step by step.                          *)

\* A worker that has a document changes no job but its own, and only to close
\* it; it keeps the document or gives it up.
LEMMA WorkerJobs ==
    ASSUME IInv, NEW w \in Workers, WorkerStep(w) \/ Crash(w),
           \A d \in Docs : ~Claim(w, d)
    PROVE  /\ \A d \in Docs : job'[d] # job[d] => d = cur[w] /\ job'[d] \in Finished
           /\ cur' = cur \/ (cur[w] \in Docs /\ cur' = [cur EXCEPT ![w] = None])
<1> USE DEF IInv
<1>2. CASE SeesTombstone(w) \/ CommitFailure(w) \/ FinishMaterialRefresh(w)
           \/ SkipMaterialRefresh(w) \/ Crash(w)
  <2>1. cur[w] \in Docs
    BY <1>2 DEF SeesTombstone, CommitFailure, FinishMaterialRefresh, SkipMaterialRefresh,
                Crash, WorkerShape
  <2>2. cur' = [cur EXCEPT ![w] = None]
    BY <1>2 DEF SeesTombstone, CancelOwnJob, CommitFailure, FinishMaterialRefresh,
                SkipMaterialRefresh, Crash, GoIdle
  <2>3. \A d \in Docs : job'[d] # job[d] => d = cur[w] /\ job'[d] \in Finished
    BY <1>2 DEF SeesTombstone, CancelOwnJob, CommitFailure, FinishMaterialRefresh,
                SkipMaterialRefresh, Crash, docVars, TypeOK, Finished
  <2>4. QED
    BY <2>1, <2>2, <2>3
<1>3. CASE CommitUpsert(w)
  <2>1. wtx[w].outcome \in Finished /\ cur' = cur /\ job' = [job EXCEPT ![cur[w]] = wtx[w].outcome]
    BY <1>3 DEF CommitUpsert, WorkerShape, Finished
  <2>2. QED
    BY <2>1 DEF TypeOK
<1>4. CASE StartParse(w) \/ RefreshBeforeWrite(w) \/ WriteParsed(w) \/ StartUnderstanding(w)
           \/ (\E outcome \in {"completed", "failed"} : FlushUpsert(w, outcome))
           \/ StartMaterialRefresh(w) \/ Raise(w) \/ LoadForFailure(w) \/ FlushFailure(w)
  <2>1. UNCHANGED <<job, cur>>
    BY <1>4 DEF StartParse, RefreshBeforeWrite, WriteParsed, StartUnderstanding, FlushUpsert,
                StartMaterialRefresh, Raise, LoadForFailure, FlushFailure, docVars
  <2>2. QED
    BY <2>1
<1>5. QED
  BY <1>2, <1>3, <1>4 DEF WorkerStep

\* A removal changes no assignment and at most cancels the job of its document.
LEMMA RemovalJobs ==
    ASSUME IInv, NEW d \in Docs, RemovalStep(d)
    PROVE  /\ cur' = cur
           /\ \A e \in Docs : job'[e] # job[e] =>
                 e = d /\ job[d] # "none" /\ job'[d] = "cancelled"
<1> USE DEF IInv
<1>1. cur' = cur
  BY DEF RemovalStep, FlushDelete, CommitDelete, FlushRollback, CommitRollback, AbortRemoval,
         workerVars
<1>2. CASE UNCHANGED job
  BY <1>1, <1>2
<1>3. CASE CommitDelete(d)
  <2>1. job[d] # "none"
    BY <1>3 DEF CommitDelete, RowsTogether
  <2>2. QED
    BY <1>1, <1>3, <2>1 DEF CommitDelete, TypeOK
<1>4. QED
  BY <1>2, <1>3 DEF RemovalStep, FlushDelete, FlushRollback, CommitRollback, AbortRemoval, docVars

\* A claim takes a queued job and closes queued jobs.
LEMMA ClaimJobs ==
    ASSUME IInv, NEW w \in Workers, NEW d \in Docs, Claim(w, d)
    PROVE  \E js \in SUBSET Docs :
              /\ d \notin js /\ \A i \in js \cup {d} : job[i] = "queued"
              /\ job' = [i \in Docs |-> IF i = d THEN "processing"
                                        ELSE IF i \in js THEN "cancelled" ELSE job[i]]
              /\ cur[w] = None /\ cur' = [cur EXCEPT ![w] = d]
<1> USE DEF IInv
<1> DEFINE js == {e \in Candidates : seqno[e] < seqno[d]}
<1>1. Candidates \subseteq Docs /\ \A e \in Candidates : job[e] = "queued"
  BY DEF Candidates
<1>2. d \notin js /\ js \in SUBSET Docs
  <2>1. seqno[d] \in Nat
    BY DEF TypeOK
  <2>2. QED
    BY <1>1, <2>1
<1>3. \A i \in js \cup {d} : job[i] = "queued"
  BY <1>1 DEF Claim
<1>4. cur[w] = None
  BY DEF Claim, WorkerShape
<1>5. /\ job' = [i \in Docs |-> IF i = d THEN "processing"
                                ELSE IF i \in js THEN "cancelled" ELSE job[i]]
      /\ cur' = [cur EXCEPT ![w] = d]
  BY DEF Claim
<1>6. QED
  BY <1>2, <1>3, <1>4, <1>5

\* A finished job is never reopened and a claimed one never goes back to the
\* queue, although a late commit and a delete both overwrite the job's status
\* without looking at it.
THEOREM JobsGoForward == Spec => JobForward
<1> DEFINE Forward == \A d \in Docs : /\ job[d] \in Finished => job'[d] \in Finished
                                      /\ job[d] = "processing" => job'[d] # "queued"
<1>1. IInv /\ [Next]_vars => [Forward]_vars
  <2> SUFFICES ASSUME IInv, Next PROVE Forward
    OBVIOUS
  <2>1. ASSUME NEW w \in Workers, NEW d \in Docs, Claim(w, d) PROVE Forward
    BY <2>1, ClaimJobs DEF Finished
  <2>2. ASSUME NEW w \in Workers, WorkerStep(w) \/ Crash(w), \A d \in Docs : ~Claim(w, d)
        PROVE  Forward
    BY <2>2, WorkerJobs DEF Finished
  <2>3. ASSUME NEW d \in Docs, RemovalStep(d) PROVE Forward
    BY <2>3, RemovalJobs DEF Finished
  <2>4. ASSUME NEW d \in Docs, Upload(d) PROVE Forward
    BY <2>4 DEF Upload, IInv, TypeOK, RowsTogether, Finished
  <2>5. CASE UNCHANGED job
    BY <2>5
  <2>6. QED
    BY <2>1, <2>2, <2>3, <2>4, <2>5 DEF Next, BeginRemoval, TurnRefreshesGate, docVars
<1>2. QED
  BY <1>1, Invariant, PTL DEF Spec, JobForward

-----------------------------------------------------------------------------
(* The pipeline implements the abstract queue.                             *)

\* An assignment that does not change and jobs that change only while held or
\* when they have left the queue are not seen through the mapping.
LEMMA QueueStutters ==
    ASSUME UNCHANGED cur,
           \A d \in Docs : job'[d] # job[d] =>
              \/ (\E w \in Workers : cur[w] = d) /\ job[d] # "none" /\ job'[d] # "none"
              \/ job[d] \notin {"none", "queued"} /\ job'[d] \notin {"none", "queued"}
    PROVE  UNCHANGED <<QueuePhase, QueueHolder>>
  BY DEF QueuePhase, QueueHolder

\* An empty session is an empty queue.
LEMMA QueueInit == Init => Queue!Init
  BY NoneIsNone DEF Init, Queue!Init, QueuePhase, QueueHolder

\* A job with a holder has left the queue, and nobody shares it.
LEMMA HeldPhase ==
    ASSUME IInv, NEW w \in Workers, cur[w] \in Docs
    PROVE  /\ QueuePhase[cur[w]] = "held"
           /\ QueueHolder[cur[w]] = {w}
           /\ job[cur[w]] \notin {"none", "queued"}
<1>1. cur[w] # None
  BY NoneIsNone
<1>2. \A v \in Workers : cur[v] = cur[w] => v = w
  BY <1>1 DEF IInv, ClaimExclusive
<1>3. QED
  BY <1>1, <1>2 DEF IInv, HeldLeftQueue, QueuePhase, QueueHolder

\* A claim is a Take.
LEMMA ClaimTakes ==
    ASSUME IInv, NEW w \in Workers, NEW d \in Docs, Claim(w, d)
    PROVE  Queue!Next
<1>1. PICK js \in SUBSET Docs :
         /\ d \notin js /\ \A i \in js \cup {d} : job[i] = "queued"
         /\ job' = [i \in Docs |-> IF i = d THEN "processing"
                                   ELSE IF i \in js THEN "cancelled" ELSE job[i]]
         /\ cur[w] = None /\ cur' = [cur EXCEPT ![w] = d]
  BY ClaimJobs
<1>2. \A i \in js \cup {d} : i \in Docs /\ \A v \in Workers : cur[v] # i
  BY <1>1, NoneIsNone DEF IInv, HeldLeftQueue
<1>3. \A i \in js \cup {d} : QueuePhase[i] = "waiting"
  BY <1>1, <1>2 DEF QueuePhase
<1>4. \A v \in Workers, i \in Docs : cur'[v] = i <=> IF i = d THEN v = w ELSE cur[v] = i
  BY <1>1, <1>2, NoneIsNone DEF IInv, TypeOK
<1>5. QueuePhase' = [i \in Docs |-> IF i = d THEN "held"
                                    ELSE IF i \in js THEN "settled" ELSE QueuePhase[i]]
  <2>1. \A i \in Docs : QueuePhase'[i] = IF i = d THEN "held"
                                    ELSE IF i \in js THEN "settled" ELSE QueuePhase[i]
    BY <1>1, <1>2, <1>4 DEF QueuePhase
  <2>2. QED
    BY <2>1 DEF QueuePhase
<1>6. QueueHolder' = [QueueHolder EXCEPT ![d] = {w}]
  <2>1. \A i \in Docs : QueueHolder'[i] = IF i = d THEN {w} ELSE QueueHolder[i]
    BY <1>4 DEF QueueHolder
  <2>2. QED
    BY <2>1 DEF QueueHolder
<1>7. Queue!Take(w, d, js)
  BY <1>1, <1>3, <1>5, <1>6 DEF Queue!Take
<1>8. QED
  BY <1>1, <1>7 DEF Queue!Next

\* A worker that has a document releases it or is not seen.
LEMMA WorkerReleases ==
    ASSUME IInv, NEW w \in Workers, WorkerStep(w) \/ Crash(w), \A d \in Docs : ~Claim(w, d)
    PROVE  Queue!Next \/ UNCHANGED <<QueuePhase, QueueHolder>>
<1> DEFINE d == cur[w]
<1>1. /\ \A e \in Docs : job'[e] # job[e] => e = d /\ job'[e] \in Finished
      /\ cur' = cur \/ (d \in Docs /\ cur' = [cur EXCEPT ![w] = None])
  BY WorkerJobs
<1>2. \A e \in Docs : job'[e] # job[e] =>
          e = d /\ job[e] \notin {"none", "queued"} /\ job'[e] \notin {"none", "queued"}
  BY <1>1, HeldPhase DEF Finished
<1>3. CASE cur' = cur
  BY <1>2, <1>3, QueueStutters
<1>4. CASE d \in Docs /\ cur' = [cur EXCEPT ![w] = None]
  <2>1. QueuePhase[d] = "held" /\ QueueHolder[d] = {w} /\ job[d] \notin {"none", "queued"}
    BY <1>4, HeldPhase
  <2>2. \A v \in Workers, i \in Docs : cur'[v] = i <=> cur[v] = i /\ i # d
    <3>1. \A v \in Workers : cur[v] = d => v = w
      BY <1>4, NoneIsNone DEF IInv, ClaimExclusive
    <3>2. QED
      BY <1>4, <3>1, NoneIsNone DEF IInv, TypeOK
  <2>3. job'[d] \notin {"none", "queued"} /\ \A i \in Docs \ {d} : job'[i] = job[i]
    BY <1>2, <1>4, <2>1
  <2>4. QueuePhase' = [QueuePhase EXCEPT ![d] = "settled"]
    <3>1. \A i \in Docs : QueuePhase'[i] = IF i = d THEN "settled" ELSE QueuePhase[i]
      BY <2>2, <2>3 DEF QueuePhase
    <3>2. QED
      BY <3>1 DEF QueuePhase
  <2>5. QueueHolder' = [QueueHolder EXCEPT ![d] = {}]
    <3>1. \A i \in Docs : QueueHolder'[i] = IF i = d THEN {} ELSE QueueHolder[i]
      BY <2>2 DEF QueueHolder
    <3>2. QED
      BY <3>1 DEF QueueHolder
  <2>6. Queue!Release(d)
    BY <2>1, <2>4, <2>5 DEF Queue!Release
  <2>7. QED
    BY <1>4, <2>6 DEF Queue!Next
<1>5. QED
  BY <1>1, <1>3, <1>4

\* A removal withdraws a waiting job or is not seen.
LEMMA RemovalWithdraws ==
    ASSUME IInv, NEW d \in Docs, RemovalStep(d)
    PROVE  Queue!Next \/ UNCHANGED <<QueuePhase, QueueHolder>>
<1>1. /\ cur' = cur
      /\ \A e \in Docs : job'[e] # job[e] => e = d /\ job[d] # "none" /\ job'[d] = "cancelled"
  BY RemovalJobs
<1>2. CASE QueuePhase[d] = "waiting" /\ job'[d] # job[d]
  <2>1. job[d] = "queued" /\ \A w \in Workers : cur[w] # d
    BY <1>2 DEF QueuePhase
  <2>2. \A i \in Docs : QueuePhase'[i] = IF i \in {d} THEN "settled" ELSE QueuePhase[i]
    BY <1>1, <1>2, <2>1 DEF QueuePhase
  <2>3. QueuePhase' = [i \in Docs |-> IF i \in {d} THEN "settled" ELSE QueuePhase[i]]
    BY <2>2 DEF QueuePhase
  <2>4. UNCHANGED QueueHolder
    BY <1>1 DEF QueueHolder
  <2>5. Queue!Withdraw({d})
    BY <1>2, <2>3, <2>4 DEF Queue!Withdraw
  <2>6. QED
    BY <2>5 DEF Queue!Next
<1>3. CASE QueuePhase[d] # "waiting" \/ job'[d] = job[d]
  <2>1. job[d] # "none" /\ QueuePhase[d] # "waiting" =>
           (\E w \in Workers : cur[w] = d) \/ job[d] \notin {"none", "queued"}
    BY DEF QueuePhase
  <2>2. QED
    BY <1>1, <1>3, <2>1, QueueStutters
<1>4. QED
  BY <1>2, <1>3

\* An upload submits a job.
LEMMA UploadSubmits ==
    ASSUME IInv, NEW d \in Docs, Upload(d)
    PROVE  Queue!Next
<1>1. job[d] = "none" /\ job' = [job EXCEPT ![d] = "queued"] /\ cur' = cur
  BY DEF Upload, IInv, RowsTogether, workerVars
<1>2. \A w \in Workers : cur[w] # d
  BY <1>1, NoneIsNone DEF IInv, HeldLeftQueue
<1>3. \A i \in Docs : QueuePhase'[i] = IF i = d THEN "waiting" ELSE QueuePhase[i]
  BY <1>1, <1>2 DEF QueuePhase, IInv, TypeOK
<1>4. QueuePhase' = [QueuePhase EXCEPT ![d] = "waiting"] /\ QueuePhase[d] = "none"
  <2>1. /\ QueuePhase = [i \in Docs |-> QueuePhase[i]]
        /\ QueuePhase' = [i \in Docs |-> QueuePhase'[i]]
    BY DEF QueuePhase
  <2>2. QueuePhase[d] = "none"
    BY <1>1 DEF QueuePhase
  <2>3. QED
    BY <1>3, <2>1, <2>2
<1>5. UNCHANGED QueueHolder
  BY <1>1 DEF QueueHolder
<1>6. Queue!Submit(d)
  BY <1>4, <1>5 DEF Queue!Submit
<1>7. QED
  BY <1>6 DEF Queue!Next

\* The pipeline's job rows, claims and cancellations implement a queue that
\* hands each job to at most one worker, at most once.
THEOREM PipelineImplementsQueue == Spec => AtMostOnceQueue
<1>1. Init => Queue!Init
  BY QueueInit
<1>2. IInv /\ [Next]_vars => [Queue!Next]_<<QueuePhase, QueueHolder>>
  <2> SUFFICES ASSUME IInv, [Next]_vars
               PROVE  Queue!Next \/ UNCHANGED <<QueuePhase, QueueHolder>>
    OBVIOUS
  <2>1. ASSUME NEW w \in Workers, WorkerStep(w) \/ Crash(w)
        PROVE  Queue!Next \/ UNCHANGED <<QueuePhase, QueueHolder>>
    BY <2>1, ClaimTakes, WorkerReleases
  <2>2. ASSUME NEW d \in Docs, Upload(d) \/ RemovalStep(d)
        PROVE  Queue!Next \/ UNCHANGED <<QueuePhase, QueueHolder>>
    BY <2>2, UploadSubmits, RemovalWithdraws
  <2>3. CASE UNCHANGED <<job, cur>>
    BY <2>3, QueueStutters
  <2>4. QED
    BY <2>1, <2>2, <2>3 DEF Next, BeginRemoval, TurnRefreshesGate, vars, docVars, workerVars
<1>3. QED
  BY <1>1, <1>2, Invariant, PTL DEF Spec, AtMostOnceQueue, Queue!Spec, Queue!vars

-----------------------------------------------------------------------------
(* The two marks of a removed document.                                    *)

\* The document's parsed row may still be written over whatever is there.
BeforeWrite(d) ==
    \/ job[d] = "queued"
    \/ \E w \in Workers : cur[w] = d /\ pc[w] \in {"claimed", "parsing", "writing"}

Reads(w) == pc[w] \in {"understanding", "committing", "reporting", "failing"}

\* The mark in the artifact never stands alone, the mark in the status stands
\* alone only after the last parse write; an open removal sets both, or finds
\* the status already marked for good.
Marks(d) ==
    /\ art[d].tomb => status[d] = "tombstoned"
    /\ BeforeWrite(d) /\ status[d] = "tombstoned" => art[d].tomb
    /\ dtx[d] # None =>
         /\ dtx[d].art # None => dtx[d].art.tomb
         /\ dtx[d].status # None => dtx[d].art # None
         /\ dtx[d].status = None /\ dtx[d].art # None =>
               ~BeforeWrite(d) /\ status[d] = "tombstoned"

\* A worker only writes back a copy it found live.
LiveCopies == \A w \in Workers : Reads(w) => ~view[w].art.tomb

\* A worker that can still write the artifact has an unfinished or cancelled
\* job: it has not recorded an outcome yet.
StillOpen(w) == pc[w] \notin {"idle", "committed", "notifying"}

OutcomeOpen ==
    \A w \in Workers : StillOpen(w) => job[cur[w]] \in {"processing", "cancelled"}

MInv == (\A d \in Docs : Marks(d)) /\ LiveCopies /\ OutcomeOpen /\ OutcomeRecorded

-----------------------------------------------------------------------------
\* An empty session has nothing removed and nothing to record.
LEMMA MInit == Init => MInv
<1> SUFFICES ASSUME Init PROVE MInv
  OBVIOUS
<1>1. \A d \in Docs : Marks(d)
  BY DEF Init, Marks, FreshArtifact
<1>2. LiveCopies /\ OutcomeOpen /\ OutcomeRecorded
  BY DEF Init, LiveCopies, Reads, OutcomeOpen, StillOpen, OutcomeRecorded
<1>3. QED
  BY <1>1, <1>2 DEF MInv

\* The window before the parse write opens with the upload and never again.
LEMMA WindowCloses ==
    ASSUME IInv, Next, NEW d \in Docs, ~Upload(d), BeforeWrite(d)'
    PROVE  BeforeWrite(d)
<1> USE DEF IInv
<1>1. ASSUME NEW w \in Workers, NEW e \in Docs, Claim(w, e) PROVE BeforeWrite(d)
  <2>1. PICK js \in SUBSET Docs :
           /\ e \notin js /\ \A i \in js \cup {e} : job[i] = "queued"
           /\ job' = [i \in Docs |-> IF i = e THEN "processing"
                                     ELSE IF i \in js THEN "cancelled" ELSE job[i]]
           /\ cur[w] = None /\ cur' = [cur EXCEPT ![w] = e]
    BY <1>1, ClaimJobs
  <2>2. pc' = [pc EXCEPT ![w] = "claimed"]
    BY <1>1 DEF Claim
  <2>3. QED
    BY <2>1, <2>2 DEF BeforeWrite, TypeOK
<1>2. ASSUME NEW w \in Workers, WorkerStep(w) \/ Crash(w), \A e \in Docs : ~Claim(w, e)
      PROVE  BeforeWrite(d)
  <2>1. job'[d] = "queued" => job[d] = "queued"
    BY <1>2, WorkerJobs DEF Finished
  <2>2. \A v \in Workers : cur'[v] = d => cur[v] = d
    BY <1>2, WorkerJobs, NoneIsNone DEF TypeOK
  <2>3. \A v \in Workers : pc'[v] \in {"claimed", "parsing", "writing"} =>
                             pc[v] \in {"claimed", "parsing", "writing"}
    BY <1>2 DEF WorkerStep, SeesTombstone, CancelOwnJob, GoIdle, StartParse, RefreshBeforeWrite,
       WriteParsed, StartUnderstanding, FlushUpsert, CommitUpsert, StartMaterialRefresh,
       FinishMaterialRefresh, SkipMaterialRefresh, Raise, LoadForFailure, FlushFailure,
       CommitFailure, Crash, TypeOK
  <2>4. QED
    BY <2>1, <2>2, <2>3 DEF BeforeWrite
<1>3. ASSUME NEW e \in Docs, RemovalStep(e) PROVE BeforeWrite(d)
  <2>1. pc' = pc
    BY <1>3 DEF RemovalStep, FlushDelete, CommitDelete, FlushRollback, CommitRollback,
                AbortRemoval, workerVars
  <2>2. QED
    BY <1>3, <2>1, RemovalJobs DEF BeforeWrite
<1>4. ASSUME NEW e \in Docs, Upload(e) PROVE BeforeWrite(d)
  <2>1. e # d
    BY <1>4
  <2>2. job'[d] = job[d] /\ pc' = pc /\ cur' = cur
    BY <1>4, <2>1 DEF Upload, TypeOK, workerVars
  <2>3. QED
    BY <2>2 DEF BeforeWrite
<1>5. CASE UNCHANGED <<job, cur, pc>>
  BY <1>5 DEF BeforeWrite
<1>6. QED
  BY <1>1, <1>2, <1>3, <1>4, <1>5 DEF Next, BeginRemoval, TurnRefreshesGate, docVars, workerVars

\* Steps that touch neither rows nor removals keep the marks.
LEMMA MarksKept ==
    ASSUME IInv, MInv, Next, NEW d \in Docs, ~Upload(d),
           status'[d] = status[d], art'[d] = art[d], dtx'[d] = dtx[d]
    PROVE  Marks(d)'
  BY WindowCloses DEF MInv, Marks

\* An upload marks nothing.
LEMMA UploadMarks == ASSUME IInv, MInv, IInv', NEW d \in Docs, Upload(d) PROVE Marks(d)'
<1>1. status[d] = "absent" /\ ~art[d].tomb /\ dtx[d] = None
  BY DEF Upload, MInv, Marks, IInv, RowsTogether
<1>2. status'[d] = "uploaded" /\ art' = art /\ dtx' = dtx
  BY DEF Upload, IInv, TypeOK
<1>3. QED
  BY <1>1, <1>2 DEF Marks

\* The parsed row clears both marks; it is the last write of its kind.
LEMMA WriteParsedMarks ==
    ASSUME IInv, MInv, NEW w \in Workers, WriteParsed(w), Next, NEW d \in Docs
    PROVE  Marks(d)'
<1>1. cur[w] \in Docs
  BY DEF IInv, WorkerShape, WriteParsed
<1>2. CASE d # cur[w]
  <2>1. status'[d] = status[d] /\ art'[d] = art[d] /\ dtx'[d] = dtx[d] /\ ~Upload(d)
    BY <1>1, <1>2 DEF WriteParsed, IInv, TypeOK, Upload, workerVars, PCs
  <2>2. QED
    BY <2>1, MarksKept
<1>3. CASE d = cur[w]
  <2>1. BeforeWrite(d) /\ dtx' = dtx
    BY <1>3 DEF WriteParsed, BeforeWrite
  <2>2. status'[d] \in {"parsed", "unsupported"} /\ ~art'[d].tomb
    BY <1>3 DEF WriteParsed, IInv, TypeOK, ParsedArtifact
  <2>3. QED
    BY <2>1, <2>2 DEF MInv, Marks
<1>4. QED
  BY <1>2, <1>3

\* A late commit of a worker's copy clears the mark in the artifact only.
LEMMA CopyBackMarks ==
    ASSUME IInv, MInv, NEW w \in Workers, CommitUpsert(w) \/ CommitFailure(w), Next,
           NEW d \in Docs
    PROVE  Marks(d)'
<1>1. /\ cur[w] \in Docs /\ cur[w] # None /\ status' = status /\ dtx' = dtx /\ ~Upload(d)
      /\ ~view[w].art.tomb
      /\ pc[w] \in {"committing", "failing"}
      /\ \E o \in {"completed", "failed"} :
            art' = [art EXCEPT ![cur[w]] = Understood(view[w].art, o)]
  BY NoneIsNone DEF IInv, MInv, WorkerShape, LiveCopies, Reads, CommitUpsert, CommitFailure, ArtWith,
     Upload, TypeOK, workerVars, PCs, GoIdle
<1>2. CASE d # cur[w]
  <2>1. art'[d] = art[d]
    BY <1>1, <1>2 DEF IInv, TypeOK
  <2>2. QED
    BY <1>1, <2>1, MarksKept
<1>3. CASE d = cur[w]
  <2>1. ~art'[d].tomb
    <3>1. view[w].art \in Artifacts
      BY <1>1 DEF IInv, WorkerShape, Copies
    <3>2. \A o \in {"completed", "failed"} : ~Understood(view[w].art, o).tomb
      BY <1>1, <3>1 DEF Understood, Artifacts
    <3>3. QED
      BY <1>1, <1>3, <3>2 DEF IInv, TypeOK
  <2>2. ~BeforeWrite(d)
    BY <1>1, <1>3 DEF IInv, HeldLeftQueue, ClaimExclusive, BeforeWrite
  <2>3. ~BeforeWrite(d)'
    BY <1>1, <2>2, WindowCloses
  <2>4. QED
    BY <1>1, <2>1, <2>3 DEF MInv, Marks
<1>4. QED
  BY <1>2, <1>3

\* A removal that begins has planned both marks.
LEMMA BeginRemovalMarks ==
    ASSUME IInv, MInv, NEW e \in Docs, NEW kind \in {"delete", "rollback"},
           BeginRemoval(e, kind), Next, NEW d \in Docs
    PROVE  Marks(d)'
<1>1. status' = status /\ art' = art /\ job' = job /\ pc' = pc /\ cur' = cur
  BY DEF BeginRemoval, docVars, workerVars
<1>2. BeforeWrite(d)' <=> BeforeWrite(d)
  BY <1>1 DEF BeforeWrite
<1>3. CASE d # e
  <2>1. dtx'[d] = dtx[d]
    BY <1>3 DEF BeginRemoval, IInv, TypeOK
  <2>2. QED
    BY <1>1, <1>2, <2>1 DEF MInv, Marks
<1>4. CASE d = e
  <2>1. /\ dtx'[d].status = Changed(status[d], "tombstoned")
        /\ dtx'[d].art = Changed(art[d], Removed(art[d]))
    BY <1>4 DEF BeginRemoval, IInv, TypeOK
  <2>2. /\ art[d] \in Artifacts /\ Removed(art[d]) \in Artifacts /\ Removed(art[d]).tomb
        /\ Removed(art[d]) = art[d] <=> art[d].tomb
    BY DEF IInv, TypeOK, Artifacts, Removed
  <2>3. dtx'[d].status = None <=> status[d] = "tombstoned"
    BY <2>1, NoneIsNone DEF Changed, Statuses
  <2>4. dtx'[d].art = None <=> art[d].tomb
    BY <2>1, <2>2, NoneIsNone DEF Changed
  <2>5. dtx'[d].art # None => dtx'[d].art.tomb
    BY <2>1, <2>2 DEF Changed
  <2>6. QED
    BY <1>1, <1>2, <2>3, <2>4, <2>5 DEF MInv, Marks
<1>5. QED
  BY <1>3, <1>4

\* What a removal's commit leaves of its document's two marks.
LEMMA CommitRemovalRows ==
    ASSUME IInv, MInv, NEW e \in Docs, CommitDelete(e) \/ CommitRollback(e)
    PROVE  /\ dtx' = [dtx EXCEPT ![e] = None]
           /\ \A d \in Docs \ {e} : status'[d] = status[d] /\ art'[d] = art[d]
           /\ \/ status'[e] = status[e] /\ art'[e] = art[e]
              \/ status'[e] = "tombstoned" /\ art'[e].tomb
<1>1. /\ dtx[e] # None /\ status' = StatusRemoved(e) /\ art' = ArtRemoved(e)
      /\ dtx' = [dtx EXCEPT ![e] = None]
  BY DEF CommitDelete, CommitRollback
<1>2. dtx[e].status \in {None, "tombstoned"}
  BY <1>1 DEF IInv, RowsTogether
<1>3. \A d \in Docs \ {e} : status'[d] = status[d] /\ art'[d] = art[d]
  BY <1>1 DEF StatusRemoved, StatusWith, ArtRemoved, ArtWith, IInv, TypeOK
<1>4. status'[e] = Written(dtx[e].status, status[e]) /\ art'[e] = Written(dtx[e].art, art[e])
  BY <1>1 DEF StatusRemoved, StatusWith, ArtRemoved, ArtWith, IInv, TypeOK
<1>5. CASE dtx[e].art = None
  BY <1>1, <1>3, <1>4, <1>5 DEF MInv, Marks, Written
<1>6. CASE dtx[e].art # None
  BY <1>1, <1>2, <1>3, <1>4, <1>6 DEF MInv, Marks, Written
<1>7. QED
  BY <1>5, <1>6

\* A removal that commits leaves both marks.
LEMMA CommitRemovalMarks ==
    ASSUME IInv, MInv, NEW e \in Docs, CommitDelete(e) \/ CommitRollback(e), Next, NEW d \in Docs
    PROVE  Marks(d)'
<1>1. ~Upload(d)
  BY DEF CommitDelete, CommitRollback, Upload, IInv, TypeOK, RowsTogether
<1>2. CASE d # e
  <2>1. status'[d] = status[d] /\ art'[d] = art[d] /\ dtx'[d] = dtx[d]
    BY <1>2, CommitRemovalRows DEF IInv, TypeOK
  <2>2. QED
    BY <1>1, <2>1, MarksKept
<1>3. CASE d = e
  <2>1. dtx'[d] = None
    BY <1>3, CommitRemovalRows DEF IInv, TypeOK
  <2>2. QED
    BY <1>1, <1>3, <2>1, CommitRemovalRows, WindowCloses DEF MInv, Marks
<1>4. QED
  BY <1>2, <1>3

\* Removals that only lock or abort touch no mark.
LEMMA OtherRemovalMarks ==
    ASSUME IInv, MInv, NEW e \in Docs, FlushDelete(e) \/ FlushRollback(e) \/ AbortRemoval(e), Next,
           NEW d \in Docs
    PROVE  Marks(d)'
<1>1. status' = status /\ art' = art /\ job' = job /\ pc' = pc /\ cur' = cur
  BY DEF FlushDelete, FlushRollback, AbortRemoval, docVars, workerVars
<1>2. BeforeWrite(d)' <=> BeforeWrite(d)
  BY <1>1 DEF BeforeWrite
<1>3. dtx[e] \in RemovalTxs /\ dtx[e] # None
  BY DEF FlushDelete, FlushRollback, AbortRemoval, IInv, TypeOK
<1>4. dtx'[d] # None =>
         dtx[d] # None /\ dtx'[d].status = dtx[d].status /\ dtx'[d].art = dtx[d].art
  <2>1. CASE FlushDelete(e) \/ AbortRemoval(e)
    BY <1>3, <2>1 DEF FlushDelete, AbortRemoval, IInv, TypeOK, RemovalTxs
  <2>2. CASE FlushRollback(e)
    <3>1. PICK b : dtx' = [dtx EXCEPT ![e] = [dtx[e] EXCEPT !.flushed = TRUE, !.board = b]]
      BY <2>2 DEF FlushRollback
    <3> DEFINE t == [dtx[e] EXCEPT !.flushed = TRUE, !.board = b]
    <3>2. t.status = dtx[e].status /\ t.art = dtx[e].art
      BY <1>3 DEF RemovalTxs
    <3>3. dtx' = [dtx EXCEPT ![e] = t]
      BY <3>1
    <3> HIDE DEF t
    <3>4. QED
      BY <1>3, <3>2, <3>3 DEF IInv, TypeOK
  <2>3. QED
    BY <2>1, <2>2
<1>5. QED
  BY <1>1, <1>2, <1>4 DEF MInv, Marks

\* The steps of a worker that write neither mark.
Quietly(w) ==
    \/ \E d \in Docs : Claim(w, d)
    \/ SeesTombstone(w) \/ StartParse(w) \/ RefreshBeforeWrite(w) \/ StartUnderstanding(w)
    \/ \E outcome \in {"completed", "failed"} : FlushUpsert(w, outcome)
    \/ StartMaterialRefresh(w) \/ FinishMaterialRefresh(w) \/ SkipMaterialRefresh(w)
    \/ Raise(w) \/ LoadForFailure(w) \/ FlushFailure(w) \/ Crash(w)

\* Steps that leave the rows alone.
LEMMA QuietRows ==
    ASSUME NEW w \in Workers, Quietly(w)
    PROVE  UNCHANGED <<status, art, evidence, dtx, overlap>>
  BY DEF Quietly, Claim, SeesTombstone, CancelOwnJob, StartParse, RefreshBeforeWrite,
     StartUnderstanding, FlushUpsert, StartMaterialRefresh, FinishMaterialRefresh,
     SkipMaterialRefresh, Raise, LoadForFailure, FlushFailure, Crash, docVars

\* Every step keeps the two marks of a removed document together.
LEMMA MarksInv == IInv /\ MInv /\ IInv' /\ Next => \A d \in Docs : Marks(d)'
<1> SUFFICES ASSUME IInv, MInv, IInv', Next, NEW d \in Docs PROVE Marks(d)'
  OBVIOUS
<1>1. CASE Upload(d)
  BY <1>1, UploadMarks
<1>2. CASE UNCHANGED <<status, art, dtx>> /\ ~Upload(d)
  BY <1>2, MarksKept
<1>3. ASSUME NEW e \in Docs, Upload(e), e # d PROVE Marks(d)'
  <2>1. status'[d] = status[d] /\ art' = art /\ dtx' = dtx /\ ~Upload(d)
    BY <1>3 DEF Upload, IInv, TypeOK
  <2>2. QED
    BY <2>1, MarksKept
<1>4. ASSUME NEW w \in Workers, Quietly(w) PROVE Marks(d)'
  BY <1>1, <1>2, <1>4, QuietRows
<1>5. ASSUME NEW w \in Workers, WriteParsed(w) \/ CommitUpsert(w) \/ CommitFailure(w)
      PROVE  Marks(d)'
  BY <1>5, WriteParsedMarks, CopyBackMarks
<1>6. ASSUME NEW e \in Docs, RemovalStep(e) PROVE Marks(d)'
  BY <1>6, CommitRemovalMarks, OtherRemovalMarks DEF RemovalStep
<1>7. ASSUME NEW e \in Docs, NEW kind \in {"delete", "rollback"}, BeginRemoval(e, kind)
      PROVE  Marks(d)'
  BY <1>7, BeginRemovalMarks
<1>8. CASE TurnRefreshesGate
  BY <1>1, <1>2, <1>8 DEF TurnRefreshesGate, docVars
<1>9. QED
  BY <1>1, <1>3, <1>4, <1>5, <1>6, <1>7, <1>8 DEF Next, WorkerStep, Quietly

-----------------------------------------------------------------------------
(* Workers.                                                                *)

\* A worker loads a copy only of a document it finds live.
LEMMA CopiesInv == IInv /\ MInv /\ Next => LiveCopies'
<1> SUFFICES ASSUME IInv, MInv, Next, NEW v \in Workers, Reads(v)' PROVE ~view'[v].art.tomb
  BY DEF LiveCopies
<1>1. CASE UNCHANGED workerVars
  BY <1>1 DEF MInv, LiveCopies, Reads, workerVars
<1>2. ASSUME NEW w \in Workers, WorkerStep(w) \/ Crash(w) PROVE ~view'[v].art.tomb
  <2>1. CASE StartUnderstanding(w) \/ LoadForFailure(w)
    BY <2>1 DEF StartUnderstanding, LoadForFailure, Tombstoned, RowTombstoned, MInv, LiveCopies,
       Reads, IInv, TypeOK
  <2>2. CASE (\E outcome \in {"completed", "failed"} : FlushUpsert(w, outcome)) \/ FlushFailure(w)
    BY <2>2 DEF FlushUpsert, FlushFailure, MInv, LiveCopies, Reads, IInv, TypeOK
  <2>3. CASE \/ \E d \in Docs : Claim(w, d)
             \/ StartParse(w) \/ RefreshBeforeWrite(w) \/ WriteParsed(w)
             \/ StartMaterialRefresh(w) \/ Raise(w) \/ CommitUpsert(w)
    BY <2>3 DEF Claim, StartParse, RefreshBeforeWrite, WriteParsed, StartMaterialRefresh, Raise,
       CommitUpsert, MInv, LiveCopies, Reads, IInv, TypeOK
  <2>4. CASE SeesTombstone(w) \/ FinishMaterialRefresh(w) \/ SkipMaterialRefresh(w)
             \/ CommitFailure(w) \/ Crash(w)
    BY <2>4 DEF SeesTombstone, CancelOwnJob, FinishMaterialRefresh, SkipMaterialRefresh,
       CommitFailure, Crash, GoIdle, MInv, LiveCopies, Reads, IInv, TypeOK
  <2>5. QED
    BY <1>2, <2>1, <2>2, <2>3, <2>4 DEF WorkerStep
<1>3. QED
  BY <1>1, <1>2 DEF Next, Upload, RemovalStep, FlushDelete, CommitDelete, FlushRollback,
     CommitRollback, AbortRemoval, BeginRemoval, TurnRefreshesGate

\* A worker that goes on after a step without giving its document up has not
\* closed the job in that step.
LEMMA OpenJobs ==
    ASSUME IInv, NEW w \in Workers, WorkerStep(w) \/ Crash(w), \A d \in Docs : ~Claim(w, d)
    PROVE  /\ \A v \in Workers \ {w} : pc'[v] = pc[v]
           /\ StillOpen(w)' => StillOpen(w) /\ UNCHANGED <<job, cur>>
<1>1. CASE \/ StartParse(w) \/ RefreshBeforeWrite(w) \/ WriteParsed(w) \/ StartUnderstanding(w)
           \/ (\E outcome \in {"completed", "failed"} : FlushUpsert(w, outcome))
           \/ Raise(w) \/ LoadForFailure(w) \/ FlushFailure(w)
  BY <1>1 DEF StartParse, RefreshBeforeWrite, WriteParsed, StartUnderstanding, FlushUpsert, Raise,
     LoadForFailure, FlushFailure, StillOpen, docVars, IInv, TypeOK
<1>2. CASE StartMaterialRefresh(w) \/ CommitUpsert(w)
  BY <1>2 DEF StartMaterialRefresh, CommitUpsert, StillOpen, IInv, TypeOK
<1>3. CASE SeesTombstone(w) \/ FinishMaterialRefresh(w) \/ SkipMaterialRefresh(w)
           \/ CommitFailure(w) \/ Crash(w)
  BY <1>3 DEF SeesTombstone, CancelOwnJob, FinishMaterialRefresh, SkipMaterialRefresh, CommitFailure,
     Crash, GoIdle, StillOpen, IInv, TypeOK
<1>4. QED
  BY <1>1, <1>2, <1>3 DEF WorkerStep

\* Every step keeps the outcomes of running jobs open.
LEMMA OpenInv == IInv /\ MInv /\ IInv' /\ Next => OutcomeOpen'
<1> SUFFICES ASSUME IInv, MInv, IInv', Next, NEW v \in Workers, StillOpen(v)'
             PROVE  job'[cur'[v]] \in {"processing", "cancelled"}
  BY DEF OutcomeOpen
<1> DEFINE Goal == job'[cur'[v]] \in {"processing", "cancelled"}
<1>0. cur'[v] \in Docs
  BY DEF IInv, WorkerShape, StillOpen
<1>1. ASSUME NEW w \in Workers, NEW d \in Docs, Claim(w, d) PROVE Goal
  <2>1. PICK js \in SUBSET Docs :
           /\ d \notin js
           /\ job' = [i \in Docs |-> IF i = d THEN "processing"
                                     ELSE IF i \in js THEN "cancelled" ELSE job[i]]
           /\ cur' = [cur EXCEPT ![w] = d]
    BY <1>1, ClaimJobs
  <2>2. pc' = [pc EXCEPT ![w] = "claimed"]
    BY <1>1 DEF Claim
  <2>3. QED
    BY <1>0, <2>1, <2>2 DEF MInv, OutcomeOpen, StillOpen, IInv, TypeOK
<1>2. ASSUME NEW w \in Workers, WorkerStep(w) \/ Crash(w), \A d \in Docs : ~Claim(w, d)
      PROVE  Goal
  <2>1. CASE v = w
    BY <1>2, <2>1, OpenJobs DEF MInv, OutcomeOpen
  <2>2. CASE v # w
    <3>1. StillOpen(v) /\ cur'[v] = cur[v]
      BY <1>2, <2>2, OpenJobs, WorkerJobs DEF StillOpen, IInv, TypeOK
    <3>2. cur[v] # cur[w]
      BY <1>0, <2>2, <3>1, NoneIsNone DEF IInv, ClaimExclusive
    <3>3. job'[cur[v]] = job[cur[v]]
      BY <1>0, <1>2, <3>1, <3>2, WorkerJobs
    <3>4. QED
      BY <3>1, <3>3 DEF MInv, OutcomeOpen
  <2>3. QED
    BY <2>1, <2>2
<1>3. ASSUME NEW e \in Docs, RemovalStep(e) PROVE Goal
  <2>1. pc' = pc
    BY <1>3 DEF RemovalStep, FlushDelete, CommitDelete, FlushRollback, CommitRollback,
                AbortRemoval, workerVars
  <2>2. QED
    BY <1>0, <1>3, <2>1, RemovalJobs DEF MInv, OutcomeOpen, StillOpen
<1>4. ASSUME NEW e \in Docs, Upload(e) PROVE Goal
  <2>1. job[e] = "none" /\ UNCHANGED workerVars /\ job' = [job EXCEPT ![e] = "queued"]
    BY <1>4 DEF Upload, IInv, RowsTogether
  <2>2. StillOpen(v) /\ cur'[v] = cur[v]
    BY <2>1 DEF StillOpen, workerVars
  <2>3. cur[v] # e
    BY <2>1, <2>2 DEF MInv, OutcomeOpen
  <2>4. QED
    BY <2>1, <2>2, <2>3 DEF MInv, OutcomeOpen, IInv, TypeOK
<1>5. CASE UNCHANGED <<job, cur, pc>>
  BY <1>5 DEF MInv, OutcomeOpen, StillOpen
<1>6. QED
  BY <1>1, <1>2, <1>3, <1>4, <1>5 DEF Next, BeginRemoval, TurnRefreshesGate, docVars, workerVars

-----------------------------------------------------------------------------
(* Outcomes.                                                               *)

Recorded(d) == ~Tombstoned(d) =>
    /\ job[d] = "completed" => art[d].und = "completed" /\ art[d].result
    /\ job[d] = "failed" => art[d].und = "failed"

\* Rows unchanged or tombstoned, job unchanged or without an outcome.
LEMMA RecordedKept ==
    ASSUME MInv, NEW d \in Docs,
           job'[d] = job[d] \/ job'[d] \notin {"completed", "failed"},
           \/ status'[d] = status[d] /\ art'[d] = art[d]
           \/ status'[d] = "tombstoned"
    PROVE  Recorded(d)'
  BY DEF MInv, OutcomeRecorded, Recorded, Tombstoned, RowTombstoned

\* Every step keeps job and artifact in agreement.
LEMMA RecordedInv == IInv /\ MInv /\ Next => OutcomeRecorded'
<1> SUFFICES ASSUME IInv, MInv, Next, NEW d \in Docs PROVE Recorded(d)'
  BY DEF OutcomeRecorded, Recorded
<1>1. ASSUME NEW w \in Workers, NEW e \in Docs, Claim(w, e) PROVE Recorded(d)'
  <2>1. UNCHANGED <<status, art>>
    BY <1>1 DEF Claim
  <2>2. job'[d] = job[d] \/ job'[d] \notin {"completed", "failed"}
    BY <1>1, ClaimJobs
  <2>3. QED
    BY <2>1, <2>2, RecordedKept
<1>2. ASSUME NEW w \in Workers, Quietly(w), \A e \in Docs : ~Claim(w, e) PROVE Recorded(d)'
  <2>1. UNCHANGED <<status, art>>
    BY <1>2, QuietRows
  <2>2. job'[d] = job[d] \/ job'[d] = "cancelled"
    BY <1>2 DEF Quietly, SeesTombstone, CancelOwnJob, StartParse, RefreshBeforeWrite,
       StartUnderstanding, FlushUpsert, StartMaterialRefresh, FinishMaterialRefresh,
       SkipMaterialRefresh, Raise, LoadForFailure, FlushFailure, Crash, docVars, IInv, TypeOK
  <2>3. QED
    BY <2>1, <2>2, RecordedKept
<1>3. ASSUME NEW w \in Workers, WriteParsed(w) PROVE Recorded(d)'
  <2>1. cur[w] \in Docs /\ job[cur[w]] \in {"processing", "cancelled"} /\ job' = job
    BY <1>3 DEF WriteParsed, IInv, WorkerShape, MInv, OutcomeOpen, StillOpen
  <2>2. CASE d = cur[w]
    BY <2>1, <2>2 DEF Recorded
  <2>3. CASE d # cur[w]
    <3>1. status'[d] = status[d] /\ art'[d] = art[d]
      BY <1>3, <2>3 DEF WriteParsed, IInv, TypeOK
    <3>2. QED
      BY <2>1, <3>1, RecordedKept
  <2>4. QED
    BY <2>2, <2>3
<1>4. ASSUME NEW w \in Workers, CommitUpsert(w) \/ CommitFailure(w) PROVE Recorded(d)'
  <2>1. PICK o \in {"completed", "failed"} :
           /\ status' = status
           /\ art' = [art EXCEPT ![cur[w]] = Understood(view[w].art, o)]
           /\ job' = [job EXCEPT ![cur[w]] = o]
    BY <1>4 DEF CommitUpsert, CommitFailure, ArtWith, IInv, WorkerShape
  <2>2. cur[w] \in Docs /\ view[w].art \in Artifacts
    BY <1>4 DEF CommitUpsert, CommitFailure, IInv, WorkerShape, Copies
  <2>3. /\ Understood(view[w].art, o).und = o
        /\ o = "completed" => Understood(view[w].art, o).result
    BY <2>2 DEF Understood, Artifacts
  <2>4. CASE d = cur[w]
    BY <2>1, <2>2, <2>3, <2>4 DEF Recorded, IInv, TypeOK
  <2>5. CASE d # cur[w]
    BY <2>1, <2>5, RecordedKept DEF IInv, TypeOK
  <2>6. QED
    BY <2>4, <2>5
<1>5. ASSUME NEW e \in Docs, RemovalStep(e) PROVE Recorded(d)'
  <2>1. job'[d] = job[d] \/ job'[d] \notin {"completed", "failed"}
    BY <1>5, RemovalJobs
  <2>2. \/ status'[d] = status[d] /\ art'[d] = art[d]
        \/ status'[d] = "tombstoned"
    BY <1>5, CommitRemovalRows
       DEF RemovalStep, FlushDelete, FlushRollback, AbortRemoval, docVars
  <2>3. QED
    BY <2>1, <2>2, RecordedKept
<1>6. ASSUME NEW e \in Docs, Upload(e) PROVE Recorded(d)'
  <2>1. CASE d = e
    BY <1>6, <2>1 DEF Upload, Recorded, IInv, TypeOK
  <2>2. CASE d # e
    BY <1>6, <2>2, RecordedKept DEF Upload, IInv, TypeOK
  <2>3. QED
    BY <2>1, <2>2
<1>7. CASE UNCHANGED <<status, art, job>>
  BY <1>7, RecordedKept
<1>8. QED
  BY <1>1, <1>2, <1>3, <1>4, <1>5, <1>6, <1>7
     DEF Next, WorkerStep, Quietly, BeginRemoval, TurnRefreshesGate, docVars

-----------------------------------------------------------------------------
\* Nothing happens.
LEMMA MStutter == MInv /\ UNCHANGED vars => MInv'
  BY DEF MInv, Marks, BeforeWrite, LiveCopies, Reads, OutcomeOpen, StillOpen, OutcomeRecorded,
     Tombstoned, RowTombstoned, vars, docVars, workerVars

\* Marks, copies and outcomes stay together in every interleaving of workers and removals.
THEOREM RemovalInvariant == Spec => [](IInv /\ MInv)
<1>1. Init => IInv /\ MInv
  BY InitInv, MInit
<1>2. (IInv /\ MInv) /\ [Next]_vars => (IInv /\ MInv)'
  <2>1. ASSUME IInv, MInv, Next PROVE MInv'
    <3>1. IInv'
      BY <2>1, NextInv
    <3>2. LiveCopies' /\ OutcomeOpen' /\ OutcomeRecorded' /\ \A d \in Docs : Marks(d)'
      BY <2>1, <3>1, CopiesInv, OpenInv, RecordedInv, MarksInv
    <3>3. QED
      BY <3>2 DEF MInv
  <2>2. QED
    BY <2>1, NextInv, MStutter
<1>3. QED
  BY <1>1, <1>2, PTL DEF Spec

\* The outcome a worker commits and what clients read from the artifact agree
\* for every document that is not removed, whoever cancelled its job meanwhile.
THEOREM OutcomesAreRecorded == Spec => []OutcomeRecorded
<1>1. MInv => OutcomeRecorded
  BY DEF MInv
<1>2. QED
  BY <1>1, RemovalInvariant, PTL

\* A removed document becomes live again only when a worker that had read it
\* before the removal writes its parsed row.
THEOREM UndoneOnlyByParse == Spec => RemovalUndoneOnlyByParse
<1> DEFINE Undone == \A d \in Docs : Tombstoned(d) /\ ~Tombstoned(d)' =>
                        \E w \in Workers : pc[w] = "writing" /\ cur[w] = d
<1>1. IInv /\ MInv /\ [Next]_vars => [Undone]_vars
  <2> SUFFICES ASSUME IInv, MInv, Next, NEW d \in Docs, Tombstoned(d), ~Tombstoned(d)'
               PROVE  \E w \in Workers : pc[w] = "writing" /\ cur[w] = d
    OBVIOUS
  <2>0. status[d] = "tombstoned" /\ status'[d] # "tombstoned"
    BY DEF Tombstoned, RowTombstoned, MInv, Marks
  <2>1. ASSUME NEW w \in Workers, WriteParsed(w) PROVE pc[w] = "writing" /\ cur[w] = d
    BY <2>0, <2>1 DEF WriteParsed, IInv, TypeOK
  <2>2. ASSUME NEW w \in Workers, Quietly(w) \/ CommitUpsert(w) \/ CommitFailure(w) PROVE FALSE
    BY <2>0, <2>2, QuietRows DEF CommitUpsert, CommitFailure
  <2>3. ASSUME NEW e \in Docs, RemovalStep(e) PROVE FALSE
    BY <2>0, <2>3, CommitRemovalRows
       DEF RemovalStep, FlushDelete, FlushRollback, AbortRemoval, docVars
  <2>4. ASSUME NEW e \in Docs, Upload(e) PROVE FALSE
    BY <2>0, <2>4 DEF Upload, IInv, TypeOK
  <2>5. CASE UNCHANGED status
    BY <2>0, <2>5
  <2>6. QED
    BY <2>1, <2>2, <2>3, <2>4, <2>5
       DEF Next, WorkerStep, Quietly, BeginRemoval, TurnRefreshesGate, docVars
<1>2. QED
  BY <1>1, RemovalInvariant, PTL DEF Spec, RemovalUndoneOnlyByParse

-----------------------------------------------------------------------------
(* Documents whose outcome is still to come.                               *)

\* The document is not there yet, or waits, or a worker is before its commit.
Unrecorded(d) ==
    \/ status[d] = "absent"
    \/ job[d] = "queued"
    \/ \E w \in Workers : cur[w] = d /\ StillOpen(w)

NoOutcome(a) == ~a.result /\ a.und # "completed"

\* Neither the artifact nor the copy an open removal holds has an outcome then.
OutcomeLater ==
    \A d \in Docs : Unrecorded(d) =>
        /\ NoOutcome(art[d])
        /\ dtx[d] # None /\ dtx[d].art # None => NoOutcome(dtx[d].art)

\* Only the documents of tickets are removed by a rollback.
RollbacksAreTickets ==
    \A d \in Docs : dtx[d] # None /\ dtx[d].kind = "rollback" => d \in TicketDocs

-----------------------------------------------------------------------------
(* What holds as long as nothing has collided.                             *)

\* A worker past its last look at the row works on a live document ...
AtWork(w) == pc[w] \in {"writing", "understanding", "committing", "reporting", "failing"}
LiveAtWork == \A w \in Workers : AtWork(w) => ~Tombstoned(cur[w])

\* ... and its copy is what is stored.
CopiesFresh ==
    \A w \in Workers : Reads(w) =>
        view[w].status = status[cur[w]] /\ view[w].art = art[cur[w]]

\* A removal that found its document removed still finds it so.
StillRemoved ==
    \A d \in Docs : dtx[d] # None /\ dtx[d].status = None => status[d] = "tombstoned"

\* What an open transaction will write of the board is the board it leaves.
Outcome(w) == IF pc[w] = "failing" THEN "failed" ELSE wtx[w].outcome
WorkerBoards ==
    \A w \in Workers : pc[w] \in {"committing", "failing"} =>
        Written(wtx[w].board, snap) =
            BoardWith(cur[w], status[cur[w]], Understood(art[cur[w]], Outcome(w)))
RollbackBoards ==
    \A d \in Docs : dtx[d] # None /\ dtx[d].kind = "rollback" /\ dtx[d].flushed =>
        Written(dtx[d].board, snap) = BoardWith(d, "tombstoned", art[d])

BoardSerial == snap = BoardOf(status, art)
ProfileSerial == \A d \in field.refs : Tombstoned(d) => d \in TicketDocs

\* What a required type needs for "ready": see ReadyIsEarned.
Good(s, a) == s = "parsed" /\ a.und = "completed" /\ ~RowTombstoned(s, a)
Backed(d) == Good(status[d], art[d]) \/ (d \in TicketDocs /\ Tombstoned(d))
Earned == \A t \in Required : \E d \in Docs : TypeOf[d] = t /\ Backed(d)

GateSerial ==
    /\ gate = "ready" => Earned
    /\ \A w \in Workers : pc[w] = "notifying" /\ wtx[w].gate = "ready" => Earned

WorkSerial == LiveAtWork /\ CopiesFresh /\ StillRemoved
BoardsSerial == WorkerBoards /\ RollbackBoards /\ BoardSerial

SInv == WorkSerial /\ BoardsSerial /\ ProfileSerial /\ GateSerial

BInv ==
    /\ OutcomeLater /\ RollbacksAreTickets
    /\ ~overlap => SInv

-----------------------------------------------------------------------------
(* Rows and copies, step by step.                                          *)

\* A removal that takes its locks or gives up changes no row, and of removals
\* only its own.
LEMMA OpenRemovals ==
    ASSUME IInv, NEW e \in Docs, FlushDelete(e) \/ FlushRollback(e) \/ AbortRemoval(e)
    PROVE  /\ UNCHANGED <<status, art, evidence, job, snap, field, gate, pc, cur, view, wtx, overlap>>
           /\ \A d \in Docs : dtx'[d] # None =>
                /\ dtx[d] # None
                /\ dtx'[d].kind = dtx[d].kind
                /\ dtx'[d].status = dtx[d].status /\ dtx'[d].art = dtx[d].art
                /\ d # e \/ (~FlushRollback(e) /\ dtx[d].kind = "rollback") => dtx'[d] = dtx[d]
<1>1. dtx[e] \in RemovalTxs /\ dtx[e] # None /\ dtx \in [Docs -> RemovalTxs \cup {None}]
  BY DEF FlushDelete, FlushRollback, AbortRemoval, IInv, TypeOK
<1>2. UNCHANGED <<status, art, evidence, job, snap, field, gate, pc, cur, view, wtx, overlap>>
  BY DEF FlushDelete, FlushRollback, AbortRemoval, docVars, sessionVars, workerVars
<1>3. CASE FlushDelete(e)
  <2> DEFINE t == [dtx[e] EXCEPT !.flushed = TRUE]
  <2>1. /\ t.kind = dtx[e].kind /\ t.status = dtx[e].status /\ t.art = dtx[e].art
        /\ t.kind = "delete"
    BY <1>1, <1>3 DEF RemovalTxs, FlushDelete
  <2>2. dtx' = [dtx EXCEPT ![e] = t]
    BY <1>3 DEF FlushDelete
  <2> HIDE DEF t
  <2>3. QED
    BY <1>1, <1>2, <2>1, <2>2
<1>4. CASE FlushRollback(e)
  <2>1. PICK b : dtx' = [dtx EXCEPT ![e] = [dtx[e] EXCEPT !.flushed = TRUE, !.board = b]]
    BY <1>4 DEF FlushRollback
  <2> DEFINE t == [dtx[e] EXCEPT !.flushed = TRUE, !.board = b]
  <2>2. t.kind = dtx[e].kind /\ t.status = dtx[e].status /\ t.art = dtx[e].art
    BY <1>1 DEF RemovalTxs
  <2>3. dtx' = [dtx EXCEPT ![e] = t]
    BY <2>1
  <2> HIDE DEF t
  <2>4. QED
    BY <1>1, <1>2, <1>4, <2>2, <2>3
<1>5. CASE AbortRemoval(e)
  BY <1>1, <1>2, <1>5 DEF AbortRemoval
<1>6. QED
  BY <1>3, <1>4, <1>5

\* What a removal's commit makes of its document's row.
LEMMA RemovedRows ==
    ASSUME IInv, NEW e \in Docs, CommitDelete(e) \/ CommitRollback(e)
    PROVE  /\ dtx[e] # None
           /\ dtx' = [dtx EXCEPT ![e] = None]
           /\ status'[e] = Written(dtx[e].status, status[e])
           /\ art'[e] = Written(dtx[e].art, art[e])
           /\ \A d \in Docs \ {e} : status'[d] = status[d] /\ art'[d] = art[d]
           /\ UNCHANGED <<evidence, pc, cur, view, wtx>>
  BY DEF CommitDelete, CommitRollback, StatusRemoved, StatusWith, ArtRemoved, ArtWith, IInv, TypeOK,
     workerVars

\* A removal that begins changes nothing but the list of removals.
LEMMA BegunRemoval ==
    ASSUME IInv, NEW e \in Docs, NEW kind \in {"delete", "rollback"}, BeginRemoval(e, kind)
    PROVE  /\ UNCHANGED <<status, art, evidence, job, snap, field, gate, pc, cur, view, wtx, overlap>>
           /\ \A d \in Docs \ {e} : dtx'[d] = dtx[d]
           /\ dtx'[e].kind = kind /\ ~dtx'[e].flushed
           /\ dtx'[e].status = Changed(status[e], "tombstoned")
           /\ dtx'[e].art = Changed(art[e], Removed(art[e]))
           /\ kind = "rollback" => e \in TicketDocs
  BY DEF BeginRemoval, IInv, TypeOK, docVars, sessionVars, workerVars

\* A worker's parse write.
LEMMA ParsedRows ==
    ASSUME IInv, NEW w \in Workers, WriteParsed(w)
    PROVE  /\ cur[w] \in Docs /\ pc[w] = "writing" /\ pc' = [pc EXCEPT ![w] = "rechecking"]
           /\ status'[cur[w]] \in {"parsed", "unsupported"} /\ art'[cur[w]] = ParsedArtifact
           /\ \A d \in Docs \ {cur[w]} : status'[d] = status[d] /\ art'[d] = art[d]
           /\ UNCHANGED <<job, snap, field, gate, cur, view, wtx, dtx, overlap>>
  BY DEF WriteParsed, IInv, TypeOK, WorkerShape, sessionVars

\* A worker's commit of an outcome.
LEMMA OutcomeRows ==
    ASSUME IInv, NEW w \in Workers, CommitUpsert(w) \/ CommitFailure(w)
    PROVE  /\ cur[w] \in Docs /\ cur[w] # None
           /\ pc[w] \in {"committing", "failing"}
           /\ Outcome(w) \in {"completed", "failed"}
           /\ status' = status /\ dtx' = dtx
           /\ art' = [art EXCEPT ![cur[w]] = Understood(view[w].art, Outcome(w))]
           /\ job' = [job EXCEPT ![cur[w]] = Outcome(w)]
           /\ snap' = Written(wtx[w].board, snap)
           /\ pc'[w] \in {"committed", "idle"}
           /\ \A v \in Workers \ {w} : UNCHANGED <<pc[v], cur[v], view[v], wtx[v]>>
           /\ overlap' = (overlap \/ Collides(w, cur[w]))
<1>1. CASE CommitUpsert(w)
  BY <1>1, NoneIsNone DEF CommitUpsert, NoteCommit, Outcome, ArtWith, IInv, TypeOK, WorkerShape
<1>2. CASE CommitFailure(w)
  BY <1>2, NoneIsNone DEF CommitFailure, NoteCommit, Outcome, ArtWith, IInv, TypeOK, WorkerShape, GoIdle
<1>3. QED
  BY <1>1, <1>2

\* The steps of a worker that write no outcome: only a document found live is
\* worked on, and a copy is of the stored row when it is loaded.
LEMMA QuietWork ==
    ASSUME IInv, NEW w \in Workers, Quietly(w), NEW v \in Workers
    PROVE  /\ AtWork(v)' => cur'[v] = cur[v] /\ (AtWork(v) \/ ~Tombstoned(cur[v]))
           /\ Reads(v)' => /\ cur'[v] = cur[v]
                           /\ \/ Reads(v) /\ view'[v] = view[v]
                              \/ view'[v] = [status |-> status[cur[v]], art |-> art[cur[v]]]
<1> USE DEF IInv, TypeOK, AtWork, Reads
<1>1. CASE \E d \in Docs : Claim(w, d)
  BY <1>1 DEF Claim
<1>2. CASE StartParse(w) \/ RefreshBeforeWrite(w) \/ StartUnderstanding(w) \/ LoadForFailure(w)
  BY <1>2 DEF StartParse, RefreshBeforeWrite, StartUnderstanding, LoadForFailure
<1>3. CASE (\E outcome \in {"completed", "failed"} : FlushUpsert(w, outcome)) \/ FlushFailure(w)
  BY <1>3 DEF FlushUpsert, FlushFailure
<1>4. CASE StartMaterialRefresh(w) \/ Raise(w)
  BY <1>4 DEF StartMaterialRefresh, Raise
<1>5. CASE SeesTombstone(w) \/ FinishMaterialRefresh(w) \/ SkipMaterialRefresh(w) \/ Crash(w)
  BY <1>5 DEF SeesTombstone, CancelOwnJob, FinishMaterialRefresh, SkipMaterialRefresh, Crash, GoIdle
<1>6. QED
  BY <1>1, <1>2, <1>3, <1>4, <1>5 DEF Quietly

\* What is written of a board leaves that board.
LEMMA BoardWritten ==
    ASSUME NEW b \in SUBSET Docs, NEW x \in BoardWrites(b)
    PROVE  Written(x, snap) = b
  BY NoneIsNone DEF BoardWrites, Changed, Written

\* A worker computes the board it will write when it flushes, and not again.
LEMMA QuietBoards ==
    ASSUME IInv, CopiesFresh, NEW w \in Workers, Quietly(w), NEW v \in Workers,
           pc'[v] \in {"committing", "failing"}
    PROVE  /\ cur'[v] = cur[v] /\ snap' = snap
           /\ \/ pc'[v] = pc[v] /\ wtx'[v] = wtx[v]
              \/ Written(wtx'[v].board, snap) =
                    BoardWith(cur[v], status[cur[v]], Understood(art[cur[v]], Outcome(v)'))
<1>0. wtx \in [Workers -> WorkerTxs \cup {None}] /\ pc \in [Workers -> PCs]
      /\ \A d, s, a : BoardWith(d, s, a) \in SUBSET Docs
  BY DerivedTypes DEF IInv, TypeOK, BoardWith
<1>1. CASE \E d \in Docs : Claim(w, d)
  BY <1>1 DEF Claim, sessionVars, IInv, TypeOK
<1>2. CASE StartParse(w) \/ RefreshBeforeWrite(w) \/ StartUnderstanding(w) \/ LoadForFailure(w)
  BY <1>2 DEF StartParse, RefreshBeforeWrite, StartUnderstanding, LoadForFailure, sessionVars, IInv, TypeOK
<1>3. CASE \E outcome \in {"completed", "failed"} : FlushUpsert(w, outcome)
  <2>1. PICK outcome \in {"completed", "failed"} : FlushUpsert(w, outcome)
    BY <1>3
  <2>2. cur' = cur /\ snap' = snap /\ pc' = [pc EXCEPT ![w] = "committing"] /\ Reads(w)
    BY <2>1 DEF FlushUpsert, sessionVars, Reads
  <2>3. view[w].status = status[cur[w]] /\ view[w].art = art[cur[w]]
    BY <2>2 DEF CopiesFresh
  <2> DEFINE b == BoardWith(cur[w], view[w].status, Understood(view[w].art, outcome))
  <2>4. PICK x \in BoardWrites(b) :
           wtx' = [wtx EXCEPT ![w] = [outcome |-> outcome, gate |-> None, board |-> x]]
    BY <2>1 DEF FlushUpsert
  <2>5. Written(x, snap) = b
    BY <1>0, <2>4, BoardWritten
  <2> HIDE DEF b
  <2>6. CASE v = w
    <3>1. wtx'[w].board = x /\ wtx'[w].outcome = outcome /\ pc'[w] = "committing"
      BY <1>0, <2>2, <2>4
    <3>2. QED
      BY <2>2, <2>3, <2>5, <2>6, <3>1 DEF Outcome, b
  <2>7. CASE v # w
    BY <1>0, <2>2, <2>4, <2>7
  <2>8. QED
    BY <2>6, <2>7
<1>4. CASE FlushFailure(w)
  <2>2. cur' = cur /\ snap' = snap /\ pc' = [pc EXCEPT ![w] = "failing"] /\ Reads(w)
    BY <1>4 DEF FlushFailure, sessionVars, Reads
  <2>3. view[w].status = status[cur[w]] /\ view[w].art = art[cur[w]]
    BY <2>2 DEF CopiesFresh
  <2> DEFINE b == BoardWith(cur[w], view[w].status, Understood(view[w].art, "failed"))
  <2>4. PICK x \in BoardWrites(b) :
           wtx' = [wtx EXCEPT ![w] = [outcome |-> "failed", gate |-> None, board |-> x]]
    BY <1>4 DEF FlushFailure
  <2>5. Written(x, snap) = b
    BY <1>0, <2>4, BoardWritten
  <2> HIDE DEF b
  <2>6. CASE v = w
    <3>1. wtx'[w].board = x /\ pc'[w] = "failing"
      BY <1>0, <2>2, <2>4
    <3>2. QED
      BY <2>2, <2>3, <2>5, <2>6, <3>1 DEF Outcome, b
  <2>7. CASE v # w
    BY <1>0, <2>2, <2>4, <2>7
  <2>8. QED
    BY <2>6, <2>7
<1>5. CASE StartMaterialRefresh(w) \/ Raise(w)
  BY <1>5 DEF StartMaterialRefresh, Raise, sessionVars, IInv, TypeOK
<1>6. CASE SeesTombstone(w) \/ FinishMaterialRefresh(w) \/ SkipMaterialRefresh(w) \/ Crash(w)
  BY <1>6 DEF SeesTombstone, CancelOwnJob, FinishMaterialRefresh, SkipMaterialRefresh, Crash, GoIdle,
     sessionVars, IInv, TypeOK
<1>7. QED
  BY <1>1, <1>2, <1>3, <1>4, <1>5, <1>6 DEF Quietly

\* A worker's gate comes from the rows of the moment it is computed, and is
\* written by its last step.
LEMMA QuietGates ==
    ASSUME IInv, NEW w \in Workers, Quietly(w)
    PROVE  /\ gate' = "ready" =>
                \/ gate = "ready"
                \/ pc[w] = "notifying" /\ wtx[w].gate = "ready"
           /\ \A v \in Workers : pc'[v] = "notifying" /\ wtx'[v].gate = "ready" =>
                \/ pc[v] = "notifying" /\ wtx[v].gate = "ready"
                \/ GateOf(status, art, job, field) = "ready"
<1>0. wtx \in [Workers -> WorkerTxs \cup {None}] /\ pc \in [Workers -> PCs]
  BY DEF IInv, TypeOK
<1>1. CASE \E d \in Docs : Claim(w, d)
  BY <1>0, <1>1 DEF Claim, sessionVars
<1>2. CASE StartParse(w) \/ RefreshBeforeWrite(w) \/ StartUnderstanding(w) \/ LoadForFailure(w)
           \/ Raise(w)
  BY <1>0, <1>2 DEF StartParse, RefreshBeforeWrite, StartUnderstanding, LoadForFailure, Raise, sessionVars
<1>3. CASE (\E outcome \in {"completed", "failed"} : FlushUpsert(w, outcome)) \/ FlushFailure(w)
  BY <1>0, <1>3 DEF FlushUpsert, FlushFailure, sessionVars
<1>4. CASE StartMaterialRefresh(w)
  <2> DEFINE g == GateOf(status, art, job, field)
  <2>1. /\ gate' = gate /\ pc' = [pc EXCEPT ![w] = "notifying"]
        /\ wtx' = [wtx EXCEPT ![w] = [outcome |-> "none", board |-> None, gate |-> Changed(gate, g)]]
    BY <1>4 DEF StartMaterialRefresh, sessionVars
  <2> HIDE DEF g
  <2>2. wtx'[w].gate = Changed(gate, g) /\ \A v \in Workers \ {w} : wtx'[v] = wtx[v] /\ pc'[v] = pc[v]
    BY <1>0, <2>1
  <2>3. Changed(gate, g) = "ready" => g = "ready"
    BY NoneIsNone DEF Changed, Gates
  <2>4. QED
    BY <2>1, <2>2, <2>3 DEF g
<1>5. CASE FinishMaterialRefresh(w)
  BY <1>0, <1>5 DEF FinishMaterialRefresh, GoIdle, Written
<1>6. CASE SeesTombstone(w) \/ SkipMaterialRefresh(w) \/ Crash(w)
  BY <1>0, <1>6 DEF SeesTombstone, CancelOwnJob, SkipMaterialRefresh, Crash, GoIdle, sessionVars
<1>7. QED
  BY <1>1, <1>2, <1>3, <1>4, <1>5, <1>6 DEF Quietly

\* A gate that comes out ready has a good document of every required type.
LEMMA ReadyGate ==
    ASSUME NEW st, NEW ar, NEW jb, NEW fl, GateOf(st, ar, jb, fl) = "ready"
    PROVE  \A t \in Required : \E d \in Docs : TypeOf[d] = t /\ Good(st[d], ar[d])
  BY DEF GateOf, ItemReady, Matching, MaterialReady, Good

-----------------------------------------------------------------------------
(* The outcome comes last.                                                 *)

\* A document whose outcome is still to come was so before every step.
LEMMA UnrecordedBefore ==
    ASSUME IInv, IInv', Next, NEW d \in Docs, Unrecorded(d)'
    PROVE  Unrecorded(d)
<1>0. /\ status[d] = "absent" <=> job[d] = "none"
      /\ status'[d] = "absent" <=> job'[d] = "none"
  BY DEF IInv, RowsTogether
<1>1. ASSUME NEW w \in Workers, NEW e \in Docs, Claim(w, e) PROVE Unrecorded(d)
  <2>1. PICK js \in SUBSET Docs :
           /\ e \notin js /\ \A i \in js \cup {e} : job[i] = "queued"
           /\ job' = [i \in Docs |-> IF i = e THEN "processing"
                                     ELSE IF i \in js THEN "cancelled" ELSE job[i]]
           /\ cur[w] = None /\ cur' = [cur EXCEPT ![w] = e]
    BY <1>1, ClaimJobs
  <2>2. pc' = [pc EXCEPT ![w] = "claimed"] /\ status' = status
    BY <1>1 DEF Claim
  <2>3. CASE d = e
    BY <2>1, <2>3 DEF Unrecorded
  <2>4. CASE d # e
    <3>1. \A v \in Workers : cur'[v] = d /\ StillOpen(v)' => cur[v] = d /\ StillOpen(v)
      BY <2>1, <2>2, <2>4 DEF StillOpen, IInv, TypeOK
    <3>2. job'[d] = "queued" => job[d] = "queued"
      BY <2>1, <2>4
    <3>3. QED
      BY <2>2, <3>1, <3>2 DEF Unrecorded
  <2>5. QED
    BY <2>3, <2>4
<1>2. ASSUME NEW w \in Workers, WorkerStep(w) \/ Crash(w), \A e \in Docs : ~Claim(w, e)
      PROVE  Unrecorded(d)
  <2>1. job'[d] \in {"none", "queued"} => job'[d] = job[d]
    BY <1>2, WorkerJobs DEF Finished
  <2>2. \A v \in Workers : cur'[v] = d /\ StillOpen(v)' => cur[v] = d /\ StillOpen(v)
    BY <1>2, OpenJobs, WorkerJobs DEF StillOpen, IInv, TypeOK
  <2>3. QED
    BY <1>0, <2>1, <2>2 DEF Unrecorded
<1>3. ASSUME NEW e \in Docs, RemovalStep(e) PROVE Unrecorded(d)
  <2>1. pc' = pc
    BY <1>3 DEF RemovalStep, FlushDelete, CommitDelete, FlushRollback, CommitRollback,
                AbortRemoval, workerVars
  <2>2. cur' = cur /\ (job'[d] \in {"none", "queued"} => job'[d] = job[d])
    BY <1>3, RemovalJobs
  <2>3. QED
    BY <1>0, <2>1, <2>2 DEF Unrecorded, StillOpen
<1>4. ASSUME NEW e \in Docs, Upload(e) PROVE Unrecorded(d)
  <2>1. UNCHANGED <<pc, cur>> /\ status[e] = "absent"
        /\ (d # e => status'[d] = status[d] /\ job'[d] = job[d])
    BY <1>4 DEF Upload, workerVars, IInv, TypeOK
  <2>2. QED
    BY <2>1 DEF Unrecorded, StillOpen
<1>5. CASE UNCHANGED <<status, job, cur, pc>>
  BY <1>5 DEF Unrecorded, StillOpen
<1>6. QED
  BY <1>1, <1>2, <1>3, <1>4, <1>5 DEF Next, BeginRemoval, TurnRefreshesGate, docVars, workerVars

\* Once a worker has committed an outcome the document waits for none.
LEMMA RecordedThen ==
    ASSUME IInv, IInv', NEW w \in Workers, CommitUpsert(w) \/ CommitFailure(w),
           NEW d \in Docs, d = cur[w]
    PROVE  ~Unrecorded(d)'
<1>1. /\ d # None
      /\ job'[d] \in {"completed", "failed"}
      /\ pc'[w] \in {"committed", "idle"}
      /\ \A v \in Workers \ {w} : cur'[v] = cur[v]
  BY OutcomeRows DEF IInv, TypeOK
<1>2. status'[d] # "absent"
  BY <1>1 DEF IInv, RowsTogether
<1>3. \A v \in Workers : cur'[v] = d => v = w
  BY <1>1 DEF IInv, ClaimExclusive
<1>4. QED
  BY <1>1, <1>2, <1>3 DEF Unrecorded, StillOpen

\* Every step leaves the outcome to the commit that records it.
LEMMA OutcomeLaterInv ==
    ASSUME IInv, IInv', OutcomeLater, Next
    PROVE  OutcomeLater'
<1> SUFFICES ASSUME NEW d \in Docs, Unrecorded(d)'
             PROVE  /\ NoOutcome(art'[d])
                    /\ dtx'[d] # None /\ dtx'[d].art # None => NoOutcome(dtx'[d].art)
  BY DEF OutcomeLater
<1>0. /\ NoOutcome(art[d]) /\ art[d] \in Artifacts
      /\ dtx[d] # None /\ dtx[d].art # None => NoOutcome(dtx[d].art)
  BY UnrecordedBefore DEF OutcomeLater, IInv, TypeOK
<1>1. CASE UNCHANGED <<art, dtx>>
  BY <1>0, <1>1
<1>2. ASSUME NEW w \in Workers, WriteParsed(w)
      PROVE  NoOutcome(art'[d]) /\ dtx' = dtx
  BY <1>0, <1>2, ParsedRows DEF NoOutcome, ParsedArtifact
<1>3. ASSUME NEW w \in Workers, CommitUpsert(w) \/ CommitFailure(w)
      PROVE  NoOutcome(art'[d]) /\ dtx' = dtx
  <2>1. d # cur[w]
    BY <1>3, RecordedThen
  <2>2. QED
    BY <1>0, <1>3, <2>1, OutcomeRows DEF IInv, TypeOK
<1>4. ASSUME NEW e \in Docs, CommitDelete(e) \/ CommitRollback(e)
      PROVE  /\ NoOutcome(art'[d])
             /\ dtx'[d] # None /\ dtx'[d].art # None => NoOutcome(dtx'[d].art)
  <2>1. dtx'[d] = None \/ dtx'[d] = dtx[d]
    BY <1>4, RemovedRows DEF IInv, TypeOK
  <2>2. NoOutcome(art'[d])
    BY <1>0, <1>4, RemovedRows DEF Written
  <2>3. QED
    BY <1>0, <2>1, <2>2
<1>5. ASSUME NEW e \in Docs, FlushDelete(e) \/ FlushRollback(e) \/ AbortRemoval(e)
      PROVE  /\ art' = art
             /\ dtx'[d] # None /\ dtx'[d].art # None => NoOutcome(dtx'[d].art)
  BY <1>0, <1>5, OpenRemovals
<1>6. ASSUME NEW e \in Docs, NEW kind \in {"delete", "rollback"}, BeginRemoval(e, kind)
      PROVE  /\ art' = art
             /\ dtx'[d] # None /\ dtx'[d].art # None => NoOutcome(dtx'[d].art)
  <2>1. NoOutcome(Removed(art[d]))
    BY <1>0 DEF NoOutcome, Removed, Artifacts
  <2>2. CASE d = e
    BY <1>6, <2>1, <2>2, BegunRemoval DEF Changed
  <2>3. CASE d # e
    BY <1>0, <1>6, <2>3, BegunRemoval
  <2>4. QED
    BY <1>6, <2>2, <2>3, BegunRemoval
<1>7. QED
  BY <1>0, <1>1, <1>2, <1>3, <1>4, <1>5, <1>6, QuietRows
     DEF Next, WorkerStep, Quietly, RemovalStep, Upload, TurnRefreshesGate, docVars

\* Only tickets are rolled back.
LEMMA RollbacksInv ==
    ASSUME IInv, RollbacksAreTickets, Next
    PROVE  RollbacksAreTickets'
<1> SUFFICES ASSUME NEW d \in Docs, dtx'[d] # None, dtx'[d].kind = "rollback"
             PROVE  d \in TicketDocs
  BY DEF RollbacksAreTickets
<1>1. CASE dtx' = dtx
  BY <1>1 DEF RollbacksAreTickets
<1>2. ASSUME NEW e \in Docs, RemovalStep(e) PROVE d \in TicketDocs
  <2>1. CASE CommitDelete(e) \/ CommitRollback(e)
    BY <2>1, RemovedRows DEF RollbacksAreTickets, IInv, TypeOK
  <2>2. CASE FlushDelete(e) \/ FlushRollback(e) \/ AbortRemoval(e)
    BY <2>2, OpenRemovals DEF RollbacksAreTickets
  <2>3. QED
    BY <1>2, <2>1, <2>2 DEF RemovalStep
<1>3. ASSUME NEW e \in Docs, NEW kind \in {"delete", "rollback"}, BeginRemoval(e, kind)
      PROVE  d \in TicketDocs
  <2>1. d = e => d \in TicketDocs
    BY <1>3, BegunRemoval
  <2>2. d # e => dtx'[d] = dtx[d]
    BY <1>3, BegunRemoval
  <2>3. QED
    BY <2>1, <2>2 DEF RollbacksAreTickets
<1>4. QED
  BY <1>1, <1>2, <1>3, QuietRows, ParsedRows, OutcomeRows
     DEF Next, WorkerStep, Quietly, Upload, TurnRefreshesGate

-----------------------------------------------------------------------------
(* Boards.                                                                 *)

InBoard(s, a) == a.result /\ ~RowTombstoned(s, a)

\* The board of rows one of which is replaced.
BoardAt(st, ar, x, s, a) == BoardOf([st EXCEPT ![x] = s], [ar EXCEPT ![x] = a])

LEMMA BoardWithAt == \A d, s, a : BoardWith(d, s, a) = BoardAt(status, art, d, s, a)
  BY DEF BoardWith, StatusWith, ArtWith, BoardAt

\* Boards of rows agree when every document has the same place in both.
LEMMA BoardRows ==
    ASSUME NEW st, NEW ar, NEW st2, NEW ar2,
           \A e \in Docs : InBoard(st[e], ar[e]) <=> InBoard(st2[e], ar2[e])
    PROVE  BoardOf(st, ar) = BoardOf(st2, ar2)
  BY DEF BoardOf, InBoard

\* Boards in which one row is replaced agree when the other rows do.
LEMMA BoardsAgree ==
    ASSUME NEW st \in [Docs -> Statuses], NEW ar \in [Docs -> Artifacts],
           NEW st2 \in [Docs -> Statuses], NEW ar2 \in [Docs -> Artifacts],
           NEW x \in Docs, NEW s, NEW a,
           \A e \in Docs : e # x => (InBoard(st[e], ar[e]) <=> InBoard(st2[e], ar2[e]))
    PROVE  BoardAt(st, ar, x, s, a) = BoardAt(st2, ar2, x, s, a)
<1> DEFINE s1 == [st EXCEPT ![x] = s]
           a1 == [ar EXCEPT ![x] = a]
           s2 == [st2 EXCEPT ![x] = s]
           a2 == [ar2 EXCEPT ![x] = a]
<1>1. s1[x] = s /\ a1[x] = a /\ s2[x] = s /\ a2[x] = a
  OBVIOUS
<1>2. \A e \in Docs : e # x =>
         s1[e] = st[e] /\ a1[e] = ar[e] /\ s2[e] = st2[e] /\ a2[e] = ar2[e]
  OBVIOUS
<1> HIDE DEF s1, a1, s2, a2
<1>3. BoardOf(s1, a1) = BoardOf(s2, a2)
  BY <1>1, <1>2, BoardRows DEF InBoard
<1>4. QED
  BY <1>3 DEF BoardAt, s1, a1, s2, a2

\* A step that starts no board and changes no document's place on the board.
LEMMA BoardsKept ==
    ASSUME IInv, IInv', BoardsSerial, snap' = snap,
           \A e \in Docs : InBoard(status'[e], art'[e]) <=> InBoard(status[e], art[e]),
           \A v \in Workers : pc'[v] \in {"committing", "failing"} =>
              /\ pc'[v] = pc[v] /\ cur'[v] = cur[v] /\ wtx'[v] = wtx[v]
              /\ status'[cur[v]] = status[cur[v]] /\ art'[cur[v]] = art[cur[v]],
           \A d \in Docs : dtx'[d] # None /\ dtx'[d].kind = "rollback" /\ dtx'[d].flushed =>
              dtx'[d] = dtx[d] /\ art'[d] = art[d]
    PROVE  BoardsSerial'
<1>0. /\ status \in [Docs -> Statuses] /\ art \in [Docs -> Artifacts]
      /\ status' \in [Docs -> Statuses] /\ art' \in [Docs -> Artifacts]
  BY DEF IInv, TypeOK
<1>1. BoardSerial'
  BY <1>0, BoardRows DEF BoardsSerial, BoardSerial
<1>2. WorkerBoards'
  <2> SUFFICES ASSUME NEW v \in Workers, pc'[v] \in {"committing", "failing"}
               PROVE  Written(wtx'[v].board, snap') =
                         BoardAt(status', art', cur'[v], status'[cur'[v]],
                                 Understood(art'[cur'[v]], Outcome(v)'))
    BY DEF WorkerBoards, BoardWith, StatusWith, ArtWith, BoardAt
  <2>1. /\ pc'[v] = pc[v] /\ cur'[v] = cur[v] /\ wtx'[v] = wtx[v] /\ Outcome(v)' = Outcome(v)
        /\ status'[cur[v]] = status[cur[v]] /\ art'[cur[v]] = art[cur[v]]
    BY DEF Outcome
  <2>2. cur[v] \in Docs
    BY <2>1 DEF IInv, WorkerShape
  <2>3. Written(wtx[v].board, snap) =
           BoardAt(status, art, cur[v], status[cur[v]], Understood(art[cur[v]], Outcome(v)))
    BY <2>1, BoardWithAt DEF BoardsSerial, WorkerBoards
  <2>4. QED
    BY <1>0, <2>1, <2>2, <2>3, BoardsAgree
<1>3. RollbackBoards'
  <2> SUFFICES ASSUME NEW d \in Docs, dtx'[d] # None, dtx'[d].kind = "rollback", dtx'[d].flushed
               PROVE  Written(dtx'[d].board, snap') =
                         BoardAt(status', art', d, "tombstoned", art'[d])
    BY DEF RollbackBoards, BoardWith, StatusWith, ArtWith, BoardAt
  <2>1. dtx'[d] = dtx[d] /\ art'[d] = art[d]
    OBVIOUS
  <2>2. Written(dtx[d].board, snap) =
           BoardAt(status, art, d, "tombstoned", art[d])
    BY <2>1, BoardWithAt DEF BoardsSerial, RollbackBoards
  <2>3. QED
    BY <1>0, <2>1, <2>2, BoardsAgree
<1>4. QED
  BY <1>1, <1>2, <1>3 DEF BoardsSerial

\* A step that opens no work and changes no row somebody works on.
LEMMA WorkKept ==
    ASSUME WorkSerial,
           \A v \in Workers : AtWork(v)' =>
              /\ AtWork(v) /\ cur'[v] = cur[v]
              /\ status'[cur[v]] = status[cur[v]] /\ art'[cur[v]] = art[cur[v]],
           \A v \in Workers : Reads(v)' => Reads(v) /\ view'[v] = view[v],
           \A d \in Docs : dtx'[d] # None =>
              /\ dtx[d] # None /\ dtx'[d].status = dtx[d].status
              /\ status'[d] = status[d]
    PROVE  WorkSerial'
<1>1. \A v \in Workers : Reads(v)' => AtWork(v)'
  BY DEF Reads, AtWork
<1>2. LiveAtWork' /\ CopiesFresh'
  BY <1>1 DEF WorkSerial, LiveAtWork, CopiesFresh, Tombstoned
<1>3. StillRemoved'
  BY DEF WorkSerial, StillRemoved
<1>4. QED
  BY <1>2, <1>3 DEF WorkSerial

\* A step that computes and writes no gate and takes no document's backing away.
LEMMA GateKept ==
    ASSUME GateSerial, \A d \in Docs : Backed(d) => Backed(d)',
           gate' = "ready" => gate = "ready",
           \A v \in Workers : pc'[v] = "notifying" /\ wtx'[v].gate = "ready" =>
              pc[v] = "notifying" /\ wtx[v].gate = "ready"
    PROVE  GateSerial'
<1>1. Earned => Earned'
  BY DEF Earned
<1>2. QED
  BY <1>1 DEF GateSerial

\* A live document whose outcome is still to come backs no item.
LEMMA NotBacked ==
    ASSUME OutcomeLater, NEW d \in Docs, Unrecorded(d), ~Tombstoned(d)
    PROVE  ~Backed(d)
  BY DEF OutcomeLater, NoOutcome, Backed, Good

-----------------------------------------------------------------------------
(* While nothing collides.                                                 *)

\* The steps of a worker that write no outcome.
LEMMA QuietSerial ==
    ASSUME IInv, IInv', SInv, NEW w \in Workers, Quietly(w)
    PROVE  SInv'
<1>0. UNCHANGED <<status, art, dtx>>
  BY QuietRows
<1>1. WorkSerial'
  <2>1. \A v \in Workers : Reads(v) => view[v].status = status[cur[v]] /\ view[v].art = art[cur[v]]
    BY DEF SInv, WorkSerial, CopiesFresh
  <2>2. CopiesFresh'
    <3> SUFFICES ASSUME NEW v \in Workers, Reads(v)'
                 PROVE  view'[v].status = status'[cur'[v]] /\ view'[v].art = art'[cur'[v]]
      BY DEF CopiesFresh
    <3>1. /\ cur'[v] = cur[v]
          /\ \/ Reads(v) /\ view'[v] = view[v]
             \/ view'[v] = [status |-> status[cur[v]], art |-> art[cur[v]]]
      BY QuietWork
    <3>2. QED
      BY <1>0, <2>1, <3>1
  <2>3. LiveAtWork'
    BY <1>0, QuietWork DEF SInv, WorkSerial, LiveAtWork, Tombstoned
  <2>4. StillRemoved'
    BY <1>0 DEF SInv, WorkSerial, StillRemoved
  <2>5. QED
    BY <2>2, <2>3, <2>4 DEF WorkSerial
<1>2. CopiesFresh /\ BoardsSerial
  BY DEF SInv, WorkSerial
<1>3. snap' = snap /\ field' = field
  BY DEF Quietly, Claim, SeesTombstone, CancelOwnJob, StartParse, RefreshBeforeWrite,
     StartUnderstanding, FlushUpsert, StartMaterialRefresh, FinishMaterialRefresh,
     SkipMaterialRefresh, Raise, LoadForFailure, FlushFailure, Crash, sessionVars
<1>4. BoardsSerial'
  <2>1. BoardSerial' /\ RollbackBoards'
    BY <1>0, <1>2, <1>3 DEF BoardsSerial, BoardSerial, RollbackBoards, BoardWith, StatusWith, ArtWith
  <2>2. WorkerBoards'
    <3> SUFFICES ASSUME NEW v \in Workers, pc'[v] \in {"committing", "failing"}
                 PROVE  Written(wtx'[v].board, snap) =
                          BoardWith(cur[v], status[cur[v]], Understood(art[cur[v]], Outcome(v)'))
      BY <1>0, <1>2, <1>3, QuietBoards DEF WorkerBoards, BoardWith, StatusWith, ArtWith
    <3>1. \/ pc'[v] = pc[v] /\ wtx'[v] = wtx[v]
          \/ Written(wtx'[v].board, snap) =
                    BoardWith(cur[v], status[cur[v]], Understood(art[cur[v]], Outcome(v)'))
      BY <1>2, QuietBoards
    <3>2. CASE pc'[v] = pc[v] /\ wtx'[v] = wtx[v]
      <4>1. Outcome(v)' = Outcome(v)
        BY <3>2 DEF Outcome
      <4>2. QED
        BY <1>2, <3>2, <4>1 DEF BoardsSerial, WorkerBoards
    <3>3. QED
      BY <3>1, <3>2
  <2>3. QED
    BY <2>1, <2>2 DEF BoardsSerial
<1>5. ProfileSerial'
  BY <1>0, <1>3 DEF SInv, ProfileSerial, Tombstoned
<1>6. GateSerial'
  <2>1. Earned' <=> Earned
    BY <1>0 DEF Earned, Backed, Tombstoned
  <2>2. GateOf(status, art, job, field) = "ready" => Earned
    BY ReadyGate DEF Earned, Backed
  <2>3. QED
    BY <2>1, <2>2, QuietGates DEF SInv, GateSerial
<1>7. QED
  BY <1>1, <1>4, <1>5, <1>6 DEF SInv

\* A worker before its commit has not recorded its document's outcome.
LEMMA WorkersDocument ==
    ASSUME IInv, OutcomeLater, NEW w \in Workers, AtWork(w)
    PROVE  /\ cur[w] \in Docs /\ cur[w] # None
           /\ \A v \in Workers : cur[v] = cur[w] => v = w
           /\ Unrecorded(cur[w]) /\ NoOutcome(art[cur[w]])
<1>1. cur[w] \in Docs
  BY DEF AtWork, IInv, WorkerShape
<1>2. cur[w] # None
  BY <1>1, NoneIsNone
<1>3. Unrecorded(cur[w])
  BY DEF Unrecorded, AtWork, StillOpen
<1>4. QED
  BY <1>1, <1>2, <1>3 DEF OutcomeLater, IInv, ClaimExclusive

\* The parse write: the document had no result before it and has none after.
LEMMA ParseSerial ==
    ASSUME IInv, IInv', MInv, OutcomeLater, SInv, NEW w \in Workers, WriteParsed(w)
    PROVE  SInv'
<1> DEFINE d == cur[w]
<1>1. /\ d \in Docs /\ pc[w] = "writing" /\ pc' = [pc EXCEPT ![w] = "rechecking"]
      /\ status'[d] \in {"parsed", "unsupported"} /\ art'[d] = ParsedArtifact
      /\ \A e \in Docs \ {d} : status'[e] = status[e] /\ art'[e] = art[e]
      /\ UNCHANGED <<job, snap, field, gate, cur, view, wtx, dtx, overlap>>
  BY ParsedRows
<1>2. /\ \A v \in Workers : cur[v] = d => v = w
      /\ Unrecorded(d) /\ NoOutcome(art[d])
  BY <1>1, WorkersDocument DEF AtWork
<1>3. ~Tombstoned(d)
  BY <1>1 DEF SInv, WorkSerial, LiveAtWork, AtWork
<1>4. \A v \in Workers : v # w => pc'[v] = pc[v]
  BY <1>1 DEF IInv, TypeOK
<1>5. pc'[w] = "rechecking"
  BY <1>1 DEF IInv, TypeOK
<1>6. \A v \in Workers : AtWork(v) => cur[v] \in Docs
  BY DEF AtWork, IInv, WorkerShape
<1> HIDE DEF d
<1>7. \A v \in Workers : AtWork(v)' => v # w /\ AtWork(v) /\ cur[v] \in Docs \ {d}
  BY <1>2, <1>4, <1>5, <1>6 DEF AtWork
<1>8. WorkSerial'
  <2>1. \A e \in Docs : dtx[e] # None /\ dtx[e].status = None => e # d
    BY <1>3 DEF SInv, WorkSerial, StillRemoved, Tombstoned, RowTombstoned
  <2>2. \A v \in Workers : Reads(v)' => Reads(v)
    BY <1>4, <1>5 DEF Reads
  <2>3. LiveAtWork'
    BY <1>1, <1>7 DEF SInv, WorkSerial, LiveAtWork, Tombstoned
  <2>4. CopiesFresh'
    <3>1. \A v \in Workers : Reads(v)' => AtWork(v)'
      BY DEF Reads, AtWork
    <3>2. QED
      BY <1>1, <1>7, <2>2, <3>1 DEF SInv, WorkSerial, CopiesFresh
  <2>5. StillRemoved'
    BY <1>1, <2>1 DEF SInv, WorkSerial, StillRemoved
  <2>6. QED
    BY <2>3, <2>4, <2>5 DEF WorkSerial
<1>9. BoardsSerial'
  <2>1. \A e \in Docs : InBoard(status'[e], art'[e]) <=> InBoard(status[e], art[e])
    BY <1>1, <1>2 DEF InBoard, NoOutcome, ParsedArtifact
  <2>2. \A v \in Workers : pc'[v] \in {"committing", "failing"} =>
           /\ pc'[v] = pc[v] /\ cur'[v] = cur[v] /\ wtx'[v] = wtx[v]
           /\ status'[cur[v]] = status[cur[v]] /\ art'[cur[v]] = art[cur[v]]
    BY <1>1, <1>4, <1>7 DEF AtWork
  <2>3. \A e \in Docs : dtx'[e] # None /\ dtx'[e].kind = "rollback" /\ dtx'[e].flushed =>
           dtx'[e] = dtx[e] /\ art'[e] = art[e]
    BY <1>1 DEF WriteParsed, DocLocked, d
  <2>4. QED
    BY <1>1, <2>1, <2>2, <2>3, BoardsKept DEF SInv
<1>10. ProfileSerial'
  <2>1. \A e \in Docs : Tombstoned(e)' => Tombstoned(e)
    BY <1>1 DEF Tombstoned, RowTombstoned, ParsedArtifact
  <2>2. field.refs \subseteq Docs
    BY DEF IInv, TypeOK, Fields
  <2>3. QED
    BY <1>1, <2>1, <2>2 DEF SInv, ProfileSerial
<1>11. GateSerial'
  <2>1. ~Backed(d)
    BY <1>1, <1>2, <1>3, NotBacked
  <2>2. \A e \in Docs : Backed(e) => Backed(e)'
    BY <1>1, <2>1 DEF Backed, Tombstoned
  <2>3. \A v \in Workers : pc'[v] = "notifying" => pc[v] = "notifying"
    BY <1>4, <1>5
  <2>4. QED
    BY <1>1, <2>2, <2>3, GateKept DEF SInv
<1>12. QED
  BY <1>8, <1>9, <1>10, <1>11 DEF SInv

\* An upload: the new document is nowhere yet.
LEMMA UploadSerial ==
    ASSUME IInv, IInv', MInv, OutcomeLater, SInv, NEW d \in Docs, Upload(d)
    PROVE  SInv'
<1>1. /\ status[d] = "absent" /\ job[d] = "none" /\ dtx[d] = None
      /\ status'[d] = "uploaded" /\ ~art[d].tomb
      /\ \A e \in Docs \ {d} : status'[e] = status[e]
      /\ UNCHANGED <<art, snap, field, pc, cur, view, wtx, dtx, overlap>>
      /\ gate' = GateOf(status', art, job', field)
  BY DEF Upload, IInv, TypeOK, RowsTogether, MInv, Marks, workerVars
<1>2. ~Tombstoned(d) /\ ~Tombstoned(d)' /\ Unrecorded(d) /\ NoOutcome(art[d])
  BY <1>1 DEF Tombstoned, RowTombstoned, Unrecorded, OutcomeLater
<1>3. \A v \in Workers : AtWork(v) => cur[v] \in Docs \ {d}
  BY <1>1, NoneIsNone DEF AtWork, IInv, WorkerShape, HeldLeftQueue
<1>4. WorkSerial'
  <2>1. \A v \in Workers : AtWork(v)' =>
           /\ AtWork(v) /\ cur'[v] = cur[v]
           /\ status'[cur[v]] = status[cur[v]] /\ art'[cur[v]] = art[cur[v]]
    BY <1>1, <1>3 DEF AtWork
  <2>2. \A v \in Workers : Reads(v)' => Reads(v) /\ view'[v] = view[v]
    BY <1>1 DEF Reads
  <2>3. QED
    BY <1>1, <2>1, <2>2, WorkKept DEF SInv
<1>5. BoardsSerial'
  <2>1. \A e \in Docs : InBoard(status'[e], art'[e]) <=> InBoard(status[e], art[e])
    BY <1>1, <1>2 DEF InBoard, NoOutcome
  <2>2. \A v \in Workers : pc'[v] \in {"committing", "failing"} =>
           /\ pc'[v] = pc[v] /\ cur'[v] = cur[v] /\ wtx'[v] = wtx[v]
           /\ status'[cur[v]] = status[cur[v]] /\ art'[cur[v]] = art[cur[v]]
    BY <1>1, <1>3 DEF AtWork
  <2>3. QED
    BY <1>1, <2>1, <2>2, BoardsKept DEF SInv
<1>6. ProfileSerial'
  <2>1. \A e \in Docs : Tombstoned(e)' => Tombstoned(e)
    BY <1>1, <1>2 DEF Tombstoned
  <2>2. field.refs \subseteq Docs
    BY DEF IInv, TypeOK, Fields
  <2>3. QED
    BY <1>1, <2>1, <2>2 DEF SInv, ProfileSerial
<1>7. GateSerial'
  <2>1. ~Backed(d)
    BY <1>2, NotBacked
  <2>2. Earned => Earned'
    BY <1>1, <2>1 DEF Earned, Backed, Tombstoned
  <2>3. gate' = "ready" => Earned'
    <3>1. GateOf(status', art, job', field) = "ready" =>
             \A t \in Required : \E e \in Docs : TypeOf[e] = t /\ Good(status'[e], art[e])
      BY ReadyGate
    <3>2. QED
      BY <1>1, <3>1 DEF Earned, Backed
  <2>4. QED
    BY <1>1, <2>2, <2>3 DEF SInv, GateSerial
<1>8. QED
  BY <1>4, <1>5, <1>6, <1>7 DEF SInv

\* A user turn recomputes the gate from the rows.
LEMMA TurnSerial ==
    ASSUME IInv, IInv', SInv, TurnRefreshesGate
    PROVE  SInv'
<1>1. /\ UNCHANGED <<status, art, snap, field, pc, cur, view, wtx, dtx>>
      /\ gate' = GateOf(status, art, job, field)
  BY DEF TurnRefreshesGate, docVars, workerVars
<1>2. WorkSerial'
  BY <1>1, WorkKept DEF SInv, AtWork, Reads
<1>3. BoardsSerial'
  BY <1>1, BoardsKept DEF SInv
<1>4. ProfileSerial'
  BY <1>1 DEF SInv, ProfileSerial, Tombstoned
<1>5. GateSerial'
  <2>1. Earned <=> Earned'
    BY <1>1 DEF Earned, Backed, Tombstoned
  <2>2. gate' = "ready" => Earned
    <3>1. GateOf(status, art, job, field) = "ready" => Earned
      BY ReadyGate DEF Earned, Backed
    <3>2. QED
      BY <1>1, <3>1
  <2>3. QED
    BY <1>1, <2>1, <2>2 DEF SInv, GateSerial
<1>6. QED
  BY <1>2, <1>3, <1>4, <1>5 DEF SInv

\* A removal that begins, takes its locks or gives up: no row changes.
LEMMA OpenSerial ==
    ASSUME IInv, IInv', SInv, NEW e \in Docs,
           \/ FlushDelete(e) \/ FlushRollback(e) \/ AbortRemoval(e)
           \/ \E kind \in {"delete", "rollback"} : BeginRemoval(e, kind)
    PROVE  SInv'
<1>1. UNCHANGED <<status, art, snap, field, gate, pc, cur, view, wtx>>
  BY OpenRemovals, BegunRemoval
<1>2. ProfileSerial' /\ GateSerial'
  <2>1. (Earned <=> Earned') /\ ProfileSerial'
    BY <1>1 DEF Earned, Backed, Tombstoned, SInv, ProfileSerial
  <2>2. QED
    BY <1>1, <2>1 DEF SInv, GateSerial
<1>3. LiveAtWork' /\ CopiesFresh'
  BY <1>1 DEF SInv, WorkSerial, LiveAtWork, AtWork, CopiesFresh, Reads, Tombstoned
<1>4. BoardSerial' /\ WorkerBoards'
  <2>1. BoardSerial'
    BY <1>1 DEF SInv, BoardsSerial, BoardSerial
  <2>2. \A v \in Workers : Outcome(v)' = Outcome(v)
    BY <1>1 DEF Outcome
  <2>3. QED
    BY <1>1, <2>1, <2>2 DEF SInv, BoardsSerial, WorkerBoards, BoardWith, StatusWith, ArtWith
<1>5. CASE \E kind \in {"delete", "rollback"} : BeginRemoval(e, kind)
  <2>1. /\ \A d \in Docs \ {e} : dtx'[d] = dtx[d]
        /\ ~dtx'[e].flushed
        /\ dtx'[e].status = Changed(status[e], "tombstoned")
    BY <1>5, BegunRemoval
  <2>2. dtx'[e].status = None => status[e] = "tombstoned"
    BY <2>1, NoneIsNone DEF Changed, Statuses
  <2>3. StillRemoved'
    BY <1>1, <2>1, <2>2 DEF SInv, WorkSerial, StillRemoved
  <2>4. RollbackBoards'
    BY <1>1, <2>1 DEF SInv, BoardsSerial, RollbackBoards, BoardWith, StatusWith, ArtWith
  <2>5. QED
    BY <1>2, <1>3, <1>4, <2>3, <2>4 DEF SInv, WorkSerial, BoardsSerial
<1>6. CASE FlushDelete(e) \/ FlushRollback(e) \/ AbortRemoval(e)
  <2>1. StillRemoved'
    BY <1>1, <1>6, OpenRemovals DEF SInv, WorkSerial, StillRemoved
  <2>2. ASSUME NEW d \in Docs, dtx'[d] # None, dtx'[d].kind = "rollback", dtx'[d].flushed
        PROVE  Written(dtx'[d].board, snap) = BoardWith(d, "tombstoned", art[d])
    <3>1. CASE d # e \/ ~FlushRollback(e)
      <4>1. dtx'[d] = dtx[d]
        BY <1>6, <2>2, <3>1, OpenRemovals
      <4>2. QED
        BY <2>2, <4>1 DEF SInv, BoardsSerial, RollbackBoards
    <3>2. CASE d = e /\ FlushRollback(e)
      <4>1. PICK b \in BoardWrites(BoardWith(e, "tombstoned", art[e])) :
               dtx' = [dtx EXCEPT ![e] = [dtx[e] EXCEPT !.flushed = TRUE, !.board = b]]
        BY <3>2 DEF FlushRollback
      <4>2. dtx'[e].board = b
        <5> DEFINE t == [dtx[e] EXCEPT !.flushed = TRUE, !.board = b]
        <5>1. dtx[e] \in RemovalTxs /\ dtx \in [Docs -> RemovalTxs \cup {None}]
          BY <3>2 DEF FlushRollback, IInv, TypeOK
        <5>2. t.board = b
          BY <5>1 DEF RemovalTxs
        <5>3. dtx' = [dtx EXCEPT ![e] = t]
          BY <4>1
        <5> HIDE DEF t
        <5>4. QED
          BY <5>1, <5>2, <5>3
      <4>3. BoardWith(e, "tombstoned", art[e]) \in SUBSET Docs
        BY DerivedTypes DEF BoardWith
      <4>4. QED
        BY <3>2, <4>1, <4>2, <4>3, BoardWritten
    <3>3. QED
      BY <3>1, <3>2
  <2>3. RollbackBoards'
    BY <1>1, <2>2 DEF RollbackBoards, BoardWith, StatusWith, ArtWith
  <2>4. QED
    BY <1>2, <1>3, <1>4, <2>1, <2>3 DEF SInv, WorkSerial, BoardsSerial
<1>7. QED
  BY <1>5, <1>6

\* What does not collide: nobody else is between computing a board or a gate
\* and writing it, and nobody who has read d goes on with it.
LEMMA Undisturbed ==
    ASSUME NEW self, NEW d \in Docs, ~Collides(self, d), NEW v \in Workers, v # self
    PROVE  /\ pc[v] \notin {"committing", "failing"}
           /\ pc[v] = "notifying" => wtx[v].gate # "ready"
           /\ AtWork(v) => cur[v] # d
<1>1. /\ pc[v] \notin {"committing", "failing"}
      /\ pc[v] = "notifying" => wtx[v].gate = None
      /\ cur[v] = d => pc[v] \notin {"writing", "understanding", "reporting"}
  BY DEF Collides, Working
<1>2. QED
  BY <1>1, NoneIsNone DEF AtWork, Gates

\* The commit of an outcome.
LEMMA OutcomeSerial ==
    ASSUME IInv, IInv', MInv, OutcomeLater, SInv, NEW w \in Workers,
           CommitUpsert(w) \/ CommitFailure(w), ~overlap'
    PROVE  SInv'
<1> DEFINE d == cur[w]
           a == Understood(view[w].art, Outcome(w))
<1>1. /\ d \in Docs /\ pc[w] \in {"committing", "failing"}
      /\ Outcome(w) \in {"completed", "failed"}
      /\ status' = status /\ dtx' = dtx
      /\ art' = [art EXCEPT ![d] = a]
      /\ snap' = Written(wtx[w].board, snap)
      /\ pc'[w] \in {"committed", "idle"}
      /\ \A v \in Workers \ {w} : UNCHANGED <<pc[v], cur[v], view[v], wtx[v]>>
      /\ ~Collides(w, d)
  BY OutcomeRows
<1>2. /\ \A v \in Workers : cur[v] = d => v = w
      /\ Unrecorded(d) /\ AtWork(w)
  BY <1>1, WorkersDocument DEF AtWork
<1>3. ~Tombstoned(d) /\ view[w].status = status[d] /\ view[w].art = art[d]
  BY <1>1, <1>2 DEF SInv, WorkSerial, LiveAtWork, CopiesFresh, Reads
<1>4. art[d] \in Artifacts /\ a.tomb = art[d].tomb
  BY <1>1, <1>3 DEF IInv, TypeOK, Understood, Artifacts
<1>5. \A v \in Workers \ {w} :
         /\ pc[v] \notin {"committing", "failing"}
         /\ pc[v] = "notifying" => wtx[v].gate # "ready"
  BY <1>1, Undisturbed
<1>6. \A e \in Docs : ~(dtx[e] # None /\ dtx[e].kind = "rollback" /\ dtx[e].flushed)
  BY <1>1, NoneIsNone DEF Collides
<1>7. a = Understood(art[d], Outcome(w))
  BY <1>3
<1>8. art'[d] = a /\ \A e \in Docs \ {d} : art'[e] = art[e]
  BY <1>1 DEF IInv, TypeOK
<1>9. \A v \in Workers : AtWork(v) => cur[v] \in Docs
  BY DEF AtWork, IInv, WorkerShape
<1> HIDE DEF a, d
<1>10. \A e \in Docs : Tombstoned(e)' <=> Tombstoned(e)
  BY <1>1, <1>4, <1>8 DEF Tombstoned, RowTombstoned
<1>11. WorkSerial'
  <2>1. \A v \in Workers : AtWork(v)' => v # w /\ AtWork(v) /\ cur[v] \in Docs \ {d}
    BY <1>1, <1>2, <1>9 DEF AtWork
  <2>2. \A v \in Workers : AtWork(v)' =>
           /\ AtWork(v) /\ cur'[v] = cur[v]
           /\ status'[cur[v]] = status[cur[v]] /\ art'[cur[v]] = art[cur[v]]
    BY <1>1, <1>8, <2>1
  <2>3. \A v \in Workers : Reads(v)' => Reads(v) /\ view'[v] = view[v]
    BY <1>1 DEF Reads
  <2>4. QED
    BY <1>1, <2>2, <2>3, WorkKept DEF SInv
<1>12. BoardsSerial'
  <2>1. Written(wtx[w].board, snap) = BoardAt(status, art, d, status[d], a)
    BY <1>1, <1>7, BoardWithAt DEF SInv, BoardsSerial, WorkerBoards, d
  <2>2. status' = [status EXCEPT ![d] = status[d]]
    BY <1>1 DEF IInv, TypeOK
  <2>3. BoardSerial'
    BY <1>1, <2>1, <2>2 DEF BoardSerial, BoardAt
  <2>4. WorkerBoards' /\ RollbackBoards'
    BY <1>1, <1>5, <1>6 DEF WorkerBoards, RollbackBoards
  <2>5. QED
    BY <2>3, <2>4 DEF BoardsSerial
<1>13. field.refs \subseteq Docs
  BY DEF IInv, TypeOK, Fields
<1>14. \A v \in Workers : pc'[v] = "notifying" => wtx'[v].gate # "ready"
  BY <1>1, <1>5
<1>15. CASE CommitUpsert(w)
  <2> DEFINE st == StatusWith(d, view[w].status)
             ar == ArtWith(d, Understood(view[w].art, wtx[w].outcome))
  <2>1. st = status' /\ ar = art'
    <3>1. st = status'
      BY <1>1, <1>3 DEF StatusWith, IInv, TypeOK
    <3>2. ar = art'
      BY <1>15 DEF CommitUpsert, d
    <3>3. QED
      BY <3>1, <3>2
  <2>2. field' = FieldOf(st, ar) /\ gate' = GateOf(st, ar, job', field')
    BY <1>15 DEF CommitUpsert, d
  <2> HIDE DEF st, ar
  <2>3. ProfileSerial'
    BY <2>1, <2>2 DEF ProfileSerial, FieldOf, Tombstoned
  <2>4. gate' = "ready" => Earned'
    <3>1. GateOf(status', art', job', field') = "ready" =>
             \A t \in Required : \E e \in Docs : TypeOf[e] = t /\ Good(status'[e], art'[e])
      BY ReadyGate
    <3>2. QED
      BY <2>1, <2>2, <3>1 DEF Earned, Backed
  <2>5. GateSerial'
    BY <1>14, <2>4 DEF GateSerial
  <2>6. QED
    BY <1>11, <1>12, <2>3, <2>5 DEF SInv
<1>16. CASE CommitFailure(w)
  <2>1. field' = field /\ gate' = gate
    BY <1>16 DEF CommitFailure
  <2>2. ProfileSerial'
    BY <1>10, <1>13, <2>1 DEF SInv, ProfileSerial
  <2>3. ~Backed(d)
    BY <1>1, <1>2, <1>3, NotBacked
  <2>4. \A e \in Docs : Backed(e) => Backed(e)'
    BY <1>1, <1>8, <2>3 DEF Backed, Tombstoned
  <2>5. GateSerial'
    BY <1>14, <2>1, <2>4, GateKept DEF SInv
  <2>6. QED
    BY <1>11, <1>12, <2>2, <2>5 DEF SInv
<1>17. QED
  BY <1>15, <1>16

\* The commit of a removal.
LEMMA RemovalSerial ==
    ASSUME IInv, IInv', MInv, OutcomeLater, RollbacksAreTickets, SInv, NEW d \in Docs,
           CommitDelete(d) \/ CommitRollback(d), ~overlap'
    PROVE  SInv'
<1>1. /\ dtx[d] # None
      /\ dtx' = [dtx EXCEPT ![d] = None]
      /\ status'[d] = Written(dtx[d].status, status[d])
      /\ art'[d] = Written(dtx[d].art, art[d])
      /\ \A e \in Docs \ {d} : status'[e] = status[e] /\ art'[e] = art[e]
      /\ UNCHANGED <<evidence, pc, cur, view, wtx>>
  BY RemovedRows
<1>2. ~Collides(None, d)
  BY DEF CommitDelete, CommitRollback, NoteCommit
<1>3. status'[d] = "tombstoned"
  <2>1. dtx[d].status \in {None, "tombstoned"}
    BY <1>1 DEF IInv, RowsTogether
  <2>2. dtx[d].status = None => status[d] = "tombstoned"
    BY <1>1 DEF SInv, WorkSerial, StillRemoved
  <2>3. QED
    BY <1>1, <2>1, <2>2 DEF Written
<1>4. \A v \in Workers :
         /\ pc[v] \notin {"committing", "failing"}
         /\ pc[v] = "notifying" => wtx[v].gate # "ready"
         /\ AtWork(v) => cur[v] # d
  BY <1>2, Undisturbed, NoneIsNone
<1>5. \A e \in Docs : e # d =>
         ~(dtx[e] # None /\ dtx[e].kind = "rollback" /\ dtx[e].flushed)
  BY <1>2 DEF Collides
<1>6. \A v \in Workers : AtWork(v) => cur[v] \in Docs
  BY DEF AtWork, IInv, WorkerShape
<1>7. dtx'[d] = None /\ \A e \in Docs \ {d} : dtx'[e] = dtx[e]
  BY <1>1 DEF IInv, TypeOK
<1>8. WorkSerial'
  <2>1. \A v \in Workers : AtWork(v)' =>
           /\ AtWork(v) /\ cur'[v] = cur[v]
           /\ status'[cur[v]] = status[cur[v]] /\ art'[cur[v]] = art[cur[v]]
    BY <1>1, <1>4, <1>6 DEF AtWork
  <2>2. \A v \in Workers : Reads(v)' => Reads(v) /\ view'[v] = view[v]
    BY <1>1 DEF Reads
  <2>3. \A e \in Docs : dtx'[e] # None =>
           /\ dtx[e] # None /\ dtx'[e].status = dtx[e].status
           /\ status'[e] = status[e]
    BY <1>1, <1>7
  <2>4. QED
    BY <2>1, <2>2, <2>3, WorkKept DEF SInv
<1>9. WorkerBoards' /\ RollbackBoards'
  <2>1. WorkerBoards'
    BY <1>1, <1>4 DEF WorkerBoards
  <2>2. RollbackBoards'
    BY <1>5, <1>7 DEF RollbackBoards
  <2>3. QED
    BY <2>1, <2>2
<1>10. Tombstoned(d)' /\ \A e \in Docs \ {d} : Tombstoned(e)' <=> Tombstoned(e)
  BY <1>1, <1>3 DEF Tombstoned, RowTombstoned
<1>11. \A v \in Workers : pc'[v] = "notifying" => wtx'[v].gate # "ready"
  BY <1>1, <1>4
<1>12. CASE CommitDelete(d)
  <2>1. StatusWith(d, "tombstoned") = status'
    <3>1. status' = [status EXCEPT ![d] = Written(dtx[d].status, status[d])]
      BY <1>12 DEF CommitDelete, StatusRemoved, StatusWith
    <3>2. Written(dtx[d].status, status[d]) = "tombstoned"
      BY <1>1, <1>3
    <3>3. QED
      BY <3>1, <3>2 DEF StatusWith
  <2>2. /\ snap' = BoardOf(status', art') /\ field' = FieldOf(status', art')
        /\ gate' = GateOf(status', art', job', field')
    BY <1>12, <2>1 DEF CommitDelete
  <2>3. BoardSerial' /\ ProfileSerial'
    BY <2>2 DEF BoardSerial, ProfileSerial, FieldOf, Tombstoned
  <2>4. gate' = "ready" => Earned'
    <3>1. GateOf(status', art', job', field') = "ready" =>
             \A t \in Required : \E e \in Docs : TypeOf[e] = t /\ Good(status'[e], art'[e])
      BY ReadyGate
    <3>2. QED
      BY <2>2, <3>1 DEF Earned, Backed
  <2>5. GateSerial'
    BY <1>11, <2>4 DEF GateSerial
  <2>6. QED
    BY <1>8, <1>9, <2>3, <2>5 DEF SInv, BoardsSerial
<1>13. CASE CommitRollback(d)
  <2>1. /\ snap' = Written(dtx[d].board, snap) /\ field' = field /\ gate' = gate
        /\ dtx[d].kind = "rollback" /\ dtx[d].flushed
        /\ d \in TicketDocs
    BY <1>1, <1>13 DEF CommitRollback, RollbacksAreTickets
  <2>2. BoardSerial'
    <3>1. snap' = BoardAt(status, art, d, "tombstoned", art[d])
      BY <1>1, <2>1, BoardWithAt DEF SInv, BoardsSerial, RollbackBoards
    <3> DEFINE s2 == [status EXCEPT ![d] = "tombstoned"]
               a2 == [art EXCEPT ![d] = art[d]]
    <3>2. \A e \in Docs : s2[e] = status'[e] /\ (e # d => a2[e] = art'[e])
      BY <1>1, <1>3 DEF IInv, TypeOK
    <3>3. snap' = BoardOf(s2, a2)
      BY <3>1 DEF BoardAt
    <3> HIDE DEF s2, a2
    <3>4. \A e \in Docs : InBoard(s2[e], a2[e]) <=> InBoard(status'[e], art'[e])
      BY <1>3, <3>2 DEF InBoard, RowTombstoned
    <3>5. BoardOf(s2, a2) = BoardOf(status', art')
      BY <3>4, BoardRows
    <3>6. QED
      BY <3>3, <3>5 DEF BoardSerial
  <2>3. ProfileSerial'
    <3>1. field.refs \subseteq Docs
      BY DEF IInv, TypeOK, Fields
    <3>2. QED
      BY <1>10, <2>1, <3>1 DEF SInv, ProfileSerial
  <2>4. \A e \in Docs : Backed(e) => Backed(e)'
    BY <1>1, <1>10, <2>1 DEF Backed
  <2>5. GateSerial'
    BY <1>11, <2>1, <2>4, GateKept DEF SInv
  <2>6. QED
    BY <1>8, <1>9, <2>2, <2>3, <2>5 DEF SInv, BoardsSerial
<1>14. QED
  BY <1>12, <1>13

-----------------------------------------------------------------------------
\* Only a commit can collide, and a collision is remembered.
LEMMA OverlapGrows == IInv /\ Next /\ ~overlap' => ~overlap
<1>1. ASSUME IInv, ~overlap', NEW w \in Workers, WorkerStep(w) \/ Crash(w) PROVE ~overlap
  BY <1>1, QuietRows, ParsedRows, OutcomeRows DEF WorkerStep, Quietly
<1>2. ASSUME IInv, ~overlap', NEW e \in Docs, Upload(e) \/ RemovalStep(e) PROVE ~overlap
  BY <1>2, OpenRemovals DEF Upload, RemovalStep, CommitDelete, CommitRollback, NoteCommit
<1>3. QED
  BY <1>1, <1>2, BegunRemoval DEF Next, TurnRefreshesGate

\* An empty session.
LEMMA SerialInit == Init => BInv
<1> SUFFICES ASSUME Init PROVE BInv
  OBVIOUS
<1>1. OutcomeLater /\ RollbacksAreTickets
  BY DEF Init, OutcomeLater, RollbacksAreTickets, NoOutcome, FreshArtifact
<1>2. WorkSerial
  BY DEF Init, WorkSerial, LiveAtWork, AtWork, CopiesFresh, Reads, StillRemoved
<1>3. BoardSerial
  BY DEF Init, BoardSerial, BoardOf, FreshArtifact
<1>4. WorkerBoards /\ RollbackBoards
  BY DEF Init, WorkerBoards, RollbackBoards
<1>5. ProfileSerial /\ GateSerial
  BY DEF Init, ProfileSerial, GateSerial
<1>6. QED
  BY <1>1, <1>2, <1>3, <1>4, <1>5 DEF BInv, SInv, BoardsSerial

\* Every step keeps what the session's derived state is worth.
LEMMA SerialNext ==
    ASSUME IInv, IInv', MInv, BInv, Next
    PROVE  BInv'
<1>1. OutcomeLater' /\ RollbacksAreTickets'
  BY OutcomeLaterInv, RollbacksInv DEF BInv
<1>2. ASSUME ~overlap' PROVE SInv'
  <2>1. SInv /\ OutcomeLater /\ RollbacksAreTickets
    BY <1>2, OverlapGrows DEF BInv
  <2>2. ASSUME NEW w \in Workers, WorkerStep(w) \/ Crash(w) PROVE SInv'
    BY <1>2, <2>1, <2>2, QuietSerial, ParseSerial, OutcomeSerial DEF WorkerStep, Quietly
  <2>3. ASSUME NEW d \in Docs, Upload(d) \/ RemovalStep(d) PROVE SInv'
    BY <1>2, <2>1, <2>3, UploadSerial, OpenSerial, RemovalSerial DEF RemovalStep
  <2>4. ASSUME NEW d \in Docs, NEW kind \in {"delete", "rollback"}, BeginRemoval(d, kind)
        PROVE  SInv'
    BY <2>1, <2>4, OpenSerial
  <2>5. QED
    BY <2>1, <2>2, <2>3, <2>4, TurnSerial DEF Next
<1>3. QED
  BY <1>1, <1>2 DEF BInv

LEMMA SerialStutter == BInv /\ UNCHANGED vars => BInv'
<1> SUFFICES ASSUME BInv, UNCHANGED vars PROVE BInv'
  OBVIOUS
<1> USE DEF vars, docVars, sessionVars, workerVars
<1>1. OutcomeLater' /\ RollbacksAreTickets'
  BY DEF BInv, OutcomeLater, Unrecorded, StillOpen, RollbacksAreTickets
<1>2. WorkSerial => WorkSerial'
  BY DEF WorkSerial, LiveAtWork, AtWork, CopiesFresh, Reads, StillRemoved, Tombstoned
<1>3. BoardsSerial => BoardsSerial'
  BY DEF BoardsSerial, BoardSerial, WorkerBoards, RollbackBoards, Outcome, BoardWith, StatusWith,
     ArtWith
<1>4. (ProfileSerial => ProfileSerial') /\ (GateSerial => GateSerial')
  BY DEF ProfileSerial, GateSerial, Earned, Backed, Tombstoned
<1>5. QED
  BY <1>1, <1>2, <1>3, <1>4 DEF BInv, SInv

\* What the derived state is worth, in every interleaving of workers, removals,
\* uploads and turns.
THEOREM SerialInvariant == Spec => [](IInv /\ MInv /\ BInv)
<1>1. Init => IInv /\ MInv /\ BInv
  BY InitInv, MInit, SerialInit
<1>2. (IInv /\ MInv /\ BInv) /\ (IInv /\ MInv)' /\ [Next]_vars => (IInv /\ MInv /\ BInv)'
  BY SerialNext, SerialStutter
<1>3. QED
  BY <1>1, <1>2, RemovalInvariant, PTL DEF Spec

\* However workers, deletes and ticket rollbacks interleave, as long as no
\* commit falls into another transaction the persisted Case Board holds exactly
\* the results of the documents that are there.
THEOREM BoardIsSerial == Spec => []SerialBoard
<1>1. BInv => SerialBoard
  BY DEF BInv, SInv, BoardsSerial, BoardSerial, SerialBoard
<1>2. QED
  BY <1>1, SerialInvariant, PTL

\* Under the same condition the profile cites no document a delete removed.
THEOREM ProfileIsSerial == Spec => []SerialProfile
<1>1. BInv => SerialProfile
  BY DEF BInv, SInv, ProfileSerial, SerialProfile
<1>2. QED
  BY <1>1, SerialInvariant, PTL

\* Under the same condition a gate that says "ready" has been earned: the gates
\* workers compute before they write them included.
THEOREM ReadyGateIsEarned == Spec => []ReadyIsEarned
<1>1. IInv /\ MInv /\ BInv => ReadyIsEarned
  <2> SUFFICES ASSUME IInv, MInv, BInv, ~overlap, gate = "ready", NEW t \in Required
               PROVE  \/ \E d \in Matching(t, status, art) : MaterialReady(d, status, art)
                      \/ \E d \in TicketDocs : TypeOf[d] = t /\ Tombstoned(d)
    BY DEF ReadyIsEarned
  <2>1. PICK d \in Docs : TypeOf[d] = t /\ Backed(d)
    BY DEF BInv, SInv, GateSerial, Earned
  <2>2. QED
    BY <2>1 DEF Backed, Good, Matching, MaterialReady
<1>2. QED
  BY <1>1, SerialInvariant, PTL

=============================================================================

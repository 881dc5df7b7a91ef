-------------------------- MODULE MaterialPipeline --------------------------
(***************************************************************************)
(* The life of uploaded material in one session: an upload creates a       *)
(* document and one queued job; parse workers claim jobs, parse the        *)
(* document, ask a model to understand it and project the result into the  *)
(* Case Board, the profile and the gate; delete requests and WeChat upload *)
(* rollbacks tombstone documents while the workers run.                    *)
(*                                                                         *)
(* Every actor is a database transaction of its own (READ COMMITTED).  It  *)
(* reads committed rows, keeps copies of them (the identity map does not   *)
(* reload a row that is loaded and not expired), holds the lock of each    *)
(* row it has flushed until it ends, and shows its writes at commit.       *)
(***************************************************************************)
EXTENDS Naturals, FiniteSets

CONSTANTS
    Docs,          \* the documents a session may receive
    Workers,       \* parse workers (threads or processes running run_once)
    TicketDocs,    \* documents that arrive through a WeChat upload ticket
    Required,      \* document types the gate asks for
    FundingType,   \* the type whose gate item also needs the profile field
    TypeOf,        \* [Docs -> document type]
    Values,        \* values evidence may give the funding field
    ScanLimit,     \* _CLAIM_SCAN_LIMIT: queued jobs one claim looks at
    MaxCrashes,    \* bound: worker processes that die
    MaxRemovals,   \* bound: delete requests and ticket rollbacks
    None           \* no document, no copy, no transaction, no value

ASSUME DocsFinite == IsFiniteSet(Docs)
ASSUME TicketsAreDocs == TicketDocs \subseteq Docs
ASSUME ScanLimitPositive == ScanLimit \in Nat \ {0}
ASSUME BoundsNat == MaxCrashes \in Nat /\ MaxRemovals \in Nat

\* DocumentRecord.status, and what of artifact_json the pipeline reads.
Statuses == {"absent", "uploaded", "parsed", "unsupported", "tombstoned"}
Artifacts == [tomb : BOOLEAN, und : {"none", "queued", "completed", "failed"},
              result : BOOLEAN]
Gates == {"pending", "waiting", "ready"}          \* gate_status_json.status

ASSUME NoneIsNone ==
    /\ None \notin Docs /\ None \notin Workers /\ None \notin Values
    /\ None \notin Statuses /\ None \notin Artifacts /\ None \notin Gates
    /\ \A board \in SUBSET Docs : board # None

VARIABLES
    status,    \* DocumentRecord.status, "absent" before the upload
    art,       \* DocumentRecord.artifact_json: tombstone flag, understanding, result
    evidence,  \* EvidenceItemRecord rows: the funding value a document gives
    job,       \* JobRecord.status of the document's one job
    seqno,     \* the order of job_id
    snap,      \* persisted Case Memory snapshot: documents whose results it holds
    field,     \* profile_json's funding field: state and evidence_refs
    gate,      \* gate_status_json.status
    pc,        \* where each worker is in run_once
    cur,       \* the document each worker works on
    view,      \* a worker's loaded copy of its document's row
    wtx,       \* what a worker's open transaction has computed
    dtx,       \* the open delete or ticket rollback of a document
    crashes,   \* workers that died so far
    removals,  \* removals begun so far
    overlap    \* history: some commit fell into another actor's transaction

docVars == <<status, art, evidence, job, seqno>>
sessionVars == <<snap, field, gate>>
workerVars == <<pc, cur, view, wtx>>
vars == <<docVars, sessionVars, workerVars, dtx, crashes, removals, overlap>>

Active == {"queued", "processing"}                \* _ACTIVE_JOB_STATUSES
Finished == {"completed", "failed", "cancelled"}

FreshArtifact == [tomb |-> FALSE, und |-> "queued", result |-> FALSE]
ParsedArtifact == [tomb |-> FALSE, und |-> "none", result |-> FALSE]

-----------------------------------------------------------------------------
(* What is derived from the rows.                                          *)

\* DocumentRepository.is_document_tombstoned: either mark is enough.
RowTombstoned(s, a) == s = "tombstoned" \/ a.tomb

Tombstoned(d) == RowTombstoned(status[d], art[d])

\* CaseMemoryService.build_snapshot: every live document's stored result.
BoardOf(st, ar) ==
    {d \in Docs : ar[d].result /\ ~RowTombstoned(st[d], ar[d])}

\* Mutant: evidence of tombstoned documents still counts.
FieldOf_KeepsRemoved(st, ar) ==
    LET refs == {d \in Docs : evidence[d] # None} IN
    [state |-> IF refs = {} THEN "unknown" ELSE "documented", refs |-> refs]

\* summarize_session_field_evidence and _apply_field_evidence for the funding
\* field of an applicant who has claimed nothing.
FieldOf(st, ar) ==
    LET refs == {d \in Docs : evidence[d] # None /\ ~RowTombstoned(st[d], ar[d])}
        found == {evidence[d] : d \in refs}
    IN  [state |-> IF refs = {} THEN "unknown"
                   ELSE IF \A v1, v2 \in found : v1 = v2 THEN "documented"
                   ELSE "conflicted",
         refs |-> refs]

\* The documents that count for an item of the gate.
Matching(t, st, ar) ==
    {d \in Docs : /\ st[d] # "absent"
                  /\ TypeOf[d] = t
                  /\ ~RowTombstoned(st[d], ar[d])}

MaterialReady(d, st, ar) == st[d] = "parsed" /\ ar[d].und = "completed"

ItemReady(t, st, ar, fl) ==
    /\ \E d \in Matching(t, st, ar) : MaterialReady(d, st, ar)
    /\ t = FundingType => fl.state = "documented"

ItemWaits(t, st, ar, jb) ==
    LET matched == Matching(t, st, ar) IN
    \/ \E d \in matched : jb[d] \in Active
    \/ matched # {} /\ \A d \in matched : st[d] # "parsed"
    \/ /\ \A d \in matched : ~MaterialReady(d, st, ar)
       /\ \E d \in matched : ar[d].und \in {"none", "queued"}

\* Mutant: one ready item is enough.
GateOf_AnyItem(st, ar, jb, fl) ==
    IF \E t \in Required : ItemReady(t, st, ar, fl) THEN "ready" ELSE "pending"

\* GateRuntimeService.refresh_record for a session with a declared family.
GateOf(st, ar, jb, fl) ==
    IF Required # {} /\ \A t \in Required : ItemReady(t, st, ar, fl) THEN "ready"
    ELSE IF \E t \in Required : ItemWaits(t, st, ar, jb) THEN "waiting"
    ELSE "pending"

-----------------------------------------------------------------------------
(* Transactions and the locks they hold.                                   *)

\* The unit of work writes a column only when it differs from what was loaded.
Changed(old, new) == IF new = old THEN None ELSE new
Written(change, committed) == IF change = None THEN committed ELSE change

\* What _persist_snapshot will write of board b, built now: the snapshot's row
\* is loaded right away, or only just before the write (b then replaces it).
BoardWrites(b) == {Changed(snap, b), b}

\* The rows as a transaction sees them that holds (s, a) for document d.
StatusWith(d, s) == [status EXCEPT ![d] = s]
ArtWith(d, a) == [art EXCEPT ![d] = a]

\* Mutant: the board is built before the transaction's own change.
BoardWith_Committed(d, s, a) == BoardOf(status, art)

\* build_snapshot inside such a transaction.
BoardWith(d, s, a) == BoardOf(StatusWith(d, s), ArtWith(d, a))

Working(w, d, where) == cur[w] = d /\ pc[w] \in where

\* The document's row is flushed, not committed.
DocLocked(d) ==
    \/ \E w \in Workers : Working(w, d, {"committing", "failing"})
    \/ dtx[d] # None /\ dtx[d].kind = "rollback" /\ dtx[d].flushed

\* The job's row is flushed, not committed: by a delete that cancels it, or by
\* a worker that reports a failure.
DeleteHoldsJob(d) ==
    dtx[d] # None /\ dtx[d].kind = "delete" /\ dtx[d].flushed /\ dtx[d].cancels
WorkerHoldsJob(d) == \E w \in Workers : Working(w, d, {"failing"})

\* History only.  A commit that changes d or the snapshot collides when someone
\* else's transaction works from what it overwrites: a board or a gate computed
\* before, or a copy of d.  self is the committing worker, None for a removal.
Collides(self, d) ==
    \/ \E v \in Workers \ {self} :
         \/ pc[v] \in {"committing", "failing"}
         \/ pc[v] = "notifying" /\ wtx[v].gate # None
         \/ Working(v, d, {"writing", "understanding", "reporting"})
    \/ \E e \in Docs : /\ dtx[e] # None /\ dtx[e].kind = "rollback" /\ dtx[e].flushed
                       /\ self = None => e # d

NoteCommit(self, d) == overlap' = (overlap \/ Collides(self, d))

-----------------------------------------------------------------------------
Init ==
    /\ status = [d \in Docs |-> "absent"]
    /\ art = [d \in Docs |-> FreshArtifact]
    /\ evidence = [d \in Docs |-> None]
    /\ job = [d \in Docs |-> "none"]
    /\ seqno = [d \in Docs |-> 0]
    /\ snap = {}
    /\ field = [state |-> "unknown", refs |-> {}]
    /\ gate = "pending"
    /\ pc = [w \in Workers |-> "idle"]
    /\ cur = [w \in Workers |-> None]
    /\ view = [w \in Workers |-> None]
    /\ wtx = [w \in Workers |-> None]
    /\ dtx = [d \in Docs |-> None]
    /\ crashes = 0
    /\ removals = 0
    /\ overlap = FALSE

\* FileService.upload: document, job and gate in one short transaction.
Upload(d) ==
    /\ status[d] = "absent"
    /\ status' = [status EXCEPT ![d] = "uploaded"]
    /\ job' = [job EXCEPT ![d] = "queued"]
    /\ seqno' = [seqno EXCEPT ![d] = 1 + Cardinality({e \in Docs : status[e] # "absent"})]
    /\ gate' = GateOf(status', art, job', field)
    /\ UNCHANGED <<art, evidence, snap, field, workerVars, dtx, crashes, removals, overlap>>

\* The gate refresh with which every user turn begins.
TurnRefreshesGate ==
    /\ gate' = GateOf(status, art, job, field)
    /\ gate' # gate
    /\ UNCHANGED <<docVars, snap, field, workerVars, dtx, crashes, removals, overlap>>

-----------------------------------------------------------------------------
(* The worker: run_once.                                                   *)

\* Mutant: jobs in "processing" are taken over while their worker may be alive.
Candidates_TakesOver ==
    {d \in Docs : job[d] \in Active /\ ~DeleteHoldsJob(d)}

\* Mutant: the scan stops one job short.
Candidates_OneShort ==
    LET queued == {d \in Docs : job[d] = "queued" /\ ~DeleteHoldsJob(d)} IN
    {d \in queued : Cardinality({e \in queued : seqno[e] < seqno[d]}) < ScanLimit - 1}

\* The oldest queued jobs nobody has locked, as many as one claim scans.
Candidates ==
    LET queued == {d \in Docs : job[d] = "queued" /\ ~DeleteHoldsJob(d)}
    IN  {d \in queued : Cardinality({e \in queued : seqno[e] < seqno[d]}) < ScanLimit}

\* claim_next_job and the commit that follows it.  Tombstoned candidates before
\* the claimed one are cancelled; when nothing is claimed nothing is committed.
Claim(w, d) ==
    LET skipped == {e \in Candidates : seqno[e] < seqno[d]} IN
    /\ pc[w] = "idle"
    /\ d \in Candidates
    /\ ~Tombstoned(d)
    /\ \A e \in skipped : Tombstoned(e)
    /\ job' = [e \in Docs |-> IF e = d THEN "processing"
                              ELSE IF e \in skipped THEN "cancelled" ELSE job[e]]
    /\ pc' = [pc EXCEPT ![w] = "claimed"]
    /\ cur' = [cur EXCEPT ![w] = d]
    /\ UNCHANGED <<status, art, evidence, seqno, sessionVars, view, wtx, dtx, crashes, removals, overlap>>

GoIdle(w) ==
    /\ pc' = [pc EXCEPT ![w] = "idle"]
    /\ cur' = [cur EXCEPT ![w] = None]
    /\ view' = [view EXCEPT ![w] = None]
    /\ wtx' = [wtx EXCEPT ![w] = None]

\* _complete_job_as_cancelled, commit, return.
CancelOwnJob(w) ==
    /\ ~DeleteHoldsJob(cur[w])
    /\ job' = [job EXCEPT ![cur[w]] = IF @ \in Finished THEN @ ELSE "cancelled"]
    /\ GoIdle(w)
    /\ UNCHANGED <<status, art, evidence, seqno, sessionVars, dtx, crashes, removals, overlap>>

\* A read of the tombstone right after a commit or a rollback, which expired
\* every copy (before parsing, after it, and in the exception handler).
SeesTombstone(w) ==
    /\ pc[w] \in {"claimed", "parsing", "rechecking", "raised"}
    /\ Tombstoned(cur[w])
    /\ CancelOwnJob(w)

\* The document is live when the worker first looks: parsing starts.
StartParse(w) ==
    /\ pc[w] = "claimed"
    /\ ~Tombstoned(cur[w])
    /\ pc' = [pc EXCEPT ![w] = "parsing"]
    /\ UNCHANGED <<docVars, sessionVars, cur, view, wtx, dtx, crashes, removals, overlap>>

\* Parsing is over; db.refresh(document) reloads the row and finds it live.
RefreshBeforeWrite(w) ==
    /\ pc[w] = "parsing"
    /\ ~Tombstoned(cur[w])
    /\ pc' = [pc EXCEPT ![w] = "writing"]
    /\ UNCHANGED <<docVars, sessionVars, cur, view, wtx, dtx, crashes, removals, overlap>>

\* Status, artifact (replaced as a whole) and evidence rows, then commit.
WriteParsed(w) ==
    LET d == cur[w] IN
    /\ pc[w] = "writing"
    /\ ~DocLocked(d)
    /\ \E s \in {"parsed", "unsupported"} : status' = [status EXCEPT ![d] = s]
    /\ art' = [art EXCEPT ![d] = ParsedArtifact]
    /\ \E v \in Values \cup {None} : evidence' = [evidence EXCEPT ![d] = v]
    /\ pc' = [pc EXCEPT ![w] = "rechecking"]
    /\ UNCHANGED <<job, seqno, sessionVars, cur, view, wtx, dtx, crashes, removals, overlap>>

\* Live after the commit: the document is loaded and understand is called.
StartUnderstanding(w) ==
    /\ pc[w] = "rechecking"
    /\ ~Tombstoned(cur[w])
    /\ pc' = [pc EXCEPT ![w] = "understanding"]
    /\ view' = [view EXCEPT ![w] = [status |-> status[cur[w]], art |-> art[cur[w]]]]
    /\ UNCHANGED <<docVars, sessionVars, cur, wtx, dtx, crashes, removals, overlap>>

\* _document_is_tombstoned after understand looks at the loaded copy.
StillLive(w) == ~RowTombstoned(view[w].status, view[w].art)

\* Mutant: the job is recorded, its result is not.
Understood_NoResult(a, outcome) == [a EXCEPT !.und = outcome]

\* The artifact that upsert_material_understanding makes of a loaded one.
Understood(a, outcome) ==
    [a EXCEPT !.und = outcome, !.result = @ \/ outcome = "completed"]

\* upsert_material_understanding up to the snapshot's row: the artifact is
\* flushed and the board built from the worker's own copy of the document.
\* understand never raises: a model failure is a "failed" outcome.
FlushUpsert(w, outcome) ==
    LET d == cur[w] IN
    /\ pc[w] = "understanding"
    /\ StillLive(w)
    /\ ~DocLocked(d)
    /\ \E b \in BoardWrites(BoardWith(d, view[w].status, Understood(view[w].art, outcome))) :
            wtx' = [wtx EXCEPT ![w] = [outcome |-> outcome, gate |-> None, board |-> b]]
    /\ pc' = [pc EXCEPT ![w] = "committing"]
    /\ UNCHANGED <<docVars, sessionVars, cur, view, dtx, crashes, removals, overlap>>

\* The snapshot is written, the profile recomputed, the job closed whatever its
\* status is by now, the gate refreshed, all in one commit.
CommitUpsert(w) ==
    LET d == cur[w]
        st == StatusWith(d, view[w].status)
        ar == ArtWith(d, Understood(view[w].art, wtx[w].outcome))
    IN
    /\ pc[w] = "committing"
    /\ ~DeleteHoldsJob(d)
    /\ art' = ar
    /\ job' = [job EXCEPT ![d] = wtx[w].outcome]
    /\ snap' = Written(wtx[w].board, snap)
    /\ field' = FieldOf(st, ar)
    /\ gate' = GateOf(st, ar, job', field')
    /\ pc' = [pc EXCEPT ![w] = "committed"]
    /\ view' = [view EXCEPT ![w] = None]
    /\ wtx' = [wtx EXCEPT ![w] = None]
    /\ NoteCommit(w, d)
    /\ UNCHANGED <<status, evidence, seqno, cur, dtx, crashes, removals>>

\* refresh_after_material_change: the gate is computed, then the case is reviewed.
StartMaterialRefresh(w) ==
    /\ pc[w] = "committed"
    /\ wtx' = [wtx EXCEPT ![w] =
            [outcome |-> "none", board |-> None,
             gate |-> Changed(gate, GateOf(status, art, job, field))]]
    /\ pc' = [pc EXCEPT ![w] = "notifying"]
    /\ UNCHANGED <<docVars, sessionVars, cur, view, dtx, crashes, removals, overlap>>

\* The record is saved ...
FinishMaterialRefresh(w) ==
    /\ pc[w] = "notifying"
    /\ gate' = Written(wtx[w].gate, gate)
    /\ GoIdle(w)
    /\ UNCHANGED <<docVars, snap, field, dtx, crashes, removals, overlap>>

\* ... or the refresh returns early or fails, which run_once swallows.
SkipMaterialRefresh(w) ==
    /\ pc[w] \in {"committed", "notifying"}
    /\ GoIdle(w)
    /\ UNCHANGED <<docVars, sessionVars, dtx, crashes, removals, overlap>>

\* An exception: rollback, which releases the locks and expires the copies.
Raise(w) ==
    /\ pc[w] \in {"parsing", "writing", "understanding", "committing"}
    /\ pc' = [pc EXCEPT ![w] = "raised"]
    /\ view' = [view EXCEPT ![w] = None]
    /\ wtx' = [wtx EXCEPT ![w] = None]
    /\ UNCHANGED <<docVars, sessionVars, cur, dtx, crashes, removals, overlap>>

\* The fresh read finds the document live: its failure will be reported.
LoadForFailure(w) ==
    /\ pc[w] = "raised"
    /\ ~Tombstoned(cur[w])
    /\ pc' = [pc EXCEPT ![w] = "reporting"]
    /\ view' = [view EXCEPT ![w] = [status |-> status[cur[w]], art |-> art[cur[w]]]]
    /\ UNCHANGED <<docVars, sessionVars, cur, wtx, dtx, crashes, removals, overlap>>

\* _mark_material_understanding_failed: job and artifact are flushed.
FlushFailure(w) ==
    LET d == cur[w] IN
    /\ pc[w] = "reporting"
    /\ ~DocLocked(d) /\ ~DeleteHoldsJob(d)
    /\ \E b \in BoardWrites(BoardWith(d, view[w].status, Understood(view[w].art, "failed"))) :
            wtx' = [wtx EXCEPT ![w] = [outcome |-> "failed", gate |-> None, board |-> b]]
    /\ pc' = [pc EXCEPT ![w] = "failing"]
    /\ UNCHANGED <<docVars, sessionVars, cur, view, dtx, crashes, removals, overlap>>

\* Profile and gate are not recomputed; the exception ends this run_once.
CommitFailure(w) ==
    LET d == cur[w] IN
    /\ pc[w] = "failing"
    /\ art' = ArtWith(d, Understood(view[w].art, "failed"))
    /\ job' = [job EXCEPT ![d] = "failed"]
    /\ snap' = Written(wtx[w].board, snap)
    /\ GoIdle(w)
    /\ NoteCommit(w, d)
    /\ UNCHANGED <<status, evidence, seqno, field, gate, dtx, crashes, removals>>

\* The worker process dies (or its last commit fails): the open transaction is
\* lost and a new process starts from the claim.
Crash(w) ==
    /\ pc[w] # "idle"
    /\ crashes < MaxCrashes
    /\ crashes' = crashes + 1
    /\ GoIdle(w)
    /\ UNCHANGED <<docVars, sessionVars, dtx, removals, overlap>>

-----------------------------------------------------------------------------
(* Removals.                                                               *)

\* tombstone_document: the mark in the artifact, the rest as loaded.
Removed(a) == [a EXCEPT !.tomb = TRUE]

\* Mutant: the tombstone is only written into the artifact.
StatusRemoved_ArtifactOnly(d) == status

\* A removal's own view of the session: its document is tombstoned.
StatusRemoved(d) == StatusWith(d, Written(dtx[d].status, status[d]))
ArtRemoved(d) == ArtWith(d, Written(dtx[d].art, art[d]))
Touches(d) == dtx[d].status # None \/ dtx[d].art # None

\* DELETE /files/{document_id} and _rollback_reserved_upload load the document;
\* the delete also selects the document's active jobs.
BeginRemoval(d, kind) ==
    /\ status[d] # "absent"
    /\ kind = "rollback" => d \in TicketDocs
    /\ dtx[d] = None
    /\ removals < MaxRemovals
    /\ removals' = removals + 1
    /\ dtx' = [dtx EXCEPT ![d] =
            [kind |-> kind, flushed |-> FALSE, board |-> None,
             status |-> Changed(status[d], "tombstoned"),
             art |-> Changed(art[d], Removed(art[d])),
             cancels |-> kind = "delete" /\ job[d] \in Active]]
    /\ UNCHANGED <<docVars, sessionVars, workerVars, crashes, overlap>>

\* cancel_jobs_for_document locks the job rows it selected.
FlushDelete(d) ==
    /\ dtx[d] # None /\ dtx[d].kind = "delete" /\ ~dtx[d].flushed
    /\ dtx[d].cancels => ~WorkerHoldsJob(d)
    /\ dtx' = [dtx EXCEPT ![d].flushed = TRUE]
    /\ UNCHANGED <<docVars, sessionVars, workerVars, crashes, removals, overlap>>

\* Tombstone, profile, the board rebuilt under the snapshot's lock, and gate.
CommitDelete(d) ==
    LET st == StatusWith(d, "tombstoned") IN
    /\ dtx[d] # None /\ dtx[d].kind = "delete" /\ dtx[d].flushed
    /\ Touches(d) => ~DocLocked(d)
    /\ status' = StatusRemoved(d)
    /\ art' = ArtRemoved(d)
    /\ job' = [job EXCEPT ![d] = IF dtx[d].cancels THEN "cancelled" ELSE @]
    /\ snap' = BoardOf(st, art')
    /\ field' = FieldOf(st, art')
    /\ gate' = GateOf(st, art', job', field')
    /\ dtx' = [dtx EXCEPT ![d] = None]
    /\ NoteCommit(None, d)
    /\ UNCHANGED <<evidence, seqno, workerVars, crashes, removals>>

\* The ticket rollback only tombstones: the document is flushed and the board
\* built; jobs, profile and gate stay as they are.
FlushRollback(d) ==
    /\ dtx[d] # None /\ dtx[d].kind = "rollback" /\ ~dtx[d].flushed
    /\ Touches(d) => ~DocLocked(d)
    /\ \E b \in BoardWrites(BoardWith(d, "tombstoned", art[d])) :
            dtx' = [dtx EXCEPT ![d] = [@ EXCEPT !.flushed = TRUE, !.board = b]]
    /\ UNCHANGED <<docVars, sessionVars, workerVars, crashes, removals, overlap>>

CommitRollback(d) ==
    /\ dtx[d] # None /\ dtx[d].kind = "rollback" /\ dtx[d].flushed
    /\ status' = StatusRemoved(d)
    /\ art' = ArtRemoved(d)
    /\ snap' = Written(dtx[d].board, snap)
    /\ dtx' = [dtx EXCEPT ![d] = None]
    /\ NoteCommit(None, d)
    /\ UNCHANGED <<evidence, job, seqno, field, gate, workerVars, crashes, removals>>

\* The request fails before its commit (or loses a deadlock) and is rolled back.
AbortRemoval(d) ==
    /\ dtx[d] # None
    /\ dtx' = [dtx EXCEPT ![d] = None]
    /\ UNCHANGED <<docVars, sessionVars, workerVars, crashes, removals, overlap>>

-----------------------------------------------------------------------------
\* What a running worker does by itself.
WorkerStep(w) ==
    \/ \E d \in Docs : Claim(w, d)
    \/ SeesTombstone(w)
    \/ StartParse(w)
    \/ RefreshBeforeWrite(w)
    \/ WriteParsed(w)
    \/ StartUnderstanding(w)
    \/ \E outcome \in {"completed", "failed"} : FlushUpsert(w, outcome)
    \/ CommitUpsert(w)
    \/ StartMaterialRefresh(w)
    \/ FinishMaterialRefresh(w)
    \/ SkipMaterialRefresh(w)
    \/ Raise(w)
    \/ LoadForFailure(w)
    \/ FlushFailure(w)
    \/ CommitFailure(w)

\* What an open removal request does until it ends.
RemovalStep(d) ==
    \/ FlushDelete(d)
    \/ CommitDelete(d)
    \/ FlushRollback(d)
    \/ CommitRollback(d)
    \/ AbortRemoval(d)

Next ==
    \/ \E w \in Workers : WorkerStep(w) \/ Crash(w)
    \/ \E d \in Docs : Upload(d) \/ RemovalStep(d)
    \/ \E d \in Docs, kind \in {"delete", "rollback"} : BeginRemoval(d, kind)
    \/ TurnRefreshesGate

Spec == Init /\ [][Next]_vars

\* The loop of a worker always runs run_once again, every step of run_once ends
\* (model calls time out, the database breaks deadlocks), and so does every
\* request; no request need ever come.
FairSpec ==
    /\ Spec
    /\ \A w \in Workers : WF_vars(WorkerStep(w))
    /\ \A d \in Docs : WF_vars(RemovalStep(d))

-----------------------------------------------------------------------------
(* Properties.                                                             *)

JobStatuses == {"none"} \cup Active \cup Finished
Fields == [state : {"unknown", "documented", "conflicted"}, refs : SUBSET Docs]

WorkerTxs == [outcome : {"none", "completed", "failed"},
              board : (SUBSET Docs) \cup {None}, gate : Gates \cup {None}]
RemovalTxs == [kind : {"delete", "rollback"}, flushed : BOOLEAN, cancels : BOOLEAN,
               status : Statuses \cup {None}, art : Artifacts \cup {None},
               board : (SUBSET Docs) \cup {None}]

PCs == {"idle", "claimed", "parsing", "writing", "rechecking", "understanding",
        "committing", "committed", "notifying", "raised", "reporting", "failing"}

TypeOK ==
    /\ status \in [Docs -> Statuses]
    /\ art \in [Docs -> Artifacts]
    /\ evidence \in [Docs -> Values \cup {None}]
    /\ job \in [Docs -> JobStatuses]
    /\ seqno \in [Docs -> Nat]
    /\ snap \in SUBSET Docs
    /\ field \in Fields
    /\ gate \in Gates
    /\ pc \in [Workers -> PCs]
    /\ cur \in [Workers -> Docs \cup {None}]
    /\ view \in [Workers -> [status : Statuses, art : Artifacts] \cup {None}]
    /\ wtx \in [Workers -> WorkerTxs \cup {None}]
    /\ dtx \in [Docs -> RemovalTxs \cup {None}]
    /\ crashes \in 0 .. MaxCrashes
    /\ removals \in 0 .. MaxRemovals
    /\ overlap \in BOOLEAN

\* A job is never worked on by two workers.
ClaimExclusive ==
    \A v, w \in Workers : cur[v] = cur[w] /\ cur[v] # None => v = w

\* A job that left the queue never comes back and a finished one never runs
\* again, whatever deletes and late workers write.
JobForward ==
    [][\A d \in Docs : /\ job[d] \in Finished => job'[d] \in Finished
                       /\ job[d] = "processing" => job'[d] # "queued"]_vars

\* The one window in which a removal can be undone is between the worker's
\* refresh of the row and its write of the parsed row.
RemovalUndoneOnlyByParse ==
    [][\A d \in Docs : Tombstoned(d) /\ ~Tombstoned(d)' =>
          \E w \in Workers : pc[w] = "writing" /\ cur[w] = d]_vars

\* Job and artifact tell the same story of every document that is not removed.
OutcomeRecorded ==
    \A d \in Docs : ~Tombstoned(d) =>
        /\ job[d] = "completed" => art[d].und = "completed" /\ art[d].result
        /\ job[d] = "failed" => art[d].und = "failed"

\* As long as no two writers collided, the persisted Case Board holds exactly
\* the results of the documents that are there.
SerialBoard == ~overlap => snap = BoardOf(status, art)

\* Likewise the profile cites no removed document, except one a ticket rollback
\* removed (that path does not recompute the profile).
SerialProfile ==
    ~overlap => \A d \in field.refs : Tombstoned(d) => d \in TicketDocs

\* Likewise a gate that says "ready" has, for every required type, a live,
\* parsed and understood document (or one a ticket rollback took away, which
\* leaves the gate to the next refresh).
ReadyIsEarned ==
    ~overlap /\ gate = "ready" => \A t \in Required :
        \/ \E d \in Matching(t, status, art) : MaterialReady(d, status, art)
        \/ \E d \in TicketDocs : TypeOf[d] = t /\ Tombstoned(d)

\* A worker died holding the job; nothing takes it over.
Orphaned(d) == job[d] = "processing" /\ \A w \in Workers : cur[w] # d

\* Every queued job of a live document is finished by some worker.
LiveJobSettles ==
    \A d \in Docs :
        job[d] \in Active ~> (job[d] \in Finished \/ Tombstoned(d) \/ Orphaned(d))

\* The queue as clients see it.
QueuePhase ==
    [d \in Docs |-> IF job[d] = "none" THEN "none"
                    ELSE IF \E w \in Workers : cur[w] = d THEN "held"
                    ELSE IF job[d] = "queued" THEN "waiting" ELSE "settled"]
QueueHolder == [d \in Docs |-> {w \in Workers : cur[w] = d}]

Queue == INSTANCE JobQueue WITH Jobs <- Docs, Holders <- Workers,
                                phase <- QueuePhase, holder <- QueueHolder

AtMostOnceQueue == Queue!Spec

\* No worker has a job and no removal is open.
Quiet ==
    /\ \A w \in Workers : pc[w] = "idle"
    /\ \A d \in Docs : dtx[d] = None

=============================================================================

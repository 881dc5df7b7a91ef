# A TLA+ model of the DS-160 visa interview simulator

The repository is an interview simulator for US visa applicants: a FastAPI back
end (`app/`), a Next.js workbench (`web/`) and a WeChat mini program
(`miniprogram/`). An applicant chats with a simulated officer, uploads material,
and the system keeps a *Case Board* of what it knows, a profile, a *gate* (is the
required material there?) and a decision. All state is in one relational
database; the API server and the parse workers are processes and threads that
meet only there. This directory holds TLA+ modules of that shared state, of the
transactions that change it and of the rules by which answers, reviews and
reports are derived from it, TLC configurations, and TLAPS proofs.

Paths below are relative to the repository.

## 1. Inventory

### Components

| Part | Source (`app/`) | State it keeps | Operations |
|---|---|---|---|
| Job queue and parse worker | `workers/parse_worker.py`, `repositories/document_repo.py`, `services/document_pipeline.py` | `documents`, `jobs` | claim, parse, understand, project, notify, report a failure |
| Document understanding | `services/material_understanding_service.py`, `services/extractor_service.py`, `services/multimodal_extraction_service.py` | results in `artifact_json` | assess a type, extract facts, parse a model's answer |
| Case Memory | `services/case_memory_service.py`, `services/case_board_projection.py` | `case_memory_snapshots` | upsert claims, tombstone, build, resolve, persist, project |
| Profile and evidence | `services/profile_recompute_service.py`, `services/evidence_service.py` | `evidence_items`, `profile_json` | insert evidence, recompute the profile |
| Gate | `services/gate_runtime_service.py` | `gate_status_json` | refresh, terminal check |
| Upload and removal | `services/file_service.py`, `api/routers/files.py`, `api/routers/wx_upload.py` | documents, jobs | upload, delete, roll back a ticket upload |
| Message turns | `services/message_service.py`, `repositories/session_turn_repo.py` | `sessions` row (phase, decision, `interviewer_state_json`), `session_turns` | handle a message, replay, clean up, refresh after a material change |
| Native interviewer | `services/native_interviewer_runtime_service.py`, `interview_case_state_builder.py`, `runtime_ledger_service.py`, `runtime_view_contract_service.py` | none (an answer; a view read back from turns) | answer, quality guard, material decision, latest view |
| Reports | `services/report_service.py` | none | the applicant's report from view and board |
| Material generation | `services/material_generation_guard.py`, `services/debug_material_bundle_service.py`, `services/ai_material_bundle_generator_service.py` | lock and starts inside `interviewer_state_json` | acquire, generate, write a bundle, complete, fail |
| Material packages | `services/material_package_archive_service.py`, `services/material_cleanup_service.py`, `scripts/f1_demo_material_package.py` | archive sessions and their documents | publish, list, import, clean up |
| Upload tickets | `services/wx_upload_ticket_service.py` | `wx_upload_tickets` | create, reserve, finalize, release |
| Access keys and quota | `services/access_key_service.py` | `access_keys`, `access_key_sessions` | consume quota, bind a session, update, clear sessions |
| Logins | `core/simple_auth.py`, `api/routers/auth.py` | `app_auth_sessions`, a failure window in memory | log in, touch, expire, throttle, log out |
| Model settings | `services/admin_config_service.py`, `agents/model_factory.py` | one row of `admin_settings` | read and migrate, save channels or flat fields, configure a call |
| Debug fill | `services/debug_fill_service.py` | documents, evidence | fill a scenario |
| Legacy runtime | `services/interviewer_runtime_service.py`, `interview_runtime_service.py`, `capability_orchestrator.py`, `scoring_service.py`, `advisory_review_service.py` | profile and score of a session | score a turn, review documents, correct the action |
| Graph runtime, governor, retrieval, CLI, front ends | see `PROJECT.json` | none that others change | not modelled, section 6 |

`PROJECT.json` lists every component with its files, its status and what is left out.

### How they interact

* **Upload → queue → worker.** An upload writes a document and a queued job in
  one commit. Workers poll: claim (a conditional `UPDATE`), parse, ask a model,
  and in one last transaction write the artifact, the Case Board, the profile, the
  job's status and the gate. Then the worker calls
  `refresh_after_material_change`, which reviews the case and writes the session row.
* **Removal ↔ worker.** A delete request or the rollback of a failed ticket
  upload tombstones a document in a transaction of its own while a worker may be
  parsing it. Nobody tells the worker; it looks again.
* **Message ↔ session row.** A message is checked and appended under the row's lock,
  the model is called without it, the answer is written minutes later from a copy
  of the row loaded before the call.
* **Message ↔ Case Memory.** The applicant's statement becomes a claim of the
  snapshot; the answer, its quality guard and the report read what the snapshot says
  of conflicts and missing evidence, while the view of the last answer is kept in the turns.
* **Generator ↔ session row.** A generator of practice or debug material keeps its lock
  inside the JSON column that an answer and a refresh replace as a whole.
* **Packages.** A validated session is copied to the archive and from there into other sessions,
  while clean-ups delete sessions of a key, or old archives, together with their evidence.
* **Settings ↔ calls.** Every model call reads the one settings row, some of them twice.

### What is hard

The hazards are listed one by one in `PROJECT.json`, each with the properties that
are about it. The recurring causes are:

1. *Stale copies.* The identity map never reloads a row that is loaded, not even
   under `SELECT ... FOR UPDATE`; a re-check after a model call sees the old row.
2. *Whole-column writes.* JSON columns are written as a whole, plain columns
   only if they differ from the copy, so two writers merge column by column.
3. *Read–compute–write across locks.* The board is computed from rows read
   before the snapshot row is locked.
4. *Locks that are not there.* `FOR UPDATE` does nothing on SQLite, the default database.
5. *Failures between commits.* A worker or a request dies after one of its commits.
6. *Work nobody finishes.* Orphaned jobs, rolled-back cancellations, unanswered turns.
7. *Derived values kept apart from what they derive from.* Snapshot, gate, profile and
   the view of the last answer are stored, joined with each other and read later.
8. *Long chains of guards.* A model's proposal is corrected by rules in a fixed
   order, each of which can undo an earlier one.

### What makes each component correct

| Part | Correct if |
|---|---|
| Queue | a job is worked on by one worker, at most once; live jobs settle; removed jobs are cancelled |
| Worker and removals | job and artifact agree; a removal is final |
| Understanding | what a result calls documented is backed by its own cards, whatever a model says |
| Case Memory, profile | derived from exactly the live documents and statements; what was resolved stays resolved; documents never replace what the applicant said |
| Gate | `ready` is earned by live material that agrees; `waiting` only while there is work |
| Message turns | one turn at a time; every message answered once and with its own answer; nothing left behind that blocks the session; every request ends |
| Session row | phase and decision agree; only an answer reopens a closed interview |
| Interviewer and reports | conflicts are reviewed; nobody passes on words; unproven funding is asked about; a replay says what was said |
| Generation, packages | one generator at a time; bundles and imports whole or absent; views follow |
| Tickets, keys, logins | never more uploads, sessions or failures than the limit, no slot lost; a logout is final |
| Settings | the flat mirror is the active channel's; a call uses one state of the settings |
| Legacy runtime | contradictions are reviewed, reviews explained, refusals earned |

The repository's own lists of invariants are `docs/runtime-contracts.md` and
`docs/implementation/backend-runtime-defect-fix-plan.md`, section 4.

## 2. Modules

| Module | What it is |
|---|---|
| `JobQueue` | abstract specification: an at-most-once queue |
| `MaterialPipeline` | documents, jobs, workers, removals, board, profile, gate, with racing transactions |
| `MaterialPipelineProofs` | exclusive claims, refinement of `JobQueue`; removals and outcomes; board, profile and gate |
| `SessionTurns` | message requests, material refreshes and generators on one session row |
| `SessionTurnsProofs` | types and reopening; a message is answered once; what the row's lock adds |
| `UploadTickets` | slots and results of one upload ticket |
| `AccessKeys`, `LoginSessions` | quota of keys and ownership of sessions; failure window, cookies, logout |
| `AccessProofs` | the proofs about these three |
| `CaseMemory` | operators: the snapshot of a case and what is read off it |
| `RuntimeView` | operators over `CaseMemory`: answers, the latest view, the report |
| `Dialogue` | operators: what the interviewer may not ask again |
| `Interview`, `InterviewProofs` | one session's interview over these three |
| `Understanding` | operators: assessment, extraction and result of one file |
| `DocumentEvidence`, `DocumentEvidenceProofs` | documents, evidence, profile and gate over `Understanding` |
| `BundleGeneration` | operators: the model calls that make a bundle |
| `MaterialPackages`, `MaterialPackagesProofs` | bundles, publications, imports and clean-ups over it |
| `ModelChannels`, `ModelChannelsProofs` | the settings row and the calls that read it |
| `Statements`, `DocumentReview` | operators: what is made of statements; the review of documents |
| `LegacyInterview`, `LegacyInterviewProofs` | the scoring runtime over both |
| `MC...` | the instances of the modules above for TLC |

`MaterialPipeline` and `DocumentEvidence` divide the worker between them: the first has two workers,
removals and every point where a transaction can come between another's steps, with a document's content
reduced to one value; the second has one worker and the content. `SessionTurns` and `Interview` divide a
message the same way: the row, its lock and its copies in the first, what the answer says in
the second.

### MaterialPipeline

One session. Each row is a function on `Docs`: `status` and `art` (the document
row: `artifact_json` reduced to the tombstone flag, the understanding's status and whether a
result is stored), `evidence` (the funding value the document's evidence gives, or `None`),
`job`, and `seqno` (the order of `job_id`). `snap`, `field`, `gate` are the session's
derived values. A worker has `pc` (where it is in `run_once`), `cur` (its document),
`view` (the copy of the row it has loaded) and `wtx` (what its open transaction has
computed); a removal has `dtx[d]`. A transaction is split where another one can come
between: at each commit, after each read that is used later, and where it takes a
row lock (the *flush*).

| Actions | Code |
|---|---|
| `Upload`, `TurnRefreshesGate` | `FileService.upload`; the refresh a user turn begins with |
| `Claim`, `SeesTombstone` | `claim_next_job` and the commit after it; `_complete_job_as_cancelled` |
| `StartParse`, `RefreshBeforeWrite`, `WriteParsed` | `process_document`, with the window between `db.refresh` and the write |
| `StartUnderstanding`, `FlushUpsert`, `CommitUpsert` | the model call, `upsert_material_understanding`, and the commit with profile, job and gate |
| `StartMaterialRefresh`, `FinishMaterialRefresh`, `SkipMaterialRefresh` | `refresh_after_material_change`, as it concerns the gate |
| `Raise`, `LoadForFailure`, `FlushFailure`, `CommitFailure` | the exception handler of `run_once` |
| `Crash` | the process dies; its open transaction is lost |
| `BeginRemoval`, `FlushDelete`, `CommitDelete` | `delete_file` |
| `BeginRemoval`, `FlushRollback`, `CommitRollback`, `AbortRemoval` | `_rollback_reserved_upload`; a request that fails |

Assumed: PostgreSQL at READ COMMITTED, with row locks and `autoflush=False`; the
session's family is declared and the session is not terminal; the snapshot row
exists; the applicant has claimed no funding value; a `SELECT` directly followed
by its `UPDATE` in one short call is one step; a deadlock between row locks
(`delete_file` takes job then document, the worker document then job) is broken by the
database, which is `Raise` or `AbortRemoval`.

`overlap` is a history variable. It records that a commit fell into another
transaction that was already working from what the commit changed. The board, the
profile and the gate *are* wrong after some such collisions (section 4),
and the `Serial...` properties say that they are right as long as there was none:
all other interleavings, failures and crashes are harmless.

### SessionTurns

One session: `row` (phase, decision and JSON state), `turns`, and for each actor
`pc` and `view`, its copy of the row. Actors are the requests that POST a message
(one shot each), refreshers (workers and debug fill that call
`refresh_after_material_change`, again and again) and generators of material (one shot). `Decided`
is the heart: phase and decision are written if they differ from the *copy*
(`Column`), the state is replaced and forgets marker, lock and starts.

| Actions | Code |
|---|---|
| `Arrive`, `ReplayFound`, `RejectBusy`, `Check` | load, terminal check, lock, replay lookup, check for an unanswered turn and a marker |
| `Admit`, `AdmitDuplicate`, `AdmitFails` | user turn and marker in one commit; the unique index; a failed commit |
| `Ask`, `Retry`, `Answer` | the model call and its retries, `_apply_graph_response_state` and the assistant turn |
| `Fail`, `CleanupFails` | `_cleanup_incomplete_committed_user_turn`, which takes back turn and marker, or fails in its turn and leaves both (counted with the crashes) |
| `LoadRefresh`, `SaveRefresh`, `FailRefresh` | `refresh_after_material_change` |
| `Acquire`, `RefuseGeneration`, `SetBundleId`, `Complete`, `FailGeneration`, `FailAgain` | `MaterialGenerationGuard` |
| `Generate`, `WriteBundle`, `ReloadRow` | the transactions of `create_bundle_events` |
| `Expire`, `Crash` | the lock's TTL runs out; a thread dies with its process |

`RowLocks` says which database it is: with row locks (PostgreSQL) nobody writes
the row between the check and the commit of an admission; on SQLite `FOR UPDATE` locks nothing
and the two are separate. A user turn's role and author is all that is kept of a turn; any number of
synthetic turns of one bundle counts as one. Assumed: a declared family and a gate that has been
refreshed once, so `phase` starts as `interview`; `Acquire` is one short transaction.

### UploadTickets, AccessKeys, LoginSessions

Three small protocols on rows that several handlers write. Each handler has a database
session of its own, so each has its copy of the row.

| Module | State | Actions | Code |
|---|---|---|---|
| `UploadTickets` | one `ticket`, each upload's `pc`, `copy` and document | `BeginReserve`, `CommitReserve`, `Reload`, `RefuseForSession`, `StartUpload`, `RejectFile`, `UploadFails`, `CommitUpload`, `AnswerFails`, `LoadForFinalize`, `Finalize`, `LoadForRelease`, `Release`, `Tombstone`, `ReadFails`, `Die`, `Expire`, `EndSession` | `reserve_upload_slot`, `upload_with_ticket`, `finalize_upload_result`, `release_upload_slot`, `_rollback_reserved_upload` |
| `AccessKeys` | `key` rows, `session`, `owner`, requests, one administrator's update, one clearing | `Enter`, `Identify`, `ChargeKey`, `CommitSession`; `LoadKey`, `UpdateKey`; `ListSessions`, `DeleteSessions`; `ExpireKey` | `create_session_with_quota`, `consume_session_quota`, `update_key`, `clear_account_sessions` |
| `LoginSessions` | `failures` of one address, `cookie` rows, attempts, requests, the clock | `CheckRate`, `Succeed`, `Fail`, `RecordFailure`; `UseCookie`, `TouchCookie`, `Serve`, `LoadForLogout`, `Logout`; `Tick` | `check_login_rate_limit`, `record_login_failure`, `simple_auth_middleware`, `revoke_current_auth_session` |

`UploadTickets`'s `stale` and `LoginSessions`'s `overlapped` are history variables: they record
that a count was written from an old copy, and that two attempts were in progress together. The
properties are stated for the rest and the exceptions are in section 4.
Assumed: one ticket and one address; a touch commits within the tick in which it was found due; a
ticket's creation, a key's creation and a password's check are initial state or input. The list of an address's failures is
only counted and cut by age, so `failures` is the set of attempts whose times are in it.

### CaseMemory, RuntimeView, Dialogue, Interview

`CaseMemory` is what `CaseMemoryService` computes, as operators from documents and
turns to a snapshot: claims merged by id and by field, evidence cards, proof points, conflicts within and
between documents and with what the applicant said, the funding gap, the next move, and what
`case_board_projection` and `query_evidence_graph` read off it. The claims, cards and proof points a snapshot
is read from are a set of items, each with its place (document or turn, and position there): which
item stands where two share an id, or is the latest of a field, is a matter of places, which a proof can compare. `RuntimeView` follows an answer from
the model's output to what is sent and what of it is stored, to the latest view read back from the turns, to a replay
and to the report. `Account` is what the runtime says of its own decision inside `turn_decision`
(`native_interviewer_runtime_service.py:865-879`): it is sent, and no turn keeps it.
`Dialogue` says when an answer is objectionable because it asks again. All three are free of state.

`Interview` is one session over them: `docs`, `turns`, the stored snapshot `memory`, the session row
`rec`, where the message's handler is (`pc`, `answer`), whether a refresh is `due`.

| Actions | Code |
|---|---|
| `Upload`, `Understand`, `Misunderstand`, `Withdraw` | the commits of upload, worker and removal, with `rebuild_and_persist` |
| `RefreshMaterial`, `SkipRefresh` | `refresh_after_material_change` |
| `Post`, `Capture`, `Ask`, `Respond` | a message stored, its claim captured, answered in at most two attempts, the answer stored with its view |
| `GateReply`, `Declare` | no visa family is chosen yet; the family is declared |
| `Fail`, `CleanUp`, `CleanUpFails` | a turn that fails, and its clean-up in two commits |
| `Resolve`, `Import` | `resolve_conflicts`; `import_compat_messages` |

Every action is one commit and they interleave freely, except that a message is handled by one
request at a time (that is what `SessionTurns` shows), and an import or a resolution only comes while none is
in flight. Assumed: `get_or_build_snapshot`, when it inserts the first snapshot while a message is answered,
is treated as committed; topics of a question form one list. A clean-up fails here at its rebuild; one that fails
before is `CleanupFails` of `SessionTurns`. Left out: the undergraduate-major
and internal-marker rules of the quality guard, `last_material_refresh`, prompt traces, annotations of
the interview's memory. The code looks at the last six questions, the instance at the last one.

### Understanding, DocumentEvidence

`Understanding` is what one file becomes: the type an upload is assessed as and whether it counts, the facts
stated in it or extracted by a model, and the stored result, in which claims without a card they cite are
not documented. `DocumentEvidence` is one session: documents, evidence rows, profile fields,
gate, one worker.

| Actions | Code |
|---|---|
| `Upload` | `FileService.upload` with declared type, words of the name, and the interviewer's focus |
| `Take`, `Parse`, `Understand`, `Skip`, `Fail`, `Die` | `run_once`: the commits of `process_document` and of the understanding, a removed document, an exception, a death |
| `Remove` | `delete_file` |
| `Bundle`, `Fill` | a bundle's documents with the claims of its synthetic turns; `fill_current_gap`, which writes a proof of funding for a type it has no template for |

`behind` is a history variable: evidence has been replaced and the profile not yet been computed from it, which
is so between the worker's two commits, and after a failure or a death there until something else
changes the material. Left out: the history of claims and the snapshot kept with the profile
(these are in `Statements`), texts and pages, the two fields on a sponsor's equity that one fill writes and nothing else does.

### BundleGeneration, MaterialPackages

`BundleGeneration` is the chain of model calls of one bundle: plan, a call per document with retries and validation,
a summary; as operators on the progress of a generation. `MaterialPackages` has the rows of documents of several
sessions and of the archive, each session's `board` and `gate`, bundles and imports in progress.

| Actions | Code |
|---|---|
| `Upload`, `Understand`, `RemoveDocument` | as in the pipeline, in one step |
| `StartBundle`, `CallModel`, `WriteDocument`, `CommitBundle`, `FinishBundle` | `create_bundle_events` and the generator |
| `FailWriting`, `LoseWriting`, `WithdrawBundle` | a failure with documents flushed (the guard's `fail` commits them), a lost transaction, a bundle withdrawn after its commit |
| `StartValidation`, `FinishValidation`, `Publish`, `CleanUpArchives` | `f1_demo_material_package.py`: `validate`, `publish` with and without `--replace` and `--force`, `cleanup-archives` |
| `ReadPackage`, `CopyDocument`, `CommitImport`, `LoseImport` | `import_package` |
| `ClearKey` | `clear_access_key_materials` |

`rough`, `halved` and `torn` are history variables that name the changes after which the code rebuilds nothing,
bundles committed by the failure of their making, and imports whose package was deleted under them. Assumed: one
publisher, whose publication is one step; the profile is treated like the gate; the interview of a validation goes
well or not (`sound`), whatever the documents. Left out: uploads a validation has refused,
synthetic turns, the deletion of a whole session.

### ModelChannels

One row of settings, the flat fields mirrored from the active channel, and requests of four kinds: `save`; `turn`, a
message through `api/routers/messages.py`, which pins the settings (`admin_model_runtime`); `unpinned`, a message through
`openai_compat.py:130` or `openai_responses.py:155` and the generation of a bundle, which do not; `build`, a client of
`AgentModelFactory.build`. `Begin` and `Migrate` are `get_settings`; `CreateChannel`, `UpdateChannel`, `DeleteChannel`,
`ActivateChannel`, `PatchSettings` the saves; `ReadAgain`, `Pin`, `CallModel`, `CallAgain`, `EndCalls` how a request gets
URL, key and model name: pinned once for all calls of a turn, or read twice for each call. A save writes the whole row from
the copy its request read. One address stands for all; the demo's feature flags in the same JSON are left out.

### Statements, DocumentReview, LegacyInterview

The runtime that scores turns. `Statements`: what is made of a message on who pays (a source it names, and
those it only mentions, negated or not, which some readers take for a claim; the field, the history of claims, findings, risk flags and missing evidence of the score with its guards).
`DocumentReview`: conflicts among documents and with claims, the board's, a model's, and how they are merged and
normalised. `LegacyInterview`: one session; `Add` and `Withdraw` change what is on file, `Hear` and `Reconsider` are
`run_turn` and `refresh_after_material_change` until the model is asked, `Answer` the chain of alignments after it
(`_clear_ready_document_focus`, `_converge_repeated_claim_conflict`, `_align_action_with_document_review`, phase,
requested documents), `Fail` a model that fails twice. The endpoints select the native runtime; this one is run by tests
and offline evaluation, with one caller at a time. Left out: numbers of the score, wording, guidance texts, the boundary
decision (only the model reads it).

## 3. What TLC checks

| Run | Instance | Properties |
|---|---|---|
| `pipeline_workers` | 2 workers, 2 documents, 1 removal of either kind, 1 crash | `OutcomeRecorded`, `SerialBoard`, `RemovalUndoneOnlyByParse`, `LiveJobSettles`, `AtMostOnceQueue` |
| `pipeline_session` | 1 worker, 2 documents of the two gated types, 2 funding values, 1 removal, 1 crash | `SerialProfile`, `ReadyIsEarned` |
| `turns_messages` | 3 requests (one message twice, one without an id), 1 refresher, 1 crash, row locks, a generator that is refused | `TurnExclusive`, `ReplayTruthful`, `UnblockedByMessages`, `MaterialNeverReopens`, `RequestEnds` |
| `turns_same_message` | one message twice with 2 attempts, 1 generator, 1 crash, 1 expired lock, no row locks | `AnsweredOnce` |
| `tickets` | 4 uploads with a ticket of 2 files, 1 fault, row locks | `CountIsExact`, `ResultsComplete` |
| `access_keys` | 2 keys, 3 creations, limits up to 2, 1 update or expiry | `ChargedOnce`, `BoundToPayer`, `ChargedWithinLimit` |
| `logins` | 3 attempts of which 2 may fail in a window of 2 ticks, 2 requests, 5 ticks, idle limit 4, age limit 5 | `FailuresWithinRate`, `LoggedOutForGood` |
| `interview` | 2 documents with 3 kinds of result, 2 kinds of reply, 4 outputs of the model, 4 turns, 1 import | `SnapshotFresh`, `PassedIsEarned`, `FundingAsked`, `ReplayedAsSent`, `GraphIsWhole`, `ResolvedForGood`, `ConflictIsReviewed` |
| `channels` | 2 requests, 3 channel ids, 2 keys, 3 starts | `MirrorsActive`, `CallsAreWhole` |
| `materials` | 2 sessions and the archive, 2 required types, 3 bundles of any origin | `ViewsFollowDocuments`, `ImportsAreWhole`, `BundlesAreWhole` |
| `evidence` | 2 documents of 3 types, 4 kinds of file, answers of the model that cite what they did not send | `ResultsAreGrounded`, `ProfileFollowsEvidence`, `FundingReadyIsAgreed`, `ClaimStands` |
| `legacy` | 3 files of which 2 are on file, 3 messages in one of two wordings (a negated source, an admission), any answers of three models | `DisagreementIsReviewed`, `ReviewIsExplained`, `RefusalIsConfessed`, `UnprovenClaimShows` |

Every property has a mutant of the code (a dropped guard, a forgotten reset, an
off-by-one) that the run finds, so none holds by the shape of the model; the mutants stand beside the
definitions they change. The type invariants and `ClaimExclusive`, `JobForward` are theorems (section 5) and have no run
of their own.

**Why the bounds are enough.** Every interaction in the pipeline is between a worker
and a worker, or a worker and a removal, about one document, and the board couples two
documents: two workers, two documents and a removal show every pair; `ScanLimit = 2`
lets a claim stop behind tombstoned jobs. The gate and the profile need both gated types and two
evidence values (`conflicted`), but not a second worker: `pipeline_session` splits that off to stay
small. Two copies of a message and one stranger are the
smallest set in which a replay can get the wrong answer. A second attempt changes only
when the row is reloaded, so `turns_messages` has one attempt (three in
the code) and `turns_same_message` two. Crashes, removals, faults are bounded by
`MaxCrashes` (which in `SessionTurns` also counts failed clean-ups), `MaxRemovals`, `MaxExpiries`, `MaxFaults`; nothing depends on their total. Two uploads more than slots
let a slot be given back and taken again while others hold theirs. Two keys, one of which can be disabled or lowered while
a creation waits for its lock, show the quota; a third creation exceeds a limit of two. In `logins` the third attempt is the
one that must be refused, and five ticks let a failure leave the window and a cookie die of age and of idleness. In
`interview`, two documents are what a conflict needs, a third statement is the applicant's, and four turns are a message
before and one after a change of the material. Three bundles are a validated session's own, its publication and an import of it. In `evidence`
and `legacy` a second document is what agreement and contradiction need, and a third message what a repeated conflict needs.

**Symmetry** is used where actors differ in nothing and no liveness is checked: attempts and requests of `logins`,
sessions of `materials`, documents of `evidence`, uploads of `tickets`.

**Deadlock** checking is off: the system may have nothing to do (no upload and no
request need ever come).

**Fairness.** `WF(WorkerStep(w))`: the worker loop calls `run_once` for ever, every step in
it ends, because model calls have timeouts and the database breaks deadlocks; a
dead process is replaced, which is what `Crash` does. `WF(RemovalStep(d))` and
`WF(RequestStep(r))`: a request the server has begun runs to its end, or dies.
Uploads, removals, arrivals, refreshes, crashes, failed clean-ups and expiries carry no fairness of their own. `pipeline_workers` and `turns_messages`
check liveness under it; the other runs check safety, for which none is assumed.

## 4. Where the code departs from its documents

Met while modelling. The properties of section 3 are stated so that they hold of the code: where a departure
would break one, the property names it as an exception (a history variable, or the actor that may do it), so that
everything else is still checked. These are the departures from what a document, a comment or a docstring says, first
those that need interleavings or failures.

| Where | What happens | What is said |
|---|---|---|
| `case_memory_service.py:97` | a delete that commits between the worker's build of the board and its write leaves the deleted document on the board | `docs/architecture/ai-native-case-understanding-spec.md:83-84` |
| `parse_worker.py:42`, `document_repo.py:223` | cancellations of tombstoned jobs inside a claim that finds nothing are rolled back every time; 32 of them hide the live jobs behind | `document_repo.py:181-182` |
| `message_service.py:966` | a refresh older than a refusal writes its decision over it, but not the phase | `docs/implementation/backend-runtime-defect-fix-plan.md:332` |
| `message_service.py:976` | an answer replaces the JSON state and with it the lock of a running generator | `material_generation_guard.py:97-100` |
| `message_service.py:151` | on SQLite two messages both pass the check before either has committed | `message_service.py:148-150` |
| `debug_material_bundle_service.py:1043` | synthetic user turns are never answered; every later message gets 409 | `backend-runtime-defect-fix-plan.md:333`, `message_service.py:400-401` |
| `message_service.py:384` | a process that dies after the user turn's commit, or a clean-up that fails, leaves turn and marker, after which every message gets 409, or claims of a message that is not there in the snapshot | `message_service.py:386-387`, `message_service.py:400-401` |
| `wx_upload_ticket_service.py:216` | a slot given back from the copy of the reservation overwrites reservations made since: a ticket takes more files than its limit | `wx_upload_ticket_service.py:164-165`, `wx_upload.py:113-114` |
| `material_generation_guard.py:186` | a bundle that fails between two documents is committed by the release of the lock, and no snapshot knows it | `docs/runtime-contracts.md:79` |
| `native_interviewer_runtime_service.py:549` | a refresh requests the document of the last answer's focus again, also when it is there | `docs/runtime-contracts.md:36-42` |
| `gate_runtime_service.py:105` | a file that parses as unsupported keeps the gate waiting for a job that has ended | the comment at line 109 |
| `f1_demo_material_package.py:1478` | a package published from imported documents is not in the list of packages | publication exists to fill that list |
| `admin_config_service.py` | a flat PATCH with some of the fields forgets the address | `docs/API.md:994` |
| `model_factory.py:65`, `openai_compat.py:130`, `openai_responses.py:155` | where nothing is pinned, which includes the turns of the OpenAI-compatible endpoints, each call is made of two reads of the settings, which a switch of the channel can separate, and the calls of one turn can use different channels | `docs/API.md:1073` |
| `message_service.py:489-497`, `:1178` | a repeated message gets `turn_decision` without the runtime's own account (author, `focus_*`, `governor_decision`, `guard_status`, `next_safe_action`) and an empty advisory context | `docs/API.md:246`, `docs/implementation/backend-runtime-defect-fix-plan.md:103` |
| `message_service.py:138-139` | a repeat of the message whose answer closed the session is refused with 409, not answered with that answer | `README.md:110`, `docs/API.md:246` |
| `report_service.py:359-371` | missing evidence of a report comes from the Case Board, which asks for a proof of funding when the parents' payment is only stated | `docs/runtime-contracts.md:71-72`; `docs/architecture/ai-native-case-understanding-spec.md:92-96` says what the code does |

What the documents leave open, and a reader of the models should know:

* `MaterialNeverReopens` names the one actor that may reopen a closed session: a message request that
  loaded the row before the refusal and is admitted after it.
* A delete's cancellation of a job is overwritten by the worker that finishes it: the job reads `completed`.
* A worker that dies leaves its job in `processing` for ever; a slot of a ticket whose handler dies is not
  given back; two overlapping saves of the settings keep the later one; attempts to log in that overlap can exceed the rate.
* A lock of the generator lives 900 seconds, the worst case of its calls is longer.
* Understanding: unnamed claims of two documents get the same id and merge; nothing keeps a model from naming a claim
  like one of the applicant's statements (`claim_user_...`, names the board shows it), in which case the document's field, value and
  status replace the statement's and no disagreement between them is found; a conflict resolved by name of a field is
  silent about later conflicts of that field; when the model fails, an understanding fails although evidence was found in
  the text; `supporting_evidence_missing`, once told, stays in the advisory.
* Profile: a conflict between claim and documents is lost at the next recompute, and so is a claim that a document had confirmed,
  when that document is removed.
* Views: the decision of a view derived from turns can differ from the one the answer carried; an imported answer makes the latest view
  ask for the old focus's document.
* Legacy runtime: a board with an open proof point hides the contradictions of the documents; a statement repeated word for
  word is not the latest claim; of several conflicts the score keeps the first; a refresh after a refusal reopens the
  session; the model may refuse without a red line.

## 5. What is proved

All theorems hold for every set of documents, workers, requests, refreshers, generators, uploads, keys, creations, logins,
channels and sessions, for every result, reply and output of the models, and every value of the other constants that the ASSUMEs allow.
These say that bounds are numbers, sets that are counted are finite (documents, uploads, creations, logins, a model's claims
and facts), actors are disjoint, `None` and its like are none of the values, the archive is no session,
and, for `Interview`, `DocumentEvidence` and `LegacyInterview`, what a parsed answer of a model is shaped like, as `_parse_result` and the
schemas leave it.

**Pipeline.** `MaterialPipelineProofs` proves in three layers. The first is

    IInv == TypeOK /\ WorkerShape /\ RowsTogether /\ HeldLeftQueue /\ ClaimExclusive

`ClaimExclusive` alone is not inductive: a claim could take a job someone holds if
held jobs could be queued (`HeldLeftQueue`), which needs that job and document
come into being together (`RowsTogether`) and that a worker has a document exactly while it
runs (`WorkerShape`). From it follow `TypeCorrect`, `ClaimIsExclusive`,
`JobsGoForward` and `PipelineImplementsQueue`: under `QueuePhase` and `QueueHolder` every
step is a step of `JobQueue` or a stutter.

`MInv` (`Marks`, `LiveCopies`, `OutcomeOpen`, `OutcomeRecorded`) adds removals. Two marks make a document removed, its status and a flag in its
artifact, and workers overwrite one or both. `Marks` says when one can stand without the other, `LiveCopies` that a worker only
writes back a copy it found live, `OutcomeOpen` that whoever can still write the
artifact has not recorded an outcome. It gives `OutcomesAreRecorded` and `UndoneOnlyByParse`:
the window between `db.refresh` and the parsed write is the only one in which a
removal can be undone.

`BInv` adds what is derived, `SerialInvariant`:

    BInv == OutcomeLater /\ RollbacksAreTickets /\ (~overlap => SInv)
    SInv == WorkSerial /\ BoardsSerial /\ ProfileSerial /\ GateSerial

As long as nothing has collided, a worker at work has a live document and a copy that is what is stored (`WorkSerial`), and what
an open transaction will write is the board its commit should leave (`WorkerBoards`, `RollbackBoards`). Every commit must
preserve this for everyone else's open transaction, unless it sets `overlap`: the proof is where it is shown that
`Collides` names *all* collisions that matter. From it follow `BoardIsSerial`, `ProfileIsSerial` and `ReadyGateIsEarned`.
The last needed a collision the checked instance could not show: a refresh that saves a `ready` it computed before another commit.

**Turns.** `SessionTurnsProofs` proves `TypeCorrect` with `Shape` (who is where, with
which copy) and from it `NothingElseReopens`: a refresh only starts from a copy
whose phase is `interview`, so it never writes the phase. `OnceInv` gives
`MessagesAnsweredOnce` with row locks or without: the unique index gives
one user turn per message (`MessageOnce`), an answer comes from a request
that is done (`Authors`) and that answers once (`AnswerOnce`), and a request in flight keeps its turn (`InFlightTurn`).
`LockInv` assumes `RowLocks`: what was checked still holds when it is
committed (`CheckedAlone`, `CheckedAnswered`), so the message in flight stays the open one
(`InFlightOpen`), answers stand behind their own message (`NoTwoMessages`,
`Paired`), and what is open is owned by somebody (`Owned`). This gives
`OneTurnAtATime`, `MessagesUnblock` and `RepeatsGetTheirAnswer`. Without
`RowLocks` `TurnExclusive` is false: two messages pass the check together.

**Interview.** `InterviewProofs` proves `InterviewInvariant`,

    IInv == DocsShaped /\ RecShaped /\ TurnsInv /\ MemorySnapped /\ SnapshotFresh

whose parts say what rows look like, that a turn that was answered keeps what was sent (`KeptAsSent`, in `TurnsInv`) and that ids are unique in
a snapshot and nothing resolved is in conflict in it (`MemorySnapped`). It gives `SnapshotIsFresh`, `GraphsAreWhole`,
`ResolutionsHold` and `ConflictsAreReviewed`. `AnswersReplay` needs `ReplayInv` besides: an answer about to be stored keeps what it says
(`Pending`), and a session that refuses messages has sent a refusal (`ClosedByAnswer`), so that a repeat is refused for no other reason. The work is in lemmas about the operators of `CaseMemory` for any documents and
any turns: a rebuild depends on the turns only through the statements claimed in them (`SameMerged` and others), a resolution drops exactly what it names.

`SnapshotFresh` has an exception, a clean-up that is due or has failed, and the snapshot is what the applicant is judged by also then.
`MemoryIsBuilt` says what is left: the snapshot is built of the documents there are and of a *superset* of the statements there are.
On it rest `PassingIsEarned` and `FundingIsAsked`: more statements only add claims and conflicts, a statement's claim keeps its name in the
merge, is never documented and is not backed by an uploaded card, so stated funding is either unresolved, in conflict, or
shown by a live document, and the report says so.

These two have the hypothesis `OwnNames`: no result names a claim like a statement of the applicant. It is not an ASSUME of the
module, because the code does not ensure it: the board shows the model the ids of the statements, and a claim of that name in its
answer takes over the statement's field and value (section 4). Without it the theorems are false; the instance checked satisfies it. No other
theorem about `Interview` needs it.

**Documents and evidence.** `DocumentEvidenceProofs` proves `EvidenceInvariant` with

    IInv == Typed /\ WorkInHand /\ EvidenceHasDocument /\ EveryResultGrounded
            /\ ProfileFollowsEvidence /\ ReadyFunding

`EveryResultIsGrounded` is about operators (what is stored of any answer a model can give) and `ProfileIsEvidence` about all who
replace evidence and all who recompute. `ReadyFundingAgrees` needs `ReadyFunding`, which holds also
while the profile is behind: the gate does not read the evidence but the profile, so a ready item must be kept by every
commit that changes a document under it. `ClaimsStand` is an action property: a claim is only confirmed or disputed by a
document.

**Packages.** `MaterialPackagesProofs` proves `PackagesInvariant`: documents and their bundles (`DocumentsSound`), views
(`Views`), and what each generation and import in progress has so far (`GenSound`, `ImportSound`), which belong
to different bundles (`NumbersDiffer`). A bundle or an import is whole at its end because it is the right prefix at every step, also
when a clean-up or a removal comes between, or else the history variables say so. It gives `ViewsAreLive`, `EveryImportIsWhole`
and `EveryBundleIsWhole`.

**Settings.** `ModelChannelsProofs` proves `ChannelsInvariant`: the row is sound, every copy a request carries is
one that was stored (`Standing`), and a call is made of what its request read (`CallMade`). A save writes the whole row from a copy that may be
old; `RowMirrorsActive` and `ChannelIdsAreUnique` hold all the same, because each save normalises what it writes by
itself. `ModelCallsAreWhole` needs that what was read was at some time the row (`RowSeen`); of a turn that pins its settings that is all,
of the others it is also assumed that both reads of a call found the same.

**Upload tickets.** `AccessProofs` proves `CountExact` from

    CInv == TicketTypeOK /\ Loaded /\ Results /\ (CountedInOrder => Counted)

A handler that writes has a copy (`Loaded`), what row and copies list as results was accepted (`Results`), and, as long as no
reservation or release was written from an old copy, the count is that of the holders and leaves room in a copy for the result
that will be written from it (`Covered`): `finalize_reserved_upload` takes the larger of the count and the number of
results, so without `Covered` a result could raise the count. `AllResults` is inductive with `CInv`. Row locks are not
assumed: with or without them, only stale copies break the count.

**Access.** The same module proves `OwnersPaid` from `IInv` (`TypeOK`, `Placed`: a request has a payer and a session
according to where it is, `BoundToPayer`), and `QuotaExact` and `QuotaKept` from `IInv` with `Held`: a
charged creation holds the key's lock until it commits, so nobody else's charge comes between its condition
and its commit. The count is compared with a set that grows by one element per commit, for which the finite-set theorems of
the library are cited. Of logins, `LogoutFinal`: whoever writes a cookie writes one column of it; `Ordered` says that a
cookie is the last step of its attempt, so that no attempt issues one twice, and that a request in progress has one.
`ThrottleHolds` rests on `Throttle`: as long as attempts do not overlap (`Alone`), the list holds every failure that is still in the
window of the next attempt, and one that was let through found fewer than `Attempts`; then no window of time, wherever it
starts, has more (`Rate`).

**Legacy runtime.** `LegacyInterviewProofs` proves

    LInv == TypeOK /\ ScoreShown /\ DisagreementIsReviewed /\ ReviewIsExplained

`ScoreShown` carries what the first half of a turn computed over to its answer: between the two, the documents and the profile are
those the score was made of. `UnprovenClaimsShow` follows from it. `DisagreementsAreReviewed` and `ReviewsAreExplained` rest on lemmas
about the operators of `DocumentReview`, for any lists of conflicts: what a filter keeps (`KeptIs`), that a merge has the conflicts of
both sides (`MergedIs`) and that a merged review with a confirmed conflict has the status `high_risk` (`Ready`). So a contradiction of the documents is
in the review that counts whatever a model told (`ReviewIs`), the status makes the last correction of the action
a review (`ConflictDecides`), and the rule that chooses a conflict to ask about, stricter than the one that confirmed it, can fall
back on the first of them (`ClarifiedIs`). `RefusalsAreConfessed` needs no invariant: it is what the corrections do to any action
(`RepeatsDecide`), and that nothing but the answer changes the answer. Assumed of the models' answers is what their pydantic
schemas enforce (`ConflictsAssumption`, `ActionsAssumption`: the `Literal`s of `agents/schemas.py`), and that a score has flags and missing documents.

**Only model-checked.** `LiveJobSettles` and `RequestEnds`: liveness under fairness is out of the prover's reach. What
`AppendUnique` and `Synced` of `Statements` make of a claim history is checked with `LegacyInterview` only; no theorem depends on it,
because the theorems hold for every history.

## 6. Not modelled

* **Graph runtime, adjudication** (`graph_runtime_adapter.py` and neighbours): not reachable from the endpoints; one pass of nodes
  without shared state, run by tests and offline replay.
* **Governor, risk watch, boundary policy**: deterministic functions which `run_turn` of neither runtime calls.
* **Retrieval of visa policy**: a numerical search over a corpus that only a start-up command writes.
* **Command line, start-up, debug snapshots, evaluation; web workbench and mini program**: process control, read-only dumps, and browser
  state that meets the server only in its requests, which are actions of the models.
* Inside modelled parts: the race of two first inserts of a snapshot inside a savepoint; hard deletion of a session under a running worker;
  the per-key rate window of generators, a list in one process's memory; the practice review a model writes after the interview; wire
  formats, prompts, wording, storage of bytes.

Model calls are steps with any outcome from a small set; what the program makes of the outcome is modelled.

## 7. Plan

1. An import of a transcript as an actor of `SessionTurns`, where it races with a message in flight.
2. The first insert of a snapshot, and session deletion, as actions of `MaterialPipeline`.
3. The internal report and the session's read model over `RuntimeView`.
4. As theorems, more of what the operators promise: the claim history of `Statements`, the report of `RuntimeView`.

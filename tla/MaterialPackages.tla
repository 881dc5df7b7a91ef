-------------------------- MODULE MaterialPackages --------------------------
(***************************************************************************)
(* Documents that come several at a time: bundles a model has written,     *)
(* packages published from a session that was validated, imports of such a *)
(* package, and the clean-ups that take many documents away.               *)
(*                                                                         *)
(* Uploads and their understanding are modelled in MaterialPipeline and    *)
(* are here one step each.  Steps are what one transaction commits, except *)
(* that a bundle and an import are put together step by step.              *)
(***************************************************************************)
EXTENDS BundleGeneration, FiniteSets

CONSTANTS
    Sessions,
    MaxBundles,     \* bound: uploads, bundles, imports and publications
    Archive,        \* the sessions made for publications, which nobody interviews
    None

ASSUME ArchiveIsNobodys == Archive \notin Sessions

VARIABLES
    docs,           \* rows of documents, with their chunks and evidence
    board,          \* [Sessions -> documents in the case memory snapshot]
    gate,           \* [Sessions -> documents the gate has counted]
    bundles,        \* bundles so far
    gen,            \* [Sessions -> the bundle being made for the session]
    import,         \* [Sessions -> the package being imported]
    artifact,       \* [Sessions -> the file a validation of the session writes]
    rough,          \* history: sessions whose last change came without a rebuild
    halved,         \* history: bundles committed by the failure of their making
    torn            \* history: imports whose package was deleted meanwhile

vars == <<docs, board, gate, bundles, gen, import, artifact, rough, halved, torn>>

Kinds == {"upload", "debug", "practice", "template", "import"}

\* A document: the session it is in, the bundle it came with, its type; whether
\* it is understood or a tombstone; whether its chunks and evidence are there;
\* whether its metadata say it was imported.
Documents == [home : Sessions \cup {Archive}, bundle : Nat, type : RequiredSet, kind : Kinds,
              state : {"waiting", "parsed", "tombstoned"}, whole : BOOLEAN, imported : BOOLEAN]

IdOf(d) == <<d.bundle, d.type>>
In(s) == {d \in docs : d.home = s}
Live(s) == {IdOf(d) : d \in {e \in In(s) : e.state = "parsed"}}
Bundle(b) == {d \in docs : d.bundle = b}
With(old, new) == (docs \ old) \cup new
Tombstone(d) == [d EXCEPT !.state = "tombstoned"]

\* rebuild_and_persist and refresh_record, on the documents new.
Understood(s, new) == {IdOf(d) : d \in {e \in new : e.home = s /\ e.state = "parsed"}}

\* Mutant: a snapshot that is there is only added to.
Rebuilt_Added(S) ==
    /\ board' = [s \in Sessions |-> IF s \in S THEN board[s] \cup Understood(s, docs') ELSE board[s]]
    /\ gate' = [s \in Sessions |-> IF s \in S THEN Understood(s, docs') ELSE gate[s]]
    /\ rough' = rough \ S

Rebuilt(S) ==
    /\ board' = [s \in Sessions |-> IF s \in S THEN Understood(s, docs') ELSE board[s]]
    /\ gate' = [s \in Sessions |-> IF s \in S THEN Understood(s, docs') ELSE gate[s]]
    /\ rough' = rough \ S

-----------------------------------------------------------------------------
(* The archive.                                                            *)

\* _group_archived_documents: the documents of the package.
Listed == {d \in docs : d.kind = "template" /\ ~d.imported}

\* _package_status
Ready(D) ==
    /\ RequiredSet \subseteq {d.type : d \in D}
    /\ \A d \in D : d.state = "parsed"

\* is_source_archive_document: what the script of the archive calls its own.
SourceOfArchive == {d \in docs : d.kind \in {"debug", "template"} /\ ~d.imported}

\* _validate_current_db_documents_for_publish
Publishable(d) == d.state = "parsed" /\ d.whole

\* MaterialCleanupService: neither templates nor what was made from them.
Clearable(d) == d.state # "tombstoned" /\ d.kind \notin {"template", "import"} /\ ~d.imported

-----------------------------------------------------------------------------

Idle == [pc |-> "idle"]

Init ==
    /\ docs = {}
    /\ board = [s \in Sessions |-> {}]
    /\ gate = [s \in Sessions |-> {}]
    /\ bundles = 0
    /\ gen = [s \in Sessions |-> Idle]
    /\ import = [s \in Sessions |-> Idle]
    /\ artifact = [s \in Sessions |-> "none"]
    /\ rough = {} /\ halved = {} /\ torn = {}

NewBundle == bundles < MaxBundles /\ bundles' = bundles + 1

Upload(s) ==
    /\ NewBundle
    /\ \E t \in RequiredSet :
         docs' = docs \cup {[home |-> s, bundle |-> bundles + 1, type |-> t, kind |-> "upload",
                             state |-> "waiting", whole |-> FALSE, imported |-> FALSE]}
    /\ Rebuilt({s})
    /\ UNCHANGED <<gen, import, artifact, halved, torn>>

Understand(d) ==
    /\ d.state = "waiting"
    /\ docs' = With({d}, {[d EXCEPT !.state = "parsed", !.whole = TRUE]})
    /\ Rebuilt({d.home})
    /\ UNCHANGED <<bundles, gen, import, artifact, halved, torn>>

\* DELETE of a file: by its owner, or in the archive by an administrator.
RemoveDocument(d) ==
    /\ d.state # "tombstoned"
    /\ docs' = With({d}, {Tombstone(d)})
    /\ Rebuilt({d.home} \cap Sessions)
    /\ UNCHANGED <<bundles, gen, import, artifact, halved, torn>>

-----------------------------------------------------------------------------
(* A bundle.  Its documents are flushed one by one in one transaction.      *)

StartBundle(s, kind) ==
    /\ gen[s] = Idle
    /\ NewBundle
    /\ gen' = [gen EXCEPT ![s] = [pc |-> "asking", kind |-> kind, bundle |-> bundles + 1,
                                  job |-> Planning, written |-> {}]]
    /\ UNCHANGED <<docs, board, gate, import, artifact, rough, halved, torn>>

Asked(s, outcome) == Answered(gen[s].job, outcome)

CallModel(s, outcome) ==
    /\ gen[s].pc = "asking" /\ Asking(gen[s].job)
    /\ gen' = [gen EXCEPT ![s] =
         IF Asked(s, outcome).pc = "failed" THEN Idle
         ELSE [@ EXCEPT !.job = Asked(s, outcome),
                        !.pc = IF Asked(s, outcome).pc = "made" THEN "writing" ELSE "asking"]]
    /\ UNCHANGED <<docs, board, gate, bundles, import, artifact, rough, halved, torn>>

\* _create_parsed_document
WriteDocument(s) ==
    /\ gen[s].pc = "writing"
    /\ Cardinality(gen[s].written) < Len(gen[s].job.made)
    /\ LET t == gen[s].job.made[Cardinality(gen[s].written) + 1] IN
       gen' = [gen EXCEPT ![s].written = @ \cup
                 {[home |-> s, bundle |-> gen[s].bundle, type |-> t, kind |-> gen[s].kind,
                   state |-> "parsed", whole |-> TRUE, imported |-> FALSE]}]
    /\ UNCHANGED <<docs, board, gate, bundles, import, artifact, rough, halved, torn>>

\* Mutant: the last document is left to be written later.
AllWritten_ButOne(s) == Cardinality(gen[s].written) + 1 >= Len(gen[s].job.made)

AllWritten(s) == Cardinality(gen[s].written) = Len(gen[s].job.made)

\* Turns, profile, gate and snapshot, then the commit.
CommitBundle(s) ==
    /\ gen[s].pc = "writing" /\ AllWritten(s)
    /\ docs' = docs \cup gen[s].written
    /\ Rebuilt({s})
    /\ gen' = [gen EXCEPT ![s].pc = "committed"]
    /\ UNCHANGED <<bundles, import, artifact, halved, torn>>

\* A step before the commit raises.  MaterialGenerationGuard.fail commits: the
\* lock's end, and with it the documents flushed so far; the gate, if it was
\* refreshed already; no snapshot.
FailWriting(s) ==
    /\ gen[s].pc = "writing"
    /\ docs' = docs \cup gen[s].written
    /\ \/ UNCHANGED gate
       \/ AllWritten(s) /\ gate' = [gate EXCEPT ![s] = Understood(s, docs')]
    /\ rough' = IF gen[s].written = {} THEN rough ELSE rough \cup {s}
    /\ halved' = IF AllWritten(s) THEN halved ELSE halved \cup {gen[s].bundle}
    /\ gen' = [gen EXCEPT ![s] = Idle]
    /\ UNCHANGED <<board, bundles, import, artifact, torn>>

\* The database fails, or the process: the transaction is rolled back.
LoseWriting(s) ==
    /\ gen[s].pc = "writing"
    /\ gen' = [gen EXCEPT ![s] = Idle]
    /\ UNCHANGED <<docs, board, gate, bundles, import, artifact, rough, halved, torn>>

\* The interview is refreshed, well or not, and the bundle is the answer.
FinishBundle(s) ==
    /\ gen[s].pc = "committed"
    /\ gen' = [gen EXCEPT ![s] = Idle]
    /\ UNCHANGED <<docs, board, gate, bundles, import, artifact, rough, halved, torn>>

\* What comes after the commit raises: _best_effort_tombstone_bundle removes the
\* bundle and rebuilds the snapshot, not the gate.
WithdrawBundle(s) ==
    /\ gen[s].pc = "committed"
    /\ LET lost == {d \in Bundle(gen[s].bundle) : d.state # "tombstoned"} IN
       /\ docs' = With(lost, {Tombstone(d) : d \in lost})
       /\ board' = [board EXCEPT ![s] = Understood(s, docs')]
       /\ rough' = rough \cup {s}
    /\ gen' = [gen EXCEPT ![s] = Idle]
    /\ UNCHANGED <<gate, bundles, import, artifact, halved, torn>>

-----------------------------------------------------------------------------
(* The script of the archive: a session validated by an interview over the *)
(* API, then published.                                                    *)

\* The session is new and nobody else knows it before its uploads are in.  A run
\* with a refused upload is left out: it fails, and lacks a type when published.
StartValidation(s) ==
    /\ artifact[s] = "none" /\ In(s) = {} /\ gen[s] = Idle /\ import[s] = Idle /\ s \notin rough
    /\ NewBundle
    /\ docs' = docs \cup {[home |-> s, bundle |-> bundles + 1, type |-> t, kind |-> "upload",
                           state |-> "waiting", whole |-> FALSE, imported |-> FALSE] : t \in RequiredSet}
    /\ Rebuilt({s})
    /\ artifact' = [artifact EXCEPT ![s] = "running"]
    /\ UNCHANGED <<gen, import, halved, torn>>

\* The documents of reports/export.
Exported(s) == {d \in In(s) : d.state # "tombstoned"}

\* validate_run_payload.  sound: the interview went well: its calls succeeded, its
\* replies differ, neither a turn nor a report has a terminal decision, the two
\* reports agree, and nothing asks for a required type any more.
NoDefect(s, sound) == sound /\ Ready(Exported(s))

\* The wait for the worker ends with its answer or its time; the export that is
\* judged is read after the interview.
FinishValidation(s, sound) ==
    /\ artifact[s] = "running"
    /\ artifact' = [artifact EXCEPT ![s] = IF NoDefect(s, sound) THEN "passed" ELSE "failed"]
    /\ UNCHANGED <<docs, board, gate, bundles, gen, import, rough, halved, torn>>

\* One document of each type; which one of several is up to names and ids.
Selections(s) == {f \in [RequiredSet -> In(s)] : \A t \in RequiredSet : f[t].type = t}

Template(d) == [d EXCEPT !.home = Archive, !.bundle = bundles + 1, !.kind = "template"]

\* validate_artifact_passed, then publish_validated_archive.
Publish(s, replace, force) ==
    /\ artifact[s] \in (IF force THEN {"passed", "failed"} ELSE {"passed"})
    /\ NewBundle
    /\ LET old == SourceOfArchive \cap {d \in docs : d.kind = "template"} IN
       /\ old # {} => replace
       /\ \E f \in Selections(s) :
            /\ \A t \in RequiredSet : Publishable(f[t])
            /\ docs' = (docs \ old) \cup {Template(f[t]) : t \in RequiredSet}
    /\ UNCHANGED <<board, gate, gen, import, artifact, rough, halved, torn>>

\* cleanup-archives: one package, or every one and every debug bundle; the rows
\* go, and nothing is rebuilt.
CleanUpArchives(D) ==
    /\ D # {}
    /\ docs' = docs \ D
    /\ rough' = rough \cup ({d.home : d \in D} \cap Sessions)
    /\ UNCHANGED <<board, gate, bundles, gen, import, artifact, halved, torn>>

ArchivesToClean ==
    {SourceOfArchive} \cup {SourceOfArchive \cap {d \in docs : d.kind = "template"}}

\* clear_access_key_materials, for a key that owns the sessions S.
ClearKey(S) ==
    /\ LET cleared == {d \in docs : d.home \in S /\ Clearable(d)} IN
       /\ cleared # {}
       /\ docs' = With(cleared, {Tombstone(d) : d \in cleared})
       /\ Rebuilt({d.home : d \in cleared})
    /\ UNCHANGED <<bundles, gen, import, artifact, halved, torn>>

-----------------------------------------------------------------------------
(* An import: the rows of the package are read, then each one's chunks and *)
(* evidence; all copies are committed together.                            *)

ReadPackage(s) ==
    /\ import[s] = Idle
    /\ Ready(Listed)
    /\ NewBundle
    /\ import' = [import EXCEPT ![s] = [pc |-> "copying", bundle |-> bundles + 1,
                                        left |-> Listed, copies |-> {}]]
    /\ UNCHANGED <<docs, board, gate, gen, artifact, rough, halved, torn>>

\* Mutant: the copy stays in the bundle of the package.
Copied_Linked(s, d) == [d EXCEPT !.home = s, !.kind = "import", !.imported = TRUE]

\* _copy_document; the rows of a document that is gone meanwhile leave nothing.
Copied(s, d) ==
    [d EXCEPT !.home = s, !.bundle = import[s].bundle, !.kind = "import", !.imported = TRUE,
              !.whole = \E e \in docs : IdOf(e) = IdOf(d) /\ e.whole]

CopyDocument(s) ==
    /\ import[s].pc = "copying"
    /\ \E d \in import[s].left :
         /\ import' = [import EXCEPT ![s].left = @ \ {d}, ![s].copies = @ \cup {Copied(s, d)}]
         /\ torn' = IF Copied(s, d).whole THEN torn ELSE torn \cup {import[s].bundle}
    /\ UNCHANGED <<docs, board, gate, bundles, gen, artifact, rough, halved>>

CommitImport(s) ==
    /\ import[s].pc = "copying" /\ import[s].left = {}
    /\ docs' = docs \cup import[s].copies
    /\ Rebuilt({s})
    /\ import' = [import EXCEPT ![s] = Idle]
    /\ UNCHANGED <<bundles, gen, artifact, halved, torn>>

\* The request fails or dies: nothing is committed.
LoseImport(s) ==
    /\ import[s].pc = "copying"
    /\ import' = [import EXCEPT ![s] = Idle]
    /\ UNCHANGED <<docs, board, gate, bundles, gen, artifact, rough, halved, torn>>

Next ==
    \/ \E s \in Sessions :
         \/ Upload(s)
         \/ \E kind \in {"debug", "practice"} : StartBundle(s, kind)
         \/ \E outcome \in Outcomes : CallModel(s, outcome)
         \/ WriteDocument(s) \/ CommitBundle(s) \/ FailWriting(s) \/ LoseWriting(s)
         \/ FinishBundle(s) \/ WithdrawBundle(s)
         \/ StartValidation(s) \/ \E sound \in BOOLEAN : FinishValidation(s, sound)
         \/ \E replace, force \in BOOLEAN : Publish(s, replace, force)
         \/ ReadPackage(s) \/ CopyDocument(s) \/ CommitImport(s) \/ LoseImport(s)
    \/ \E d \in docs : Understand(d) \/ RemoveDocument(d)
    \/ \E S \in SUBSET Sessions : ClearKey(S)
    \/ \E D \in ArchivesToClean : CleanUpArchives(D)

Spec == Init /\ [][Next]_vars

-----------------------------------------------------------------------------
(* Properties.                                                             *)

\* What a session's snapshot and gate rest on are its documents that are
\* understood and not removed, whoever has changed them, except after a change
\* that was not followed by a rebuild: a bundle whose making failed with
\* documents already flushed, one withdrawn after its commit (the gate), and a
\* clean-up of the archives that takes a session's debug bundles.
ViewsFollowDocuments ==
    \A s \in Sessions \ rough : board[s] = Live(s) /\ gate[s] = Live(s)

\* An import is in a session with every type its package has to have, each
\* understood when it came, with its chunks and evidence, whatever happens to the
\* package and to the session it was validated in: its documents only go one by
\* one as their owner removes them, never by the clean-up of a key.  An import
\* during which the package is deleted is short of evidence.
ImportsAreWhole ==
    \A d \in docs :
      d.kind = "import" =>
        /\ RequiredSet = {e.type : e \in Bundle(d.bundle)}
        /\ \A e \in Bundle(d.bundle) : e.home = d.home /\ e.kind = "import" /\ e.state # "waiting"
        /\ d.bundle \notin torn => \A e \in Bundle(d.bundle) : e.whole

\* A bundle the model has written is in its session with every type the family
\* asks for, or not at all; unless the making failed between two documents.
BundlesAreWhole ==
    \A d \in docs :
      d.kind \in {"debug", "practice"} /\ d.bundle \notin halved =>
        RequiredSet = {e.type : e \in Bundle(d.bundle)}

=============================================================================

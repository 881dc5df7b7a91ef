----------------------------- MODULE Interview -----------------------------
(***************************************************************************)
(* One session's interview: a thread of messages answered by the native    *)
(* interviewer, the uploads understood and removed meanwhile, and the case *)
(* memory both write.  Every action is one commit.  Of the columns that    *)
(* concurrent writers share, and of the locks around them, SessionTurns    *)
(* and MaterialPipeline tell; here the commits themselves interleave.      *)
(***************************************************************************)
EXTENDS RuntimeView

CONSTANTS Documents,   \* how many documents may be uploaded, ordered by filename
          Results,     \* what an understanding of a document may say
          Replies,     \* what the applicant may write: [says, topic, told, complains]
          Outputs,     \* what the model may put out
          GateMessage, \* what is said while no visa family is chosen
          Recent,      \* assistant turns whose questions count as recent
          MaxTurns,    \* bound: turns written
          MaxImports   \* bound: imports of earlier messages

D == INSTANCE Dialogue

\* An understanding is lists of items; the severity of a conflict has three
\* levels (CaseConflict).  Its cards are of the uploaded file and refer to its
\* own claims; what it documents it has a card for (_parse_result).
ASSUME ResultsAssumption ==
    \A r \in Results :
        /\ \A part \in {"claims", "evidence", "proofs", "conflicts", "followups"} :
              r[part] \in Seq({r[part][i] : i \in DOMAIN r[part]})
        /\ \A i \in DOMAIN r.conflicts : r.conflicts[i].severity \in {"low", "medium", "high"}
        /\ \A j \in DOMAIN r.evidence :
              /\ r.evidence[j].source = "uploaded_file"
              /\ r.evidence[j].refs \subseteq {r.claims[i].id : i \in DOMAIN r.claims}
        /\ \A i \in DOMAIN r.claims :
              r.claims[i].status = "documented"
                => \E j \in DOMAIN r.evidence : r.evidence[j].id \in r.claims[i].sup

ASSUME DocumentsAssumption == Documents \in Nat
ASSUME NoneIsNobody == None \notin Nat \cup Results \cup {"parents", "simulated_refusal"}
ASSUME OutputsAssumption == \A o \in Outputs : Cardinality(o.asks) <= 1

VARIABLES docs,     \* the documents by filename
          turns,    \* the turns in order
          memory,   \* the stored snapshot, None until there is one
          rec,      \* the session row
          pc,       \* where the message's handler is
          answer,   \* the answer it has, until it is written
          due,      \* a worker has still to refresh the session after a document
          orphan,   \* a failed clean-up has left the snapshot behind
          sent,     \* what each assistant turn said when it was answered
          made, imports

vars == <<docs, turns, memory, rec, pc, answer, due, orphan, sent, made, imports>>

Init ==
    /\ docs = [d \in 1..Documents |-> [status |-> "none", result |-> None, shown |-> None]]
    /\ turns = <<>> /\ memory = None /\ pc = "idle" /\ answer = None /\ due = FALSE
    /\ orphan = FALSE /\ sent = [i \in {} |-> None] /\ made = 0 /\ imports = 0
    /\ rec = [family |-> FALSE, phase |-> "interview", decision |-> None, focus |-> Nothing,
              state |-> [status |-> None, advisory |-> None, review |-> {}, resolved |-> {},
                         view |-> None]]

-----------------------------------------------------------------------------
Fresh(ds, ts, resolved) == Snapshot(ds, ts, resolved)

\* rebuild_and_persist of what this transaction has written
Rebuild(ds, ts, resolved) == memory' = Fresh(ds, ts, resolved) /\ orphan' = FALSE

\* get_or_build_snapshot
Board == IF memory # None THEN memory ELSE Fresh(docs, turns, rec.state.resolved)

\* _apply_graph_response_state: all but the resolved conflicts is replaced.
Applied(r, a) ==
    [r EXCEPT !.phase = IF a.decision = "simulated_refusal" THEN "session_closed" ELSE "interview",
              !.decision = a.decision, !.focus = a.view.focus,
              !.state = [status |-> a.decision, advisory |-> a.advisory, review |-> a.review,
                         resolved |-> r.state.resolved, view |-> a.view]]

UserTurn(id, reply) ==
    [id |-> id, role |-> "user", says |-> reply.says, reply |-> reply, claimed |-> FALSE,
     message |-> None, record |-> None, synced |-> FALSE, kept |-> None]

AssistantTurn(id, message, record) ==
    [id |-> id, role |-> "assistant", says |-> None, reply |-> None, claimed |-> FALSE,
     message |-> message, record |-> record, synced |-> FALSE, kept |-> None]

Latest == turns[Len(turns)]

Kept(response) ==
    [governor |-> response.governor, review |-> response.review, view |-> response.view]

-----------------------------------------------------------------------------
(* Material                                                                *)

Upload(d) ==
    /\ ~ Closed(rec) /\ docs[d].status = "none"
    /\ docs' = [docs EXCEPT ![d].status = "live"]
    /\ UNCHANGED <<turns, memory, rec, pc, answer, due, orphan, sent, made, imports>>

\* Mutant: the snapshot is not built again after the document was read.
Understand_Unbuilt(d, result) ==
    /\ docs[d].status = "live" /\ docs[d].result = None
    /\ docs' = [docs EXCEPT ![d].result = result, ![d].shown = d]
    /\ due' = TRUE
    /\ UNCHANGED <<turns, memory, rec, pc, answer, orphan, sent, made, imports>>

\* upsert_material_understanding of a completed job
Understand(d, result) ==
    /\ docs[d].status = "live" /\ docs[d].result = None
    /\ docs' = [docs EXCEPT ![d].result = result, ![d].shown = d]
    /\ Rebuild(docs', turns, rec.state.resolved)
    /\ due' = TRUE
    /\ UNCHANGED <<turns, rec, pc, answer, sent, made, imports>>

\* upsert_material_understanding of a failed job: the delta alone says so.
Misunderstand(d) ==
    /\ docs[d].status = "live" /\ docs[d].shown = None
    /\ docs' = [docs EXCEPT ![d].shown = d]
    /\ Rebuild(docs', turns, rec.state.resolved)
    /\ due' = TRUE
    /\ UNCHANGED <<turns, rec, pc, answer, sent, made, imports>>

\* tombstone_documents
Withdraw(d) ==
    /\ docs[d].status = "live"
    /\ docs' = [docs EXCEPT ![d].status = "removed"]
    /\ Rebuild(docs', turns, rec.state.resolved)
    /\ UNCHANGED <<turns, rec, pc, answer, due, sent, made, imports>>

\* refresh_after_material_change
RefreshMaterial ==
    /\ due /\ ~ Closed(rec) /\ rec.family
    /\ rec' = Applied(rec, MaterialAnswer(rec.decision, rec.focus, Board, rec.state.advisory))
    /\ memory' = Board /\ due' = FALSE
    /\ UNCHANGED <<docs, turns, pc, answer, orphan, sent, made, imports>>

\* It returns at once, or fails: the job stays done.
SkipRefresh ==
    /\ due /\ due' = FALSE
    /\ UNCHANGED <<docs, turns, memory, rec, pc, answer, orphan, sent, made, imports>>

\* resolve_conflicts
Resolve(k) ==
    /\ pc = "idle" /\ memory # None /\ k \in {c.id : c \in memory.conflicts}
    /\ rec' = [rec EXCEPT !.state.resolved = @ \cup {k}]
    /\ Rebuild(docs, turns, rec'.state.resolved)
    /\ UNCHANGED <<docs, turns, pc, answer, due, sent, made, imports>>

-----------------------------------------------------------------------------
(* Messages                                                                *)

Declare ==
    /\ ~ rec.family /\ rec' = [rec EXCEPT !.family = TRUE]
    /\ UNCHANGED <<docs, turns, memory, pc, answer, due, orphan, sent, made, imports>>

Post(reply) ==
    /\ pc = "idle" /\ ~ Closed(rec) /\ made + 2 <= MaxTurns
    /\ turns' = Append(turns, UserTurn(made + 1, reply))
    /\ made' = made + 1 /\ pc' = "posted"
    /\ UNCHANGED <<docs, memory, rec, answer, due, orphan, sent, imports>>

\* _capture_user_turn_claims: a turn that states no fact writes nothing.
Capture ==
    /\ pc = "posted" /\ pc' = "captured"
    /\ turns' = [turns EXCEPT ![Len(turns)].claimed = Latest.says # None]
    /\ IF Latest.says # None THEN Rebuild(docs, turns', rec.state.resolved)
       ELSE UNCHANGED <<memory, orphan>>
    /\ UNCHANGED <<docs, rec, answer, due, sent, made, imports>>

\* run_turn: two attempts, of which one must not be objectionable.
Ask(output) ==
    /\ pc = "captured" /\ rec.family /\ pc' = "asked"
    /\ ~ D!Objectionable(output.message, turns, Latest.reply)
    /\ answer' = Answer(output, Advisory(rec.state.advisory, Board))
    /\ memory' = Board
    /\ UNCHANGED <<docs, turns, rec, due, orphan, sent, made, imports>>

\* Mutant: the view that is kept does not say whose it is.
Write_Unanchored(r, a) ==
    LET turn == AssistantTurn(made + 1, a.message, a.record)
        response == Synchronised(r, Append(turns, turn), a)
    IN  /\ rec' = r /\ made' = made + 1 /\ pc' = "idle" /\ answer' = None
        /\ turns' = Append(turns, [turn EXCEPT
                        !.synced = TRUE, !.kept = [Kept(response) EXCEPT !.view.source = None]])
        /\ sent' = [n \in DOMAIN sent \cup {made + 1} |->
                      IF n = made + 1 THEN response ELSE sent[n]]

\* _append_assistant_turn, _sync_runtime_view_contract
Write(r, a) ==
    LET turn == AssistantTurn(made + 1, a.message, a.record)
        response == Synchronised(r, Append(turns, turn), a)
    IN  /\ rec' = r /\ made' = made + 1 /\ pc' = "idle" /\ answer' = None
        /\ turns' = Append(turns, [turn EXCEPT !.synced = TRUE, !.kept = Kept(response)])
        /\ sent' = [n \in DOMAIN sent \cup {made + 1} |->
                      IF n = made + 1 THEN response ELSE sent[n]]

Respond ==
    /\ pc = "asked" /\ Write(Applied(rec, answer), answer)
    /\ UNCHANGED <<docs, memory, due, orphan, imports>>

\* No family is chosen: the gate answers, and the state stays as it is.
GateReply ==
    /\ pc = "captured" /\ ~ rec.family
    /\ LET a == GateAnswer(GateMessage) IN
       Write([rec EXCEPT !.decision = a.decision, !.focus = a.record.focus], a)
    /\ UNCHANGED <<docs, memory, due, orphan, imports>>

\* The handler fails: the message is deleted and the marker cleared.
Fail ==
    /\ pc \in {"posted", "captured", "asked"} /\ pc' = "failed"
    /\ turns' = SubSeq(turns, 1, Len(turns) - 1) /\ answer' = None
    /\ UNCHANGED <<docs, memory, rec, due, orphan, sent, made, imports>>

CleanUp ==
    /\ pc = "failed" /\ pc' = "idle"
    /\ Rebuild(docs, turns, rec.state.resolved)
    /\ UNCHANGED <<docs, turns, rec, answer, due, sent, made, imports>>

\* The second commit of the clean-up fails, or the process dies before it.
CleanUpFails ==
    /\ pc = "failed" /\ pc' = "idle" /\ orphan' = TRUE
    /\ UNCHANGED <<docs, turns, memory, rec, answer, due, sent, made, imports>>

\* import_compat_messages: an exchange held elsewhere, with no turn record.
Import(reply, message) ==
    /\ pc = "idle" /\ ~ Closed(rec) /\ imports < MaxImports /\ made + 2 <= MaxTurns
    /\ turns' = Append(Append(turns, [UserTurn(made + 1, reply) EXCEPT
                                         !.claimed = reply.says # None]),
                       AssistantTurn(made + 2, message, None))
    /\ IF reply.says # None THEN Rebuild(docs, turns', rec.state.resolved)
       ELSE UNCHANGED <<memory, orphan>>
    /\ made' = made + 2 /\ imports' = imports + 1
    /\ UNCHANGED <<docs, rec, pc, answer, due, sent>>

Next ==
    \/ \E d \in 1..Documents :
          Upload(d) \/ Misunderstand(d) \/ Withdraw(d) \/ \E r \in Results : Understand(d, r)
    \/ RefreshMaterial \/ SkipRefresh \/ Declare \/ Capture \/ Respond \/ GateReply
    \/ Fail \/ CleanUp \/ CleanUpFails
    \/ \E reply \in Replies :
          Post(reply) \/ \E o \in Outputs : Import(reply, o.message)
    \/ \E o \in Outputs : Ask(o)
    \/ memory # None /\ \E c \in memory.conflicts : Resolve(c.id)

Spec == Init /\ [][Next]_vars

-----------------------------------------------------------------------------
(* Properties                                                              *)

\* The stored snapshot is that of the documents, turns and resolutions there
\* are, whatever order they came in: every writer builds it again in the
\* commit that changes them (docs/runtime-contracts.md:79).  It may lag
\* while a failed message is cleaned up, and after a clean-up that failed.
SnapshotFresh ==
    pc = "failed" \/ orphan \/ memory \in {None, Fresh(docs, turns, rec.state.resolved)}

Told == Spoken(turns) # {}

Closing == {o.message : o \in {o \in Outputs : o.message.closes}}

\* The report the applicant can ask for, at any time.
Report == UserReport(LatestView(rec, turns), Board, Closing)

\* Some live document's understanding documents where the money comes from,
\* with an uploaded file as evidence.  What documents say under one name is
\* one claim, on the field that any of them gives it (_merge_claim).
FundingShown ==
    \E d \in Understood(docs), e \in Understood(docs) :
        LET r == docs[d].result
            s == docs[e].result
        IN  \E i \in DOMAIN r.claims, j \in DOMAIN r.evidence, k \in DOMAIN s.claims :
              /\ s.claims[k].id = r.claims[i].id /\ s.claims[k].field = Funding
              /\ r.claims[i].status = "documented"
              /\ r.evidence[j].source = "uploaded_file"
              /\ r.claims[i].id \in r.evidence[j].refs \/ r.evidence[j].id \in r.claims[i].sup

FundingStated == \E i \in DOMAIN turns : turns[i].claimed /\ turns[i].says # None

\* Nobody passes on words: a report says "passed" only when the last thing
\* said closes the interview, no conflict of the case as it is now is open,
\* and what the applicant said of the funding is shown by a document that is
\* still there (ReportService._resolve_interview_result, whose view may be
\* older than the board it is joined with).
PassedIsEarned ==
    Told /\ Report.result = "passed" =>
        /\ turns[LastOf(Spoken(turns))].message.closes
        /\ Conflicts(Sources(docs, turns), rec.state.resolved) = {}
        /\ FundingStated => FundingShown

\* A source of funds that was stated and not shown is asked about: it is in
\* the missing evidence of the report, unless a live document reports on the
\* funding proof itself (_apply_funding_proof_gap,
\* unresolved_funding_claim_requires_proof).  The code derives what is missing
\* from the Case Board, as docs/architecture/ai-native-case-understanding-spec.md:92-96
\* has it, and against docs/runtime-contracts.md:71-72, by which a source that
\* is only stated adds no funding proof to a report.
FundingAsked ==
    /\ Told /\ FundingStated /\ ~ FundingShown
    /\ \A p \in DocumentProofs(Sources(docs, turns)) : p.id # "funding_proof"
    => "funding_proof" \in Report.missing

\* What an answer's turn keeps of it: all but the runtime's own account of its
\* decision in turn_decision and the advisory context.
Lasting(response) == [response EXCEPT !.turn.account = None, !.advisory = None]

\* A message that was answered and is sent again gets what its turn kept of
\* the answer: words, decision, lists, question, view, record and review as
\* they were, after any later messages, uploads, resolutions and refreshes.
\* It is refused only if an answer of this session has been a refusal; then
\* every message is, also the one so answered (_is_refusal_closed,
\* _duplicate_turn_response; docs/API.md:246 promises the
\* same turn, and of a closed session says nothing).
ReplayedAsSent ==
    \A i \in DOMAIN turns : turns[i].id \in DOMAIN sent =>
        LET again == Replayed(rec, turns, turns[i]) IN
        \/ again = Lasting(sent[turns[i].id])
        \/ /\ again = None
           /\ \E j \in DOMAIN turns : /\ turns[j].id \in DOMAIN sent
                                     /\ sent[turns[j].id].governor = "simulated_refusal"

\* A refresh after a document puts the session under review when, and only
\* when, the case as it is then has a conflict worth one: not on the word of
\* a message that was deleted, or of a document that was removed, before it
\* (_material_change_decision; the same lag as SnapshotFresh).
ConflictIsReviewed ==
    [][due /\ ~ due' /\ rec' # rec /\ pc # "failed" /\ ~ orphan
         => (rec'.decision = "high_risk_review"
               <=> \E c \in Conflicts(Sources(docs, turns), rec.state.resolved) :
                       c.severity # "low")]_vars

\* What the evidence graph shows about one field is what the whole graph has
\* of that field's claims, for them and against them, whatever has been
\* removed since (query_evidence_graph).
GraphIsWhole ==
    memory # None =>
        \A f \in {c.field : c \in memory.claims} :
            ClaimEdges(memory, {f}) =
                {edge \in ClaimEdges(memory, {}) :
                    edge[1] \in {c.id : c \in ClaimsAbout(memory, {f})}}

\* What was resolved stays resolved, and is not found again: answers replace
\* the state the resolutions are kept in.
ResolvedForGood ==
    [][/\ rec.state.resolved \subseteq rec'.state.resolved
       /\ memory' # None => \A c \in memory'.conflicts : c.id \notin rec'.state.resolved]_vars

=============================================================================

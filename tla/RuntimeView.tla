---------------------------- MODULE RuntimeView ----------------------------
(***************************************************************************)
(* The answers of the native interviewer and the views made of them: what  *)
(* NativeInterviewerRuntimeService derives from the model's output, what   *)
(* RuntimeLedgerService reads back from a session's turns, how             *)
(* RuntimeViewContractService joins the two, and what ReportService tells  *)
(* the applicant.  The model's own words are external: an output is        *)
(* [decision, asks, message, next], asks a set of at most one document and *)
(* next what it calls the next safe action.                                *)
(***************************************************************************)
EXTENDS CaseMemory

Nothing == [kind |-> None, doc |-> None, question |-> None, risk |-> None]

\* The first of a list of at most one.
First(few) == IF few = {} THEN None ELSE CHOOSE x \in few : TRUE

-----------------------------------------------------------------------------
(* NativeInterviewerRuntimeService                                         *)

Requested(output) ==
    IF output.decision = "need_more_evidence" THEN output.asks ELSE {}

FocusOf(output) ==
    CASE output.decision = "need_more_evidence" ->
            [Nothing EXCEPT !.kind = "required_document", !.doc = First(Requested(output))]
      [] output.decision = "high_risk_review" ->
            [Nothing EXCEPT !.kind = "risk_review", !.question = output.message]
      [] output.decision = "simulated_refusal" -> [Nothing EXCEPT !.kind = "refusal"]
      [] output.decision = "route_correction" ->
            [Nothing EXCEPT !.kind = "route_correction", !.question = output.message]
      [] OTHER -> [Nothing EXCEPT !.kind = "interview_question", !.question = output.message]

\* The advice of the last answer, its missing evidence read again off the board.
Carried(advisory, board) ==
    IF advisory = None
    THEN [missing |-> MissingEvidence(board), codes |-> {}, level |-> "none"]
    ELSE IF HasState(board) THEN [advisory EXCEPT !.missing = MissingEvidence(board)]
    ELSE advisory

\* _build_advisory_context, _with_unresolved_funding_claim
Advisory(advisory, board) ==
    LET base == Carried(advisory, board) IN
    IF ~ UnresolvedFunding(board) THEN base
    ELSE [missing |-> base.missing \cup {"funding_proof"},
          codes |-> base.codes \cup {"supporting_evidence_missing"},
          level |-> IF base.level = "none" THEN "medium" ELSE base.level]

PublicStatus(decision, focus) ==
    CASE decision = "need_more_evidence" /\ focus.doc # None -> "waiting_key_proof"
      [] decision = "high_risk_review" /\ focus.risk # None -> "verify_key_issue"
      [] OTHER -> decision

AllowedActions(decision, focus) ==
    IF decision = "need_more_evidence" \/ focus.doc # None
    THEN {"upload_key_proof", "explain_missing_proof"}
    ELSE IF decision = "high_risk_review" THEN {"clarify_key_issue", "wait_for_review"}
    ELSE IF decision = "simulated_refusal" THEN {"review_refusal_result"}
    ELSE {"continue_interview"} \cup (IF focus.question # None THEN {"answer_question"} ELSE {})

\* _build_runtime_view_state
NativeView(decision, focus, requested, advisory, remaining, review) ==
    [source |-> None, decision |-> decision, governor |-> decision,
     status |-> PublicStatus(decision, focus), level |-> advisory.level, focus |-> focus,
     question |-> focus.question, proof |-> focus.doc, risk |-> focus.risk,
     requested |-> requested, remaining |-> remaining,
     actions |-> AllowedActions(decision, focus),
     advisory |-> advisory, review |-> review, says |-> None]

\* What the runtime says of its own decision, beside what the view says.
Account(output) ==
    [author |-> "native_interviewer", focus |-> FocusOf(output).kind,
     doc |-> FocusOf(output).doc, risk |-> FocusOf(output).risk,
     governor |-> output.decision, guard |-> "passed", next |-> output.next]

\* run_turn, _build_response: the turn record is kept with the answer.
Answer(output, advisory) ==
    LET requested == Requested(output)
        view == NativeView(output.decision, FocusOf(output), requested, advisory,
                           advisory.missing, {})
    IN  [message |-> output.message, decision |-> output.decision, requested |-> requested,
         remaining |-> advisory.missing, review |-> {}, advisory |-> advisory, view |-> view,
         account |-> Account(output),
         record |-> [decision |-> output.decision, requested |-> requested,
                     remaining |-> advisory.missing, focus |-> FocusOf(output),
                     advisory |-> advisory, review |-> {}]]

\* Mutant: only the conflicts called high are reviewed.
Review_High(board) == {c.id : c \in {c \in board.conflicts : c.severity = "high"}}

\* _build_document_review: the conflicts of a medium or high severity.
Review(board) == {c.id : c \in {c \in board.conflicts : c.severity \in {"medium", "high"}}}

MaterialDecision(decision, board) ==
    IF Review(board) # {} THEN "high_risk_review"
    ELSE IF decision \in {"route_correction", "simulated_refusal"} THEN decision
    ELSE "continue_interview"

\* run_material_change: no message, no requests; the focus stays what it was.
MaterialAnswer(decision, focus, board, advisory) ==
    LET next == MaterialDecision(decision, board)
        kept == IF next = "high_risk_review" /\ focus = Nothing
                THEN [Nothing EXCEPT !.kind = "risk_review", !.risk = "material_conflict"]
                ELSE focus
        context == Advisory(advisory, board)
    IN  [decision |-> next, requested |-> {}, remaining |-> {}, advisory |-> context,
         review |-> Review(board),
         view |-> NativeView(next, kept, {}, context, {}, Review(board))]

\* build_gate_response, _apply_gate_response_state
GateAnswer(message) ==
    LET focus == [Nothing EXCEPT !.kind = "gate_review"] IN
    [message |-> message, decision |-> "need_more_evidence", requested |-> {}, remaining |-> {},
     review |-> {}, advisory |-> None, view |-> None, account |-> None,
     record |-> [decision |-> "need_more_evidence", requested |-> {}, remaining |-> {},
                 focus |-> focus, advisory |-> None, review |-> {}]]

-----------------------------------------------------------------------------
(* RuntimeLedgerService.  A turn is [id, role, says, reply, claimed,       *)
(* message, record, synced, kept]: record the turn record of an assistant  *)
(* turn (None when it was imported), kept its metadata [governor, review,  *)
(* view] once it is synchronised.                                          *)

Spoken(turns) == {i \in DOMAIN turns : turns[i].role = "assistant"}

\* The advice of the last turn record that has one, of any turn.
LatestAdvice(turns) ==
    LET advised == {i \in Spoken(turns) : /\ turns[i].record # None
                                          /\ turns[i].record.advisory # None}
    IN  IF advised = {} THEN None ELSE turns[LastOf(advised)].record.advisory

DerivedStatus(decision, proof, risk) ==
    IF decision \in {"simulated_refusal", "high_risk_review"} THEN decision
    ELSE IF proof # None THEN "waiting_key_proof"
    ELSE IF decision \in {"need_more_evidence", "route_correction"} \/ risk # None
    THEN "verify_key_issue"
    ELSE "continue_interview"

DerivedLevel(status) ==
    CASE status \in {"high_risk_review", "simulated_refusal"} -> "high"
      [] status = "verify_key_issue" -> "medium"
      [] OTHER -> "none"

DerivedActions(status, question, proof) ==
    CASE status = "continue_interview" -> {"answer_question", "continue_interview"}
      [] status = "verify_key_issue" -> {"answer_question", "clarify_key_issue"}
      [] status = "waiting_key_proof" ->
            {"upload_key_proof", "explain_missing_proof"}
                \cup (IF question # None THEN {"answer_question"} ELSE {})
      [] status = "high_risk_review" ->
            {"wait_for_review"} \cup (IF proof # None THEN {"upload_key_proof"} ELSE {})
      [] OTHER -> {"review_refusal_result"}

\* The turn record's lists, even when empty; an imported turn has none, and
\* what the session's focus is about counts as requested.
RequestedBy(turn, focus) ==
    IF turn.record # None THEN turn.record.requested
    ELSE IF focus.doc # None THEN {focus.doc} ELSE {}

\* The part of latest_view_state that is derived from the last assistant turn.
DerivedView(rec, turns, turn) ==
    LET focus == IF turn.record # None THEN turn.record.focus ELSE rec.focus
        decision == IF turn.record # None THEN turn.record.decision ELSE rec.decision
        advice == LatestAdvice(turns)
        advisory == IF advice # None THEN advice
                    ELSE [missing |-> {}, codes |-> {}, level |-> None]
        requested == RequestedBy(turn, focus)
        proof == IF focus.doc # None THEN focus.doc ELSE First(requested)
        risk == IF focus.risk # None THEN focus.risk ELSE First(advisory.codes)
        status == DerivedStatus(decision, proof, risk)
    IN  [source |-> turn.id, decision |-> decision, governor |-> rec.decision,
         status |-> status,
         level |-> IF advisory.level # None THEN advisory.level ELSE DerivedLevel(status),
         focus |-> focus, question |-> focus.question, proof |-> proof, risk |-> risk,
         requested |-> requested,
         remaining |-> IF turn.record # None THEN turn.record.remaining ELSE {},
         actions |-> DerivedActions(status, focus.question, proof),
         advisory |-> advisory, says |-> turn.message,
         review |-> IF turn.record # None /\ turn.record.review # {} THEN turn.record.review
                    ELSE rec.state.review]

\* The view of a session in which no assistant has spoken.
Unspoken(rec) ==
    [source |-> None, decision |-> rec.decision, governor |-> rec.decision, status |-> None,
     level |-> None, focus |-> rec.focus, question |-> None, proof |-> None, risk |-> None,
     requested |-> {}, remaining |-> {}, actions |-> {}, says |-> None, review |-> {},
     advisory |-> [missing |-> {}, codes |-> {}, level |-> None]]

\* latest_view_state: the view kept with the last assistant turn, when it is
\* that turn's own.
LatestView(rec, turns) ==
    IF Spoken(turns) = {} THEN Unspoken(rec)
    ELSE LET last == turns[LastOf(Spoken(turns))] IN
         IF last.synced /\ last.kept.view.source = last.id THEN last.kept.view
         ELSE DerivedView(rec, turns, last)

-----------------------------------------------------------------------------
(* RuntimeViewContractService and MessageService: the answer as it is sent *)
(* and kept, and as it is sent again.                                      *)

\* turn_decision: what the view says, laid over the runtime's account.
TurnDecision(account, view) ==
    [decision |-> view.decision, requested |-> view.requested, remaining |-> view.remaining,
     question |-> view.question, proof |-> view.proof, risk |-> view.risk,
     account |-> account]

\* The lists of a view that belongs to a turn go before the answer's; governor
\* is the governor_decision of the whole, advisory its advisory_context.
Sent(answer, view) ==
    [message |-> answer.message, advisory |-> answer.advisory,
     governor |-> IF answer.account # None THEN view.decision ELSE answer.decision,
     requested |-> IF view.source # None THEN view.requested ELSE answer.requested,
     remaining |-> IF view.source # None THEN view.remaining ELSE answer.remaining,
     turn |-> TurnDecision(answer.account, view), record |-> answer.record, view |-> view,
     review |-> IF view.review # {} THEN view.review ELSE answer.review]

\* _sync_runtime_view_contract: the view read back once the turn is appended.
Synchronised(rec, turns, answer) == Sent(answer, LatestView(rec, turns))

\* The turns up to one of them: each has a greater id than those before it.
UpTo(turns, turn) ==
    SubSeq(turns, 1, Cardinality({i \in DOMAIN turns : turns[i].id <= turn.id}))

\* is_terminal_session
Closed(rec) ==
    \/ rec.phase = "session_closed" \/ rec.decision = "simulated_refusal"
    \/ rec.state.status = "simulated_refusal"

\* _response_from_assistant_turn: the answer, from the turn that holds it.  Of
\* turn_decision the turn has kept the decision alone, and of the advice none.
Restored(rec, turns, turn) ==
    LET own == turn.synced /\ turn.kept.view.source = turn.id
        view == IF own THEN turn.kept.view ELSE LatestView(rec, UpTo(turns, turn))
    IN  [message |-> turn.message, advisory |-> None,
         governor |-> IF turn.synced THEN turn.kept.governor ELSE rec.decision,
         requested |-> view.requested, remaining |-> view.remaining,
         turn |-> TurnDecision(None, view), record |-> turn.record, view |-> view,
         review |-> IF view.review # {} THEN view.review
                    ELSE IF turn.synced THEN turn.kept.review ELSE {}]

\* handle_user_turn of a message that was answered: a session that is closed
\* refuses it (None) before it looks for the answer.
Replayed(rec, turns, turn) == IF Closed(rec) THEN None ELSE Restored(rec, turns, turn)

-----------------------------------------------------------------------------
(* ReportService                                                           *)

\* Mutant: a claim that evidence speaks against is no risk by itself.
AtRisk_Conflicts(board) == \E c \in board.conflicts : c.severity = "high"

\* _case_risk_points has something to say.
AtRisk(board) ==
    board.conflicts # {} \/ \E c \in board.claims : c.status = "contradicted"

\* Mutant: what is missing is what the last answer said.
ReportedMissing_Told(view, board) == view.remaining

\* _resolve_missing_evidence: the board's, or else the last answer's.
ReportedMissing(view, board) ==
    MissingEvidence(board)
        \cup (IF HasState(board) THEN {}
              ELSE view.requested \cup view.remaining \cup view.advisory.missing)

ReportedLevel(view, board) ==
    IF view.level # None THEN view.level
    ELSE IF \E c \in board.conflicts : c.severity = "high" THEN "high"
    ELSE IF board.conflicts # {} THEN "medium"
    ELSE DerivedLevel(view.status)

\* _resolve_interview_result; closing is a message that ends the interview.
Result(view, board, closing) ==
    IF view.status = "simulated_refusal" THEN "refused"
    ELSE IF \/ view.status \in {"high_risk_review", "verify_key_issue", "waiting_key_proof"}
            \/ ReportedLevel(view, board) \in {"medium", "high"} \/ AtRisk(board)
            \/ ReportedMissing(view, board) # {} \/ view.remaining # {} \/ view.proof # None
    THEN "not_passed"
    ELSE IF view.says \in closing THEN "passed"
    ELSE "in_progress"

\* user_report, once an assistant has spoken: every part of the view counts,
\* also those that are empty.
UserReport(view, board, closing) ==
    [status |-> view.status, result |-> Result(view, board, closing),
     missing |-> ReportedMissing(view, board), requested |-> view.requested,
     remaining |-> view.remaining, level |-> ReportedLevel(view, board),
     proof |-> view.proof, risky |-> AtRisk(board), actions |-> view.actions]
=============================================================================

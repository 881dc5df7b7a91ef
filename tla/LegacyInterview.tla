-------------------------- MODULE LegacyInterview --------------------------
(***************************************************************************)
(* The interview runtime that scores every turn: a message changes the     *)
(* profile and the score, the documents are reviewed, a model proposes     *)
(* the next action, and rules of the program correct it.  It is also run   *)
(* when the material changed.                                              *)
(*                                                                         *)
(* A turn is two steps, what is computed before the model is asked for an  *)
(* action and what follows its answer; all is committed at the end or,     *)
(* when the model fails, nothing.  The session is otherwise used by no one *)
(* in between.  The boundary decision, which only the model reads, is left *)
(* out.                                                                    *)
(***************************************************************************)
EXTENDS Statements

CONSTANTS
    Files,          \* documents that can be on file
    Texts,          \* messages, of Messages
    Updates, Proposals, Reviews,    \* answers of the three models, None without one
    Actions,        \* actions the interviewer's model can propose
    Boards,         \* what the case board can say
    Refs,           \* evidence the board and a model can cite
    School, Passport, Funding,
    MaxFiles, MaxTurns              \* bounds: documents on file, messages

INSTANCE DocumentReview

ASSUME LegacyAssumption ==
    /\ Texts \subseteq Messages
    /\ MaxFiles \in Nat /\ MaxTurns \in Nat

\* DocumentReviewConflict: a conflict of any origin.
ConflictRows == [kind : {"document", "claim", "quality", "missing"},
                 severity : {"low", "medium", "high"}, wording : {"plain", "missing", "short"},
                 about : SUBSET (Fields \cup {"cost", "funds", "equity"}),
                 documents : SUBSET Files, refs : SUBSET Refs]

\* DocumentReviewResult
ReviewRows == [status : {"not_applicable", "awaiting_documents", "awaiting_parse", "reviewed",
                         "needs_clarification", "high_risk"},
               cross : Seq(ConflictRows), claims : Seq(ConflictRows)]

\* _claim_conflict_fingerprint
Fingerprints == [about : SUBSET (Fields \cup {"cost", "funds", "equity"}),
                 documents : SUBSET Files, refs : SUBSET Refs]

ASSUME ConflictsAssumption ==
    /\ None \notin ConflictRows \cup ReviewRows
    /\ \A b \in Boards : b.conflicts \in Seq(ConflictRows)
    /\ Reviews \subseteq ReviewRows \cup {None}

ASSUME ProposalsAssumption == \A p \in Proposals \ {None} : DOMAIN p = {"flags", "missing"}

\* What an action can ask for.
Askable == UNION {ToSet(a.requested) : a \in Actions} \cup ({a.doc : a \in Actions} \ {None})

ASSUME ActionsAssumption ==
    /\ None \notin Askable
    /\ Actions \subseteq
          [decision : {"continue_interview", "need_more_evidence", "route_correction",
                       "high_risk_review", "simulated_refusal"},
           requested : Seq(Askable),
           kind : {"interview_question", "required_document", "route_correction", "risk_review",
                   "refusal"},
           doc : Askable \cup {None}]

VARIABLES
    documents,      \* those on file, in order
    profile,        \* field, claims and snapshot of the funding source
    said,           \* the applicant's messages
    heard,          \* how many of them the profile's turn history was made of
    shown,          \* of each answered message, the claim conflict its review led with
    phase,
    asked,          \* documents asked for, as the view of the session shows them
    run,            \* the turn under way
    answer          \* the answer just given, until anything else happens

vars == <<documents, profile, said, heard, shown, phase, asked, run, answer>>

NoRun == [profile |-> None, heard |-> 0, score |-> None, update |-> None, message |-> FALSE]
NoAnswer == [decision |-> None, requested |-> {}, focus |-> None, review |-> None, board |-> None]

\* The messages among the last six turns, of which every second is an answer.
Recent(messages, n) ==
    LET first == IF n > 3 THEN n - 3 ELSE 0
    IN  [i \in 1..(n - first) |-> [turn |-> first + i, text |-> messages[first + i]]]

ReadyTypes == {d.type : d \in {e \in OnFile(documents) : e.ready}}

-----------------------------------------------------------------------------
(* The documents, which other components keep: what a change of them       *)
(* makes of the funding field.                                             *)

\* _remember_claimed_value of the recomputation, with the turn that made the claim:
\* the last that mentions the source, or the last.
Reminded(p) ==
    LET recent == Recent(said, heard)
        naming == SelectLastInSeq(recent, LAMBDA t : p.field.value \in t.text.mentions)
        turn   == recent[IF naming # 0 THEN naming ELSE Len(recent)]
    IN  Remembered(p.claims, p.field.value, turn.turn, turn.text)

\* _apply_field_evidence of the funding field; best is the value of the item found
\* best, one of several alike.  A claim that stands leaves the snapshot as it was.
Recomputed(p, ds, best) ==
    LET having == With(ds, Funding)
        stated == {d.values[Funding] : d \in having}
        claim  == p.field.state = "claimed" /\ p.field.value # None
    IN  IF stated = {}
        THEN IF claim THEN p ELSE [p EXCEPT !.field = Unknown, !.snapshot = None]
        ELSE IF Cardinality(stated) > 1 \/ (claim /\ p.field.value \notin stated)
        THEN [field |-> [state |-> "conflicted", value |-> None, refs |-> having],
              claims |-> IF claim THEN Reminded(p) ELSE p.claims, snapshot |-> best]
        ELSE [p EXCEPT !.field = [state |-> "documented", value |-> best, refs |-> having],
                       !.snapshot = best]

MaterialBecomes(ds) ==
    /\ run = NoRun
    /\ documents' = ds
    /\ \E best \in {d.values[Funding] : d \in With(ds, Funding)} \cup {None} :
          /\ best = None <=> With(ds, Funding) = {}
          /\ profile' = Recomputed(profile, ds, best)
    /\ answer' = NoAnswer
    /\ UNCHANGED <<said, heard, shown, phase, asked, run>>

Add(d) ==
    /\ d \notin OnFile(documents) /\ Len(documents) < MaxFiles
    /\ MaterialBecomes(Append(documents, d))

Withdraw(d) ==
    /\ d \in OnFile(documents)
    /\ MaterialBecomes(Kept(documents, Files \ {d}))

-----------------------------------------------------------------------------
(* The first half of a turn.                                               *)

\* _reconcile_score_with_gate
WithGate(score) ==
    LET left == score.missing \ ReadyTypes
    IN  IF left # score.missing /\ left = {}
        THEN [Unflagged(score, "proof_missing") EXCEPT !.missing = {}]
        ELSE [score EXCEPT !.missing = left]

\* _has_unresolved_funding_claim: of the profile as it was before this turn, and of
\* the messages with this one.
Unresolved(messages) ==
    /\ ~(profile.field.state = "documented" /\ profile.field.refs # {})
    /\ Proof \notin ReadyTypes
    /\ profile.claims # <<>> \/ \E i \in DOMAIN messages : messages[i].explicit

\* Mutant: a claimed source needs no proof.
WithClaim_Trusted(score, messages) == score

\* _preserve_unresolved_funding_claim
WithClaim(score, messages) == IF Unresolved(messages) THEN GapShown(score) ELSE score

\* What analyze_turn and analyze_material_change share: findings and score of p.
Analysed(p, messages, n, update, message) ==
    LET recent   == Recent(messages, n)
        synced   == [p EXCEPT !.claims = Synced(@, recent)]
        findings == Findings(synced, recent)
    IN  \E proposal \in Proposals :
            run' = [profile |-> synced, heard |-> n, update |-> update, message |-> message,
                    score |-> WithClaim(WithGate(Scored(synced, findings, proposal)), messages)]

\* run_turn, until the model is asked.  The message is stored before it; its turn is
\* part of the history from then on.
Hear(m) ==
    /\ run = NoRun /\ phase # "session_closed"
    /\ Len(said) < MaxTurns
    /\ said' = Append(said, m)
    /\ \E update \in Updates :
          Analysed(Preserved(profile, Extracted(profile, update, Len(said'), m)),
                   said', Len(said'), update, TRUE)
    /\ answer' = NoAnswer
    /\ UNCHANGED <<documents, profile, heard, shown, phase, asked>>

\* refresh_after_material_change, until the model is asked.
Reconsider ==
    /\ run = NoRun
    /\ Analysed(profile, said, heard, None, FALSE)
    /\ answer' = NoAnswer
    /\ UNCHANGED <<documents, profile, said, heard, shown, phase, asked>>

-----------------------------------------------------------------------------
(* The second half.                                                        *)

\* What is asked for still, of what is not ready by now; what of it is parsed.
Asked == asked \ ReadyTypes
Parsed == {d.type : d \in {e \in OnFile(documents) : e.parsed}} \cap Asked
Remaining == Asked \ Parsed
Verified == IF ReadyTypes # {} THEN ReadyTypes ELSE Parsed

LastClaim(p) == IF p.claims = <<>> THEN p.field.value ELSE p.claims[Len(p.claims)].value

\* orchestrate: the review for a run that answers now.
ReviewNow(told, board) ==
    Review(told,
           ReviewOfContext(documents, LastClaim(run.profile), board),
           ReviewOfState(Codes(run.score), Level(run.score), Remaining, Verified, {}),
           documents # <<>> \/ Speaks(board) \/ run.score.missing # {} \/ run.score.flags # {})

\* _finalize_question_action, _coerce_requested_documents: of the documents the model
\* asks for only the first is kept, as a set of at most one from here on.
Finalized(a) ==
    LET kept == IF a.decision = "need_more_evidence" /\ a.requested # <<>>
                THEN {Head(a.requested)} ELSE {}
    IN  [a EXCEPT !.requested = kept,
                  !.doc = IF kept # {} /\ a.kind = "required_document" THEN Head(a.requested) ELSE @]

\* _clear_ready_document_focus
Cleared(a) ==
    IF \/ a.decision # "need_more_evidence" \/ ReadyTypes = {}
       \/ a.requested = {} /\ a.doc = None
    THEN a
    ELSE IF a.requested \subseteq ReadyTypes /\ a.doc \in ReadyTypes \cup {None}
    THEN [decision |-> "continue_interview", requested |-> {}, kind |-> "interview_question", doc |-> None]
    ELSE [a EXCEPT !.requested = @ \ ReadyTypes, !.doc = IF @ \in ReadyTypes THEN None ELSE @]

HighRisk == [decision |-> "high_risk_review", requested |-> {}, kind |-> "risk_review", doc |-> None]

\* _has_refusal_redline
Redline(score) == HasFlag(score, "hard_conflict") \/ HasFlag(score, "fraud_admission")

\* _repeated_claim_conflict_count
Repeats(conflict) == Cardinality({i \in DOMAIN shown : shown[i] = conflict})

\* Mutant: a refusal is never reconsidered.
Converged_Refusal(a, score, review) ==
    IF a.decision = "simulated_refusal" \/ review = None THEN a
    ELSE IF PrimaryClaim(review) # None /\ Repeats(PrimaryClaim(review)) >= 2 THEN HighRisk ELSE a

\* _converge_repeated_claim_conflict
Converged(a, score, review) ==
    IF review = None \/ (a.decision = "simulated_refusal" /\ Redline(score)) THEN a
    ELSE IF PrimaryClaim(review) # None /\ Repeats(PrimaryClaim(review)) >= 2 THEN HighRisk ELSE a

\* _align_action_with_document_review
Aligned(a, review) ==
    IF review = None \/ a.decision = "simulated_refusal" THEN a
    ELSE IF \/ review.status = "high_risk" /\ AnyConfirmed(Conflicts(review))
            \/ a.decision = "continue_interview" /\ AnyConfirmed(review.cross)
    THEN HighRisk ELSE a

\* select_requested_documents
Requested(a) ==
    IF a.decision # "need_more_evidence" THEN {}
    ELSE IF a.requested # {} THEN a.requested ELSE {a.doc} \ {None}

\* build_current_focus: the document the answer is about.
FocusOf(a) ==
    IF a.kind = "interview_question" \/ a.decision = "continue_interview" THEN None
    ELSE IF a.kind # "required_document" /\ a.decision # "need_more_evidence" THEN None
    ELSE IF Requested(a) # {} THEN CHOOSE t \in Requested(a) : TRUE ELSE a.doc

\* _decide_and_build_action after the model's answer.
Decided(proposed, review) ==
    Aligned(Converged(Cleared(Finalized(proposed)), run.score, review), review)

\* derive_phase_state
PhaseAfter(a) == IF a.decision = "simulated_refusal" THEN "session_closed" ELSE "interview"

\* What the view asks for: the view is that of the last stored answer.
AskedAfter(a) ==
    IF run.message THEN IF Requested(a) # {} THEN Requested(a) ELSE {FocusOf(a)} \ {None}
    ELSE IF shown = <<>> THEN {FocusOf(a)} \ {None} ELSE asked

\* The model's answer, the projection of the turn, and _apply_turn_state; the answer
\* to a message is stored, that to a change of material is not.
Answer ==
    /\ run # NoRun
    /\ \E told \in Reviews, board \in Boards :
          LET review == ReviewNow(told, board)
          IN  /\ shown' = IF ~run.message THEN shown
                          ELSE Append(shown, IF review = None THEN None ELSE PrimaryClaim(review))
              /\ \E proposed \in Actions :
                    LET a == Decided(proposed, review)
                    IN  /\ phase' = PhaseAfter(a)
                        /\ asked' = AskedAfter(a)
                        /\ answer' = [decision |-> a.decision, requested |-> Requested(a),
                                      focus |-> FocusOf(a), review |-> review, board |-> board]
    /\ profile' = run.profile /\ heard' = run.heard
    /\ run' = NoRun
    /\ UNCHANGED <<documents, said>>

\* The model is not configured, or failed, and failed again when it was asked once
\* more: the error is raised and nothing is stored.
Fail ==
    /\ run # NoRun
    /\ run' = NoRun
    /\ UNCHANGED <<documents, profile, said, heard, shown, phase, asked, answer>>

-----------------------------------------------------------------------------
Init ==
    /\ documents = <<>>
    /\ profile = [field |-> Unknown, claims |-> <<>>, snapshot |-> None]
    /\ said = <<>> /\ heard = 0 /\ shown = <<>>
    /\ phase = "interview" /\ asked = {}
    /\ run = NoRun /\ answer = NoAnswer

Next ==
    \/ \E d \in Files : Add(d) \/ Withdraw(d)
    \/ \E m \in Texts : Hear(m)
    \/ Reconsider \/ Answer \/ Fail

Spec == Init /\ [][Next]_vars

-----------------------------------------------------------------------------
(* Correctness.                                                            *)

TypeOK ==
    /\ documents \in Seq(Files)
    /\ said \in Seq(Texts) /\ heard \in 0..Len(said)
    /\ shown \in Seq(Fingerprints \cup {None}) /\ Len(shown) <= Len(said)
    /\ phase \in {"interview", "session_closed"}
    /\ asked \subseteq Askable
    /\ run # NoRun => run.heard \in 0..Len(said) /\ (run.message => Len(shown) < Len(said))
    /\ answer = NoAnswer \/ answer.board \in Boards

\* Whether the documents contradict each other, for all to see.
Disagree(ds) == FieldConflict(ds, School) \/ FieldConflict(ds, Passport) \/ Shortfall(ds)

\* When documents on file contradict each other, the answer is a review or a
\* refusal, whatever the models conclude, unless the case board speaks for them
\* (_normalize_document_review_risk, _align_action_with_document_review).
DisagreementIsReviewed ==
    (answer # NoAnswer /\ Disagree(documents) /\ ~Speaks(answer.board))
    => answer.decision \in {"high_risk_review", "simulated_refusal"}

\* A review that a conflict led to was announced: the model that worded the answer
\* had been given a conflict to ask about (_build_reply_guidance, which judges
\* conflicts by rules of its own).
ReviewIsExplained ==
    (answer # NoAnswer /\ answer.review # None /\ AnyConfirmed(Conflicts(answer.review)))
    => ToClarify(answer.review) # None

\* A conflict between claim and documents that two answers led with before does not
\* end in refusal, unless the applicant confessed (_converge_repeated_claim_conflict).
RefusalIsConfessed ==
    [][(run # NoRun /\ answer' # answer /\ answer'.decision = "simulated_refusal"
        /\ answer'.review # None /\ PrimaryClaim(answer'.review) # None
        /\ Repeats(PrimaryClaim(answer'.review)) >= 2)
       => Redline(run.score)]_vars

\* Once a source was claimed, each score says that the proof of it is missing until a
\* document proves it or the gate has it, whatever the scoring model says, and
\* however long ago the claim was (_preserve_unresolved_funding_claim).
UnprovenClaimShows ==
    [][(run # NoRun /\ answer' # answer /\ profile.claims # <<>> /\ ~Backed(profile.field)
        /\ Proof \notin ReadyTypes)
       => Proof \in run.score.missing]_vars
=============================================================================

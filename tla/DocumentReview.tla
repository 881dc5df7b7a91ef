--------------------------- MODULE DocumentReview ---------------------------
(***************************************************************************)
(* The review of a session's documents that the interview runtime makes    *)
(* before every answer: what the documents say against each other and      *)
(* against the applicant, what the case board says, and what a model       *)
(* adds.                                                                   *)
(*                                                                         *)
(* Lists of conflicts are sequences, because later code takes the first    *)
(* that fits.  A document carries the values extracted from it under any   *)
(* type it may have; its raw text, which only the model reads, is left     *)
(* out.                                                                    *)
(***************************************************************************)
EXTENDS FiniteSets, Naturals, Sequences, SequencesExt

CONSTANTS
    School, Passport, Funding,      \* fields that are compared
    None

Fields == {School, Passport, Funding}

\* A document: the values extracted from it, the first year's cost and the funds it
\* states, whether the funds come from equity, whether it proves a link of that chain.
File(type, values, cost, funds, equity, chain, parsed, ready) ==
    [type |-> type, values |-> values, cost |-> cost, funds |-> funds, equity |-> equity,
     chain |-> chain, parsed |-> parsed, ready |-> ready]

Conflict(kind, severity, wording, about, documents, refs) ==
    [kind |-> kind, severity |-> severity, wording |-> wording,
     about |-> about, documents |-> documents, refs |-> refs]

\* A review without findings of its own.
Blank(status) == [status |-> status, cross |-> <<>>, claims |-> <<>>]

Conflicts(r) == r.cross \o r.claims

\* The first of a list that fits, or None.
FirstThat(s, Test(_)) ==
    LET i == SelectInSeq(s, Test)
    IN  IF i = 0 THEN None ELSE s[i]

\* The members of S that a list has, in its order.
Kept(s, S) ==
    LET kept[n \in 0..Len(s)] ==
            IF n = 0 THEN <<>> ELSE IF s[n] \in S THEN Append(kept[n - 1], s[n]) ELSE kept[n - 1]
    IN  kept[Len(s)]

-----------------------------------------------------------------------------
(* What the documents say.                                                 *)

OnFile(documents) == ToSet(documents)

\* The documents with a value of a field.
With(documents, f) == {d \in OnFile(documents) : d.values[f] # None}

\* _field_value_conflict
FieldConflict(documents, f) == Cardinality({d.values[f] : d \in With(documents, f)}) > 1

Stating(documents, amount) == {d \in OnFile(documents) : d[amount] # None}
Greatest(documents, amount) ==
    CHOOSE n \in {d[amount] : d \in Stating(documents, amount)} :
        \A d \in Stating(documents, amount) : d[amount] <= n

\* _funding_shortfall
Shortfall(documents) ==
    /\ Stating(documents, "cost") # {} /\ Stating(documents, "funds") # {}
    /\ Greatest(documents, "funds") < Greatest(documents, "cost")

\* _has_equity_chain_gap
EquityGap(documents) ==
    /\ \E d \in OnFile(documents) : d.equity
    /\ ~ \E d \in OnFile(documents) : d.chain

\* _single_document_field_value: of the first document that has one.
FirstValue(documents, f) ==
    LET first == FirstThat(documents, LAMBDA d : d.values[f] # None)
    IN  IF first = None THEN None ELSE first.values[f]

\* One conflict, or none.
If(condition, conflict) == IF condition THEN <<conflict>> ELSE <<>>

\* What the documents hold against each other.
CrossConflicts(documents) ==
       If(FieldConflict(documents, School),
          Conflict("document", "high", "plain", {School}, With(documents, School), {}))
    \o If(FieldConflict(documents, Passport),
          Conflict("document", "high", "plain", {Passport}, With(documents, Passport), {}))
    \o If(Shortfall(documents),
          Conflict("missing", "high", "short", {"cost", "funds"},
                   Stating(documents, "cost") \cup Stating(documents, "funds"), {}))
    \o If(EquityGap(documents),
          Conflict("missing", "medium", "missing", {"equity"}, {d \in OnFile(documents) : d.equity}, {}))

\* What they hold against the applicant's last claim of a funding source.
ClaimConflicts(documents, claimed) ==
    If(/\ claimed # None
       /\ FirstValue(documents, Funding) \notin {None, claimed},
       Conflict("claim", "high", "plain", {Funding}, With(documents, Funding), {}))

StatusOf(conflicts) ==
    IF \E i \in DOMAIN conflicts : conflicts[i].severity = "high" THEN "high_risk" ELSE "reviewed"

\* _fallback_document_review_from_context, when the case board is silent.
ReviewOfDocuments(documents, claimed) ==
    LET cross  == CrossConflicts(documents)
        claims == ClaimConflicts(documents, claimed)
    IN  IF cross \o claims = <<>> THEN None
        ELSE [status |-> StatusOf(cross \o claims), cross |-> cross, claims |-> claims]

-----------------------------------------------------------------------------
(* What the case board says: conflicts and open proof points.              *)

Speaks(board) == board.conflicts # <<>> \/ board.open

\* _fallback_document_review_from_case_board
ReviewOfBoard(board) ==
    LET high   == Kept(board.conflicts, {c \in ToSet(board.conflicts) : c.severity = "high"})
        active == IF high # <<>> THEN high ELSE board.conflicts
    IN  [status |-> IF high # <<>> THEN "high_risk"
                    ELSE IF active # <<>> THEN "needs_clarification" ELSE "awaiting_documents",
         cross  |-> <<>>,
         claims |-> SubSeq(active, 1, IF Len(active) < 3 THEN Len(active) ELSE 3)]

\* The board speaks for the documents whenever it has anything to say.
ReviewOfContext(documents, claimed, board) ==
    IF Speaks(board) THEN ReviewOfBoard(board) ELSE ReviewOfDocuments(documents, claimed)

-----------------------------------------------------------------------------
(* What the interview's own state says: codes and level of its risks, the  *)
(* documents still awaited, verified, and waiting for the parser.          *)

\* _fallback_document_review
ReviewOfState(codes, level, remaining, verified, parsing) ==
    LET cross  == If("record_conflict" \in codes,
                     Conflict("document", IF level = "high" THEN "high" ELSE "medium",
                              "plain", {}, {}, {}))
        claims == If("evasive_answer" \in codes,
                     Conflict("claim", "medium", "plain", {}, {}, {}))
    IN  IF remaining = {} /\ verified = {} /\ codes = {} THEN None
        ELSE [status |-> IF cross # <<>> \/ (level = "high" /\ codes # {}) THEN "high_risk"
                         ELSE IF parsing # {} THEN "awaiting_parse"
                         ELSE IF remaining # {} THEN "awaiting_documents"
                         ELSE IF claims # <<>> THEN "needs_clarification" ELSE "reviewed",
              cross |-> cross, claims |-> claims]

-----------------------------------------------------------------------------
(* The review that counts.                                                 *)

Anchored(c) == c.documents # {} \/ c.refs # {}

\* Mutant: a high conflict counts only if it is one of documents.
Confirmed_Documents(c) == c.severity = "high" /\ c.kind = "document"

\* _is_confirmed_high_review_conflict
Confirmed(c) ==
    /\ c.severity = "high"
    /\ IF c.wording = "missing" THEN Anchored(c)
       ELSE \/ c.kind \in {"document", "claim"}
            \/ /\ c.kind = "missing" /\ c.documents # {}
               /\ {"cost", "funds"} \subseteq c.about \/ c.wording = "short"

AnyConfirmed(conflicts) == \E i \in DOMAIN conflicts : Confirmed(conflicts[i])

\* _normalize_document_review_risk
Normalized(r) ==
    IF AnyConfirmed(Conflicts(r)) THEN [r EXCEPT !.status = "high_risk"]
    ELSE IF Conflicts(r) # <<>> /\ r.status = "reviewed" THEN [r EXCEPT !.status = "needs_clarification"]
    ELSE r

\* _merge_review_list_values
Joined(s, t) == s \o Kept(t, ToSet(t) \ ToSet(s))

\* _merge_document_review_payload
Merged(r, fallback) ==
    IF fallback = None THEN Normalized(r)
    ELSE Normalized([status |-> r.status,
                     cross  |-> Joined(r.cross, fallback.cross),
                     claims |-> Joined(r.claims, fallback.claims)])

\* _document_review_output: told is what the model answers, or None for no model
\* and for a model that failed; seen says whether there is anything to review.
Review(told, context, state, seen) ==
    LET fallback == IF context # None THEN Merged(context, state) ELSE state
    IN  IF told = None \/ (~seen /\ fallback = None) THEN fallback ELSE Merged(told, fallback)

-----------------------------------------------------------------------------
(* What the interviewer's model is told to clarify.                        *)

\* _is_confirmed_high_reply_conflict: its wording never makes a shortfall.
ConfirmedForReply(c) ==
    Confirmed(c) /\ (c.kind = "missing" /\ c.wording # "missing" => {"cost", "funds"} \subseteq c.about)

\* Mutant: only a conflict found anywhere in the review is worth a word.
ToClarify_Confirmed(r) ==
    FirstThat(Conflicts(r), LAMBDA c : c.kind = "document")

\* _active_document_review_conflict.  The next step follows the status; one that a
\* model recommends against the status could only widen this.
ToClarify(r) ==
    LET high == FirstThat(Conflicts(r), ConfirmedForReply)
    IN  IF high # None THEN high
        ELSE IF r.status \in {"needs_clarification", "high_risk"} /\ Conflicts(r) # <<>>
        THEN Conflicts(r)[1] ELSE None

\* _primary_high_claim_conflict, and what identifies it from turn to turn.
PrimaryClaim(r) ==
    LET high == FirstThat(r.claims, LAMBDA c : c.severity = "high" /\ c.kind = "claim")
    IN  IF high = None THEN None
        ELSE [about |-> high.about, documents |-> high.documents, refs |-> high.refs]
=============================================================================

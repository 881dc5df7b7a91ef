--------------------------- MODULE Understanding ---------------------------
(***************************************************************************)
(* What one file becomes: the assessment made when it is uploaded, the     *)
(* evidence extracted from it, and the result of understanding it.         *)
(*                                                                         *)
(* A fact is a field with a value.  What a model answers is an input;      *)
(* what the program makes of the answer is modelled.                       *)
(***************************************************************************)
EXTENDS FiniteSets, Naturals

CONSTANTS
    Types,          \* types of documents
    Fields,         \* field paths of a profile
    Values,
    Funding,        \* the field /funding/primary_source
    FundingProof,   \* the type whose text is always searched for it
    Patterns,       \* [Types -> fields looked for in the text]
    Extractable,    \* types a model is asked to extract
    Assessable,     \* types an upload is assessed as
    None

ASSUME FieldsAssumption ==
    /\ Funding \in Fields
    /\ FundingProof \in Types
    /\ Patterns \in [Types -> SUBSET Fields]
    /\ Extractable \subseteq Types /\ Assessable \subseteq Types

ASSUME NoneAssumption == None \notin Types \cup Values

Facts == [field : Fields, value : Values]

\* A file: whether its name tells what it is; the facts its text layer states;
\* whether the text has a word that only texts on funding have.
Kinds == {"pdf", "image", "unnamed"}
Files == [kind : Kinds, facts : SUBSET Facts, keyword : BOOLEAN]

-----------------------------------------------------------------------------
(* The assessment of an upload.                                            *)

\* The form's type, or the one type that the message names.
HintOf(declared, mentioned) ==
    IF declared # None THEN declared
    ELSE IF Cardinality(mentioned) = 1 THEN CHOOSE t \in mentioned : TRUE ELSE None

\* The fields a document of a type is about.
Topics(t) == Patterns[t] \cup (IF t = FundingProof THEN {Funding} ELSE {})

\* _heuristic_assessment
Heuristic(hint) ==
    [candidates |-> {hint} \cap Assessable,
     relevance  |-> IF hint \in Assessable THEN "high" ELSE "unknown",
     claims     |-> IF hint \in Assessable THEN Topics(hint) ELSE {}]

\* assess_document: every upload forbids it the model.
Assessment(hint) == Heuristic(hint)

\* _case_supported_document_type
CaseType(hint) ==
    IF hint # None THEN hint
    ELSE IF Assessment(hint).candidates # {}
         THEN CHOOSE t \in Assessment(hint).candidates : TRUE ELSE None

\* _legacy_counts_toward_gate
Counts(hint, required) ==
    IF required = {} THEN "open"
    ELSE IF CaseType(hint) \in required /\ Assessment(hint).relevance # "low" THEN "yes" ELSE "no"

\* _build_case_understanding_feedback
Feedback(hint, focus) ==
    LET seen == IF focus # None THEN focus ELSE CaseType(hint)
    IN  IF seen = None THEN "none"
        ELSE IF CaseType(hint) = None \/ Assessment(hint).relevance = "low" THEN "not_helpful"
        ELSE IF CaseType(hint) = seen THEN "helpful" ELSE "partial_helpful"

-----------------------------------------------------------------------------
(* Evidence.                                                               *)

\* _extract_funding_source
StatesFunding(x, type, keyword) == x.field = Funding /\ (type = FundingProof \/ keyword)

\* _extract_structured_fields
StatesField(x, type) == type # None /\ x.field \in Patterns[type]

\* _extract_evidence on a text.
Stated(type, facts, keyword) ==
    {x \in facts : StatesFunding(x, type, keyword) \/ StatesField(x, type)}

\* MultimodalExtractionService.extract is asked at all.
AskedToExtract(type, file, model) ==
    model /\ type \in Extractable /\ file.kind # "unnamed"

\* The facts of a document: what the model names; what the text it read says;
\* without an answer, what the text layer says.
Extracted(type, file, model, reply) ==
    IF AskedToExtract(type, file, model) /\ reply # None
    THEN IF reply.fields # {} THEN reply.fields ELSE Stated(type, reply.text, file.keyword)
    ELSE IF file.kind = "pdf" THEN Stated(type, file.facts, file.keyword) ELSE {}

\* A document's items, of which each has an identity of its own.
Items(d, facts) == {<<d, x.field, x.value>> : x \in facts}
DocumentOf(i) == i[1]
FieldOf(i) == i[2]
ValueOf(i) == i[3]

-----------------------------------------------------------------------------
(* Results.                                                                *)

\* _result_from_legacy_evidence: one card and one claim for each item.
ResultOfItems(items) ==
    [cards  |-> {[id |-> i, refs |-> {i}] : i \in items},
     claims |-> {[id |-> i, field |-> FieldOf(i), status |-> "documented",
                  support |-> {i}, against |-> {}] : i \in items}]

\* Mutant: the model's word for a claim's status is taken.
StatusOfClaim_AsTold(claim, ids) ==
    IF claim.status # None THEN claim.status
    ELSE IF claim.support \cap ids # {} THEN "documented" ELSE "unknown"

\* The status of a claim the model makes, with the cards ids of its answer.
StatusOfClaim(claim, ids) ==
    LET told == IF claim.status # None THEN claim.status
                ELSE IF claim.support \cap ids # {} THEN "documented" ELSE "unknown"
    IN  IF \/ told = "documented" /\ claim.support \cap ids = {}
           \/ told = "contradicted" /\ claim.against \cap ids = {}
        THEN "unknown" ELSE told

\* _parse_claim
ParsedClaim(claim, ids) ==
    [id |-> claim.id, field |-> claim.field, status |-> StatusOfClaim(claim, ids),
     support |-> claim.support \cap ids, against |-> claim.against \cap ids]

\* _parse_evidence_card, and the claims that a card may refer to.
ParsedCard(card, known) == [id |-> card.id, refs |-> card.refs \cap known]

\* _parse_result: an answer of claims alone gets a card for each.
ResultOfAnswer(answer) ==
    LET ids == {c.id : c \in answer.cards}
        claims == {ParsedClaim(k, ids) : k \in answer.claims}
        known == {k.id : k \in claims}
    IN  IF answer.cards = {}
        THEN [cards  |-> {[id |-> k.id, refs |-> {k.id}] : k \in claims},
              claims |-> {[k EXCEPT !.status = "documented", !.support = {k.id}] : k \in claims}]
        ELSE [cards  |-> {ParsedCard(c, known) : c \in answer.cards},
              claims |-> claims]

\* understand makes a result of the items, without a model.
FromItems(file, items, model) == file.kind = "unnamed" \/ (items # {} /\ ~model)

\* A claim is documented, or contradicted, by cards of its own result, and a card
\* refers to claims of that result.
Grounded(result) ==
    LET ids == {c.id : c \in result.cards}
    IN  /\ \A k \in result.claims :
              /\ k.status = "documented" => k.support # {}
              /\ k.status = "contradicted" => k.against # {}
              /\ k.support \cup k.against \subseteq ids
        /\ \A c \in result.cards : c.refs \subseteq {k.id : k \in result.claims}
=============================================================================

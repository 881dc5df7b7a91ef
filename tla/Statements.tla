----------------------------- MODULE Statements -----------------------------
(***************************************************************************)
(* What the interview runtime makes of an applicant's statements on who    *)
(* pays: the field of the profile, the history of claims, the findings     *)
(* where the history and the documents differ, and the score.              *)
(*                                                                         *)
(* Of the profile's fields only the funding source is modelled: it alone   *)
(* is also claimed by turns of the history and guarded against loss.  The  *)
(* numbers of the score are left out; its risk flags and its missing       *)
(* evidence are what later steps read.                                     *)
(***************************************************************************)
EXTENDS FiniteSets, Naturals, Sequences, SequencesExt

CONSTANTS
    Sources,        \* who can pay
    Parents,        \* the one that is recognised without a model
    Undecided,      \* words a model may return instead of a source
    Proof,          \* the document that proves funding
    None

ASSUME SourcesAssumption == Parents \in Sources /\ {Undecided, None} \cap Sources = {}

\* A message: the last source it names without a negation; the sources whose words
\* occur in it, negated or not; whether it says explicitly who pays, calls the source
\* undecided, corrects itself, or confesses a lie.  The markers of the parents are the
\* same for every reader, those of other sources are not.
Messages == {m \in [source : Sources \cup {None}, mentions : SUBSET Sources, explicit : BOOLEAN,
                    undecided : BOOLEAN, corrects : BOOLEAN, confesses : BOOLEAN] :
                m.source = Parents => Parents \in m.mentions}

\* The funding source in the profile, the claims made of it, and what the documents
\* last said of it.
Unknown == [state |-> "unknown", value |-> None, refs |-> {}]
Backed(field) == field.state \in {"documented", "confirmed"} /\ field.refs # {}

-----------------------------------------------------------------------------
(* Extraction.                                                             *)

\* _remember_claimed_value
Remembered(claims, value, turn, text) ==
    IF claims # <<>> /\ claims[Len(claims)].value = value THEN claims
    ELSE Append(claims, [value |-> value, turn |-> turn, text |-> text])

Claimed(p, value, turn, text) ==
    [p EXCEPT !.field = [state |-> "claimed", value |-> value, refs |-> {}],
              !.claims = Remembered(@, value, turn, text)]

\* _apply_unknown_funding_source
Forgotten(p) == [p EXCEPT !.field = Unknown]

\* _fallback_apply_message: a mention of the parents is a claim, negated or not.
HeardPlainly(p, turn, m) ==
    IF m.undecided THEN Forgotten(p)
    ELSE IF Parents \in m.mentions THEN Claimed(p, Parents, turn, m) ELSE p

\* _apply_field_update of what a model extracted.
Updated(p, update, turn, m) ==
    LET value == IF update.value \in Sources THEN update.value ELSE None
        state == IF update.state = "claimed" /\ update.value = Undecided THEN "unknown" ELSE update.state
        kept  == IF value # None THEN value ELSE IF state = "unknown" THEN None ELSE p.field.value
    IN  IF state = "unknown" /\ update.value = None /\ (p.field.state # "unknown" \/ p.field.value # None)
        THEN p
        ELSE [p EXCEPT !.field = [state |-> state, value |-> kept,
                                  refs |-> IF state \in {"documented", "confirmed"} THEN update.refs ELSE {}],
                       !.claims = IF state = "claimed" /\ value # None
                                  THEN Remembered(@, value, turn, m) ELSE @]

\* apply_message: update is None without a model, and when the model failed.
Extracted(p, update, turn, m) ==
    IF update = None THEN HeardPlainly(p, turn, m)
    ELSE IF m.undecided THEN Forgotten(p) ELSE Updated(p, update, turn, m)

\* _preserve_gate_ready_fields
Preserved(old, p) ==
    IF Backed(old.field) /\ p.field.state \in {"claimed", "unknown"}
    THEN [p EXCEPT !.field = [old.field EXCEPT !.value = IF @ = None THEN p.field.value ELSE @]] ELSE p

-----------------------------------------------------------------------------
(* Consistency.                                                            *)

\* _claims_equivalent
Equivalent(c, d) == c.turn = d.turn \/ (c.value = d.value /\ c.text = d.text)

\* _append_unique_claim
AppendUnique(claims, c) ==
    IF \E i \in DOMAIN claims : Equivalent(claims[i], c) THEN claims ELSE Append(claims, c)

\* _sync_field_claim_histories: the archived claims, then those of recent turns, in
\* which negated sources are passed over.
Synced(claims, recent) ==
    LET said == SelectSeq(recent, LAMBDA t : t.text.source # None)
    IN  FoldLeft(AppendUnique, <<>>,
                 claims \o [i \in DOMAIN said |-> [value |-> said[i].text.source,
                                                   turn |-> said[i].turn, text |-> said[i].text]])

\* _document_backed_field_value
BackedValue(p) ==
    IF Backed(p.field) /\ p.field.value # None THEN p.field.value ELSE p.snapshot

Against(claims, value) == {c \in ToSet(claims) : c.value # value}
Distinct(claims) == {c.value : c \in claims}

\* _is_reasonable_correction
Corrects(claims, value) ==
    /\ Cardinality({i \in 1..(Len(claims) - 1) : claims[i].value # value}) = 1
    /\ claims[Len(claims)].text.corrects

Finding(type, severity, status) == [code |-> type, severity |-> severity, status |-> status]

\* _build_field_conflict_finding
ConflictFindings(p) ==
    LET value == BackedValue(p)
        against == Against(p.claims, value)
        severity == IF Cardinality(Distinct(against)) > 1 THEN "high" ELSE "medium"
    IN  IF \/ value = None \/ against = {}
           \/ p.claims[Len(p.claims)].value = value /\ Corrects(p.claims, value)
        THEN {} ELSE {Finding("record_conflict", severity, "supported")}

\* evaluate, with the profile's claims synced already.
Findings(p, recent) ==
    (IF \E i \in DOMAIN recent : recent[i].text.confesses
     THEN {Finding("hard_conflict", "high", "confirmed")} ELSE {})
    \cup ConflictFindings(p)
    \cup (IF p.field.value = Parents /\ p.field.refs = {}
          THEN {Finding("gap", "medium", "supported")} ELSE {})

-----------------------------------------------------------------------------
(* The score.                                                              *)

ProofMissing == Finding("proof_missing", "medium", "supported")
HasFlag(score, code) == \E f \in score.flags : f.code = code
Flagged(score, flag) ==
    IF HasFlag(score, flag.code) THEN score ELSE [score EXCEPT !.flags = @ \cup {flag}]
Unflagged(score, code) == [score EXCEPT !.flags = {f \in @ : f.code # code}]

\* apply_funding_gap_guard
GapShown(score) == [Flagged(score, ProofMissing) EXCEPT !.missing = @ \cup {Proof}]

\* reconcile_profile_evidence
Reconciled(p, score) ==
    IF p.field.refs = {} THEN score
    ELSE [Unflagged(score, "proof_missing") EXCEPT !.missing = @ \ {Proof}]

\* apply_findings_guards
Guarded(score, findings, gaps) ==
    LET conflicts == {f \in findings : f.code # "gap"}
        flagged == [score EXCEPT !.flags = @ \cup {f \in conflicts : ~HasFlag(score, f.code)}]
    IN  IF conflicts # findings /\ (gaps \/ HasFlag(score, "proof_missing"))
        THEN GapShown(flagged) ELSE flagged

\* propose: a model's proposal, or the fallback when there is none.
Scored(p, findings, proposal) ==
    IF proposal = None
    THEN Guarded(Reconciled(p, [flags |-> {}, missing |-> {}]), findings, TRUE)
    ELSE Guarded(Reconciled(p, proposal), findings, FALSE)

\* derive_risk_level
Level(score) ==
    IF \E f \in score.flags : f.severity = "high" THEN "high"
    ELSE IF \E f \in score.flags : f.severity = "medium" THEN "medium" ELSE "low"

Codes(score) == {f.code : f \in score.flags}
=============================================================================

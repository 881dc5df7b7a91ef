------------------------- MODULE DocumentEvidence -------------------------
(***************************************************************************)
(* The documents of one session, the evidence found in them, and the       *)
(* profile and gate that are computed again from that evidence whenever    *)
(* it changes.                                                             *)
(*                                                                         *)
(* The queue, and what runs against each other, is modelled in             *)
(* MaterialPipeline; here one worker takes one document at a time and may  *)
(* die.  A step is what one transaction commits.                           *)
(***************************************************************************)
EXTENDS Understanding

CONSTANTS
    Documents,
    Required,       \* types the gate of the session asks for
    Uploadable,     \* files, of Files, that are uploaded
    Extractions,    \* answers to the extraction, and None
    Answers,        \* answers to the question for understanding, and None
    Templates,      \* types a fill has a text for
    School,         \* the field a mismatching fill is about
    Fallback, Other \* what a fill writes for a field the profile lacks; a mismatch

ASSUME EvidenceAssumption ==
    /\ Required \subseteq Types
    /\ Uploadable \subseteq Files
    /\ Templates \subseteq Types
    /\ School \in Fields /\ Fallback \in Values /\ Other \in Values

\* A text states finitely many facts, and so does an answer.
ASSUME FactsFinite ==
    /\ \A t \in Types : IsFiniteSet(Patterns[t])
    /\ \A file \in Uploadable : file \in Files /\ IsFiniteSet(file.facts)
    /\ \A reply \in Extractions \ {None} :
          /\ reply.fields \in SUBSET Facts /\ IsFiniteSet(reply.fields)
          /\ reply.text \in SUBSET Facts /\ IsFiniteSet(reply.text)

VARIABLES
    docs,           \* [Documents -> row of a document and its artifact]
    evidence,       \* rows of evidence items
    profile,        \* [Fields -> state, value and evidence of the profile's field]
    gate,           \* [Required -> status of the gate's item]
    worker,         \* the document the worker is at, how far, and whether the
                    \* process has a model configured
    behind          \* history: the evidence has changed since the profile was computed

vars == <<docs, evidence, profile, gate, worker, behind>>

Absent == [file |-> None, type |-> None, counts |-> "open", feedback |-> "none",
           status |-> "absent", understanding |-> "none", result |-> None]
Idle == [doc |-> None, at |-> "idle", model |-> FALSE]
Unknown == [state |-> "unknown", value |-> None, refs |-> {}]

Live(ds) == {d \in Documents : ds[d].status \notin {"absent", "removed"}}
LiveItems(ds, ev) == {i \in ev : DocumentOf(i) \in Live(ds)}
About(f, items) == {i \in items : FieldOf(i) = f}
ValuesOf(items) == {ValueOf(i) : i \in items}

-----------------------------------------------------------------------------
(* The profile.                                                            *)

\* Mutant: documents outvote what the applicant said.
FieldAfter_Overwrite(old, items) ==
    IF items = {}
    THEN IF old.state = "claimed" THEN [old EXCEPT !.refs = {}] ELSE Unknown
    ELSE IF Cardinality(ValuesOf(items)) > 1
    THEN [state |-> "conflicted", value |-> None, refs |-> items]
    ELSE [state |-> "documented", value |-> CHOOSE v \in ValuesOf(items) : TRUE, refs |-> items]

\* _apply_field_evidence, of a field with its live evidence.
FieldAfter(old, items) ==
    IF items = {}
    THEN IF old.state = "claimed" THEN [old EXCEPT !.refs = {}] ELSE Unknown
    ELSE IF \/ Cardinality(ValuesOf(items)) > 1
            \/ old.state = "claimed" /\ old.value \notin ValuesOf(items)
    THEN [state |-> "conflicted", value |-> None, refs |-> items]
    ELSE [state |-> "documented", value |-> CHOOSE v \in ValuesOf(items) : TRUE, refs |-> items]

\* Mutant: the evidence of removed documents still counts.
ProfileAfter_All(old, ds, ev) ==
    [f \in Fields |-> FieldAfter(old[f], About(f, ev))]

\* recompute_session
ProfileAfter(old, ds, ev) ==
    [f \in Fields |-> FieldAfter(old[f], About(f, LiveItems(ds, ev)))]

-----------------------------------------------------------------------------
(* The gate.                                                               *)

Matching(t, ds) == {d \in Live(ds) : ds[d].type = t /\ ds[d].counts # "no"}

\* Mutant: an item of funding is ready like any other.
Ready_AnyType(t, ds, p) ==
    \E d \in Matching(t, ds) : ds[d].status = "parsed" /\ ds[d].understanding = "completed"

Ready(t, ds, p) ==
    /\ \E d \in Matching(t, ds) : ds[d].status = "parsed" /\ ds[d].understanding = "completed"
    /\ t = FundingProof => p[Funding].state = "documented" /\ p[Funding].refs # {}

\* refresh_record
GateAfter(ds, p) ==
    [t \in Required |->
        IF Ready(t, ds, p) THEN "ready" ELSE IF Matching(t, ds) # {} THEN "uploaded" ELSE "missing"]

\* What ends every change of the material: profile and gate from what is there.
Recomputed(old) ==
    /\ profile' = ProfileAfter(old, docs', evidence')
    /\ gate' = GateAfter(docs', profile')
    /\ behind' = FALSE

-----------------------------------------------------------------------------
Init ==
    /\ docs = [d \in Documents |-> Absent]
    /\ evidence = {}
    /\ profile = [f \in Fields |-> Unknown]
    /\ gate = [t \in Required |-> "missing"]
    /\ worker = Idle
    /\ behind = FALSE

\* FileService.upload; focus is what the interviewer is asking for.
Upload(d) ==
    /\ docs[d].status = "absent"
    /\ \E file \in Uploadable, declared \in Types \cup {None}, mentioned \in SUBSET Types,
          focus \in Types \cup {None} :
          LET hint == HintOf(declared, mentioned)
          IN  docs' = [docs EXCEPT ![d] =
                  [Absent EXCEPT !.file = file, !.type = CaseType(hint),
                                 !.counts = Counts(hint, Required),
                                 !.feedback = Feedback(hint, focus),
                                 !.status = "uploaded", !.understanding = "queued"]]
    /\ gate' = GateAfter(docs', profile)
    /\ UNCHANGED <<evidence, profile, worker, behind>>

\* The worker takes a queued document.
Take(d) ==
    /\ worker = Idle
    /\ docs[d].status \notin {"absent", "removed"}
    /\ docs[d].understanding = "queued"
    /\ docs' = [docs EXCEPT ![d].understanding = "processing"]
    /\ \E model \in BOOLEAN : worker' = [doc |-> d, at |-> "parse", model |-> model]
    /\ UNCHANGED <<evidence, profile, gate, behind>>

\* process_document replaces the items of d, and a new artifact its old one.
Replaced(d, items) == {i \in evidence : DocumentOf(i) # d} \cup items

NewArtifact(row) ==
    [row EXCEPT !.status = IF row.file.kind = "unnamed" THEN "unsupported" ELSE "parsed",
                !.result = None]

Parse(d) ==
    /\ worker.doc = d /\ worker.at = "parse"
    /\ docs[d].status # "removed"
    /\ \E reply \in IF AskedToExtract(docs[d].type, docs[d].file, worker.model) THEN Extractions ELSE {None} :
          evidence' = Replaced(d, Items(d, Extracted(docs[d].type, docs[d].file, worker.model, reply)))
    /\ docs' = [docs EXCEPT ![d] = NewArtifact(@)]
    /\ worker' = [worker EXCEPT !.at = "understand"]
    /\ behind' = TRUE
    /\ UNCHANGED <<profile, gate>>

\* What understand returns, and what is stored of it.
Understood(d, understanding, result) ==
    /\ docs' = [docs EXCEPT ![d].understanding = understanding, ![d].result = result]
    /\ worker' = Idle
    /\ UNCHANGED evidence
    /\ Recomputed(profile)

Understand(d) ==
    /\ worker.doc = d /\ worker.at = "understand"
    /\ docs[d].status # "removed"
    /\ LET items == {i \in evidence : DocumentOf(i) = d}
       IN  IF FromItems(docs[d].file, items, worker.model)
           THEN Understood(d, "completed", ResultOfItems(items))
           ELSE \E answer \in Answers :
                   IF worker.model /\ answer # None
                   THEN Understood(d, "completed", ResultOfAnswer(answer))
                   ELSE Understood(d, "failed", docs[d].result)

\* The document went while the worker was at it: its job is cancelled.
Skip ==
    /\ worker # Idle
    /\ docs[worker.doc].status = "removed"
    /\ worker' = Idle
    /\ UNCHANGED <<docs, evidence, profile, gate, behind>>

\* An exception: parsing fails before anything is committed, or what comes after
\* it does.  Neither profile nor gate is computed again.
Fail ==
    /\ worker # Idle
    /\ docs[worker.doc].status # "removed"
    /\ docs' = [docs EXCEPT ![worker.doc].understanding = "parse_failed"]
    /\ worker' = Idle
    /\ UNCHANGED <<evidence, profile, gate, behind>>

\* The worker's process dies: nobody takes its job, which stays in processing.
Die ==
    /\ worker # Idle
    /\ worker' = Idle
    /\ UNCHANGED <<docs, evidence, profile, gate, behind>>

\* delete_file
Remove(d) ==
    /\ d \in Live(docs)
    /\ docs' = [docs EXCEPT ![d].status = "removed"]
    /\ UNCHANGED <<evidence, worker>>
    /\ Recomputed(profile)

-----------------------------------------------------------------------------
(* Documents the program writes itself.                                    *)

ResultWritten(d, facts) == ResultOfItems(Items(d, facts))

Written(d, type, facts) ==
    /\ docs' = [docs EXCEPT ![d] =
          [Absent EXCEPT !.type = type, !.counts = "yes", !.status = "parsed",
                         !.understanding = "completed",
                         !.result = ResultWritten(d, facts)]]
    /\ evidence' = Replaced(d, Items(d, facts))

\* A bundle comes with turns in which the applicant makes claims.
Bundle(d) ==
    /\ docs[d].status = "absent"
    /\ \E t \in Types, v \in Values, claims \in Facts :
          /\ Written(d, t, {[field |-> f, value |-> v] : f \in Topics(t)})
          /\ Recomputed([profile EXCEPT ![claims.field] =
                             [state |-> "claimed", value |-> claims.value, refs |-> {}]])
    /\ UNCHANGED worker

Known(f) == IF profile[f].value # None THEN profile[f].value ELSE Fallback

\* What fill_current_gap writes for a field.
FilledValue(f, scenario) ==
    IF f = Funding THEN Fallback
    ELSE IF scenario = "school_mismatch" /\ f = School
    THEN IF Known(f) = Other THEN Fallback ELSE Other
    ELSE Known(f)

\* Which document is filled in: the one in focus, or else a gap of the gate.
FillTargets(scenario, focus) ==
    IF scenario = "sponsor_equity_gap" THEN {FundingProof}
    ELSE IF focus # None THEN {focus}
    ELSE IF \E t \in Required : gate[t] # "ready" THEN {t \in Required : gate[t] # "ready"}
    ELSE {FundingProof}

\* _build_document: what has no template becomes a proof of funding.
Drafted(target) == IF target \in Templates THEN target ELSE FundingProof

\* What else the proof of a sponsor's equity says (how, and of which shares) no other
\* document speaks of; it is left out.
Fill(d, scenario) ==
    /\ docs[d].status = "absent"
    /\ \E focus \in Types \cup {None} : \E target \in FillTargets(scenario, focus) :
          LET t == Drafted(target)
          IN  Written(d, t, {[field |-> f, value |-> FilledValue(f, scenario)] : f \in Topics(t)})
    /\ Recomputed(profile)
    /\ UNCHANGED worker

Scenarios == {"normal", "school_mismatch", "sponsor_equity_gap"}

-----------------------------------------------------------------------------
WorkerStep == \E d \in Documents : Take(d) \/ Parse(d) \/ Understand(d)

Next ==
    \/ \E d \in Documents : Upload(d)
    \/ WorkerStep \/ Skip \/ Fail \/ Die
    \/ \E d \in Documents : Remove(d)
    \/ \E d \in Documents : Bundle(d)
    \/ \E d \in Documents, scenario \in Scenarios : Fill(d, scenario)

Spec == Init /\ [][Next]_vars

-----------------------------------------------------------------------------
\* What a stored result says is documented is backed by its own cards, whatever a
\* model answered: a claim without a card it cites is not documented
\* (MaterialUnderstandingService._parse_result).
ResultsAreGrounded ==
    \A d \in Live(docs) : docs[d].result # None => Grounded(docs[d].result)

\* The profile is what the evidence of the documents that are still there says: a
\* field is documented, by all of it, only where it agrees; without any, nothing is
\* left of a document but the applicant's own claim (ProfileRecomputeService).  While
\* a parsed document waits to be understood, and if that fails or never ends, the
\* profile is that of before, until the next change of the material.
ProfileFollowsEvidence ==
    ~behind => \A f \in Fields :
        LET items == About(f, LiveItems(docs, evidence))
        IN  /\ items = {} => profile[f].state \in {"unknown", "claimed"}
            /\ Cardinality(ValuesOf(items)) > 1 => profile[f].state = "conflicted"
            /\ profile[f].state = "documented" => ValuesOf(items) = {profile[f].value}
            /\ profile[f].refs = items

\* The gate counts the funding only while every document that speaks of its source
\* names the same one, and a funding document is parsed and understood
\* (GateRuntimeService._meets_minimum_fields).
FundingReadyIsAgreed ==
    ~behind /\ FundingProof \in Required /\ gate[FundingProof] = "ready" =>
        /\ Cardinality(ValuesOf(About(Funding, LiveItems(docs, evidence)))) = 1
        /\ \E d \in Live(docs) : /\ docs[d].type = FundingProof
                                 /\ docs[d].status = "parsed"
                                 /\ docs[d].understanding = "completed"

\* What the applicant claims is replaced by the applicant alone: a document can
\* confirm it or put it in dispute (_apply_field_evidence).
ClaimStands ==
    [][\/ \E d \in Documents : Bundle(d)
       \/ \A f \in Fields : profile[f].state = "claimed" =>
              \/ profile'[f].value = profile[f].value
              \/ /\ profile'[f].state = "conflicted"
                 /\ \E i \in About(f, LiveItems(docs', evidence')) : ValueOf(i) # profile[f].value]_vars

=============================================================================

----------------------------- MODULE CaseMemory -----------------------------
(***************************************************************************)
(* What CaseMemoryService computes: the snapshot of a session's case from  *)
(* its documents and the applicant's statements (claims, evidence cards,   *)
(* proof points, conflicts, the next move), and what case_board_projection *)
(* reads off it (the evidence that is missing).                            *)
(*                                                                         *)
(* A document is [status, result, shown]; a result of its understanding is *)
(* [claims, evidence, proofs, conflicts, followups], each a sequence.  Ids *)
(* are pairs <<who, n>>: a model may name two claims of two documents      *)
(* alike, and unnamed ones get an id by their place alone.                 *)
(***************************************************************************)
EXTENDS Integers, FiniteSets, Sequences

CONSTANT None

Funding == "/funding/primary_source"

\* Tombstoned: the status or the artifact's key says so; both are set at once.
Live(doc) == doc.status = "live"

\* _canonicalize_claim: the value of a claim, without aliases of a funding source.
Canonical(claim) ==
    IF claim.field = Funding /\ claim.value = "family" THEN "parents" ELSE claim.value

-----------------------------------------------------------------------------
(* What the case is made of, in the order it is read: the results of the   *)
(* documents that are not removed, by filename, and after them the user    *)
(* turns in which the applicant says where the money comes from, each with *)
(* its claim and its evidence once they are captured.                      *)

TurnClaim(t) == [id |-> <<"turn", t.id>>, field |-> Funding, value |-> t.says,
                 status |-> "stated", sup |-> {}, con |-> {}]

TurnEvidence(t) == [id |-> <<"turn", t.id>>, source |-> "user_turn",
                    refs |-> {<<"turn", t.id>>}]

Statement(t) == [claims |-> <<TurnClaim(t)>>, evidence |-> <<TurnEvidence(t)>>,
                 proofs |-> <<>>, conflicts |-> <<>>, followups |-> <<>>]

Understood(docs) == {d \in DOMAIN docs : Live(docs[d]) /\ docs[d].result # None}

Captured(turns) == {i \in DOMAIN turns : turns[i].role = "user" /\ turns[i].claimed}

\* The sources by the position in which they are read.
Sources(docs, turns) ==
    LET n == Len(docs) IN
    [s \in Understood(docs) \cup {n + i : i \in Captured(turns)} |->
        IF s <= n THEN docs[s].result ELSE Statement(turns[s - n])]

-----------------------------------------------------------------------------
(* Claims, evidence and proof points, by id: items [at, is], at the place  *)
(* (the position of the source and the item's own) where each is read.     *)

Before(p, q) == p[1] < q[1] \/ (p[1] = q[1] /\ p[2] < q[2])

Items(sources, part) ==
    UNION {{[at |-> <<s, i>>, is |-> sources[s][part][i]] : i \in DOMAIN sources[s][part]}
           : s \in DOMAIN sources}

\* A dictionary filled in this order keeps the last value of a key.
LastOfEach(items) ==
    {x.is : x \in {x \in items : ~ \E y \in items : x.is.id = y.is.id /\ Before(x.at, y.at)}}

\* _merge_claim, for the claims of one id.
MergedStatus(same) ==
    LET statuses == {x.is.status : x \in same} IN
    IF "contradicted" \in statuses THEN "contradicted"
    ELSE IF "documented" \in statuses THEN "documented"
    ELSE (CHOOSE x \in same : ~ \E y \in same : Before(x.at, y.at)).is.status

\* _merge_claim: field and value of the first claim of that id stay.
MergedClaim(items, id) ==
    LET same == {x \in items : x.is.id = id}
        first == (CHOOSE x \in same : ~ \E y \in same : Before(y.at, x.at)).is
    IN  [id |-> id, field |-> first.field, value |-> Canonical(first),
         status |-> MergedStatus(same),
         sup |-> UNION {x.is.sup : x \in same}, con |-> UNION {x.is.con : x \in same}]

MergedClaims(sources) ==
    LET items == Items(sources, "claims") IN {MergedClaim(items, x.is.id) : x \in items}

Evidence(sources) == LastOfEach(Items(sources, "evidence"))

DocumentProofs(sources) == LastOfEach(Items(sources, "proofs"))

Own(claim, evidence) == claim.sup \cup {e.id : e \in {e \in evidence : claim.id \in e.refs}}

-----------------------------------------------------------------------------
(* Conflicts.  A generated conflict is named by its field.                 *)

On(claims, field) == {c \in claims : c.field = field /\ c.value # None}

\* Mutant: what has been resolved once is found again.
Disputed_Resolved(claims, resolved) ==
    {f \in {c.field : c \in claims} :
        \E c \in On(claims, f), d \in On(claims, f) : c.value # d.value}

Disputed(claims, resolved) ==
    {f \in {c.field : c \in claims} \ resolved :
        \E c \in On(claims, f), d \in On(claims, f) : c.value # d.value}

GroupEvidence(claims, evidence, field) ==
    UNION {c.con \cup Own(c, evidence) : c \in On(claims, field)}

\* _apply_field_conflicts: every claim of the field that others' evidence
\* speaks against.
Confronted(claims, evidence, resolved, claim) ==
    LET group == GroupEvidence(claims, evidence, claim.field) IN
    IF /\ claim.value # None /\ claim.field \in Disputed(claims, resolved)
       /\ ~ (group \subseteq Own(claim, evidence))
    THEN [claim EXCEPT !.status = "contradicted", !.con = @ \cup group]
    ELSE claim

Claims(sources, resolved) ==
    LET merged == MergedClaims(sources)
        evidence == Evidence(sources)
    IN  {Confronted(merged, evidence, resolved, c) : c \in merged}

\* The conflicts a document's understanding reports, unless resolved.
Reported(sources, resolved) ==
    {c \in LastOfEach(Items(sources, "conflicts")) : c.id \notin resolved}

Conflicts(sources, resolved) ==
    LET merged == MergedClaims(sources)
        evidence == Evidence(sources)
        reported == Reported(sources, resolved)
        found == Disputed(merged, resolved) \ {c.id : c \in reported}
    IN  reported \cup
        {[id |-> f, claims |-> {c.id : c \in On(merged, f)}, severity |-> "medium",
          evidence |-> GroupEvidence(merged, evidence, f)] : f \in found}

-----------------------------------------------------------------------------
(* Proof points.                                                           *)

Substantiated(claim, evidence) == claim.status = "documented" /\ Own(claim, evidence) # {}

\* _apply_funding_proof_gap
FundingGap(sources, claims, evidence) ==
    LET stated == On(claims, Funding) IN
    IF \/ \E p \in DocumentProofs(sources) : p.id = "funding_proof"
       \/ stated = {} \/ \E c \in stated : Substantiated(c, evidence)
    THEN {}
    ELSE {[id |-> "funding_proof", document |-> None, status |-> "missing"]}

\* The first follow-up of the first document that has one, unless there is a
\* conflict: the least id then (any, here) is clarified first.
Followups(sources) ==
    LET items == Items(sources, "followups") IN
    {x.is : x \in {x \in items : ~ \E y \in items : Before(y.at, x.at)}}

NextMoves(sources, conflicts) ==
    IF conflicts = {} THEN Followups(sources)
    ELSE {[claims |-> c.claims, evidence |-> c.evidence] : c \in conflicts}

Shown(docs) == {d \in DOMAIN docs : Live(docs[d]) /\ docs[d].shown # None}

LastOf(positions) == CHOOSE i \in positions : \A j \in positions : j <= i

\* latest_material of the last document by filename that has one.
LatestMaterial(docs) ==
    IF Shown(docs) = {} THEN None ELSE docs[LastOf(Shown(docs))].shown

\* build_snapshot
Built(sources, resolved, latest) ==
    LET claims == Claims(sources, resolved)
        evidence == Evidence(sources)
        conflicts == Conflicts(sources, resolved)
    IN  [claims |-> claims, evidence |-> evidence, conflicts |-> conflicts,
         proofs |-> DocumentProofs(sources) \cup FundingGap(sources, claims, evidence),
         resolved |-> resolved, next |-> NextMoves(sources, conflicts), latest |-> latest]

Snapshot(docs, turns, resolved) ==
    Built(Sources(docs, turns), resolved, LatestMaterial(docs))

-----------------------------------------------------------------------------
(* case_board_projection                                                   *)

HasState(board) ==
    \/ board.latest # None \/ board.next # {} \/ board.claims # {}
    \/ board.evidence # {} \/ board.proofs # {} \/ board.conflicts # {}

\* proof_point_code: the document a proof point is about, or its id.
ProofCode(proof) == IF proof.document # None THEN proof.document ELSE proof.id

\* An uploaded file speaks for the claim.
Uploaded(board, claim) ==
    Own(claim, {e \in board.evidence : e.source = "uploaded_file"})
        \cap {e.id : e \in {e \in board.evidence : e.source = "uploaded_file"}} # {}

\* unresolved_funding_claim_requires_proof
UnresolvedFunding(board) ==
    LET funding == {c \in board.claims : c.field = Funding} IN
    /\ \A c \in funding : c.status = "documented" => ~ Uploaded(board, c)
    /\ \E c \in funding : /\ c.status \in {"stated", "unknown"} /\ c.value # None
                          /\ ~ Uploaded(board, c)

\* missing_evidence_from_case_board
MissingEvidence(board) ==
    {ProofCode(p) : p \in {p \in board.proofs :
                             p.status \in {"missing", "partial", "contradicted"}}}
        \cup (IF UnresolvedFunding(board) THEN {"funding_proof"} ELSE {})

-----------------------------------------------------------------------------
(* query_evidence_graph: the part of the snapshot about some fields (all   *)
(* of them when none is named), and the edges between its nodes.           *)

ClaimsAbout(board, fields) ==
    {c \in board.claims : fields = {} \/ c.field \in fields}

ConflictsAbout(board, fields) ==
    {k \in board.conflicts :
        fields = {} \/ k.claims \cap {c.id : c \in ClaimsAbout(board, fields)} # {}}

\* Mutant: the evidence that speaks against a claim is left out.
EvidenceAbout_ForOnly(board, fields) ==
    {e \in board.evidence :
        fields = {} \/ \E c \in ClaimsAbout(board, fields) : e.id \in Own(c, board.evidence)}

EvidenceAbout(board, fields) ==
    LET claims == ClaimsAbout(board, fields) IN
    {e \in board.evidence :
        \/ fields = {}
        \/ \E c \in claims : e.id \in c.sup \cup c.con \/ c.id \in e.refs
        \/ \E k \in ConflictsAbout(board, fields) : e.id \in k.evidence}

\* _evidence_graph_edges between claims and evidence: <<claim, card, relation>>.
ClaimEdges(board, fields) ==
    LET cards == EvidenceAbout(board, fields) IN
    UNION {{<<c.id, e.id, "support">> : e \in {e \in cards : e.id \in Own(c, cards)}}
             \cup {<<c.id, e.id, "conflict">> : e \in {e \in cards : e.id \in c.con}}
           : c \in ClaimsAbout(board, fields)}
=============================================================================

----------------------- MODULE DocumentEvidenceProofs -----------------------
(***************************************************************************)
(* Theorems about DocumentEvidence, for any documents, types, fields and   *)
(* values: what is stored as documented is backed, the profile says what   *)
(* the evidence says, and the gate counts the funding only where it agrees.*)
(***************************************************************************)
EXTENDS DocumentEvidence, FiniteSetTheorems, TLAPS

-----------------------------------------------------------------------------
(* The inductive invariant.                                                *)

AllItems == Documents \X Fields \X Values

\* A document and its artifact, whatever the result stored with it.
RowsWith(result) ==
    [file : Uploadable \cup {None}, type : Types \cup {None}, counts : {"open", "yes", "no"},
     feedback : {"none", "not_helpful", "helpful", "partial_helpful"},
     status : {"absent", "uploaded", "parsed", "unsupported", "removed"},
     understanding : {"none", "queued", "processing", "completed", "failed", "parse_failed"},
     result : {result}]

Entries == [state : {"unknown", "claimed", "documented", "conflicted"},
            value : Values \cup {None}, refs : SUBSET AllItems]

Typed ==
    /\ DOMAIN docs = Documents
    /\ \A d \in Documents : docs[d] \in RowsWith(docs[d].result)
    /\ evidence \in SUBSET AllItems /\ IsFiniteSet(evidence)
    /\ profile \in [Fields -> Entries]
    /\ gate \in [Required -> {"ready", "uploaded", "missing"}]
    /\ worker \in [doc : Documents \cup {None}, at : {"idle", "parse", "understand"}, model : BOOLEAN]
    /\ behind \in BOOLEAN

\* What the worker is at is a file in progress, and nothing else is.
WorkInHand ==
    /\ worker # Idle => worker.doc \in Documents /\ docs[worker.doc].understanding = "processing"
    /\ \A d \in Documents : docs[d].understanding \in {"queued", "processing"} =>
          docs[d].file \in Uploadable /\ docs[d].status # "absent"

\* Only documents that came have evidence.
EvidenceHasDocument == \A i \in evidence : docs[DocumentOf(i)].status # "absent"

EveryResultGrounded == \A d \in Documents : docs[d].result # None => Grounded(docs[d].result)

\* A ready item of funding rests on the profile and on a document, behind or not.
ReadyFunding ==
    FundingProof \in Required /\ gate[FundingProof] = "ready" =>
        /\ \E d \in Live(docs) : /\ docs[d].type = FundingProof
                                 /\ docs[d].status = "parsed"
                                 /\ docs[d].understanding = "completed"
        /\ profile[Funding].state = "documented" /\ profile[Funding].refs # {}

IInv == /\ Typed /\ WorkInHand /\ EvidenceHasDocument
        /\ EveryResultGrounded /\ ProfileFollowsEvidence /\ ReadyFunding

-----------------------------------------------------------------------------
(* Finite sets.                                                            *)

LEMMA ImageFinite ==
    ASSUME NEW S, IsFiniteSet(S), NEW f, DOMAIN f = S, f = [x \in S |-> f[x]]
    PROVE  IsFiniteSet({f[x] : x \in S})
<1> DEFINE T == {f[x] : x \in S}
<1>1. f \in [S -> T]
  OBVIOUS
<1>2. f \in Surjection(S, T)
  BY <1>1 DEF Surjection
<1>3. QED
  BY <1>2, FS_Surjection

LEMMA ItemsOfFacts ==
    ASSUME NEW d \in Documents, NEW facts \in SUBSET Facts, IsFiniteSet(facts)
    PROVE  /\ Items(d, facts) \in SUBSET AllItems
           /\ IsFiniteSet(Items(d, facts))
           /\ \A i \in Items(d, facts) : DocumentOf(i) = d
<1> DEFINE f == [x \in facts |-> <<d, x.field, x.value>>]
<1>1. Items(d, facts) = {f[x] : x \in facts}
  BY DEF Items
<1>2. IsFiniteSet(Items(d, facts))
  <2>1. DOMAIN f = facts /\ f = [x \in facts |-> f[x]]
    OBVIOUS
  <2> HIDE DEF f
  <2>2. IsFiniteSet({f[x] : x \in facts})
    BY <2>1, ImageFinite
  <2>3. QED
    BY <1>1, <2>2
<1>3. ASSUME NEW i \in Items(d, facts) PROVE i \in AllItems /\ DocumentOf(i) = d
  <2>1. PICK x \in facts : i = <<d, x.field, x.value>>
    BY DEF Items
  <2>2. x.field \in Fields /\ x.value \in Values
    BY DEF Facts
  <2>3. QED
    BY <2>1, <2>2 DEF AllItems, DocumentOf
<1>4. QED
  BY <1>2, <1>3

LEMMA ValuesFinite ==
    ASSUME NEW items, IsFiniteSet(items)
    PROVE  IsFiniteSet(ValuesOf(items))
<1> DEFINE f == [i \in items |-> ValueOf(i)]
<1>1. ValuesOf(items) = {f[i] : i \in items}
  BY DEF ValuesOf
<1>2. DOMAIN f = items /\ f = [i \in items |-> f[i]]
  OBVIOUS
<1> HIDE DEF f
<1>3. IsFiniteSet({f[i] : i \in items})
  BY <1>2, ImageFinite
<1>4. QED
  BY <1>1, <1>3

\* More than one value is two of them.
LEMMA TwoValues ==
    ASSUME NEW V, IsFiniteSet(V)
    PROVE  /\ Cardinality(V) > 1 => \A v : \E w \in V : w # v
           /\ ~(Cardinality(V) > 1) /\ V # {} => Cardinality(V) = 1 /\ \E v : V = {v}
<1>1. Cardinality(V) \in Nat
  BY FS_CardinalityType
<1>2. ASSUME Cardinality(V) > 1, NEW v PROVE \E w \in V : w # v
  <2>1. V # {} /\ V # {v}
    BY <1>1, <1>2, FS_EmptySet, FS_Singleton
  <2>2. QED
    BY <2>1
<1>3. ASSUME ~(Cardinality(V) > 1), V # {} PROVE Cardinality(V) = 1 /\ \E v : V = {v}
  <2>1. Cardinality(V) # 0
    BY <1>3, FS_EmptySet
  <2>2. Cardinality(V) = 1
    BY <1>1, <1>3, <2>1
  <2>3. QED
    BY <2>2, FS_Singleton
<1>4. QED
  BY <1>2, <1>3

-----------------------------------------------------------------------------
(* The profile, field by field.                                            *)

\* What the profile says of a field whose live evidence is items.
Follows(entry, items) ==
    /\ items = {} => entry.state \in {"unknown", "claimed"}
    /\ Cardinality(ValuesOf(items)) > 1 => entry.state = "conflicted"
    /\ entry.state = "documented" => ValuesOf(items) = {entry.value}
    /\ entry.refs = items

\* A field that is applied again says what its evidence says; a claim stands, or
\* is in dispute with an item that says otherwise.
LEMMA FieldFollows ==
    ASSUME NEW old \in Entries, NEW items \in SUBSET AllItems, IsFiniteSet(items)
    PROVE  /\ FieldAfter(old, items) \in Entries
           /\ Follows(FieldAfter(old, items), items)
           /\ old.state = "claimed" =>
                \/ FieldAfter(old, items).value = old.value
                \/ /\ FieldAfter(old, items).state = "conflicted"
                   /\ \E i \in items : ValueOf(i) # old.value
<1> DEFINE V == ValuesOf(items)
<1>1. IsFiniteSet(V)
  BY ValuesFinite
<1>2. V \subseteq Values
  BY DEF ValuesOf, ValueOf, AllItems
<1>3. items = {} <=> V = {}
  BY DEF ValuesOf
<1>4. \A v \in V : \E i \in items : ValueOf(i) = v
  BY DEF ValuesOf
<1>5. CASE items = {}
  <2>1. V = {} /\ Cardinality(V) = 0
    BY <1>5, <1>3, FS_EmptySet
  <2>2. CASE old.state = "claimed"
    <3> DEFINE e == [old EXCEPT !.refs = {}]
    <3>1. FieldAfter(old, items) = e
      BY <1>5, <2>2 DEF FieldAfter
    <3>2. e \in Entries /\ e.state = "claimed" /\ e.value = old.value /\ e.refs = {}
      BY <2>2 DEF Entries
    <3> HIDE DEF e
    <3>3. Follows(e, items)
      BY <1>5, <2>1, <3>2 DEF Follows
    <3>4. QED
      BY <3>1, <3>2, <3>3
  <2>3. CASE old.state # "claimed"
    <3>1. FieldAfter(old, items) = Unknown
      BY <1>5, <2>3 DEF FieldAfter
    <3>2. Unknown \in Entries /\ Unknown.state = "unknown" /\ Unknown.refs = {}
      BY DEF Entries, Unknown
    <3>3. Follows(Unknown, items)
      BY <1>5, <2>1, <3>2 DEF Follows
    <3>4. QED
      BY <3>1, <3>2, <3>3, <2>3
  <2>4. QED
    BY <2>2, <2>3
<1>6. CASE items # {} /\ (Cardinality(V) > 1 \/ (old.state = "claimed" /\ old.value \notin V))
  <2> DEFINE e == [state |-> "conflicted", value |-> None, refs |-> items]
  <2>1. FieldAfter(old, items) = e
    BY <1>6 DEF FieldAfter
  <2>2. e \in Entries /\ e.state = "conflicted" /\ e.refs = items
    BY DEF Entries
  <2> HIDE DEF e
  <2>3. Follows(e, items)
    BY <1>6, <2>2 DEF Follows
  <2>4. \E v \in V : v # old.value
    <3>1. CASE Cardinality(V) > 1
      BY <3>1, <1>1, TwoValues
    <3>2. CASE old.value \notin V
      BY <3>2, <1>3, <1>6
    <3>3. QED
      BY <3>1, <3>2, <1>6
  <2>5. QED
    BY <2>1, <2>2, <2>3, <2>4, <1>4
<1>7. CASE items # {} /\ ~(Cardinality(V) > 1) /\ (old.state = "claimed" => old.value \in V)
  <2> DEFINE e == [state |-> "documented", value |-> CHOOSE v \in V : TRUE, refs |-> items]
  <2>1. FieldAfter(old, items) = e
    BY <1>7 DEF FieldAfter
  <2>2. PICK v : V = {v}
    BY <1>7, <1>1, <1>3, TwoValues
  <2>3. (CHOOSE w \in V : TRUE) = v
    BY <2>2
  <2>4. e.value = v /\ e.state = "documented" /\ e.refs = items
    BY <2>3
  <2>5. e \in Entries
    BY <2>2, <2>3, <1>2 DEF Entries
  <2> HIDE DEF e
  <2>6. Follows(e, items)
    BY <1>7, <2>2, <2>4 DEF Follows
  <2>7. old.state = "claimed" => old.value = v
    BY <1>7, <2>2
  <2>8. QED
    BY <2>1, <2>4, <2>5, <2>6, <2>7
<1>8. QED
  BY <1>5, <1>6, <1>7

-----------------------------------------------------------------------------
(* What the steps have in common.                                          *)

\* Every claim in old is still there, or in dispute with an item.
ClaimsKept(old) ==
    \A f \in Fields : old[f].state = "claimed" =>
        \/ profile'[f].value = old[f].value
        \/ /\ profile'[f].state = "conflicted"
           /\ \E i \in About(f, LiveItems(docs', evidence')) : ValueOf(i) # old[f].value

DocsTyped == DOMAIN docs = Documents /\ \A d \in Documents : docs[d] \in RowsWith(docs[d].result)
EvidenceTyped == evidence \in SUBSET AllItems /\ IsFiniteSet(evidence)

LEMMA ProfileApplied ==
    ASSUME NEW old \in [Fields -> Entries], NEW ds,
           NEW ev \in SUBSET AllItems, IsFiniteSet(ev), NEW p, p = ProfileAfter(old, ds, ev)
    PROVE  /\ p \in [Fields -> Entries]
           /\ \A f \in Fields :
                /\ Follows(p[f], About(f, LiveItems(ds, ev)))
                /\ old[f].state = "claimed" =>
                     \/ p[f].value = old[f].value
                     \/ /\ p[f].state = "conflicted"
                        /\ \E i \in About(f, LiveItems(ds, ev)) : ValueOf(i) # old[f].value
<1>1. ASSUME NEW f \in Fields
      PROVE  /\ p[f] \in Entries
             /\ Follows(p[f], About(f, LiveItems(ds, ev)))
             /\ old[f].state = "claimed" =>
                  \/ p[f].value = old[f].value
                  \/ /\ p[f].state = "conflicted"
                     /\ \E i \in About(f, LiveItems(ds, ev)) : ValueOf(i) # old[f].value
  <2> DEFINE items == About(f, LiveItems(ds, ev))
  <2>1. items \in SUBSET ev
    BY DEF About, LiveItems
  <2>2. items \in SUBSET AllItems /\ IsFiniteSet(items)
    BY <2>1, FS_Subset
  <2>3. p[f] = FieldAfter(old[f], items)
    BY DEF ProfileAfter
  <2>4. old[f] \in Entries
    OBVIOUS
  <2> HIDE DEF items
  <2>5. /\ FieldAfter(old[f], items) \in Entries
        /\ Follows(FieldAfter(old[f], items), items)
        /\ old[f].state = "claimed" =>
             \/ FieldAfter(old[f], items).value = old[f].value
             \/ /\ FieldAfter(old[f], items).state = "conflicted"
                /\ \E i \in items : ValueOf(i) # old[f].value
    BY <2>2, <2>4, FieldFollows
  <2>6. QED
    BY <2>3, <2>5 DEF items
<1>2. p = [f \in Fields |-> p[f]]
  BY DEF ProfileAfter
<1>3. QED
  BY <1>1, <1>2

LEMMA GateApplied ==
    ASSUME NEW ds, NEW p, NEW g, g = GateAfter(ds, p)
    PROVE  /\ g \in [Required -> {"ready", "uploaded", "missing"}]
           /\ FundingProof \in Required /\ g[FundingProof] = "ready" =>
                /\ \E d \in Live(ds) : /\ ds[d].type = FundingProof
                                       /\ ds[d].status = "parsed"
                                       /\ ds[d].understanding = "completed"
                /\ p[Funding].state = "documented" /\ p[Funding].refs # {}
<1>1. g \in [Required -> {"ready", "uploaded", "missing"}]
  BY DEF GateAfter
<1>2. FundingProof \in Required /\ g[FundingProof] = "ready" => Ready(FundingProof, ds, p)
  BY DEF GateAfter
<1>3. QED
  BY <1>1, <1>2 DEF Ready, Matching

\* Profile and gate, computed again.
LEMMA Recomputing ==
    ASSUME NEW old \in [Fields -> Entries], EvidenceTyped', Recomputed(old)
    PROVE  /\ profile' \in [Fields -> Entries]
           /\ gate' \in [Required -> {"ready", "uploaded", "missing"}]
           /\ behind' \in BOOLEAN
           /\ ProfileFollowsEvidence' /\ ReadyFunding' /\ ClaimsKept(old)
<1>1. /\ profile' = ProfileAfter(old, docs', evidence')
      /\ gate' = GateAfter(docs', profile')
      /\ behind' = FALSE
  BY DEF Recomputed
<1>2. /\ profile' \in [Fields -> Entries]
      /\ \A f \in Fields :
           /\ Follows(profile'[f], About(f, LiveItems(docs', evidence')))
           /\ old[f].state = "claimed" =>
                \/ profile'[f].value = old[f].value
                \/ /\ profile'[f].state = "conflicted"
                   /\ \E i \in About(f, LiveItems(docs', evidence')) : ValueOf(i) # old[f].value
  BY <1>1, ProfileApplied DEF EvidenceTyped
<1>3. ProfileFollowsEvidence'
  BY <1>2 DEF ProfileFollowsEvidence, Follows
<1>4. gate' \in [Required -> {"ready", "uploaded", "missing"}] /\ ReadyFunding'
  BY <1>1, GateApplied DEF ReadyFunding
<1>5. QED
  BY <1>1, <1>2, <1>3, <1>4 DEF ClaimsKept

\* Profile and gate, left as they are.
LEMMA ProfileStays ==
    ASSUME ProfileFollowsEvidence, profile' = profile, behind' = behind \/ behind',
           ~behind' => LiveItems(docs', evidence') = LiveItems(docs, evidence)
    PROVE  ProfileFollowsEvidence' /\ ClaimsKept(profile)
BY DEF ProfileFollowsEvidence, ClaimsKept

LEMMA ReadyStays ==
    ASSUME ReadyFunding, gate' = gate, profile' = profile,
           \A e \in Documents :
              docs[e].status = "parsed" /\ docs[e].understanding = "completed" => docs'[e] = docs[e]
    PROVE  ReadyFunding'
BY DEF ReadyFunding, Live

\* One document changes.
LEMMA DocSet ==
    ASSUME DocsTyped, EveryResultGrounded, NEW d \in Documents, NEW row,
           row \in RowsWith(row.result), row.result # None => Grounded(row.result),
           docs' = [docs EXCEPT ![d] = row]
    PROVE  /\ DocsTyped' /\ EveryResultGrounded'
           /\ docs'[d] = row
           /\ \A e \in Documents : e # d => docs'[e] = docs[e]
<1>1. docs'[d] = row /\ \A e \in Documents : e # d => docs'[e] = docs[e]
  BY DEF DocsTyped
<1>2. DOMAIN docs' = Documents
  BY DEF DocsTyped
<1>3. QED
  BY <1>1, <1>2 DEF DocsTyped, EveryResultGrounded

-----------------------------------------------------------------------------
(* Results are backed.                                                     *)

LEMMA ItemsGrounded ==
    ASSUME NEW items
    PROVE  Grounded(ResultOfItems(items))
<1> DEFINE result == ResultOfItems(items)
           ids == {c.id : c \in result.cards}
<1>1. ids = items
  <2>1. result.cards = {[id |-> i, refs |-> {i}] : i \in items}
    BY DEF ResultOfItems
  <2>2. ASSUME NEW i \in items PROVE i \in ids
    <3>1. [id |-> i, refs |-> {i}] \in result.cards /\ [id |-> i, refs |-> {i}].id = i
      BY <2>1
    <3> HIDE DEF result
    <3>2. QED
      BY <3>1
  <2>3. \A c \in result.cards : c.id \in items
    BY <2>1
  <2>4. QED
    BY <2>2, <2>3
<1>2. ASSUME NEW k \in result.claims
      PROVE  k.id \in items /\ k.status = "documented" /\ k.support = {k.id} /\ k.against = {}
  BY <1>2 DEF ResultOfItems
<1>3. ASSUME NEW c \in result.cards
      PROVE  c.refs \subseteq {k.id : k \in result.claims}
  <2>1. PICK i \in items : c = [id |-> i, refs |-> {i}]
    BY <1>3 DEF ResultOfItems
  <2> DEFINE k == [id |-> i, field |-> FieldOf(i), status |-> "documented",
                   support |-> {i}, against |-> {}]
  <2>2. k \in result.claims /\ k.id = i
    BY DEF ResultOfItems
  <2>3. QED
    BY <2>1, <2>2
<1> HIDE DEF result
<1>4. QED
  BY <1>1, <1>2, <1>3 DEF Grounded, result

LEMMA AnswerGrounded ==
    ASSUME NEW answer
    PROVE  Grounded(ResultOfAnswer(answer))
<1> DEFINE ids == {c.id : c \in answer.cards}
           claims == {ParsedClaim(k, ids) : k \in answer.claims}
           known == {k.id : k \in claims}
           result == ResultOfAnswer(answer)
<1>1. CASE answer.cards = {}
  <2>1. /\ result.cards = {[id |-> k.id, refs |-> {k.id}] : k \in claims}
        /\ result.claims = {[k EXCEPT !.status = "documented", !.support = {k.id}] : k \in claims}
    BY <1>1 DEF ResultOfAnswer
  <2>2. ASSUME NEW k \in claims
        PROVE  \E id, field, status, support :
                 k = [id |-> id, field |-> field, status |-> status,
                      support |-> support, against |-> {}]
    <3>1. PICK told \in answer.claims : k = ParsedClaim(told, ids)
      OBVIOUS
    <3>2. told.against \cap ids = {}
      BY <1>1
    <3>3. k = [id |-> told.id, field |-> told.field, status |-> StatusOfClaim(told, ids),
               support |-> told.support \cap ids, against |-> {}]
      BY <3>1, <3>2 DEF ParsedClaim
    <3> HIDE DEF claims, ids
    <3>4. QED
      BY <3>3
  <2> HIDE DEF claims
  <2>3. ASSUME NEW k \in claims, NEW j, j = [k EXCEPT !.status = "documented", !.support = {k.id}]
        PROVE  j.id = k.id /\ j.status = "documented" /\ j.support = {k.id} /\ j.against = {}
    <3>1. PICK id, field, status, support :
            k = [id |-> id, field |-> field, status |-> status, support |-> support, against |-> {}]
      BY <2>2
    <3>2. QED
      BY <2>3, <3>1
  <2> HIDE DEF result
  <2>4. ASSUME NEW j \in result.claims
        PROVE  /\ j.status = "documented" /\ j.support = {j.id} /\ j.against = {}
               /\ j.id \in {c.id : c \in result.cards}
    <3>1. PICK k \in claims : j = [k EXCEPT !.status = "documented", !.support = {k.id}]
      BY <2>1
    <3>2. j.id = k.id /\ j.status = "documented" /\ j.support = {k.id} /\ j.against = {}
      BY <3>1, <2>3
    <3>3. [id |-> k.id, refs |-> {k.id}] \in result.cards
      BY <2>1
    <3>4. QED
      BY <3>2, <3>3
  <2>5. ASSUME NEW c \in result.cards
        PROVE  c.refs \subseteq {j.id : j \in result.claims}
    <3>1. PICK k \in claims : c = [id |-> k.id, refs |-> {k.id}]
      BY <2>1
    <3> DEFINE j == [k EXCEPT !.status = "documented", !.support = {k.id}]
    <3>2. j \in result.claims /\ j.id = k.id
      BY <2>1, <2>3
    <3>3. QED
      BY <3>1, <3>2
  <2>6. QED
    BY <2>4, <2>5 DEF Grounded, result
<1>2. CASE answer.cards # {}
  <2>1. result.cards = {ParsedCard(c, known) : c \in answer.cards} /\ result.claims = claims
    BY <1>2 DEF ResultOfAnswer
  <2> HIDE DEF known
  <2>2. {c.id : c \in result.cards} = ids
    <3>1. \A c \in answer.cards : ParsedCard(c, known) \in result.cards /\ ParsedCard(c, known).id = c.id
      BY <2>1 DEF ParsedCard
    <3>2. \A c \in result.cards : \E a \in answer.cards : c.id = a.id
      BY <2>1 DEF ParsedCard
    <3> HIDE DEF result
    <3>3. QED
      BY <3>1, <3>2
  <2>3. ASSUME NEW k \in claims
        PROVE  /\ k.status = "documented" => k.support # {}
               /\ k.status = "contradicted" => k.against # {}
               /\ k.support \cup k.against \subseteq ids
    <3>1. PICK told \in answer.claims : k = ParsedClaim(told, ids)
      OBVIOUS
    <3>2. /\ k.status = StatusOfClaim(told, ids)
          /\ k.support = told.support \cap ids /\ k.against = told.against \cap ids
      BY <3>1 DEF ParsedClaim
    <3> HIDE DEF ids, claims
    <3>3. QED
      BY <3>2 DEF StatusOfClaim
  <2>4. ASSUME NEW c \in result.cards PROVE c.refs \subseteq known
    <3>1. PICK a \in answer.cards : c = ParsedCard(a, known)
      BY <2>1
    <3>2. c.refs = a.refs \cap known
      BY <3>1 DEF ParsedCard
    <3>3. QED
      BY <3>2
  <2> HIDE DEF ids, claims, result
  <2>5. QED
    BY <2>1, <2>2, <2>3, <2>4 DEF Grounded, result, known
<1>3. QED
  BY <1>1, <1>2

-----------------------------------------------------------------------------
(* The steps.                                                              *)

LEMMA LiveKept ==
    ASSUME NEW ds, NEW es, NEW ev,
           \A i \in ev : DocumentOf(i) \in Live(ds) <=> DocumentOf(i) \in Live(es)
    PROVE  LiveItems(ds, ev) = LiveItems(es, ev)
BY DEF LiveItems

\* A file arrives in a place of its own, of which there is no evidence yet.
LEMMA UploadInv ==
    ASSUME IInv, NEW d \in Documents, Upload(d)
    PROVE  IInv' /\ ClaimsKept(profile)
<1>1. PICK file \in Uploadable, declared \in Types \cup {None}, mentioned \in SUBSET Types,
           focus \in Types \cup {None} :
         docs' = [docs EXCEPT ![d] =
             [Absent EXCEPT !.file = file, !.type = CaseType(HintOf(declared, mentioned)),
                            !.counts = Counts(HintOf(declared, mentioned), Required),
                            !.feedback = Feedback(HintOf(declared, mentioned), focus),
                            !.status = "uploaded", !.understanding = "queued"]]
  BY DEF Upload
<1> DEFINE hint == HintOf(declared, mentioned)
           row == [Absent EXCEPT !.file = file, !.type = CaseType(hint),
                                 !.counts = Counts(hint, Required),
                                 !.feedback = Feedback(hint, focus),
                                 !.status = "uploaded", !.understanding = "queued"]
<1>2. /\ docs' = [docs EXCEPT ![d] = row] /\ docs[d].status = "absent"
      /\ gate' = GateAfter(docs', profile)
      /\ evidence' = evidence /\ profile' = profile /\ worker' = worker /\ behind' = behind
  BY <1>1 DEF Upload
<1>3. hint \in Types \cup {None}
  <2>1. Cardinality(mentioned) = 1 => mentioned # {}
    BY FS_EmptySet
  <2>2. QED
    BY <2>1 DEF HintOf
<1> HIDE DEF hint
<1>4. CaseType(hint) \in Types \cup {None}
  <2>1. Assessment(hint).candidates = {hint} \cap Assessable
    BY DEF Assessment, Heuristic
  <2>2. QED
    BY <1>3, <2>1, FieldsAssumption DEF CaseType
<1>5. /\ Counts(hint, Required) \in {"open", "yes", "no"}
      /\ Feedback(hint, focus) \in {"none", "not_helpful", "helpful", "partial_helpful"}
  BY DEF Counts, Feedback
<1>6. row \in RowsWith(row.result) /\ row.result = None /\ row.status = "uploaded"
      /\ row.understanding = "queued" /\ row.file = file
  BY <1>4, <1>5 DEF Absent, RowsWith
<1> HIDE DEF row
<1>7. /\ DocsTyped' /\ EveryResultGrounded'
      /\ docs'[d] = row
      /\ \A e \in Documents : e # d => docs'[e] = docs[e]
  BY <1>2, <1>6, DocSet DEF IInv, Typed, DocsTyped
<1>8. \A i \in evidence : DocumentOf(i) \in Documents /\ DocumentOf(i) # d
  BY <1>2 DEF IInv, Typed, EvidenceHasDocument, AllItems, DocumentOf
<1>9. LiveItems(docs', evidence') = LiveItems(docs, evidence)
  <2>1. \A i \in evidence : DocumentOf(i) \in Live(docs') <=> DocumentOf(i) \in Live(docs)
    BY <1>7, <1>8 DEF Live
  <2>2. QED
    BY <1>2, <2>1, LiveKept
<1>10. ProfileFollowsEvidence' /\ ClaimsKept(profile)
  BY <1>2, <1>9, ProfileStays DEF IInv
<1>11. gate' \in [Required -> {"ready", "uploaded", "missing"}] /\ ReadyFunding'
  <2>1. gate' = GateAfter(docs', profile')
    BY <1>2
  <2>2. QED
    BY <2>1, GateApplied DEF ReadyFunding
<1>12. WorkInHand'
  BY <1>2, <1>6, <1>7 DEF IInv, WorkInHand
<1>13. EvidenceHasDocument'
  BY <1>2, <1>7, <1>8 DEF IInv, EvidenceHasDocument
<1>14. Typed'
  BY <1>2, <1>7, <1>11 DEF IInv, Typed, DocsTyped
<1>15. QED
  BY <1>7, <1>10, <1>11, <1>12, <1>13, <1>14 DEF IInv

\* A change that leaves the evidence, the profile and the gate alone, and touches
\* only how far a document is understood that was not finished.
LEMMA QuietInv ==
    ASSUME IInv, NEW d \in Documents, NEW u,
           u \in {"none", "queued", "processing", "completed", "failed", "parse_failed"},
           docs' = [docs EXCEPT ![d].understanding = u],
           docs[d].understanding \in {"queued", "processing"},
           UNCHANGED <<evidence, profile, gate, behind>>,
           worker' \in [doc : Documents \cup {None}, at : {"idle", "parse", "understand"}, model : BOOLEAN],
           worker' # Idle => worker'.doc = d /\ u = "processing"
    PROVE  IInv' /\ ClaimsKept(profile)
<1> DEFINE row == [docs[d] EXCEPT !.understanding = u]
<1>1. docs[d] \in RowsWith(docs[d].result) /\ docs[d].file \in Uploadable
  BY DEF IInv, Typed, WorkInHand
<1>2. /\ row \in RowsWith(row.result) /\ row.result = docs[d].result /\ row.status = docs[d].status
      /\ row.understanding = u /\ row.file = docs[d].file
  BY <1>1 DEF RowsWith
<1>3. docs' = [docs EXCEPT ![d] = row]
  OBVIOUS
<1> HIDE DEF row
<1>4. row.result # None => Grounded(row.result)
  BY <1>2 DEF IInv, EveryResultGrounded
<1>5. /\ DocsTyped' /\ EveryResultGrounded'
      /\ docs'[d] = row
      /\ \A e \in Documents : e # d => docs'[e] = docs[e]
  BY <1>2, <1>3, <1>4, DocSet DEF IInv, Typed, DocsTyped
<1>6. Live(docs') = Live(docs)
  BY <1>2, <1>5 DEF Live
<1>7. ProfileFollowsEvidence' /\ ClaimsKept(profile)
  BY <1>6, ProfileStays DEF IInv, LiveItems
<1>8. ReadyFunding'
  BY <1>5, ReadyStays DEF IInv
<1>9. WorkInHand'
  BY <1>1, <1>2, <1>5 DEF IInv, WorkInHand
<1>10. EvidenceHasDocument'
  BY <1>2, <1>5 DEF IInv, EvidenceHasDocument, Typed, AllItems, DocumentOf
<1>11. Typed'
  BY <1>5 DEF IInv, Typed, DocsTyped
<1>12. QED
  BY <1>5, <1>7, <1>8, <1>9, <1>10, <1>11 DEF IInv

LEMMA TakeInv ==
    ASSUME IInv, NEW d \in Documents, Take(d)
    PROVE  IInv' /\ ClaimsKept(profile)
<1>1. PICK model \in BOOLEAN : worker' = [doc |-> d, at |-> "parse", model |-> model]
  BY DEF Take
<1>2. QED
  BY <1>1, QuietInv DEF Take

\* Who is at work, and on what.
LEMMA Working ==
    ASSUME IInv, worker.at # "idle" \/ worker # Idle
    PROVE  /\ worker # Idle /\ worker.doc \in Documents
           /\ docs[worker.doc].understanding = "processing"
           /\ docs[worker.doc].file \in Uploadable
           /\ docs[worker.doc] \in RowsWith(docs[worker.doc].result)
<1>1. worker # Idle
  BY DEF Idle
<1>2. QED
  BY <1>1 DEF IInv, WorkInHand, Typed

LEMMA IdleTyped ==
    Idle \in [doc : Documents \cup {None}, at : {"idle", "parse", "understand"}, model : BOOLEAN]
BY DEF Idle

LEMMA FailInv ==
    ASSUME IInv, Fail
    PROVE  IInv' /\ ClaimsKept(profile)
<1> DEFINE d == worker.doc
<1>1. worker # Idle
  BY DEF Fail
<1>2. d \in Documents /\ docs[d].understanding = "processing"
  BY <1>1, Working
<1>3. /\ docs' = [docs EXCEPT ![d].understanding = "parse_failed"] /\ worker' = Idle
      /\ UNCHANGED <<evidence, profile, gate, behind>>
  BY DEF Fail
<1> HIDE DEF d
<1>4. QED
  BY <1>2, <1>3, IdleTyped, QuietInv

\* The worker gives up its document, and nothing else changes.
LEMMA LeaveInv ==
    ASSUME IInv, worker' = Idle, UNCHANGED <<docs, evidence, profile, gate, behind>>
    PROVE  IInv' /\ ClaimsKept(profile)
<1>1. Typed'
  BY IdleTyped DEF IInv, Typed
<1>2. WorkInHand' /\ EvidenceHasDocument' /\ EveryResultGrounded'
  BY DEF IInv, WorkInHand, EvidenceHasDocument, EveryResultGrounded
<1>3. ProfileFollowsEvidence' /\ ClaimsKept(profile)
  BY ProfileStays DEF IInv
<1>4. ReadyFunding'
  BY DEF IInv, ReadyFunding, Live
<1>5. QED
  BY <1>1, <1>2, <1>3, <1>4 DEF IInv

LEMMA ExtractedFacts ==
    ASSUME NEW type \in Types \cup {None}, NEW file \in Uploadable, NEW model \in BOOLEAN,
           NEW reply \in Extractions \cup {None}
    PROVE  Extracted(type, file, model, reply) \in SUBSET Facts
           /\ IsFiniteSet(Extracted(type, file, model, reply))
<1>1. ASSUME NEW facts \in SUBSET Facts, IsFiniteSet(facts)
      PROVE  /\ Stated(type, facts, file.keyword) \in SUBSET Facts
             /\ IsFiniteSet(Stated(type, facts, file.keyword))
  <2>1. Stated(type, facts, file.keyword) \in SUBSET facts
    BY DEF Stated
  <2>2. QED
    BY <1>1, <2>1, FS_Subset
<1>2. file.facts \in SUBSET Facts /\ IsFiniteSet(file.facts)
  BY FactsFinite DEF Files
<1>3. CASE AskedToExtract(type, file, model) /\ reply # None
  <2>1. /\ reply.fields \in SUBSET Facts /\ IsFiniteSet(reply.fields)
        /\ reply.text \in SUBSET Facts /\ IsFiniteSet(reply.text)
    BY <1>3, FactsFinite
  <2>2. QED
    BY <1>1, <1>3, <2>1 DEF Extracted
<1>4. CASE ~(AskedToExtract(type, file, model) /\ reply # None)
  BY <1>1, <1>2, <1>4, FS_EmptySet DEF Extracted
<1>5. QED
  BY <1>3, <1>4

\* The items of one document, replaced.
LEMMA ReplacedItems ==
    ASSUME IInv, NEW d \in Documents, NEW items \in SUBSET AllItems, IsFiniteSet(items),
           \A i \in items : DocumentOf(i) = d,
           evidence' = Replaced(d, items),
           docs'[d].status # "absent",
           \A e \in Documents : e # d => docs'[e] = docs[e]
    PROVE  EvidenceTyped' /\ EvidenceHasDocument'
<1> DEFINE kept == {i \in evidence : DocumentOf(i) # d}
<1>1. kept \in SUBSET evidence
  OBVIOUS
<1>2. IsFiniteSet(kept) /\ kept \in SUBSET AllItems
  BY <1>1, FS_Subset DEF IInv, Typed
<1>3. evidence' = kept \cup items
  BY DEF Replaced
<1>4. EvidenceTyped'
  BY <1>2, <1>3, FS_Union, ZenonT(30) DEF EvidenceTyped
<1>5. \A i \in evidence' : DocumentOf(i) = d \/ (i \in evidence /\ DocumentOf(i) # d)
  BY <1>3
<1>6. \A i \in evidence : DocumentOf(i) \in Documents
  BY DEF IInv, Typed, AllItems, DocumentOf
<1>7. EvidenceHasDocument'
  BY <1>5, <1>6 DEF IInv, EvidenceHasDocument
<1>8. QED
  BY <1>4, <1>7

LEMMA ParseInv ==
    ASSUME IInv, NEW d \in Documents, Parse(d)
    PROVE  IInv' /\ ClaimsKept(profile)
<1>1. /\ worker.doc = d /\ worker.at = "parse" /\ docs[d].status # "removed"
      /\ docs' = [docs EXCEPT ![d] = NewArtifact(docs[d])]
      /\ worker' = [worker EXCEPT !.at = "understand"]
      /\ behind' = TRUE /\ profile' = profile /\ gate' = gate
  BY DEF Parse
<1>2. /\ docs[d].understanding = "processing" /\ docs[d].file \in Uploadable
      /\ docs[d] \in RowsWith(docs[d].result)
  BY <1>1, Working
<1> DEFINE row == NewArtifact(docs[d])
<1>3. /\ row \in RowsWith(row.result) /\ row.result = None
      /\ row.understanding = "processing" /\ row.file = docs[d].file
      /\ row.status \in {"parsed", "unsupported"}
  BY <1>2 DEF NewArtifact, RowsWith
<1> HIDE DEF row
<1>4. /\ DocsTyped' /\ EveryResultGrounded'
      /\ docs'[d] = row
      /\ \A e \in Documents : e # d => docs'[e] = docs[e]
  BY <1>1, <1>3, DocSet DEF IInv, Typed, DocsTyped, row
<1>5. PICK reply \in Extractions \cup {None} :
        evidence' = Replaced(d, Items(d, Extracted(docs[d].type, docs[d].file, worker.model, reply)))
  BY DEF Parse
<1> DEFINE facts == Extracted(docs[d].type, docs[d].file, worker.model, reply)
<1>6. facts \in SUBSET Facts /\ IsFiniteSet(facts)
  <2>1. docs[d].type \in Types \cup {None} /\ worker.model \in BOOLEAN
    BY <1>2 DEF RowsWith, IInv, Typed
  <2>2. QED
    BY <1>2, <2>1, ExtractedFacts
<1>7. evidence' = Replaced(d, Items(d, facts))
  BY <1>5
<1> HIDE DEF facts
<1>8. EvidenceTyped' /\ EvidenceHasDocument'
  BY <1>3, <1>4, <1>6, <1>7, ItemsOfFacts, ReplacedItems
<1>9. ProfileFollowsEvidence' /\ ClaimsKept(profile)
  BY <1>1 DEF ProfileFollowsEvidence, ClaimsKept
<1>10. ReadyFunding'
  BY <1>1, <1>2, <1>4, ReadyStays DEF IInv
<1>11. worker' \in [doc : Documents \cup {None}, at : {"idle", "parse", "understand"}, model : BOOLEAN]
       /\ worker'.doc = d
  BY <1>1 DEF IInv, Typed
<1>12. WorkInHand'
  BY <1>2, <1>3, <1>4, <1>11 DEF IInv, WorkInHand
<1>13. Typed'
  BY <1>1, <1>4, <1>8, <1>11 DEF IInv, Typed, DocsTyped, EvidenceTyped
<1>14. QED
  BY <1>4, <1>8, <1>9, <1>10, <1>12, <1>13 DEF IInv

\* A document is understood, or is not, and what rests on the evidence is
\* computed again.
LEMMA UnderstoodInv ==
    ASSUME IInv, NEW d \in Documents, docs[d].status # "absent",
           NEW u \in {"completed", "failed"}, NEW result,
           result # None => Grounded(result), Understood(d, u, result)
    PROVE  IInv' /\ ClaimsKept(profile)
<1> DEFINE row == [docs[d] EXCEPT !.understanding = u, !.result = result]
<1>1. /\ docs' = [docs EXCEPT ![d] = row] /\ worker' = Idle /\ evidence' = evidence
      /\ Recomputed(profile)
  BY DEF Understood
<1>2. docs[d] \in RowsWith(docs[d].result)
  BY DEF IInv, Typed
<1>3. /\ row \in RowsWith(row.result) /\ row.result = result /\ row.status = docs[d].status
      /\ row.understanding = u
  BY <1>2 DEF RowsWith
<1> HIDE DEF row
<1>4. /\ DocsTyped' /\ EveryResultGrounded'
      /\ docs'[d] = row
      /\ \A e \in Documents : e # d => docs'[e] = docs[e]
  BY <1>1, <1>3, DocSet DEF IInv, Typed, DocsTyped
<1>5. EvidenceTyped'
  BY <1>1 DEF IInv, Typed, EvidenceTyped
<1>6. profile \in [Fields -> Entries]
  BY DEF IInv, Typed
<1>7. /\ profile' \in [Fields -> Entries]
      /\ gate' \in [Required -> {"ready", "uploaded", "missing"}]
      /\ behind' \in BOOLEAN
      /\ ProfileFollowsEvidence' /\ ReadyFunding' /\ ClaimsKept(profile)
  BY <1>1, <1>5, <1>6, Recomputing
<1>8. WorkInHand'
  BY <1>1, <1>3, <1>4 DEF IInv, WorkInHand
<1>9. EvidenceHasDocument'
  BY <1>1, <1>3, <1>4 DEF IInv, EvidenceHasDocument, Typed, AllItems, DocumentOf
<1>10. Typed'
  BY <1>1, <1>4, <1>5, <1>7, IdleTyped DEF Typed, DocsTyped, EvidenceTyped
<1>11. QED
  BY <1>4, <1>7, <1>8, <1>9, <1>10 DEF IInv

LEMMA UnderstandInv ==
    ASSUME IInv, NEW d \in Documents, Understand(d)
    PROVE  IInv' /\ ClaimsKept(profile)
<1>1. worker.doc = d /\ worker.at = "understand"
  BY DEF Understand
<1>2. docs[d].status # "absent"
  BY <1>1, Working DEF IInv, WorkInHand
<1>3. docs[d].result # None => Grounded(docs[d].result)
  BY DEF IInv, EveryResultGrounded
<1>4. \/ Understood(d, "completed", ResultOfItems({i \in evidence : DocumentOf(i) = d}))
      \/ \E answer \in Answers : Understood(d, "completed", ResultOfAnswer(answer))
      \/ Understood(d, "failed", docs[d].result)
  BY DEF Understand
<1>5. QED
  BY <1>2, <1>3, <1>4, ItemsGrounded, AnswerGrounded, UnderstoodInv

LEMMA RemoveInv ==
    ASSUME IInv, NEW d \in Documents, Remove(d)
    PROVE  IInv' /\ ClaimsKept(profile)
<1> DEFINE row == [docs[d] EXCEPT !.status = "removed"]
<1>1. /\ docs' = [docs EXCEPT ![d] = row] /\ worker' = worker /\ evidence' = evidence
      /\ Recomputed(profile)
  BY DEF Remove
<1>2. docs[d] \in RowsWith(docs[d].result) /\ (docs[d].result # None => Grounded(docs[d].result))
  BY DEF IInv, Typed, EveryResultGrounded
<1>3. /\ row \in RowsWith(row.result) /\ row.result = docs[d].result /\ row.status = "removed"
      /\ row.understanding = docs[d].understanding /\ row.file = docs[d].file
  BY <1>2 DEF RowsWith
<1> HIDE DEF row
<1>4. /\ DocsTyped' /\ EveryResultGrounded'
      /\ docs'[d] = row
      /\ \A e \in Documents : e # d => docs'[e] = docs[e]
  BY <1>1, <1>2, <1>3, DocSet DEF IInv, Typed, DocsTyped
<1>5. EvidenceTyped'
  BY <1>1 DEF IInv, Typed, EvidenceTyped
<1>6. profile \in [Fields -> Entries]
  BY DEF IInv, Typed
<1>7. /\ profile' \in [Fields -> Entries]
      /\ gate' \in [Required -> {"ready", "uploaded", "missing"}]
      /\ behind' \in BOOLEAN
      /\ ProfileFollowsEvidence' /\ ReadyFunding' /\ ClaimsKept(profile)
  BY <1>1, <1>5, <1>6, Recomputing
<1>8. WorkInHand'
  BY <1>1, <1>3, <1>4 DEF IInv, WorkInHand
<1>9. EvidenceHasDocument'
  BY <1>1, <1>3, <1>4 DEF IInv, EvidenceHasDocument, Typed, AllItems, DocumentOf
<1>10. Typed'
  BY <1>1, <1>4, <1>5, <1>7 DEF IInv, Typed, DocsTyped, EvidenceTyped
<1>11. QED
  BY <1>4, <1>7, <1>8, <1>9, <1>10 DEF IInv

\* What the program writes into a place of its own.
LEMMA WrittenInv ==
    ASSUME IInv, NEW d \in Documents, docs[d].status = "absent", NEW t \in Types,
           NEW facts \in SUBSET Facts, IsFiniteSet(facts), Written(d, t, facts),
           NEW old \in [Fields -> Entries], Recomputed(old), worker' = worker
    PROVE  IInv' /\ ClaimsKept(old)
<1> DEFINE row == [Absent EXCEPT !.type = t, !.counts = "yes", !.status = "parsed",
                                 !.understanding = "completed",
                                 !.result = ResultWritten(d, facts)]
<1>1. docs' = [docs EXCEPT ![d] = row] /\ evidence' = Replaced(d, Items(d, facts))
  BY DEF Written
<1>2. /\ row \in RowsWith(row.result) /\ row.result = ResultWritten(d, facts)
      /\ row.status = "parsed" /\ row.understanding = "completed"
  BY DEF Absent, RowsWith
<1> HIDE DEF row
<1>3. Grounded(row.result)
  BY <1>2, ItemsGrounded DEF ResultWritten
<1>4. /\ DocsTyped' /\ EveryResultGrounded'
      /\ docs'[d] = row
      /\ \A e \in Documents : e # d => docs'[e] = docs[e]
  BY <1>1, <1>2, <1>3, DocSet DEF IInv, Typed, DocsTyped
<1>5. EvidenceTyped' /\ EvidenceHasDocument'
  BY <1>1, <1>2, <1>4, ItemsOfFacts, ReplacedItems
<1>6. /\ profile' \in [Fields -> Entries]
      /\ gate' \in [Required -> {"ready", "uploaded", "missing"}]
      /\ behind' \in BOOLEAN
      /\ ProfileFollowsEvidence' /\ ReadyFunding' /\ ClaimsKept(old)
  BY <1>5, Recomputing
<1>7. WorkInHand'
  BY <1>2, <1>4 DEF IInv, WorkInHand
<1>8. Typed'
  BY <1>4, <1>5, <1>6 DEF IInv, Typed, DocsTyped, EvidenceTyped
<1>9. QED
  BY <1>4, <1>5, <1>6, <1>7, <1>8 DEF IInv

\* One fact for each topic of a type.
LEMMA TopicFacts ==
    ASSUME NEW t \in Types, NEW v \in [Topics(t) -> Values]
    PROVE  /\ {[field |-> f, value |-> v[f]] : f \in Topics(t)} \in SUBSET Facts
           /\ IsFiniteSet({[field |-> f, value |-> v[f]] : f \in Topics(t)})
<1> DEFINE x == [f \in Topics(t) |-> [field |-> f, value |-> v[f]]]
           facts == {[field |-> f, value |-> v[f]] : f \in Topics(t)}
<1>1. Topics(t) \in SUBSET Fields
  BY FieldsAssumption DEF Topics
<1>2. IsFiniteSet(Topics(t))
  <2>1. IsFiniteSet(Patterns[t]) /\ IsFiniteSet({Funding}) /\ IsFiniteSet({})
    BY FactsFinite, FS_Singleton, FS_EmptySet
  <2>2. QED
    BY <2>1, FS_Union DEF Topics
<1>3. facts = {x[f] : f \in Topics(t)}
  OBVIOUS
<1>4. DOMAIN x = Topics(t) /\ x = [f \in Topics(t) |-> x[f]]
  OBVIOUS
<1>5. facts \in SUBSET Facts
  BY <1>1 DEF Facts
<1> HIDE DEF x, facts
<1>6. IsFiniteSet({x[f] : f \in Topics(t)})
  BY <1>2, <1>4, ImageFinite
<1>7. QED
  BY <1>3, <1>5, <1>6 DEF facts

LEMMA BundleInv ==
    ASSUME IInv, NEW d \in Documents, Bundle(d)
    PROVE  IInv'
<1>1. PICK t \in Types, v \in Values, claims \in Facts :
        /\ Written(d, t, {[field |-> f, value |-> v] : f \in Topics(t)})
        /\ Recomputed([profile EXCEPT ![claims.field] =
                          [state |-> "claimed", value |-> claims.value, refs |-> {}]])
  BY DEF Bundle
<1> DEFINE w == [f \in Topics(t) |-> v]
           facts == {[field |-> f, value |-> v] : f \in Topics(t)}
           claim == [state |-> "claimed", value |-> claims.value, refs |-> {}]
           old == [profile EXCEPT ![claims.field] = claim]
<1>2. facts = {[field |-> f, value |-> w[f]] : f \in Topics(t)} /\ w \in [Topics(t) -> Values]
  OBVIOUS
<1>3. facts \in SUBSET Facts /\ IsFiniteSet(facts)
  <2> HIDE DEF w, facts
  <2>1. QED
    BY <1>2, TopicFacts
<1>4. claims.field \in Fields /\ claim \in Entries
  BY DEF Facts, Entries
<1>5. profile \in [Fields -> Entries]
  BY DEF IInv, Typed
<1>6. old \in [Fields -> Entries]
  <2> HIDE DEF claim
  <2>1. QED
    BY <1>4, <1>5
<1>7. Written(d, t, facts) /\ Recomputed(old) /\ worker' = worker /\ docs[d].status = "absent"
  BY <1>1 DEF Bundle
<1> HIDE DEF facts, old
<1>8. QED
  BY <1>3, <1>6, <1>7, WrittenInv

LEMMA FillInv ==
    ASSUME IInv, NEW d \in Documents, NEW scenario \in Scenarios, Fill(d, scenario)
    PROVE  IInv' /\ ClaimsKept(profile)
<1>1. PICK focus \in Types \cup {None} : \E target \in FillTargets(scenario, focus) :
        LET t == Drafted(target)
        IN  Written(d, t, {[field |-> f, value |-> FilledValue(f, scenario)] : f \in Topics(t)})
  BY DEF Fill
<1>2. \A target : Drafted(target) \in Types
  BY EvidenceAssumption, FieldsAssumption DEF Drafted
<1>3. PICK t \in Types :
        Written(d, t, {[field |-> f, value |-> FilledValue(f, scenario)] : f \in Topics(t)})
  BY <1>1, <1>2
<1> DEFINE w == [f \in Topics(t) |-> FilledValue(f, scenario)]
           facts == {[field |-> f, value |-> FilledValue(f, scenario)] : f \in Topics(t)}
<1>4. profile \in [Fields -> Entries]
  BY DEF IInv, Typed
<1>5. \A f \in Topics(t) : f \in Fields
  BY FieldsAssumption DEF Topics
<1>6. \A f \in Fields : FilledValue(f, scenario) \in Values
  <2>1. \A f \in Fields : profile[f].value \in Values \cup {None}
    BY <1>4 DEF Entries
  <2>2. QED
    BY <2>1, EvidenceAssumption DEF FilledValue, Known
<1>7. facts = {[field |-> f, value |-> w[f]] : f \in Topics(t)} /\ w \in [Topics(t) -> Values]
  BY <1>5, <1>6
<1>8. facts \in SUBSET Facts /\ IsFiniteSet(facts)
  <2> HIDE DEF w, facts
  <2>1. QED
    BY <1>7, TopicFacts
<1>9. Written(d, t, facts) /\ Recomputed(profile) /\ worker' = worker /\ docs[d].status = "absent"
  BY <1>3 DEF Fill
<1> HIDE DEF facts
<1>10. QED
  BY <1>4, <1>8, <1>9, WrittenInv

LEMMA InitInv == Init => IInv
<1> SUFFICES ASSUME Init PROVE IInv
  OBVIOUS
<1>1. Absent \in RowsWith(Absent.result) /\ Absent.result = None /\ Absent.understanding = "none"
  BY DEF Absent, RowsWith
<1>2. Unknown \in Entries /\ Unknown.state = "unknown" /\ Unknown.refs = {}
  BY DEF Unknown, Entries
<1>3. \A d \in Documents : docs[d] = Absent
  BY DEF Init
<1>4. Typed
  BY <1>1, <1>2, IdleTyped, FS_EmptySet DEF Init, Typed
<1>5. WorkInHand /\ EvidenceHasDocument /\ EveryResultGrounded
  BY <1>1, <1>3 DEF Init, WorkInHand, EvidenceHasDocument, EveryResultGrounded
<1>6. ProfileFollowsEvidence
  <2>1. ASSUME NEW f \in Fields PROVE Follows(profile[f], About(f, LiveItems(docs, evidence)))
    <3>1. About(f, LiveItems(docs, evidence)) = {}
      BY DEF Init, About, LiveItems
    <3>2. ValuesOf({}) = {} /\ Cardinality({}) = 0
      BY FS_EmptySet DEF ValuesOf
    <3>3. profile[f] = Unknown
      BY DEF Init
    <3>4. QED
      BY <1>2, <3>1, <3>2, <3>3 DEF Follows
  <2>2. QED
    BY <2>1 DEF ProfileFollowsEvidence, Follows
<1>7. ReadyFunding
  BY DEF Init, ReadyFunding
<1>8. QED
  BY <1>4, <1>5, <1>6, <1>7 DEF IInv

Stands == (\E d \in Documents : Bundle(d)) \/ ClaimsKept(profile)

LEMMA NextInv == IInv /\ [Next]_vars => IInv' /\ [Stands]_vars
<1> SUFFICES ASSUME IInv, [Next]_vars PROVE IInv' /\ [Stands]_vars
  OBVIOUS
<1>1. ASSUME NEW d \in Documents, Upload(d) PROVE IInv' /\ Stands
  BY <1>1, UploadInv DEF Stands
<1>2. ASSUME NEW d \in Documents, Take(d) PROVE IInv' /\ Stands
  BY <1>2, TakeInv DEF Stands
<1>3. ASSUME NEW d \in Documents, Parse(d) PROVE IInv' /\ Stands
  BY <1>3, ParseInv DEF Stands
<1>4. ASSUME NEW d \in Documents, Understand(d) PROVE IInv' /\ Stands
  BY <1>4, UnderstandInv DEF Stands
<1>5. ASSUME Skip \/ Die PROVE IInv' /\ Stands
  BY <1>5, LeaveInv DEF Stands, Skip, Die
<1>6. ASSUME Fail PROVE IInv' /\ Stands
  BY <1>6, FailInv DEF Stands
<1>7. ASSUME NEW d \in Documents, Remove(d) PROVE IInv' /\ Stands
  BY <1>7, RemoveInv DEF Stands
<1>8. ASSUME NEW d \in Documents, Bundle(d) PROVE IInv' /\ Stands
  BY <1>8, BundleInv DEF Stands
<1>9. ASSUME NEW d \in Documents, NEW scenario \in Scenarios, Fill(d, scenario)
      PROVE  IInv' /\ Stands
  BY <1>9, FillInv DEF Stands
<1>10. CASE UNCHANGED vars
  BY <1>10 DEF vars, IInv, Typed, WorkInHand, EvidenceHasDocument, EveryResultGrounded,
               ProfileFollowsEvidence, ReadyFunding, Live
<1>11. QED
  BY <1>1, <1>2, <1>3, <1>4, <1>5, <1>6, <1>7, <1>8, <1>9, <1>10 DEF Next, WorkerStep

-----------------------------------------------------------------------------
(* The theorems.                                                           *)

\* The rows of documents, evidence, profile and gate have their types, and the
\* invariant holds that the theorems below follow from.
THEOREM EvidenceInvariant == Spec => []IInv
<1>1. QED
  BY InitInv, NextInv, PTL DEF Spec

\* A stored result documents and contradicts by cards of its own, whatever a model
\* answered (MaterialUnderstandingService._parse_result).
THEOREM EveryResultIsGrounded == Spec => []ResultsAreGrounded
<1>1. IInv => ResultsAreGrounded
  BY DEF IInv, EveryResultGrounded, ResultsAreGrounded, Live
<1>2. QED
  BY <1>1, EvidenceInvariant, PTL

\* What is computed again is what the live evidence says, field by field
\* (ProfileRecomputeService).
THEOREM ProfileIsEvidence == Spec => []ProfileFollowsEvidence
<1>1. IInv => ProfileFollowsEvidence
  BY DEF IInv
<1>2. QED
  BY <1>1, EvidenceInvariant, PTL

\* A ready item of funding has one source of funds behind it, and a document that
\* is understood (GateRuntimeService._meets_minimum_fields).
THEOREM ReadyFundingAgrees == Spec => []FundingReadyIsAgreed
<1>1. ASSUME IInv, ~behind, FundingProof \in Required, gate[FundingProof] = "ready"
      PROVE  Cardinality(ValuesOf(About(Funding, LiveItems(docs, evidence)))) = 1
  <2> DEFINE items == About(Funding, LiveItems(docs, evidence))
  <2>1. profile[Funding].state = "documented"
    BY <1>1 DEF IInv, ReadyFunding
  <2>2. ValuesOf(items) = {profile[Funding].value}
    BY <1>1, <2>1, FieldsAssumption DEF IInv, ProfileFollowsEvidence
  <2>3. QED
    BY <2>2, FS_Singleton
<1>2. IInv => FundingReadyIsAgreed
  BY <1>1 DEF IInv, ReadyFunding, FundingReadyIsAgreed
<1>3. QED
  BY <1>2, EvidenceInvariant, PTL

\* No document, and no removal of one, replaces what the applicant claimed
\* (_apply_field_evidence).
THEOREM ClaimsStand == Spec => ClaimStands
<1>1. IInv /\ [Next]_vars => [Stands]_vars
  BY NextInv
<1>2. QED
  BY <1>1, EvidenceInvariant, PTL DEF Spec, ClaimStands, Stands, ClaimsKept

=============================================================================

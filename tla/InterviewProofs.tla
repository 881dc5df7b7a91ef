-------------------------- MODULE InterviewProofs --------------------------
(***************************************************************************)
(* Theorems about Interview, for any documents, understandings, replies,   *)
(* outputs of the model and numbers of turns: what the stored snapshot is  *)
(* worth, that what is resolved stays resolved, when a session is put      *)
(* under review, and that an answer sent again is the answer.              *)
(***************************************************************************)
EXTENDS Interview, SequenceTheorems, WellFoundedInduction, TLAPS

-----------------------------------------------------------------------------
(* The inductive invariant.                                                *)

Severities == {"low", "medium", "high"}

TurnFields == {"id", "role", "says", "reply", "claimed", "message", "record", "synced", "kept"}

DocRows == [status : {"none", "live", "removed"}, result : Results \cup {None},
            shown : (1..Documents) \cup {None}]

IsSequence(s) == s \in Seq({s[i] : i \in DOMAIN s})

\* A document that was not uploaded says nothing.
DocsShaped ==
    /\ docs \in [1..Documents -> DocRows]
    /\ \A d \in 1..Documents :
          docs[d].status = "none" => docs[d].result = None /\ docs[d].shown = None

TurnsShaped == IsSequence(turns) /\ \A i \in DOMAIN turns : DOMAIN turns[i] = TurnFields

RecShaped ==
    /\ DOMAIN rec = {"family", "phase", "decision", "focus", "state"}
    /\ DOMAIN rec.state = {"status", "advisory", "review", "resolved", "view"}

\* A message being answered is there, and claims nothing before its capture.
Posted ==
    /\ pc \in {"posted", "captured", "asked"} => Len(turns) > 0
    /\ pc = "posted" => turns[Len(turns)].claimed = FALSE

\* Ids count up, and only answers given have been sent.
Numbered ==
    /\ made \in Nat
    /\ \A i \in DOMAIN turns : turns[i].id \in 1..made
    /\ DOMAIN sent \subseteq 1..made

\* What an answered turn keeps is its own, and is what was sent.
KeptAs(turn, response) ==
    /\ turn.synced /\ turn.kept.view.source = turn.id
    /\ response =
          [message |-> turn.message, advisory |-> response.advisory,
           governor |-> turn.kept.governor,
           requested |-> turn.kept.view.requested, remaining |-> turn.kept.view.remaining,
           turn |-> TurnDecision(response.turn.account, turn.kept.view), record |-> turn.record,
           view |-> turn.kept.view,
           review |-> IF turn.kept.view.review # {} THEN turn.kept.view.review
                      ELSE turn.kept.review]

KeptAsSent ==
    \A i \in DOMAIN turns : turns[i].id \in DOMAIN sent => KeptAs(turns[i], sent[turns[i].id])

\* A snapshot that was built from anything: ids are unique in it, and nothing
\* that is resolved is in conflict.
Snapped(board, resolved) ==
    /\ \A c \in board.claims, d \in board.claims : c.id = d.id => c = d
    /\ \A e \in board.evidence, f \in board.evidence : e.id = f.id => e = f
    /\ \A c \in board.conflicts : c.id \notin resolved /\ c.severity \in Severities

MemorySnapped == memory # None => Snapped(memory, rec.state.resolved)

TurnsInv == TurnsShaped /\ Posted /\ Numbered /\ KeptAsSent

IInv == DocsShaped /\ RecShaped /\ TurnsInv /\ MemorySnapped /\ SnapshotFresh

-----------------------------------------------------------------------------
(* Sequences of turns.                                                     *)

LEMMA SequenceOf ==
    ASSUME NEW S, NEW s \in Seq(S)
    PROVE  /\ IsSequence(s) /\ Len(s) \in Nat /\ DOMAIN s = 1..Len(s)
           /\ \A i \in DOMAIN s : s[i] \in S
<1>1. /\ Len(s) \in Nat /\ s \in [1..Len(s) -> S] /\ DOMAIN s = 1..Len(s)
  BY LenProperties
<1> DEFINE R == {s[i] : i \in DOMAIN s}
<1>2. s \in [1..Len(s) -> R]
  BY <1>1
<1>3. s \in Seq(R)
  BY <1>1, <1>2, SeqDef
<1> QED
  BY <1>1, <1>3 DEF IsSequence

LEMMA Appended ==
    ASSUME NEW s, IsSequence(s), NEW e
    PROVE  /\ IsSequence(Append(s, e)) /\ Len(s) \in Nat /\ DOMAIN s = 1..Len(s)
           /\ Len(Append(s, e)) = Len(s) + 1
           /\ DOMAIN Append(s, e) = 1..(Len(s) + 1)
           /\ \A i \in 1..Len(s) : Append(s, e)[i] = s[i]
           /\ Append(s, e)[Len(s) + 1] = e
<1> DEFINE S == {s[i] : i \in DOMAIN s}
           T == S \cup {e}
<1>1. s \in Seq(S)
  BY DEF IsSequence
<1> HIDE DEF S
<1>2. s \in Seq(T) /\ e \in T
  BY <1>1, SeqMonotonic
<1> HIDE DEF T
<1>3. /\ Append(s, e) \in Seq(T) /\ Len(Append(s, e)) = Len(s) + 1
      /\ \A i \in 1..Len(s) : Append(s, e)[i] = s[i]
      /\ Append(s, e)[Len(s) + 1] = e
  BY <1>2, AppendProperties
<1>4. Len(s) \in Nat /\ DOMAIN s = 1..Len(s)
  BY <1>2, SequenceOf
<1>5. IsSequence(Append(s, e)) /\ DOMAIN Append(s, e) = 1..Len(Append(s, e))
  BY <1>3, SequenceOf
<1> QED
  BY <1>3, <1>4, <1>5

LEMMA Shortened ==
    ASSUME NEW s, IsSequence(s), Len(s) > 0
    PROVE  LET t == SubSeq(s, 1, Len(s) - 1) IN
           /\ IsSequence(t) /\ Len(s) \in Nat /\ DOMAIN s = 1..Len(s) /\ Len(t) = Len(s) - 1
           /\ DOMAIN t = 1..Len(t)
           /\ \A i \in DOMAIN t : i \in DOMAIN s /\ t[i] = s[i]
<1> DEFINE S == {s[i] : i \in DOMAIN s}
           t == SubSeq(s, 1, Len(s) - 1)
<1>1. s \in Seq(S)
  BY DEF IsSequence
<1>2. Len(s) \in Nat /\ DOMAIN s = 1..Len(s)
  BY <1>1, LenProperties
<1>3. \A i \in 1 .. (Len(s) - 1) : s[i] \in S
  BY <1>2
<1> HIDE DEF S
<1>4. /\ t \in Seq(S) /\ Len(t) = IF 1 <= Len(s) - 1 THEN (Len(s) - 1) - 1 + 1 ELSE 0
      /\ \A i \in 1 .. ((Len(s) - 1) - 1 + 1) : t[i] = s[1 + i - 1]
  BY <1>2, <1>3, SubSeqProperties
<1> HIDE DEF t
<1>5. Len(t) = Len(s) - 1 /\ \A i \in 1 .. (Len(s) - 1) : t[i] = s[i]
  <2>1. Len(t) = Len(s) - 1
    <3>1. CASE Len(s) = 1
      BY <1>4, <3>1
    <3>2. CASE Len(s) > 1
      <4>1. 1 <= Len(s) - 1 /\ (Len(s) - 1) - 1 + 1 = Len(s) - 1
        BY <1>2, <3>2
      <4> QED
        BY <1>4, <4>1
    <3>3. Len(s) = 1 \/ Len(s) > 1
      BY <1>2
    <3> QED
      BY <3>1, <3>2, <3>3
  <2>2. ASSUME NEW i \in 1 .. (Len(s) - 1) PROVE t[i] = s[i]
    <3>1. i \in 1 .. ((Len(s) - 1) - 1 + 1) /\ 1 + i - 1 = i
      BY <1>2
    <3> QED
      BY <1>4, <3>1
  <2> QED
    BY <2>1, <2>2
<1>6. IsSequence(t) /\ DOMAIN t = 1..Len(t)
  BY <1>4, SequenceOf
<1> QED
  BY <1>2, <1>5, <1>6 DEF t

LEMMA Replaced ==
    ASSUME NEW s, IsSequence(s), NEW i \in DOMAIN s, NEW e
    PROVE  LET t == [s EXCEPT ![i] = e] IN
           IsSequence(t) /\ Len(t) = Len(s) /\ DOMAIN t = DOMAIN s /\ DOMAIN s = 1..Len(s)
<1> DEFINE S == {s[j] : j \in DOMAIN s}
           T == S \cup {e}
           t == [s EXCEPT ![i] = e]
<1>1. s \in Seq(S)
  BY DEF IsSequence
<1> HIDE DEF S
<1>2. s \in Seq(T) /\ e \in T
  BY <1>1, SeqMonotonic
<1> HIDE DEF T
<1>3. DOMAIN s = 1..Len(s)
  BY <1>2, LenProperties
<1>4. t \in Seq(T) /\ Len(t) = Len(s)
  BY <1>2, <1>3, ExceptSeq
<1> HIDE DEF t
<1>5. IsSequence(t) /\ DOMAIN t = 1..Len(t)
  BY <1>4, SequenceOf
<1> QED
  BY <1>3, <1>4, <1>5 DEF t

-----------------------------------------------------------------------------
(* Snapshots.                                                              *)

Readable(sources) ==
    /\ DOMAIN sources \subseteq Nat
    /\ \A s \in DOMAIN sources :
          /\ DOMAIN sources[s]["evidence"] \subseteq Nat
          /\ \A i \in DOMAIN sources[s]["conflicts"] :
                sources[s]["conflicts"][i].severity \in Severities

\* Of one id the last item stays.
LEMMA OneOfEach ==
    ASSUME NEW sources, Readable(sources),
           NEW e \in Evidence(sources), NEW f \in Evidence(sources), e.id = f.id
    PROVE  e = f
<1> DEFINE items == Items(sources, "evidence")
<1>1. \A x \in items : \E s \in Nat, i \in Nat : x = [at |-> <<s, i>>, is |-> sources[s]["evidence"][i]]
  BY DEF Items, Readable
<1> HIDE DEF items
<1>2. PICK x \in items : e = x.is /\ ~ \E y \in items : x.is.id = y.is.id /\ Before(x.at, y.at)
  BY DEF Evidence, LastOfEach, items
<1>3. PICK y \in items : f = y.is /\ ~ \E z \in items : y.is.id = z.is.id /\ Before(y.at, z.at)
  BY DEF Evidence, LastOfEach, items
<1>4. PICK s \in Nat, i \in Nat : x = [at |-> <<s, i>>, is |-> sources[s]["evidence"][i]]
  BY <1>1
<1>5. PICK t \in Nat, j \in Nat : y = [at |-> <<t, j>>, is |-> sources[t]["evidence"][j]]
  BY <1>1
<1>6. ~ Before(<<s, i>>, <<t, j>>) /\ ~ Before(<<t, j>>, <<s, i>>)
  BY <1>2, <1>3, <1>4, <1>5
<1>7. s = t /\ i = j
  BY <1>6 DEF Before
<1> QED
  BY <1>2, <1>3, <1>4, <1>5, <1>7

\* Claims are merged by id.
LEMMA OneClaimEach ==
    ASSUME NEW sources, NEW resolved,
           NEW c \in Claims(sources, resolved), NEW d \in Claims(sources, resolved), c.id = d.id
    PROVE  c = d
<1> DEFINE items == Items(sources, "claims")
           merged == MergedClaims(sources)
           evidence == Evidence(sources)
<1>1. \A m \in merged : \E id : m = MergedClaim(items, id)
  BY DEF MergedClaims
<1>2. \A id : MergedClaim(items, id).id = id
  BY DEF MergedClaim
<1>3. ASSUME NEW id PROVE Confronted(merged, evidence, resolved, MergedClaim(items, id)).id = id
  BY DEF Confronted, MergedClaim
<1> HIDE DEF items, merged, evidence
<1>4. PICK m \in merged : c = Confronted(merged, evidence, resolved, m)
  BY DEF Claims, merged, evidence
<1>5. PICK n \in merged : d = Confronted(merged, evidence, resolved, n)
  BY DEF Claims, merged, evidence
<1>6. PICK k : m = MergedClaim(items, k)
  BY <1>1
<1>7. PICK l : n = MergedClaim(items, l)
  BY <1>1
<1> QED
  BY <1>3, <1>4, <1>5, <1>6, <1>7

LEMMA OpenConflicts ==
    ASSUME NEW sources, Readable(sources), NEW resolved, NEW c \in Conflicts(sources, resolved)
    PROVE  c.id \notin resolved /\ c.severity \in Severities
<1> DEFINE merged == MergedClaims(sources)
           evidence == Evidence(sources)
           reported == Reported(sources, resolved)
           found == Disputed(merged, resolved) \ {r.id : r \in reported}
<1>1. found \cap resolved = {}
  BY DEF Disputed
<1>2. ASSUME NEW r \in reported PROVE r.id \notin resolved /\ r.severity \in Severities
  <2>1. PICK x \in Items(sources, "conflicts") : r = x.is /\ r.id \notin resolved
    <3>1. r \in LastOfEach(Items(sources, "conflicts")) /\ r.id \notin resolved
      BY DEF Reported
    <3> DEFINE items == Items(sources, "conflicts")
    <3> HIDE DEF items
    <3>2. \A x \in LastOfEach(items) : \E y \in items : x = y.is
      BY DEF LastOfEach
    <3> QED
      BY <3>1, <3>2 DEF items
  <2>2. PICK s \in DOMAIN sources : \E i \in DOMAIN sources[s]["conflicts"] :
            x = [at |-> <<s, i>>, is |-> sources[s]["conflicts"][i]]
    BY DEF Items
  <2> QED
    BY <2>1, <2>2 DEF Readable
<1>3. c \in reported \/ \E f \in found :
          c = [id |-> f, claims |-> {x.id : x \in On(merged, f)}, severity |-> "medium",
               evidence |-> GroupEvidence(merged, evidence, f)]
  BY DEF Conflicts
<1> HIDE DEF merged, evidence, reported, found
<1> QED
  BY <1>1, <1>2, <1>3 DEF Severities

LEMMA SnappedWhenBuilt ==
    ASSUME NEW sources, Readable(sources), NEW resolved, NEW latest
    PROVE  Snapped(Built(sources, resolved, latest), resolved)
<1> DEFINE board == Built(sources, resolved, latest)
<1>1. /\ board.claims = Claims(sources, resolved) /\ board.evidence = Evidence(sources)
      /\ board.conflicts = Conflicts(sources, resolved)
  BY DEF Built
<1> HIDE DEF board
<1>2. \A c \in board.claims, d \in board.claims : c.id = d.id => c = d
  BY <1>1, OneClaimEach
<1>3. \A e \in board.evidence, f \in board.evidence : e.id = f.id => e = f
  BY <1>1, OneOfEach
<1>4. \A c \in board.conflicts : c.id \notin resolved /\ c.severity \in Severities
  BY <1>1, OpenConflicts
<1> QED
  BY <1>2, <1>3, <1>4 DEF Snapped, board

LEMMA DocsLength ==
    ASSUME NEW ds \in [1..Documents -> DocRows]
    PROVE  Len(ds) = Documents /\ Documents \in Nat /\ DOMAIN ds = 1..Documents
<1>1. ds \in Seq(DocRows)
  BY DocumentsAssumption, SeqDef
<1>2. Len(ds) \in Nat /\ DOMAIN ds = 1..Len(ds) /\ DOMAIN ds = 1..Documents
  BY <1>1, LenProperties
<1> QED
  BY <1>2, DocumentsAssumption

LEMMA SourcesReadable ==
    ASSUME NEW ds \in [1..Documents -> DocRows], NEW ts, IsSequence(ts)
    PROVE  Readable(Sources(ds, ts))
<1> DEFINE sources == Sources(ds, ts)
           n == Documents
<1>1. Len(ds) = n /\ n \in Nat /\ DOMAIN ds = 1..n
  BY DocsLength
<1>2. DOMAIN ts \subseteq Nat
  BY SequenceOf DEF IsSequence
<1>3. DOMAIN sources = Understood(ds) \cup {n + i : i \in Captured(ts)}
  BY <1>1 DEF Sources
<1>4. Understood(ds) \subseteq 1..n /\ Captured(ts) \subseteq Nat
  BY <1>1, <1>2 DEF Understood, Captured
<1>5. DOMAIN sources \subseteq Nat
  BY <1>1, <1>3, <1>4
<1>6. ASSUME NEW s \in DOMAIN sources
      PROVE  /\ DOMAIN sources[s]["evidence"] \subseteq Nat
             /\ \A i \in DOMAIN sources[s]["conflicts"] :
                   sources[s]["conflicts"][i].severity \in Severities
  <2>1. CASE s \in Understood(ds)
    <3>1. s <= n /\ ds[s].result \in Results
      BY <1>1, <2>1 DEF Understood, DocRows
    <3>2. sources[s] = ds[s].result
      BY <1>1, <1>3, <3>1 DEF Sources
    <3>3. /\ IsSequence(ds[s].result["evidence"])
          /\ \A i \in DOMAIN ds[s].result["conflicts"] :
                ds[s].result["conflicts"][i].severity \in Severities
      BY <3>1, ResultsAssumption DEF IsSequence, Severities
    <3>4. DOMAIN ds[s].result["evidence"] \subseteq Nat
      BY <3>3, SequenceOf DEF IsSequence
    <3> QED
      BY <3>2, <3>3, <3>4
  <2>2. CASE s \notin Understood(ds)
    <3>1. PICK i \in Captured(ts) : s = n + i
      BY <1>3, <2>2
    <3>2. i > 0
      BY <3>1, SequenceOf DEF IsSequence, Captured
    <3>3. sources[s] = Statement(ts[s - n])
      BY <1>1, <1>3, <1>4, <3>1, <3>2 DEF Sources
    <3> HIDE DEF sources
    <3>4. sources[s]["conflicts"] = <<>> /\ DOMAIN sources[s]["evidence"] = 1..1
      BY <3>3 DEF Statement
    <3> QED
      BY <3>4
  <2> QED
    BY <2>1, <2>2
<1> QED
  BY <1>5, <1>6 DEF Readable

LEMMA FreshIsSnapped ==
    ASSUME NEW ds \in [1..Documents -> DocRows], NEW ts, IsSequence(ts), NEW resolved
    PROVE  Snapped(Fresh(ds, ts, resolved), resolved)
  BY SourcesReadable, SnappedWhenBuilt DEF Fresh, Snapshot

\* What a snapshot is made from: the documents understood and the turns
\* captured, and nothing else.
LEMMA SameSources ==
    ASSUME NEW ds \in [1..Documents -> DocRows], NEW es \in [1..Documents -> DocRows],
           NEW ts, NEW us, IsSequence(ts),
           Understood(es) = Understood(ds),
           \A d \in Understood(ds) : es[d].result = ds[d].result,
           Captured(us) = Captured(ts),
           \A i \in Captured(ts) : us[i].id = ts[i].id /\ us[i].says = ts[i].says
    PROVE  Sources(es, us) = Sources(ds, ts)
<1> DEFINE n == Documents
<1>1. Len(ds) = n /\ Len(es) = n /\ n \in Nat /\ DOMAIN ds = 1..n
  BY DocsLength
<1>2. Captured(ts) \subseteq Nat \ {0}
  BY SequenceOf DEF IsSequence, Captured
<1> DEFINE P == Understood(ds) \cup {n + i : i \in Captured(ts)}
<1>3. ASSUME NEW s \in P
      PROVE  (IF s <= n THEN es[s].result ELSE Statement(us[s - n]))
               = IF s <= n THEN ds[s].result ELSE Statement(ts[s - n])
  <2>1. CASE s \in Understood(ds)
    <3>1. s <= n
      BY <1>1, <2>1 DEF Understood
    <3> QED
      BY <2>1, <3>1
  <2>2. CASE s \notin Understood(ds)
    <3>1. PICK i \in Captured(ts) : s = n + i
      BY <2>2
    <3>2. ~ (s <= n) /\ s - n = i
      BY <1>1, <1>2, <3>1
    <3>3. Statement(us[i]) = Statement(ts[i])
      BY DEF Statement, TurnClaim, TurnEvidence
    <3> QED
      BY <3>2, <3>3
  <2> QED
    BY <2>1, <2>2
<1> QED
  BY <1>1, <1>3 DEF Sources

LEMMA LeastOf ==
    ASSUME NEW T \in SUBSET Nat, T # {}
    PROVE  \E x \in T : \A y \in T : x <= y
<1>1. \E x \in T : \A y \in T : ~ (<<y, x>> \in OpToRel(<, Nat))
  BY NatLessThanWellFounded, WFMin
<1>2. \A x \in T, y \in T : <<y, x>> \in OpToRel(<, Nat) <=> y < x
  BY DEF OpToRel
<1>3. PICK x \in T : \A y \in T : ~ (<<y, x>> \in OpToRel(<, Nat))
  BY <1>1
<1>4. \A y \in T : ~ (y < x)
  BY <1>2, <1>3
<1>5. \A y \in T : y \in Nat /\ x \in Nat
  OBVIOUS
<1>6. \A y \in T : x <= y
  BY <1>4, <1>5
<1> QED
  BY <1>6

LEMMA LastIsThere ==
    ASSUME NEW n \in Nat, NEW S \in SUBSET (1..n), S # {}
    PROVE  LastOf(S) \in S /\ \A i \in S : i <= LastOf(S)
<1> DEFINE T == {n - i : i \in S}
<1>1. T \in SUBSET Nat /\ T # {}
  <2>1. \A i \in S : n - i \in Nat
    OBVIOUS
  <2> QED
    BY <2>1
<1>2. PICK x \in T : \A y \in T : x <= y
  BY <1>1, LeastOf
<1>3. PICK i \in S : x = n - i
  BY <1>2
<1>4. \A j \in S : j <= i
  BY <1>2, <1>3
<1> QED
  BY <1>4 DEF LastOf

-----------------------------------------------------------------------------
(* The part of the graph about a field.                                    *)

WholeAbout(board, f) ==
    ClaimEdges(board, {f}) =
        {edge \in ClaimEdges(board, {}) : edge[1] \in {c.id : c \in ClaimsAbout(board, {f})}}

LEMMA WholeGraph ==
    ASSUME NEW board, NEW resolved, Snapped(board, resolved), NEW f
    PROVE  WholeAbout(board, f)
<1>0. /\ \A c \in board.claims, d \in board.claims : c.id = d.id => c = d
      /\ \A e \in board.evidence, g \in board.evidence : e.id = g.id => e = g
  BY DEF Snapped
<1> DEFINE Some == EvidenceAbout(board, {f})
           All == board.evidence
           For(c, cards) == {<<c.id, e.id, "support">> : e \in {e \in cards : e.id \in Own(c, cards)}}
           Against(c, cards) == {<<c.id, e.id, "conflict">> : e \in {e \in cards : e.id \in c.con}}
<1>1. EvidenceAbout(board, {}) = All /\ ClaimsAbout(board, {}) = board.claims
  BY DEF EvidenceAbout, ClaimsAbout
<1>2. Some \subseteq All /\ ClaimsAbout(board, {f}) \subseteq board.claims
  BY DEF EvidenceAbout, ClaimsAbout
<1>3. ASSUME NEW c \in ClaimsAbout(board, {f}), NEW e \in All, e.id \in c.con
      PROVE  e \in Some
  BY <1>3 DEF EvidenceAbout
<1>4. ASSUME NEW c \in ClaimsAbout(board, {f}), NEW e \in All, e.id \in Own(c, All)
      PROVE  e \in Some /\ e.id \in Own(c, Some)
  <2>1. CASE e.id \in c.sup
    BY <2>1 DEF EvidenceAbout, Own
  <2>2. CASE e.id \notin c.sup
    <3>1. PICK g \in All : g.id = e.id /\ c.id \in g.refs
      BY <1>4, <2>2 DEF Own
    <3>2. c.id \in e.refs
      BY <1>0, <3>1
    <3>3. e \in Some
      BY <3>2 DEF EvidenceAbout
    <3> HIDE DEF Some
    <3> QED
      BY <3>2, <3>3 DEF Own
  <2> QED
    BY <2>1, <2>2
<1>5. ASSUME NEW c, NEW e \in Some, e.id \in Own(c, Some) PROVE e.id \in Own(c, All)
  BY <1>2, <1>5 DEF Own
<1> HIDE DEF Some, All
<1>6. ASSUME NEW c \in ClaimsAbout(board, {f})
      PROVE  For(c, Some) = For(c, All) /\ Against(c, Some) = Against(c, All)
  <2>1. {e \in Some : e.id \in Own(c, Some)} = {e \in All : e.id \in Own(c, All)}
    BY <1>2, <1>4, <1>5
  <2>2. {e \in Some : e.id \in c.con} = {e \in All : e.id \in c.con}
    BY <1>2, <1>3
  <2> QED
    BY <2>1, <2>2
<1>7. /\ ClaimEdges(board, {f}) =
             UNION {For(c, Some) \cup Against(c, Some) : c \in ClaimsAbout(board, {f})}
      /\ ClaimEdges(board, {}) = UNION {For(c, All) \cup Against(c, All) : c \in board.claims}
  BY <1>1 DEF ClaimEdges, Some, All
<1>8. ASSUME NEW c, NEW edge \in For(c, All) \cup Against(c, All) PROVE edge[1] = c.id
  OBVIOUS
<1> HIDE DEF For, Against
<1>9. ASSUME NEW edge \in ClaimEdges(board, {f})
      PROVE  /\ edge \in ClaimEdges(board, {})
             /\ edge[1] \in {c.id : c \in ClaimsAbout(board, {f})}
  <2>1. PICK c \in ClaimsAbout(board, {f}) : edge \in For(c, Some) \cup Against(c, Some)
    BY <1>7
  <2>2. c \in board.claims /\ edge \in For(c, All) \cup Against(c, All)
    BY <1>2, <1>6, <2>1
  <2>3. edge[1] = c.id
    BY <1>8, <2>2
  <2>4. edge \in ClaimEdges(board, {})
    BY <1>7, <2>2
  <2> QED
    BY <2>1, <2>3, <2>4
<1>10. ASSUME NEW edge \in ClaimEdges(board, {}),
              edge[1] \in {c.id : c \in ClaimsAbout(board, {f})}
       PROVE  edge \in ClaimEdges(board, {f})
  <2>1. PICK c \in board.claims : edge \in For(c, All) \cup Against(c, All)
    BY <1>7
  <2>2. PICK d \in ClaimsAbout(board, {f}) : edge[1] = d.id
    BY <1>10
  <2>3. c = d
    BY <1>0, <1>2, <1>8, <2>1, <2>2
  <2> QED
    BY <1>6, <1>7, <2>1, <2>2, <2>3
<1> QED
  BY <1>9, <1>10 DEF WholeAbout

-----------------------------------------------------------------------------
(* The invariant: the snapshot.                                            *)

LEMMA Rebuilt ==
    ASSUME DocsShaped', TurnsShaped', Rebuild(docs', turns', rec'.state.resolved)
    PROVE  MemorySnapped' /\ SnapshotFresh'
<1>1. memory' = Fresh(docs', turns', rec'.state.resolved)
  BY DEF Rebuild
<1>2. Snapped(Fresh(docs', turns', rec'.state.resolved), rec'.state.resolved)
  BY FreshIsSnapped DEF DocsShaped, TurnsShaped
<1> QED
  BY <1>1, <1>2 DEF MemorySnapped, SnapshotFresh

\* A step that changes nothing the snapshot is made from may leave it as it is
\* or fill it in.
LEMMA StillFresh ==
    ASSUME IInv, memory' \in {memory, Board}, orphan' = orphan \/ orphan',
           pc = "failed" => pc' = "failed" \/ orphan',
           rec'.state.resolved = rec.state.resolved,
           Sources(docs', turns') = Sources(docs, turns),
           LatestMaterial(docs') = LatestMaterial(docs)
    PROVE  MemorySnapped' /\ SnapshotFresh'
<1> DEFINE fresh == Fresh(docs, turns, rec.state.resolved)
<1>1. Fresh(docs', turns', rec'.state.resolved) = fresh
  BY DEF Fresh, Snapshot
<1>2. Board \in {memory, fresh}
  BY DEF Board
<1>3. Snapped(fresh, rec.state.resolved)
  BY FreshIsSnapped DEF IInv, DocsShaped, TurnsInv, TurnsShaped
<1>4. memory # None => Snapped(memory, rec.state.resolved)
  BY DEF IInv, MemorySnapped
<1>5. pc = "failed" \/ orphan \/ memory \in {None, fresh}
  BY DEF IInv, SnapshotFresh
<1>6. memory' \in {memory, fresh} /\ (memory' # memory => memory = None)
  BY <1>2 DEF Board
<1> HIDE DEF fresh
<1>7. MemorySnapped'
  BY <1>3, <1>4, <1>6 DEF MemorySnapped
<1>8. pc' = "failed" \/ orphan' \/ memory' \in {None, fresh}
  BY <1>5, <1>6
<1> QED
  BY <1>1, <1>7, <1>8 DEF SnapshotFresh, fresh

\* The same turns, and new documents.
LEMMA SameTurns ==
    ASSUME TurnsInv, UNCHANGED <<turns, made, sent, pc>>
    PROVE  TurnsInv'
<1> SUFFICES ASSUME turns' = turns, made' = made, sent' = sent, pc' = pc PROVE TurnsInv'
  OBVIOUS
<1> QED
  BY DEF TurnsInv, TurnsShaped, Posted, Numbered, KeptAsSent

\* A snapshot that is built again is that of any documents there are.
LEMMA DocumentRead ==
    ASSUME IInv, NEW d \in 1..Documents, NEW row \in DocRows, row.status # "none",
           docs' = [docs EXCEPT ![d] = row], Rebuild(docs', turns, rec.state.resolved),
           UNCHANGED <<turns, rec, made, sent, pc>>
    PROVE  IInv'
<1>1. turns' = turns /\ rec' = rec
  OBVIOUS
<1>2. TurnsInv' /\ TurnsShaped'
  BY SameTurns DEF IInv, TurnsInv
<1>3. DocsShaped'
  BY DEF IInv, DocsShaped
<1>4. RecShaped'
  BY <1>1 DEF IInv, RecShaped
<1>5. MemorySnapped' /\ SnapshotFresh'
  BY <1>1, <1>2, <1>3, Rebuilt
<1> QED
  BY <1>2, <1>3, <1>4, <1>5 DEF IInv

\* An upload is nothing to read yet.
LEMMA NothingToRead ==
    ASSUME IInv, NEW d \in 1..Documents, Upload(d), NEW ts, IsSequence(ts)
    PROVE  /\ DocsShaped' /\ Sources(docs', ts) = Sources(docs, ts)
           /\ LatestMaterial(docs') = LatestMaterial(docs)
<1>1. /\ docs \in [1..Documents -> DocRows] /\ docs[d].status = "none"
      /\ docs' = [docs EXCEPT ![d].status = "live"]
  BY DEF Upload, IInv, DocsShaped
<1>2. docs[d].result = None /\ docs[d].shown = None
  BY <1>1 DEF IInv, DocsShaped
<1>3. docs'[d] = [docs[d] EXCEPT !.status = "live"] /\ docs[d] \in DocRows
  BY <1>1
<1>4. /\ docs'[d] \in DocRows /\ docs'[d].status = "live"
      /\ docs'[d].result = None /\ docs'[d].shown = None
  BY <1>2, <1>3 DEF DocRows
<1>5. \A e \in 1..Documents \ {d} : docs'[e] = docs[e]
  BY <1>1
<1>6. docs' \in [1..Documents -> DocRows]
  BY <1>1, <1>4, <1>5
<1>7. DocsShaped'
  BY <1>4, <1>5, <1>6 DEF IInv, DocsShaped
<1>8. Understood(docs') = Understood(docs) /\ Shown(docs') = Shown(docs)
  BY <1>1, <1>2, <1>4, <1>5, <1>6 DEF Understood, Shown, Live
<1>9. \A e \in Understood(docs) : docs'[e].result = docs[e].result
  BY <1>1, <1>2, <1>5 DEF Understood
<1>10. \A e \in Shown(docs) : docs'[e].shown = docs[e].shown
  BY <1>1, <1>2, <1>5 DEF Shown
<1>11. LatestMaterial(docs') = LatestMaterial(docs)
  <2>1. CASE Shown(docs) = {}
    BY <1>8, <2>1 DEF LatestMaterial
  <2>2. CASE Shown(docs) # {}
    <3>1. Shown(docs) \subseteq 1..Documents /\ Documents \in Nat
      BY <1>1, DocumentsAssumption DEF Shown
    <3>2. LastOf(Shown(docs)) \in Shown(docs)
      BY <2>2, <3>1, LastIsThere
    <3> QED
      BY <1>8, <1>10, <2>2, <3>2 DEF LatestMaterial
  <2> QED
    BY <2>1, <2>2
<1>12. Sources(docs', ts) = Sources(docs, ts)
  <2> DEFINE es == docs'
  <2>1. /\ es \in [1..Documents -> DocRows] /\ Understood(es) = Understood(docs)
        /\ \A e \in Understood(docs) : es[e].result = docs[e].result
        /\ docs \in [1..Documents -> DocRows]
    BY <1>1, <1>6, <1>8, <1>9
  <2>2. \A i \in Captured(ts) : ts[i].id = ts[i].id /\ ts[i].says = ts[i].says
    OBVIOUS
  <2> HIDE DEF es
  <2>3. Sources(es, ts) = Sources(docs, ts)
    BY <2>1, <2>2, SameSources, Zenon
  <2> QED
    BY <2>3 DEF es
<1> QED
  BY <1>7, <1>11, <1>12

LEMMA UploadStep == ASSUME IInv, NEW d \in 1..Documents, Upload(d) PROVE IInv'
<1>1. /\ turns' = turns /\ memory' = memory /\ rec' = rec /\ pc' = pc /\ orphan' = orphan
      /\ sent' = sent /\ made' = made
  BY DEF Upload
<1>2. /\ DocsShaped' /\ Sources(docs', turns) = Sources(docs, turns)
      /\ LatestMaterial(docs') = LatestMaterial(docs)
  BY NothingToRead DEF IInv, TurnsInv, TurnsShaped
<1>3. TurnsInv'
  BY <1>1, SameTurns DEF IInv
<1>4. MemorySnapped' /\ SnapshotFresh'
  BY <1>1, <1>2, StillFresh
<1> QED
  BY <1>1, <1>2, <1>3, <1>4 DEF IInv, RecShaped

LEMMA UnderstandStep ==
    ASSUME IInv, NEW d \in 1..Documents, NEW result \in Results, Understand(d, result)
    PROVE  IInv'
<1> DEFINE row == [status |-> "live", result |-> result, shown |-> d]
<1>1. /\ docs \in [1..Documents -> DocRows] /\ docs[d] \in DocRows /\ docs[d].status = "live"
      /\ docs' = [docs EXCEPT ![d].result = result, ![d].shown = d]
  BY DEF Understand, IInv, DocsShaped
<1>2. docs' = [docs EXCEPT ![d] = row]
  <2>1. [docs[d] EXCEPT !.result = result, !.shown = d] = row
    <3>1. PICK st \in {"none", "live", "removed"}, re \in Results \cup {None},
               sh \in (1..Documents) \cup {None} :
              docs[d] = [status |-> st, result |-> re, shown |-> sh]
      BY <1>1 DEF DocRows
    <3>2. st = "live"
      BY <1>1, <3>1
    <3> DEFINE read == [status |-> st, result |-> result, shown |-> sh]
    <3>3. [docs[d] EXCEPT !.result = result] = read
      BY <3>1
    <3>4. [read EXCEPT !.shown = d] = row
      BY <3>2
    <3> HIDE DEF read
    <3> QED
      BY <3>3, <3>4
  <2>2. docs' = [docs EXCEPT ![d] = [docs[d] EXCEPT !.result = result, !.shown = d]]
    BY <1>1
  <2> QED
    BY <2>1, <2>2
<1>3. row \in DocRows /\ row.status # "none"
  BY DEF DocRows
<1>4. /\ Rebuild(docs', turns, rec.state.resolved)
      /\ UNCHANGED <<turns, rec, made, sent, pc>>
  BY DEF Understand
<1> HIDE DEF row
<1> QED
  BY <1>2, <1>3, <1>4, DocumentRead

LEMMA MisunderstandStep ==
    ASSUME IInv, NEW d \in 1..Documents, Misunderstand(d)
    PROVE  IInv'
<1> DEFINE row == [status |-> "live", result |-> docs[d].result, shown |-> d]
<1>1. /\ docs \in [1..Documents -> DocRows] /\ docs[d] \in DocRows /\ docs[d].status = "live"
      /\ docs' = [docs EXCEPT ![d].shown = d]
  BY DEF Misunderstand, IInv, DocsShaped
<1>2. docs' = [docs EXCEPT ![d] = row]
  <2>1. [docs[d] EXCEPT !.shown = d] = row
    BY <1>1 DEF DocRows
  <2>2. docs' = [docs EXCEPT ![d] = [docs[d] EXCEPT !.shown = d]]
    BY <1>1
  <2> QED
    BY <2>1, <2>2
<1>3. row \in DocRows /\ row.status # "none"
  BY <1>1 DEF DocRows
<1>4. /\ Rebuild(docs', turns, rec.state.resolved)
      /\ UNCHANGED <<turns, rec, made, sent, pc>>
  BY DEF Misunderstand
<1> HIDE DEF row
<1> QED
  BY <1>2, <1>3, <1>4, DocumentRead

LEMMA WithdrawStep == ASSUME IInv, NEW d \in 1..Documents, Withdraw(d) PROVE IInv'
<1> DEFINE row == [status |-> "removed", result |-> docs[d].result, shown |-> docs[d].shown]
<1>1. /\ docs \in [1..Documents -> DocRows] /\ docs[d] \in DocRows
      /\ docs' = [docs EXCEPT ![d].status = "removed"]
  BY DEF Withdraw, IInv, DocsShaped
<1>2. docs' = [docs EXCEPT ![d] = row]
  <2>1. [docs[d] EXCEPT !.status = "removed"] = row
    BY <1>1 DEF DocRows
  <2>2. docs' = [docs EXCEPT ![d] = [docs[d] EXCEPT !.status = "removed"]]
    BY <1>1
  <2> QED
    BY <2>1, <2>2
<1>3. row \in DocRows /\ row.status # "none"
  BY <1>1 DEF DocRows
<1>4. /\ Rebuild(docs', turns, rec.state.resolved)
      /\ UNCHANGED <<turns, rec, made, sent, pc>>
  BY DEF Withdraw
<1> HIDE DEF row
<1> QED
  BY <1>2, <1>3, <1>4, DocumentRead

\* A step of the session row alone: what is resolved stays as it is.
LEMMA RecStep ==
    ASSUME IInv, memory' \in {memory, Board}, UNCHANGED <<docs, turns, made, sent, pc, orphan>>,
           RecShaped', rec'.state.resolved = rec.state.resolved
    PROVE  IInv'
<1>1. docs' = docs /\ turns' = turns /\ pc' = pc /\ orphan' = orphan
  OBVIOUS
<1>2. Sources(docs', turns') = Sources(docs, turns) /\ LatestMaterial(docs') = LatestMaterial(docs)
  BY <1>1
<1>3. MemorySnapped' /\ SnapshotFresh'
  BY <1>1, <1>2, StillFresh
<1>4. TurnsInv'
  BY SameTurns DEF IInv
<1>5. DocsShaped'
  BY <1>1 DEF IInv, DocsShaped
<1> QED
  BY <1>3, <1>4, <1>5 DEF IInv

LEMMA AppliedShape ==
    ASSUME RecShaped, NEW a
    PROVE  LET r == Applied(rec, a) IN
           /\ DOMAIN r = {"family", "phase", "decision", "focus", "state"}
           /\ DOMAIN r.state = {"status", "advisory", "review", "resolved", "view"}
           /\ r.state.resolved = rec.state.resolved /\ r.decision = a.decision
  BY DEF Applied, RecShaped

LEMMA SessionSteps ==
    ASSUME IInv, RefreshMaterial \/ SkipRefresh \/ Declare
    PROVE  IInv'
<1>1. ASSUME RefreshMaterial PROVE IInv'
  <2> DEFINE a == MaterialAnswer(rec.decision, rec.focus, Board, rec.state.advisory)
  <2>1. /\ rec' = Applied(rec, a) /\ memory' = Board
        /\ UNCHANGED <<docs, turns, made, sent, pc, orphan>>
    BY <1>1 DEF RefreshMaterial
  <2> HIDE DEF a
  <2>2. RecShaped' /\ rec'.state.resolved = rec.state.resolved
    BY <2>1, AppliedShape DEF IInv, RecShaped
  <2> QED
    BY <2>1, <2>2, RecStep
<1>2. ASSUME SkipRefresh PROVE IInv'
  <2>1. rec' = rec /\ memory' = memory /\ UNCHANGED <<docs, turns, made, sent, pc, orphan>>
    BY <1>2 DEF SkipRefresh
  <2>2. RecShaped' /\ rec'.state.resolved = rec.state.resolved
    BY <2>1 DEF IInv, RecShaped
  <2> QED
    BY <2>1, <2>2, RecStep
<1>3. ASSUME Declare PROVE IInv'
  <2>1. /\ rec' = [rec EXCEPT !.family = TRUE] /\ memory' = memory
        /\ UNCHANGED <<docs, turns, made, sent, pc, orphan>>
    BY <1>3 DEF Declare
  <2>2. RecShaped' /\ rec'.state.resolved = rec.state.resolved
    BY <2>1 DEF IInv, RecShaped
  <2> QED
    BY <2>1, <2>2, RecStep
<1> QED
  BY <1>1, <1>2, <1>3

LEMMA ResolveStep == ASSUME IInv, NEW k, Resolve(k) PROVE IInv'
<1>1. /\ rec' = [rec EXCEPT !.state.resolved = @ \cup {k}]
      /\ Rebuild(docs, turns, rec'.state.resolved)
      /\ docs' = docs /\ turns' = turns /\ made' = made /\ sent' = sent /\ pc' = pc
  BY DEF Resolve
<1>2. TurnsInv' /\ TurnsShaped'
  BY <1>1, SameTurns DEF IInv, TurnsInv
<1>3. DocsShaped'
  BY <1>1 DEF IInv, DocsShaped
<1>4. RecShaped'
  BY <1>1 DEF IInv, RecShaped
<1>5. MemorySnapped' /\ SnapshotFresh'
  BY <1>1, <1>2, <1>3, Rebuilt
<1> QED
  BY <1>2, <1>3, <1>4, <1>5 DEF IInv

-----------------------------------------------------------------------------
(* The invariant: messages.                                                *)

\* A turn that claims nothing is no part of the snapshot.
LEMMA UncapturedTurn ==
    ASSUME NEW ds \in [1..Documents -> DocRows], NEW ts, IsSequence(ts), NEW us,
           NEW n \in Nat, DOMAIN ts = 1..n,
           DOMAIN us \in SUBSET Nat, DOMAIN ts \subseteq DOMAIN us,
           \A i \in DOMAIN ts : us[i] = ts[i],
           \A i \in DOMAIN us \ DOMAIN ts : ~ (us[i].role = "user" /\ us[i].claimed)
    PROVE  Sources(ds, us) = Sources(ds, ts)
<1>1. Captured(us) = Captured(ts)
  BY DEF Captured
<1>2. \A i \in Captured(ts) : us[i].id = ts[i].id /\ us[i].says = ts[i].says
  BY DEF Captured
<1>3. \A d \in Understood(ds) : ds[d].result = ds[d].result
  OBVIOUS
<1> QED
  BY <1>1, <1>2, <1>3, SameSources

\* One more turn, sent or not.
LEMMA OneMore ==
    ASSUME TurnsInv, NEW t, DOMAIN t = TurnFields, t.id = made + 1,
           turns' = Append(turns, t), made' = made + 1,
           \/ sent' = sent
           \/ /\ DOMAIN sent' = DOMAIN sent \cup {made + 1}
              /\ \A n \in DOMAIN sent : n # made + 1 => sent'[n] = sent[n]
              /\ KeptAs(t, sent'[made + 1]),
           \/ pc' = "idle"
           \/ pc' = "posted" /\ t.claimed = FALSE
    PROVE  TurnsInv'
<1> DEFINE len == Len(turns)
<1>1. /\ IsSequence(turns') /\ len \in Nat /\ DOMAIN turns = 1..len
      /\ Len(turns') = len + 1 /\ DOMAIN turns' = 1..(len + 1)
      /\ \A i \in 1..len : turns'[i] = turns[i]
      /\ turns'[len + 1] = t
  BY Appended DEF TurnsInv, TurnsShaped
<1>2. /\ made \in Nat /\ \A i \in DOMAIN turns : turns[i].id \in 1..made
      /\ DOMAIN sent \subseteq 1..made
  BY DEF TurnsInv, Numbered
<1>3. \A i \in DOMAIN turns : DOMAIN turns[i] = TurnFields
  BY DEF TurnsInv, TurnsShaped
<1>4. \A i \in DOMAIN turns : turns[i].id \in DOMAIN sent => KeptAs(turns[i], sent[turns[i].id])
  BY DEF TurnsInv, KeptAsSent
<1> HIDE DEF len
<1>5. TurnsShaped'
  BY <1>1, <1>3 DEF TurnsShaped
<1>6. Posted'
  BY <1>1 DEF Posted
<1>7. Numbered'
  <2>1. made' \in Nat /\ DOMAIN sent' \subseteq 1..made'
    BY <1>2
  <2>2. ASSUME NEW i \in DOMAIN turns' PROVE turns'[i].id \in 1..made'
    <3>1. CASE i = len + 1
      BY <1>1, <1>2, <3>1
    <3>2. CASE i # len + 1
      <4>1. i \in 1..len
        BY <1>1, <3>2
      <4> QED
        BY <1>1, <1>2, <4>1
    <3> QED
      BY <3>1, <3>2
  <2> QED
    BY <2>1, <2>2 DEF Numbered
<1>8. KeptAsSent'
  <2>1. ASSUME NEW i \in DOMAIN turns', turns'[i].id \in DOMAIN sent'
        PROVE  KeptAs(turns'[i], sent'[turns'[i].id])
    <3>1. CASE i = len + 1
      <4>1. turns'[i] = t /\ made + 1 \notin DOMAIN sent
        BY <1>1, <1>2, <3>1
      <4> QED
        BY <2>1, <4>1
    <3>2. CASE i # len + 1
      <4>1. i \in DOMAIN turns /\ turns'[i] = turns[i]
        BY <1>1, <3>2
      <4>2. turns[i].id # made + 1
        BY <1>2, <4>1
      <4>3. turns[i].id \in DOMAIN sent /\ sent'[turns[i].id] = sent[turns[i].id]
        BY <2>1, <4>1, <4>2
      <4> QED
        BY <1>4, <4>1, <4>3
    <3> QED
      BY <3>1, <3>2
  <2> QED
    BY <2>1 DEF KeptAsSent
<1> QED
  BY <1>5, <1>6, <1>7, <1>8 DEF TurnsInv

LEMMA PostStep == ASSUME IInv, NEW reply, Post(reply) PROVE IInv'
<1> DEFINE t == UserTurn(made + 1, reply)
<1>1. /\ pc = "idle" /\ turns' = Append(turns, t) /\ made' = made + 1 /\ pc' = "posted"
      /\ docs' = docs /\ memory' = memory /\ rec' = rec /\ orphan' = orphan /\ sent' = sent
  BY DEF Post
<1>2. /\ DOMAIN t = TurnFields /\ t.id = made + 1 /\ t.claimed = FALSE
  BY DEF UserTurn, TurnFields
<1> HIDE DEF t
<1>3. TurnsInv'
  BY <1>1, <1>2, OneMore DEF IInv
<1>4. docs \in [1..Documents -> DocRows] /\ IsSequence(turns)
  BY DEF IInv, DocsShaped, TurnsInv, TurnsShaped
<1>5. /\ Len(turns) \in Nat /\ DOMAIN turns = 1..Len(turns)
      /\ DOMAIN turns' = 1..(Len(turns) + 1)
      /\ \A i \in 1..Len(turns) : turns'[i] = turns[i]
      /\ turns'[Len(turns) + 1] = t
  BY <1>1, <1>4, Appended
<1>6. Sources(docs', turns') = Sources(docs, turns)
  <2>1. /\ DOMAIN turns' \in SUBSET Nat /\ DOMAIN turns \subseteq DOMAIN turns'
        /\ \A i \in DOMAIN turns : turns'[i] = turns[i]
        /\ \A i \in DOMAIN turns' \ DOMAIN turns : i = Len(turns) + 1
    BY <1>5
  <2>2. \A i \in DOMAIN turns' \ DOMAIN turns : ~ (turns'[i].role = "user" /\ turns'[i].claimed)
    BY <1>2, <1>5, <2>1
  <2> QED
    BY <1>1, <1>4, <1>5, <2>1, <2>2, UncapturedTurn
<1>7. MemorySnapped' /\ SnapshotFresh'
  BY <1>1, <1>6, StillFresh
<1> QED
  BY <1>1, <1>3, <1>7 DEF IInv, DocsShaped, RecShaped

\* An answer's own turn is the last that speaks, so the view read back is that
\* of this turn.
LEMMA OwnView ==
    ASSUME NEW r, IsSequence(turns), NEW t, t.role = "assistant", t.synced = FALSE
    PROVE  LET view == LatestView(r, Append(turns, t)) IN
           view.source = t.id /\ view.says = t.message
<1> DEFINE ts == Append(turns, t)
           n == Len(turns) + 1
<1>1. /\ n \in Nat \ {0} /\ DOMAIN ts = 1..n /\ ts[n] = t
  BY Appended
<1> HIDE DEF ts, n
<1>2. Spoken(ts) \in SUBSET (1..n) /\ n \in Spoken(ts)
  <2>1. n \in DOMAIN ts /\ ts[n].role = "assistant"
    BY <1>1
  <2> QED
    BY <1>1, <2>1 DEF Spoken
<1>3. LastOf(Spoken(ts)) \in 1..n /\ n <= LastOf(Spoken(ts))
  BY <1>1, <1>2, LastIsThere
<1>4. LastOf(Spoken(ts)) = n
  BY <1>1, <1>3
<1>5. LatestView(r, ts) = DerivedView(r, ts, t)
  BY <1>1, <1>2, <1>4 DEF LatestView
<1>6. DerivedView(r, ts, t).source = t.id /\ DerivedView(r, ts, t).says = t.message
  BY DEF DerivedView
<1> QED
  BY <1>5, <1>6 DEF ts

\* An answer is written: its turn keeps what is sent.
LEMMA WriteStep ==
    ASSUME IInv, pc # "failed", NEW r, NEW a, Write(r, a),
           DOMAIN r = {"family", "phase", "decision", "focus", "state"},
           DOMAIN r.state = {"status", "advisory", "review", "resolved", "view"},
           r.state.resolved = rec.state.resolved, UNCHANGED <<docs, memory, orphan>>
    PROVE  IInv'
<1> DEFINE turn == AssistantTurn(made + 1, a.message, a.record)
           view == LatestView(r, Append(turns, turn))
           response == Synchronised(r, Append(turns, turn), a)
           t == [turn EXCEPT !.synced = TRUE, !.kept = Kept(response)]
<1>1. /\ rec' = r /\ made' = made + 1 /\ pc' = "idle" /\ turns' = Append(turns, t)
      /\ sent' = [n \in DOMAIN sent \cup {made + 1} |-> IF n = made + 1 THEN response ELSE sent[n]]
      /\ docs' = docs /\ memory' = memory /\ orphan' = orphan
  BY DEF Write
<1>2. docs \in [1..Documents -> DocRows] /\ IsSequence(turns) /\ made \in Nat
  BY DEF IInv, DocsShaped, TurnsInv, TurnsShaped, Numbered
<1>3. view.source = made + 1
  <2>1. turn.role = "assistant" /\ turn.synced = FALSE /\ turn.id = made + 1
    BY DEF AssistantTurn
  <2> HIDE DEF turn
  <2> QED
    BY <1>2, <2>1, OwnView
<1>4. view.source # None
  BY <1>2, <1>3, NoneIsNobody
<1> HIDE DEF view
<1>5. /\ response.message = a.message /\ response.record = a.record /\ response.view = view
      /\ response.requested = view.requested /\ response.remaining = view.remaining
      /\ response.turn = TurnDecision(a.account, view) /\ response.turn.account = a.account
      /\ response.review = IF view.review # {} THEN view.review ELSE a.review
      /\ response = [message |-> response.message, advisory |-> response.advisory,
                     governor |-> response.governor, requested |-> response.requested,
                     remaining |-> response.remaining,
                     turn |-> response.turn, record |-> response.record,
                     view |-> response.view, review |-> response.review]
  BY <1>4 DEF Synchronised, Sent, TurnDecision, view
<1>6. /\ Kept(response).governor = response.governor /\ Kept(response).review = response.review
      /\ Kept(response).view = response.view
  BY DEF Kept
<1> DEFINE kept == Kept(response)
<1>7. /\ t.id = made + 1 /\ t.role = "assistant" /\ t.synced /\ t.claimed = FALSE
      /\ t.message = a.message /\ t.record = a.record /\ t.kept = kept
      /\ DOMAIN t = TurnFields
  <2> HIDE DEF kept, response
  <2> DEFINE u == [turn EXCEPT !.synced = TRUE]
  <2>1. /\ u.id = made + 1 /\ u.role = "assistant" /\ u.synced = TRUE /\ u.claimed = FALSE
        /\ u.message = a.message /\ u.record = a.record /\ DOMAIN u = TurnFields
    BY DEF AssistantTurn, TurnFields
  <2>2. t = [u EXCEPT !.kept = kept]
    BY DEF kept
  <2> HIDE DEF u, t
  <2> QED
    BY <2>1, <2>2 DEF TurnFields
<1> HIDE DEF response, t, kept
<1>8. KeptAs(t, response)
  BY <1>3, <1>5, <1>6, <1>7 DEF KeptAs, kept
<1>9. /\ DOMAIN sent' = DOMAIN sent \cup {made + 1} /\ sent'[made + 1] = response
      /\ \A n \in DOMAIN sent : n # made + 1 => sent'[n] = sent[n]
  BY <1>1
<1>10. TurnsInv'
  BY <1>1, <1>7, <1>8, <1>9, OneMore DEF IInv
<1>11. /\ Len(turns) \in Nat /\ DOMAIN turns = 1..Len(turns)
       /\ DOMAIN turns' = 1..(Len(turns) + 1)
       /\ \A i \in 1..Len(turns) : turns'[i] = turns[i]
       /\ turns'[Len(turns) + 1] = t
  BY <1>1, <1>2, Appended
<1>12. Sources(docs', turns') = Sources(docs, turns)
  <2>1. /\ DOMAIN turns' \in SUBSET Nat /\ DOMAIN turns \subseteq DOMAIN turns'
        /\ \A i \in DOMAIN turns : turns'[i] = turns[i]
        /\ \A i \in DOMAIN turns' \ DOMAIN turns : i = Len(turns) + 1
    BY <1>11
  <2>2. \A i \in DOMAIN turns' \ DOMAIN turns : ~ (turns'[i].role = "user" /\ turns'[i].claimed)
    BY <1>7, <1>11, <2>1
  <2>3. docs' = docs
    BY <1>1
  <2>4. Sources(docs, turns') = Sources(docs, turns)
    BY <1>2, <1>11, <2>1, <2>2, UncapturedTurn
  <2> QED
    BY <2>3, <2>4
<1>13. MemorySnapped' /\ SnapshotFresh'
  BY <1>1, <1>12, StillFresh
<1> QED
  BY <1>1, <1>10, <1>13 DEF IInv, DocsShaped, RecShaped

LEMMA AnswerSteps == ASSUME IInv, Respond \/ GateReply PROVE IInv'
<1>1. ASSUME Respond PROVE IInv'
  <2>1. /\ pc # "failed" /\ Write(Applied(rec, answer), answer) /\ UNCHANGED <<docs, memory, orphan>>
    BY <1>1 DEF Respond
  <2>2. RecShaped
    BY DEF IInv
  <2> DEFINE r == Applied(rec, answer)
  <2>3. /\ DOMAIN r = {"family", "phase", "decision", "focus", "state"}
        /\ DOMAIN r.state = {"status", "advisory", "review", "resolved", "view"}
        /\ r.state.resolved = rec.state.resolved
    BY <2>2, AppliedShape
  <2> HIDE DEF r
  <2> QED
    BY <2>1, <2>3, WriteStep DEF r
<1>2. ASSUME GateReply PROVE IInv'
  <2> DEFINE a == GateAnswer(GateMessage)
             r == [rec EXCEPT !.decision = a.decision, !.focus = a.record.focus]
  <2>1. pc # "failed" /\ Write(r, a) /\ UNCHANGED <<docs, memory, orphan>>
    BY <1>2 DEF GateReply
  <2> HIDE DEF a
  <2>2. /\ DOMAIN r = {"family", "phase", "decision", "focus", "state"}
        /\ DOMAIN r.state = {"status", "advisory", "review", "resolved", "view"}
        /\ r.state.resolved = rec.state.resolved
    BY DEF IInv, RecShaped
  <2> HIDE DEF r
  <2> QED
    BY <2>1, <2>2, WriteStep
<1> QED
  BY <1>1, <1>2

\* Rows and memory: the model is asked, and the snapshot is filled in.
LEMMA AskStep == ASSUME IInv, NEW output, Ask(output) PROVE IInv'
<1>1. /\ pc = "captured" /\ pc' = "asked" /\ memory' = Board
      /\ docs' = docs /\ turns' = turns /\ rec' = rec /\ orphan' = orphan
      /\ sent' = sent /\ made' = made
  BY DEF Ask
<1>2. TurnsInv'
  BY <1>1 DEF IInv, TurnsInv, TurnsShaped, Posted, Numbered, KeptAsSent
<1>3. MemorySnapped' /\ SnapshotFresh'
  BY <1>1, StillFresh
<1> QED
  BY <1>1, <1>2, <1>3 DEF IInv, DocsShaped, RecShaped

\* The last turn is marked with what it claims: nothing, if it states nothing.
LEMMA CaptureStep == ASSUME IInv, Capture PROVE IInv'
<1> DEFINE n == Len(turns)
           last == [Latest EXCEPT !.claimed = Latest.says # None]
<1>1. /\ pc = "posted" /\ pc' = "captured"
      /\ turns' = [turns EXCEPT ![n].claimed = Latest.says # None]
      /\ Latest.says # None => Rebuild(docs, turns', rec.state.resolved)
      /\ Latest.says = None => memory' = memory /\ orphan' = orphan
      /\ docs' = docs /\ rec' = rec /\ sent' = sent /\ made' = made
  BY DEF Capture
<1>2. /\ docs \in [1..Documents -> DocRows] /\ IsSequence(turns) /\ n > 0
      /\ turns[n].claimed = FALSE /\ Latest = turns[n]
  BY <1>1 DEF IInv, DocsShaped, TurnsInv, TurnsShaped, Posted, Latest
<1>3. n \in DOMAIN turns /\ n \in Nat /\ DOMAIN turns = 1..n
  BY <1>2, SequenceOf DEF IsSequence
<1>4. DOMAIN turns[n] = TurnFields
  BY <1>3 DEF IInv, TurnsInv, TurnsShaped
<1>5. turns' = [turns EXCEPT ![n] = last]
  BY <1>1, <1>2
<1>6. /\ DOMAIN last = TurnFields /\ last.id = turns[n].id /\ last.role = turns[n].role
      /\ last.says = turns[n].says /\ last.message = turns[n].message
      /\ last.record = turns[n].record /\ last.synced = turns[n].synced
      /\ last.kept = turns[n].kept /\ last.claimed = (turns[n].says # None)
  BY <1>2, <1>4 DEF TurnFields
<1> HIDE DEF last
<1>7. /\ IsSequence(turns') /\ Len(turns') = n /\ DOMAIN turns' = DOMAIN turns
      /\ turns'[n] = last /\ \A i \in DOMAIN turns : i # n => turns'[i] = turns[i]
  <2>1. IsSequence(turns') /\ Len(turns') = n /\ DOMAIN turns' = DOMAIN turns
    BY <1>2, <1>3, <1>5, Replaced
  <2>2. turns'[n] = last /\ \A i \in DOMAIN turns : i # n => turns'[i] = turns[i]
    BY <1>3, <1>5
  <2> QED
    BY <2>1, <2>2
<1> HIDE DEF n
<1>8. TurnsShaped'
  BY <1>4, <1>6, <1>7 DEF IInv, TurnsInv, TurnsShaped
<1>9. Posted'
  BY <1>1, <1>2, <1>7 DEF Posted
<1>10. Numbered'
  <2>1. \A i \in DOMAIN turns' : turns'[i].id = turns[i].id
    BY <1>6, <1>7
  <2> QED
    BY <1>1, <1>7, <2>1 DEF IInv, TurnsInv, Numbered
<1>11. KeptAsSent'
  <2>1. ASSUME NEW i \in DOMAIN turns', turns'[i].id \in DOMAIN sent
        PROVE  KeptAs(turns'[i], sent[turns'[i].id])
    <3>1. CASE i # n
      <4>1. turns'[i] = turns[i] /\ i \in DOMAIN turns
        BY <1>7, <3>1
      <4> QED
        BY <2>1, <4>1 DEF IInv, TurnsInv, KeptAsSent
    <3>2. CASE i = n
      <4>1. turns'[i] = last /\ turns[n].id \in DOMAIN sent
        BY <1>6, <1>7, <2>1, <3>2
      <4>2. KeptAs(turns[n], sent[turns[n].id])
        BY <1>3, <4>1 DEF IInv, TurnsInv, KeptAsSent
      <4>3. KeptAs(last, sent[turns[n].id])
        BY <1>6, <4>2 DEF KeptAs
      <4> QED
        BY <1>6, <4>1, <4>3
    <3> QED
      BY <3>1, <3>2
  <2> QED
    BY <1>1, <2>1 DEF KeptAsSent
<1>12. TurnsInv'
  BY <1>8, <1>9, <1>10, <1>11 DEF TurnsInv
<1>13. MemorySnapped' /\ SnapshotFresh'
  <2>1. CASE Latest.says # None
    <3>1. DocsShaped'
      BY <1>1 DEF IInv, DocsShaped
    <3>2. Rebuild(docs', turns', rec'.state.resolved)
      BY <1>1, <2>1
    <3> QED
      BY <1>8, <3>1, <3>2, Rebuilt
  <2>2. CASE Latest.says = None
    <3>1. last.claimed = FALSE
      BY <1>2, <1>6, <2>2
    <3>2. Captured(turns') = Captured(turns)
      BY <1>2, <1>7, <3>1 DEF Captured
    <3>3. \A i \in Captured(turns) : turns'[i].id = turns[i].id /\ turns'[i].says = turns[i].says
      BY <1>6, <1>7 DEF Captured
    <3>4. \A d \in Understood(docs) : docs[d].result = docs[d].result
      OBVIOUS
    <3>5. Sources(docs, turns') = Sources(docs, turns)
      BY <1>2, <3>2, <3>3, <3>4, SameSources
    <3> QED
      BY <1>1, <2>2, <3>5, StillFresh
  <2> QED
    BY <2>1, <2>2
<1> QED
  BY <1>1, <1>12, <1>13 DEF IInv, DocsShaped, RecShaped

\* The message of a failing handler is gone at once, its claims when the
\* snapshot is built again.
LEMMA FailStep == ASSUME IInv, Fail PROVE IInv'
<1>1. /\ pc \in {"posted", "captured", "asked"} /\ pc' = "failed"
      /\ turns' = SubSeq(turns, 1, Len(turns) - 1)
      /\ docs' = docs /\ memory' = memory /\ rec' = rec /\ sent' = sent /\ made' = made
  BY DEF Fail
<1>2. IsSequence(turns) /\ Len(turns) > 0
  BY <1>1 DEF IInv, TurnsInv, TurnsShaped, Posted
<1>3. IsSequence(turns') /\ \A i \in DOMAIN turns' : i \in DOMAIN turns /\ turns'[i] = turns[i]
  BY <1>1, <1>2, Shortened
<1>4. TurnsShaped' /\ Posted' /\ Numbered' /\ KeptAsSent'
  BY <1>1, <1>3 DEF IInv, TurnsInv, TurnsShaped, Posted, Numbered, KeptAsSent
<1>5. SnapshotFresh'
  BY <1>1 DEF SnapshotFresh
<1> QED
  BY <1>1, <1>4, <1>5 DEF IInv, DocsShaped, RecShaped, TurnsInv, MemorySnapped

LEMMA CleanUpSteps == ASSUME IInv, CleanUp \/ CleanUpFails PROVE IInv'
<1>1. /\ pc' = "idle" /\ docs' = docs /\ turns' = turns /\ rec' = rec /\ sent' = sent
      /\ made' = made
  BY DEF CleanUp, CleanUpFails
<1>2. TurnsInv' /\ TurnsShaped' /\ DocsShaped' /\ RecShaped'
  BY <1>1 DEF IInv, DocsShaped, RecShaped, TurnsInv, TurnsShaped, Posted, Numbered, KeptAsSent
<1>3. ASSUME CleanUp PROVE MemorySnapped' /\ SnapshotFresh'
  <2>1. Rebuild(docs', turns', rec'.state.resolved)
    BY <1>1, <1>3 DEF CleanUp
  <2> QED
    BY <1>2, <2>1, Rebuilt
<1>4. ASSUME CleanUpFails PROVE MemorySnapped' /\ SnapshotFresh'
  BY <1>1, <1>4 DEF CleanUpFails, IInv, MemorySnapped, SnapshotFresh
<1> QED
  BY <1>2, <1>3, <1>4 DEF IInv

LEMMA ImportStep == ASSUME IInv, NEW reply, NEW message, Import(reply, message) PROVE IInv'
<1> DEFINE said == [UserTurn(made + 1, reply) EXCEPT !.claimed = reply.says # None]
           told == AssistantTurn(made + 2, message, None)
           n == Len(turns)
<1>1. /\ pc = "idle" /\ pc' = "idle" /\ turns' = Append(Append(turns, said), told)
      /\ reply.says # None => Rebuild(docs, turns', rec.state.resolved)
      /\ reply.says = None => memory' = memory /\ orphan' = orphan
      /\ made' = made + 2 /\ docs' = docs /\ rec' = rec /\ sent' = sent
  BY DEF Import
<1>2. docs \in [1..Documents -> DocRows] /\ IsSequence(turns)
  BY DEF IInv, DocsShaped, TurnsInv, TurnsShaped
<1>3. /\ made \in Nat /\ DOMAIN sent \subseteq 1..made
      /\ \A i \in DOMAIN turns : turns[i].id \in 1..made
  BY DEF IInv, TurnsInv, Numbered
<1>4. /\ said.id = made + 1 /\ DOMAIN said = TurnFields /\ said.claimed = (reply.says # None)
      /\ told.id = made + 2 /\ DOMAIN told = TurnFields /\ told.role = "assistant"
  BY DEF UserTurn, AssistantTurn, TurnFields
<1> HIDE DEF said, told
<1>5. /\ IsSequence(turns') /\ n \in Nat /\ DOMAIN turns = 1..n /\ DOMAIN turns' = 1..(n + 2)
      /\ \A i \in 1..n : turns'[i] = turns[i]
      /\ turns'[n + 1] = said /\ turns'[n + 2] = told
  <2> DEFINE ts == Append(turns, said)
  <2>1. /\ IsSequence(ts) /\ n \in Nat /\ DOMAIN turns = 1..n /\ Len(ts) = n + 1
        /\ \A i \in 1..n : ts[i] = turns[i]
        /\ ts[n + 1] = said
    BY <1>2, Appended
  <2>2. turns' = Append(ts, told)
    BY <1>1
  <2> HIDE DEF ts
  <2>3. /\ IsSequence(turns') /\ DOMAIN turns' = 1..(n + 2)
        /\ \A i \in 1..(n + 1) : turns'[i] = ts[i]
        /\ turns'[n + 2] = told
    BY <2>1, <2>2, Appended
  <2> QED
    BY <2>1, <2>3
<1> HIDE DEF n
<1>6. ASSUME NEW i \in DOMAIN turns' PROVE i \in 1..n \/ i = n + 1 \/ i = n + 2
  BY <1>5
<1>7. TurnsShaped'
  <2>1. ASSUME NEW i \in DOMAIN turns' PROVE DOMAIN turns'[i] = TurnFields
    BY <1>4, <1>5, <1>6 DEF IInv, TurnsInv, TurnsShaped
  <2> QED
    BY <1>5, <2>1 DEF TurnsShaped
<1>8. Posted'
  BY <1>1 DEF Posted
<1>9. Numbered'
  <2>1. ASSUME NEW i \in DOMAIN turns' PROVE turns'[i].id \in 1..made'
    <3>1. CASE i \in 1..n
      BY <1>1, <1>3, <1>5, <3>1
    <3>2. CASE i = n + 1 \/ i = n + 2
      BY <1>1, <1>3, <1>4, <1>5, <3>2
    <3> QED
      BY <1>6, <3>1, <3>2
  <2>2. made' \in Nat /\ DOMAIN sent' \subseteq 1..made'
    BY <1>1, <1>3
  <2> QED
    BY <2>1, <2>2 DEF Numbered
<1>10. KeptAsSent'
  <2>1. ASSUME NEW i \in DOMAIN turns', turns'[i].id \in DOMAIN sent
        PROVE  KeptAs(turns'[i], sent[turns'[i].id])
    <3>1. CASE i \in 1..n
      BY <1>5, <2>1, <3>1 DEF IInv, TurnsInv, KeptAsSent
    <3>2. CASE i = n + 1 \/ i = n + 2
      BY <1>3, <1>4, <1>5, <2>1, <3>2
    <3> QED
      BY <1>6, <3>1, <3>2
  <2> QED
    BY <1>1, <2>1 DEF KeptAsSent
<1>11. MemorySnapped' /\ SnapshotFresh'
  <2>1. CASE reply.says # None
    <3>1. DocsShaped'
      BY <1>1 DEF IInv, DocsShaped
    <3>2. Rebuild(docs', turns', rec'.state.resolved)
      BY <1>1, <2>1
    <3> QED
      BY <1>7, <3>1, <3>2, Rebuilt
  <2>2. CASE reply.says = None
    <3>1. /\ DOMAIN turns' \in SUBSET Nat /\ DOMAIN turns \subseteq DOMAIN turns'
          /\ \A i \in DOMAIN turns : turns'[i] = turns[i]
      BY <1>5
    <3>2. \A i \in DOMAIN turns' \ DOMAIN turns : ~ (turns'[i].role = "user" /\ turns'[i].claimed)
      <4>1. ASSUME NEW i \in DOMAIN turns' \ DOMAIN turns
            PROVE  ~ (turns'[i].role = "user" /\ turns'[i].claimed)
        <5>1. i = n + 1 \/ i = n + 2
          BY <1>5, <1>6
        <5>2. said.claimed = FALSE
          BY <1>4, <2>2
        <5> QED
          BY <1>4, <1>5, <5>1, <5>2
      <4> QED
        BY <4>1
    <3>3. Sources(docs, turns') = Sources(docs, turns)
      BY <1>2, <1>5, <3>1, <3>2, UncapturedTurn
    <3> QED
      BY <1>1, <2>2, <3>3, StillFresh
  <2> QED
    BY <2>1, <2>2
<1> QED
  BY <1>1, <1>7, <1>8, <1>9, <1>10, <1>11 DEF IInv, DocsShaped, RecShaped, TurnsInv

-----------------------------------------------------------------------------
(* The invariant holds.                                                    *)

LEMMA InitIInv == ASSUME Init PROVE IInv
<1>1. turns = <<>> /\ memory = None /\ pc = "idle" /\ made = 0 /\ DOMAIN sent = {}
  BY DEF Init
<1>2. DocsShaped
  <2>1. docs = [d \in 1..Documents |-> [status |-> "none", result |-> None, shown |-> None]]
    BY DEF Init
  <2> QED
    BY <2>1 DEF DocsShaped, DocRows
<1>3. RecShaped
  <2>1. rec = [family |-> FALSE, phase |-> "interview", decision |-> None, focus |-> Nothing,
               state |-> [status |-> None, advisory |-> None, review |-> {}, resolved |-> {},
                          view |-> None]]
    BY DEF Init
  <2> QED
    BY <2>1 DEF RecShaped
<1>4. TurnsInv
  BY <1>1 DEF TurnsInv, TurnsShaped, IsSequence, Posted, Numbered, KeptAsSent
<1>5. MemorySnapped /\ SnapshotFresh
  BY <1>1 DEF MemorySnapped, SnapshotFresh
<1> QED
  BY <1>2, <1>3, <1>4, <1>5 DEF IInv

LEMMA NextIInv == ASSUME IInv, [Next]_vars PROVE IInv'
<1>1. CASE UNCHANGED vars
  BY <1>1 DEF vars, IInv, DocsShaped, RecShaped, TurnsInv, TurnsShaped, Posted, Numbered,
              KeptAsSent, MemorySnapped, SnapshotFresh
<1>2. ASSUME NEW d \in 1..Documents, Upload(d) \/ Misunderstand(d) \/ Withdraw(d) PROVE IInv'
  BY <1>2, UploadStep, MisunderstandStep, WithdrawStep
<1>3. ASSUME NEW d \in 1..Documents, NEW r \in Results, Understand(d, r) PROVE IInv'
  BY <1>3, UnderstandStep
<1>4. CASE RefreshMaterial \/ SkipRefresh \/ Declare
  BY <1>4, SessionSteps
<1>5. CASE Capture \/ Respond \/ GateReply \/ Fail \/ CleanUp \/ CleanUpFails
  BY <1>5, CaptureStep, AnswerSteps, FailStep, CleanUpSteps
<1>6. ASSUME NEW reply \in Replies, Post(reply) PROVE IInv'
  BY <1>6, PostStep
<1>7. ASSUME NEW reply \in Replies, NEW o \in Outputs, Import(reply, o.message) PROVE IInv'
  BY <1>7, ImportStep
<1>8. ASSUME NEW o \in Outputs, Ask(o) PROVE IInv'
  BY <1>8, AskStep
<1>9. ASSUME NEW c \in memory.conflicts, Resolve(c.id) PROVE IInv'
  BY <1>9, ResolveStep
<1> QED
  BY <1>1, <1>2, <1>3, <1>4, <1>5, <1>6, <1>7, <1>8, <1>9 DEF Next

\* The snapshot that is stored is always one that was built from documents,
\* turns and resolutions (ids unique, nothing resolved in conflict), and the
\* turns keep what was sent (build_snapshot, _append_assistant_turn).
THEOREM InterviewInvariant == Spec => []IInv
  BY InitIInv, NextIInv, PTL DEF Spec

-----------------------------------------------------------------------------
(* The theorems.                                                           *)

\* Every writer of documents, claims and resolutions leaves the snapshot that
\* the case then has, but for a clean-up that is not done
\* (rebuild_and_persist, whoever calls it).
THEOREM SnapshotIsFresh == Spec => []SnapshotFresh
  BY InterviewInvariant, PTL DEF IInv

-----------------------------------------------------------------------------
(* An answer sent again.                                                   *)

\* What the handler of a message holds: an answer whose record says what it
\* decided, for a turn that is not answered.
Pending ==
    /\ pc = "asked" => answer.record.decision = answer.decision
    /\ pc \in {"posted", "captured", "asked"} => turns[Len(turns)].synced = FALSE

\* A refusal that was sent, in a turn that is still there.
RefusalAt(i) == turns[i].id \in DOMAIN sent /\ sent[turns[i].id].governor = "simulated_refusal"

\* A closed session was closed by an answer.
ClosedByAnswer == Closed(rec) => \E i \in DOMAIN turns : RefusalAt(i)

ReplayInv == Pending /\ ClosedByAnswer

\* Turns that stay, with what was sent for them, keep the refusals.
LEMMA RefusalsStay ==
    ASSUME ClosedByAnswer, Closed(rec)' => Closed(rec),
           \A i \in DOMAIN turns : RefusalAt(i) => i \in DOMAIN turns' /\ turns'[i].id = turns[i].id,
           \A n \in DOMAIN sent : n \in DOMAIN sent' /\ (n \in 1..made => sent'[n] = sent[n]),
           Numbered
    PROVE  ClosedByAnswer'
<1> SUFFICES ASSUME Closed(rec)' PROVE (\E i \in DOMAIN turns : RefusalAt(i))'
  BY DEF ClosedByAnswer
<1>1. PICK i \in DOMAIN turns : RefusalAt(i)
  BY DEF ClosedByAnswer
<1>2. i \in DOMAIN turns' /\ turns'[i].id = turns[i].id /\ turns[i].id \in DOMAIN sent
  BY <1>1 DEF RefusalAt
<1>3. turns[i].id \in 1..made
  BY DEF Numbered
<1>4. sent'[turns[i].id] = sent[turns[i].id] /\ turns[i].id \in DOMAIN sent'
  BY <1>2, <1>3
<1>5. sent'[turns'[i].id].governor = "simulated_refusal" /\ turns'[i].id \in DOMAIN sent'
  BY <1>1, <1>2, <1>4 DEF RefusalAt
<1> QED
  BY <1>2, <1>5 DEF RefusalAt

LEMMA AppliedClosed ==
    ASSUME RecShaped, NEW a
    PROVE  Closed(Applied(rec, a)) <=> a.decision = "simulated_refusal"
<1> DEFINE r == Applied(rec, a)
<1>1. r.decision = a.decision /\ r.state.status = a.decision
  BY DEF Applied, RecShaped
<1>2. r.phase = IF a.decision = "simulated_refusal" THEN "session_closed" ELSE "interview"
  BY DEF Applied, RecShaped
<1> HIDE DEF r
<1>3. Closed(r) <=> a.decision = "simulated_refusal"
  BY <1>1, <1>2 DEF Closed
<1> QED
  BY <1>3 DEF r

\* What is written for an answer is sent as its decision.
LEMMA SentDecision ==
    ASSUME IInv, NEW r, NEW a, Write(r, a), r.decision = a.decision,
           a.record.decision = a.decision
    PROVE  /\ pc' = "idle" /\ rec' = r /\ sent'[made + 1].governor = a.decision
           /\ DOMAIN sent' = DOMAIN sent \cup {made + 1}
           /\ \A n \in DOMAIN sent : n # made + 1 => sent'[n] = sent[n]
           /\ Len(turns) \in Nat /\ DOMAIN turns = 1..Len(turns)
           /\ DOMAIN turns' = 1..(Len(turns) + 1)
           /\ \A i \in 1..Len(turns) : turns'[i] = turns[i]
           /\ turns'[Len(turns) + 1].id = made + 1
<1> DEFINE turn == AssistantTurn(made + 1, a.message, a.record)
           ts == Append(turns, turn)
           view == LatestView(r, ts)
           response == Synchronised(r, ts, a)
           t == [turn EXCEPT !.synced = TRUE, !.kept = Kept(response)]
<1>1. /\ rec' = r /\ pc' = "idle" /\ turns' = Append(turns, t)
      /\ sent' = [n \in DOMAIN sent \cup {made + 1} |-> IF n = made + 1 THEN response ELSE sent[n]]
  BY DEF Write
<1>2. IsSequence(turns) /\ made \in Nat
  BY DEF IInv, TurnsInv, TurnsShaped, Numbered
<1>3. /\ turn.role = "assistant" /\ turn.synced = FALSE /\ turn.record = a.record
      /\ t.id = made + 1
  BY DEF AssistantTurn
<1> HIDE DEF turn
<1>4. view = DerivedView(r, ts, turn)
  <2> DEFINE n == Len(turns) + 1
  <2>1. n \in Nat \ {0} /\ DOMAIN ts = 1..n /\ ts[n] = turn
    BY <1>2, Appended
  <2> HIDE DEF ts, n
  <2>2. Spoken(ts) \in SUBSET (1..n) /\ n \in Spoken(ts)
    BY <1>3, <2>1 DEF Spoken
  <2>3. LastOf(Spoken(ts)) \in 1..n /\ n <= LastOf(Spoken(ts))
    BY <2>1, <2>2, LastIsThere
  <2>4. LastOf(Spoken(ts)) = n
    BY <2>1, <2>3
  <2> QED
    BY <1>3, <2>1, <2>2, <2>4 DEF LatestView
<1>5. view.decision = a.decision
  BY <1>3, <1>4 DEF DerivedView
<1> HIDE DEF view
<1>6. response.governor = a.decision
  BY <1>5 DEF Synchronised, Sent, view
<1> HIDE DEF response, t
<1>7. /\ Len(turns) \in Nat /\ DOMAIN turns = 1..Len(turns)
      /\ DOMAIN turns' = 1..(Len(turns) + 1)
      /\ \A i \in 1..Len(turns) : turns'[i] = turns[i]
      /\ turns'[Len(turns) + 1] = t
  BY <1>1, <1>2, Appended
<1>8. /\ DOMAIN sent' = DOMAIN sent \cup {made + 1} /\ sent'[made + 1] = response
      /\ \A n \in DOMAIN sent : n # made + 1 => sent'[n] = sent[n]
  BY <1>1
<1> QED
  BY <1>1, <1>3, <1>6, <1>7, <1>8

\* Material, and all that writes no turn and closes nothing.
LEMMA QuietSteps ==
    ASSUME IInv, ReplayInv, UNCHANGED <<turns, sent, made>>, Closed(rec)' => Closed(rec),
           \/ pc' = pc /\ answer' = answer
           \/ pc' = "idle"
    PROVE  ReplayInv'
<1>1. Numbered
  BY DEF IInv, TurnsInv
<1>2. ClosedByAnswer'
  BY <1>1, RefusalsStay DEF ReplayInv
<1>3. Pending'
  BY DEF ReplayInv, Pending
<1> QED
  BY <1>2, <1>3 DEF ReplayInv

LEMMA RefreshReplays ==
    ASSUME IInv, ReplayInv, RefreshMaterial \/ SkipRefresh \/ Declare
    PROVE  ReplayInv'
<1>1. ASSUME RefreshMaterial PROVE ReplayInv'
  <2> DEFINE a == MaterialAnswer(rec.decision, rec.focus, Board, rec.state.advisory)
  <2>1. ~ Closed(rec) /\ rec' = Applied(rec, a) /\ UNCHANGED <<turns, sent, made, pc, answer>>
    BY <1>1 DEF RefreshMaterial
  <2>2. a.decision = MaterialDecision(rec.decision, Board)
    BY DEF MaterialAnswer
  <2>3. a.decision # "simulated_refusal"
    BY <2>1, <2>2 DEF MaterialDecision, Closed
  <2> HIDE DEF a
  <2>4. RecShaped
    BY DEF IInv
  <2>5. ~ Closed(Applied(rec, a))
    BY <2>3, <2>4, AppliedClosed
  <2>6. ~ Closed(rec')
    BY <2>1, <2>5
  <2> QED
    BY <2>1, <2>6, QuietSteps
<1>2. ASSUME SkipRefresh PROVE ReplayInv'
  BY <1>2, QuietSteps DEF SkipRefresh
<1>3. ASSUME Declare PROVE ReplayInv'
  <2>1. rec' = [rec EXCEPT !.family = TRUE] /\ UNCHANGED <<turns, sent, made, pc, answer>>
    BY <1>3 DEF Declare
  <2>2. rec'.phase = rec.phase /\ rec'.decision = rec.decision /\ rec'.state = rec.state
    BY <2>1 DEF IInv, RecShaped
  <2>3. Closed(rec') => Closed(rec)
    BY <2>2 DEF Closed
  <2> QED
    BY <2>1, <2>3, QuietSteps
<1> QED
  BY <1>1, <1>2, <1>3

LEMMA ResolveReplays ==
    ASSUME IInv, ReplayInv, NEW k, Resolve(k)
    PROVE  ReplayInv'
<1>1. rec' = [rec EXCEPT !.state.resolved = @ \cup {k}] /\ UNCHANGED <<turns, sent, made, pc, answer>>
  BY DEF Resolve
<1>2. rec'.phase = rec.phase /\ rec'.decision = rec.decision /\ rec'.state.status = rec.state.status
  BY <1>1 DEF IInv, RecShaped
<1>3. Closed(rec') => Closed(rec)
  BY <1>2 DEF Closed
<1> QED
  BY <1>1, <1>3, QuietSteps

LEMMA MaterialReplays ==
    ASSUME IInv, ReplayInv, NEW d,
           \/ Upload(d) \/ Misunderstand(d) \/ Withdraw(d)
           \/ \E r \in Results : Understand(d, r)
           \/ CleanUp \/ CleanUpFails
    PROVE  ReplayInv'
<1>1. /\ UNCHANGED <<turns, sent, made, rec>>
      /\ \/ pc' = pc /\ answer' = answer
         \/ pc' = "idle"
  BY DEF Upload, Misunderstand, Withdraw, Understand, CleanUp, CleanUpFails
<1>2. Closed(rec') => Closed(rec)
  BY <1>1
<1> QED
  BY <1>1, <1>2, QuietSteps

LEMMA MessagesReplay ==
    ASSUME IInv, ReplayInv, NEW reply, NEW message,
           Post(reply) \/ Import(reply, message) \/ Capture \/ Fail
    PROVE  ReplayInv'
<1>1. /\ Numbered /\ ClosedByAnswer /\ IsSequence(turns)
      /\ Len(turns) \in Nat /\ DOMAIN turns = 1..Len(turns)
  BY SequenceOf DEF IInv, TurnsInv, TurnsShaped, ReplayInv, IsSequence
<1>2. ASSUME Post(reply) PROVE ReplayInv'
  <2> DEFINE t == UserTurn(made + 1, reply)
  <2>1. turns' = Append(turns, t) /\ pc' = "posted" /\ UNCHANGED <<rec, sent>>
    BY <1>2 DEF Post
  <2>2. t.synced = FALSE
    BY DEF UserTurn
  <2> HIDE DEF t
  <2>3. /\ Len(turns') = Len(turns) + 1 /\ DOMAIN turns' = 1..(Len(turns) + 1)
        /\ \A i \in 1..Len(turns) : turns'[i] = turns[i]
        /\ turns'[Len(turns) + 1] = t
    BY <1>1, <2>1, Appended
  <2>4. Pending'
    BY <2>1, <2>2, <2>3 DEF Pending
  <2>5. ClosedByAnswer'
    BY <1>1, <2>1, <2>3, RefusalsStay
  <2> QED
    BY <2>4, <2>5 DEF ReplayInv
<1>3. ASSUME Import(reply, message) PROVE ReplayInv'
  <2> DEFINE said == [UserTurn(made + 1, reply) EXCEPT !.claimed = reply.says # None]
             told == AssistantTurn(made + 2, message, None)
             ts == Append(turns, said)
  <2>1. turns' = Append(ts, told) /\ pc' = "idle" /\ UNCHANGED <<rec, sent>>
    BY <1>3 DEF Import
  <2> HIDE DEF said, told
  <2>2. /\ IsSequence(ts) /\ Len(ts) = Len(turns) + 1
        /\ \A i \in 1..Len(turns) : ts[i] = turns[i]
    BY <1>1, Appended
  <2> HIDE DEF ts
  <2>3. /\ DOMAIN turns' = 1..(Len(turns) + 2)
        /\ \A i \in 1..Len(turns) : turns'[i] = turns[i]
    BY <1>1, <2>1, <2>2, Appended
  <2>4. Pending'
    BY <2>1 DEF Pending
  <2>5. ClosedByAnswer'
    BY <1>1, <2>1, <2>3, RefusalsStay
  <2> QED
    BY <2>4, <2>5 DEF ReplayInv
<1>4. ASSUME Capture PROVE ReplayInv'
  <2> DEFINE n == Len(turns)
             last == [turns[n] EXCEPT !.claimed = Latest.says # None]
  <2>1. /\ pc = "posted" /\ pc' = "captured" /\ UNCHANGED <<rec, sent>>
        /\ turns' = [turns EXCEPT ![n].claimed = Latest.says # None]
    BY <1>4 DEF Capture
  <2>2. n \in DOMAIN turns
    BY <1>1, <2>1 DEF IInv, TurnsInv, Posted
  <2>3. DOMAIN turns[n] = TurnFields
    BY <2>2 DEF IInv, TurnsInv, TurnsShaped
  <2>4. turns' = [turns EXCEPT ![n] = last]
    BY <2>1
  <2>5. last.id = turns[n].id /\ last.synced = turns[n].synced
    BY <2>3 DEF TurnFields
  <2> HIDE DEF last
  <2>6. Len(turns') = n /\ DOMAIN turns' = DOMAIN turns
    BY <1>1, <2>2, <2>4, Replaced
  <2>7. /\ \A i \in DOMAIN turns : turns'[i].id = turns[i].id
        /\ turns'[n].synced = turns[n].synced
    BY <2>2, <2>4, <2>5
  <2>8. Pending'
    BY <2>1, <2>6, <2>7 DEF ReplayInv, Pending
  <2>9. ClosedByAnswer'
    BY <1>1, <2>1, <2>6, <2>7, RefusalsStay
  <2> QED
    BY <2>8, <2>9 DEF ReplayInv
<1>5. ASSUME Fail PROVE ReplayInv'
  <2> DEFINE n == Len(turns)
  <2>1. /\ pc \in {"posted", "captured", "asked"} /\ pc' = "failed" /\ UNCHANGED <<rec, sent>>
        /\ turns' = SubSeq(turns, 1, n - 1)
    BY <1>5 DEF Fail
  <2>2. n > 0 /\ turns[n].synced = FALSE
    BY <2>1 DEF IInv, TurnsInv, Posted, ReplayInv, Pending
  <2>3. /\ DOMAIN turns' = 1..(n - 1)
        /\ \A i \in DOMAIN turns' : i \in DOMAIN turns /\ turns'[i] = turns[i]
    BY <1>1, <2>1, <2>2, Shortened
  <2>4. turns[n].id \notin DOMAIN sent
    <3>1. n \in DOMAIN turns
      BY <1>1, <2>2
    <3>2. turns[n].id \in DOMAIN sent => turns[n].synced
      BY <3>1 DEF IInv, TurnsInv, KeptAsSent, KeptAs
    <3> QED
      BY <2>2, <3>2
  <2>5. ASSUME NEW i \in DOMAIN turns, RefusalAt(i) PROVE i \in DOMAIN turns'
    <3>1. i # n
      BY <2>4, <2>5 DEF RefusalAt
    <3> QED
      BY <1>1, <2>3, <3>1
  <2>6. Pending'
    BY <2>1 DEF Pending
  <2>7. ClosedByAnswer'
    BY <1>1, <2>1, <2>3, <2>5, RefusalsStay
  <2> QED
    BY <2>6, <2>7 DEF ReplayInv
<1> QED
  BY <1>2, <1>3, <1>4, <1>5

LEMMA AskReplays ==
    ASSUME IInv, ReplayInv, NEW output, Ask(output)
    PROVE  ReplayInv'
<1>1. /\ pc = "captured" /\ pc' = "asked" /\ UNCHANGED <<turns, rec, sent, made>>
      /\ answer' = Answer(output, Advisory(rec.state.advisory, Board))
  BY DEF Ask
<1>2. answer'.record.decision = answer'.decision
  BY <1>1 DEF Answer
<1>3. Pending'
  BY <1>1, <1>2 DEF ReplayInv, Pending
<1>4. ClosedByAnswer'
  BY <1>1, RefusalsStay DEF ReplayInv, IInv, TurnsInv
<1> QED
  BY <1>3, <1>4 DEF ReplayInv

LEMMA AnswersKeep ==
    ASSUME IInv, ReplayInv, Respond \/ GateReply
    PROVE  ReplayInv'
<1>1. /\ RecShaped /\ Numbered /\ ClosedByAnswer
      /\ \A n \in DOMAIN sent : n \in 1..made
  BY DEF IInv, TurnsInv, ReplayInv, Numbered
<1>2. ASSUME NEW r, NEW a, Write(r, a), r.decision = a.decision, a.record.decision = a.decision,
             Closed(r) => Closed(rec) \/ a.decision = "simulated_refusal"
      PROVE  ReplayInv'
  <2>1. /\ pc' = "idle" /\ rec' = r /\ sent'[made + 1].governor = a.decision
        /\ DOMAIN sent' = DOMAIN sent \cup {made + 1}
        /\ \A n \in DOMAIN sent : n # made + 1 => sent'[n] = sent[n]
        /\ Len(turns) \in Nat /\ DOMAIN turns = 1..Len(turns)
        /\ DOMAIN turns' = 1..(Len(turns) + 1)
        /\ \A i \in 1..Len(turns) : turns'[i] = turns[i]
        /\ turns'[Len(turns) + 1].id = made + 1
    BY <1>2, SentDecision
  <2>2. Pending'
    BY <2>1 DEF Pending
  <2>3. ClosedByAnswer'
    <3>1. CASE a.decision = "simulated_refusal"
      <4>1. PICK n \in DOMAIN turns' : n = Len(turns) + 1
        BY <2>1
      <4>2. turns'[n].id \in DOMAIN sent' /\ sent'[turns'[n].id].governor = "simulated_refusal"
        BY <2>1, <3>1, <4>1
      <4> QED
        BY <4>2 DEF ClosedByAnswer, RefusalAt
    <3>2. CASE a.decision # "simulated_refusal"
      <4>1. Closed(rec') => Closed(rec)
        BY <1>2, <2>1, <3>2
      <4>2. \A n \in DOMAIN sent : n \in DOMAIN sent' /\ sent'[n] = sent[n]
        BY <1>1, <2>1 DEF Numbered
      <4>3. \A i \in DOMAIN turns : i \in DOMAIN turns' /\ turns'[i].id = turns[i].id
        BY <2>1
      <4> QED
        BY <1>1, <4>1, <4>2, <4>3, RefusalsStay
    <3> QED
      BY <3>1, <3>2
  <2> QED
    BY <2>2, <2>3 DEF ReplayInv
<1>3. ASSUME Respond PROVE ReplayInv'
  <2> DEFINE r == Applied(rec, answer)
  <2>1. pc = "asked" /\ Write(r, answer)
    BY <1>3 DEF Respond
  <2>2. answer.record.decision = answer.decision
    BY <2>1 DEF ReplayInv, Pending
  <2>3. r.decision = answer.decision /\ (Closed(r) <=> answer.decision = "simulated_refusal")
    BY <1>1, AppliedShape, AppliedClosed
  <2> HIDE DEF r
  <2> QED
    BY <1>2, <2>1, <2>2, <2>3
<1>4. ASSUME GateReply PROVE ReplayInv'
  <2> DEFINE a == GateAnswer(GateMessage)
             r == [rec EXCEPT !.decision = a.decision, !.focus = a.record.focus]
  <2>1. Write(r, a)
    BY <1>4 DEF GateReply
  <2>2. a.decision = "need_more_evidence" /\ a.record.decision = a.decision
    BY DEF GateAnswer
  <2> HIDE DEF a
  <2>3. r.decision = a.decision /\ r.phase = rec.phase /\ r.state = rec.state
    BY <1>1 DEF RecShaped
  <2> HIDE DEF r
  <2>4. Closed(r) => Closed(rec)
    BY <2>2, <2>3 DEF Closed
  <2> QED
    BY <1>2, <2>1, <2>2, <2>3, <2>4
<1> QED
  BY <1>3, <1>4

LEMMA InitReplays == ASSUME Init PROVE ReplayInv
<1>1. /\ pc = "idle" /\ rec.phase = "interview" /\ rec.decision = None
      /\ rec.state.status = None
  BY DEF Init
<1>2. ~ Closed(rec)
  BY <1>1, NoneIsNobody DEF Closed
<1> QED
  BY <1>1, <1>2 DEF ReplayInv, Pending, ClosedByAnswer

LEMMA NextReplays == ASSUME IInv, ReplayInv, [Next]_vars PROVE ReplayInv'
<1>1. CASE UNCHANGED vars
  BY <1>1, QuietSteps DEF vars
<1>2. ASSUME NEW d \in 1..Documents,
             \/ Upload(d) \/ Misunderstand(d) \/ Withdraw(d)
             \/ \E r \in Results : Understand(d, r)
      PROVE  ReplayInv'
  BY <1>2, MaterialReplays
<1>3. CASE RefreshMaterial \/ SkipRefresh \/ Declare
  BY <1>3, RefreshReplays
<1>4. CASE Capture \/ Fail
  BY <1>4, MessagesReplay
<1>5. CASE Respond \/ GateReply
  BY <1>5, AnswersKeep
<1>6. CASE CleanUp \/ CleanUpFails
  BY <1>6, MaterialReplays
<1>7. ASSUME NEW reply \in Replies, Post(reply) PROVE ReplayInv'
  BY <1>7, MessagesReplay
<1>8. ASSUME NEW reply \in Replies, NEW o \in Outputs, Import(reply, o.message) PROVE ReplayInv'
  BY <1>8, MessagesReplay
<1>9. ASSUME NEW o \in Outputs, Ask(o) PROVE ReplayInv'
  BY <1>9, AskReplays
<1>10. ASSUME NEW c \in memory.conflicts, Resolve(c.id) PROVE ReplayInv'
  BY <1>10, ResolveReplays
<1> QED
  BY <1>1, <1>2, <1>3, <1>4, <1>5, <1>6, <1>7, <1>8, <1>9, <1>10 DEF Next

LEMMA LastingParts ==
    ASSUME NEW m, NEW advice, NEW g, NEW requested, NEW remaining, NEW account, NEW record,
           NEW view, NEW review
    PROVE  Lasting([message |-> m, advisory |-> advice, governor |-> g, requested |-> requested,
                    remaining |-> remaining, turn |-> TurnDecision(account, view),
                    record |-> record, view |-> view, review |-> review])
             = [message |-> m, advisory |-> None, governor |-> g, requested |-> requested,
                remaining |-> remaining, turn |-> TurnDecision(None, view),
                record |-> record, view |-> view, review |-> review]
<1> DEFINE turn == TurnDecision(account, view)
           response == [message |-> m, advisory |-> advice, governor |-> g,
                        requested |-> requested, remaining |-> remaining, turn |-> turn,
                        record |-> record, view |-> view, review |-> review]
<1>1. [turn EXCEPT !.account = None] = TurnDecision(None, view)
  BY DEF TurnDecision
<1> HIDE DEF turn
<1>2. [response EXCEPT !.turn.account = None] =
        [message |-> m, advisory |-> advice, governor |-> g, requested |-> requested,
         remaining |-> remaining, turn |-> TurnDecision(None, view),
         record |-> record, view |-> view, review |-> review]
  BY <1>1
<1>3. Lasting(response) = [[response EXCEPT !.turn.account = None] EXCEPT !.advisory = None]
  BY DEF Lasting
<1> HIDE DEF response
<1>4. Lasting(response) =
        [message |-> m, advisory |-> None, governor |-> g, requested |-> requested,
         remaining |-> remaining, turn |-> TurnDecision(None, view),
         record |-> record, view |-> view, review |-> review]
  BY <1>2, <1>3
<1> QED
  BY <1>4 DEF response, turn

LEMMA ReplayFromTurn == ASSUME IInv, ReplayInv PROVE ReplayedAsSent
<1>1. ASSUME NEW i \in DOMAIN turns, turns[i].id \in DOMAIN sent, ~ Closed(rec)
      PROVE  Replayed(rec, turns, turns[i]) = Lasting(sent[turns[i].id])
  <2> DEFINE t == turns[i]
             response == sent[t.id]
             view == t.kept.view
             review == IF view.review # {} THEN view.review ELSE t.kept.review
             turn == TurnDecision(response.turn.account, view)
  <2>1. KeptAs(t, response)
    BY <1>1 DEF IInv, TurnsInv, KeptAsSent
  <2> HIDE DEF t, response
  <2>2. t.synced /\ view.source = t.id
    BY <2>1 DEF KeptAs
  <2>3. Replayed(rec, turns, t) =
          [message |-> t.message, advisory |-> None, governor |-> t.kept.governor,
           requested |-> view.requested, remaining |-> view.remaining,
           turn |-> TurnDecision(None, view), record |-> t.record, view |-> view,
           review |-> review]
    BY <1>1, <2>2 DEF Replayed, Restored
  <2>4. response =
          [message |-> t.message, advisory |-> response.advisory, governor |-> t.kept.governor,
           requested |-> view.requested, remaining |-> view.remaining,
           turn |-> turn, record |-> t.record, view |-> view, review |-> review]
    BY <2>1 DEF KeptAs
  <2> DEFINE account == response.turn.account
             advice == response.advisory
  <2>5. response =
          [message |-> t.message, advisory |-> advice, governor |-> t.kept.governor,
           requested |-> view.requested, remaining |-> view.remaining,
           turn |-> TurnDecision(account, view), record |-> t.record, view |-> view,
           review |-> review]
    BY <2>4
  <2> HIDE DEF view, review, turn, account, advice, t
  <2>6. Lasting(response) = Replayed(rec, turns, t)
    BY <2>3, <2>5, LastingParts
  <2> QED
    BY <2>6 DEF t, response
<1>2. ASSUME Closed(rec)
      PROVE  \A i \in DOMAIN turns : Replayed(rec, turns, turns[i]) = None
  BY <1>2 DEF Replayed
<1>3. Closed(rec) => \E j \in DOMAIN turns : RefusalAt(j)
  BY DEF ReplayInv, ClosedByAnswer
<1> QED
  BY <1>1, <1>2, <1>3 DEF ReplayedAsSent, RefusalAt

\* A message that is sent again gets the words, decision, lists, view and
\* record of its answer, whatever was uploaded, decided, refreshed or deleted
\* in between, but not the runtime's account of the decision: it comes from
\* the turn that holds it, and that turn's view is its own.  If it is refused,
\* an answer that was sent has refused (_is_refusal_closed,
\* _duplicate_turn_response).
THEOREM AnswersReplay == Spec => []ReplayedAsSent
<1>1. Init => ReplayInv
  BY InitReplays
<1>2. IInv /\ ReplayInv /\ [Next]_vars => ReplayInv'
  BY NextReplays
<1>3. IInv /\ ReplayInv => ReplayedAsSent
  BY ReplayFromTurn
<1> QED
  BY <1>1, <1>2, <1>3, InterviewInvariant, PTL DEF Spec

-----------------------------------------------------------------------------
(* The graph, resolutions, reviews and reports.                            *)

LEMMA GraphFromSnapshot == ASSUME IInv PROVE GraphIsWhole
<1>1. memory # None => \A f : WholeAbout(memory, f)
  BY WholeGraph DEF IInv, MemorySnapped
<1> QED
  BY <1>1 DEF GraphIsWhole, WholeAbout

\* A query about a field sees all that the graph has for and against its
\* claims: ids are unique in a snapshot (query_evidence_graph).
THEOREM GraphsAreWhole == Spec => []GraphIsWhole
  BY InterviewInvariant, GraphFromSnapshot, PTL

-----------------------------------------------------------------------------
(* What a step may never do.                                               *)

LEMMA ResolutionsStay ==
    ASSUME IInv, Next
    PROVE  rec.state.resolved \subseteq rec'.state.resolved
<1>0. RecShaped
  BY DEF IInv
<1>1. CASE rec' = rec
  BY <1>1
<1>2. ASSUME NEW k, Resolve(k) PROVE rec.state.resolved \subseteq rec'.state.resolved
  <2>1. rec' = [rec EXCEPT !.state.resolved = @ \cup {k}]
    BY <1>2 DEF Resolve
  <2> QED
    BY <1>0, <2>1 DEF RecShaped
<1>3. ASSUME NEW a, rec' = Applied(rec, a) PROVE rec.state.resolved \subseteq rec'.state.resolved
  <2> DEFINE r == Applied(rec, a)
  <2>1. r.state.resolved = rec.state.resolved /\ rec' = r
    BY <1>0, <1>3, AppliedShape
  <2> HIDE DEF r
  <2> QED
    BY <2>1
<1>4. CASE RefreshMaterial
  BY <1>3, <1>4 DEF RefreshMaterial
<1>5. CASE Respond
  BY <1>3, <1>5 DEF Respond, Write
<1>6. CASE GateReply
  <2> DEFINE a == GateAnswer(GateMessage)
  <2>1. rec' = [rec EXCEPT !.decision = a.decision, !.focus = a.record.focus]
    BY <1>6 DEF GateReply, Write
  <2> HIDE DEF a
  <2>2. rec'.state = rec.state
    BY <1>0, <2>1 DEF RecShaped
  <2> QED
    BY <2>2
<1>7. CASE Declare
  <2>1. rec' = [rec EXCEPT !.family = TRUE]
    BY <1>7 DEF Declare
  <2>2. rec'.state = rec.state
    BY <1>0, <2>1 DEF RecShaped
  <2> QED
    BY <2>2
<1>8. ASSUME NEW d, \/ Upload(d) \/ Misunderstand(d) \/ Withdraw(d)
                    \/ \E r \in Results : Understand(d, r)
      PROVE  rec' = rec
  BY <1>8 DEF Upload, Misunderstand, Withdraw, Understand
<1>9. ASSUME NEW reply, Post(reply) \/ \E o \in Outputs : Import(reply, o.message)
      PROVE  rec' = rec
  BY <1>9 DEF Post, Import
<1>10. ASSUME SkipRefresh \/ Capture \/ Fail \/ CleanUp \/ CleanUpFails \/ \E o \in Outputs : Ask(o)
       PROVE  rec' = rec
  BY <1>10 DEF SkipRefresh, Capture, Fail, CleanUp, CleanUpFails, Ask
<1> QED
  BY <1>1, <1>2, <1>4, <1>5, <1>6, <1>7, <1>8, <1>9, <1>10 DEF Next

\* A conflict that was resolved is never taken back, not by the answer that
\* replaces the session's state nor by a refresh, and no snapshot finds it
\* again (_apply_graph_response_state, _build_conflicts).
THEOREM ResolutionsHold == Spec => ResolvedForGood
<1>1. ASSUME IInv, IInv', [Next]_vars
      PROVE  [/\ rec.state.resolved \subseteq rec'.state.resolved
              /\ memory' # None => \A c \in memory'.conflicts : c.id \notin rec'.state.resolved]_vars
  <2>1. memory' # None => \A c \in memory'.conflicts : c.id \notin rec'.state.resolved
    BY <1>1 DEF IInv, MemorySnapped, Snapped
  <2>2. CASE Next
    BY <1>1, <2>1, <2>2, ResolutionsStay
  <2>3. CASE UNCHANGED vars
    BY <2>3
  <2> QED
    BY <1>1, <2>2, <2>3
<1> QED
  BY <1>1, InterviewInvariant, PTL DEF Spec, ResolvedForGood

\* A refresh decides on the case as it is.
LEMMA RefreshDecides ==
    ASSUME IInv, RefreshMaterial, pc # "failed", ~ orphan
    PROVE  rec'.decision = "high_risk_review"
             <=> \E c \in Conflicts(Sources(docs, turns), rec.state.resolved) : c.severity # "low"
<1> DEFINE a == MaterialAnswer(rec.decision, rec.focus, Board, rec.state.advisory)
           conflicts == Conflicts(Sources(docs, turns), rec.state.resolved)
<1>1. Board = Fresh(docs, turns, rec.state.resolved)
  BY DEF Board, IInv, SnapshotFresh
<1>2. Board.conflicts = conflicts
  BY <1>1 DEF Fresh, Snapshot, Built
<1>3. \A c \in conflicts : c.severity \in Severities
  BY SourcesReadable, OpenConflicts DEF IInv, DocsShaped, TurnsInv, TurnsShaped
<1>4. a.decision = MaterialDecision(rec.decision, Board)
  BY DEF MaterialAnswer
<1>5. rec'.decision = a.decision
  <2>1. rec' = Applied(rec, a) /\ RecShaped
    BY DEF RefreshMaterial, IInv
  <2> HIDE DEF a
  <2> DEFINE r == Applied(rec, a)
  <2>2. r.decision = a.decision
    BY <2>1, AppliedShape
  <2> QED
    BY <2>1, <2>2
<1> HIDE DEF a, conflicts
<1>6. Review(Board) # {} <=> \E c \in conflicts : c.severity \in {"medium", "high"}
  BY <1>2 DEF Review
<1>7. \A c \in conflicts : c.severity \in {"medium", "high"} <=> c.severity # "low"
  BY <1>3 DEF Severities
<1>8. rec'.decision = "high_risk_review" <=> Review(Board) # {}
  BY <1>4, <1>5 DEF MaterialDecision
<1> QED
  BY <1>6, <1>7, <1>8 DEF conflicts

\* A document that was read puts the session under review exactly when the
\* documents, statements and resolutions there are at that moment leave a
\* conflict worth one (_material_change_decision, _build_document_review).
THEOREM ConflictsAreReviewed == Spec => ConflictIsReviewed
<1>1. ASSUME IInv, [Next]_vars
      PROVE  [due /\ ~ due' /\ rec' # rec /\ pc # "failed" /\ ~ orphan
                => (rec'.decision = "high_risk_review"
                      <=> \E c \in Conflicts(Sources(docs, turns), rec.state.resolved) :
                              c.severity # "low")]_vars
  <2>1. ASSUME Next, due, ~ due', rec' # rec PROVE RefreshMaterial
    <3>1. ASSUME NEW d, \/ Upload(d) \/ Misunderstand(d) \/ Withdraw(d)
                        \/ \E r \in Results : Understand(d, r)
          PROVE  rec' = rec
      BY <3>1 DEF Upload, Misunderstand, Withdraw, Understand
    <3>2. ASSUME NEW reply, Post(reply) \/ \E o \in Outputs : Import(reply, o.message)
          PROVE  rec' = rec
      BY <3>2 DEF Post, Import
    <3>3. ASSUME SkipRefresh \/ Capture \/ Fail \/ CleanUp \/ CleanUpFails \/ \E o \in Outputs : Ask(o)
          PROVE  rec' = rec
      BY <3>3 DEF SkipRefresh, Capture, Fail, CleanUp, CleanUpFails, Ask
    <3>4. ASSUME Declare \/ Respond \/ GateReply \/ \E c \in memory.conflicts : Resolve(c.id)
          PROVE  due' = due
      BY <3>4 DEF Declare, Respond, GateReply, Resolve
    <3> QED
      BY <2>1, <3>1, <3>2, <3>3, <3>4 DEF Next
  <2>2. CASE Next
    BY <1>1, <2>1, <2>2, RefreshDecides
  <2>3. CASE UNCHANGED vars
    BY <2>3
  <2> QED
    BY <1>1, <2>2, <2>3
<1> QED
  BY <1>1, InterviewInvariant, PTL DEF Spec, ConflictIsReviewed

-----------------------------------------------------------------------------
(* The invariant behind the reports: what the snapshot is made of, also    *)
(* when a failed message is not cleaned up, and whose a kept view is.      *)

\* No two turns are one, and a message that was captured says something.
TurnsApart(ts) ==
    /\ IsSequence(ts)
    /\ \A i \in DOMAIN ts : ts[i].id \in Nat
    /\ \A i \in DOMAIN ts, j \in DOMAIN ts : ts[i].id = ts[j].id => i = j
    /\ \A i \in DOMAIN ts :
          /\ ts[i].claimed => ts[i].says # None
          /\ ts[i].says # None => ts[i].role = "user"

\* A view that a turn keeps as its own says what the turn says.
SaysItsOwn(turn) ==
    turn.synced /\ turn.kept.view.source = turn.id => turn.kept.view.says = turn.message

KeptSays == \A i \in DOMAIN turns : SaysItsOwn(turns[i])

\* The statements of ts are among those of us.
Among(ts, us) ==
    /\ Captured(ts) \subseteq Captured(us)
    /\ \A i \in Captured(ts) : us[i].id = ts[i].id /\ us[i].says = ts[i].says

\* The snapshot is made of the documents there are and of the statements there
\* are, and of no more than some that were deleted.
BuiltFrom(board, ts) ==
    \E us : TurnsApart(us) /\ Among(ts, us) /\ board = Fresh(docs, us, rec.state.resolved)

MemoryBuilt == memory # None => BuiltFrom(memory, turns)

ToldInv == TurnsApart(turns) /\ KeptSays /\ MemoryBuilt

LEMMA OneApart ==
    ASSUME NEW ts, TurnsApart(ts), NEW t, t.id \in Nat, \A i \in DOMAIN ts : ts[i].id # t.id,
           t.claimed => t.says # None, t.says # None => t.role = "user"
    PROVE  LET us == Append(ts, t) IN
           /\ TurnsApart(us) /\ Len(ts) \in Nat /\ DOMAIN ts = 1..Len(ts)
           /\ DOMAIN us = 1..(Len(ts) + 1) /\ us[Len(ts) + 1] = t
           /\ \A i \in 1..Len(ts) : us[i] = ts[i]
           /\ ~ t.claimed => Captured(us) = Captured(ts)
<1> DEFINE us == Append(ts, t)
           n == Len(ts)
<1>1. /\ IsSequence(us) /\ n \in Nat /\ DOMAIN ts = 1..n /\ DOMAIN us = 1..(n + 1)
      /\ us[n + 1] = t /\ \A i \in 1..n : us[i] = ts[i]
  BY Appended DEF TurnsApart
<1> HIDE DEF us, n
<1>2. \A i \in DOMAIN us : i \in 1..n \/ i = n + 1
  BY <1>1
<1>3. \A i \in DOMAIN us, j \in DOMAIN us : us[i].id = us[j].id => i = j
  BY <1>1, <1>2 DEF TurnsApart
<1>4. TurnsApart(us)
  BY <1>1, <1>2, <1>3 DEF TurnsApart
<1>5. ~ t.claimed => Captured(us) = Captured(ts)
  BY <1>1, <1>2 DEF Captured
<1> QED
  BY <1>1, <1>4, <1>5 DEF us, n

\* A snapshot that is built again is made of the turns there are.
LEMMA BuiltAgain ==
    ASSUME TurnsApart(turns'), Rebuild(docs', turns', rec'.state.resolved)
    PROVE  MemoryBuilt'
<1>1. Among(turns', turns')
  BY DEF Among
<1> DEFINE us == turns'
<1>2. TurnsApart(us) /\ Among(turns', us) /\ memory' = Fresh(docs', us, rec'.state.resolved)
  BY <1>1 DEF Rebuild
<1> HIDE DEF us
<1> QED
  BY <1>2 DEF MemoryBuilt, BuiltFrom

LEMMA BoardBuilt ==
    ASSUME ToldInv PROVE BuiltFrom(Board, turns)
<1>1. CASE memory # None
  BY <1>1 DEF ToldInv, MemoryBuilt, Board
<1>2. CASE memory = None
  <2>1. Board = Fresh(docs, turns, rec.state.resolved)
    BY <1>2 DEF Board
  <2>2. TurnsApart(turns) /\ Among(turns, turns)
    BY DEF ToldInv, Among
  <2> QED
    BY <2>1, <2>2 DEF BuiltFrom
<1> QED
  BY <1>1, <1>2

\* A step that leaves it as it was, or fills it in, with no new statements.
LEMMA StillBuilt ==
    ASSUME ToldInv, memory' \in {memory, Board}, rec'.state.resolved = rec.state.resolved,
           \A us : IsSequence(us) =>
              Sources(docs', us) = Sources(docs, us) /\ LatestMaterial(docs') = LatestMaterial(docs),
           Among(turns', turns)
    PROVE  MemoryBuilt'
<1>1. memory' # None => BuiltFrom(memory', turns)
  BY BoardBuilt DEF ToldInv, MemoryBuilt
<1>2. ASSUME memory' # None
      PROVE  \E us : /\ TurnsApart(us) /\ Among(turns', us)
                     /\ memory' = Fresh(docs', us, rec'.state.resolved)
  <2>1. PICK us : /\ TurnsApart(us) /\ Among(turns, us)
                  /\ memory' = Fresh(docs, us, rec.state.resolved)
    BY <1>1, <1>2 DEF BuiltFrom
  <2>2. Fresh(docs', us, rec'.state.resolved) = Fresh(docs, us, rec.state.resolved)
    BY <2>1 DEF Fresh, Snapshot, TurnsApart
  <2>3. Among(turns', us)
    BY <2>1 DEF Among
  <2> QED
    BY <2>1, <2>2, <2>3
<1> QED
  BY <1>2 DEF MemoryBuilt, BuiltFrom

\* A view that is read back for a turn and kept with it says what it says.
LEMMA Written ==
    ASSUME IInv, NEW r, NEW a, Write(r, a)
    PROVE  \E t : /\ turns' = Append(turns, t) /\ t.id = made + 1
                  /\ ~ t.claimed /\ t.says = None /\ SaysItsOwn(t)
<1> DEFINE turn == AssistantTurn(made + 1, a.message, a.record)
           view == LatestView(r, Append(turns, turn))
           response == Synchronised(r, Append(turns, turn), a)
           kept == Kept(response)
           t == [turn EXCEPT !.synced = TRUE, !.kept = kept]
<1>1. turns' = Append(turns, t)
  BY DEF Write
<1>2. view.says = turn.message
  <2>1. turn.role = "assistant" /\ turn.synced = FALSE
    BY DEF AssistantTurn
  <2> HIDE DEF turn
  <2> QED
    BY <2>1, OwnView DEF IInv, TurnsInv, TurnsShaped
<1>3. kept.view = view
  BY DEF Synchronised, Sent, Kept
<1> HIDE DEF view, response, kept
<1>4. /\ t.id = made + 1 /\ ~ t.claimed /\ t.says = None /\ t.message = turn.message
      /\ t.kept = kept
  <2> DEFINE u == [turn EXCEPT !.synced = TRUE]
  <2>1. /\ u.id = made + 1 /\ u.claimed = FALSE /\ u.says = None /\ u.message = turn.message
        /\ DOMAIN u = TurnFields
    BY DEF AssistantTurn, TurnFields
  <2>2. t = [u EXCEPT !.kept = kept]
    OBVIOUS
  <2> HIDE DEF u, t, turn
  <2> QED
    BY <2>1, <2>2 DEF TurnFields
<1> HIDE DEF t
<1> QED
  BY <1>1, <1>2, <1>3, <1>4 DEF SaysItsOwn

\* One more turn.
LEMMA ToldAppended ==
    ASSUME IInv, ToldInv, NEW t, turns' = Append(turns, t), t.id = made + 1, ~ t.claimed,
           t.says # None => t.role = "user", SaysItsOwn(t),
           UNCHANGED <<docs, memory>>, rec'.state.resolved = rec.state.resolved
    PROVE  ToldInv'
<1>1. \A i \in DOMAIN turns : turns[i].id # t.id
  BY DEF IInv, TurnsInv, Numbered
<1>2. t.id \in Nat
  BY DEF IInv, TurnsInv, Numbered
<1> DEFINE n == Len(turns)
<1>3. /\ TurnsApart(turns') /\ n \in Nat /\ DOMAIN turns = 1..n /\ DOMAIN turns' = 1..(n + 1)
      /\ turns'[n + 1] = t /\ \A i \in 1..n : turns'[i] = turns[i]
      /\ Captured(turns') = Captured(turns)
  BY <1>1, <1>2, OneApart DEF ToldInv
<1> HIDE DEF n
<1>4. KeptSays'
  <2>1. \A i \in DOMAIN turns' : i \in 1..n \/ i = n + 1
    BY <1>3
  <2> QED
    BY <1>3, <2>1 DEF ToldInv, KeptSays
<1>5. Among(turns', turns)
  BY <1>3 DEF Among, Captured
<1>6. MemoryBuilt'
  BY <1>5, StillBuilt
<1> QED
  BY <1>3, <1>4, <1>6 DEF ToldInv

\* The same turns: the snapshot is left, filled in or built again.
LEMMA ToldSameTurns ==
    ASSUME ToldInv, turns' = turns,
           \/ Rebuild(docs', turns', rec'.state.resolved)
           \/ /\ memory' \in {memory, Board} /\ docs' = docs
              /\ rec'.state.resolved = rec.state.resolved
    PROVE  ToldInv'
<1>1. TurnsApart(turns') /\ KeptSays' /\ Among(turns', turns)
  BY DEF ToldInv, KeptSays, Among
<1>2. CASE Rebuild(docs', turns', rec'.state.resolved)
  BY <1>1, <1>2, BuiltAgain DEF ToldInv
<1>3. CASE /\ memory' \in {memory, Board} /\ docs' = docs
           /\ rec'.state.resolved = rec.state.resolved
  BY <1>1, <1>3, StillBuilt DEF ToldInv
<1> QED
  BY <1>2, <1>3

LEMMA ToldDocuments ==
    ASSUME IInv, ToldInv, NEW d \in 1..Documents,
           \/ Upload(d) \/ Misunderstand(d) \/ Withdraw(d) \/ \E r \in Results : Understand(d, r)
    PROVE  ToldInv'
<1>1. CASE Upload(d)
  <2>1. turns' = turns /\ memory' = memory /\ rec' = rec
    BY <1>1 DEF Upload
  <2>2. \A us : IsSequence(us) =>
           Sources(docs', us) = Sources(docs, us) /\ LatestMaterial(docs') = LatestMaterial(docs)
    BY <1>1, NothingToRead
  <2>3. Among(turns', turns)
    BY <2>1 DEF Among
  <2>4. MemoryBuilt'
    BY <2>1, <2>2, <2>3, StillBuilt
  <2> QED
    BY <2>1, <2>4 DEF ToldInv, KeptSays
<1>2. ASSUME Misunderstand(d) \/ Withdraw(d) \/ \E r \in Results : Understand(d, r)
      PROVE  ToldInv'
  <2>1. turns' = turns /\ rec' = rec /\ Rebuild(docs', turns, rec.state.resolved)
    BY <1>2 DEF Misunderstand, Withdraw, Understand
  <2> QED
    BY <2>1, ToldSameTurns
<1> QED
  BY <1>1, <1>2

LEMMA ToldSession ==
    ASSUME IInv, ToldInv,
           \/ RefreshMaterial \/ SkipRefresh \/ Declare \/ CleanUp \/ CleanUpFails
           \/ \E k : Resolve(k)
           \/ \E o \in Outputs : Ask(o)
    PROVE  ToldInv'
<1>1. CASE RefreshMaterial
  <2> DEFINE a == MaterialAnswer(rec.decision, rec.focus, Board, rec.state.advisory)
             r == Applied(rec, a)
  <2>1. turns' = turns /\ docs' = docs /\ memory' = Board /\ rec' = r
    BY <1>1 DEF RefreshMaterial
  <2> HIDE DEF a
  <2>2. r.state.resolved = rec.state.resolved
    BY AppliedShape DEF IInv
  <2> HIDE DEF r
  <2> QED
    BY <2>1, <2>2, ToldSameTurns
<1>2. CASE Declare
  <2>1. turns' = turns /\ docs' = docs /\ memory' = memory /\ rec' = [rec EXCEPT !.family = TRUE]
    BY <1>2 DEF Declare
  <2>2. rec'.state.resolved = rec.state.resolved
    BY <2>1 DEF IInv, RecShaped
  <2> QED
    BY <2>1, <2>2, ToldSameTurns
<1>3. CASE SkipRefresh \/ CleanUpFails \/ \E o \in Outputs : Ask(o)
  <2>1. turns' = turns /\ docs' = docs /\ memory' \in {memory, Board} /\ rec' = rec
    BY <1>3 DEF SkipRefresh, CleanUpFails, Ask
  <2> QED
    BY <2>1, ToldSameTurns
<1>4. CASE CleanUp \/ \E k : Resolve(k)
  <2>1. turns' = turns /\ Rebuild(docs', turns', rec'.state.resolved)
    BY <1>4 DEF CleanUp, Resolve, Rebuild
  <2> QED
    BY <2>1, ToldSameTurns
<1> QED
  BY <1>1, <1>2, <1>3, <1>4

LEMMA ToldMessages ==
    ASSUME IInv, ToldInv, (\E reply : Post(reply)) \/ Respond \/ GateReply
    PROVE  ToldInv'
<1>1. ASSUME NEW reply, Post(reply) PROVE ToldInv'
  <2> DEFINE t == UserTurn(made + 1, reply)
  <2>1. /\ turns' = Append(turns, t) /\ docs' = docs /\ memory' = memory /\ rec' = rec
    BY <1>1 DEF Post
  <2>2. t.id = made + 1 /\ ~ t.claimed /\ t.role = "user" /\ SaysItsOwn(t)
    BY DEF UserTurn, SaysItsOwn
  <2> HIDE DEF t
  <2> QED
    BY <2>1, <2>2, ToldAppended
<1>2. CASE Respond
  <2> DEFINE r == Applied(rec, answer)
  <2>1. Write(r, answer) /\ rec' = r /\ docs' = docs /\ memory' = memory
    BY <1>2 DEF Respond, Write
  <2>2. r.state.resolved = rec.state.resolved
    BY AppliedShape DEF IInv
  <2> HIDE DEF r
  <2>3. PICK t : /\ turns' = Append(turns, t) /\ t.id = made + 1
                 /\ ~ t.claimed /\ t.says = None /\ SaysItsOwn(t)
    BY <2>1, Written
  <2> QED
    BY <2>1, <2>2, <2>3, ToldAppended
<1>3. CASE GateReply
  <2> DEFINE a == GateAnswer(GateMessage)
             r == [rec EXCEPT !.decision = a.decision, !.focus = a.record.focus]
  <2>1. Write(r, a) /\ rec' = r /\ docs' = docs /\ memory' = memory
    BY <1>3 DEF GateReply, Write
  <2> HIDE DEF a
  <2>2. r.state.resolved = rec.state.resolved
    BY DEF IInv, RecShaped
  <2> HIDE DEF r
  <2>3. PICK t : /\ turns' = Append(turns, t) /\ t.id = made + 1
                 /\ ~ t.claimed /\ t.says = None /\ SaysItsOwn(t)
    BY <2>1, Written
  <2> QED
    BY <2>1, <2>2, <2>3, ToldAppended
<1> QED
  BY <1>1, <1>2, <1>3

LEMMA ToldFail == ASSUME IInv, ToldInv, Fail PROVE ToldInv'
<1>1. /\ turns' = SubSeq(turns, 1, Len(turns) - 1) /\ pc \in {"posted", "captured", "asked"}
      /\ docs' = docs /\ memory' = memory /\ rec' = rec
  BY DEF Fail
<1>2. /\ IsSequence(turns')
      /\ \A i \in DOMAIN turns' : i \in DOMAIN turns /\ turns'[i] = turns[i]
  BY <1>1, Shortened DEF IInv, TurnsInv, TurnsShaped, Posted
<1>3. TurnsApart(turns') /\ KeptSays' /\ Among(turns', turns)
  BY <1>2 DEF ToldInv, TurnsApart, KeptSays, Among, Captured
<1>4. MemoryBuilt'
  BY <1>1, <1>3, StillBuilt
<1> QED
  BY <1>3, <1>4 DEF ToldInv

LEMMA ToldCapture == ASSUME IInv, ToldInv, Capture PROVE ToldInv'
<1> DEFINE n == Len(turns)
           last == [Latest EXCEPT !.claimed = Latest.says # None]
<1>1. /\ pc = "posted" /\ turns' = [turns EXCEPT ![n].claimed = Latest.says # None]
      /\ Latest.says # None => Rebuild(docs, turns', rec.state.resolved)
      /\ Latest.says = None => memory' = memory
      /\ docs' = docs /\ rec' = rec
  BY DEF Capture
<1>2. /\ IsSequence(turns) /\ n > 0 /\ ~ turns[n].claimed /\ Latest = turns[n]
  BY <1>1 DEF IInv, TurnsInv, TurnsShaped, Posted, Latest
<1>3. n \in DOMAIN turns
  BY <1>2, SequenceOf DEF IsSequence
<1>4. DOMAIN turns[n] = TurnFields
  BY <1>3 DEF IInv, TurnsInv, TurnsShaped
<1>5. turns' = [turns EXCEPT ![n] = last]
  BY <1>1, <1>2
<1>6. /\ last.id = turns[n].id /\ last.role = turns[n].role /\ last.says = turns[n].says
      /\ last.message = turns[n].message /\ last.synced = turns[n].synced
      /\ last.kept = turns[n].kept /\ last.claimed = (turns[n].says # None)
  BY <1>2, <1>4 DEF TurnFields
<1> HIDE DEF last
<1>7. /\ IsSequence(turns') /\ DOMAIN turns' = DOMAIN turns
      /\ turns'[n] = last /\ \A i \in DOMAIN turns : i # n => turns'[i] = turns[i]
  <2>1. IsSequence(turns') /\ DOMAIN turns' = DOMAIN turns
    BY <1>2, <1>3, <1>5, Replaced
  <2>2. turns'[n] = last /\ \A i \in DOMAIN turns : i # n => turns'[i] = turns[i]
    BY <1>3, <1>5
  <2> QED
    BY <2>1, <2>2
<1> HIDE DEF n
<1>8. \A i \in DOMAIN turns :
         /\ turns'[i].id = turns[i].id /\ turns'[i].says = turns[i].says
         /\ turns'[i].role = turns[i].role /\ turns'[i].message = turns[i].message
         /\ turns'[i].synced = turns[i].synced /\ turns'[i].kept = turns[i].kept
         /\ turns'[i].claimed => turns[i].claimed \/ (i = n /\ turns[i].says # None)
  BY <1>6, <1>7
<1>9. TurnsApart(turns') /\ KeptSays'
  BY <1>7, <1>8 DEF ToldInv, TurnsApart, KeptSays, SaysItsOwn
<1>10. MemoryBuilt'
  <2>1. CASE Latest.says # None
    BY <1>1, <1>9, <2>1, BuiltAgain
  <2>2. CASE Latest.says = None
    <3>1. Among(turns', turns)
      BY <1>2, <1>7, <1>8, <2>2 DEF Among, Captured
    <3> QED
      BY <1>1, <2>2, <3>1, StillBuilt
  <2> QED
    BY <2>1, <2>2
<1> QED
  BY <1>9, <1>10 DEF ToldInv

LEMMA ToldImport ==
    ASSUME IInv, ToldInv, NEW reply, NEW message, Import(reply, message)
    PROVE  ToldInv'
<1> DEFINE said == [UserTurn(made + 1, reply) EXCEPT !.claimed = reply.says # None]
           told == AssistantTurn(made + 2, message, None)
           ts == Append(turns, said)
           n == Len(turns)
<1>1. /\ turns' = Append(ts, told) /\ docs' = docs /\ rec' = rec
      /\ reply.says # None => Rebuild(docs, turns', rec.state.resolved)
      /\ reply.says = None => memory' = memory
  BY DEF Import
<1>2. made \in Nat /\ \A i \in DOMAIN turns : turns[i].id \in 1..made
  BY DEF IInv, TurnsInv, Numbered
<1>3. /\ said.id = made + 1 /\ said.claimed = (reply.says # None) /\ said.says = reply.says
      /\ said.role = "user" /\ SaysItsOwn(said)
      /\ told.id = made + 2 /\ ~ told.claimed /\ told.says = None /\ SaysItsOwn(told)
  BY DEF UserTurn, AssistantTurn, SaysItsOwn
<1> HIDE DEF said, told
<1>4. /\ TurnsApart(ts) /\ n \in Nat /\ DOMAIN turns = 1..n
      /\ DOMAIN ts = 1..(n + 1) /\ ts[n + 1] = said /\ \A i \in 1..n : ts[i] = turns[i]
      /\ ~ said.claimed => Captured(ts) = Captured(turns)
  <2>1. said.id \in Nat /\ \A i \in DOMAIN turns : turns[i].id # said.id
    BY <1>2, <1>3
  <2>2. /\ said.claimed => said.says # None
        /\ said.says # None => said.role = "user"
    BY <1>3
  <2>3. TurnsApart(turns)
    BY DEF ToldInv
  <2> HIDE DEF n
  <2>4. /\ TurnsApart(ts) /\ Len(turns) \in Nat /\ DOMAIN turns = 1..Len(turns)
        /\ DOMAIN ts = 1..(Len(turns) + 1) /\ ts[Len(turns) + 1] = said
        /\ \A i \in 1..Len(turns) : ts[i] = turns[i]
        /\ ~ said.claimed => Captured(ts) = Captured(turns)
    BY <2>1, <2>2, <2>3, OneApart
  <2> QED
    BY <2>4 DEF n
<1> HIDE DEF ts, n
<1>5. /\ TurnsApart(turns') /\ DOMAIN turns' = 1..(Len(ts) + 1) /\ turns'[Len(ts) + 1] = told
      /\ Len(ts) = n + 1 /\ \A i \in 1..Len(ts) : turns'[i] = ts[i]
      /\ Captured(turns') = Captured(ts)
  <2>1. \A i \in DOMAIN ts : ts[i].id # told.id
    BY <1>2, <1>3, <1>4
  <2>2. told.id \in Nat /\ (told.claimed => told.says # None)
        /\ (told.says # None => told.role = "user") /\ TurnsApart(ts)
    BY <1>2, <1>3, <1>4
  <2> DEFINE us == Append(ts, told)
  <2>3. /\ TurnsApart(us) /\ Len(ts) \in Nat /\ DOMAIN ts = 1..Len(ts)
        /\ DOMAIN us = 1..(Len(ts) + 1) /\ us[Len(ts) + 1] = told
        /\ \A i \in 1..Len(ts) : us[i] = ts[i]
        /\ ~ told.claimed => Captured(us) = Captured(ts)
    BY <2>1, <2>2, OneApart
  <2>4. turns' = us
    BY <1>1
  <2> HIDE DEF us
  <2>5. Len(ts) = n + 1
    BY <1>4, <2>3
  <2> QED
    BY <1>3, <2>3, <2>4, <2>5
<1>6. \A i \in DOMAIN turns' : SaysItsOwn(turns'[i])
  <2>1. \A i \in DOMAIN turns' : i \in 1..n \/ i = n + 1 \/ i = Len(ts) + 1
    BY <1>4, <1>5
  <2> QED
    BY <1>3, <1>4, <1>5, <2>1 DEF ToldInv, KeptSays
<1>7. MemoryBuilt'
  <2>1. CASE reply.says # None
    BY <1>1, <1>5, <2>1, BuiltAgain
  <2>2. CASE reply.says = None
    <3>1. Captured(turns') = Captured(turns)
      BY <1>3, <1>4, <1>5, <2>2
    <3>2. \A i \in Captured(turns) : turns'[i] = turns[i]
      BY <1>4, <1>5 DEF Captured
    <3>3. Among(turns', turns)
      BY <3>1, <3>2 DEF Among
    <3> QED
      BY <1>1, <2>2, <3>3, StillBuilt
  <2> QED
    BY <2>1, <2>2
<1> QED
  BY <1>5, <1>6, <1>7 DEF ToldInv, KeptSays

LEMMA NextToldInv == ASSUME IInv, ToldInv, [Next]_vars PROVE ToldInv'
<1>1. CASE UNCHANGED vars
  BY <1>1, ToldSameTurns DEF vars
<1>2. CASE Next
  BY <1>2, ToldDocuments, ToldSession, ToldMessages, ToldFail, ToldCapture, ToldImport DEF Next
<1> QED
  BY <1>1, <1>2

LEMMA InitToldInv == ASSUME Init PROVE ToldInv
<1>1. turns = <<>> /\ memory = None
  BY DEF Init
<1>2. IsSequence(turns)
  BY InitIInv DEF IInv, TurnsInv, TurnsShaped
<1> QED
  BY <1>1, <1>2 DEF ToldInv, TurnsApart, KeptSays, MemoryBuilt

\* The snapshot is that of the documents there are, of the statements there
\* are, and at most of statements whose message failed and was deleted
\* (_delete_failed_turn, rebuild_and_persist).
THEOREM MemoryIsBuilt == Spec => []ToldInv
<1>1. Init => ToldInv
  BY InitToldInv
<1>2. IInv /\ ToldInv /\ [Next]_vars => ToldInv'
  BY NextToldInv
<1> QED
  BY <1>1, <1>2, InterviewInvariant, PTL DEF Spec

-----------------------------------------------------------------------------
(* What a snapshot has of the statements and of the documents.             *)

\* No model gives a claim the name of an applicant's statement.  The program
\* shows it these names, and does not check those it answers.
OwnNames ==
    \A r \in Results : \A i \in DOMAIN r.claims, n \in Nat : r.claims[i].id # <<"turn", n>>

LEMMA SourcesAre ==
    ASSUME NEW ds \in [1..Documents -> DocRows], NEW us, TurnsApart(us)
    PROVE  LET S == Sources(ds, us) IN
           /\ Documents \in Nat
           /\ \A s : s \in DOMAIN S
                      <=> s \in Understood(ds) \/ \E i \in Captured(us) : s = Documents + i
           /\ \A d \in Understood(ds) : d \in 1..Documents /\ S[d] = ds[d].result
                                        /\ ds[d].result \in Results
           /\ \A i \in Captured(us) :
                 i \in Nat \ {0} /\ us[i].id \in Nat /\ S[Documents + i] = Statement(us[i])
<1> DEFINE S == Sources(ds, us)
           n == Documents
<1>1. Len(ds) = n /\ n \in Nat /\ DOMAIN ds = 1..n
  BY DocsLength
<1>2. DOMAIN S = Understood(ds) \cup {n + i : i \in Captured(us)}
  BY <1>1 DEF Sources
<1>3. ASSUME NEW d \in Understood(ds)
      PROVE  d \in 1..n /\ S[d] = ds[d].result /\ ds[d].result \in Results
  <2>1. d \in 1..n /\ ds[d].result \in Results
    BY <1>1 DEF Understood, DocRows
  <2>2. d <= n /\ d \in DOMAIN S
    BY <1>1, <1>2, <2>1
  <2> QED
    BY <1>1, <2>1, <2>2 DEF Sources
<1>4. ASSUME NEW i \in Captured(us)
      PROVE  i \in Nat \ {0} /\ us[i].id \in Nat /\ S[n + i] = Statement(us[i])
  <2>1. i \in Nat \ {0} /\ us[i].id \in Nat
    BY SequenceOf DEF TurnsApart, IsSequence, Captured
  <2>2. n + i \in DOMAIN S /\ ~ (n + i <= n) /\ (n + i) - n = i
    BY <1>1, <1>2, <2>1
  <2> QED
    BY <1>1, <2>1, <2>2 DEF Sources
<1> QED
  BY <1>1, <1>2, <1>3, <1>4

\* An item of a snapshot's is a document's or a statement's.
OfDocument(x, ds, part) ==
    \E d \in Understood(ds) : \E i \in DOMAIN ds[d].result[part] :
        x = [at |-> <<d, i>>, is |-> ds[d].result[part][i]] /\ ds[d].result \in Results

OfStatement(x, us, part) ==
    \E j \in Captured(us) : \E i \in DOMAIN Statement(us[j])[part] :
        x = [at |-> <<Documents + j, i>>, is |-> Statement(us[j])[part][i]]

LEMMA ItemsAre ==
    ASSUME NEW ds \in [1..Documents -> DocRows], NEW us, TurnsApart(us), NEW part,
           NEW x \in Items(Sources(ds, us), part)
    PROVE  OfDocument(x, ds, part) \/ OfStatement(x, us, part)
<1> DEFINE S == Sources(ds, us)
<1>1. /\ \A s : s \in DOMAIN S
                 <=> s \in Understood(ds) \/ \E i \in Captured(us) : s = Documents + i
      /\ \A d \in Understood(ds) : S[d] = ds[d].result /\ ds[d].result \in Results
      /\ \A i \in Captured(us) : S[Documents + i] = Statement(us[i])
  BY SourcesAre
<1> HIDE DEF S
<1>2. PICK s \in DOMAIN S : \E i \in DOMAIN S[s][part] : x = [at |-> <<s, i>>, is |-> S[s][part][i]]
  BY DEF Items, S
<1>3. CASE s \in Understood(ds)
  BY <1>1, <1>2, <1>3 DEF OfDocument
<1>4. CASE s \notin Understood(ds)
  <2>1. PICK j \in Captured(us) : s = Documents + j
    BY <1>1, <1>4
  <2>2. S[s] = Statement(us[j])
    BY <1>1, <2>1
  <2> QED
    BY <1>2, <2>1, <2>2 DEF OfStatement
<1> QED
  BY <1>3, <1>4

\* Under a statement's name there is the statement.
LEMMA StatementItem ==
    ASSUME OwnNames, NEW ds \in [1..Documents -> DocRows], NEW us, TurnsApart(us),
           NEW i \in Captured(us)
    PROVE  \A x : x \in Items(Sources(ds, us), "claims") /\ x.is.id = <<"turn", us[i].id>>
                    <=> x = [at |-> <<Documents + i, 1>>, is |-> TurnClaim(us[i])]
<1> DEFINE S == Sources(ds, us)
           k == <<"turn", us[i].id>>
           x0 == [at |-> <<Documents + i, 1>>, is |-> TurnClaim(us[i])]
<1>1. S[Documents + i] = Statement(us[i]) /\ Documents + i \in DOMAIN S /\ us[i].id \in Nat
  BY SourcesAre
<1>2. x0 \in Items(S, "claims") /\ x0.is.id = k
  <2>1. Statement(us[i])["claims"] = <<TurnClaim(us[i])>>
    BY DEF Statement
  <2> HIDE DEF S
  <2>2. 1 \in DOMAIN S[Documents + i]["claims"] /\ S[Documents + i]["claims"][1] = TurnClaim(us[i])
    BY <1>1, <2>1
  <2>3. TurnClaim(us[i]).id = k
    BY DEF TurnClaim
  <2> QED
    BY <1>1, <2>2, <2>3 DEF Items
<1>3. ASSUME NEW x \in Items(S, "claims"), x.is.id = k PROVE x = x0
  <2>1. \A d \in Understood(ds) : \A l \in DOMAIN ds[d].result["claims"] :
           ds[d].result \in Results => ds[d].result["claims"][l].id # k
    BY <1>1 DEF OwnNames
  <2>2. OfDocument(x, ds, "claims") \/ OfStatement(x, us, "claims")
    BY <1>3, ItemsAre
  <2>3. PICK j \in Captured(us) : \E l \in DOMAIN Statement(us[j])["claims"] :
            x = [at |-> <<Documents + j, l>>, is |-> Statement(us[j])["claims"][l]]
    BY <1>3, <2>1, <2>2 DEF OfDocument, OfStatement
  <2>4. PICK l \in DOMAIN Statement(us[j])["claims"] :
            x = [at |-> <<Documents + j, l>>, is |-> Statement(us[j])["claims"][l]]
    BY <2>3
  <2>5. Statement(us[j])["claims"] = <<TurnClaim(us[j])>>
    BY DEF Statement
  <2>6. l = 1 /\ x.is = TurnClaim(us[j])
    BY <2>4, <2>5
  <2>7. us[j].id = us[i].id
    BY <1>3, <2>6 DEF TurnClaim
  <2>8. i = j
    BY <2>7 DEF TurnsApart, Captured
  <2> QED
    BY <2>4, <2>6, <2>8
<1> QED
  BY <1>2, <1>3

LEMMA StatementClaim ==
    ASSUME OwnNames, NEW ds \in [1..Documents -> DocRows], NEW us, TurnsApart(us),
           NEW i \in Captured(us)
    PROVE  \E m \in MergedClaims(Sources(ds, us)) :
              /\ m.id = <<"turn", us[i].id>> /\ m.field = Funding /\ m.value # None
              /\ m.status = "stated" /\ m.sup = {}
<1> DEFINE items == Items(Sources(ds, us), "claims")
           k == <<"turn", us[i].id>>
           x0 == [at |-> <<Documents + i, 1>>, is |-> TurnClaim(us[i])]
           same == {x \in items : x.is.id = k}
           m == MergedClaim(items, k)
<1>1. same = {x0}
  <2>1. \A x : x \in items /\ x.is.id = k <=> x = x0
    BY StatementItem, Zenon
  <2>2. \A x : x \in same <=> x = x0
    BY <2>1
  <2> HIDE DEF same, x0
  <2> QED
    BY <2>2
<1>2. m \in MergedClaims(Sources(ds, us)) /\ m.id = k
  <2>1. x0 \in items /\ x0.is.id = k
    BY <1>1
  <2>2. m.id = k
    BY DEF MergedClaim
  <2> HIDE DEF m, k, x0
  <2>3. MergedClaims(Sources(ds, us)) = {MergedClaim(items, x.is.id) : x \in items}
    BY DEF MergedClaims
  <2> HIDE DEF items
  <2>4. MergedClaim(items, x0.is.id) \in MergedClaims(Sources(ds, us))
    BY <2>1, <2>3
  <2> QED
    BY <2>1, <2>2, <2>4 DEF m
<1>3. ~ Before(x0.at, x0.at)
  <2>1. Documents + i \in Nat /\ 1 \in Nat
    BY SourcesAre
  <2> QED
    BY <2>1 DEF Before
<1> HIDE DEF same, x0
<1>4. /\ (CHOOSE x \in same : ~ \E y \in same : Before(y.at, x.at)) = x0
      /\ (CHOOSE x \in same : ~ \E y \in same : Before(x.at, y.at)) = x0
  BY <1>1, <1>3
<1>5. /\ x0.is.id = k /\ x0.is.field = Funding /\ x0.is.status = "stated" /\ x0.is.sup = {}
      /\ x0.is.value = us[i].says
  BY DEF TurnClaim, x0
<1>6. /\ m.field = x0.is.field /\ m.value = Canonical(x0.is)
      /\ m.sup = UNION {x.is.sup : x \in same}
      /\ m.status = MergedStatus(same)
  BY <1>4 DEF MergedClaim, same
<1>7. MergedStatus(same) = "stated"
  <2>1. {x.is.status : x \in same} = {"stated"}
    BY <1>1, <1>5
  <2> QED
    BY <1>4, <1>5, <2>1 DEF MergedStatus
<1>8. m.sup = {}
  BY <1>1, <1>5, <1>6
<1>9. us[i].says # None
  BY DEF TurnsApart, Captured
<1>10. m.value # None
  BY <1>5, <1>6, <1>9, NoneIsNobody DEF Canonical
<1> HIDE DEF m
<1> QED
  BY <1>2, <1>5, <1>6, <1>7, <1>8, <1>10

\* Of items there is one that is read first.
LEMMA FirstItem ==
    ASSUME NEW same, same # {}, \A x \in same : \E s \in Nat, i \in Nat : x.at = <<s, i>>
    PROVE  \E x \in same : ~ \E y \in same : Before(y.at, x.at)
<1> DEFINE T == {x.at[1] : x \in same}
<1>1. T \in SUBSET Nat /\ T # {}
  OBVIOUS
<1>2. PICK s \in T : \A t \in T : s <= t
  BY <1>1, LeastOf
<1> DEFINE firsts == {x \in same : x.at[1] = s}
           U == {x.at[2] : x \in firsts}
<1>3. U \in SUBSET Nat /\ U # {}
  OBVIOUS
<1>4. PICK i \in U : \A j \in U : i <= j
  BY <1>3, LeastOf
<1>5. PICK x \in firsts : x.at[2] = i
  BY <1>4
<1>6. ASSUME NEW y \in same, Before(y.at, x.at) PROVE FALSE
  <2>1. PICK t \in Nat, j \in Nat : y.at = <<t, j>>
    OBVIOUS
  <2>2. t \in T /\ s \in Nat /\ i \in Nat /\ x.at[1] = s
    BY <1>1, <1>2, <1>3, <1>4, <1>5, <2>1
  <2>3. t < s \/ (t = s /\ j < i)
    BY <1>5, <1>6, <2>1, <2>2 DEF Before
  <2>4. s <= t
    BY <1>2, <2>2
  <2>5. t = s /\ j < i
    BY <2>2, <2>3, <2>4
  <2>6. j \in U
    BY <2>1, <2>5
  <2> QED
    BY <1>4, <2>2, <2>5, <2>6
<1> QED
  BY <1>5, <1>6

\* Items are at places of which each source has so many.
Placed(items) ==
    \E n \in Nat : \E len \in [1..n -> Nat] :
        \A x \in items : \E s \in 1..n : \E i \in 1..len[s] : x.at = <<s, i>>

\* Of items there is one that is read last.
LEMMA LastItem ==
    ASSUME NEW same, same # {}, Placed(same)
    PROVE  \E x \in same : ~ \E y \in same : Before(x.at, y.at)
<1>1. PICK n \in Nat : \E len \in [1..n -> Nat] :
         \A x \in same : \E s \in 1..n : \E i \in 1..len[s] : x.at = <<s, i>>
  BY DEF Placed
<1>2. PICK len \in [1..n -> Nat] :
         \A x \in same : \E s \in 1..n : \E i \in 1..len[s] : x.at = <<s, i>>
  BY <1>1
<1> DEFINE T == {x.at[1] : x \in same}
           s == LastOf(T)
<1>3. T \in SUBSET (1..n) /\ T # {}
  BY <1>2
<1>4. s \in T /\ \A t \in T : t <= s
  BY <1>3, LastIsThere
<1> DEFINE lasts == {x \in same : x.at[1] = s}
           U == {x.at[2] : x \in lasts}
           i == LastOf(U)
<1> HIDE DEF s
<1>5. s \in 1..n /\ len[s] \in Nat
  BY <1>3, <1>4
<1>6. U \in SUBSET (1..len[s]) /\ U # {}
  <2>1. ASSUME NEW x \in lasts PROVE x.at[2] \in 1..len[s]
    <3>1. PICK t \in 1..n : \E j \in 1..len[t] : x.at = <<t, j>>
      BY <1>2
    <3>2. t = s
      BY <3>1
    <3> QED
      BY <3>1, <3>2
  <2>2. lasts # {}
    BY <1>4
  <2> HIDE DEF lasts
  <2> QED
    BY <2>1, <2>2
<1>7. i \in U /\ \A j \in U : j <= i
  BY <1>5, <1>6, LastIsThere
<1> HIDE DEF i
<1>8. PICK x \in lasts : x.at[2] = i
  BY <1>7
<1>9. ASSUME NEW y \in same, Before(x.at, y.at) PROVE FALSE
  <2>1. PICK t \in 1..n : \E j \in 1..len[t] : y.at = <<t, j>>
    BY <1>2
  <2>2. PICK j \in 1..len[t] : y.at = <<t, j>>
    BY <2>1
  <2>3. t \in T /\ t \in Nat /\ s \in Nat /\ i \in Nat /\ j \in Nat /\ x.at[1] = s
    BY <1>2, <1>5, <1>6, <1>7, <1>8, <2>2, SMTT(30)
  <2>4. s < t \/ (s = t /\ i < j)
    BY <1>8, <1>9, <2>2, <2>3 DEF Before
  <2>5. t <= s
    BY <1>4, <2>3
  <2>6. s = t /\ i < j
    BY <2>3, <2>4, <2>5
  <2>7. j \in U
    BY <2>2, <2>6
  <2> HIDE DEF U
  <2> QED
    BY <1>7, <2>3, <2>6, <2>7
<1> QED
  BY <1>8, <1>9

\* Of a merged claim, the field is that of one of its items; that it is
\* documented is said by one of them.
LEMMA MergedFrom ==
    ASSUME NEW items, Placed(items), NEW x0 \in items
    PROVE  LET m == MergedClaim(items, x0.is.id) IN
           /\ m.id = x0.is.id
           /\ \E x \in items : x.is.id = m.id /\ m.field = x.is.field
           /\ m.status = "documented"
                => \E x \in items : x.is.id = m.id /\ x.is.status = "documented"
<1> DEFINE same == {x \in items : x.is.id = x0.is.id}
           m == MergedClaim(items, x0.is.id)
           first == CHOOSE x \in same : ~ \E y \in same : Before(y.at, x.at)
           last == CHOOSE x \in same : ~ \E y \in same : Before(x.at, y.at)
<1>1. x0 \in same /\ \A x \in same : x \in items /\ x.is.id = x0.is.id
  OBVIOUS
<1>2. m.id = x0.is.id /\ m.field = first.is.field /\ m.status = MergedStatus(same)
  BY DEF MergedClaim
<1> HIDE DEF same, m
<1>3. Placed(same) /\ \A x \in same : \E s \in Nat, i \in Nat : x.at = <<s, i>>
  <2>1. PICK n \in Nat : \E len \in [1..n -> Nat] :
           \A x \in items : \E s \in 1..n : \E i \in 1..len[s] : x.at = <<s, i>>
    BY DEF Placed
  <2>2. PICK len \in [1..n -> Nat] :
           \A x \in items : \E s \in 1..n : \E i \in 1..len[s] : x.at = <<s, i>>
    BY <2>1
  <2>3. Placed(same)
    BY <1>1, <2>2 DEF Placed
  <2>4. ASSUME NEW x \in same PROVE \E s \in Nat, i \in Nat : x.at = <<s, i>>
    <3>1. PICK s \in 1..n : \E i \in 1..len[s] : x.at = <<s, i>>
      BY <1>1, <2>2
    <3> QED
      BY <3>1
  <2> QED
    BY <2>3, <2>4
<1>4. first \in same
  <2>1. \E x \in same : ~ \E y \in same : Before(y.at, x.at)
    BY <1>1, <1>3, FirstItem
  <2> QED
    BY <2>1
<1>5. last \in same
  <2>1. \E x \in same : ~ \E y \in same : Before(x.at, y.at)
    BY <1>1, <1>3, LastItem
  <2> QED
    BY <2>1
<1>6. ASSUME m.status = "documented" PROVE \E x \in same : x.is.status = "documented"
  <2> DEFINE statuses == {x.is.status : x \in same}
  <2>1. CASE "documented" \in statuses
    BY <2>1
  <2>2. CASE "documented" \notin statuses
    <3>1. last.is.status = "documented"
      BY <1>2, <1>6, <2>2 DEF MergedStatus
    <3> QED
      BY <1>5, <3>1
  <2> QED
    BY <2>1, <2>2
<1> HIDE DEF first, last
<1> QED
  BY <1>1, <1>2, <1>4, <1>6 DEF m

LEMMA ClaimsPlaced ==
    ASSUME NEW ds \in [1..Documents -> DocRows], NEW us, TurnsApart(us)
    PROVE  Placed(Items(Sources(ds, us), "claims"))
<1> DEFINE S == Sources(ds, us)
           n == Documents + Len(us)
           len == [s \in 1..n |-> IF s \in DOMAIN S THEN Len(S[s]["claims"]) ELSE 0]
<1>1. Documents \in Nat /\ Len(us) \in Nat /\ DOMAIN us = 1..Len(us)
  BY DocumentsAssumption, SequenceOf DEF TurnsApart, IsSequence
<1>2. ASSUME NEW s \in DOMAIN S
      PROVE  s \in 1..n /\ IsSequence(S[s]["claims"])
  <2>1. CASE s \in Understood(ds)
    <3>1. s \in 1..Documents /\ S[s] = ds[s].result /\ ds[s].result \in Results
      BY <2>1, SourcesAre
    <3> HIDE DEF S
    <3>2. IsSequence(S[s]["claims"])
      BY <3>1, ResultsAssumption DEF IsSequence
    <3> QED
      BY <1>1, <3>1, <3>2
  <2>2. CASE s \notin Understood(ds)
    <3>1. PICK i \in Captured(us) : s = Documents + i
      BY <1>2, <2>2, SourcesAre
    <3>2. S[s] = Statement(us[i]) /\ i \in 1..Len(us)
      BY <1>1, <3>1, SourcesAre DEF Captured
    <3>3. Statement(us[i])["claims"] = <<TurnClaim(us[i])>>
      BY DEF Statement
    <3> HIDE DEF S
    <3>4. IsSequence(S[s]["claims"])
      BY <3>2, <3>3 DEF IsSequence
    <3> QED
      BY <1>1, <3>1, <3>2, <3>4
  <2> QED
    BY <2>1, <2>2
<1>3. \A s \in DOMAIN S : /\ s \in 1..n /\ Len(S[s]["claims"]) \in Nat
                          /\ DOMAIN S[s]["claims"] = 1..Len(S[s]["claims"])
  <2>1. ASSUME NEW list, IsSequence(list) PROVE Len(list) \in Nat /\ DOMAIN list = 1..Len(list)
    BY <2>1, SequenceOf DEF IsSequence
  <2> HIDE DEF S, n
  <2> QED
    BY <1>2, <2>1
<1>4. n \in Nat
  BY <1>1
<1>5. \A x \in Items(S, "claims") :
         \E s \in DOMAIN S : \E i \in DOMAIN S[s]["claims"] : x.at = <<s, i>>
  BY DEF Items
<1> HIDE DEF S, n
<1>6. len \in [1..n -> Nat]
  BY <1>3
<1>7. \A x \in Items(S, "claims") : \E s \in 1..n : \E i \in 1..len[s] : x.at = <<s, i>>
  BY <1>3, <1>5
<1> HIDE DEF len
<1> QED
  BY <1>4, <1>6, <1>7 DEF Placed, S

\* What is documented of the funding a live document shows.
LEMMA DocumentedIsShown ==
    ASSUME OwnNames, DocsShaped, NEW us, TurnsApart(us),
           NEW m \in MergedClaims(Sources(docs, us)), m.field = Funding, m.status = "documented"
    PROVE  FundingShown
<1> DEFINE items == Items(Sources(docs, us), "claims")
<1>0. docs \in [1..Documents -> DocRows]
  BY DEF DocsShaped
<1>1. PICK x0 \in items : m = MergedClaim(items, x0.is.id)
  BY DEF MergedClaims
<1>2. Placed(items)
  BY <1>0, ClaimsPlaced
<1>3. PICK x \in items : x.is.id = m.id /\ x.is.status = "documented"
  <2> HIDE DEF items
  <2> QED
    BY <1>1, <1>2, MergedFrom
<1>4. PICK y \in items : y.is.id = m.id /\ y.is.field = Funding
  <2> HIDE DEF items
  <2> QED
    BY <1>1, <1>2, MergedFrom
<1>5. OfDocument(x, docs, "claims")
  <2>1. ~ OfStatement(x, us, "claims")
    <3>1. ASSUME NEW j, NEW i \in DOMAIN Statement(us[j])["claims"]
          PROVE  Statement(us[j])["claims"][i].status # "documented"
      <4>1. Statement(us[j])["claims"] = <<TurnClaim(us[j])>>
        BY DEF Statement
      <4> QED
        BY <4>1 DEF TurnClaim
    <3> QED
      BY <1>3, <3>1 DEF OfStatement
  <2> QED
    BY <1>0, <2>1, ItemsAre
<1>6. PICK d \in Understood(docs) : \E i \in DOMAIN docs[d].result["claims"] :
         x = [at |-> <<d, i>>, is |-> docs[d].result["claims"][i]] /\ docs[d].result \in Results
  BY <1>5 DEF OfDocument
<1>7. PICK i \in DOMAIN docs[d].result["claims"] :
         x = [at |-> <<d, i>>, is |-> docs[d].result["claims"][i]] /\ docs[d].result \in Results
  BY <1>6
<1>8. OfDocument(y, docs, "claims")
  <2>1. ~ OfStatement(y, us, "claims")
    <3>1. ASSUME NEW j \in Captured(us), NEW k \in DOMAIN Statement(us[j])["claims"]
          PROVE  Statement(us[j])["claims"][k].id # m.id
      <4>1. Statement(us[j])["claims"] = <<TurnClaim(us[j])>>
        BY DEF Statement
      <4>2. Statement(us[j])["claims"][k].id = <<"turn", us[j].id>>
        BY <4>1 DEF TurnClaim
      <4>3. us[j].id \in Nat
        BY <1>0, SourcesAre
      <4>4. docs[d].result["claims"][i].id = m.id
        BY <1>3, <1>7
      <4> QED
        BY <1>7, <4>2, <4>3, <4>4 DEF OwnNames
    <3> QED
      BY <1>4, <3>1 DEF OfStatement
  <2> QED
    BY <1>0, <2>1, ItemsAre
<1>9. PICK e \in Understood(docs) : \E k \in DOMAIN docs[e].result["claims"] :
         y = [at |-> <<e, k>>, is |-> docs[e].result["claims"][k]]
  BY <1>8 DEF OfDocument
<1>10. PICK k \in DOMAIN docs[e].result["claims"] :
         y = [at |-> <<e, k>>, is |-> docs[e].result["claims"][k]]
  BY <1>9
<1> DEFINE r == docs[d].result
           s == docs[e].result
<1>11. /\ r \in Results /\ r.claims[i].status = "documented" /\ i \in DOMAIN r.claims
       /\ k \in DOMAIN s.claims /\ s.claims[k].id = r.claims[i].id /\ s.claims[k].field = Funding
  BY <1>3, <1>4, <1>7, <1>10
<1>12. PICK j \in DOMAIN r.evidence :
          r.evidence[j].id \in r.claims[i].sup /\ r.evidence[j].source = "uploaded_file"
  BY <1>11, ResultsAssumption
<1> QED
  BY <1>11, <1>12 DEF FundingShown

\* Of the same items there is the same claim.
LEMMA SameMerged ==
    ASSUME NEW few, NEW many, NEW id,
           \A y : y \in few /\ y.is.id = id <=> y \in many /\ y.is.id = id
    PROVE  MergedClaim(few, id) = MergedClaim(many, id)
<1> DEFINE A == {x \in few : x.is.id = id}
           B == {x \in many : x.is.id = id}
           Earliest(same) == (CHOOSE x \in same : ~ \E y \in same : Before(y.at, x.at)).is
           Merge(same) ==
             [id |-> id, field |-> Earliest(same).field, value |-> Canonical(Earliest(same)),
              status |-> MergedStatus(same),
              sup |-> UNION {x.is.sup : x \in same}, con |-> UNION {x.is.con : x \in same}]
<1>1. A = B
  OBVIOUS
<1>2. MergedClaim(few, id) = Merge(A) /\ MergedClaim(many, id) = Merge(B)
  BY DEF MergedClaim
<1> HIDE DEF A, B, Merge
<1> QED
  BY <1>1, <1>2

\* With more statements there are the same claims, and more.
LEMMA ClaimsRemain ==
    ASSUME OwnNames, NEW ds \in [1..Documents -> DocRows], NEW ts, NEW us,
           TurnsApart(ts), TurnsApart(us), Among(ts, us)
    PROVE  \A m \in MergedClaims(Sources(ds, ts)) : m \in MergedClaims(Sources(ds, us))
<1> DEFINE few == Items(Sources(ds, ts), "claims")
           many == Items(Sources(ds, us), "claims")
<1>1. \A i \in Captured(ts) : i \in Captured(us) /\ TurnClaim(us[i]) = TurnClaim(ts[i])
  BY DEF Among, TurnClaim
<1>2. ASSUME NEW d \in Understood(ds), NEW i \in DOMAIN ds[d].result["claims"],
             NEW x, x = [at |-> <<d, i>>, is |-> ds[d].result["claims"][i]]
      PROVE  x \in few /\ x \in many
  <2>1. ASSUME NEW vs, TurnsApart(vs) PROVE x \in Items(Sources(ds, vs), "claims")
    <3>1. d \in DOMAIN Sources(ds, vs) /\ Sources(ds, vs)[d] = ds[d].result
      BY <2>1, SourcesAre
    <3> QED
      BY <1>2, <3>1 DEF Items
  <2> QED
    BY <2>1
<1>3. ASSUME NEW x \in few PROVE x \in many
  <2>1. CASE OfDocument(x, ds, "claims")
    BY <1>2, <2>1 DEF OfDocument
  <2>2. CASE OfStatement(x, ts, "claims")
    <3>1. PICK j \in Captured(ts) : \E i \in DOMAIN Statement(ts[j])["claims"] :
             x = [at |-> <<Documents + j, i>>, is |-> Statement(ts[j])["claims"][i]]
      BY <2>2 DEF OfStatement
    <3>2. Statement(ts[j])["claims"] = <<TurnClaim(ts[j])>>
      BY DEF Statement
    <3>3. x = [at |-> <<Documents + j, 1>>, is |-> TurnClaim(ts[j])]
      BY <3>1, <3>2
    <3>4. x = [at |-> <<Documents + j, 1>>, is |-> TurnClaim(us[j])] /\ j \in Captured(us)
      BY <1>1, <3>3
    <3> QED
      BY <3>4, StatementItem
  <2> QED
    BY <1>3, <2>1, <2>2, ItemsAre
<1>4. ASSUME NEW x \in few, NEW y \in many, y.is.id = x.is.id PROVE y \in few
  <2>1. CASE OfDocument(y, ds, "claims")
    BY <1>2, <2>1 DEF OfDocument
  <2>2. CASE OfStatement(y, us, "claims")
    <3>1. PICK j \in Captured(us) : \E i \in DOMAIN Statement(us[j])["claims"] :
             y = [at |-> <<Documents + j, i>>, is |-> Statement(us[j])["claims"][i]]
      BY <2>2 DEF OfStatement
    <3>2. Statement(us[j])["claims"] = <<TurnClaim(us[j])>>
      BY DEF Statement
    <3>3. y.is.id = <<"turn", us[j].id>> /\ us[j].id \in Nat
      BY <3>1, <3>2, SourcesAre DEF TurnClaim
    <3>4. ~ OfDocument(x, ds, "claims")
      <4>1. ASSUME NEW r \in Results, NEW i \in DOMAIN r["claims"]
            PROVE  r["claims"][i].id # y.is.id
        BY <3>3 DEF OwnNames
      <4> QED
        BY <1>4, <4>1 DEF OfDocument
    <3>5. OfStatement(x, ts, "claims")
      BY <3>4, ItemsAre
    <3>6. PICK k \in Captured(ts) : \E i \in DOMAIN Statement(ts[k])["claims"] :
             x = [at |-> <<Documents + k, i>>, is |-> Statement(ts[k])["claims"][i]]
      BY <3>5 DEF OfStatement
    <3>7. Statement(ts[k])["claims"] = <<TurnClaim(ts[k])>>
      BY DEF Statement
    <3>8. x.is.id = <<"turn", ts[k].id>>
      BY <3>6, <3>7 DEF TurnClaim
    <3>9. k \in Captured(us) /\ us[k].id = us[j].id
      <4>1. k \in Captured(us) /\ us[k].id = ts[k].id
        BY DEF Among
      <4>2. <<"turn", ts[k].id>> = <<"turn", us[j].id>>
        BY <1>4, <3>3, <3>8
      <4> QED
        BY <4>1, <4>2
    <3>10. k = j
      BY <3>9 DEF TurnsApart, Captured
    <3>11. y = [at |-> <<Documents + j, 1>>, is |-> TurnClaim(us[j])]
      BY <3>1, <3>2
    <3>12. y = [at |-> <<Documents + k, 1>>, is |-> TurnClaim(ts[k])]
      BY <1>1, <3>10, <3>11
    <3> QED
      BY <3>12, StatementItem
  <2> QED
    BY <1>4, <2>1, <2>2, ItemsAre
<1> HIDE DEF few, many
<1>5. ASSUME NEW x \in few PROVE MergedClaim(few, x.is.id) = MergedClaim(many, x.is.id)
  BY <1>3, <1>4, SameMerged
<1>6. ASSUME NEW m \in MergedClaims(Sources(ds, ts)) PROVE m \in MergedClaims(Sources(ds, us))
  <2>1. PICK x \in few : m = MergedClaim(few, x.is.id)
    BY DEF MergedClaims, few
  <2> QED
    BY <1>3, <1>5, <2>1 DEF MergedClaims, many
<1> QED
  BY <1>6

\* Statements report no conflict and no proof point.
LEMMA DocumentItems ==
    ASSUME NEW ds \in [1..Documents -> DocRows], NEW us, TurnsApart(us),
           NEW part \in {"conflicts", "proofs"}
    PROVE  \A x : x \in Items(Sources(ds, us), part) <=> OfDocument(x, ds, part)
<1>1. ASSUME NEW x \in Items(Sources(ds, us), part) PROVE OfDocument(x, ds, part)
  <2>1. ASSUME NEW j PROVE DOMAIN Statement(us[j])[part] = {}
    BY DEF Statement
  <2>2. ~ OfStatement(x, us, part)
    BY <2>1 DEF OfStatement
  <2> QED
    BY <2>2, ItemsAre
<1>2. ASSUME NEW x, OfDocument(x, ds, part) PROVE x \in Items(Sources(ds, us), part)
  <2>1. PICK d \in Understood(ds) : \E i \in DOMAIN ds[d].result[part] :
           x = [at |-> <<d, i>>, is |-> ds[d].result[part][i]]
    BY <1>2 DEF OfDocument
  <2>2. d \in DOMAIN Sources(ds, us) /\ Sources(ds, us)[d] = ds[d].result
    BY SourcesAre
  <2> QED
    BY <2>1, <2>2 DEF Items
<1> QED
  BY <1>1, <1>2

\* So what documents report does not depend on what was said.
LEMMA SameReports ==
    ASSUME NEW ds \in [1..Documents -> DocRows], NEW ts, NEW us, TurnsApart(ts), TurnsApart(us)
    PROVE  /\ DocumentProofs(Sources(ds, ts)) = DocumentProofs(Sources(ds, us))
           /\ \A r : Reported(Sources(ds, ts), r) = Reported(Sources(ds, us), r)
<1>1. Items(Sources(ds, ts), "proofs") = Items(Sources(ds, us), "proofs")
  <2> DEFINE A == Items(Sources(ds, ts), "proofs")
             B == Items(Sources(ds, us), "proofs")
  <2>1. \A x : x \in A <=> x \in B
    BY DocumentItems
  <2> HIDE DEF A, B
  <2>2. A = B
    BY <2>1
  <2> QED
    BY <2>2 DEF A, B
<1>2. Items(Sources(ds, ts), "conflicts") = Items(Sources(ds, us), "conflicts")
  <2> DEFINE A == Items(Sources(ds, ts), "conflicts")
             B == Items(Sources(ds, us), "conflicts")
  <2>1. \A x : x \in A <=> x \in B
    BY DocumentItems
  <2> HIDE DEF A, B
  <2>2. A = B
    BY <2>1
  <2> QED
    BY <2>2 DEF A, B
<1> QED
  BY <1>1, <1>2 DEF DocumentProofs, Reported

\* A case with no conflict has none with fewer statements.
LEMMA NoMoreConflicts ==
    ASSUME OwnNames, NEW ds \in [1..Documents -> DocRows], NEW ts, NEW us,
           TurnsApart(ts), TurnsApart(us), Among(ts, us), NEW resolved,
           Conflicts(Sources(ds, us), resolved) = {}
    PROVE  Conflicts(Sources(ds, ts), resolved) = {}
<1> DEFINE few == MergedClaims(Sources(ds, ts))
           many == MergedClaims(Sources(ds, us))
           reported == Reported(Sources(ds, us), resolved)
           Found(merged) == Disputed(merged, resolved) \ {c.id : c \in reported}
           Generated(merged, evidence) ==
              {[id |-> f, claims |-> {c.id : c \in On(merged, f)}, severity |-> "medium",
                evidence |-> GroupEvidence(merged, evidence, f)] : f \in Found(merged)}
<1>1. Reported(Sources(ds, ts), resolved) = reported
  BY SameReports
<1>2. /\ Conflicts(Sources(ds, us), resolved)
            = reported \cup Generated(many, Evidence(Sources(ds, us)))
      /\ Conflicts(Sources(ds, ts), resolved)
            = reported \cup Generated(few, Evidence(Sources(ds, ts)))
  BY <1>1 DEF Conflicts
<1>3. few \subseteq many
  BY ClaimsRemain
<1> HIDE DEF few, many, reported
<1>4. Disputed(few, resolved) \subseteq Disputed(many, resolved)
  BY <1>3 DEF Disputed, On
<1>5. reported = {} /\ Generated(many, Evidence(Sources(ds, us))) = {}
  <2> HIDE DEF Generated
  <2> QED
    BY <1>2
<1>6. Found(many) = {}
  BY <1>5
<1>7. Found(few) = {}
  BY <1>4, <1>6
<1>8. Generated(few, Evidence(Sources(ds, ts))) = {}
  <2> HIDE DEF Found
  <2> QED
    BY <1>7
<1> HIDE DEF Generated
<1> QED
  BY <1>2, <1>5, <1>8

\* A claim of the board is a merged one, that evidence may contradict.
LEMMA BoardClaim ==
    ASSUME NEW merged, NEW evidence, NEW resolved,
           NEW m, DOMAIN m = {"id", "field", "value", "status", "sup", "con"}
    PROVE  LET c == Confronted(merged, evidence, resolved, m) IN
           /\ c.id = m.id /\ c.field = m.field /\ c.value = m.value /\ c.sup = m.sup
           /\ c.status \in {m.status, "contradicted"}
<1> DEFINE c == Confronted(merged, evidence, resolved, m)
           group == GroupEvidence(merged, evidence, m.field)
<1>1. c = m \/ c = [m EXCEPT !.status = "contradicted", !.con = @ \cup group]
  BY DEF Confronted
<1> DEFINE n == [m EXCEPT !.status = "contradicted"]
<1>2. /\ n.id = m.id /\ n.field = m.field /\ n.value = m.value /\ n.sup = m.sup
      /\ n.status = "contradicted" /\ DOMAIN n = DOMAIN m /\ n.con = m.con
  OBVIOUS
<1>3. [m EXCEPT !.status = "contradicted", !.con = @ \cup group] = [n EXCEPT !.con = @ \cup group]
  OBVIOUS
<1> HIDE DEF n, c, group
<1>4. c = m \/ c = [n EXCEPT !.con = @ \cup group]
  BY <1>1, <1>3
<1>5. CASE c = [n EXCEPT !.con = @ \cup group]
  <2>1. /\ c.id = n.id /\ c.field = n.field /\ c.value = n.value /\ c.sup = n.sup
        /\ c.status = n.status
    BY <1>2, <1>5
  <2> QED
    BY <1>2, <2>1 DEF c
<1> QED
  BY <1>4, <1>5 DEF c

\* The board of a session in which the funding was stated, but is not shown:
\* what was said is one of its claims, and no claim on it is documented.
FundingOnBoard(board, us) ==
    /\ \A c \in board.claims : c.field = Funding => c.status # "documented"
    /\ \E i \in Captured(us) : \E c \in board.claims :
          /\ c.id = <<"turn", us[i].id>> /\ c.field = Funding /\ c.value # None /\ c.sup = {}
          /\ c.status \in {"stated", "contradicted"}

LEMMA FundingOnTheBoard ==
    ASSUME OwnNames, DocsShaped, NEW us, TurnsApart(us), Captured(us) # {}, ~ FundingShown,
           NEW resolved
    PROVE  FundingOnBoard(Fresh(docs, us, resolved), us)
<1> DEFINE S == Sources(docs, us)
           merged == MergedClaims(S)
           evidence == Evidence(S)
           board == Fresh(docs, us, resolved)
<1>0. docs \in [1..Documents -> DocRows]
  BY DEF DocsShaped
<1>1. \A c : c \in board.claims <=> \E m \in merged : c = Confronted(merged, evidence, resolved, m)
  <2>1. board.claims = Claims(S, resolved)
    BY DEF Fresh, Snapshot, Built
  <2> QED
    BY <2>1 DEF Claims
<1>2. \A m \in merged : DOMAIN m = {"id", "field", "value", "status", "sup", "con"}
  <2>1. \A items, id :
           DOMAIN MergedClaim(items, id) = {"id", "field", "value", "status", "sup", "con"}
    BY DEF MergedClaim
  <2>2. \A m \in merged : \E items, id : m = MergedClaim(items, id)
    BY DEF MergedClaims
  <2> HIDE DEF merged
  <2> QED
    BY <2>1, <2>2
<1>3. \A m \in merged : m.field = Funding => m.status # "documented"
  BY DocumentedIsShown
<1>4. PICK i \in Captured(us) : TRUE
  OBVIOUS
<1>5. PICK m \in merged : /\ m.id = <<"turn", us[i].id>> /\ m.field = Funding
                          /\ m.value # None /\ m.status = "stated" /\ m.sup = {}
  BY <1>0, StatementClaim
<1> HIDE DEF merged, evidence, board
<1>6. ASSUME NEW c \in board.claims, c.field = Funding PROVE c.status # "documented"
  <2>1. PICK n \in merged : c = Confronted(merged, evidence, resolved, n)
    BY <1>1
  <2>2. c.field = n.field /\ c.status \in {n.status, "contradicted"}
    BY <1>2, <2>1, BoardClaim
  <2> QED
    BY <1>3, <1>6, <2>2
<1>7. \E c \in board.claims :
         /\ c.id = <<"turn", us[i].id>> /\ c.field = Funding /\ c.value # None /\ c.sup = {}
         /\ c.status \in {"stated", "contradicted"}
  <2> DEFINE c == Confronted(merged, evidence, resolved, m)
  <2>1. /\ c.id = m.id /\ c.field = m.field /\ c.value = m.value /\ c.sup = m.sup
        /\ c.status \in {m.status, "contradicted"}
    BY <1>2, BoardClaim
  <2> HIDE DEF c
  <2>2. c \in board.claims
    BY <1>1 DEF c
  <2> QED
    BY <1>5, <2>1, <2>2
<1> QED
  BY <1>6, <1>7 DEF FundingOnBoard, board

\* No uploaded file speaks for a statement.
LEMMA NoFileForWords ==
    ASSUME OwnNames, DocsShaped, NEW us, TurnsApart(us), NEW resolved,
           NEW i \in Captured(us), NEW c, c.id = <<"turn", us[i].id>>, c.sup = {}
    PROVE  ~ Uploaded(Fresh(docs, us, resolved), c)
<1> DEFINE board == Fresh(docs, us, resolved)
           items == Items(Sources(docs, us), "evidence")
<1>0. docs \in [1..Documents -> DocRows] /\ us[i].id \in Nat
  BY SourcesAre DEF DocsShaped
<1>1. \A e \in board.evidence : \E x \in items : e = x.is
  <2>1. board.evidence = Evidence(Sources(docs, us))
    BY DEF Fresh, Snapshot, Built
  <2>2. board.evidence = LastOfEach(items)
    BY <2>1 DEF Evidence
  <2> HIDE DEF board, items
  <2> QED
    BY <2>2 DEF LastOfEach
<1>2. ASSUME NEW e \in board.evidence, e.source = "uploaded_file" PROVE c.id \notin e.refs
  <2>1. PICK x \in items : e = x.is
    BY <1>1
  <2>2. CASE OfDocument(x, docs, "evidence")
    <3>1. PICK d \in Understood(docs) : \E j \in DOMAIN docs[d].result["evidence"] :
             x = [at |-> <<d, j>>, is |-> docs[d].result["evidence"][j]]
             /\ docs[d].result \in Results
      BY <2>2 DEF OfDocument
    <3>2. PICK j \in DOMAIN docs[d].result["evidence"] :
             x = [at |-> <<d, j>>, is |-> docs[d].result["evidence"][j]]
             /\ docs[d].result \in Results
      BY <3>1
    <3> DEFINE r == docs[d].result
    <3>3. r \in Results /\ j \in DOMAIN r.evidence /\ e = r.evidence[j]
      BY <2>1, <3>2
    <3> HIDE DEF r
    <3>4. e.refs \subseteq {r.claims[k].id : k \in DOMAIN r.claims}
      BY <3>3, ResultsAssumption
    <3>5. \A k \in DOMAIN r.claims : r.claims[k].id # c.id
      BY <1>0, <3>3 DEF OwnNames
    <3> QED
      BY <3>4, <3>5
  <2>3. CASE OfStatement(x, us, "evidence")
    <3>1. PICK j \in Captured(us) : \E k \in DOMAIN Statement(us[j])["evidence"] :
             x = [at |-> <<Documents + j, k>>, is |-> Statement(us[j])["evidence"][k]]
      BY <2>3 DEF OfStatement
    <3>2. Statement(us[j])["evidence"] = <<TurnEvidence(us[j])>>
      BY DEF Statement
    <3>3. e = TurnEvidence(us[j])
      BY <2>1, <3>1, <3>2
    <3> QED
      BY <1>2, <3>3 DEF TurnEvidence
  <2> QED
    BY <1>0, <2>2, <2>3, ItemsAre
<1> HIDE DEF board
<1>3. Own(c, {e \in board.evidence : e.source = "uploaded_file"}) = {}
  BY <1>2 DEF Own
<1> QED
  BY <1>3 DEF Uploaded, board

\* The board of a session is made of the documents there are and of what was
\* said, and shows no more of the funding than they do.
LEMMA BoardOfTheSession ==
    ASSUME OwnNames, IInv, ToldInv
    PROVE  \E us : /\ TurnsApart(us) /\ Among(turns, us)
                   /\ Board = Fresh(docs, us, rec.state.resolved)
                   /\ FundingStated => Captured(us) # {}
                   /\ FundingStated /\ ~ FundingShown => FundingOnBoard(Board, us)
<1>1. PICK us : TurnsApart(us) /\ Among(turns, us) /\ Board = Fresh(docs, us, rec.state.resolved)
  BY BoardBuilt DEF BuiltFrom
<1>2. FundingStated => Captured(us) # {}
  <2>1. FundingStated => Captured(turns) # {}
    BY DEF FundingStated, Captured, ToldInv, TurnsApart
  <2> QED
    BY <1>1, <2>1 DEF Among
<1>3. FundingStated /\ ~ FundingShown => FundingOnBoard(Board, us)
  BY <1>1, <1>2, FundingOnTheBoard DEF IInv
<1> QED
  BY <1>1, <1>2, <1>3

LEMMA GapWhenStated == ASSUME OwnNames, IInv, ToldInv PROVE FundingAsked
<1> SUFFICES ASSUME FundingStated, ~ FundingShown,
                    \A p \in DocumentProofs(Sources(docs, turns)) : p.id # "funding_proof"
             PROVE  "funding_proof" \in Report.missing
  BY DEF FundingAsked
<1>1. PICK us : /\ TurnsApart(us) /\ Board = Fresh(docs, us, rec.state.resolved)
                /\ FundingOnBoard(Board, us)
  BY BoardOfTheSession
<1> DEFINE S == Sources(docs, us)
           board == Board
           gap == [id |-> "funding_proof", document |-> None, status |-> "missing"]
<1>2. /\ board.claims = Claims(S, rec.state.resolved) /\ board.evidence = Evidence(S)
      /\ board.proofs = DocumentProofs(S) \cup FundingGap(S, board.claims, board.evidence)
  BY <1>1 DEF Fresh, Snapshot, Built
<1>3. \A p \in DocumentProofs(S) : p.id # "funding_proof"
  BY <1>1, SameReports DEF IInv, DocsShaped, ToldInv
<1> HIDE DEF S, board
<1>4. On(board.claims, Funding) # {}
  BY <1>1 DEF FundingOnBoard, On, board
<1>5. \A c \in On(board.claims, Funding) : ~ Substantiated(c, board.evidence)
  BY <1>1 DEF FundingOnBoard, On, Substantiated, board
<1>6. FundingGap(S, board.claims, board.evidence) = {gap}
  BY <1>3, <1>4, <1>5 DEF FundingGap
<1>7. gap \in board.proofs
  BY <1>2, <1>6
<1>8. ProofCode(gap) = "funding_proof" /\ gap.status = "missing"
  BY DEF ProofCode
<1> HIDE DEF gap
<1>9. "funding_proof" \in MissingEvidence(board)
  BY <1>7, <1>8 DEF MissingEvidence
<1>10. Report.missing = ReportedMissing(LatestView(rec, turns), board)
  BY DEF Report, UserReport, board
<1> QED
  BY <1>9, <1>10 DEF ReportedMissing

\* As long as no understanding takes the name of a statement, a source of
\* funds that was said and is not shown is missing evidence of the report, in
\* whatever order uploads, removals and answers come.
THEOREM FundingIsAsked == ASSUME OwnNames PROVE Spec => []FundingAsked
  BY InterviewInvariant, MemoryIsBuilt, GapWhenStated, PTL

LEMMA PassedAtRest ==
    ASSUME NEW view, NEW board, Result(view, board, Closing) = "passed"
    PROVE  ~ AtRisk(board) /\ MissingEvidence(board) = {} /\ view.says \in Closing
<1>1. ReportedMissing(view, board) = {} /\ ~ AtRisk(board) /\ view.says \in Closing
  BY DEF Result
<1> QED
  BY <1>1 DEF ReportedMissing

\* The last view says what the last turn said.
LEMMA LastSaid ==
    ASSUME IInv, ToldInv, Told
    PROVE  LatestView(rec, turns).says = turns[LastOf(Spoken(turns))].message
<1> DEFINE n == LastOf(Spoken(turns))
           last == turns[n]
<1>1. n \in DOMAIN turns
  <2>1. DOMAIN turns = 1..Len(turns) /\ Len(turns) \in Nat
    BY SequenceOf DEF IInv, TurnsInv, TurnsShaped, IsSequence
  <2>2. Spoken(turns) \in SUBSET (1..Len(turns)) /\ Spoken(turns) # {}
    BY <2>1 DEF Told, Spoken
  <2> QED
    BY <2>1, <2>2, LastIsThere
<1> HIDE DEF n
<1>2. SaysItsOwn(last)
  BY <1>1 DEF ToldInv, KeptSays
<1>3. DerivedView(rec, turns, last).says = last.message
  BY DEF DerivedView
<1>4. LatestView(rec, turns) = IF last.synced /\ last.kept.view.source = last.id
                               THEN last.kept.view ELSE DerivedView(rec, turns, last)
  BY DEF LatestView, Told, n
<1> HIDE DEF last
<1> QED
  BY <1>2, <1>3, <1>4 DEF SaysItsOwn, last, n

LEMMA EarnedWhenPassed == ASSUME OwnNames, IInv, ToldInv PROVE PassedIsEarned
<1> SUFFICES ASSUME Told, Report.result = "passed"
             PROVE  /\ turns[LastOf(Spoken(turns))].message.closes
                    /\ Conflicts(Sources(docs, turns), rec.state.resolved) = {}
                    /\ FundingStated => FundingShown
  BY DEF PassedIsEarned
<1> DEFINE view == LatestView(rec, turns)
           resolved == rec.state.resolved
<1>1. ~ AtRisk(Board) /\ MissingEvidence(Board) = {} /\ view.says \in Closing
  <2>1. Result(view, Board, Closing) = "passed"
    BY DEF Report, UserReport
  <2> QED
    BY <2>1, PassedAtRest
<1>2. turns[LastOf(Spoken(turns))].message.closes
  BY <1>1, LastSaid DEF Closing
<1>3. PICK us : /\ TurnsApart(us) /\ Among(turns, us) /\ Board = Fresh(docs, us, resolved)
                /\ FundingStated /\ ~ FundingShown => FundingOnBoard(Board, us)
  BY BoardOfTheSession
<1>4. Conflicts(Sources(docs, turns), resolved) = {}
  <2>1. Board.conflicts = Conflicts(Sources(docs, us), resolved)
    BY <1>3 DEF Fresh, Snapshot, Built
  <2>2. Conflicts(Sources(docs, us), resolved) = {}
    BY <1>1, <2>1 DEF AtRisk
  <2> QED
    BY <1>3, <2>2, NoMoreConflicts DEF IInv, DocsShaped, ToldInv
<1>5. ASSUME FundingStated, ~ FundingShown PROVE FALSE
  <2>1. FundingOnBoard(Board, us)
    BY <1>3, <1>5
  <2>2. PICK i \in Captured(us) : \E c \in Board.claims :
           /\ c.id = <<"turn", us[i].id>> /\ c.field = Funding /\ c.value # None /\ c.sup = {}
           /\ c.status \in {"stated", "contradicted"}
    BY <2>1 DEF FundingOnBoard
  <2>3. PICK c \in Board.claims :
           /\ c.id = <<"turn", us[i].id>> /\ c.field = Funding /\ c.value # None /\ c.sup = {}
           /\ c.status \in {"stated", "contradicted"}
    BY <2>2
  <2>4. c.status = "stated"
    BY <1>1, <2>3 DEF AtRisk
  <2>5. ~ Uploaded(Board, c)
    BY <1>3, <2>3, NoFileForWords DEF IInv
  <2>6. UnresolvedFunding(Board)
    BY <2>1, <2>3, <2>4, <2>5 DEF UnresolvedFunding, FundingOnBoard
  <2> QED
    BY <1>1, <2>6 DEF MissingEvidence
<1> QED
  BY <1>2, <1>4, <1>5

\* Nobody passes on words, as long as no understanding takes the name of a
\* statement: "passed" is reported only after a message that closes, with no
\* conflict open and the funding shown by a document that is still there, for
\* any history of messages, uploads and removals (_resolve_interview_result).
THEOREM PassingIsEarned == ASSUME OwnNames PROVE Spec => []PassedIsEarned
  BY InterviewInvariant, MemoryIsBuilt, EarnedWhenPassed, PTL

=============================================================================

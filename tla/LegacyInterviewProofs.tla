----------------------- MODULE LegacyInterviewProofs -----------------------
(***************************************************************************)
(* Theorems about LegacyInterview, for any documents, messages, boards and *)
(* answers of the three models.                                            *)
(***************************************************************************)
EXTENDS LegacyInterview, SequenceTheorems, WellFoundedInduction, TLAPS

-----------------------------------------------------------------------------
(* Lists: what is kept of one, what is first in one.                       *)

LEMMA LeastOf ==
    ASSUME NEW T \in SUBSET Nat, T # {}
    PROVE  \E x \in T : \A y \in T : x <= y
<1>1. \E x \in T : \A y \in T : ~ (<<y, x>> \in OpToRel(<, Nat))
  BY NatLessThanWellFounded, WFMin
<1>2. \A x \in T, y \in T : <<y, x>> \in OpToRel(<, Nat) <=> y < x
  BY DEF OpToRel
<1>3. PICK x \in T : \A y \in T : ~ (<<y, x>> \in OpToRel(<, Nat))
  BY <1>1
<1>4. \A y \in T : ~ (y < x)
  BY <1>2, <1>3
<1>5. \A y \in T : y \in Nat /\ x \in Nat
  OBVIOUS
<1>6. \A y \in T : x <= y
  BY <1>4, <1>5
<1> QED
  BY <1>6

LEMMA MinIsThere ==
    ASSUME NEW T \in SUBSET Nat, T # {}
    PROVE  Min(T) \in T
<1>1. PICK x \in T : \A y \in T : x <= y
  BY LeastOf
<1> QED
  BY <1>1 DEF Min

\* The function in Kept, up to its n-th value.
Step(s, S, kept, n) ==
    IF n = 0 THEN <<>> ELSE IF s[n] \in S THEN Append(kept[n - 1], s[n]) ELSE kept[n - 1]
Partial(s, S, n) == \E f : f = [i \in 0..n |-> Step(s, S, f, i)]

LEMMA KeptDefined ==
    ASSUME NEW s, NEW S, NEW m \in Nat
    PROVE  \A n \in 0..m : Partial(s, S, n)
<1> DEFINE T == {n \in 0..m : ~ Partial(s, S, n)}
<1> SUFFICES ASSUME T # {} PROVE FALSE
  OBVIOUS
<1>1. T \in SUBSET Nat
  OBVIOUS
<1>2. PICK x \in T : \A y \in T : x <= y
  BY <1>1, LeastOf
<1>3. x # 0
  <2> DEFINE f == [i \in 0..0 |-> <<>>]
  <2>1. f = [i \in 0..0 |-> Step(s, S, f, i)]
    BY DEF Step
  <2>2. Partial(s, S, 0)
    BY <2>1 DEF Partial
  <2> QED
    BY <2>2
<1>4. x - 1 \in 0..m /\ x \in Nat /\ ~ (x <= x - 1)
  BY <1>3
<1>5. Partial(s, S, x - 1)
  BY <1>2, <1>4
<1>6. PICK f : f = [i \in 0..(x - 1) |-> Step(s, S, f, i)]
  BY <1>5 DEF Partial
<1> DEFINE g == [i \in 0..x |-> IF i = x THEN Step(s, S, f, x) ELSE f[i]]
<1>7. ASSUME NEW i \in 0..x PROVE g[i] = Step(s, S, g, i)
  <2>1. CASE i = 0
    <3>1. g[i] = f[0] /\ f[0] = <<>>
      BY <1>4, <1>6, <1>3, <2>1 DEF Step
    <3> QED
      BY <2>1, <3>1 DEF Step
  <2>2. CASE i # 0
    <3>1. i - 1 \in 0..x /\ i - 1 # x
      BY <1>4, <2>2
    <3>2. g[i - 1] = f[i - 1]
      BY <3>1
    <3>3. g[i] = Step(s, S, f, i)
      BY <1>4, <1>6
    <3> QED
      BY <2>2, <3>2, <3>3 DEF Step
  <2> QED
    BY <2>1, <2>2
<1>8. g = [i \in 0..x |-> Step(s, S, g, i)]
  BY <1>7
<1>9. Partial(s, S, x)
  BY <1>8 DEF Partial
<1> QED
  BY <1>9

LEMMA KeptIs ==
    ASSUME NEW C, NEW s \in Seq(C), NEW S
    PROVE  Kept(s, S) \in Seq(C) /\ ToSet(Kept(s, S)) = ToSet(s) \cap S
<1> DEFINE m == Len(s)
           f == CHOOSE f : f = [i \in 0..m |-> Step(s, S, f, i)]
           Good(i) == f[i] \in Seq(C) /\ ToSet(f[i]) = {s[j] : j \in 1..i} \cap S
           T == {i \in 0..m : ~ Good(i)}
<1>1. m \in Nat /\ DOMAIN s = 1..m /\ \A i \in 1..m : s[i] \in C
  BY LenProperties
<1>2. Kept(s, S) = f[m]
  BY DEF Kept, Step
<1>3. f = [i \in 0..m |-> Step(s, S, f, i)]
  <2> HIDE DEF m
  <2>1. m \in 0..m
    BY <1>1
  <2>2. \A n \in 0..m : Partial(s, S, n)
    BY <1>1, KeptDefined
  <2> QED
    BY <2>1, <2>2 DEF Partial
<1> HIDE DEF f
<1>4. ASSUME T # {} PROVE FALSE
  <2>1. T \in SUBSET Nat
    BY <1>1
  <2>2. PICK x \in T : \A y \in T : x <= y
    BY <1>4, <2>1, LeastOf
  <2>3. x # 0
    <3>1. f[0] = <<>>
      BY <1>1, <1>3 DEF Step
    <3>2. <<>> \in Seq(C) /\ DOMAIN <<>> = {}
      OBVIOUS
    <3>3. Good(0)
      BY <3>1, <3>2 DEF ToSet
    <3> QED
      BY <3>3
  <2>4. x - 1 \in 0..m /\ x \in 1..m /\ x \in Nat /\ ~ (x <= x - 1)
    BY <1>1, <2>3
  <2>5. Good(x - 1)
    BY <2>2, <2>4
  <2>6. f[x] = Step(s, S, f, x)
    BY <1>3, <2>4
  <2> DEFINE g == f[x - 1]
             P == {s[j] : j \in 1..(x - 1)}
             Q == {s[j] : j \in 1..x}
  <2>7. g \in Seq(C) /\ ToSet(g) = P \cap S
    BY <2>5
  <2>8. Q = P \cup {s[x]}
    BY <2>4
  <2>9. f[x] = IF s[x] \in S THEN Append(g, s[x]) ELSE g
    BY <2>3, <2>6 DEF Step
  <2> HIDE DEF g, P, Q
  <2>10. ToSet(Append(g, s[x])) = ToSet(g) \cup {s[x]}
    <3> DEFINE h == Append(g, s[x])
               k == Len(g)
    <3>1. /\ k \in Nat /\ DOMAIN g = 1..k /\ DOMAIN h = 1..(k + 1) /\ h[k + 1] = s[x]
          /\ \A i \in 1..k : h[i] = g[i]
      BY <1>1, <2>4, <2>7, AppendProperties, LenProperties
    <3> HIDE DEF h, k
    <3>2. \A i \in 1..(k + 1) : i \in 1..k \/ i = k + 1
      BY <3>1
    <3>3. ToSet(h) = ToSet(g) \cup {s[x]}
      BY <3>1, <3>2 DEF ToSet
    <3> QED
      BY <3>3 DEF h
  <2>11. Append(g, s[x]) \in Seq(C)
    BY <1>1, <2>4, <2>7, AppendProperties
  <2>12. f[x] \in Seq(C) /\ ToSet(f[x]) = Q \cap S
    BY <2>7, <2>8, <2>9, <2>10, <2>11
  <2>13. Good(x)
    BY <2>12 DEF Q
  <2> QED
    BY <2>13
<1>5. Good(m)
  <2>1. m \in 0..m
    BY <1>1
  <2> HIDE DEF Good
  <2>2. \A i \in 0..m : Good(i)
    BY <1>4
  <2> QED
    BY <2>1, <2>2
<1>6. {s[j] : j \in 1..m} = ToSet(s)
  BY <1>1 DEF ToSet
<1> QED
  BY <1>2, <1>5, <1>6

\* The first that fits is of the list and fits; there is none only if none fits.
LEMMA SelectedIs ==
    ASSUME NEW s, NEW I, I \subseteq 1..Len(s), Len(s) \in Nat
    PROVE  LET i == IF I # {} THEN Min(I) ELSE 0 IN
           /\ i = 0 <=> I = {}
           /\ I # {} => i \in I
<1>1. I \in SUBSET Nat
  OBVIOUS
<1>2. I # {} => Min(I) \in I /\ Min(I) # 0
  BY <1>1, MinIsThere
<1> HIDE DEF Min
<1> QED
  BY <1>2

-----------------------------------------------------------------------------
(* Reviews.                                                                *)

LEMMA ListsJoin ==
    ASSUME NEW C, NEW s \in Seq(C), NEW t \in Seq(C)
    PROVE  s \o t \in Seq(C) /\ ToSet(s \o t) = ToSet(s) \cup ToSet(t)
<1> DEFINE m == Len(s)
           n == Len(t)
           u == s \o t
<1>1. /\ m \in Nat /\ n \in Nat /\ DOMAIN s = 1..m /\ DOMAIN t = 1..n
      /\ u \in Seq(C) /\ Len(u) = m + n
      /\ \A i \in 1..(m + n) : u[i] = IF i <= m THEN s[i] ELSE t[i - m]
  BY ConcatProperties, LenProperties
<1>2. DOMAIN u = 1..(m + n)
  BY <1>1, LenProperties
<1> HIDE DEF m, n, u
<1>3. \A i \in 1..m : i \in 1..(m + n) /\ u[i] = s[i]
  BY <1>1
<1>4. \A i \in 1..n : m + i \in 1..(m + n) /\ u[m + i] = t[i]
  BY <1>1
<1>5. \A i \in 1..(m + n) : i \in 1..m \/ (i - m \in 1..n /\ u[i] = t[i - m])
  BY <1>1
<1>6. \A c : c \in ToSet(u) <=> c \in ToSet(s) \/ c \in ToSet(t)
  <2>1. ASSUME NEW c \in ToSet(s) PROVE c \in ToSet(u)
    <3>1. PICK i \in 1..m : c = s[i]
      BY <1>1 DEF ToSet
    <3> QED
      BY <1>2, <1>3, <3>1 DEF ToSet
  <2>2. ASSUME NEW c \in ToSet(t) PROVE c \in ToSet(u)
    <3>1. PICK i \in 1..n : c = t[i]
      BY <1>1 DEF ToSet
    <3> QED
      BY <1>2, <1>4, <3>1 DEF ToSet
  <2>3. ASSUME NEW c \in ToSet(u) PROVE c \in ToSet(s) \/ c \in ToSet(t)
    <3>1. PICK i \in 1..(m + n) : c = u[i]
      BY <1>2 DEF ToSet
    <3>2. CASE i \in 1..m
      BY <1>1, <1>3, <3>1, <3>2 DEF ToSet
    <3>3. CASE i \notin 1..m
      BY <1>1, <1>5, <3>1, <3>3 DEF ToSet
    <3> QED
      BY <3>2, <3>3
  <2> QED
    BY <2>1, <2>2, <2>3
<1> QED
  BY <1>1, <1>6 DEF u

LEMMA JoinedIs ==
    ASSUME NEW C, NEW s \in Seq(C), NEW t \in Seq(C)
    PROVE  Joined(s, t) \in Seq(C) /\ ToSet(Joined(s, t)) = ToSet(s) \cup ToSet(t)
<1> DEFINE k == Kept(t, ToSet(t) \ ToSet(s))
<1>1. k \in Seq(C) /\ ToSet(k) = ToSet(t) \cap (ToSet(t) \ ToSet(s))
  BY KeptIs
<1>2. Joined(s, t) = s \o k
  BY DEF Joined
<1> HIDE DEF k
<1>3. s \o k \in Seq(C) /\ ToSet(s \o k) = ToSet(s) \cup ToSet(k)
  BY <1>1, ListsJoin
<1> QED
  BY <1>1, <1>2, <1>3

LEMMA OneConflict ==
    ASSUME NEW C, NEW condition, NEW c, condition => c \in C
    PROVE  If(condition, c) \in Seq(C) /\ (condition => ToSet(If(condition, c)) = {c})
<1>1. CASE condition
  <2>1. <<c>> \in Seq(C) /\ DOMAIN <<c>> = {1} /\ <<c>>[1] = c
    BY <1>1
  <2>2. ToSet(<<c>>) = {c}
    BY <2>1 DEF ToSet
  <2> QED
    BY <1>1, <2>1, <2>2 DEF If
<1>2. CASE ~ condition
  BY <1>2 DEF If
<1> QED
  BY <1>1, <1>2

LEMMA ConflictsAre ==
    ASSUME NEW r \in ReviewRows
    PROVE  /\ Conflicts(r) \in Seq(ConflictRows)
           /\ ToSet(Conflicts(r)) = ToSet(r.cross) \cup ToSet(r.claims)
<1>1. r.cross \in Seq(ConflictRows) /\ r.claims \in Seq(ConflictRows)
  BY DEF ReviewRows
<1> QED
  BY <1>1, ListsJoin DEF Conflicts

LEMMA AnyIs ==
    ASSUME NEW s
    PROVE  AnyConfirmed(s) <=> \E c \in ToSet(s) : Confirmed(c)
BY DEF AnyConfirmed, ToSet

LEMMA NormalizedIs ==
    ASSUME NEW r \in ReviewRows
    PROVE  LET q == Normalized(r) IN
           /\ q \in ReviewRows /\ q.cross = r.cross /\ q.claims = r.claims
           /\ AnyConfirmed(Conflicts(q)) => q.status = "high_risk"
<1> DEFINE q(v) == [r EXCEPT !.status = v]
<1>1. ASSUME NEW v \in {"high_risk", "needs_clarification"}
      PROVE  /\ q(v) \in ReviewRows /\ q(v).cross = r.cross /\ q(v).claims = r.claims
             /\ q(v).status = v
  <2>1. /\ r.cross \in Seq(ConflictRows) /\ r.claims \in Seq(ConflictRows)
        /\ r = [status |-> r.status, cross |-> r.cross, claims |-> r.claims]
    BY DEF ReviewRows
  <2>2. q(v) = [status |-> v, cross |-> r.cross, claims |-> r.claims]
    BY <2>1
  <2> HIDE DEF q
  <2> QED
    BY <2>1, <2>2 DEF ReviewRows
<1>2. /\ Normalized(r) \in {r, q("high_risk"), q("needs_clarification")}
      /\ AnyConfirmed(Conflicts(r)) => Normalized(r) = q("high_risk")
  BY DEF Normalized
<1> HIDE DEF q
<1>3. /\ Normalized(r) \in ReviewRows
      /\ Normalized(r).cross = r.cross /\ Normalized(r).claims = r.claims
  BY <1>1, <1>2
<1> QED
  BY <1>1, <1>2, <1>3 DEF Conflicts

\* A review that has passed through the merge, or none.
Ready(r) == r = None \/ (r \in ReviewRows /\ (AnyConfirmed(Conflicts(r)) => r.status = "high_risk"))

LEMMA MergedIs ==
    ASSUME NEW r \in ReviewRows, NEW fallback \in ReviewRows \cup {None}
    PROVE  LET q == Merged(r, fallback) IN
           /\ q \in ReviewRows /\ Ready(q)
           /\ ToSet(Conflicts(r)) \subseteq ToSet(Conflicts(q))
           /\ fallback # None => ToSet(Conflicts(fallback)) \subseteq ToSet(Conflicts(q))
<1>1. None \notin ReviewRows
  BY ConflictsAssumption
<1>2. CASE fallback = None
  <2>1. Merged(r, fallback) = Normalized(r)
    BY <1>2 DEF Merged
  <2> QED
    BY <1>2, <2>1, NormalizedIs DEF Ready, Conflicts
<1>3. CASE fallback # None
  <2> DEFINE x == Joined(r.cross, fallback.cross)
             y == Joined(r.claims, fallback.claims)
             m == [status |-> r.status, cross |-> x, claims |-> y]
  <2>1. /\ r.cross \in Seq(ConflictRows) /\ r.claims \in Seq(ConflictRows)
        /\ fallback \in ReviewRows
        /\ fallback.cross \in Seq(ConflictRows) /\ fallback.claims \in Seq(ConflictRows)
    BY <1>3 DEF ReviewRows
  <2>2. /\ x \in Seq(ConflictRows) /\ ToSet(x) = ToSet(r.cross) \cup ToSet(fallback.cross)
        /\ y \in Seq(ConflictRows) /\ ToSet(y) = ToSet(r.claims) \cup ToSet(fallback.claims)
    BY <2>1, JoinedIs
  <2>3. Merged(r, fallback) = Normalized(m)
    BY <1>3 DEF Merged
  <2> HIDE DEF x, y
  <2>4. m \in ReviewRows /\ m.cross = x /\ m.claims = y
    BY <2>2 DEF ReviewRows
  <2> HIDE DEF m
  <2> DEFINE q == Normalized(m)
  <2>5. /\ q \in ReviewRows /\ q.cross = x /\ q.claims = y
        /\ AnyConfirmed(Conflicts(q)) => q.status = "high_risk"
    BY <2>4, NormalizedIs
  <2> HIDE DEF q
  <2>6. /\ ToSet(Conflicts(q)) = ToSet(x) \cup ToSet(y)
        /\ ToSet(Conflicts(r)) = ToSet(r.cross) \cup ToSet(r.claims)
        /\ ToSet(Conflicts(fallback)) = ToSet(fallback.cross) \cup ToSet(fallback.claims)
    BY <2>1, <2>5, ConflictsAre
  <2>7. /\ q \in ReviewRows /\ Ready(q)
        /\ ToSet(Conflicts(r)) \subseteq ToSet(Conflicts(q))
        /\ ToSet(Conflicts(fallback)) \subseteq ToSet(Conflicts(q))
    BY <2>2, <2>5, <2>6 DEF Ready
  <2> QED
    BY <2>3, <2>7 DEF q
<1> QED
  BY <1>2, <1>3

\* What the documents say against each other and against the applicant is a list
\* of conflicts; a contradiction of the documents is a confirmed one.
LEMMA DocumentsSay ==
    ASSUME NEW ds \in Seq(Files), NEW claimed
    PROVE  /\ CrossConflicts(ds) \in Seq(ConflictRows)
           /\ ClaimConflicts(ds, claimed) \in Seq(ConflictRows)
           /\ Disagree(ds) => \E c \in ToSet(CrossConflicts(ds)) : Confirmed(c)
<1> DEFINE school == Conflict("document", "high", "plain", {School}, With(ds, School), {})
           passport == Conflict("document", "high", "plain", {Passport}, With(ds, Passport), {})
           short == Conflict("missing", "high", "short", {"cost", "funds"},
                             Stating(ds, "cost") \cup Stating(ds, "funds"), {})
           equity == Conflict("missing", "medium", "missing", {"equity"},
                              {d \in OnFile(ds) : d.equity}, {})
           claim == Conflict("claim", "high", "plain", {Funding}, With(ds, Funding), {})
           a == If(FieldConflict(ds, School), school)
           b == If(FieldConflict(ds, Passport), passport)
           e == If(Shortfall(ds), short)
           g == If(EquityGap(ds), equity)
<1>1. OnFile(ds) \subseteq Files
  <2>1. \A i \in DOMAIN ds : ds[i] \in Files
    BY LenProperties
  <2> QED
    BY <2>1 DEF OnFile, ToSet
<1>2. /\ school \in ConflictRows /\ passport \in ConflictRows /\ claim \in ConflictRows
      /\ short \in ConflictRows /\ equity \in ConflictRows
  BY <1>1 DEF Conflict, ConflictRows, Fields, With, Stating
<1>3. Confirmed(school) /\ Confirmed(passport)
  BY DEF Confirmed, Conflict
<1>4. Shortfall(ds) => Confirmed(short)
  <2>1. Shortfall(ds) => short.documents # {}
    BY DEF Shortfall, Conflict
  <2> QED
    BY <2>1 DEF Confirmed, Conflict
<1> HIDE DEF school, passport, short, equity, claim
<1>5. /\ a \in Seq(ConflictRows) /\ (FieldConflict(ds, School) => ToSet(a) = {school})
      /\ b \in Seq(ConflictRows) /\ (FieldConflict(ds, Passport) => ToSet(b) = {passport})
      /\ e \in Seq(ConflictRows) /\ (Shortfall(ds) => ToSet(e) = {short})
      /\ g \in Seq(ConflictRows)
  BY <1>2, OneConflict
<1>6. ClaimConflicts(ds, claimed) \in Seq(ConflictRows)
  BY <1>2, OneConflict DEF ClaimConflicts, claim
<1>7. CrossConflicts(ds) = a \o b \o e \o g
  BY DEF CrossConflicts, school, passport, short, equity
<1> HIDE DEF a, b, e, g
<1>8. a \o b \in Seq(ConflictRows) /\ ToSet(a \o b) = ToSet(a) \cup ToSet(b)
  BY <1>5, ListsJoin
<1> DEFINE ab == a \o b
           abe == ab \o e
<1>9. ab \in Seq(ConflictRows) /\ ToSet(ab) = ToSet(a) \cup ToSet(b)
  BY <1>8
<1> HIDE DEF ab
<1>10. abe \in Seq(ConflictRows) /\ ToSet(abe) = ToSet(ab) \cup ToSet(e)
  BY <1>5, <1>9, ListsJoin
<1>11. CrossConflicts(ds) = abe \o g
  BY <1>7 DEF ab
<1> HIDE DEF abe
<1>12. abe \o g \in Seq(ConflictRows) /\ ToSet(abe \o g) = ToSet(abe) \cup ToSet(g)
  BY <1>5, <1>10, ListsJoin
<1>13. /\ CrossConflicts(ds) \in Seq(ConflictRows)
       /\ ToSet(CrossConflicts(ds)) = ToSet(a) \cup ToSet(b) \cup ToSet(e) \cup ToSet(g)
  BY <1>9, <1>10, <1>11, <1>12
<1>14. Disagree(ds) => \E c \in ToSet(CrossConflicts(ds)) : Confirmed(c)
  BY <1>3, <1>4, <1>5, <1>13 DEF Disagree
<1> QED
  BY <1>6, <1>13, <1>14

LEMMA DocumentsReviewed ==
    ASSUME NEW ds \in Seq(Files), NEW claimed
    PROVE  LET r == ReviewOfDocuments(ds, claimed) IN
           /\ r \in ReviewRows \cup {None}
           /\ Disagree(ds) => r # None /\ \E c \in ToSet(Conflicts(r)) : Confirmed(c)
<1> DEFINE x == CrossConflicts(ds)
           y == ClaimConflicts(ds, claimed)
           r == [status |-> StatusOf(x \o y), cross |-> x, claims |-> y]
<1>1. /\ x \in Seq(ConflictRows) /\ y \in Seq(ConflictRows)
      /\ Disagree(ds) => \E c \in ToSet(x) : Confirmed(c)
  BY DocumentsSay
<1>2. ToSet(x \o y) = ToSet(x) \cup ToSet(y)
  BY <1>1, ListsJoin
<1>3. ReviewOfDocuments(ds, claimed) = IF x \o y = <<>> THEN None ELSE r
  BY DEF ReviewOfDocuments
<1>4. StatusOf(x \o y) \in {"high_risk", "reviewed"}
  BY DEF StatusOf
<1> HIDE DEF x, y
<1>5. r \in ReviewRows /\ r.cross = x /\ r.claims = y
  BY <1>1, <1>4 DEF ReviewRows
<1>6. Conflicts(r) = x \o y
  BY DEF Conflicts
<1>7. ToSet(<<>>) = {}
  BY DEF ToSet
<1>8. Disagree(ds) => x \o y # <<>> /\ \E c \in ToSet(x \o y) : Confirmed(c)
  BY <1>1, <1>2, <1>7
<1>9. None \notin ReviewRows
  BY ConflictsAssumption
<1> HIDE DEF r
<1> QED
  BY <1>3, <1>5, <1>6, <1>8, <1>9

LEMMA BoardReviewed ==
    ASSUME NEW board \in Boards
    PROVE  ReviewOfBoard(board) \in ReviewRows
<1> DEFINE S == {c \in ToSet(board.conflicts) : c.severity = "high"}
           high == Kept(board.conflicts, S)
           active == IF high # <<>> THEN high ELSE board.conflicts
           k == IF Len(active) < 3 THEN Len(active) ELSE 3
           y == SubSeq(active, 1, k)
           status == IF high # <<>> THEN "high_risk"
                     ELSE IF active # <<>> THEN "needs_clarification" ELSE "awaiting_documents"
<1>1. board.conflicts \in Seq(ConflictRows)
  BY ConflictsAssumption
<1>2. high \in Seq(ConflictRows)
  BY <1>1, KeptIs
<1>3. ReviewOfBoard(board) = [status |-> status, cross |-> <<>>, claims |-> y]
  BY DEF ReviewOfBoard
<1> HIDE DEF high
<1>4. active \in Seq(ConflictRows)
  BY <1>1, <1>2
<1>5. status \in {"high_risk", "needs_clarification", "awaiting_documents"}
  OBVIOUS
<1> HIDE DEF active, status
<1>6. y \in Seq(ConflictRows)
  <2>1. Len(active) \in Nat /\ \A i \in 1..Len(active) : active[i] \in ConflictRows
    BY <1>4, LenProperties
  <2>2. k \in Int /\ 1 \in Int /\ \A i \in 1..k : i \in 1..Len(active)
    BY <2>1
  <2> HIDE DEF k
  <2>3. \A i \in 1..k : active[i] \in ConflictRows
    BY <2>1, <2>2
  <2> QED
    BY <2>2, <2>3, SubSeqProperties
<1> HIDE DEF y
<1>7. <<>> \in Seq(ConflictRows)
  OBVIOUS
<1> QED
  BY <1>3, <1>5, <1>6, <1>7 DEF ReviewRows

LEMMA StateReviewed ==
    ASSUME NEW codes, NEW level, NEW remaining, NEW verified, NEW parsing
    PROVE  LET r == ReviewOfState(codes, level, remaining, verified, parsing) IN
           r \in ReviewRows \cup {None} /\ Ready(r)
<1> DEFINE severity == IF level = "high" THEN "high" ELSE "medium"
           record == Conflict("document", severity, "plain", {}, {}, {})
           evasive == Conflict("claim", "medium", "plain", {}, {}, {})
           x == If("record_conflict" \in codes, record)
           y == If("evasive_answer" \in codes, evasive)
           status == IF x # <<>> \/ (level = "high" /\ codes # {}) THEN "high_risk"
                     ELSE IF parsing # {} THEN "awaiting_parse"
                     ELSE IF remaining # {} THEN "awaiting_documents"
                     ELSE IF y # <<>> THEN "needs_clarification" ELSE "reviewed"
           r == [status |-> status, cross |-> x, claims |-> y]
<1>1. record \in ConflictRows /\ evasive \in ConflictRows
  BY DEF Conflict, ConflictRows
<1>2. /\ ReviewOfState(codes, level, remaining, verified, parsing) \in {r, None}
  BY DEF ReviewOfState
<1>3. ~ Confirmed(evasive)
  BY DEF Confirmed, Conflict
<1>4. "evasive_answer" \in codes => y = <<evasive>>
  BY DEF If
<1>5. "evasive_answer" \notin codes => y = <<>>
  BY DEF If
<1> HIDE DEF record, evasive
<1>6. x \in Seq(ConflictRows) /\ y \in Seq(ConflictRows)
  BY <1>1, OneConflict
<1> HIDE DEF x, y
<1>7. status \in {"high_risk", "awaiting_parse", "awaiting_documents", "needs_clarification", "reviewed"}
      /\ (x # <<>> => status = "high_risk")
  OBVIOUS
<1> HIDE DEF status
<1>8. r \in ReviewRows /\ r.cross = x /\ r.claims = y /\ r.status = status
  BY <1>6, <1>7 DEF ReviewRows
<1> HIDE DEF r
<1>9. ToSet(<<>>) = {} /\ ToSet(<<evasive>>) = {evasive}
  BY DEF ToSet
<1>10. \A c \in ToSet(y) : ~ Confirmed(c)
  BY <1>3, <1>4, <1>5, <1>9
<1>11. ToSet(Conflicts(r)) = ToSet(x) \cup ToSet(y)
  BY <1>8, ConflictsAre
<1>12. AnyConfirmed(Conflicts(r)) => x # <<>>
  BY <1>9, <1>10, <1>11, AnyIs
<1>13. Ready(r)
  BY <1>7, <1>8, <1>12 DEF Ready
<1> QED
  BY <1>2, <1>8, <1>13 DEF Ready

LEMMA ReviewIs ==
    ASSUME NEW told \in ReviewRows \cup {None}, NEW context \in ReviewRows \cup {None},
           NEW state \in ReviewRows \cup {None}, Ready(state), NEW seen
    PROVE  LET r == Review(told, context, state, seen)
               Found(q) == \E c \in ToSet(Conflicts(q)) : Confirmed(c)
           IN  /\ Ready(r)
               /\ context # None /\ Found(context) => r # None /\ Found(r)
<1> DEFINE fallback == IF context # None THEN Merged(context, state) ELSE state
           r == Review(told, context, state, seen)
<1>1. None \notin ReviewRows
  BY ConflictsAssumption
<1>2. /\ fallback \in ReviewRows \cup {None} /\ Ready(fallback)
      /\ context # None => /\ fallback # None
                           /\ ToSet(Conflicts(context)) \subseteq ToSet(Conflicts(fallback))
  BY <1>1, MergedIs
<1>3. r = IF told = None \/ (~seen /\ fallback = None) THEN fallback ELSE Merged(told, fallback)
  BY DEF Review
<1> HIDE DEF fallback, r
<1>4. CASE told = None
  BY <1>2, <1>3, <1>4 DEF r
<1>5. CASE told # None /\ ~seen /\ fallback = None
  BY <1>2, <1>3, <1>5 DEF r
<1>6. CASE told # None /\ ~ (~seen /\ fallback = None)
  <2>1. r = Merged(told, fallback)
    BY <1>3, <1>6
  <2>2. /\ r \in ReviewRows /\ Ready(r)
        /\ fallback # None => ToSet(Conflicts(fallback)) \subseteq ToSet(Conflicts(r))
    BY <1>2, <1>6, <2>1, MergedIs
  <2> QED
    BY <1>1, <1>2, <2>2 DEF r
<1> QED
  BY <1>4, <1>5, <1>6

\* The review of a turn: contradictions of the documents are in it, unless the
\* board spoke.
LEMMA ReviewedNow ==
    ASSUME documents \in Seq(Files), NEW told \in Reviews, NEW board \in Boards
    PROVE  LET r == ReviewNow(told, board) IN
           /\ Ready(r)
           /\ Disagree(documents) /\ ~Speaks(board) => r # None /\ AnyConfirmed(Conflicts(r))
<1> DEFINE claimed == LastClaim(run.profile)
           context == ReviewOfContext(documents, claimed, board)
           state == ReviewOfState(Codes(run.score), Level(run.score), Remaining, Verified, {})
           seen == documents # <<>> \/ Speaks(board) \/ run.score.missing # {} \/ run.score.flags # {}
           r == ReviewNow(told, board)
<1>1. state \in ReviewRows \cup {None} /\ Ready(state)
  BY StateReviewed
<1>2. told \in ReviewRows \cup {None}
  BY ConflictsAssumption
<1>3. CASE Speaks(board)
  <2>1. context \in ReviewRows \cup {None}
    BY <1>3, BoardReviewed DEF ReviewOfContext
  <2>2. r = Review(told, context, state, seen)
    BY DEF ReviewNow
  <2> HIDE DEF context, state, seen, r
  <2>3. Ready(Review(told, context, state, seen))
    BY <1>1, <1>2, <2>1, ReviewIs
  <2>4. Ready(r)
    BY <2>2, <2>3
  <2> QED
    BY <1>3, <2>4 DEF r
<1>4. CASE ~ Speaks(board)
  <2>1. context = ReviewOfDocuments(documents, claimed)
    BY <1>4 DEF ReviewOfContext
  <2>2. r = Review(told, context, state, seen)
    BY DEF ReviewNow
  <2> HIDE DEF claimed, context, state, seen, r
  <2>3. /\ context \in ReviewRows \cup {None}
        /\ Disagree(documents) => context # None /\ \E c \in ToSet(Conflicts(context)) : Confirmed(c)
    BY <2>1, DocumentsReviewed
  <2> DEFINE q == Review(told, context, state, seen)
  <2>4. /\ Ready(q)
        /\ (context # None /\ \E c \in ToSet(Conflicts(context)) : Confirmed(c))
           => q # None /\ \E c \in ToSet(Conflicts(q)) : Confirmed(c)
    BY <1>1, <1>2, <2>3, ReviewIs
  <2> HIDE DEF q
  <2>5. /\ Ready(q) /\ Disagree(documents) => q # None /\ AnyConfirmed(Conflicts(q))
    BY <2>3, <2>4, AnyIs
  <2>6. r = q
    BY <2>2 DEF q
  <2> QED
    BY <2>4, <2>5, <2>6 DEF r
<1> QED
  BY <1>3, <1>4

LEMMA ClarifiedIs ==
    ASSUME NEW r, r # None, Ready(r), AnyConfirmed(Conflicts(r))
    PROVE  ToClarify(r) # None
<1> DEFINE s == Conflicts(r)
<1>1. /\ r \in ReviewRows /\ r.status = "high_risk" /\ s \in Seq(ConflictRows)
  BY ConflictsAre DEF Ready
<1>2. Len(s) \in Nat /\ DOMAIN s = 1..Len(s) /\ \A i \in 1..Len(s) : s[i] \in ConflictRows
  BY <1>1, LenProperties
<1>3. s # <<>> /\ s[1] \in ConflictRows
  BY <1>2 DEF AnyConfirmed
<1>4. None \notin ConflictRows
  BY ConflictsAssumption
<1>5. \/ FirstThat(s, ConfirmedForReply) # None
      \/ ToClarify(r) = s[1]
  BY <1>1, <1>3 DEF ToClarify
<1> QED
  BY <1>3, <1>4, <1>5 DEF ToClarify

-----------------------------------------------------------------------------
(* Actions.                                                                *)

\* A review with a confirmed conflict is not passed over.
LEMMA ConflictDecides ==
    ASSUME NEW a, NEW review, review # None, Ready(review), AnyConfirmed(Conflicts(review))
    PROVE  Decided(a, review).decision \in {"high_risk_review", "simulated_refusal"}
<1>1. review.status = "high_risk"
  BY DEF Ready
<1> DEFINE b == Converged(Cleared(Finalized(a)), run.score, review)
<1>2. Decided(a, review) = Aligned(b, review)
  BY DEF Decided
<1> HIDE DEF b
<1>3. HighRisk.decision = "high_risk_review"
  BY DEF HighRisk
<1> QED
  BY <1>1, <1>2, <1>3 DEF Aligned

\* A conflict that was led with before does not end in refusal without a red line.
LEMMA RepeatsDecide ==
    ASSUME NEW a, NEW review, review # None, ~ Redline(run.score),
           PrimaryClaim(review) # None, Repeats(PrimaryClaim(review)) >= 2
    PROVE  Decided(a, review).decision = "high_risk_review"
<1> DEFINE b == Cleared(Finalized(a))
<1>1. Decided(a, review) = Aligned(Converged(b, run.score, review), review)
  BY DEF Decided
<1> HIDE DEF b
<1>2. Converged(b, run.score, review) = HighRisk
  BY DEF Converged
<1>3. HighRisk.decision = "high_risk_review"
  BY DEF HighRisk
<1> QED
  BY <1>1, <1>2, <1>3 DEF Aligned

ActionRows == [decision : {"continue_interview", "need_more_evidence", "route_correction",
                           "high_risk_review", "simulated_refusal"},
               requested : SUBSET Askable,
               kind : {"interview_question", "required_document", "route_correction",
                       "risk_review", "refusal"},
               doc : Askable \cup {None}]

LEMMA DecidedType ==
    ASSUME NEW a \in Actions, NEW review
    PROVE  Decided(a, review) \in ActionRows
<1>1. /\ a \in [decision : {"continue_interview", "need_more_evidence", "route_correction",
                            "high_risk_review", "simulated_refusal"},
                requested : Seq(Askable),
                kind : {"interview_question", "required_document", "route_correction",
                        "risk_review", "refusal"},
                doc : Askable \cup {None}]
      /\ a.requested \in Seq(Askable)
  BY ActionsAssumption
<1>2. HighRisk \in ActionRows
  BY DEF HighRisk, ActionRows
<1>3. Finalized(a) \in ActionRows
  <2>1. a.requested # <<>> => Head(a.requested) \in Askable
    BY <1>1, HeadTailProperties
  <2> QED
    BY <1>1, <2>1 DEF Finalized, ActionRows
<1> DEFINE b == Finalized(a)
<1> HIDE DEF b
<1>4. Cleared(b) \in ActionRows
  BY <1>3 DEF Cleared, ActionRows, b
<1> DEFINE c == Cleared(b)
<1> HIDE DEF c
<1>5. Converged(c, run.score, review) \in ActionRows
  BY <1>2, <1>4 DEF Converged, c
<1> DEFINE d == Converged(c, run.score, review)
<1> HIDE DEF d
<1>6. Aligned(d, review) \in ActionRows
  BY <1>2, <1>5 DEF Aligned, d
<1> QED
  BY <1>6 DEF Decided, b, c, d

\* An action asks for documents the model's actions can name.
LEMMA AskedType ==
    ASSUME NEW a \in ActionRows
    PROVE  Requested(a) \subseteq Askable /\ {FocusOf(a)} \ {None} \subseteq Askable
<1>1. a.requested \subseteq Askable /\ a.doc \in Askable \cup {None}
  BY DEF ActionRows
<1>2. Requested(a) \subseteq Askable
  BY <1>1 DEF Requested
<1>3. Requested(a) # {} => (CHOOSE t \in Requested(a) : TRUE) \in Askable
  BY <1>2
<1>4. FocusOf(a) \in Askable \cup {None}
  BY <1>1, <1>3 DEF FocusOf
<1> QED
  BY <1>2, <1>4

LEMMA FingerprintType ==
    ASSUME NEW r \in ReviewRows
    PROVE  PrimaryClaim(r) \in Fingerprints \cup {None}
<1> DEFINE s == r.claims
           I == {i \in 1..Len(s) : s[i].severity = "high" /\ s[i].kind = "claim"}
           i == IF I # {} THEN Min(I) ELSE 0
           c == IF i = 0 THEN None ELSE s[i]
<1>1. Len(s) \in Nat /\ \A j \in 1..Len(s) : s[j] \in ConflictRows
  <2>1. s \in Seq(ConflictRows)
    BY DEF ReviewRows
  <2> QED
    BY <2>1, LenProperties
<1>2. PrimaryClaim(r) = IF c = None THEN None
                        ELSE [about |-> c.about, documents |-> c.documents, refs |-> c.refs]
  BY DEF PrimaryClaim, FirstThat, SelectInSeq
<1> HIDE DEF s
<1>3. i = 0 \/ i \in I
  BY <1>1, SelectedIs
<1> HIDE DEF i
<1>4. c \in ConflictRows \cup {None}
  BY <1>1, <1>3
<1> HIDE DEF c
<1> QED
  BY <1>2, <1>4 DEF ConflictRows, Fingerprints

-----------------------------------------------------------------------------
(* Scores.                                                                 *)

IsScore(score) == DOMAIN score = {"flags", "missing"}

LEMMA GapIsShown ==
    ASSUME NEW score, IsScore(score)
    PROVE  IsScore(GapShown(score)) /\ Proof \in GapShown(score).missing
<1> DEFINE q == Flagged(score, ProofMissing)
<1>1. IsScore(q)
  BY DEF Flagged, IsScore
<1> HIDE DEF q
<1>2. GapShown(score) = [q EXCEPT !.missing = @ \cup {Proof}]
  BY DEF GapShown, q
<1> QED
  BY <1>1, <1>2 DEF IsScore

LEMMA ScoredIs ==
    ASSUME NEW p, NEW findings, NEW proposal \in Proposals
    PROVE  IsScore(Scored(p, findings, proposal))
<1> DEFINE first == IF proposal = None THEN [flags |-> {}, missing |-> {}] ELSE proposal
           gaps == proposal = None
           second == Reconciled(p, first)
<1>1. IsScore(first)
  BY ProposalsAssumption DEF IsScore
<1>2. Scored(p, findings, proposal) = Guarded(second, findings, gaps)
  BY DEF Scored
<1> HIDE DEF first, gaps
<1>3. IsScore(second)
  BY <1>1 DEF Reconciled, Unflagged, IsScore
<1> HIDE DEF second
<1> DEFINE conflicts == {f \in findings : f.code # "gap"}
           flagged == [second EXCEPT !.flags = @ \cup {f \in conflicts : ~HasFlag(second, f.code)}]
<1>4. IsScore(flagged)
  BY <1>3 DEF IsScore
<1>5. Guarded(second, findings, gaps) \in {flagged, GapShown(flagged)}
  BY DEF Guarded
<1> HIDE DEF flagged
<1>6. IsScore(GapShown(flagged))
  BY <1>4, GapIsShown
<1> QED
  BY <1>2, <1>4, <1>5, <1>6

LEMMA WithGateIs == ASSUME NEW score, IsScore(score) PROVE IsScore(WithGate(score))
BY DEF WithGate, Unflagged, IsScore

LEMMA ClaimIsShown ==
    ASSUME NEW score, IsScore(score), NEW messages,
           profile.claims # <<>>, ~ Backed(profile.field), Proof \notin ReadyTypes
    PROVE  Proof \in WithClaim(score, messages).missing
<1>1. Unresolved(messages)
  BY DEF Unresolved, Backed
<1> QED
  BY <1>1, GapIsShown DEF WithClaim

-----------------------------------------------------------------------------
(* The inductive invariant.                                                *)

\* The score of a turn under way shows what is claimed and not proved.
ScoreShown ==
    run # NoRun /\ profile.claims # <<>> /\ ~ Backed(profile.field) /\ Proof \notin ReadyTypes
    => Proof \in run.score.missing

LInv == TypeOK /\ ScoreShown /\ DisagreementIsReviewed /\ ReviewIsExplained

LEMMA InitLInv == ASSUME Init PROVE LInv
<1>1. TypeOK
  BY DEF Init, TypeOK
<1>2. ScoreShown /\ DisagreementIsReviewed /\ ReviewIsExplained
  BY DEF Init, ScoreShown, DisagreementIsReviewed, ReviewIsExplained
<1> QED
  BY <1>1, <1>2 DEF LInv

LEMMA MaterialLInv ==
    ASSUME LInv, NEW ds \in Seq(Files), MaterialBecomes(ds)
    PROVE  LInv'
<1>1. /\ run = NoRun /\ documents' = ds /\ answer' = NoAnswer
      /\ UNCHANGED <<said, heard, shown, phase, asked, run>>
  BY DEF MaterialBecomes
<1>2. TypeOK'
  BY <1>1 DEF LInv, TypeOK
<1>3. ScoreShown' /\ DisagreementIsReviewed' /\ ReviewIsExplained'
  BY <1>1 DEF ScoreShown, DisagreementIsReviewed, ReviewIsExplained
<1> QED
  BY <1>2, <1>3 DEF LInv

\* What the first half of a turn leaves.
LEMMA AnalysedIs ==
    ASSUME NEW p, NEW messages, NEW n, NEW update, NEW message, Analysed(p, messages, n, update, message),
           profile' = profile, documents' = documents
    PROVE  run'.heard = n /\ run'.message = message /\ ScoreShown'
<1>1. PICK proposal, synced, findings :
          /\ proposal \in Proposals
          /\ run' = [profile |-> synced, heard |-> n, update |-> update, message |-> message,
                     score |-> WithClaim(WithGate(Scored(synced, findings, proposal)), messages)]
  BY DEF Analysed
<1> DEFINE score == WithGate(Scored(synced, findings, proposal))
<1>2. IsScore(score)
  BY <1>1, ScoredIs, WithGateIs
<1> HIDE DEF score
<1>3. run'.heard = n /\ run'.message = message /\ run'.score = WithClaim(score, messages)
  BY <1>1 DEF score
<1>4. ReadyTypes' = ReadyTypes
  BY DEF ReadyTypes, OnFile
<1>5. ScoreShown'
  BY <1>2, <1>3, <1>4, ClaimIsShown DEF ScoreShown
<1> QED
  BY <1>3, <1>5

LEMMA HearLInv ==
    ASSUME LInv, NEW m \in Texts, Hear(m)
    PROVE  LInv'
<1>1. /\ said' = Append(said, m) /\ answer' = NoAnswer
      /\ UNCHANGED <<documents, profile, heard, shown, phase, asked>>
      /\ \E p, update : Analysed(p, said', Len(said'), update, TRUE)
  BY DEF Hear
<1>2. /\ said' \in Seq(Texts) /\ Len(said') = Len(said) + 1 /\ Len(said) \in Nat
      /\ heard \in 0..Len(said) /\ Len(shown) \in Nat /\ Len(shown) <= Len(said)
  BY <1>1, AppendProperties, LenProperties DEF LInv, TypeOK
<1>3. run'.heard = Len(said') /\ run'.message = TRUE /\ ScoreShown'
  BY <1>1, AnalysedIs
<1>4. TypeOK'
  <2>1. heard' \in 0..Len(said') /\ run'.heard \in 0..Len(said') /\ Len(shown') < Len(said')
    BY <1>1, <1>2, <1>3
  <2> QED
    BY <1>1, <1>2, <2>1 DEF LInv, TypeOK
<1>5. DisagreementIsReviewed' /\ ReviewIsExplained'
  BY <1>1 DEF DisagreementIsReviewed, ReviewIsExplained
<1> QED
  BY <1>3, <1>4, <1>5 DEF LInv

LEMMA ReconsiderLInv ==
    ASSUME LInv, Reconsider
    PROVE  LInv'
<1>1. /\ answer' = NoAnswer /\ Analysed(profile, said, heard, None, FALSE)
      /\ UNCHANGED <<documents, profile, said, heard, shown, phase, asked>>
  BY DEF Reconsider
<1>2. run'.heard = heard /\ run'.message = FALSE /\ ScoreShown'
  BY <1>1, AnalysedIs
<1>3. TypeOK'
  BY <1>1, <1>2 DEF LInv, TypeOK
<1>4. DisagreementIsReviewed' /\ ReviewIsExplained'
  BY <1>1 DEF DisagreementIsReviewed, ReviewIsExplained
<1> QED
  BY <1>2, <1>3, <1>4 DEF LInv

\* What an answer is made of.
Reply(a, review, board) ==
    [decision |-> a.decision, requested |-> Requested(a), focus |-> FocusOf(a),
     review |-> review, board |-> board]

LEMMA AnswerLInv ==
    ASSUME LInv, Answer
    PROVE  LInv'
<1>1. PICK told \in Reviews, board \in Boards, proposed \in Actions :
          LET review == ReviewNow(told, board)
              a      == Decided(proposed, review)
          IN  /\ phase' = PhaseAfter(a)
              /\ asked' = AskedAfter(a)
              /\ shown' = IF ~run.message THEN shown
                          ELSE Append(shown, IF review = None THEN None ELSE PrimaryClaim(review))
              /\ answer' = Reply(a, review, board)
  BY DEF Answer, Reply
<1> DEFINE review == ReviewNow(told, board)
           a == Decided(proposed, review)
           led == IF review = None THEN None ELSE PrimaryClaim(review)
<1>2. /\ phase' = PhaseAfter(a) /\ asked' = AskedAfter(a)
      /\ shown' = (IF ~run.message THEN shown ELSE Append(shown, led))
      /\ answer' = Reply(a, review, board)
  BY <1>1
<1>3. /\ run # NoRun /\ heard' = run.heard /\ run' = NoRun
      /\ documents' = documents /\ said' = said
  BY DEF Answer
<1>4. TypeOK
  BY DEF LInv
<1>5. /\ Ready(review)
      /\ Disagree(documents) /\ ~Speaks(board) => review # None /\ AnyConfirmed(Conflicts(review))
  BY <1>4, ReviewedNow DEF TypeOK
<1>6. a \in ActionRows
  BY DecidedType
<1>7. review # None /\ AnyConfirmed(Conflicts(review))
      => a.decision \in {"high_risk_review", "simulated_refusal"} /\ ToClarify(review) # None
  BY <1>5, ConflictDecides, ClarifiedIs
<1>8. led \in Fingerprints \cup {None}
  BY <1>5, FingerprintType DEF Ready
<1> HIDE DEF review, a, led
<1>9. /\ Requested(a) \subseteq Askable /\ {FocusOf(a)} \ {None} \subseteq Askable
  BY <1>6, AskedType
<1>10. TypeOK'
  <2>1. phase' \in {"interview", "session_closed"}
    BY <1>2 DEF PhaseAfter
  <2>2. asked' \subseteq Askable
    BY <1>2, <1>4, <1>9 DEF AskedAfter, TypeOK
  <2>3. /\ said \in Seq(Texts) /\ Len(said) \in Nat /\ shown \in Seq(Fingerprints \cup {None})
        /\ Len(shown) \in Nat /\ Len(shown) <= Len(said)
        /\ run.heard \in 0..Len(said) /\ (run.message => Len(shown) < Len(said))
    BY <1>3, <1>4, LenProperties DEF TypeOK
  <2>4. shown' \in Seq(Fingerprints \cup {None}) /\ Len(shown') <= Len(said)
    BY <1>2, <1>8, <2>3, AppendProperties
  <2>5. answer'.board = board
    BY <1>2 DEF Reply
  <2> QED
    BY <1>3, <1>4, <2>1, <2>2, <2>3, <2>4, <2>5 DEF TypeOK
<1>11. ScoreShown'
  BY <1>3 DEF ScoreShown
<1>12. answer'.board = board /\ answer'.review = review /\ answer'.decision = a.decision
  BY <1>2 DEF Reply
<1>13. Disagree(documents') <=> Disagree(documents)
  BY <1>3
<1>14. DisagreementIsReviewed'
  BY <1>5, <1>7, <1>12, <1>3 DEF DisagreementIsReviewed
<1>15. ReviewIsExplained'
  BY <1>7, <1>12 DEF ReviewIsExplained
<1> QED
  BY <1>10, <1>11, <1>14, <1>15 DEF LInv

LEMMA NextLInv ==
    ASSUME LInv, [Next]_vars
    PROVE  LInv'
<1>1. ASSUME NEW d \in Files, Add(d) PROVE LInv'
  <2>1. documents \in Seq(Files) /\ MaterialBecomes(Append(documents, d))
    BY <1>1 DEF LInv, TypeOK, Add
  <2>2. Append(documents, d) \in Seq(Files)
    BY <2>1, AppendProperties
  <2> QED
    BY <2>1, <2>2, MaterialLInv
<1>2. ASSUME NEW d \in Files, Withdraw(d) PROVE LInv'
  <2>1. documents \in Seq(Files) /\ MaterialBecomes(Kept(documents, Files \ {d}))
    BY <1>2 DEF LInv, TypeOK, Withdraw
  <2>2. Kept(documents, Files \ {d}) \in Seq(Files)
    BY <2>1, KeptIs
  <2> QED
    BY <2>1, <2>2, MaterialLInv
<1>3. ASSUME Fail PROVE LInv'
  <2>1. run' = NoRun /\ UNCHANGED <<documents, profile, said, heard, shown, phase, asked, answer>>
    BY <1>3 DEF Fail
  <2>2. TypeOK' /\ ScoreShown' /\ DisagreementIsReviewed' /\ ReviewIsExplained'
    BY <2>1 DEF LInv, TypeOK, ScoreShown, DisagreementIsReviewed, ReviewIsExplained
  <2> QED
    BY <2>2 DEF LInv
<1>4. ASSUME UNCHANGED vars PROVE LInv'
  <2>1. TypeOK' /\ ScoreShown' /\ DisagreementIsReviewed' /\ ReviewIsExplained'
    BY <1>4 DEF vars, LInv, TypeOK, ScoreShown, DisagreementIsReviewed, ReviewIsExplained,
                ReadyTypes, OnFile
  <2> QED
    BY <2>1 DEF LInv
<1> QED
  BY <1>1, <1>2, <1>3, <1>4, HearLInv, ReconsiderLInv, AnswerLInv DEF Next

-----------------------------------------------------------------------------
(* Theorems.                                                               *)

LEMMA Inductive == Spec => []LInv
<1>1. Init => LInv
  BY InitLInv
<1>2. LInv /\ [Next]_vars => LInv'
  BY NextLInv
<1> QED
  BY <1>1, <1>2, PTL DEF Spec

\* Types hold: the profile's turn history is of messages that were said, no message
\* is answered twice, and what is asked for is what an action can ask for
\* (_apply_turn_state, build_requested_documents).
THEOREM LegacyTypeCorrect == Spec => []TypeOK
<1>1. LInv => TypeOK
  BY DEF LInv
<1> QED
  BY <1>1, Inductive, PTL

\* Documents that contradict each other lead to a review or a refusal: every merge
\* of the reviews keeps the confirmed conflict, sets the status, and the last
\* correction of the action follows it (_merge_document_review_payload,
\* _normalize_document_review_risk, _align_action_with_document_review).
THEOREM DisagreementsAreReviewed == Spec => []DisagreementIsReviewed
<1>1. LInv => DisagreementIsReviewed
  BY DEF LInv
<1> QED
  BY <1>1, Inductive, PTL

\* A review with a confirmed conflict hands the wording model a conflict to ask
\* about, although the two judge conflicts by different rules
\* (_build_reply_guidance, _active_document_review_conflict).
THEOREM ReviewsAreExplained == Spec => []ReviewIsExplained
<1>1. LInv => ReviewIsExplained
  BY DEF LInv
<1> QED
  BY <1>1, Inductive, PTL

\* While a turn is under way only its answer changes the answer.
LEMMA OnlyAnswers ==
    ASSUME [Next]_vars, run # NoRun, answer' # answer
    PROVE  Answer
<1>1. ~ UNCHANGED vars
  BY DEF vars
<1>2. /\ \A d \in Files : ~ Add(d) /\ ~ Withdraw(d)
      /\ \A m \in Texts : ~ Hear(m)
      /\ ~ Reconsider /\ ~ Fail
  BY DEF Add, Withdraw, MaterialBecomes, Hear, Reconsider, Fail
<1> QED
  BY <1>1, <1>2 DEF Next

\* A conflict that two answers led with does not end in refusal unless the applicant
\* confessed, whatever action the model proposes (_converge_repeated_claim_conflict).
THEOREM RefusalsAreConfessed == Spec => RefusalIsConfessed
<1> DEFINE A == (run # NoRun /\ answer' # answer /\ answer'.decision = "simulated_refusal"
                 /\ answer'.review # None /\ PrimaryClaim(answer'.review) # None
                 /\ Repeats(PrimaryClaim(answer'.review)) >= 2)
                => Redline(run.score)
<1>1. ASSUME [Next]_vars PROVE A
  <2> SUFFICES ASSUME run # NoRun, answer' # answer, answer'.decision = "simulated_refusal",
                      answer'.review # None, PrimaryClaim(answer'.review) # None,
                      Repeats(PrimaryClaim(answer'.review)) >= 2, ~ Redline(run.score)
               PROVE  FALSE
    OBVIOUS
  <2>1. PICK review, proposed : /\ answer'.review = review
                                /\ answer'.decision = Decided(proposed, review).decision
    BY <1>1, OnlyAnswers DEF Answer
  <2>2. Decided(proposed, review).decision = "high_risk_review"
    BY <2>1, RepeatsDecide
  <2> QED
    BY <2>1, <2>2
<1>2. [Next]_vars => [A]_vars
  BY <1>1
<1> QED
  BY <1>2, PTL DEF Spec, RefusalIsConfessed

\* Every score of a turn shows the proof of a claimed source as missing until a
\* document or the gate has it: the score is put right after the model's proposal and
\* the gate's (_preserve_unresolved_funding_claim).
THEOREM UnprovenClaimsShow == Spec => UnprovenClaimShows
<1> DEFINE A == (run # NoRun /\ answer' # answer /\ profile.claims # <<>> /\ ~Backed(profile.field)
                 /\ Proof \notin ReadyTypes)
                => Proof \in run.score.missing
<1>1. LInv => A
  BY DEF LInv, ScoreShown
<1>2. LInv /\ [Next]_vars => [A]_vars
  BY <1>1
<1> QED
  BY <1>2, Inductive, PTL DEF Spec, UnprovenClaimShows

=============================================================================

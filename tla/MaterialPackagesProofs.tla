------------------------ MODULE MaterialPackagesProofs ------------------------
(***************************************************************************)
(* Theorems about MaterialPackages, for every list of required documents   *)
(* and every set of sessions: imports and generated bundles are whole, and *)
(* what a session is judged by follows its documents.                      *)
(***************************************************************************)
EXTENDS MaterialPackages, FiniteSetTheorems, SequenceTheorems, TLAPS

-----------------------------------------------------------------------------
(* The invariant.                                                          *)

Generated == {"debug", "practice"}

\* A document of one of the bundles there have been up to B.
Proper(d, B) ==
    /\ d \in Documents /\ d.bundle \in 1 .. B
    /\ d.kind = "template" => d.home = Archive
    /\ d.kind = "import" => d.imported
    /\ d.kind \in Generated => ~d.imported

\* What the documents in D keep, when there have been B bundles, those in T torn
\* and those in H halved: a bundle is of one kind and in one place, and is whole
\* if it was imported or generated.
DocumentsSound(D, B, T, H) ==
    /\ \A d \in D : Proper(d, B)
    /\ \A d, e \in D : d.bundle = e.bundle => d.kind = e.kind /\ d.home = e.home
    /\ \A d \in D :
         d.kind = "import" \/ (d.kind \in Generated /\ d.bundle \notin H) =>
           \A t \in RequiredSet : \E e \in D : e.bundle = d.bundle /\ e.type = t
    /\ \A d \in D :
         d.kind = "import" => d.state # "waiting" /\ (d.bundle \notin T => d.whole)

\* Snapshots and gates rest on the documents in D, but for the sessions in R.
Views(bd, gt, R, D) ==
    \A s \in Sessions \ R : bd[s] = Understood(s, D) /\ gt[s] = Understood(s, D)

\* The calls of a bundle: the documents are made in the order of the list.
Jobs == [pc : {"plan", "document", "summary", "made", "failed"}, made : Seq(RequiredSet),
         attempt : Nat, retry : Nat]

JobSound(g) ==
    /\ g \in Jobs
    /\ Len(g.made) <= Len(Required)
    /\ \A i \in 1 .. Len(g.made) : g.made[i] = Required[i]
    /\ g.pc = "document" => Len(g.made) < Len(Required)
    /\ g.pc = "made" => RequiredSet \subseteq ToSet(g.made)

\* A bundle that is being made: nothing is in the session before it is written as
\* far as was asked for, one document after another.
Gens == [pc : {"asking", "writing", "committed"}, kind : Generated, bundle : Nat,
         job : Jobs, written : SUBSET Documents]

Draft(s, g, t) ==
    [home |-> s, bundle |-> g.bundle, type |-> t, kind |-> g.kind,
     state |-> "parsed", whole |-> TRUE, imported |-> FALSE]

WrittenSound(s, g) ==
    /\ IsFiniteSet(g.written)
    /\ Cardinality(g.written) <= Len(g.job.made)
    /\ \A d \in g.written : \E i \in 1 .. Cardinality(g.written) : d = Draft(s, g, g.job.made[i])
    /\ \A i \in 1 .. Cardinality(g.written) : Draft(s, g, g.job.made[i]) \in g.written

GenSound(s, g, D, B) ==
    g # Idle =>
      /\ g \in Gens /\ g.bundle \in 1 .. B
      /\ JobSound(g.job)
      /\ g.pc = "asking" => g.written = {}
      /\ g.pc = "writing" => g.job.pc = "made" /\ WrittenSound(s, g)
      /\ g.pc \in {"asking", "writing"} => \A d \in D : d.bundle # g.bundle
      /\ g.pc = "committed" => \A d \in D : d.bundle = g.bundle => d.home = s

\* A package that is being imported: what is copied and what is left have every
\* type between them.
Imports == [pc : {"copying"}, bundle : Nat, left : SUBSET Documents, copies : SUBSET Documents]

ImportSound(s, m, D, B, T) ==
    m # Idle =>
      /\ m \in Imports /\ m.bundle \in 1 .. B
      /\ \A d \in D : d.bundle # m.bundle
      /\ \A d \in m.left : d.state = "parsed"
      /\ \A d \in m.copies :
           /\ d.home = s /\ d.bundle = m.bundle /\ d.kind = "import" /\ d.imported
           /\ d.state = "parsed" /\ (m.bundle \notin T => d.whole)
      /\ \A t \in RequiredSet : \E d \in m.left \cup m.copies : d.type = t

\* Every bundle has its own number.
NumbersDiffer(gs, ms) ==
    /\ \A s, t \in Sessions : s # t /\ gs[s] # Idle /\ gs[t] # Idle => gs[s].bundle # gs[t].bundle
    /\ \A s, t \in Sessions : s # t /\ ms[s] # Idle /\ ms[t] # Idle => ms[s].bundle # ms[t].bundle
    /\ \A s, t \in Sessions : gs[s] # Idle /\ ms[t] # Idle => gs[s].bundle # ms[t].bundle

Typed ==
    /\ bundles \in Nat
    /\ board \in [Sessions -> SUBSET (Nat \X RequiredSet)]
    /\ gate \in [Sessions -> SUBSET (Nat \X RequiredSet)]
    /\ gen \in [Sessions -> {Idle} \cup Gens]
    /\ import \in [Sessions -> {Idle} \cup Imports]

IInv ==
    /\ Typed
    /\ DocumentsSound(docs, bundles, torn, halved)
    /\ Views(board, gate, rough, docs)
    /\ \A s \in Sessions : GenSound(s, gen[s], docs, bundles)
    /\ \A s \in Sessions : ImportSound(s, import[s], docs, bundles, torn)
    /\ NumbersDiffer(gen, import)

-----------------------------------------------------------------------------
(* What changes of the documents keep.                                     *)

\* A document stands where one stood that it was made of.
Same(e, d) ==
    /\ e \in Documents
    /\ e.home = d.home /\ e.bundle = d.bundle /\ e.type = d.type /\ e.kind = d.kind
    /\ e.imported = d.imported
    /\ d.state # "waiting" => e.state # "waiting"
    /\ d.whole => e.whole

LEMMA SameSound ==
    ASSUME NEW D, NEW E, NEW B, NEW T, NEW H, DocumentsSound(D, B, T, H),
           \A e \in E : \E d \in D : Same(e, d),
           \A d \in D : \E e \in E : Same(e, d)
    PROVE  DocumentsSound(E, B, T, H)
<1>1. \A d \in D : Proper(d, B)
  BY DEF DocumentsSound
<1>2. ASSUME NEW e \in E PROVE Proper(e, B)
  BY <1>1 DEF Same, Proper
<1>3. ASSUME NEW e \in E, NEW f \in E, e.bundle = f.bundle PROVE e.kind = f.kind /\ e.home = f.home
  <2>1. PICK d \in D : Same(e, d)
    OBVIOUS
  <2>2. PICK g \in D : Same(f, g)
    OBVIOUS
  <2>3. d.bundle = g.bundle
    BY <1>3, <2>1, <2>2 DEF Same
  <2>4. d.kind = g.kind /\ d.home = g.home
    BY <2>3 DEF DocumentsSound
  <2>5. QED
    BY <2>1, <2>2, <2>4 DEF Same
<1>4. ASSUME NEW e \in E, e.kind = "import" \/ (e.kind \in Generated /\ e.bundle \notin H),
             NEW t \in RequiredSet
      PROVE  \E f \in E : f.bundle = e.bundle /\ f.type = t
  <2>1. PICK d \in D : Same(e, d)
    OBVIOUS
  <2>2. PICK g \in D : g.bundle = d.bundle /\ g.type = t
    BY <1>4, <2>1 DEF DocumentsSound, Same
  <2>3. PICK f \in E : Same(f, g)
    OBVIOUS
  <2>4. QED
    BY <2>1, <2>2, <2>3 DEF Same
<1>5. ASSUME NEW e \in E, e.kind = "import"
      PROVE  e.state # "waiting" /\ (e.bundle \notin T => e.whole)
  <2>1. PICK d \in D : Same(e, d)
    OBVIOUS
  <2>2. d.state # "waiting" /\ (d.bundle \notin T => d.whole)
    BY <1>5, <2>1 DEF DocumentsSound, Same
  <2>3. QED
    BY <2>1, <2>2 DEF Same
<1>6. QED
  BY <1>2, <1>3, <1>4, <1>5 DEF DocumentsSound

\* A bundle whose number is new, put there as a whole or in part.
LEMMA AddedSound ==
    ASSUME NEW D, NEW N, NEW B, NEW T, NEW H, NEW b, DocumentsSound(D, B, T, H),
           \A d \in D : d.bundle # b,
           \A d \in N : Proper(d, B) /\ d.bundle = b,
           \A d, e \in N : d.kind = e.kind /\ d.home = e.home,
           \A d \in N :
             d.kind = "import" \/ (d.kind \in Generated /\ b \notin H) =>
               \A t \in RequiredSet : \E e \in N : e.type = t,
           \A d \in N : d.kind = "import" => d.state # "waiting" /\ (b \notin T => d.whole)
    PROVE  DocumentsSound(D \cup N, B, T, H)
<1>1. \A d \in D \cup N : Proper(d, B)
  BY DEF DocumentsSound
<1>2. ASSUME NEW d \in D \cup N, NEW e \in D \cup N, d.bundle = e.bundle
      PROVE  d.kind = e.kind /\ d.home = e.home
  BY <1>2 DEF DocumentsSound
<1>3. ASSUME NEW d \in D \cup N, d.kind = "import" \/ (d.kind \in Generated /\ d.bundle \notin H),
             NEW t \in RequiredSet
      PROVE  \E e \in D \cup N : e.bundle = d.bundle /\ e.type = t
  BY <1>3 DEF DocumentsSound
<1>4. ASSUME NEW d \in D \cup N, d.kind = "import"
      PROVE  d.state # "waiting" /\ (d.bundle \notin T => d.whole)
  BY <1>4 DEF DocumentsSound
<1>5. QED
  BY <1>1, <1>2, <1>3, <1>4 DEF DocumentsSound

\* Documents that go, whole bundles of them where a bundle has to be whole.
LEMMA RemovedSound ==
    ASSUME NEW D, NEW E, NEW B, NEW T, NEW H, DocumentsSound(D, B, T, H), E \subseteq D,
           \A d \in D, e \in E :
             d.bundle = e.bundle /\ e.kind \in Generated \cup {"import"} => d \in E
    PROVE  DocumentsSound(E, B, T, H)
<1>1. \A d \in E : Proper(d, B)
  BY DEF DocumentsSound
<1>2. ASSUME NEW d \in E, NEW e \in E, d.bundle = e.bundle
      PROVE  d.kind = e.kind /\ d.home = e.home
  BY <1>2 DEF DocumentsSound
<1>3. ASSUME NEW e \in E, e.kind = "import" \/ (e.kind \in Generated /\ e.bundle \notin H),
             NEW t \in RequiredSet
      PROVE  \E f \in E : f.bundle = e.bundle /\ f.type = t
  <2>1. PICK d \in D : d.bundle = e.bundle /\ d.type = t
    BY <1>3 DEF DocumentsSound
  <2>2. d \in E
    BY <1>3, <2>1
  <2>3. QED
    BY <2>1, <2>2
<1>4. ASSUME NEW d \in E, d.kind = "import"
      PROVE  d.state # "waiting" /\ (d.bundle \notin T => d.whole)
  BY <1>4 DEF DocumentsSound
<1>5. QED
  BY <1>1, <1>2, <1>3, <1>4 DEF DocumentsSound

\* More bundles, more of them torn or halved.
LEMMA WeakerSound ==
    ASSUME NEW D, NEW B \in Nat, NEW T, NEW H, NEW C \in Nat, NEW U, NEW I, DocumentsSound(D, B, T, H),
           B <= C, T \subseteq U, H \subseteq I
    PROVE  DocumentsSound(D, C, U, I)
<1>1. \A d \in D : Proper(d, C)
  BY DEF DocumentsSound, Proper
<1>2. QED
  BY <1>1 DEF DocumentsSound

-----------------------------------------------------------------------------
(* Snapshots and gates.                                                    *)

\* What a session rests on depends on its own documents only.
LEMMA UnderstoodHere ==
    ASSUME NEW s, NEW D, NEW E, \A d : d.home = s => (d \in D <=> d \in E)
    PROVE  Understood(s, D) = Understood(s, E)
<1>1. {e \in D : e.home = s /\ e.state = "parsed"} = {e \in E : e.home = s /\ e.state = "parsed"}
  OBVIOUS
<1>2. QED
  BY <1>1 DEF Understood

LEMMA LiveIsUnderstood == ASSUME NEW s PROVE Live(s) = Understood(s, docs)
<1>1. {e \in In(s) : e.state = "parsed"} = {e \in docs : e.home = s /\ e.state = "parsed"}
  BY DEF In
<1>2. QED
  BY <1>1 DEF Live, Understood

LEMMA UnderstoodType ==
    ASSUME NEW s, NEW D, NEW B \in Nat, \A d \in D : Proper(d, B)
    PROVE  Understood(s, D) \in SUBSET (Nat \X RequiredSet)
<1>1. \A d \in D : d.bundle \in Nat /\ d.type \in RequiredSet
  BY DEF Proper, Documents
<1>2. QED
  BY <1>1 DEF Understood, IdOf

\* A change of the documents of the sessions S that ends in their rebuild.
LEMMA RebuiltViews ==
    ASSUME Typed, Views(board, gate, rough, docs), NEW S, Rebuilt(S),
           \A s \in Sessions \ S : \A d : d.home = s => (d \in docs <=> d \in docs'),
           NEW B \in Nat, \A d \in docs' : Proper(d, B)
    PROVE  /\ Views(board', gate', rough', docs')
           /\ board' \in [Sessions -> SUBSET (Nat \X RequiredSet)]
           /\ gate' \in [Sessions -> SUBSET (Nat \X RequiredSet)]
<1>1. ASSUME NEW s \in Sessions PROVE Understood(s, docs') \in SUBSET (Nat \X RequiredSet)
  BY UnderstoodType
<1> DEFINE u(s) == Understood(s, docs')
<1>2. /\ board' = [s \in Sessions |-> IF s \in S THEN u(s) ELSE board[s]]
      /\ gate' = [s \in Sessions |-> IF s \in S THEN u(s) ELSE gate[s]]
      /\ rough' = rough \ S
  BY DEF Rebuilt
<1>3. \A s \in Sessions \ S : u(s) = Understood(s, docs)
  BY UnderstoodHere
<1>4. \A s \in Sessions : u(s) \in SUBSET (Nat \X RequiredSet)
  BY <1>1
<1> HIDE DEF u
<1>5. /\ board' \in [Sessions -> SUBSET (Nat \X RequiredSet)]
      /\ gate' \in [Sessions -> SUBSET (Nat \X RequiredSet)]
  BY <1>2, <1>4 DEF Typed
<1>6. ASSUME NEW s \in Sessions \ rough' PROVE board'[s] = u(s) /\ gate'[s] = u(s)
  <2>1. CASE s \in S
    BY <1>2, <2>1
  <2>2. CASE s \notin S
    <3>1. s \in Sessions \ rough
      BY <1>2, <2>2
    <3>2. board[s] = u(s) /\ gate[s] = u(s)
      BY <1>3, <2>2, <3>1 DEF Views
    <3>3. QED
      BY <1>2, <2>2, <3>2
  <2>3. QED
    BY <2>1, <2>2
<1>7. QED
  BY <1>5, <1>6 DEF Views, u

\* A change that is followed by no rebuild of what is rough after it.
LEMMA RoughViews ==
    ASSUME Views(board, gate, rough, docs), NEW R, rough \subseteq R,
           NEW bd, NEW gt, \A s \in Sessions \ R : bd[s] = board[s] /\ gt[s] = gate[s],
           NEW E, \A s \in Sessions \ R : \A d : d.home = s => (d \in docs <=> d \in E)
    PROVE  Views(bd, gt, R, E)
<1>1. \A s \in Sessions \ R : Understood(s, E) = Understood(s, docs)
  BY UnderstoodHere
<1>2. QED
  BY <1>1 DEF Views

-----------------------------------------------------------------------------
(* The calls of a bundle.                                                  *)

LEMMA RequiredIs ==
    /\ Required \in Seq(RequiredSet) /\ Len(Required) \in Nat
    /\ DOMAIN Required = 1 .. Len(Required)
    /\ \A i \in 1 .. Len(Required) : Required[i] \in RequiredSet
    /\ \A i, j \in 1 .. Len(Required) : Required[i] = Required[j] => i = j
<1>1. Required \in Seq(STRING) /\ Len(Required) \in Nat /\ DOMAIN Required = 1 .. Len(Required)
  BY RequiredTypes, LenProperties
<1>2. \A i \in 1 .. Len(Required) : Required[i] \in RequiredSet
  BY <1>1 DEF RequiredSet, ToSet
<1>3. \A i, j \in 1 .. Len(Required) : Required[i] = Required[j] => i = j
  BY <1>1, RequiredTypes DEF IsInjective
<1>4. Required = [i \in 1 .. Len(Required) |-> Required[i]]
  BY <1>1
<1>5. Required \in [1 .. Len(Required) -> RequiredSet]
  BY <1>2, <1>4
<1>6. Required \in Seq(RequiredSet)
  BY <1>1, <1>5, SeqDef
<1>7. QED
  BY <1>1, <1>2, <1>3, <1>6

LEMMA PlanningSound == JobSound(Planning)
<1>1. <<>> \in Seq(RequiredSet) /\ Len(<<>>) = 0
  OBVIOUS
<1>2. QED
  BY <1>1, RequiredIs DEF JobSound, Planning, Jobs

\* The work that is left once the documents in made are there.
LEMMA NextCallSound ==
    ASSUME NEW g, NEW made \in Seq(RequiredSet), Len(made) <= Len(Required),
           \A i \in 1 .. Len(made) : made[i] = Required[i]
    PROVE  JobSound(NextCall(g, made))
<1>1. Len(made) \in Nat /\ Len(Required) \in Nat
  BY RequiredIs, LenProperties
<1>2. NextCall(g, made).made = made /\ NextCall(g, made) \in Jobs
  BY DEF NextCall, Jobs
<1>3. NextCall(g, made).pc = IF Len(made) = Len(Required) THEN "summary" ELSE "document"
  BY DEF NextCall
<1>4. QED
  BY <1>1, <1>2, <1>3 DEF JobSound

LEMMA AssembledSound ==
    ASSUME NEW g, JobSound(g)
    PROVE  JobSound(Assembled(g)) /\ JobSound(Failed(g)) /\ JobSound(Abandoned(g))
<1>1. JobSound(Failed(g))
  BY DEF JobSound, Failed, Jobs
<1>2. JobSound(Assembled(g))
  <2>1. CASE Accepted(g.made)
    <3> DEFINE h == [g EXCEPT !.pc = "made"]
    <3>1. h \in Jobs /\ h.made = g.made /\ h.pc = "made"
      BY DEF JobSound, Jobs
    <3>2. Assembled(g) = h
      BY <2>1 DEF Assembled
    <3> HIDE DEF h
    <3>3. RequiredSet \subseteq ToSet(g.made)
      BY <2>1 DEF Accepted
    <3>4. QED
      BY <3>1, <3>2, <3>3 DEF JobSound
  <2>2. CASE ~Accepted(g.made)
    BY <1>1, <2>2 DEF Assembled
  <2>3. QED
    BY <2>1, <2>2
<1>3. QED
  BY <1>1, <1>2 DEF Abandoned

\* An answer leaves the documents made so far the first of the list.
LEMMA AnsweredSound ==
    ASSUME NEW g, JobSound(g), Asking(g), NEW outcome
    PROVE  JobSound(Answered(g, outcome))
<1>1. JobSound([g EXCEPT !.retry = @ + 1])
  BY DEF JobSound, Jobs
<1>2. JobSound([g EXCEPT !.attempt = @ + 1, !.retry = 0])
  <2> DEFINE a == g.attempt + 1
             h == [g EXCEPT !.attempt = a, !.retry = 0]
  <2>1. g \in Jobs /\ a \in Nat /\ 0 \in Nat
    BY DEF JobSound, Jobs
  <2> HIDE DEF a
  <2>2. h \in Jobs /\ h.made = g.made /\ h.pc = g.pc
    BY <2>1 DEF Jobs
  <2>3. h = [g EXCEPT !.attempt = @ + 1, !.retry = 0]
    BY DEF a
  <2> HIDE DEF h
  <2>4. JobSound(h)
    BY <2>2 DEF JobSound
  <2>5. QED
    BY <2>3, <2>4
<1>3. JobSound(Valid(g))
  <2>1. CASE g.pc = "plan"
    <3> DEFINE none == <<>>
    <3>1. none \in Seq(RequiredSet) /\ Len(none) = 0
      OBVIOUS
    <3>2. Valid(g) = NextCall(g, none)
      BY <2>1 DEF Valid
    <3> HIDE DEF none
    <3>3. Len(none) <= Len(Required) /\ \A i \in 1 .. Len(none) : none[i] = Required[i]
      BY <3>1, RequiredIs
    <3>4. JobSound(NextCall(g, none))
      BY <3>1, <3>3, NextCallSound
    <3>5. QED
      BY <3>2, <3>4
  <2>2. CASE g.pc = "document"
    <3> DEFINE n == Len(g.made)
               t == Required[n + 1]
               made == Append(g.made, t)
    <3>1. g.made \in Seq(RequiredSet) /\ n \in Nat /\ n < Len(Required) /\ Len(Required) \in Nat
      BY <2>2, RequiredIs, LenProperties DEF JobSound, Jobs
    <3>2. n + 1 \in 1 .. Len(Required)
      BY <3>1
    <3>3. t \in RequiredSet
      BY <3>2, RequiredIs
    <3> HIDE DEF t
    <3>4. /\ made \in Seq(RequiredSet) /\ Len(made) = n + 1 /\ made[n + 1] = t
          /\ \A i \in 1 .. n : made[i] = g.made[i]
      BY <3>1, <3>3, AppendProperties
    <3>5. \A i \in 1 .. n : g.made[i] = Required[i]
      BY DEF JobSound
    <3> HIDE DEF made
    <3>6. ASSUME NEW i \in 1 .. n + 1 PROVE made[i] = Required[i]
      <4>1. CASE i \in 1 .. n
        BY <3>4, <3>5, <4>1
      <4>2. CASE i = n + 1
        BY <3>4, <4>2 DEF t
      <4>3. QED
        BY <3>1, <4>1, <4>2
    <3>7. Len(made) <= Len(Required)
      BY <3>1, <3>4
    <3>8. JobSound(NextCall(g, made))
      BY <3>4, <3>6, <3>7, NextCallSound
    <3>9. Valid(g) = NextCall(g, made)
      BY <2>2 DEF Valid, made, t
    <3>10. QED
      BY <3>8, <3>9
  <2>3. CASE g.pc = "summary"
    BY <2>3, AssembledSound DEF Valid
  <2>4. QED
    BY <2>1, <2>2, <2>3 DEF Asking
<1>4. JobSound(Abandoned(g))
  BY AssembledSound
<1>5. QED
  BY <1>1, <1>2, <1>3, <1>4 DEF Answered

-----------------------------------------------------------------------------
(* What is being made while documents change.                              *)

\* The documents of the bundle b that are in E are where some in D are.
Inherited(e, D) == \E d \in D : d.bundle = e.bundle /\ d.home = e.home

LEMMA GenKept ==
    ASSUME NEW s, NEW g, NEW D, NEW E, NEW B \in Nat, NEW C \in Nat, B <= C,
           GenSound(s, g, D, B),
           g # Idle => \A e \in E : e.bundle # g.bundle \/ Inherited(e, D)
    PROVE  GenSound(s, g, E, C)
<1> SUFFICES ASSUME g # Idle PROVE GenSound(s, g, E, C)
  BY DEF GenSound
<1>1. g.bundle \in 1 .. C
  BY DEF GenSound
<1>2. (\A d \in D : d.bundle # g.bundle) => \A e \in E : e.bundle # g.bundle
  BY DEF Inherited
<1>3. (\A d \in D : d.bundle = g.bundle => d.home = s) => \A e \in E : e.bundle = g.bundle => e.home = s
  BY DEF Inherited
<1>4. QED
  BY <1>1, <1>2, <1>3 DEF GenSound

LEMMA ImportKept ==
    ASSUME NEW s, NEW m, NEW D, NEW E, NEW B \in Nat, NEW C \in Nat, B <= C, NEW T, NEW U, T \subseteq U,
           ImportSound(s, m, D, B, T),
           m # Idle => \A e \in E : e.bundle # m.bundle \/ Inherited(e, D)
    PROVE  ImportSound(s, m, E, C, U)
<1> SUFFICES ASSUME m # Idle PROVE ImportSound(s, m, E, C, U)
  BY DEF ImportSound
<1>1. m.bundle \in 1 .. C
  BY DEF ImportSound
<1>2. \A e \in E : e.bundle # m.bundle
  BY DEF Inherited, ImportSound
<1>3. m.bundle \notin U => m.bundle \notin T
  OBVIOUS
<1>4. QED
  BY <1>1, <1>2, <1>3 DEF ImportSound

\* What every step has to leave true of documents, snapshots and gates.
ViewsKept ==
    /\ Views(board', gate', rough', docs')
    /\ board' \in [Sessions -> SUBSET (Nat \X RequiredSet)]
    /\ gate' \in [Sessions -> SUBSET (Nat \X RequiredSet)]

\* A step that makes nothing and imports nothing.
LEMMA DocumentsStep ==
    ASSUME IInv, UNCHANGED <<gen, import, torn>>, bundles' \in Nat, bundles <= bundles',
           DocumentsSound(docs', bundles', torn', halved'), ViewsKept,
           \A e \in docs' : e.bundle > bundles \/ Inherited(e, docs)
    PROVE  IInv'
<1>1. bundles \in Nat /\ Typed
  BY DEF IInv, Typed
<1>2. ASSUME NEW s \in Sessions PROVE GenSound(s, gen'[s], docs', bundles')
  <2>1. GenSound(s, gen[s], docs, bundles)
    BY DEF IInv
  <2>2. gen[s] # Idle => gen[s].bundle <= bundles
    BY <1>1, <2>1 DEF GenSound
  <2>3. gen[s] # Idle => \A e \in docs' : e.bundle # gen[s].bundle \/ Inherited(e, docs)
    <3> SUFFICES ASSUME gen[s] # Idle, NEW e \in docs', e.bundle = gen[s].bundle, ~Inherited(e, docs)
                 PROVE  FALSE
      OBVIOUS
    <3>1. gen[s].bundle \in Nat
      BY <2>1 DEF GenSound
    <3>2. QED
      BY <1>1, <2>2, <3>1
  <2>4. GenSound(s, gen[s], docs', bundles')
    BY <1>1, <2>1, <2>3, GenKept
  <2>5. QED
    BY <2>4
<1>3. ASSUME NEW s \in Sessions PROVE ImportSound(s, import'[s], docs', bundles', torn')
  <2>1. ImportSound(s, import[s], docs, bundles, torn)
    BY DEF IInv
  <2>2. import[s] # Idle => import[s].bundle <= bundles
    BY <1>1, <2>1 DEF ImportSound
  <2>3. import[s] # Idle => \A e \in docs' : e.bundle # import[s].bundle \/ Inherited(e, docs)
    <3> SUFFICES ASSUME import[s] # Idle, NEW e \in docs', e.bundle = import[s].bundle, ~Inherited(e, docs)
                 PROVE  FALSE
      OBVIOUS
    <3>1. import[s].bundle \in Nat
      BY <2>1 DEF ImportSound
    <3>2. QED
      BY <1>1, <2>2, <3>1
  <2>4. ImportSound(s, import[s], docs', bundles', torn)
    BY <1>1, <2>1, <2>3, ImportKept
  <2>5. QED
    BY <2>4
<1>4. Typed'
  BY <1>1 DEF Typed, ViewsKept
<1>5. NumbersDiffer(gen', import')
  BY DEF IInv
<1>6. QED
  BY <1>2, <1>3, <1>4, <1>5 DEF IInv, ViewsKept

\* A step in the making of a bundle, or in an import, for the session s.
LEMMA SessionStep ==
    ASSUME IInv, NEW s \in Sessions,
           gen' \in [Sessions -> {Idle} \cup Gens], import' \in [Sessions -> {Idle} \cup Imports],
           \A t \in Sessions \ {s} : gen'[t] = gen[t] /\ import'[t] = import[t],
           bundles' \in Nat, bundles <= bundles', torn \subseteq torn',
           DocumentsSound(docs', bundles', torn', halved'), ViewsKept,
           \A e \in docs' :
             \/ Inherited(e, docs)
             \/ gen[s] # Idle /\ e.bundle = gen[s].bundle
             \/ import[s] # Idle /\ e.bundle = import[s].bundle,
           gen'[s] # Idle => \/ gen[s] # Idle /\ gen'[s].bundle = gen[s].bundle
                             \/ gen'[s].bundle = bundles + 1 /\ import'[s] = import[s],
           import'[s] # Idle => \/ import[s] # Idle /\ import'[s].bundle = import[s].bundle
                                \/ import'[s].bundle = bundles + 1 /\ gen'[s] = gen[s],
           GenSound(s, gen'[s], docs', bundles'),
           ImportSound(s, import'[s], docs', bundles', torn')
    PROVE  IInv'
<1>1. bundles \in Nat /\ Typed /\ NumbersDiffer(gen, import)
  BY DEF IInv, Typed
<1>2. /\ \A t \in Sessions : gen[t] # Idle => gen[t].bundle \in 1 .. bundles
      /\ \A t \in Sessions : import[t] # Idle => import[t].bundle \in 1 .. bundles
  BY DEF IInv, GenSound, ImportSound
<1>3. ASSUME NEW t \in Sessions PROVE GenSound(t, gen'[t], docs', bundles')
  <2>1. CASE t = s
    BY <2>1
  <2>2. CASE t # s
    <3>1. gen'[t] = gen[t] /\ GenSound(t, gen[t], docs, bundles)
      BY <2>2 DEF IInv
    <3>2. gen[t] # Idle => \A e \in docs' : e.bundle # gen[t].bundle \/ Inherited(e, docs)
      BY <1>1, <2>2 DEF NumbersDiffer
    <3>3. QED
      BY <1>1, <3>1, <3>2, GenKept
  <2>3. QED
    BY <2>1, <2>2
<1>4. ASSUME NEW t \in Sessions PROVE ImportSound(t, import'[t], docs', bundles', torn')
  <2>1. CASE t = s
    BY <2>1
  <2>2. CASE t # s
    <3>1. import'[t] = import[t] /\ ImportSound(t, import[t], docs, bundles, torn)
      BY <2>2 DEF IInv
    <3>2. import[t] # Idle => \A e \in docs' : e.bundle # import[t].bundle \/ Inherited(e, docs)
      BY <1>1, <2>2 DEF NumbersDiffer
    <3>3. QED
      BY <1>1, <3>1, <3>2, ImportKept
  <2>3. QED
    BY <2>1, <2>2
<1>5. NumbersDiffer(gen', import')
  <2>1. ASSUME NEW x \in Sessions, NEW y \in Sessions, x # y, gen'[x] # Idle, gen'[y] # Idle
        PROVE  gen'[x].bundle # gen'[y].bundle
    <3>1. CASE x = s
      BY <1>1, <1>2, <2>1, <3>1 DEF NumbersDiffer
    <3>2. CASE y = s
      BY <1>1, <1>2, <2>1, <3>2 DEF NumbersDiffer
    <3>3. CASE x # s /\ y # s
      BY <1>1, <2>1, <3>3 DEF NumbersDiffer
    <3>4. QED
      BY <3>1, <3>2, <3>3
  <2>2. ASSUME NEW x \in Sessions, NEW y \in Sessions, x # y, import'[x] # Idle, import'[y] # Idle
        PROVE  import'[x].bundle # import'[y].bundle
    <3>1. CASE x = s
      BY <1>1, <1>2, <2>2, <3>1 DEF NumbersDiffer
    <3>2. CASE y = s
      BY <1>1, <1>2, <2>2, <3>2 DEF NumbersDiffer
    <3>3. CASE x # s /\ y # s
      BY <1>1, <2>2, <3>3 DEF NumbersDiffer
    <3>4. QED
      BY <3>1, <3>2, <3>3
  <2>3. ASSUME NEW x \in Sessions, NEW y \in Sessions, gen'[x] # Idle, import'[y] # Idle
        PROVE  gen'[x].bundle # import'[y].bundle
    <3>1. CASE x = s /\ y = s
      BY <1>1, <1>2, <2>3, <3>1 DEF NumbersDiffer
    <3>2. CASE x = s /\ y # s
      BY <1>1, <1>2, <2>3, <3>2 DEF NumbersDiffer
    <3>3. CASE x # s /\ y = s
      BY <1>1, <1>2, <2>3, <3>3 DEF NumbersDiffer
    <3>4. CASE x # s /\ y # s
      BY <1>1, <2>3, <3>4 DEF NumbersDiffer
    <3>5. QED
      BY <3>1, <3>2, <3>3, <3>4
  <2>4. QED
    BY <2>1, <2>2, <2>3 DEF NumbersDiffer
<1>6. Typed'
  BY <1>1 DEF Typed, ViewsKept
<1>7. QED
  BY <1>3, <1>4, <1>5, <1>6 DEF IInv, ViewsKept

-----------------------------------------------------------------------------
(* Steps that change documents.                                            *)

LEMMA SameItself == ASSUME NEW d \in Documents PROVE Same(d, d)
  BY DEF Same

\* Documents that are put in the place of others.
Replaces(N, L) ==
    /\ \A e \in N : \E d \in L : Same(e, d)
    /\ \A d \in L : \E e \in N : Same(e, d)

LEMMA WithSame ==
    ASSUME NEW B, NEW T, NEW H, DocumentsSound(docs, B, T, H),
           NEW L, L \subseteq docs, NEW N, NEW E, E = With(L, N),
           Replaces(N, L)
    PROVE  /\ DocumentsSound(E, B, T, H)
           /\ \A e \in E : Inherited(e, docs)
           /\ \A s : (\A d \in L : d.home # s) => \A d : d.home = s => (d \in docs <=> d \in E)
<1>1. \A d \in docs : d \in Documents
  BY DEF DocumentsSound, Proper
<1>2. E = (docs \ L) \cup N
  BY DEF With
<1>3. /\ \A e \in E : \E d \in docs : Same(e, d)
      /\ \A d \in docs : \E e \in E : Same(e, d)
  BY <1>1, <1>2, SameItself DEF Replaces
<1>4. DocumentsSound(E, B, T, H)
  BY <1>3, SameSound
<1>5. \A e \in E : Inherited(e, docs)
  <2>1. \A e, d : Same(e, d) => d.bundle = e.bundle /\ d.home = e.home
    BY DEF Same
  <2>2. QED
    BY <1>3, <2>1 DEF Inherited
<1>6. ASSUME NEW s, \A d \in L : d.home # s, NEW d, d.home = s
      PROVE  d \in docs <=> d \in E
  <2>1. d \notin L
    BY <1>6
  <2>2. d \notin N
    <3>1. \A e \in N : \E x \in L : e.home = x.home
      BY DEF Same, Replaces
    <3>2. QED
      BY <1>6, <3>1
  <2>3. QED
    BY <1>2, <2>1, <2>2
<1>7. QED
  BY <1>4, <1>5, <1>6

LEMMA SameStep ==
    ASSUME IInv, NEW L, L \subseteq docs, NEW N, docs' = With(L, N),
           Replaces(N, L), NEW S, Rebuilt(S), \A d \in L : d.home \in Sessions => d.home \in S,
           UNCHANGED <<gen, import, bundles, torn, halved>>
    PROVE  IInv'
<1>1. bundles \in Nat /\ Typed /\ DocumentsSound(docs, bundles, torn, halved) /\ Views(board, gate, rough, docs)
  BY DEF IInv, Typed
<1> DEFINE E == docs'
<1>2. E = With(L, N)
  OBVIOUS
<1> HIDE DEF E
<1>3. /\ DocumentsSound(E, bundles, torn, halved) /\ \A e \in E : Inherited(e, docs)
      /\ \A s : (\A d \in L : d.home # s) => \A d : d.home = s => (d \in docs <=> d \in E)
  BY <1>1, <1>2, WithSame, ZenonT(30)
<1> USE DEF E
<1>4. \A d \in docs' : Proper(d, bundles)
  BY <1>3 DEF DocumentsSound
<1>5. \A s \in Sessions \ S : \A d : d.home = s => (d \in docs <=> d \in docs')
  <2>1. \A s \in Sessions \ S : \A d \in L : d.home # s
    OBVIOUS
  <2>2. QED
    BY <1>3, <2>1
<1>6. ViewsKept
  BY <1>1, <1>4, <1>5, RebuiltViews DEF ViewsKept
<1>7. QED
  BY <1>1, <1>3, <1>6, DocumentsStep

LEMMA TombstoneSame == ASSUME NEW d \in Documents PROVE Same(Tombstone(d), d)
  BY DEF Same, Tombstone, Documents

LEMMA RewriteSteps ==
    ASSUME IInv,
           \/ \E d \in docs : Understand(d) \/ RemoveDocument(d)
           \/ \E S \in SUBSET Sessions : ClearKey(S)
    PROVE  IInv'
<1>1. \A d \in docs : d \in Documents
  BY DEF IInv, DocumentsSound, Proper
<1>2. ASSUME NEW d \in docs, Understand(d) PROVE IInv'
  <2> DEFINE e == [d EXCEPT !.state = "parsed", !.whole = TRUE]
  <2>1. Same(e, d)
    BY <1>1 DEF Same, Documents
  <2>2. docs' = With({d}, {e}) /\ Rebuilt({d.home}) /\ UNCHANGED <<gen, import, bundles, torn, halved>>
    BY <1>2 DEF Understand
  <2> HIDE DEF e
  <2>3. Replaces({e}, {d})
    BY <2>1 DEF Replaces
  <2>4. QED
    BY <2>2, <2>3, SameStep
<1>3. ASSUME NEW d \in docs, RemoveDocument(d) PROVE IInv'
  <2> DEFINE e == Tombstone(d)
             S == {d.home} \cap Sessions
  <2>1. Replaces({e}, {d})
    BY <1>1, TombstoneSame DEF Replaces
  <2>2. docs' = With({d}, {e}) /\ Rebuilt(S) /\ UNCHANGED <<gen, import, bundles, torn, halved>>
    BY <1>3 DEF RemoveDocument
  <2>3. d.home \in Sessions => d.home \in S
    OBVIOUS
  <2> HIDE DEF e, S
  <2>4. QED
    BY <2>1, <2>2, <2>3, SameStep
<1>4. ASSUME NEW S \in SUBSET Sessions, ClearKey(S) PROVE IInv'
  <2> DEFINE L == {d \in docs : d.home \in S /\ Clearable(d)}
             N == {Tombstone(d) : d \in L}
             homes == {d.home : d \in L}
  <2>1. docs' = With(L, N) /\ Rebuilt(homes) /\ UNCHANGED <<gen, import, bundles, torn, halved>>
    BY <1>4 DEF ClearKey
  <2>2. L \subseteq docs /\ \A d \in L : d.home \in homes
    OBVIOUS
  <2>3. \A d \in L : Same(Tombstone(d), d)
    BY <1>1, TombstoneSame
  <2>4. Replaces(N, L)
    BY <2>3 DEF Replaces
  <2> HIDE DEF L, N, homes
  <2>5. QED
    BY <2>1, <2>2, <2>4, SameStep
<1>5. QED
  BY <1>2, <1>3, <1>4

\* Documents uploaded under a new number.
LEMMA UploadStep ==
    ASSUME IInv, NEW s \in Sessions, NEW N, docs' = docs \cup N, NewBundle, Rebuilt({s}),
           \A d \in N : /\ d \in Documents /\ d.home = s /\ d.bundle = bundles + 1
                        /\ d.kind = "upload",
           UNCHANGED <<gen, import, torn, halved>>
    PROVE  IInv'
<1>1. bundles \in Nat /\ Typed /\ DocumentsSound(docs, bundles, torn, halved) /\ Views(board, gate, rough, docs)
  BY DEF IInv, Typed
<1>2. bundles' = bundles + 1
  BY DEF NewBundle
<1>3. DocumentsSound(docs, bundles', torn, halved)
  BY <1>1, <1>2, WeakerSound
<1>4. \A d \in N : Proper(d, bundles')
  BY <1>1, <1>2 DEF Proper, Generated
<1>5. \A d \in docs : d.bundle # bundles'
  BY <1>1, <1>2 DEF DocumentsSound, Proper
<1>6. DocumentsSound(docs', bundles', torn', halved')
  <2>1. \A d \in N : d.kind # "import" /\ d.kind \notin Generated
    BY DEF Generated
  <2>2. DocumentsSound(docs \cup N, bundles', torn, halved)
    BY <1>2, <1>3, <1>4, <1>5, <2>1, AddedSound
  <2>3. QED
    BY <2>2
<1>7. \A t \in Sessions \ {s} : \A d : d.home = t => (d \in docs <=> d \in docs')
  OBVIOUS
<1>8. \A d \in docs' : Proper(d, bundles')
  BY <1>6 DEF DocumentsSound
<1>9. bundles' \in Nat /\ bundles <= bundles'
  BY <1>1, <1>2
<1>10. ViewsKept
  BY <1>1, <1>7, <1>8, <1>9, RebuiltViews DEF ViewsKept
<1>11. \A e \in docs' : e.bundle > bundles \/ Inherited(e, docs)
  BY <1>1 DEF Inherited
<1>12. QED
  BY <1>6, <1>9, <1>10, <1>11, DocumentsStep

LEMMA UploadSteps ==
    ASSUME IInv, NEW s \in Sessions, Upload(s) \/ StartValidation(s)
    PROVE  IInv'
<1> DEFINE New(t) == [home |-> s, bundle |-> bundles + 1, type |-> t, kind |-> "upload",
                      state |-> "waiting", whole |-> FALSE, imported |-> FALSE]
<1>1. bundles \in Nat
  BY DEF IInv, Typed
<1>2. ASSUME NEW t \in RequiredSet
      PROVE  New(t) \in Documents /\ New(t).home = s /\ New(t).bundle = bundles + 1 /\ New(t).kind = "upload"
  BY <1>1 DEF Documents, Kinds
<1>3. CASE Upload(s)
  <2>1. PICK t \in RequiredSet : docs' = docs \cup {New(t)}
    BY <1>3 DEF Upload
  <2>2. NewBundle /\ Rebuilt({s}) /\ UNCHANGED <<gen, import, torn, halved>>
    BY <1>3 DEF Upload
  <2> HIDE DEF New
  <2> DEFINE N == {New(t)}
  <2>3. \A d \in N : d \in Documents /\ d.home = s /\ d.bundle = bundles + 1 /\ d.kind = "upload"
    BY <1>2
  <2>4. docs' = docs \cup N
    BY <2>1
  <2> HIDE DEF N
  <2>5. QED
    BY <2>2, <2>3, <2>4, UploadStep
<1>4. CASE StartValidation(s)
  <2> DEFINE N == {New(t) : t \in RequiredSet}
  <2>1. docs' = docs \cup N /\ NewBundle /\ Rebuilt({s}) /\ UNCHANGED <<gen, import, torn, halved>>
    BY <1>4 DEF StartValidation
  <2> HIDE DEF New
  <2>2. \A d \in N : d \in Documents /\ d.home = s /\ d.bundle = bundles + 1 /\ d.kind = "upload"
    BY <1>2
  <2> HIDE DEF N
  <2>3. QED
    BY <2>1, <2>2, UploadStep
<1>5. QED
  BY <1>3, <1>4

LEMMA FinishValidationStep ==
    ASSUME IInv, NEW s \in Sessions, NEW sound \in BOOLEAN, FinishValidation(s, sound)
    PROVE  IInv'
  BY DEF FinishValidation, IInv, Typed, NumbersDiffer

\* Publishing: the package before is gone, the new one has its own number.
LEMMA PublishStep ==
    ASSUME IInv, NEW s \in Sessions, NEW replace \in BOOLEAN, NEW force \in BOOLEAN,
           Publish(s, replace, force)
    PROVE  IInv'
<1> DEFINE old == SourceOfArchive \cap {d \in docs : d.kind = "template"}
<1>1. PICK f \in Selections(s) :
        /\ \A t \in RequiredSet : Publishable(f[t])
        /\ docs' = (docs \ old) \cup {Template(f[t]) : t \in RequiredSet}
  BY DEF Publish
<1> DEFINE N == {Template(f[t]) : t \in RequiredSet}
           E == docs \ old
<1>2. bundles \in Nat /\ Typed /\ DocumentsSound(docs, bundles, torn, halved) /\ Views(board, gate, rough, docs)
  BY DEF IInv, Typed
<1>3. /\ bundles' = bundles + 1 /\ docs' = E \cup N
      /\ UNCHANGED <<board, gate, gen, import, rough, halved, torn>>
  BY <1>1 DEF Publish, NewBundle
<1>4. \A t \in RequiredSet : f[t] \in docs
  BY DEF Selections, In
<1>5. ASSUME NEW d \in N PROVE Proper(d, bundles') /\ d.bundle = bundles' /\ d.home = Archive /\ d.kind = "template"
  <2>1. PICK t \in RequiredSet : d = Template(f[t])
    OBVIOUS
  <2> DEFINE g == f[t]
  <2>2. g \in Documents
    BY <1>2, <1>4 DEF DocumentsSound, Proper
  <2>3. d = [g EXCEPT !.home = Archive, !.bundle = bundles', !.kind = "template"]
    BY <1>3, <2>1 DEF Template
  <2> HIDE DEF g
  <2>4. bundles' \in Nat /\ bundles' \in 1 .. bundles'
    BY <1>2, <1>3
  <2>5. d \in Documents /\ d.bundle = bundles' /\ d.home = Archive /\ d.kind = "template"
    BY <2>2, <2>3, <2>4 DEF Documents, Kinds
  <2>6. QED
    BY <2>4, <2>5 DEF Proper, Generated
<1> HIDE DEF N
<1>6. \A d \in old : d \in docs /\ d.kind = "template" /\ d.home = Archive
  BY <1>2 DEF DocumentsSound, Proper
<1> HIDE DEF old
<1>7. DocumentsSound(E, bundles, torn, halved)
  <2>1. \A d \in docs, e \in E :
          d.bundle = e.bundle /\ e.kind \in Generated \cup {"import"} => d \in E
    BY <1>2, <1>6 DEF DocumentsSound, Generated
  <2>2. QED
    BY <1>2, <2>1, RemovedSound
<1>8. DocumentsSound(E, bundles', torn, halved)
  BY <1>2, <1>3, <1>7, WeakerSound
<1>9. \A d \in E : d.bundle # bundles'
  BY <1>2, <1>3 DEF DocumentsSound, Proper
<1>10. DocumentsSound(docs', bundles', torn', halved')
  <2>1. \A d \in N : d.kind # "import" /\ d.kind \notin Generated
    BY <1>5 DEF Generated
  <2>2. \A d, e \in N : d.kind = e.kind /\ d.home = e.home
    BY <1>5
  <2> HIDE DEF E
  <2>3. DocumentsSound(E \cup N, bundles', torn, halved)
    BY <1>5, <1>8, <1>9, <2>1, <2>2, AddedSound
  <2>4. QED
    BY <1>3, <2>3
<1>11. \A t \in Sessions : \A d : d.home = t => (d \in docs <=> d \in docs')
  BY <1>3, <1>5, <1>6, ArchiveIsNobodys
<1>12. ViewsKept
  <2>1. Views(board, gate, rough, docs')
    BY <1>2, <1>11, RoughViews
  <2>2. QED
    BY <1>2, <1>3, <2>1 DEF ViewsKept, Typed
<1>13. \A e \in docs' : e.bundle > bundles \/ Inherited(e, docs)
  BY <1>2, <1>3, <1>5 DEF Inherited
<1>14. QED
  BY <1>2, <1>3, <1>10, <1>12, <1>13, DocumentsStep

\* The archive is cleaned up: of generated bundles, all of a session's own go.
LEMMA CleanUpStep ==
    ASSUME IInv, NEW D \in ArchivesToClean, CleanUpArchives(D)
    PROVE  IInv'
<1> DEFINE R == rough \cup ({d.home : d \in D} \cap Sessions)
           E == docs \ D
<1>1. Typed /\ DocumentsSound(docs, bundles, torn, halved) /\ Views(board, gate, rough, docs)
  BY DEF IInv
<1>2. docs' = E /\ rough' = R /\ UNCHANGED <<board, gate, bundles, gen, import, halved, torn>>
  BY DEF CleanUpArchives
<1>3. /\ \A d \in D : d \in docs /\ ~d.imported /\ d.kind \in {"debug", "template"}
      /\ \A d \in docs : d.kind = "debug" /\ d \notin D => \A e \in D : e.kind = "template"
  <2>1. \A d \in docs : d.kind = "debug" => ~d.imported
    BY <1>1 DEF DocumentsSound, Proper, Generated
  <2>2. D = SourceOfArchive \/ D = SourceOfArchive \cap {d \in docs : d.kind = "template"}
    BY DEF ArchivesToClean
  <2>3. QED
    BY <2>1, <2>2 DEF SourceOfArchive
<1>4. \A d \in docs, e \in E :
        d.bundle = e.bundle /\ e.kind \in Generated \cup {"import"} => d \in E
  <2> SUFFICES ASSUME NEW d \in docs, NEW e \in E, d.bundle = e.bundle,
                      e.kind \in Generated \cup {"import"}, d \in D
               PROVE  FALSE
    OBVIOUS
  <2>1. d.kind = e.kind
    BY <1>1 DEF DocumentsSound
  <2>2. d.kind = "debug"
    BY <1>3, <2>1 DEF Generated
  <2>3. QED
    BY <1>3, <2>1, <2>2
<1>5. DocumentsSound(E, bundles, torn, halved)
  BY <1>1, <1>4, RemovedSound
<1>6. \A s \in Sessions \ R : \A d : d.home = s => (d \in docs <=> d \in E)
  OBVIOUS
<1>7. rough \subseteq R
  OBVIOUS
<1> HIDE DEF R, E
<1>8. ViewsKept
  <2>1. Views(board, gate, R, E)
    BY <1>1, <1>6, <1>7, RoughViews
  <2>2. QED
    BY <1>1, <1>2, <2>1 DEF ViewsKept, Typed
<1>9. \A e \in docs' : Inherited(e, docs)
  BY <1>2 DEF Inherited, E
<1>10. QED
  BY <1>1, <1>2, <1>5, <1>8, <1>9, DocumentsStep DEF Typed

-----------------------------------------------------------------------------
(* Steps of the making of a bundle.                                        *)

\* Steps that leave the documents alone.
LEMMA UnchangedDocuments ==
    ASSUME IInv, UNCHANGED <<docs, board, gate, rough, halved>>, torn \subseteq torn',
           bundles' \in Nat, bundles <= bundles'
    PROVE  /\ DocumentsSound(docs', bundles', torn', halved') /\ ViewsKept
           /\ \A e \in docs' : Inherited(e, docs)
           /\ \A s \in Sessions : GenSound(s, gen[s], docs', bundles')
           /\ \A s \in Sessions : ImportSound(s, import[s], docs', bundles', torn')
<1>1. bundles \in Nat /\ Typed /\ DocumentsSound(docs, bundles, torn, halved) /\ Views(board, gate, rough, docs)
  BY DEF IInv, Typed
<1>2. DocumentsSound(docs, bundles', torn', halved)
  BY <1>1, WeakerSound
<1>3. ViewsKept
  BY <1>1 DEF ViewsKept, Typed
<1>4. \A e \in docs : Inherited(e, docs)
  BY DEF Inherited
<1>5. ASSUME NEW s \in Sessions PROVE GenSound(s, gen[s], docs, bundles')
  <2>1. GenSound(s, gen[s], docs, bundles)
    BY DEF IInv
  <2>2. QED
    BY <1>1, <1>4, <2>1, GenKept
<1>6. ASSUME NEW s \in Sessions PROVE ImportSound(s, import[s], docs, bundles', torn')
  <2>1. ImportSound(s, import[s], docs, bundles, torn)
    BY DEF IInv
  <2>2. QED
    BY <1>1, <1>4, <2>1, ImportKept
<1>7. QED
  BY <1>2, <1>3, <1>4, <1>5, <1>6

LEMMA GenStep ==
    ASSUME IInv, NEW s \in Sessions, NEW g \in {Idle} \cup Gens, gen' = [gen EXCEPT ![s] = g],
           UNCHANGED <<docs, board, gate, import, rough, halved, torn>>,
           bundles' \in Nat, bundles <= bundles',
           g # Idle => (gen[s] # Idle /\ g.bundle = gen[s].bundle) \/ g.bundle = bundles + 1,
           GenSound(s, g, docs, bundles')
    PROVE  IInv'
<1>1. Typed
  BY DEF IInv
<1>2. gen' \in [Sessions -> {Idle} \cup Gens] /\ gen'[s] = g /\ \A t \in Sessions \ {s} : gen'[t] = gen[t]
  BY <1>1 DEF Typed
<1>3. /\ DocumentsSound(docs', bundles', torn', halved') /\ ViewsKept
      /\ \A e \in docs' : Inherited(e, docs)
      /\ ImportSound(s, import[s], docs', bundles', torn')
  BY UnchangedDocuments
<1>4. import' \in [Sessions -> {Idle} \cup Imports] /\ \A t \in Sessions : import'[t] = import[t]
  BY <1>1 DEF Typed
<1>5. QED
  BY <1>2, <1>3, <1>4, SessionStep

\* What is known of the bundle that is being made.
LEMMA GenIs ==
    ASSUME IInv, NEW s \in Sessions
    PROVE  /\ bundles \in Nat /\ gen \in [Sessions -> {Idle} \cup Gens]
           /\ GenSound(s, gen[s], docs, bundles)
           /\ gen[s].pc # "idle" => gen[s] # Idle /\ gen[s] \in Gens
           /\ GenSound(s, Idle, docs, bundles)
<1>1. gen[s] \in {Idle} \cup Gens
  BY DEF IInv, Typed
<1>2. QED
  BY <1>1 DEF IInv, Typed, GenSound, Idle

LEMMA StartBundleStep ==
    ASSUME IInv, NEW s \in Sessions, NEW kind \in Generated, StartBundle(s, kind)
    PROVE  IInv'
<1> DEFINE g == [pc |-> "asking", kind |-> kind, bundle |-> bundles + 1, job |-> Planning, written |-> {}]
<1>1. /\ gen' = [gen EXCEPT ![s] = g] /\ bundles' = bundles + 1
      /\ UNCHANGED <<docs, board, gate, import, rough, halved, torn>>
  BY DEF StartBundle, NewBundle
<1>2. bundles \in Nat /\ bundles' \in Nat /\ bundles <= bundles' /\ bundles + 1 \in 1 .. bundles'
  BY <1>1, GenIs
<1>3. JobSound(Planning) /\ Planning \in Jobs
  BY PlanningSound DEF JobSound
<1>4. /\ g \in Gens /\ g.pc = "asking" /\ g.written = {} /\ g.job = Planning
      /\ g.bundle = bundles + 1
  BY <1>2, <1>3 DEF Gens
<1> HIDE DEF g
<1>5. \A d \in docs : d.bundle # bundles + 1
  BY <1>2 DEF IInv, DocumentsSound, Proper
<1>6. GenSound(s, g, docs, bundles')
  BY <1>2, <1>3, <1>4, <1>5 DEF GenSound
<1>7. QED
  BY <1>1, <1>2, <1>4, <1>6, GenStep

LEMMA CallModelStep ==
    ASSUME IInv, NEW s \in Sessions, NEW outcome \in Outcomes, CallModel(s, outcome)
    PROVE  IInv'
<1> DEFINE old == gen[s]
           j == Answered(old.job, outcome)
           g == [old EXCEPT !.job = j, !.pc = IF j.pc = "made" THEN "writing" ELSE "asking"]
<1>1. /\ old.pc = "asking" /\ Asking(old.job)
      /\ UNCHANGED <<docs, board, gate, bundles, import, rough, halved, torn>>
  BY DEF CallModel
<1>2. /\ bundles \in Nat /\ gen \in [Sessions -> {Idle} \cup Gens]
      /\ GenSound(s, old, docs, bundles) /\ old # Idle /\ old \in Gens
      /\ GenSound(s, Idle, docs, bundles)
  BY <1>1, GenIs
<1>3. gen' = [gen EXCEPT ![s] = IF j.pc = "failed" THEN Idle ELSE g]
  BY DEF CallModel, Asked
<1>4. CASE j.pc = "failed"
  <2>1. gen' = [gen EXCEPT ![s] = Idle]
    BY <1>3, <1>4
  <2>2. bundles' \in Nat /\ bundles <= bundles' /\ GenSound(s, Idle, docs, bundles')
    BY <1>1, <1>2
  <2>3. QED
    BY <1>1, <2>1, <2>2, GenStep
<1>5. CASE j.pc # "failed"
  <2>1. JobSound(j) /\ j \in Jobs
    BY <1>1, <1>2, AnsweredSound DEF GenSound, JobSound
  <2>2. gen' = [gen EXCEPT ![s] = g]
    BY <1>3, <1>5
  <2> HIDE DEF j
  <2>3. /\ g \in Gens /\ g.pc = (IF j.pc = "made" THEN "writing" ELSE "asking") /\ g.job = j
        /\ g.bundle = old.bundle /\ g.written = old.written /\ g.kind = old.kind
    BY <1>2, <2>1 DEF Gens
  <2> HIDE DEF g
  <2>4. g.written = {}
    BY <1>1, <1>2, <2>3 DEF GenSound
  <2>5. IsFiniteSet({}) /\ Cardinality({}) = 0
    BY FS_EmptySet
  <2>6. WrittenSound(s, g)
    <3>1. 0 <= Len(j.made)
      BY <2>1, LenProperties DEF JobSound, Jobs
    <3>2. QED
      BY <2>3, <2>4, <2>5, <3>1 DEF WrittenSound
  <2>7. GenSound(s, g, docs, bundles)
    BY <1>1, <1>2, <2>1, <2>3, <2>4, <2>6 DEF GenSound
  <2>8. bundles' \in Nat /\ bundles <= bundles' /\ GenSound(s, g, docs, bundles')
    BY <1>1, <1>2, <2>7
  <2>9. gen[s] # Idle /\ g.bundle = gen[s].bundle
    BY <1>2, <2>3
  <2>10. QED
    BY <1>1, <2>2, <2>3, <2>8, <2>9, GenStep
<1>6. QED
  BY <1>4, <1>5

LEMMA WriteDocumentStep ==
    ASSUME IInv, NEW s \in Sessions, WriteDocument(s)
    PROVE  IInv'
<1> DEFINE old == gen[s]
           k == Cardinality(old.written)
           made == old.job.made
           d == Draft(s, old, made[k + 1])
           g == [old EXCEPT !.written = @ \cup {d}]
<1>1. /\ old.pc = "writing" /\ k < Len(made)
      /\ UNCHANGED <<docs, board, gate, bundles, import, rough, halved, torn>>
  BY DEF WriteDocument
<1>2. /\ bundles \in Nat /\ gen \in [Sessions -> {Idle} \cup Gens]
      /\ GenSound(s, old, docs, bundles) /\ old # Idle /\ old \in Gens
  BY <1>1, GenIs
<1>3. gen' = [gen EXCEPT ![s] = g]
  BY <1>2 DEF WriteDocument, Draft
<1>4. /\ JobSound(old.job) /\ old.job.pc = "made" /\ WrittenSound(s, old) /\ old.bundle \in 1 .. bundles
      /\ \A e \in docs : e.bundle # old.bundle
  BY <1>1, <1>2 DEF GenSound
<1>5. made \in Seq(RequiredSet) /\ Len(made) \in Nat /\ DOMAIN made = 1 .. Len(made)
  BY <1>4, LenProperties DEF JobSound, Jobs
<1>6. IsFiniteSet(old.written) /\ k \in Nat
  BY <1>4, FS_CardinalityType DEF WrittenSound
<1>7. k + 1 \in 1 .. Len(made) /\ made[k + 1] \in RequiredSet
  BY <1>1, <1>5, <1>6
<1>8. d \in Documents /\ d.type = made[k + 1]
  <2>1. old.kind \in Generated /\ old.bundle \in Nat
    BY <1>2 DEF Gens
  <2>2. QED
    BY <1>7, <2>1 DEF Draft, Documents, Kinds, Generated
<1>9. d \notin old.written
  <2> SUFFICES ASSUME d \in old.written PROVE FALSE
    OBVIOUS
  <2>1. PICK i \in 1 .. k : d = Draft(s, old, made[i])
    BY <1>4 DEF WrittenSound
  <2>2. made[i] = made[k + 1]
    BY <1>8, <2>1 DEF Draft
  <2>3. i \in 1 .. Len(made) /\ i \in 1 .. Len(Required) /\ k + 1 \in 1 .. Len(Required)
    BY <1>4, <1>5, <1>6, <1>7, RequiredIs DEF JobSound
  <2>4. Required[i] = Required[k + 1]
    BY <1>4, <1>7, <2>2, <2>3 DEF JobSound
  <2>5. i = k + 1
    BY <2>3, <2>4, RequiredIs
  <2>6. QED
    BY <1>6, <2>5
<1>10. g \in Gens /\ g.pc = "writing" /\ g.job = old.job /\ g.bundle = old.bundle /\ g.kind = old.kind
       /\ g.written = old.written \cup {d}
  <2>1. old.written \cup {d} \in SUBSET Documents
    BY <1>2, <1>8 DEF Gens
  <2> HIDE DEF d
  <2>2. QED
    BY <1>1, <1>2, <2>1 DEF Gens
<1>11. Cardinality(g.written) = k + 1 /\ IsFiniteSet(g.written)
  BY <1>6, <1>9, <1>10, FS_AddElement
<1>12. \A t : Draft(s, g, t) = Draft(s, old, t)
  BY <1>10 DEF Draft
<1>13. WrittenSound(s, g)
  <2>1. k + 1 <= Len(made)
    BY <1>7
  <2>2. ASSUME NEW e \in g.written PROVE \E i \in 1 .. k + 1 : e = Draft(s, g, made[i])
    <3>1. CASE e \in old.written
      <4>1. PICK i \in 1 .. k : e = Draft(s, old, made[i])
        BY <1>4, <3>1 DEF WrittenSound
      <4>2. i \in 1 .. k + 1
        BY <1>6
      <4>3. QED
        BY <1>12, <4>1, <4>2
    <3>2. CASE e = d
      <4>1. k + 1 \in 1 .. k + 1
        BY <1>6
      <4>2. QED
        BY <1>12, <3>2, <4>1
    <3>3. QED
      BY <1>10, <3>1, <3>2
  <2>3. ASSUME NEW i \in 1 .. k + 1 PROVE Draft(s, g, made[i]) \in g.written
    <3>1. CASE i \in 1 .. k
      <4>1. Draft(s, old, made[i]) \in old.written
        BY <1>4, <3>1 DEF WrittenSound
      <4>2. QED
        BY <1>10, <1>12, <4>1
    <3>2. CASE i = k + 1
      BY <1>10, <1>12, <3>2
    <3>3. QED
      BY <1>6, <3>1, <3>2
  <2> HIDE DEF g
  <2>4. QED
    BY <1>10, <1>11, <2>1, <2>2, <2>3 DEF WrittenSound
<1> HIDE DEF g
<1>14. GenSound(s, g, docs, bundles)
  BY <1>4, <1>10, <1>13 DEF GenSound
<1>15. bundles' \in Nat /\ bundles <= bundles' /\ GenSound(s, g, docs, bundles')
  BY <1>1, <1>2, <1>14
<1>16. gen[s] # Idle /\ g.bundle = gen[s].bundle
  BY <1>2, <1>10
<1>17. QED
  BY <1>1, <1>3, <1>10, <1>15, <1>16, GenStep

\* The documents written so far, put into the session.
LEMMA WrittenAdded ==
    ASSUME IInv, NEW s \in Sessions, gen[s].pc = "writing", NEW H, halved \subseteq H,
           AllWritten(s) \/ gen[s].bundle \in H
    PROVE  /\ DocumentsSound(docs \cup gen[s].written, bundles, torn, H)
           /\ \A d \in gen[s].written : d.home = s /\ d.bundle = gen[s].bundle
           /\ \A d \in docs : d.bundle # gen[s].bundle
<1> DEFINE g == gen[s]
           N == g.written
           made == g.job.made
<1>1. /\ bundles \in Nat /\ GenSound(s, g, docs, bundles) /\ g # Idle /\ g \in Gens
      /\ DocumentsSound(docs, bundles, torn, halved)
  BY GenIs DEF IInv
<1>2. /\ JobSound(g.job) /\ g.job.pc = "made" /\ WrittenSound(s, g) /\ g.bundle \in 1 .. bundles
      /\ \A d \in docs : d.bundle # g.bundle
  BY <1>1 DEF GenSound
<1>3. N \subseteq Documents /\ g.kind \in Generated
  BY <1>1 DEF Gens
<1>4. ASSUME NEW d \in N
      PROVE  /\ Proper(d, bundles) /\ d.home = s /\ d.bundle = g.bundle /\ d.kind = g.kind
  <2>1. PICK i \in 1 .. Cardinality(N) : d = Draft(s, g, made[i])
    BY <1>2 DEF WrittenSound
  <2>2. d.home = s /\ d.bundle = g.bundle /\ d.kind = g.kind /\ ~d.imported
    BY <2>1 DEF Draft
  <2>3. QED
    BY <1>2, <1>3, <2>2 DEF Proper, Generated
<1>5. AllWritten(s) => \A t \in RequiredSet : \E e \in N : e.type = t
  <2> SUFFICES ASSUME AllWritten(s), NEW t \in RequiredSet PROVE \E e \in N : e.type = t
    OBVIOUS
  <2>1. Cardinality(N) = Len(made)
    BY DEF AllWritten
  <2>2. made \in Seq(RequiredSet) /\ DOMAIN made = 1 .. Len(made)
    BY <1>2, LenProperties DEF JobSound, Jobs
  <2>3. PICK i \in 1 .. Len(made) : made[i] = t
    BY <1>2, <2>2 DEF JobSound, ToSet
  <2>4. Draft(s, g, t) \in N
    BY <1>2, <2>1, <2>3 DEF WrittenSound
  <2>5. Draft(s, g, t).type = t
    BY DEF Draft
  <2>6. QED
    BY <2>4, <2>5
<1>6. DocumentsSound(docs, bundles, torn, H)
  BY <1>1, WeakerSound
<1>7. \A d \in N : d.kind # "import"
  BY <1>3, <1>4 DEF Generated
<1> HIDE DEF N
<1>8. DocumentsSound(docs \cup N, bundles, torn, H)
  <2>1. \A d, e \in N : d.kind = e.kind /\ d.home = e.home
    BY <1>4
  <2>2. g.bundle \notin H => \A t \in RequiredSet : \E e \in N : e.type = t
    BY <1>5
  <2>3. \A d \in N : Proper(d, bundles) /\ d.bundle = g.bundle
    BY <1>4
  <2> DEFINE b == g.bundle
  <2>4. \A d \in docs : d.bundle # b
    BY <1>2
  <2> HIDE DEF b
  <2>5. QED
    BY <1>6, <1>7, <2>1, <2>2, <2>3, <2>4, AddedSound DEF b
<1>9. QED
  BY <1>2, <1>4, <1>8 DEF N

\* The end of the writing, with its documents in the session or without.
LEMMA WritingStep ==
    ASSUME IInv, NEW s \in Sessions, gen[s].pc = "writing", docs' = docs \cup gen[s].written,
           NEW g \in {Idle} \cup Gens, gen' = [gen EXCEPT ![s] = g],
           g # Idle => g = [gen[s] EXCEPT !.pc = "committed"],
           halved \subseteq halved', AllWritten(s) \/ gen[s].bundle \in halved', ViewsKept,
           UNCHANGED <<bundles, import, torn>>
    PROVE  IInv'
<1> DEFINE old == gen[s]
<1>1. /\ bundles \in Nat /\ gen \in [Sessions -> {Idle} \cup Gens]
      /\ GenSound(s, old, docs, bundles) /\ old # Idle /\ old \in Gens
      /\ Typed /\ NumbersDiffer(gen, import)
  BY GenIs DEF IInv
<1>2. /\ DocumentsSound(docs', bundles', torn', halved')
      /\ \A d \in old.written : d.home = s /\ d.bundle = old.bundle
      /\ \A d \in docs : d.bundle # old.bundle
  BY WrittenAdded
<1>3. \A e \in docs' : Inherited(e, docs) \/ e.bundle = old.bundle
  BY <1>2 DEF Inherited
<1>4. /\ gen' \in [Sessions -> {Idle} \cup Gens] /\ gen'[s] = g
      /\ \A t \in Sessions \ {s} : gen'[t] = gen[t]
  BY <1>1
<1>5. g # Idle => /\ g.bundle = old.bundle /\ g.job = old.job /\ g.pc = "committed"
  BY <1>1 DEF Gens
<1>6. GenSound(s, g, docs', bundles')
  <2>1. \A d \in docs' : d.bundle = old.bundle => d.home = s
    BY <1>2
  <2>2. old.bundle \in 1 .. bundles' /\ JobSound(old.job)
    BY <1>1 DEF GenSound
  <2>3. QED
    BY <1>5, <2>1, <2>2 DEF GenSound
<1>7. ImportSound(s, import[s], docs', bundles', torn')
  <2>1. ImportSound(s, import[s], docs, bundles, torn)
    BY DEF IInv
  <2>2. import[s] # Idle => \A e \in docs' : e.bundle # import[s].bundle \/ Inherited(e, docs)
    BY <1>1, <1>3 DEF NumbersDiffer
  <2>3. QED
    BY <1>1, <2>1, <2>2, ImportKept
<1>8. import' \in [Sessions -> {Idle} \cup Imports] /\ \A t \in Sessions : import'[t] = import[t]
  BY <1>1 DEF Typed
<1>9. bundles' \in Nat /\ bundles <= bundles' /\ torn \subseteq torn'
  BY <1>1
<1>10. g # Idle => gen[s] # Idle /\ g.bundle = gen[s].bundle
  BY <1>1, <1>5
<1>11. \A e \in docs' : Inherited(e, docs) \/ (gen[s] # Idle /\ e.bundle = gen[s].bundle)
  BY <1>1, <1>3
<1> HIDE DEF old
<1>12. QED
  BY <1>2, <1>4, <1>6, <1>7, <1>8, <1>9, <1>10, <1>11, SessionStep

LEMMA CommitBundleStep ==
    ASSUME IInv, NEW s \in Sessions, CommitBundle(s)
    PROVE  IInv'
<1> DEFINE g == [gen[s] EXCEPT !.pc = "committed"]
<1>1. /\ gen[s].pc = "writing" /\ AllWritten(s) /\ docs' = docs \cup gen[s].written /\ Rebuilt({s})
      /\ UNCHANGED <<bundles, import, halved, torn>>
  BY DEF CommitBundle
<1>2. /\ bundles \in Nat /\ gen \in [Sessions -> {Idle} \cup Gens] /\ gen[s] \in Gens
      /\ Typed /\ Views(board, gate, rough, docs)
  BY <1>1, GenIs DEF IInv
<1>3. gen' = [gen EXCEPT ![s] = g]
  BY <1>2 DEF CommitBundle
<1>4. g \in Gens
  BY <1>2 DEF Gens
<1>5. /\ DocumentsSound(docs', bundles, torn, halved)
      /\ \A d \in gen[s].written : d.home = s
  BY <1>1, WrittenAdded
<1>6. \A t \in Sessions \ {s} : \A d : d.home = t => (d \in docs <=> d \in docs')
  BY <1>1, <1>5
<1>7. ViewsKept
  <2>1. \A d \in docs' : Proper(d, bundles)
    BY <1>5 DEF DocumentsSound
  <2>2. QED
    BY <1>1, <1>2, <1>6, <2>1, RebuiltViews DEF ViewsKept
<1>8. halved \subseteq halved'
  BY <1>1
<1> DEFINE h == g
<1>9. h \in {Idle} \cup Gens /\ (h # Idle => h = [gen[s] EXCEPT !.pc = "committed"])
      /\ gen' = [gen EXCEPT ![s] = h]
  BY <1>3, <1>4
<1> HIDE DEF h
<1>10. QED
  BY <1>1, <1>7, <1>8, <1>9, WritingStep

LEMMA FailWritingStep ==
    ASSUME IInv, NEW s \in Sessions, FailWriting(s)
    PROVE  IInv'
<1>1. /\ gen[s].pc = "writing" /\ docs' = docs \cup gen[s].written
      /\ gate' = gate \/ gate' = [gate EXCEPT ![s] = Understood(s, docs')]
      /\ rough' = IF gen[s].written = {} THEN rough ELSE rough \cup {s}
      /\ halved' = IF AllWritten(s) THEN halved ELSE halved \cup {gen[s].bundle}
      /\ gen' = [gen EXCEPT ![s] = Idle]
      /\ UNCHANGED <<board, bundles, import, torn>>
  BY DEF FailWriting
<1>2. bundles \in Nat /\ Typed /\ Views(board, gate, rough, docs)
  BY DEF IInv, Typed
<1>3. halved \subseteq halved' /\ (AllWritten(s) \/ gen[s].bundle \in halved')
  BY <1>1
<1>4. /\ DocumentsSound(docs', bundles, torn, halved')
      /\ \A d \in gen[s].written : d.home = s
  BY <1>1, <1>3, WrittenAdded
<1>5. \A t \in Sessions \ rough' : \A d : d.home = t => (d \in docs <=> d \in docs')
  BY <1>1, <1>4
<1>6. \A d \in docs' : Proper(d, bundles)
  BY <1>4 DEF DocumentsSound
<1>7. Understood(s, docs') \in SUBSET (Nat \X RequiredSet)
  BY <1>2, <1>6, UnderstoodType
<1>8. gate' \in [Sessions -> SUBSET (Nat \X RequiredSet)]
  BY <1>1, <1>2, <1>7 DEF Typed
<1>9. \A t \in Sessions \ rough' : gate'[t] = gate[t]
  <2> SUFFICES ASSUME NEW t \in Sessions \ rough', gate' = [gate EXCEPT ![s] = Understood(s, docs')], t = s
               PROVE  gate'[t] = gate[t]
    BY <1>1, <1>2 DEF Typed
  <2>1. t \notin rough /\ docs' = docs
    BY <1>1
  <2>2. gate[s] = Understood(s, docs)
    BY <1>2, <2>1 DEF Views
  <2>3. QED
    BY <1>2, <2>1, <2>2 DEF Typed
<1>10. ViewsKept
  <2>1. rough \subseteq rough'
    BY <1>1
  <2>2. Views(board', gate', rough', docs')
    BY <1>1, <1>2, <1>5, <1>9, <2>1, RoughViews
  <2>3. QED
    BY <1>1, <1>2, <1>8, <2>2 DEF ViewsKept, Typed
<1>11. QED
  BY <1>1, <1>3, <1>10, WritingStep

LEMMA EndBundleStep ==
    ASSUME IInv, NEW s \in Sessions, LoseWriting(s) \/ FinishBundle(s)
    PROVE  IInv'
<1>1. gen' = [gen EXCEPT ![s] = Idle]
      /\ UNCHANGED <<docs, board, gate, bundles, import, rough, halved, torn>>
  BY DEF LoseWriting, FinishBundle
<1>2. bundles' \in Nat /\ bundles <= bundles' /\ GenSound(s, Idle, docs, bundles')
  BY <1>1, GenIs
<1>3. QED
  BY <1>1, <1>2, GenStep

LEMMA WithdrawBundleStep ==
    ASSUME IInv, NEW s \in Sessions, WithdrawBundle(s)
    PROVE  IInv'
<1> DEFINE L == {d \in Bundle(gen[s].bundle) : d.state # "tombstoned"}
           N == {Tombstone(d) : d \in L}
           R == rough \cup {s}
           E == docs'
           C == board'
<1>1. /\ gen[s].pc = "committed" /\ docs' = With(L, N)
      /\ board' = [board EXCEPT ![s] = Understood(s, E)]
      /\ rough' = R /\ gen' = [gen EXCEPT ![s] = Idle]
      /\ UNCHANGED <<gate, bundles, import, halved, torn>>
  BY DEF WithdrawBundle
<1>2. /\ bundles \in Nat /\ Typed /\ DocumentsSound(docs, bundles, torn, halved)
      /\ Views(board, gate, rough, docs)
      /\ GenSound(s, gen[s], docs, bundles) /\ gen[s] # Idle
  BY <1>1, GenIs DEF IInv
<1>3. L \subseteq docs /\ \A d \in L : d.home = s
  BY <1>1, <1>2 DEF GenSound, Bundle
<1>4. Replaces(N, L)
  <2>1. \A d \in L : Same(Tombstone(d), d)
    BY <1>2, <1>3, TombstoneSame DEF DocumentsSound, Proper
  <2>2. QED
    BY <2>1 DEF Replaces
<1>5. E = With(L, N)
  BY <1>1
<1> HIDE DEF L, N, E
<1>6. /\ DocumentsSound(E, bundles, torn, halved) /\ \A e \in E : Inherited(e, docs)
      /\ \A t : (\A d \in L : d.home # t) => \A d : d.home = t => (d \in docs <=> d \in E)
  BY <1>2, <1>3, <1>4, <1>5, WithSame
<1>7. \A t \in Sessions \ R : \A d : d.home = t => (d \in docs <=> d \in E)
  BY <1>3, <1>6
<1>8. C \in [Sessions -> SUBSET (Nat \X RequiredSet)] /\ \A t \in Sessions \ R : C[t] = board[t]
  <2>1. \A d \in E : Proper(d, bundles)
    BY <1>6 DEF DocumentsSound
  <2>2. Understood(s, E) \in SUBSET (Nat \X RequiredSet)
    BY <1>2, <2>1, UnderstoodType
  <2>3. QED
    BY <1>1, <1>2, <2>2 DEF Typed
<1>9. Views(C, gate, R, E)
  <2>1. rough \subseteq R
    OBVIOUS
  <2> HIDE DEF R, C
  <2>2. QED
    BY <1>2, <1>7, <1>8, <2>1, RoughViews
<1>10. ViewsKept
  BY <1>1, <1>2, <1>8, <1>9 DEF ViewsKept, Typed, E
<1>11. /\ gen' \in [Sessions -> {Idle} \cup Gens] /\ gen'[s] = Idle
       /\ \A t \in Sessions \ {s} : gen'[t] = gen[t]
       /\ import' \in [Sessions -> {Idle} \cup Imports] /\ \A t \in Sessions : import'[t] = import[t]
  BY <1>1, <1>2 DEF Typed
<1>12. /\ GenSound(s, Idle, docs', bundles')
       /\ ImportSound(s, import[s], docs', bundles', torn')
  <2>1. ImportSound(s, import[s], docs, bundles, torn)
    BY DEF IInv
  <2>2. ImportSound(s, import[s], E, bundles, torn)
    BY <1>2, <1>6, <2>1, ImportKept
  <2>3. QED
    BY <1>1, <2>2 DEF GenSound, E
<1>13. DocumentsSound(docs', bundles', torn', halved') /\ \A e \in docs' : Inherited(e, docs)
  BY <1>1, <1>6 DEF E
<1>14. bundles' \in Nat /\ bundles <= bundles' /\ torn \subseteq torn'
  BY <1>1, <1>2
<1>15. QED
  BY <1>10, <1>11, <1>12, <1>13, <1>14, SessionStep

-----------------------------------------------------------------------------
(* Steps of an import.                                                     *)

LEMMA ImportIs ==
    ASSUME IInv, NEW s \in Sessions
    PROVE  /\ bundles \in Nat /\ import \in [Sessions -> {Idle} \cup Imports]
           /\ ImportSound(s, import[s], docs, bundles, torn)
           /\ import[s].pc # "idle" => import[s] # Idle /\ import[s] \in Imports
           /\ ImportSound(s, Idle, docs, bundles, torn)
<1>1. import[s] \in {Idle} \cup Imports
  BY DEF IInv, Typed
<1>2. QED
  BY <1>1 DEF IInv, Typed, ImportSound, Idle

LEMMA ImportStep ==
    ASSUME IInv, NEW s \in Sessions, NEW m \in {Idle} \cup Imports, import' = [import EXCEPT ![s] = m],
           UNCHANGED <<docs, board, gate, gen, rough, halved>>, torn \subseteq torn',
           bundles' \in Nat, bundles <= bundles',
           m # Idle => (import[s] # Idle /\ m.bundle = import[s].bundle) \/ m.bundle = bundles + 1,
           ImportSound(s, m, docs, bundles', torn')
    PROVE  IInv'
<1>1. Typed
  BY DEF IInv
<1>2. /\ import' \in [Sessions -> {Idle} \cup Imports] /\ import'[s] = m
      /\ \A t \in Sessions \ {s} : import'[t] = import[t]
  BY <1>1 DEF Typed
<1>3. /\ DocumentsSound(docs', bundles', torn', halved') /\ ViewsKept
      /\ \A e \in docs' : Inherited(e, docs)
      /\ GenSound(s, gen[s], docs', bundles')
  BY UnchangedDocuments
<1>4. gen' \in [Sessions -> {Idle} \cup Gens] /\ \A t \in Sessions : gen'[t] = gen[t]
  BY <1>1 DEF Typed
<1>5. QED
  BY <1>2, <1>3, <1>4, SessionStep

LEMMA ReadPackageStep ==
    ASSUME IInv, NEW s \in Sessions, ReadPackage(s)
    PROVE  IInv'
<1> DEFINE m == [pc |-> "copying", bundle |-> bundles + 1, left |-> Listed, copies |-> {}]
<1>1. /\ Ready(Listed) /\ import' = [import EXCEPT ![s] = m] /\ bundles' = bundles + 1
      /\ UNCHANGED <<docs, board, gate, gen, rough, halved, torn>>
  BY DEF ReadPackage, NewBundle
<1>2. bundles \in Nat /\ bundles' \in Nat /\ bundles <= bundles' /\ bundles + 1 \in 1 .. bundles'
  BY <1>1, ImportIs
<1>3. Listed \subseteq Documents /\ \A d \in docs : d.bundle # bundles + 1
  BY <1>2 DEF IInv, DocumentsSound, Proper, Listed
<1>4. m \in Imports /\ m.bundle = bundles + 1 /\ m.left = Listed /\ m.copies = {}
  BY <1>2, <1>3 DEF Imports
<1> HIDE DEF m
<1>5. (\A d \in Listed : d.state = "parsed") /\ \A t \in RequiredSet : \E d \in Listed : d.type = t
  BY <1>1 DEF Ready
<1>6. ImportSound(s, m, docs, bundles', torn')
  BY <1>2, <1>3, <1>4, <1>5 DEF ImportSound
<1>7. QED
  BY <1>1, <1>2, <1>4, <1>6, ImportStep

LEMMA CopyDocumentStep ==
    ASSUME IInv, NEW s \in Sessions, CopyDocument(s)
    PROVE  IInv'
<1> DEFINE old == import[s]
<1>1. /\ old.pc = "copying"
      /\ UNCHANGED <<docs, board, gate, bundles, gen, rough, halved>>
  BY DEF CopyDocument
<1>2. PICK d \in old.left :
        /\ import' = [import EXCEPT ![s].left = @ \ {d}, ![s].copies = @ \cup {Copied(s, d)}]
        /\ torn' = IF Copied(s, d).whole THEN torn ELSE torn \cup {old.bundle}
  BY DEF CopyDocument
<1> DEFINE c == Copied(s, d)
           w == \E e \in docs : IdOf(e) = IdOf(d) /\ e.whole
           m == [old EXCEPT !.left = @ \ {d}, !.copies = @ \cup {c}]
<1>3. /\ bundles \in Nat /\ import \in [Sessions -> {Idle} \cup Imports]
      /\ ImportSound(s, old, docs, bundles, torn) /\ old # Idle /\ old \in Imports
  BY <1>1, ImportIs
<1>4. import' = [import EXCEPT ![s] = m]
  BY <1>2, <1>3
<1>5. /\ old.bundle \in 1 .. bundles /\ d \in Documents /\ d.state = "parsed"
      /\ old.bundle \in Nat
  BY <1>3 DEF ImportSound, Imports
<1>6. c = [d EXCEPT !.home = s, !.bundle = old.bundle, !.kind = "import", !.imported = TRUE, !.whole = w]
  BY DEF Copied
<1>7. w \in BOOLEAN
  OBVIOUS
<1> HIDE DEF w
<1>8. /\ c \in Documents /\ c.home = s /\ c.bundle = old.bundle /\ c.kind = "import" /\ c.imported
      /\ c.state = "parsed" /\ c.type = d.type
  BY <1>5, <1>6, <1>7 DEF Documents, Kinds
<1> HIDE DEF c
<1>9. /\ m \in Imports /\ m.bundle = old.bundle /\ m.left = old.left \ {d}
      /\ m.copies = old.copies \cup {c}
  <2>1. old.left \ {d} \in SUBSET Documents /\ old.copies \cup {c} \in SUBSET Documents
    BY <1>3, <1>8 DEF Imports
  <2>2. QED
    BY <1>3, <2>1 DEF Imports
<1> HIDE DEF m
<1>10. torn \subseteq torn' /\ (m.bundle \notin torn' => c.whole)
  BY <1>2, <1>9 DEF c
<1>11. ASSUME NEW e \in m.copies
       PROVE  /\ e.home = s /\ e.bundle = m.bundle /\ e.kind = "import" /\ e.imported
              /\ e.state = "parsed" /\ (m.bundle \notin torn' => e.whole)
  BY <1>3, <1>8, <1>9, <1>10 DEF ImportSound
<1>12. ASSUME NEW t \in RequiredSet PROVE \E e \in m.left \cup m.copies : e.type = t
  <2>1. PICK e \in old.left \cup old.copies : e.type = t
    BY <1>3 DEF ImportSound
  <2>2. CASE e = d
    BY <1>8, <1>9, <2>1, <2>2
  <2>3. CASE e # d
    BY <1>9, <2>1, <2>3
  <2>4. QED
    BY <2>2, <2>3
<1>13. ImportSound(s, m, docs, bundles, torn')
  <2>1. (\A e \in docs : e.bundle # m.bundle) /\ \A e \in m.left : e.state = "parsed"
    BY <1>3, <1>9 DEF ImportSound
  <2>2. QED
    BY <1>5, <1>9, <1>11, <1>12, <2>1 DEF ImportSound
<1>14. bundles' \in Nat /\ bundles <= bundles' /\ ImportSound(s, m, docs, bundles', torn')
  BY <1>1, <1>3, <1>13
<1>15. import[s] # Idle /\ m.bundle = import[s].bundle
  BY <1>3, <1>9
<1>16. QED
  BY <1>1, <1>4, <1>9, <1>10, <1>14, <1>15, ImportStep

LEMMA LoseImportStep ==
    ASSUME IInv, NEW s \in Sessions, LoseImport(s)
    PROVE  IInv'
<1>1. import' = [import EXCEPT ![s] = Idle]
      /\ UNCHANGED <<docs, board, gate, bundles, gen, rough, halved, torn>>
  BY DEF LoseImport
<1>2. bundles' \in Nat /\ bundles <= bundles' /\ torn \subseteq torn' /\ ImportSound(s, Idle, docs, bundles', torn')
  BY <1>1, ImportIs
<1>3. QED
  BY <1>1, <1>2, ImportStep

LEMMA CommitImportStep ==
    ASSUME IInv, NEW s \in Sessions, CommitImport(s)
    PROVE  IInv'
<1> DEFINE m == import[s]
           b == m.bundle
           N == m.copies
<1>1. /\ m.pc = "copying" /\ m.left = {} /\ docs' = docs \cup N /\ Rebuilt({s})
      /\ import' = [import EXCEPT ![s] = Idle] /\ UNCHANGED <<bundles, gen, halved, torn>>
  BY DEF CommitImport
<1>2. /\ bundles \in Nat /\ import \in [Sessions -> {Idle} \cup Imports]
      /\ ImportSound(s, m, docs, bundles, torn) /\ m # Idle /\ m \in Imports
      /\ Typed /\ DocumentsSound(docs, bundles, torn, halved) /\ Views(board, gate, rough, docs)
      /\ NumbersDiffer(gen, import)
  BY <1>1, ImportIs DEF IInv
<1>3. b \in 1 .. bundles /\ (\A d \in docs : d.bundle # b) /\ N \subseteq Documents
  BY <1>2 DEF ImportSound, Imports
<1>4. ASSUME NEW d \in N
      PROVE  /\ Proper(d, bundles) /\ d.bundle = b /\ d.home = s /\ d.kind = "import"
             /\ d.state # "waiting" /\ (b \notin torn => d.whole)
  <2>1. /\ d.home = s /\ d.bundle = b /\ d.kind = "import" /\ d.imported
        /\ d.state = "parsed" /\ (b \notin torn => d.whole)
    BY <1>2 DEF ImportSound
  <2>2. QED
    BY <1>3, <2>1 DEF Proper, Generated
<1>5. \A t \in RequiredSet : \E d \in N : d.type = t
  BY <1>1, <1>2 DEF ImportSound
<1> HIDE DEF N, b
<1>6. DocumentsSound(docs', bundles', torn', halved')
  <2>1. DocumentsSound(docs \cup N, bundles, torn, halved)
    BY <1>2, <1>3, <1>4, <1>5, AddedSound, ZenonT(30)
  <2>2. QED
    BY <1>1, <2>1
<1>7. \A t \in Sessions \ {s} : \A d : d.home = t => (d \in docs <=> d \in docs')
  BY <1>1, <1>4
<1>8. ViewsKept
  <2>1. \A d \in docs' : Proper(d, bundles)
    BY <1>1, <1>6 DEF DocumentsSound
  <2>2. QED
    BY <1>1, <1>2, <1>7, <2>1, RebuiltViews DEF ViewsKept
<1>9. \A e \in docs' : Inherited(e, docs) \/ e.bundle = import[s].bundle
  BY <1>1, <1>4 DEF Inherited, b
<1>10. /\ import' \in [Sessions -> {Idle} \cup Imports] /\ import'[s] = Idle
       /\ \A t \in Sessions \ {s} : import'[t] = import[t]
       /\ gen' \in [Sessions -> {Idle} \cup Gens] /\ \A t \in Sessions : gen'[t] = gen[t]
  BY <1>1, <1>2 DEF Typed
<1>11. GenSound(s, gen[s], docs', bundles')
  <2>1. GenSound(s, gen[s], docs, bundles)
    BY DEF IInv
  <2>2. gen[s] # Idle => \A e \in docs' : e.bundle # gen[s].bundle \/ Inherited(e, docs)
    BY <1>2, <1>9 DEF NumbersDiffer
  <2>3. QED
    BY <1>1, <1>2, <2>1, <2>2, GenKept
<1>12. ImportSound(s, Idle, docs', bundles', torn')
  BY DEF ImportSound
<1>13. bundles' \in Nat /\ bundles <= bundles' /\ torn \subseteq torn'
  BY <1>1, <1>2
<1>14. \A e \in docs' : Inherited(e, docs) \/ (import[s] # Idle /\ e.bundle = import[s].bundle)
  BY <1>2, <1>9
<1>15. QED
  BY <1>6, <1>8, <1>10, <1>11, <1>12, <1>13, <1>14, SessionStep

-----------------------------------------------------------------------------
(* The invariant holds.                                                    *)

LEMMA Initial == Init => IInv
<1> SUFFICES ASSUME Init PROVE IInv
  OBVIOUS
<1>1. /\ docs = {} /\ bundles = 0
      /\ board = [s \in Sessions |-> {}] /\ gate = [s \in Sessions |-> {}]
      /\ gen = [s \in Sessions |-> Idle] /\ import = [s \in Sessions |-> Idle]
  BY DEF Init
<1>2. Typed
  BY <1>1 DEF Typed
<1>3. DocumentsSound(docs, bundles, torn, halved)
  BY <1>1 DEF DocumentsSound
<1>4. Views(board, gate, rough, docs)
  BY <1>1 DEF Views, Understood
<1>5. \A s \in Sessions : GenSound(s, gen[s], docs, bundles)
  BY <1>1 DEF GenSound
<1>6. \A s \in Sessions : ImportSound(s, import[s], docs, bundles, torn)
  BY <1>1 DEF ImportSound
<1>7. NumbersDiffer(gen, import)
  BY <1>1 DEF NumbersDiffer
<1>8. QED
  BY <1>2, <1>3, <1>4, <1>5, <1>6, <1>7 DEF IInv

LEMMA Inductive == IInv /\ [Next]_vars => IInv'
<1> SUFFICES ASSUME IInv, [Next]_vars PROVE IInv'
  OBVIOUS
<1>1. CASE \E s \in Sessions : Upload(s) \/ StartValidation(s)
  BY <1>1, UploadSteps
<1>2. CASE \E s \in Sessions, kind \in {"debug", "practice"} : StartBundle(s, kind)
  BY <1>2, StartBundleStep DEF Generated
<1>3. CASE \E s \in Sessions, outcome \in Outcomes : CallModel(s, outcome)
  BY <1>3, CallModelStep
<1>4. CASE \E s \in Sessions :
             \/ WriteDocument(s) \/ CommitBundle(s) \/ FailWriting(s) \/ LoseWriting(s)
             \/ FinishBundle(s) \/ WithdrawBundle(s)
  BY <1>4, WriteDocumentStep, CommitBundleStep, FailWritingStep, EndBundleStep, WithdrawBundleStep
<1>5. CASE \E s \in Sessions, sound \in BOOLEAN : FinishValidation(s, sound)
  BY <1>5, FinishValidationStep
<1>6. CASE \E s \in Sessions, replace, force \in BOOLEAN : Publish(s, replace, force)
  BY <1>6, PublishStep
<1>7. CASE \E s \in Sessions : ReadPackage(s) \/ CopyDocument(s) \/ CommitImport(s) \/ LoseImport(s)
  BY <1>7, ReadPackageStep, CopyDocumentStep, CommitImportStep, LoseImportStep
<1>8. CASE \/ \E d \in docs : Understand(d) \/ RemoveDocument(d)
           \/ \E S \in SUBSET Sessions : ClearKey(S)
  BY <1>8, RewriteSteps
<1>9. CASE \E D \in ArchivesToClean : CleanUpArchives(D)
  BY <1>9, CleanUpStep
<1>10. CASE UNCHANGED vars
  BY <1>10 DEF vars, IInv, Typed
<1>11. QED
  BY <1>1, <1>2, <1>3, <1>4, <1>5, <1>6, <1>7, <1>8, <1>9, <1>10 DEF Next

-----------------------------------------------------------------------------
(* Theorems.                                                               *)

\* A bundle has one kind and one home, nothing of it is in its session before all
\* that was asked for is written, and a package being imported has every type in
\* what is copied and what is left.
THEOREM PackagesInvariant == Spec => []IInv
<1>1. QED
  BY Initial, Inductive, PTL DEF Spec

\* Snapshots and gates rest on what is understood and not removed, after every
\* change that ends in a rebuild, in whatever order changes come.
THEOREM ViewsAreLive == Spec => []ViewsFollowDocuments
<1>1. IInv => ViewsFollowDocuments
  BY LiveIsUnderstood DEF IInv, Views, ViewsFollowDocuments
<1>2. QED
  BY <1>1, PackagesInvariant, PTL

\* The types of a bundle of which no required one is missing.
LEMMA TypesOfBundle ==
    ASSUME IInv, NEW b, \A t \in RequiredSet : \E e \in docs : e.bundle = b /\ e.type = t
    PROVE  RequiredSet = {e.type : e \in Bundle(b)}
<1>1. \A e \in docs : e.type \in RequiredSet
  BY DEF IInv, DocumentsSound, Proper, Documents
<1>2. QED
  BY <1>1 DEF Bundle

\* An import is whole, and stays where it is.
THEOREM EveryImportIsWhole == Spec => []ImportsAreWhole
<1>1. IInv => ImportsAreWhole
  <2> SUFFICES ASSUME IInv, NEW d \in docs, d.kind = "import"
               PROVE  /\ RequiredSet = {e.type : e \in Bundle(d.bundle)}
                      /\ \A e \in Bundle(d.bundle) :
                           e.home = d.home /\ e.kind = "import" /\ e.state # "waiting"
                      /\ d.bundle \notin torn => \A e \in Bundle(d.bundle) : e.whole
    BY DEF ImportsAreWhole
  <2>1. DocumentsSound(docs, bundles, torn, halved)
    BY DEF IInv
  <2>2. \A t \in RequiredSet : \E e \in docs : e.bundle = d.bundle /\ e.type = t
    BY <2>1 DEF DocumentsSound
  <2>3. ASSUME NEW e \in Bundle(d.bundle)
        PROVE  /\ e.home = d.home /\ e.kind = "import" /\ e.state # "waiting"
               /\ d.bundle \notin torn => e.whole
    <3>1. e \in docs /\ e.bundle = d.bundle
      BY DEF Bundle
    <3>2. e.kind = d.kind /\ e.home = d.home
      BY <2>1, <3>1 DEF DocumentsSound
    <3>3. QED
      BY <2>1, <3>1, <3>2 DEF DocumentsSound
  <2>4. QED
    BY <2>2, <2>3, TypesOfBundle
<1>2. QED
  BY <1>1, PackagesInvariant, PTL

\* A generated bundle is whole, unless its making failed between two documents.
THEOREM EveryBundleIsWhole == Spec => []BundlesAreWhole
<1>1. IInv => BundlesAreWhole
  <2> SUFFICES ASSUME IInv, NEW d \in docs, d.kind \in Generated, d.bundle \notin halved
               PROVE  RequiredSet = {e.type : e \in Bundle(d.bundle)}
    BY DEF BundlesAreWhole, Generated
  <2>1. \A t \in RequiredSet : \E e \in docs : e.bundle = d.bundle /\ e.type = t
    BY DEF IInv, DocumentsSound
  <2>2. QED
    BY <2>1, TypesOfBundle
<1>2. QED
  BY <1>1, PackagesInvariant, PTL

=============================================================================

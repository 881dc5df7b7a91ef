------------------------ MODULE SessionTurnsProofs --------------------------
(***************************************************************************)
(* Theorems about SessionTurns, for every set of requests, refreshers and  *)
(* generators and every value of the other constants: who may reopen a     *)
(* session and why a message has one answer, with row locks or without;    *)
(* and what the lock of the session row gives (PostgreSQL): one open       *)
(* message at a time, the right answer for every repeated message, and a   *)
(* session that messages alone never block.                                *)
(***************************************************************************)
EXTENDS SessionTurns, SequenceTheorems, TLAPS

-----------------------------------------------------------------------------
(* Types, copies and authors.                                              *)

PCsOf(a) == IF a \in Requests THEN RequestPCs
            ELSE IF a \in Generators THEN GeneratorPCs ELSE {"idle", "refreshing"}

\* Where an actor works from a copy of the row.
Loaded == {"arrived", "checked", "asking", "refreshing", "generating", "writing", "closing"}

\* Everybody is somewhere in its own code, with a copy whenever that code reads
\* one; a refresh has loaded a session that was not closed; only requests answer.
Shape ==
    /\ \A a \in Actors : pc[a] \in PCsOf(a)
    /\ \A a \in Actors : pc[a] \in Loaded => view[a] \in Rows
    /\ \A a \in Actors : pc[a] = "refreshing" => view[a].phase = "interview"
    /\ \A i \in DOMAIN turns : turns[i].role = "assistant" => turns[i].by \in Requests

IInv == TypeOK /\ Shape

\* The three things that ever happen to the list of turns.
LEMMA AppendedTurn ==
    ASSUME NEW s \in Seq(Turns), NEW t \in Turns
    PROVE  /\ Append(s, t) \in Seq(Turns)
           /\ DOMAIN s = 1 .. Len(s) /\ Len(s) \in Nat
           /\ DOMAIN Append(s, t) = 1 .. (Len(s) + 1)
           /\ Len(Append(s, t)) = Len(s) + 1
           /\ Append(s, t) # <<>>
           /\ \A i \in DOMAIN s : Append(s, t)[i] = s[i]
           /\ Append(s, t)[Len(s) + 1] = t
  BY AppendProperties, LenProperties

\* A cleanup drops the last turn.
LEMMA DroppedTurn ==
    ASSUME NEW s \in Seq(Turns), s # <<>>
    PROVE  LET r == SubSeq(s, 1, Len(s) - 1) IN
           /\ r \in Seq(Turns)
           /\ Len(s) \in Nat \ {0} /\ Len(r) = Len(s) - 1
           /\ DOMAIN s = 1 .. Len(s) /\ DOMAIN r = 1 .. (Len(s) - 1)
           /\ \A i \in DOMAIN r : r[i] = s[i]
<1>1. Len(s) \in Nat \ {0} /\ DOMAIN s = 1 .. Len(s)
  BY EmptySeq, LenProperties
<1>2. \A i \in 1 .. (Len(s) - 1) : s[i] \in Turns
  BY <1>1, ElementOfSeq
<1>3. /\ SubSeq(s, 1, Len(s) - 1) \in Seq(Turns)
      /\ Len(SubSeq(s, 1, Len(s) - 1)) = Len(s) - 1
      /\ \A i \in 1 .. (Len(s) - 1) : SubSeq(s, 1, Len(s) - 1)[i] = s[i]
  BY <1>1, <1>2, SubSeqProperties
<1>4. DOMAIN SubSeq(s, 1, Len(s) - 1) = 1 .. (Len(s) - 1)
  BY <1>1, <1>3, LenProperties
<1>5. QED
  BY <1>1, <1>3, <1>4

\* The values the row takes.
LEMMA StateTypes ==
    ASSUME NEW s \in States
    PROVE  /\ \A r \in Requests \cup {None} : [s EXCEPT !.marker = r] \in States
           /\ \A g \in Generators \cup {None} : [s EXCEPT !.lock = g] \in States
           /\ s.starts < SessionLimit =>
                 \A g \in Generators : [s EXCEPT !.lock = g, !.starts = @ + 1] \in States
<1>1. \A r \in Requests \cup {None} : [s EXCEPT !.marker = r] \in States
  BY DEF States
<1>2. \A g \in Generators \cup {None} : [s EXCEPT !.lock = g] \in States
  BY DEF States
<1>3. ASSUME s.starts < SessionLimit, NEW g \in Generators
      PROVE  [s EXCEPT !.lock = g, !.starts = @ + 1] \in States
  <2>1. s.starts + 1 \in 0 .. SessionLimit
    BY <1>3, TurnBounds DEF States
  <2>2. QED
    BY <2>1 DEF States
<1>4. QED
  BY <1>1, <1>2, <1>3

\* The parts of a row, and a row with another state.
LEMMA RowTypes ==
    ASSUME NEW r \in Rows
    PROVE  /\ r.state \in States /\ r.decision \in Decisions
           /\ r.phase \in {"interview", "session_closed"}
           /\ \A s \in States : [r EXCEPT !.state = s] \in Rows
  BY DEF Rows

\* A decision applied to a copy gives a row.
LEMMA DecidedTypes ==
    ASSUME row \in Rows, NEW loaded \in Rows, NEW dec \in Decisions
    PROVE  Decided(loaded, dec) \in Rows
<1>1. [status |-> dec, marker |-> None, lock |-> None, starts |-> 0] \in States
  BY TurnBounds DEF States
<1>2. /\ Column(loaded.phase, PhaseFor(dec), row.phase) \in {"interview", "session_closed"}
      /\ Column(loaded.decision, dec, row.decision) \in Decisions
  BY RowTypes DEF Column, PhaseFor
<1>3. QED
  BY <1>1, <1>2 DEF Decided, Rows

\* A material refresh never decides to refuse.
LEMMA RefreshTypes ==
    ASSUME NEW loaded
    PROVE  RefreshDecisions(loaded) \subseteq Decisions \ {"simulated_refusal"}
  BY DEF RefreshDecisions, Decisions

\* Turns are about actors, and the kinds of actors are disjoint.
LEMMA TurnTypes ==
    ASSUME TypeOK, NEW i \in DOMAIN turns
    PROVE  turns[i] \in Turns /\ turns[i].role \in {"user", "assistant"}
           /\ turns[i].by \in Requests \cup Generators
<1>1. turns \in Seq(Turns) /\ DOMAIN turns = 1 .. Len(turns)
  BY LenProperties DEF TypeOK
<1>2. turns[i] \in Turns
  BY <1>1, ElementOfSeq
<1>3. QED
  BY <1>2 DEF Turns

-----------------------------------------------------------------------------
(* Moving on.                                                              *)

\* What a step establishes that only moves one actor.
LEMMA Moves ==
    ASSUME IInv, NEW a \in Actors, NEW p \in PCsOf(a), NEW copy \in Rows \cup {None},
           Goto(a, p, copy),
           p \in Loaded => copy \in Rows,
           p = "refreshing" => copy.phase = "interview"
    PROVE  /\ pc' \in [Actors -> RequestPCs \cup GeneratorPCs]
           /\ view' \in [Actors -> Rows \cup {None}]
           /\ \A b \in Actors : pc'[b] \in PCsOf(b)
           /\ \A b \in Actors : pc'[b] \in Loaded => view'[b] \in Rows
           /\ \A b \in Actors : pc'[b] = "refreshing" => view'[b].phase = "interview"
<1>1. pc \in [Actors -> RequestPCs \cup GeneratorPCs] /\ view \in [Actors -> Rows \cup {None}]
  BY DEF IInv, TypeOK
<1>2. PCsOf(a) \subseteq RequestPCs \cup GeneratorPCs
  BY DEF PCsOf, RequestPCs, GeneratorPCs
<1>3. pc'[a] = p /\ view'[a] = copy
      /\ \A b \in Actors \ {a} : pc'[b] = pc[b] /\ view'[b] = view[b]
  BY <1>1 DEF Goto
<1>4. pc' \in [Actors -> RequestPCs \cup GeneratorPCs] /\ view' \in [Actors -> Rows \cup {None}]
  BY <1>1, <1>2 DEF Goto
<1>5. QED
  BY <1>3, <1>4 DEF IInv, Shape

\* A step that moves an actor and leaves the list of turns typed keeps IInv.
LEMMA Kept ==
    ASSUME IInv, NEW a \in Actors, NEW p \in PCsOf(a), NEW copy \in Rows \cup {None},
           Goto(a, p, copy),
           p \in Loaded => copy \in Rows,
           p = "refreshing" => copy.phase = "interview",
           row' \in Rows, UNCHANGED expired, crashes' \in 0 .. MaxCrashes,
           \/ UNCHANGED turns
           \/ \E r \in Requests \cup Generators : turns' = Append(turns, [role |-> "user", by |-> r])
           \/ \E r \in Requests : turns' = Append(turns, [role |-> "assistant", by |-> r])
           \/ turns # <<>> /\ turns' = SubSeq(turns, 1, Len(turns) - 1),
           attempts' \in [Requests -> 0 .. MaxAttempts],
           reply' \in [Requests -> Requests \cup {None, "rejected", "failed"}]
    PROVE  IInv'
<1>1. turns \in Seq(Turns)
  BY DEF IInv, TypeOK
<1>2. turns' \in Seq(Turns)
      /\ \A i \in DOMAIN turns' : turns'[i].role = "assistant" => turns'[i].by \in Requests
  <2>1. CASE UNCHANGED turns
    BY <1>1, <2>1 DEF IInv, Shape
  <2>2. CASE \E r \in Requests \cup Generators : turns' = Append(turns, [role |-> "user", by |-> r])
    <3> PICK r \in Requests \cup Generators : turns' = Append(turns, [role |-> "user", by |-> r])
      BY <2>2
    <3>1. [role |-> "user", by |-> r] \in Turns
      BY DEF Turns
    <3>2. QED
      BY <1>1, <3>1, AppendedTurn DEF IInv, Shape
  <2>3. CASE \E r \in Requests : turns' = Append(turns, [role |-> "assistant", by |-> r])
    <3> PICK r \in Requests : turns' = Append(turns, [role |-> "assistant", by |-> r])
      BY <2>3
    <3>1. [role |-> "assistant", by |-> r] \in Turns
      BY DEF Turns
    <3>2. QED
      BY <1>1, <3>1, AppendedTurn DEF IInv, Shape
  <2>4. CASE turns # <<>> /\ turns' = SubSeq(turns, 1, Len(turns) - 1)
    BY <1>1, <2>4, DroppedTurn DEF IInv, Shape
  <2>5. QED
    BY <2>1, <2>2, <2>3, <2>4
<1>3. TypeOK'
  BY <1>2, Moves DEF IInv, TypeOK
<1>4. Shape'
  BY <1>2, Moves DEF Shape
<1>5. QED
  BY <1>3, <1>4 DEF IInv

\* The copies that code points load are typed, and what is not closed is open.
LEMMA Copies ==
    ASSUME IInv
    PROVE  /\ row \in Rows /\ view \in [Actors -> Rows \cup {None}]
           /\ ~Terminal(row) => row.phase = "interview"
           /\ \A a \in Actors : pc[a] \in Loaded => view[a] \in Rows
           /\ crashes \in 0 .. MaxCrashes
           /\ attempts \in [Requests -> 0 .. MaxAttempts]
           /\ reply \in [Requests -> Requests \cup {None, "rejected", "failed"}]
  BY DEF IInv, TypeOK, Shape, Terminal, Rows

\* What the client can get.
LEMMA Replies ==
    ASSUME IInv, NEW r \in Requests,
           NEW what \in Requests \cup {"rejected", "failed"}, End(r, what)
    PROVE  /\ reply' \in [Requests -> Requests \cup {None, "rejected", "failed"}]
           /\ Goto(r, "done", None) /\ "done" \in PCsOf(r)
  BY DEF IInv, TypeOK, End, PCsOf, RequestPCs

\* A replay answers with a request's answer or with 409.
LEMMA ReplayReplies ==
    ASSUME IInv, NEW r \in Requests, Replay(r)
    PROVE  \E what \in Requests \cup {"rejected", "failed"} : End(r, what)
<1>1. PICK i \in Earlier(r) :
         End(r, IF AnswerTo(i) = None THEN "rejected" ELSE AnswerTo(i))
  BY DEF Replay
<1>2. AnswerTo(i) # None => AnswerTo(i) \in Requests
  BY DEF AnswerTo, IInv, Shape
<1>3. QED
  BY <1>1, <1>2

\* A request that ends without writing a row.
LEMMA EndInv ==
    ASSUME IInv, NEW r \in Requests, NEW what \in Requests \cup {"rejected", "failed"},
           End(r, what), UNCHANGED <<row, turns, attempts, expired, crashes>>
    PROVE  IInv'
<1>1. "done" \notin Loaded
  BY DEF Loaded
<1>2. QED
  BY <1>1, Copies, Replies, Kept DEF Actors

\* The steps of a request that write no row.
LEMMA ReadingRequestInv ==
    ASSUME IInv, NEW r \in Requests,
           \/ Arrive(r) \/ ReplayFound(r) \/ RejectBusy(r) \/ Check(r)
           \/ AdmitDuplicate(r) \/ AdmitFails(r) \/ Ask(r) \/ Retry(r)
    PROVE  IInv'
<1>0. r \in Actors /\ {"arrived", "checked", "asking"} \subseteq PCsOf(r)
  BY DEF Actors, PCsOf, RequestPCs
<1>1. CASE Arrive(r)
  <2>1. CASE Terminal(row)
    BY <1>1, <2>1, EndInv DEF Arrive
  <2>2. CASE ~Terminal(row)
    BY <1>0, <1>1, <2>2, Copies, Kept DEF Arrive
  <2>3. QED
    BY <2>1, <2>2
<1>2. CASE ReplayFound(r) \/ AdmitDuplicate(r)
  <2>1. Replay(r)
    BY <1>2 DEF ReplayFound, AdmitDuplicate
  <2>2. QED
    BY <2>1, ReplayReplies, EndInv DEF Replay
<1>3. CASE RejectBusy(r)
  BY <1>3, EndInv DEF RejectBusy
<1>4. CASE Check(r)
  <2>1. pc[r] \in Loaded
    BY <1>4 DEF Check, Loaded
  <2>2. QED
    BY <1>0, <1>4, <2>1, Copies, Kept DEF Check
<1>5. CASE AdmitFails(r)
  BY <1>5, EndInv DEF AdmitFails
<1>6. CASE Ask(r) \/ Retry(r)
  <2>1. attempts' \in [Requests -> 0 .. MaxAttempts]
    <3>1. 1 \in 0 .. MaxAttempts /\ (attempts[r] < MaxAttempts => attempts[r] + 1 \in 0 .. MaxAttempts)
      BY Copies, TurnBounds
    <3>2. QED
      BY <1>6, <3>1, Copies DEF Ask, Retry
  <2>2. QED
    BY <1>0, <1>6, <2>1, Copies, Kept DEF Ask, Retry
<1>7. QED
  BY <1>1, <1>2, <1>3, <1>4, <1>5, <1>6

\* The commit of a user turn and its marker.
LEMMA AdmitInv == ASSUME IInv, NEW r \in Requests, Admit(r) PROVE IInv'
<1>1. r \in Actors /\ "admitted" \in PCsOf(r) /\ "admitted" \notin Loaded /\ pc[r] \in Loaded
  BY DEF Actors, PCsOf, RequestPCs, Loaded, Admit
<1>2. row' \in Rows
  <2>1. [view[r].state EXCEPT !.marker = r] \in States
    BY <1>1, Copies, RowTypes, StateTypes
  <2>2. QED
    BY <2>1, Copies, RowTypes DEF Admit
<1>3. QED
  BY <1>1, <1>2, Copies, Kept DEF Admit

\* The commit of an answer.
LEMMA AnswerInv ==
    ASSUME IInv, NEW r \in Requests, NEW dec \in Answers, Answer(r, dec)
    PROVE  IInv'
<1>1. r \in Actors /\ "done" \notin Loaded /\ pc[r] \in Loaded
  BY DEF Actors, Loaded, Answer
<1>2. row' \in Rows
  BY <1>1, Copies, DecidedTypes, AnswersAreDecisions DEF Answer
<1>3. QED
  BY <1>1, <1>2, Copies, Replies, Kept DEF Answer

\* The cleanup of a failed message.
LEMMA FailInv == ASSUME IInv, NEW r \in Requests, Fail(r) PROVE IInv'
<1>1. r \in Actors /\ "done" \notin Loaded
  BY DEF Actors, Loaded
<1>2. row' \in Rows
  BY Copies, RowTypes, StateTypes DEF Fail, Unmarked
<1>3. \/ UNCHANGED turns
      \/ turns # <<>> /\ turns' = SubSeq(turns, 1, Len(turns) - 1)
  BY DEF Fail, LastTurnIsOf
<1>4. QED
  BY <1>1, <1>2, <1>3, Copies, Replies, Kept DEF Fail

-----------------------------------------------------------------------------
\* A refresh, by a worker or by a generator.
LEMMA RefreshInv ==
    ASSUME IInv, NEW a \in Refreshers \cup Generators, RefreshStep(a)
    PROVE  IInv'
<1>0. /\ a \in Actors /\ AfterRefresh(a) \in PCsOf(a) /\ "refreshing" \in PCsOf(a)
      /\ AfterRefresh(a) \notin Loaded /\ AfterRefresh(a) # "refreshing"
  BY ActorsDisjoint DEF Actors, PCsOf, AfterRefresh, GeneratorPCs, Loaded
<1>1. CASE LoadRefresh(a)
  <2>1. CASE Terminal(row)
    BY <1>0, <1>1, <2>1, Copies, Kept DEF LoadRefresh
  <2>2. CASE ~Terminal(row)
    BY <1>0, <1>1, <2>2, Copies, Kept DEF LoadRefresh
  <2>3. QED
    BY <2>1, <2>2
<1>2. CASE SaveRefresh(a)
  <2>1. pc[a] \in Loaded
    BY <1>2 DEF SaveRefresh, Loaded
  <2>2. row' \in Rows
    BY <1>0, <1>2, <2>1, Copies, RefreshTypes, DecidedTypes DEF SaveRefresh
  <2>3. QED
    BY <1>0, <1>2, <2>2, Copies, Kept DEF SaveRefresh
<1>3. CASE FailRefresh(a)
  BY <1>0, <1>3, Copies, Kept DEF FailRefresh
<1>4. QED
  BY <1>1, <1>2, <1>3 DEF RefreshStep

\* Synthetic turns are user turns of the generator, if there are any.
LEMMA GeneratorTurns ==
    ASSUME NEW g \in Generators, turns' \in SyntheticTurns(g)
    PROVE  \/ UNCHANGED turns
           \/ \E r \in Requests \cup Generators : turns' = Append(turns, [role |-> "user", by |-> r])
  BY DEF SyntheticTurns

\* The steps of create_bundle_events and its guard.
LEMMA GeneratorInv ==
    ASSUME IInv, NEW g \in Generators, GeneratorStep(g)
    PROVE  IInv'
<1>0. /\ g \in Actors
      /\ {"acquired", "generating", "writing", "committed", "closing", "failing", "done"}
            \subseteq PCsOf(g)
      /\ {"acquired", "committed", "failing", "done"} \cap Loaded = {}
  BY ActorsDisjoint DEF Actors, PCsOf, GeneratorPCs, Loaded
<1>1. CASE Acquire(g)
  <2>1. row' \in Rows
    <3>1. [row.state EXCEPT !.lock = g, !.starts = @ + 1] \in States
      BY <1>1, Copies, RowTypes, StateTypes DEF Acquire
    <3>2. row' = [row EXCEPT !.state = [row.state EXCEPT !.lock = g, !.starts = @ + 1]]
      BY <1>1, Copies DEF Acquire, Rows, States
    <3>3. QED
      BY <3>1, <3>2, Copies, RowTypes
  <2>2. QED
    BY <1>0, <1>1, <2>1, Copies, Kept DEF Acquire
<1>2. CASE RefuseGeneration(g)
  BY <1>0, <1>2, Copies, Kept DEF RefuseGeneration
<1>3. CASE Generate(g)
  BY <1>0, <1>3, Copies, Kept DEF Generate
<1>4. CASE SetBundleId(g)
  <2>1. view[g] \in Rows
    BY <1>0, <1>4, Copies DEF SetBundleId, Loaded
  <2>2. row' \in Rows
    BY <1>4, <2>1, Copies, RowTypes DEF SetBundleId
  <2>3. QED
    BY <1>0, <1>4, <2>1, <2>2, Copies, Kept DEF SetBundleId
<1>5. CASE WriteBundle(g)
  BY <1>0, <1>5, GeneratorTurns, Copies, Kept DEF WriteBundle
<1>6. CASE ReloadRow(g)
  BY <1>0, <1>6, Copies, Kept DEF ReloadRow
<1>7. CASE Complete(g)
  <2>1. view[g] \in Rows
    BY <1>0, <1>7, Copies DEF Complete, Loaded
  <2>2. row' \in Rows
    BY <1>7, <2>1, Copies, RowTypes, StateTypes DEF Complete
  <2>3. QED
    BY <1>0, <1>7, <2>2, Copies, Kept DEF Complete
<1>8. CASE FailGeneration(g)
  <2>1. pc[g] \in {"generating", "writing"} => view[g] \in Rows
    BY <1>0, Copies DEF Loaded
  <2>2. row' \in Rows
    BY <1>8, <2>1, Copies, RowTypes, StateTypes DEF FailGeneration
  <2>3. \/ UNCHANGED turns
        \/ \E r \in Requests \cup Generators : turns' = Append(turns, [role |-> "user", by |-> r])
    BY <1>8, GeneratorTurns DEF FailGeneration
  <2>4. QED
    BY <1>0, <1>8, <2>2, <2>3, Copies, Kept DEF FailGeneration
<1>9. CASE FailAgain(g)
  <2>1. row' \in Rows
    <3>1. [row EXCEPT !.state.lock = None] = [row EXCEPT !.state = [row.state EXCEPT !.lock = None]]
      BY Copies DEF Rows, States
    <3>2. QED
      BY <1>9, <3>1, Copies, RowTypes, StateTypes DEF FailAgain
  <2>2. QED
    BY <1>0, <1>9, <2>1, Copies, Kept DEF FailAgain
<1>10. QED
  BY <1>1, <1>2, <1>3, <1>4, <1>5, <1>6, <1>7, <1>8, <1>9 DEF GeneratorStep

\* A clean-up that fails leaves turn and marker.
LEMMA CleanupFailsInv == ASSUME IInv, NEW r \in Requests, CleanupFails(r) PROVE IInv'
<1>1. r \in Actors /\ "done" \notin Loaded
  BY DEF Actors, Loaded
<1>2. crashes' \in 0 .. MaxCrashes
  BY Copies, TurnBounds DEF CleanupFails
<1>3. QED
  BY <1>1, <1>2, Copies, Replies, Kept DEF CleanupFails

\* A thread that dies gives up its copy.
LEMMA CrashInv == ASSUME IInv, NEW a \in Actors, Crash(a) PROVE IInv'
<1>1. (IF a \in Refreshers THEN "idle" ELSE "done") \in PCsOf(a) \ Loaded
  BY ActorsDisjoint DEF Actors, PCsOf, RequestPCs, GeneratorPCs, Loaded
<1>2. crashes' \in 0 .. MaxCrashes
  BY Copies, TurnBounds DEF Crash
<1>3. QED
  BY <1>1, <1>2, Copies, Kept DEF Crash

\* A lock that gets too old changes nothing else.
LEMMA ExpireInv == ASSUME IInv, NEW g \in Generators, Expire(g) PROVE IInv'
  BY DEF Expire, IInv, TypeOK, Shape

\* A new session satisfies the invariant.
LEMMA InitInv == Init => IInv
<1> SUFFICES ASSUME Init PROVE IInv
  OBVIOUS
<1>1. row \in Rows /\ turns \in Seq(Turns) /\ DOMAIN turns = {}
  BY TurnBounds DEF Init, Rows, States, Decisions
<1>2. \A a \in Actors : pc[a] = "idle" /\ "idle" \in PCsOf(a) /\ "idle" \notin Loaded
  BY DEF Init, PCsOf, RequestPCs, GeneratorPCs, Loaded
<1>3. TypeOK
  BY <1>1, TurnBounds DEF Init, TypeOK, RequestPCs
<1>4. Shape
  BY <1>1, <1>2 DEF Shape
<1>5. QED
  BY <1>3, <1>4 DEF IInv

\* Every step, and a stuttering one, keeps the invariant.
LEMMA NextInv == IInv /\ [Next]_vars => IInv'
<1> SUFFICES ASSUME IInv, [Next]_vars PROVE IInv'
  OBVIOUS
<1>1. ASSUME NEW r \in Requests, Arrive(r) \/ RequestStep(r) PROVE IInv'
  BY <1>1, ReadingRequestInv, AdmitInv, AnswerInv, FailInv, CleanupFailsInv DEF RequestStep
<1>2. ASSUME NEW g \in Generators, GeneratorStep(g) \/ Expire(g) PROVE IInv'
  BY <1>2, GeneratorInv, ExpireInv
<1>3. ASSUME NEW a \in Refreshers \cup Generators, RefreshStep(a) PROVE IInv'
  BY <1>3, RefreshInv
<1>4. ASSUME NEW a \in Actors, Crash(a) PROVE IInv'
  BY <1>4, CrashInv
<1>5. CASE UNCHANGED vars
  BY <1>5 DEF IInv, TypeOK, Shape, vars
<1>6. QED
  BY <1>1, <1>2, <1>3, <1>4, <1>5 DEF Next

\* Every actor keeps to its own code and its own copy, in every interleaving.
THEOREM Invariant == Spec => []IInv
<1>1. Init => IInv
  BY InitInv
<1>2. IInv /\ [Next]_vars => IInv'
  BY NextInv
<1>3. QED
  BY <1>1, <1>2, PTL DEF Spec

\* Every variable keeps its type.
THEOREM TypeCorrect == Spec => []TypeOK
<1>1. IInv => TypeOK
  BY DEF IInv
<1>2. QED
  BY <1>1, Invariant, PTL

\* A worker's or a generator's refresh, a cleanup and a generation never turn a
\* closed session into an interview again: they write a phase only if it differs
\* from that of their copy, and they only work from copies of open sessions.
THEOREM NothingElseReopens == Spec => MaterialNeverReopens
<1> DEFINE A == row.phase = "session_closed" /\ row'.phase = "interview" =>
                    \E r \in Requests : pc[r] = "asking" /\ reply'[r] = r
<1>1. IInv /\ [Next]_vars => [A]_vars
  <2> SUFFICES ASSUME IInv, Next PROVE A
    OBVIOUS
  <2>0. row \in Rows
    BY Copies
  <2>1. ASSUME NEW r \in Requests, NEW dec \in Answers, Answer(r, dec) PROVE A
    BY <2>1 DEF Answer, End, IInv, TypeOK
  <2>2. ASSUME NEW a \in Refreshers \cup Generators, SaveRefresh(a) PROVE row'.phase = row.phase
    <3>1. view[a].phase = "interview"
      BY <2>2 DEF SaveRefresh, IInv, Shape, Actors
    <3>2. PICK dec \in RefreshDecisions(view[a]) : row' = Decided(view[a], dec)
      BY <2>2 DEF SaveRefresh
    <3>3. PhaseFor(dec) = "interview"
      BY RefreshTypes DEF PhaseFor
    <3>4. QED
      BY <3>1, <3>2, <3>3 DEF Decided, Column
  <2>3. ASSUME NEW r \in Requests,
               \/ Arrive(r) \/ ReplayFound(r) \/ RejectBusy(r) \/ Check(r) \/ Admit(r)
               \/ AdmitDuplicate(r) \/ AdmitFails(r) \/ Ask(r) \/ Retry(r) \/ Fail(r)
               \/ CleanupFails(r)
        PROVE  row'.phase = row.phase
    BY <2>0, <2>3 DEF Arrive, ReplayFound, RejectBusy, Check, Admit, AdmitDuplicate, AdmitFails,
       Ask, Retry, Fail, CleanupFails, Replay, Rows
  <2>4. ASSUME NEW g \in Generators, GeneratorStep(g) \/ Expire(g) PROVE row'.phase = row.phase
    BY <2>0, <2>4 DEF GeneratorStep, Expire, RefuseGeneration, Acquire, Generate, SetBundleId,
       WriteBundle, ReloadRow, Complete, FailGeneration, FailAgain, Rows
  <2>5. ASSUME NEW a \in Actors, LoadRefresh(a) \/ FailRefresh(a) \/ Crash(a)
        PROVE  row'.phase = row.phase
    BY <2>5 DEF LoadRefresh, FailRefresh, Crash
  <2>6. QED
    BY <2>1, <2>2, <2>3, <2>4, <2>5 DEF Next, RequestStep, RefreshStep, Actors
<1>2. QED
  BY <1>1, Invariant, PTL DEF Spec, MaterialNeverReopens

-----------------------------------------------------------------------------
(* The inductive invariants.                                               *)

\* Who answered is done, and its message comes first.
Authors ==
    \A i \in DOMAIN turns : turns[i].role = "assistant" =>
        /\ pc[turns[i].by] = "done"
        /\ \E k \in DOMAIN turns : k < i /\ UserTurnOf(k, turns[i].by)

\* A message with an id has one user turn; a request answers once.
MessageOnce ==
    \A i, j \in DOMAIN turns : \A p, q \in Requests :
        /\ UserTurnOf(i, p) /\ UserTurnOf(j, q)
        /\ MsgOf[p] # None /\ MsgOf[p] = MsgOf[q]
        => i = j

AnswerOnce ==
    \A i, j \in DOMAIN turns :
        /\ turns[i].role = "assistant" /\ turns[j].role = "assistant"
        /\ turns[i].by = turns[j].by
        => i = j

\* Synthetic turns come from generators that have begun.
Begun == \A i \in DOMAIN turns : turns[i].by \in Generators => pc[turns[i].by] # "idle"

\* A message in flight has its user turn.
InFlightTurn ==
    \A r \in Requests : InFlight(r) => \E k \in DOMAIN turns : UserTurnOf(k, r)

OnceInv == InFlightTurn /\ Authors /\ MessageOnce /\ AnswerOnce /\ Begun

\* Nobody died, no clean-up failed and no material was generated.
Undisturbed == crashes = 0 /\ \A g \in Generators : pc[g] = "idle"

-----------------------------------------------------------------------------
(* What a step can do to the turns.                                        *)

\* A generator writes a synthetic turn.
Synthetic(g) ==
    /\ turns' = Append(turns, [role |-> "user", by |-> g])
    /\ ~Locked(g)
    /\ pc[g] # "idle"
    /\ \A h \in Generators : pc[h] # "idle" => pc'[h] # "idle"
    /\ \A r \in Requests : pc'[r] = pc[r]

\* Any other step: nobody is admitted, nobody comes back, a check is a Check.
Passive ==
    /\ UNCHANGED turns
    /\ \A h \in Generators : pc[h] # "idle" => pc'[h] # "idle"
    /\ \A r \in Requests : pc[r] = "done" => pc'[r] = "done"
    /\ \A r \in Requests : InFlight(r)' => InFlight(r)
    /\ \/ \A r \in Requests : pc'[r] = "checked" => pc[r] = "checked"
       \/ \E r \in Requests : Check(r)
    /\ Undisturbed' =>
          /\ Undisturbed
          /\ \A r \in Requests : InFlight(r) => InFlight(r)'
          /\ row'.state.marker \in {row.state.marker, None}

\* One actor moves.
LEMMA GotoPCs ==
    ASSUME IInv, NEW a \in Actors, NEW p, NEW copy, Goto(a, p, copy)
    PROVE  pc'[a] = p /\ \A b \in Actors \ {a} : pc'[b] = pc[b]
  BY DEF IInv, TypeOK, Goto

\* A request that neither admits, answers nor cleans up leaves the turns alone.
LEMMA RequestPassive ==
    ASSUME IInv, NEW r \in Requests,
           \/ Arrive(r) \/ ReplayFound(r) \/ RejectBusy(r) \/ Check(r)
           \/ AdmitDuplicate(r) \/ AdmitFails(r) \/ Ask(r) \/ Retry(r)
    PROVE  Passive
<1>1. r \in Actors /\ \A g \in Generators : g \in Actors \ {r}
  BY ActorsDisjoint DEF Actors
<1>2. UNCHANGED <<row, turns, crashes>>
  BY DEF Arrive, ReplayFound, RejectBusy, Check, AdmitDuplicate, AdmitFails, Ask, Retry, Replay
<1>3. \E p, copy :
        /\ Goto(r, p, copy)
        /\ pc[r] # "done" /\ p \in {"done", "arrived", "checked", "asking"}
        /\ p = "checked" => Check(r)
        /\ p = "asking" => InFlight(r)
        /\ InFlight(r) => p = "asking"
  BY DEF Arrive, ReplayFound, RejectBusy, Check, AdmitDuplicate, AdmitFails, Ask, Retry, Replay,
     End, InFlight
<1>4. PICK p, copy :
        /\ Goto(r, p, copy)
        /\ pc[r] # "done" /\ p \in {"done", "arrived", "checked", "asking"}
        /\ p = "checked" => Check(r)
        /\ p = "asking" => InFlight(r)
        /\ InFlight(r) => p = "asking"
  BY <1>3
<1>5. pc'[r] = p /\ \A b \in Actors \ {r} : pc'[b] = pc[b]
  BY <1>1, <1>4, GotoPCs
<1>6. \A q \in Requests \ {r} : pc'[q] = pc[q]
  BY <1>5 DEF Actors
<1>7. \A g \in Generators : pc'[g] = pc[g]
  BY <1>1, <1>5
<1>8. QED
  BY <1>2, <1>4, <1>5, <1>6, <1>7 DEF Passive, InFlight, Undisturbed

\* An actor that is not a request leaves all requests where they are.
LEMMA OthersStay ==
    ASSUME IInv, NEW a \in Refreshers \cup Generators, NEW p, NEW copy, Goto(a, p, copy)
    PROVE  /\ \A r \in Requests : pc'[r] = pc[r]
           /\ pc'[a] = p
           /\ \A b \in Actors \ {a} : pc'[b] = pc[b]
<1>1. a \in Actors /\ \A r \in Requests : r \in Actors \ {a}
  BY ActorsDisjoint DEF Actors
<1>2. QED
  BY <1>1, GotoPCs

\* A refresh leaves the turns alone, and the marker as it is or gone.
LEMMA RefreshPassive ==
    ASSUME IInv, NEW a \in Refreshers \cup Generators, RefreshStep(a)
    PROVE  Passive
<1>1. PICK p, copy :
        /\ Goto(a, p, copy)
        /\ a \in Generators => pc[a] # "idle" /\ p # "idle"
  BY DEF RefreshStep, LoadRefresh, SaveRefresh, FailRefresh, AfterRefresh
<1>2. UNCHANGED <<turns, crashes>> /\ row'.state.marker \in {row.state.marker, None}
  BY DEF RefreshStep, LoadRefresh, SaveRefresh, FailRefresh, Decided
<1>3. /\ \A r \in Requests : pc'[r] = pc[r]
      /\ pc'[a] = p
      /\ \A b \in Actors \ {a} : pc'[b] = pc[b]
  BY <1>1, OthersStay
<1>4. \A g \in Generators : pc'[g] = pc[g] \/ (g = a /\ pc[g] # "idle" /\ pc'[g] # "idle")
  BY <1>1, <1>3 DEF Actors
<1>5. QED
  BY <1>2, <1>3, <1>4 DEF Passive, InFlight, Undisturbed

\* A generator appends synthetic turns or leaves the turns alone.
LEMMA GeneratorTurnsOrPassive ==
    ASSUME IInv, NEW g \in Generators, GeneratorStep(g)
    PROVE  Synthetic(g) \/ Passive
<1>1. PICK p, copy : Goto(g, p, copy) /\ p # "idle"
  BY DEF GeneratorStep, Acquire, RefuseGeneration, Generate, SetBundleId, WriteBundle,
     ReloadRow, Complete, FailGeneration, FailAgain
<1>2. /\ \A r \in Requests : pc'[r] = pc[r]
      /\ pc'[g] = p
      /\ \A b \in Actors \ {g} : pc'[b] = pc[b]
  BY <1>1, OthersStay
<1>3. /\ \A h \in Generators : pc[h] # "idle" => pc'[h] # "idle"
      /\ ~Undisturbed'
  BY <1>1, <1>2 DEF Actors, Undisturbed
<1>4. \/ UNCHANGED turns
      \/ /\ turns' = Append(turns, [role |-> "user", by |-> g])
         /\ ~Locked(g) /\ pc[g] # "idle"
  BY DEF GeneratorStep, Acquire, RefuseGeneration, Generate, SetBundleId, WriteBundle,
     ReloadRow, Complete, FailGeneration, FailAgain, SyntheticTurns
<1>5. CASE UNCHANGED turns
  BY <1>2, <1>3, <1>5 DEF Passive, InFlight
<1>6. QED
  BY <1>2, <1>3, <1>4, <1>5 DEF Synthetic

\* A thread that dies writes nothing.
LEMMA CrashPassive == ASSUME IInv, NEW a \in Actors, Crash(a) PROVE Passive
<1>1. UNCHANGED turns /\ ~Undisturbed'
  BY Copies DEF Crash, Undisturbed
<1>2. pc[a] # "done" /\ pc[a] # "idle"
      /\ pc'[a] = (IF a \in Refreshers THEN "idle" ELSE "done")
      /\ \A b \in Actors \ {a} : pc'[b] = pc[b]
  BY GotoPCs DEF Crash
<1>3. \A r \in Requests \cup Generators : pc'[r] \in {pc[r], "done"}
  BY <1>2, ActorsDisjoint DEF Actors
<1>4. QED
  BY <1>1, <1>3 DEF Passive, InFlight

\* A clean-up that fails writes nothing.
LEMMA CleanupFailsPassive ==
    ASSUME IInv, NEW r \in Requests, CleanupFails(r)
    PROVE  Passive
<1>1. UNCHANGED turns /\ ~Undisturbed' /\ pc[r] # "done"
  BY Copies DEF CleanupFails, InFlight, Undisturbed
<1>2. r \in Actors /\ \A g \in Generators : g \in Actors \ {r}
  BY ActorsDisjoint DEF Actors
<1>3. pc'[r] = "done" /\ \A b \in Actors \ {r} : pc'[b] = pc[b]
  BY <1>2, GotoPCs DEF CleanupFails, End
<1>4. /\ \A q \in Requests : pc'[q] \in {pc[q], "done"}
      /\ \A g \in Generators : pc'[g] = pc[g]
  BY <1>2, <1>3 DEF Actors
<1>5. QED
  BY <1>1, <1>4 DEF Passive, InFlight

\* A lock that gets too old writes nothing.
LEMMA ExpirePassive == ASSUME IInv, NEW g \in Generators, Expire(g) PROVE Passive
<1>1. UNCHANGED <<row, turns, pc, crashes>>
  BY DEF Expire
<1>2. QED
  BY <1>1 DEF Passive, InFlight, Undisturbed

\* Every step is one of five kinds.
LEMMA Steps ==
    ASSUME IInv, Next
    PROVE  \/ \E r \in Requests : Admit(r) \/ Fail(r)
           \/ \E r \in Requests, dec \in Answers : Answer(r, dec)
           \/ \E g \in Generators : Synthetic(g)
           \/ Passive
  BY RequestPassive, RefreshPassive, GeneratorTurnsOrPassive, CleanupFailsPassive, CrashPassive,
     ExpirePassive
     DEF Next, RequestStep

\* What each of the three message steps does to the program counters.
LEMMA MessageMoves ==
    ASSUME IInv, NEW r \in Requests, NEW p, NEW copy, Goto(r, p, copy)
    PROVE  /\ pc'[r] = p
           /\ \A q \in Requests \ {r} : pc'[q] = pc[q]
           /\ \A g \in Generators : pc'[g] = pc[g]
<1>1. r \in Actors /\ \A q \in (Requests \ {r}) \cup Generators : q \in Actors \ {r}
  BY ActorsDisjoint DEF Actors
<1>2. QED
  BY <1>1, GotoPCs

-----------------------------------------------------------------------------
(* Every message one user turn and one answer, with locks or without.      *)

\* An admission finds no earlier turn of its message.
LEMMA OnceAdmit ==
    ASSUME IInv, OnceInv, NEW r \in Requests, Admit(r)
    PROVE  OnceInv'
<1>1. pc[r] = "checked" /\ Earlier(r) = {} /\ Goto(r, "admitted", None)
      /\ turns' = Append(turns, [role |-> "user", by |-> r])
  BY DEF Admit
<1>2. turns \in Seq(Turns) /\ [role |-> "user", by |-> r] \in Turns
  BY DEF IInv, TypeOK, Turns
<1>3. /\ DOMAIN turns = 1 .. Len(turns) /\ Len(turns) \in Nat
      /\ DOMAIN turns' = 1 .. (Len(turns) + 1)
      /\ \A i \in DOMAIN turns : turns'[i] = turns[i]
      /\ turns'[Len(turns) + 1] = [role |-> "user", by |-> r]
  BY <1>1, <1>2, AppendedTurn
<1>4. \A i \in DOMAIN turns : turns[i].role = "assistant" => turns[i].by \in Requests
  BY DEF IInv, Shape
<1>5. /\ \A q \in Requests : pc[q] = "done" => pc'[q] = "done"
      /\ \A g \in Generators : pc'[g] = pc[g]
  BY <1>1, MessageMoves
<1>6. \A i \in DOMAIN turns' : i \in DOMAIN turns \/ i = Len(turns) + 1
  BY <1>3
<1>7. Authors'
  BY <1>3, <1>4, <1>5, <1>6 DEF OnceInv, Authors, UserTurnOf
<1>8. MessageOnce'
  <2>1. \A i \in DOMAIN turns : \A q \in Requests :
           UserTurnOf(i, q) /\ MsgOf[q] # None => MsgOf[q] # MsgOf[r]
    BY <1>1 DEF Earlier
  <2>2. QED
    BY <1>3, <1>6, <2>1 DEF OnceInv, MessageOnce, UserTurnOf
<1>9. AnswerOnce'
  BY <1>3, <1>6 DEF OnceInv, AnswerOnce
<1>10. Begun'
  BY <1>3, <1>5, <1>6, ActorsDisjoint DEF OnceInv, Begun
<1>11. InFlightTurn'
  <2>1. \A q \in Requests : InFlight(q)' => InFlight(q) \/ q = r
    BY <1>1, MessageMoves DEF InFlight
  <2>2. \E k \in DOMAIN turns' : UserTurnOf(k, r)'
    BY <1>3 DEF UserTurnOf
  <2>3. \A q \in Requests, k \in DOMAIN turns :
           UserTurnOf(k, q) => UserTurnOf(k, q)' /\ k \in DOMAIN turns'
    BY <1>3 DEF UserTurnOf
  <2>4. QED
    BY <2>1, <2>2, <2>3 DEF OnceInv, InFlightTurn
<1>12. QED
  BY <1>7, <1>8, <1>9, <1>10, <1>11 DEF OnceInv

\* An answer comes from a request that has its turn and no answer yet.
LEMMA OnceAnswer ==
    ASSUME IInv, OnceInv, NEW r \in Requests, NEW dec \in Answers, Answer(r, dec)
    PROVE  OnceInv'
<1>1. pc[r] = "asking" /\ Goto(r, "done", None)
      /\ turns' = Append(turns, [role |-> "assistant", by |-> r])
  BY DEF Answer, End
<1>2. turns \in Seq(Turns) /\ [role |-> "assistant", by |-> r] \in Turns
  BY DEF IInv, TypeOK, Turns
<1>3. /\ DOMAIN turns = 1 .. Len(turns) /\ Len(turns) \in Nat
      /\ DOMAIN turns' = 1 .. (Len(turns) + 1)
      /\ \A i \in DOMAIN turns : turns'[i] = turns[i]
      /\ turns'[Len(turns) + 1] = [role |-> "assistant", by |-> r]
  BY <1>1, <1>2, AppendedTurn
<1>4. \A i \in DOMAIN turns' : i \in DOMAIN turns \/ i = Len(turns) + 1
  BY <1>3
<1>5. /\ \A q \in Requests : pc[q] = "done" \/ q = r => pc'[q] = "done"
      /\ \A g \in Generators : pc'[g] = pc[g]
      /\ \A q \in Requests : InFlight(q)' => InFlight(q)
  BY <1>1, MessageMoves DEF InFlight
<1>6. \A i \in DOMAIN turns : turns[i].role = "assistant" =>
         turns[i].by \in Requests /\ turns[i].by # r
  BY <1>1 DEF IInv, Shape, OnceInv, Authors
<1>7. \A q \in Requests, k \in DOMAIN turns :
         UserTurnOf(k, q) => UserTurnOf(k, q)' /\ k \in DOMAIN turns' /\ k < Len(turns) + 1
  BY <1>3 DEF UserTurnOf
<1>8. Authors'
  <2>1. PICK k \in DOMAIN turns : UserTurnOf(k, r)
    BY <1>1 DEF OnceInv, InFlightTurn, InFlight
  <2>2. QED
    BY <1>3, <1>4, <1>5, <1>6, <1>7, <2>1 DEF OnceInv, Authors
<1>9. MessageOnce'
  BY <1>3, <1>4 DEF OnceInv, MessageOnce, UserTurnOf
<1>10. AnswerOnce'
  BY <1>3, <1>4, <1>6 DEF OnceInv, AnswerOnce
<1>11. Begun' /\ InFlightTurn'
  BY <1>3, <1>4, <1>5, <1>7, ActorsDisjoint DEF OnceInv, Begun, InFlightTurn
<1>12. QED
  BY <1>8, <1>9, <1>10, <1>11 DEF OnceInv

\* A cleanup removes only the turn of the request that failed.
LEMMA OnceFail ==
    ASSUME IInv, OnceInv, NEW r \in Requests, Fail(r)
    PROVE  OnceInv'
<1>1. InFlight(r) /\ Goto(r, "done", None)
  BY DEF Fail, End, InFlight
<1>2. /\ \A q \in Requests : pc[q] = "done" \/ q = r => pc'[q] = "done"
      /\ \A g \in Generators : pc'[g] = pc[g]
      /\ \A q \in Requests : InFlight(q)' => InFlight(q) /\ q # r
  BY <1>1, MessageMoves DEF InFlight
<1>3. CASE UNCHANGED turns
  BY <1>2, <1>3 DEF OnceInv, Authors, MessageOnce, AnswerOnce, Begun, InFlightTurn, UserTurnOf,
     IInv, Shape
<1>4. CASE LastTurnIsOf(r) /\ turns' = SubSeq(turns, 1, Len(turns) - 1)
  <2>1. turns \in Seq(Turns) /\ turns # <<>>
    BY <1>4 DEF IInv, TypeOK, LastTurnIsOf
  <2>2. /\ Len(turns) \in Nat \ {0} /\ DOMAIN turns = 1 .. Len(turns)
        /\ DOMAIN turns' = 1 .. (Len(turns) - 1)
        /\ \A i \in DOMAIN turns' : i \in DOMAIN turns /\ turns'[i] = turns[i]
    BY <1>4, <2>1, DroppedTurn
  <2>3. \A q \in Requests \ {r}, k \in DOMAIN turns :
           UserTurnOf(k, q) => UserTurnOf(k, q)' /\ k \in DOMAIN turns'
    BY <1>4, <2>2 DEF LastTurnIsOf, UserTurnOf
  <2>4. \A i \in DOMAIN turns : turns[i].role = "assistant" =>
           turns[i].by \in Requests \ {r}
    BY <1>1 DEF IInv, Shape, OnceInv, Authors, InFlight
  <2>5. Authors'
    BY <1>2, <2>2, <2>3, <2>4 DEF OnceInv, Authors
  <2>6. MessageOnce' /\ AnswerOnce'
    BY <2>2 DEF OnceInv, MessageOnce, AnswerOnce, UserTurnOf
  <2>7. Begun' /\ InFlightTurn'
    BY <1>2, <2>2, <2>3 DEF OnceInv, Begun, InFlightTurn
  <2>8. QED
    BY <2>5, <2>6, <2>7 DEF OnceInv
<1>5. QED
  BY <1>3, <1>4 DEF Fail

\* A synthetic turn is no message.
LEMMA OnceSynthetic ==
    ASSUME IInv, OnceInv, NEW g \in Generators, Synthetic(g)
    PROVE  OnceInv'
<1>1. turns' = Append(turns, [role |-> "user", by |-> g]) /\ g \notin Requests
      /\ pc[g] # "idle"
      /\ \A h \in Generators : pc[h] # "idle" => pc'[h] # "idle"
      /\ \A r \in Requests : pc'[r] = pc[r]
  BY ActorsDisjoint DEF Synthetic
<1>2. turns \in Seq(Turns) /\ [role |-> "user", by |-> g] \in Turns
  BY DEF IInv, TypeOK, Turns
<1>3. /\ DOMAIN turns = 1 .. Len(turns) /\ Len(turns) \in Nat
      /\ DOMAIN turns' = 1 .. (Len(turns) + 1)
      /\ \A i \in DOMAIN turns : turns'[i] = turns[i]
      /\ turns'[Len(turns) + 1] = [role |-> "user", by |-> g]
  BY <1>1, <1>2, AppendedTurn
<1>4. \A i \in DOMAIN turns' : i \in DOMAIN turns \/ i = Len(turns) + 1
  BY <1>3
<1>5. \A q \in Requests, k \in DOMAIN turns :
         UserTurnOf(k, q) => UserTurnOf(k, q)' /\ k \in DOMAIN turns'
  BY <1>3 DEF UserTurnOf
<1>6. \A i \in DOMAIN turns : turns[i].role = "assistant" => turns[i].by \in Requests
  BY DEF IInv, Shape
<1>7. Authors'
  BY <1>1, <1>3, <1>4, <1>5, <1>6 DEF OnceInv, Authors
<1>8. MessageOnce' /\ AnswerOnce'
  BY <1>1, <1>3, <1>4 DEF OnceInv, MessageOnce, AnswerOnce, UserTurnOf
<1>9. Begun' /\ InFlightTurn'
  BY <1>1, <1>3, <1>4, <1>5 DEF OnceInv, Begun, InFlightTurn, InFlight
<1>10. QED
  BY <1>7, <1>8, <1>9 DEF OnceInv

\* The other steps change no turn.
LEMMA OncePassive == ASSUME IInv, OnceInv, Passive PROVE OnceInv'
<1>1. \A i \in DOMAIN turns : turns[i].role = "assistant" => turns[i].by \in Requests
  BY DEF IInv, Shape
<1>2. QED
  BY <1>1 DEF Passive, OnceInv, Authors, MessageOnce, AnswerOnce, Begun, InFlightTurn, UserTurnOf

\* Every step keeps turns and answers single.
LEMMA OnceNext == IInv /\ OnceInv /\ [Next]_vars => OnceInv'
<1> SUFFICES ASSUME IInv, OnceInv, [Next]_vars PROVE OnceInv'
  OBVIOUS
<1>1. CASE Next
  BY <1>1, Steps, OnceAdmit, OnceFail, OnceAnswer, OnceSynthetic, OncePassive
<1>2. CASE UNCHANGED vars
  BY <1>2 DEF vars, OnceInv, Authors, MessageOnce, AnswerOnce, Begun, InFlightTurn, UserTurnOf,
     InFlight
<1>3. QED
  BY <1>1, <1>2

\* A new session has no turns.
LEMMA OnceInit == Init => OnceInv
<1> SUFFICES ASSUME Init PROVE OnceInv
  OBVIOUS
<1>1. DOMAIN turns = {} /\ \A r \in Requests : pc[r] = "idle"
  BY DEF Init, Actors
<1>2. QED
  BY <1>1 DEF OnceInv, Authors, MessageOnce, AnswerOnce, Begun, InFlightTurn, InFlight

\* Turns and answers of a message stay single, with row locks or without.
THEOREM OnceInvariant == Spec => [](IInv /\ OnceInv)
<1>1. Init => OnceInv
  BY OnceInit
<1>2. IInv /\ OnceInv /\ [Next]_vars => OnceInv'
  BY OnceNext
<1>3. QED
  BY <1>1, <1>2, Invariant, PTL DEF Spec

\* However often a message is sent, with or without row locks, whatever fails:
\* it is answered once, because only the holder of the one user turn that the
\* unique index admits goes on to answer.
THEOREM MessagesAnsweredOnce == Spec => []AnsweredOnce
<1>1. IInv /\ OnceInv => AnsweredOnce
  <2> SUFFICES ASSUME IInv, OnceInv, NEW i \in DOMAIN turns, NEW j \in DOMAIN turns,
                      turns[i].role = "assistant", turns[j].role = "assistant",
                      MsgOf[turns[i].by] # None, MsgOf[turns[i].by] = MsgOf[turns[j].by]
               PROVE  i = j
    BY DEF AnsweredOnce
  <2>1. turns[i].by \in Requests /\ turns[j].by \in Requests
    BY DEF IInv, Shape
  <2>2. PICK k \in DOMAIN turns : UserTurnOf(k, turns[i].by)
    BY DEF OnceInv, Authors
  <2>3. PICK l \in DOMAIN turns : UserTurnOf(l, turns[j].by)
    BY DEF OnceInv, Authors
  <2>4. k = l
    BY <2>1, <2>2, <2>3 DEF OnceInv, MessageOnce
  <2>5. turns[i].by = turns[j].by
    BY <2>2, <2>3, <2>4 DEF UserTurnOf
  <2>6. QED
    BY <2>5 DEF OnceInv, AnswerOnce
<1>2. QED
  BY <1>1, OnceInvariant, PTL

-----------------------------------------------------------------------------
(* The inductive invariant with row locks.                                 *)

\* The user turn of r, with nothing but synthetic turns after it.
OpenTurn(r, i) ==
    /\ i \in DOMAIN turns
    /\ UserTurnOf(i, r)
    /\ \A j \in DOMAIN turns : j > i => turns[j].role = "user" /\ turns[j].by \in Generators

\* What the row's lock gives: the lock excludes, what was checked still holds
\* at the commit, a message in flight stays the open one, and no message was
\* ever put behind an unanswered turn.
CheckedAlone == \A q, r \in Requests : pc[q] = "checked" /\ pc[r] = "checked" => q = r
CheckedAnswered == \A r \in Requests : pc[r] = "checked" => ~Unanswered
InFlightOpen == \A r \in Requests : InFlight(r) => \E i \in DOMAIN turns : OpenTurn(r, i)
NoTwoMessages ==
    \A i \in DOMAIN turns :
        i + 1 \in DOMAIN turns /\ turns[i].role = "user" /\ turns[i + 1].role = "user" =>
            turns[i + 1].by \in Generators
Paired ==
    \A i \in DOMAIN turns :
        /\ i + 1 \in DOMAIN turns
        /\ turns[i].role = "user" /\ turns[i].by \in Requests
        /\ turns[i + 1].role = "assistant"
        => turns[i + 1].by = turns[i].by

\* Without deaths and generators, an open turn or a marker is somebody's.
Owned ==
    Undisturbed /\ (Unanswered \/ row.state.marker # None) => \E q \in Requests : InFlight(q)

LockInv == /\ CheckedAlone /\ CheckedAnswered /\ InFlightOpen /\ TurnExclusive
           /\ NoTwoMessages /\ Paired /\ Owned

-----------------------------------------------------------------------------
(* One lemma per kind of step.                                             *)

\* While a message is in flight its turn, or a synthetic one, is the last.
LEMMA OpenIsUnanswered ==
    ASSUME IInv, LockInv, NEW r \in Requests, InFlight(r)
    PROVE  Unanswered
<1>1. PICK i \in DOMAIN turns : OpenTurn(r, i)
  BY DEF LockInv, InFlightOpen
<1>2. DOMAIN turns = 1 .. Len(turns) /\ Len(turns) \in Nat /\ Len(turns) \in DOMAIN turns
  BY <1>1, LenProperties DEF IInv, TypeOK
<1>3. turns[Len(turns)].role = "user"
  BY <1>1, <1>2 DEF OpenTurn, UserTurnOf
<1>4. turns # <<>>
  BY <1>2, EmptySeq
<1>5. QED
  BY <1>3, <1>4 DEF Unanswered

\* What was checked under the lock still holds when the turn is committed.
LEMMA LockAdmit ==
    ASSUME IInv, OnceInv, LockInv, NEW r \in Requests, Admit(r)
    PROVE  LockInv'
<1>1. pc[r] = "checked" /\ Goto(r, "admitted", None)
      /\ turns' = Append(turns, [role |-> "user", by |-> r])
  BY DEF Admit
<1>2. turns \in Seq(Turns) /\ [role |-> "user", by |-> r] \in Turns
  BY DEF IInv, TypeOK, Turns
<1>3. /\ DOMAIN turns = 1 .. Len(turns) /\ Len(turns) \in Nat
      /\ DOMAIN turns' = 1 .. (Len(turns) + 1)
      /\ \A i \in DOMAIN turns : turns'[i] = turns[i]
      /\ turns'[Len(turns) + 1] = [role |-> "user", by |-> r]
  BY <1>1, <1>2, AppendedTurn
<1>4. \A i \in DOMAIN turns' : i \in DOMAIN turns \/ i = Len(turns) + 1
  BY <1>3
<1>5. ~Unanswered /\ \A q \in Requests : ~InFlight(q)
  BY <1>1, OpenIsUnanswered DEF LockInv, CheckedAnswered
<1>6. \A q \in Requests : (pc'[q] = "checked" => FALSE) /\ (InFlight(q)' <=> q = r)
  BY <1>1, <1>5, MessageMoves DEF InFlight, LockInv, CheckedAlone
<1>7. CheckedAlone' /\ CheckedAnswered' /\ TurnExclusive' /\ Owned'
  BY <1>6 DEF CheckedAlone, CheckedAnswered, TurnExclusive, Owned
<1>8. InFlightOpen'
  <2>1. PICK n \in DOMAIN turns' : n = Len(turns) + 1
    BY <1>3
  <2>2. OpenTurn(r, n)'
    BY <1>3, <2>1 DEF OpenTurn, UserTurnOf
  <2>3. QED
    BY <1>6, <2>2 DEF InFlightOpen
<1>9. NoTwoMessages'
  <2>1. Len(turns) \in DOMAIN turns => turns[Len(turns)].role # "user"
    <3>1. Len(turns) \in DOMAIN turns => turns # <<>>
      BY <1>3, EmptySeq
    <3>2. QED
      BY <1>5, <3>1 DEF Unanswered
  <2>2. \A i \in DOMAIN turns' : i + 1 \in DOMAIN turns' =>
           i \in DOMAIN turns /\ (i + 1 \in DOMAIN turns \/ i = Len(turns))
    BY <1>3
  <2>3. QED
    BY <1>3, <2>1, <2>2 DEF LockInv, NoTwoMessages
<1>10. Paired'
  <2>1. \A i \in DOMAIN turns' : i + 1 \in DOMAIN turns' =>
           i \in DOMAIN turns /\ (i + 1 \in DOMAIN turns \/ turns'[i + 1].role = "user")
    BY <1>3
  <2>2. QED
    BY <1>3, <2>1 DEF LockInv, Paired
<1>11. QED
  BY <1>7, <1>8, <1>9, <1>10 DEF LockInv

\* The answer belongs to the only open turn.
LEMMA LockAnswer ==
    ASSUME RowLocks, IInv, OnceInv, LockInv, NEW r \in Requests, NEW dec \in Answers, Answer(r, dec)
    PROVE  LockInv'
<1>1. /\ InFlight(r) /\ ~Locked(r) /\ Goto(r, "done", None)
      /\ turns' = Append(turns, [role |-> "assistant", by |-> r])
      /\ row' = Decided(view[r], dec)
  BY DEF Answer, End, InFlight
<1>2. turns \in Seq(Turns) /\ [role |-> "assistant", by |-> r] \in Turns
  BY DEF IInv, TypeOK, Turns
<1>3. /\ DOMAIN turns = 1 .. Len(turns) /\ Len(turns) \in Nat
      /\ DOMAIN turns' = 1 .. (Len(turns) + 1)
      /\ \A i \in DOMAIN turns : turns'[i] = turns[i]
      /\ turns'[Len(turns) + 1] = [role |-> "assistant", by |-> r]
      /\ Len(turns') = Len(turns) + 1
  BY <1>1, <1>2, AppendedTurn
<1>4. \A q \in Requests : pc'[q] # "checked" /\ ~InFlight(q)'
  BY <1>1, MessageMoves DEF InFlight, LockInv, TurnExclusive, Locked
<1>5. CheckedAlone' /\ CheckedAnswered' /\ TurnExclusive' /\ InFlightOpen'
  BY <1>4 DEF CheckedAlone, CheckedAnswered, TurnExclusive, InFlightOpen
<1>6. Owned'
  <2>1. row'.state.marker = None
    BY <1>1 DEF Decided
  <2>2. ~Unanswered'
    BY <1>3 DEF Unanswered
  <2>3. QED
    BY <2>1, <2>2 DEF Owned
<1>7. \A i \in DOMAIN turns' : i + 1 \in DOMAIN turns' =>
         i \in DOMAIN turns /\ (i + 1 \in DOMAIN turns \/ i = Len(turns))
  BY <1>3
<1>8. NoTwoMessages'
  BY <1>3, <1>7 DEF LockInv, NoTwoMessages
<1>9. Paired'
  <2>1. PICK k \in DOMAIN turns : OpenTurn(r, k)
    BY <1>1 DEF LockInv, InFlightOpen
  <2>2. turns[Len(turns)].by \in Requests => Len(turns) = k
    BY <1>3, <2>1, ActorsDisjoint DEF OpenTurn
  <2>3. turns[Len(turns)].by \in Requests => turns[Len(turns)].by = r
    BY <2>1, <2>2 DEF OpenTurn, UserTurnOf
  <2>4. QED
    BY <1>3, <1>7, <2>3 DEF LockInv, Paired
<1>10. QED
  BY <1>5, <1>6, <1>8, <1>9 DEF LockInv

\* A cleanup removes the only open turn, unless a synthetic turn came behind it.
LEMMA LockFail ==
    ASSUME RowLocks, IInv, OnceInv, LockInv, NEW r \in Requests, Fail(r)
    PROVE  LockInv'
<1>1. /\ InFlight(r) /\ ~Locked(r) /\ Goto(r, "done", None)
  BY DEF Fail, End, InFlight
<1>2. /\ \A q \in Requests : pc'[q] # "checked" /\ ~InFlight(q)'
      /\ \A g \in Generators : pc'[g] = pc[g]
  BY <1>1, MessageMoves DEF InFlight, LockInv, TurnExclusive, Locked
<1>3. CheckedAlone' /\ CheckedAnswered' /\ TurnExclusive' /\ InFlightOpen'
  BY <1>2 DEF CheckedAlone, CheckedAnswered, TurnExclusive, InFlightOpen
<1>4. turns \in Seq(Turns) /\ row \in Rows
  BY DEF IInv, TypeOK
<1>5. PICK k \in DOMAIN turns : OpenTurn(r, k)
  BY <1>1 DEF LockInv, InFlightOpen
<1>6. DOMAIN turns = 1 .. Len(turns) /\ Len(turns) \in Nat /\ turns # <<>>
  BY <1>4, <1>5, LenProperties, EmptySeq
<1>7. CASE LastTurnIsOf(r)
  <2>1. turns' = SubSeq(turns, 1, Len(turns) - 1) /\ row'.state.marker = None
    BY <1>4, <1>7 DEF Fail, Unmarked, Rows, States
  <2>2. /\ turns' \in Seq(Turns) /\ Len(turns') = Len(turns) - 1
        /\ DOMAIN turns' = 1 .. (Len(turns) - 1)
        /\ \A i \in DOMAIN turns' : i \in DOMAIN turns /\ turns'[i] = turns[i]
    BY <1>4, <1>6, <2>1, DroppedTurn
  <2>3. NoTwoMessages' /\ Paired'
    BY <2>2 DEF LockInv, NoTwoMessages, Paired
  <2>4. ~Unanswered'
    <3> SUFFICES ASSUME Unanswered' PROVE FALSE
      OBVIOUS
    <3>1. Len(turns) - 1 \in DOMAIN turns'
      BY <2>2, EmptySeq DEF Unanswered
    <3>2. turns[Len(turns) - 1].role = "user"
      BY <2>2, <3>1 DEF Unanswered
    <3>3. /\ (Len(turns) - 1) + 1 = Len(turns)
          /\ Len(turns) - 1 \in DOMAIN turns /\ Len(turns) \in DOMAIN turns
      BY <1>6, <2>2, <3>1
    <3>4. turns[Len(turns)].role = "user" /\ turns[Len(turns)].by = r
      BY <1>7 DEF LastTurnIsOf, UserTurnOf
    <3>5. r \in Generators
      BY <3>2, <3>3, <3>4 DEF LockInv, NoTwoMessages
    <3>6. QED
      BY <3>5, ActorsDisjoint
  <2>5. Owned'
    BY <2>1, <2>4 DEF Owned
  <2>6. QED
    BY <1>3, <2>3, <2>5 DEF LockInv
<1>8. CASE ~LastTurnIsOf(r)
  <2>1. UNCHANGED <<turns, row, crashes>>
    BY <1>8 DEF Fail
  <2>2. NoTwoMessages' /\ Paired'
    BY <2>1 DEF LockInv, NoTwoMessages, Paired
  <2>3. ~Undisturbed'
    <3>1. Len(turns) \in DOMAIN turns /\ Len(turns) > k
      BY <1>5, <1>6, <1>8 DEF OpenTurn, LastTurnIsOf
    <3>2. turns[Len(turns)].by \in Generators
      BY <1>5, <3>1 DEF OpenTurn
    <3>3. QED
      BY <1>2, <3>1, <3>2 DEF OnceInv, Begun, Undisturbed
  <2>4. QED
    BY <1>3, <2>2, <2>3 DEF LockInv, Owned
<1>9. QED
  BY <1>7, <1>8

\* A synthetic turn may come behind an open turn, not into an admission.
LEMMA LockSynthetic ==
    ASSUME RowLocks, IInv, LockInv, NEW g \in Generators, Synthetic(g)
    PROVE  LockInv'
<1>1. /\ turns' = Append(turns, [role |-> "user", by |-> g])
      /\ ~Undisturbed'
      /\ \A r \in Requests : pc'[r] = pc[r] /\ pc[r] # "checked"
  BY ActorsDisjoint DEF Synthetic, Undisturbed, Locked
<1>2. turns \in Seq(Turns) /\ [role |-> "user", by |-> g] \in Turns
  BY DEF IInv, TypeOK, Turns
<1>3. /\ DOMAIN turns = 1 .. Len(turns) /\ Len(turns) \in Nat
      /\ DOMAIN turns' = 1 .. (Len(turns) + 1)
      /\ \A i \in DOMAIN turns : turns'[i] = turns[i]
      /\ turns'[Len(turns) + 1] = [role |-> "user", by |-> g]
  BY <1>1, <1>2, AppendedTurn
<1>4. \A i \in DOMAIN turns' : i \in DOMAIN turns \/ i = Len(turns) + 1
  BY <1>3
<1>5. CheckedAlone' /\ CheckedAnswered' /\ TurnExclusive' /\ Owned'
  BY <1>1 DEF LockInv, CheckedAlone, CheckedAnswered, TurnExclusive, Owned, InFlight
<1>6. InFlightOpen'
  <2>1. \A r \in Requests, i \in DOMAIN turns : OpenTurn(r, i) => OpenTurn(r, i)'
    BY <1>3, <1>4 DEF OpenTurn, UserTurnOf
  <2>2. \A i \in DOMAIN turns : i \in DOMAIN turns'
    BY <1>3
  <2>3. QED
    BY <1>1, <2>1, <2>2 DEF LockInv, InFlightOpen, InFlight
<1>7. \A i \in DOMAIN turns' : i + 1 \in DOMAIN turns' =>
         i \in DOMAIN turns /\ (i + 1 \in DOMAIN turns \/ i = Len(turns))
  BY <1>3
<1>8. NoTwoMessages' /\ Paired'
  BY <1>3, <1>7 DEF LockInv, NoTwoMessages, Paired
<1>9. QED
  BY <1>5, <1>6, <1>8 DEF LockInv

\* The other steps: a check finds the lock free and no turn unanswered.
LEMMA LockPassive ==
    ASSUME RowLocks, IInv, LockInv, Passive
    PROVE  LockInv'
<1>1. UNCHANGED turns /\ \A r \in Requests : InFlight(r)' => InFlight(r)
  BY DEF Passive
<1>2. NoTwoMessages' /\ Paired' /\ TurnExclusive'
  BY <1>1 DEF LockInv, NoTwoMessages, Paired, TurnExclusive
<1>3. InFlightOpen'
  BY <1>1 DEF LockInv, InFlightOpen, OpenTurn, UserTurnOf
<1>4. CheckedAlone' /\ CheckedAnswered'
  <2>1. CASE \A r \in Requests : pc'[r] = "checked" => pc[r] = "checked"
    BY <1>1, <2>1 DEF LockInv, CheckedAlone, CheckedAnswered, Unanswered
  <2>2. CASE \E r \in Requests : Check(r)
    <3>1. PICK r \in Requests : Check(r)
      BY <2>2
    <3>2. ~Unanswered' /\ \A q \in Requests \ {r} : pc[q] # "checked"
      BY <1>1, <3>1 DEF Check, Locked, Unanswered
    <3>3. \A q \in Requests \ {r} : pc'[q] # "checked"
      BY <3>1, <3>2, MessageMoves DEF Check
    <3>4. QED
      BY <3>2, <3>3 DEF CheckedAlone, CheckedAnswered
  <2>3. QED
    BY <2>1, <2>2 DEF Passive
<1>5. Owned'
  BY <1>1 DEF Passive, LockInv, Owned, Unanswered
<1>6. QED
  BY <1>2, <1>3, <1>4, <1>5 DEF LockInv

\* Every step keeps the lock's invariant.
LEMMA LockNext == RowLocks /\ IInv /\ OnceInv /\ LockInv /\ [Next]_vars => LockInv'
<1> SUFFICES ASSUME RowLocks, IInv, OnceInv, LockInv, [Next]_vars PROVE LockInv'
  OBVIOUS
<1>1. CASE Next
  BY <1>1, Steps, LockAdmit, LockAnswer, LockFail, LockSynthetic, LockPassive
<1>2. CASE UNCHANGED vars
  BY <1>2 DEF vars, LockInv, CheckedAlone, CheckedAnswered, InFlightOpen, OpenTurn, UserTurnOf,
     TurnExclusive, InFlight, NoTwoMessages, Paired, Owned, Undisturbed, Unanswered
<1>3. QED
  BY <1>1, <1>2

\* A new session has no turns and no marker.
LEMMA LockInit == Init => LockInv
<1> SUFFICES ASSUME Init PROVE LockInv
  OBVIOUS
<1>1. turns = <<>> /\ DOMAIN turns = {} /\ row.state.marker = None
      /\ \A r \in Requests : pc[r] = "idle"
  BY DEF Init, Actors
<1>2. QED
  BY <1>1 DEF LockInv, CheckedAlone, CheckedAnswered, InFlightOpen, TurnExclusive, InFlight,
     NoTwoMessages, Paired, Owned, Unanswered

-----------------------------------------------------------------------------
(* The theorems.                                                           *)

\* The lock's invariant holds wherever FOR UPDATE locks.
THEOREM LockInvariant == ASSUME RowLocks PROVE Spec => [](IInv /\ OnceInv /\ LockInv)
<1>1. Init => LockInv
  BY LockInit
<1>2. IInv /\ OnceInv /\ LockInv /\ [Next]_vars => LockInv'
  BY LockNext
<1>3. QED
  BY <1>1, <1>2, OnceInvariant, PTL DEF Spec

\* At most one message of a session is between its user turn and its answer:
\* handle_user_turn checks and appends under one lock, and everyone who writes
\* turns takes it.
THEOREM OneTurnAtATime == ASSUME RowLocks PROVE Spec => []TurnExclusive
<1>1. LockInv => TurnExclusive
  BY DEF LockInv
<1>2. QED
  BY <1>1, LockInvariant, PTL

\* Without dead threads, failed clean-ups and generated material nothing is left
\* that makes the next message end in 409: cleanup removes turn and marker of a
\* failed message.
THEOREM MessagesUnblock == ASSUME RowLocks PROVE Spec => []UnblockedByMessages
<1>1. LockInv => UnblockedByMessages
  BY DEF LockInv, Owned, Undisturbed, UnblockedByMessages, Unblocked, Quiet, InFlight, Actors
<1>2. QED
  BY <1>1, LockInvariant, PTL

\* A replay returns what was answered to the request whose turn it found.
LEMMA ReplayIsPaired ==
    ASSUME IInv, Paired, NEW r \in Requests, Replay(r)
    PROVE  \/ End(r, "rejected")
           \/ \E q \in Requests : End(r, q) /\ MsgOf[r] # None /\ MsgOf[q] = MsgOf[r]
<1>1. PICK i \in Earlier(r) :
         End(r, IF AnswerTo(i) = None THEN "rejected" ELSE AnswerTo(i))
  BY DEF Replay
<1>2. PICK q \in Requests : UserTurnOf(i, q) /\ MsgOf[q] = MsgOf[r]
  BY DEF Earlier
<1>3. i \in DOMAIN turns /\ MsgOf[r] # None
  BY DEF Earlier
<1>4. AnswerTo(i) # None => AnswerTo(i) = q
  BY <1>2, <1>3 DEF AnswerTo, Paired, UserTurnOf
<1>5. QED
  BY <1>1, <1>2, <1>3, <1>4

\* The reply of a request changes only when it ends.
LEMMA RepliesKept ==
    ASSUME IInv, Paired, ReplayTruthful, Next
    PROVE  ReplayTruthful'
<1>1. ASSUME NEW r \in Requests, NEW what, End(r, what),
             what \in Requests => what = r \/ (MsgOf[r] # None /\ MsgOf[what] = MsgOf[r])
      PROVE  ReplayTruthful'
  <2>1. reply'[r] = what /\ \A q \in Requests \ {r} : reply'[q] = reply[q]
    BY <1>1 DEF End, IInv, TypeOK
  <2>2. QED
    BY <1>1, <2>1 DEF ReplayTruthful
<1>2. ASSUME UNCHANGED reply PROVE ReplayTruthful'
  BY <1>2 DEF ReplayTruthful
<1>3. "rejected" \notin Requests /\ "failed" \notin Requests
  BY RepliesNamed
<1>4. ASSUME NEW r \in Requests, ReplayFound(r) \/ AdmitDuplicate(r) PROVE ReplayTruthful'
  BY <1>1, <1>3, <1>4, ReplayIsPaired DEF ReplayFound, AdmitDuplicate
<1>5. ASSUME NEW r \in Requests, NEW dec \in Answers, Answer(r, dec) PROVE ReplayTruthful'
  BY <1>1, <1>5 DEF Answer
<1>6. ASSUME NEW r \in Requests, Arrive(r) \/ RejectBusy(r) \/ AdmitFails(r) \/ Fail(r)
             \/ CleanupFails(r)
      PROVE  ReplayTruthful'
  BY <1>1, <1>2, <1>3, <1>6 DEF Arrive, RejectBusy, AdmitFails, Fail,
     CleanupFails
<1>7. ASSUME NEW r \in Requests, Check(r) \/ Admit(r) \/ Ask(r) \/ Retry(r)
      PROVE  ReplayTruthful'
  BY <1>2, <1>7 DEF Check, Admit, Ask, Retry
<1>8. ASSUME NEW a \in Actors, RefreshStep(a) \/ GeneratorStep(a) \/ Expire(a) \/ Crash(a)
      PROVE  ReplayTruthful'
  BY <1>2, <1>8 DEF RefreshStep, LoadRefresh, SaveRefresh, FailRefresh, Expire, Crash, GeneratorStep,
     Acquire, RefuseGeneration, Generate, SetBundleId, WriteBundle, ReloadRow, Complete,
     FailGeneration, FailAgain
<1>9. QED
  BY <1>4, <1>5, <1>6, <1>7, <1>8 DEF Next, RequestStep, Actors

\* A client that repeats a message never gets the answer to another one: no
\* message was put behind an unanswered one, so the turn after a message is the
\* answer to it.
THEOREM RepeatsGetTheirAnswer == ASSUME RowLocks PROVE Spec => []ReplayTruthful
<1>1. Init => ReplayTruthful
  <2> SUFFICES ASSUME Init, NEW r \in Requests, reply[r] \in Requests PROVE FALSE
    BY DEF ReplayTruthful
  <2>1. reply[r] = None
    BY DEF Init
  <2>2. QED
    BY <2>1, NoneIsNobody DEF Actors
<1>2. IInv /\ OnceInv /\ LockInv /\ ReplayTruthful /\ [Next]_vars => ReplayTruthful'
  <2>1. UNCHANGED vars /\ ReplayTruthful => ReplayTruthful'
    BY DEF vars, ReplayTruthful
  <2>2. QED
    BY <2>1, RepliesKept DEF LockInv
<1>3. QED
  BY <1>1, <1>2, LockInvariant, PTL DEF Spec

=============================================================================

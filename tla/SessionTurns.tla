---------------------------- MODULE SessionTurns ----------------------------
(***************************************************************************)
(* The session row and its turns: message requests, material refreshes and *)
(* material generators, each a thread with a database session of its own.  *)
(*                                                                         *)
(* Each of them loads the row once, works from that copy (a model call may *)
(* take minutes) and writes back: interviewer_state_json as a whole, phase *)
(* and decision when they differ from the copy.  SELECT ... FOR UPDATE     *)
(* locks the row but does not reload a copy that is already there.         *)
(***************************************************************************)
EXTENDS Naturals, Sequences, FiniteSets

CONSTANTS
    Requests,      \* POSTs of a message
    Refreshers,    \* parse workers, debug fill: refresh_after_material_change
    Generators,    \* requests that generate a practice or debug bundle
    MsgOf,         \* [Requests -> client_message_id, or None]
    Answers,       \* decisions the interviewer may answer with
    RowLocks,      \* TRUE on PostgreSQL; on SQLite FOR UPDATE locks nothing
    MaxAttempts,   \* PROVIDER_RUNTIME_MAX_ATTEMPTS
    SessionLimit,  \* material_generation_session_limit
    MaxCrashes,    \* bound: threads that die, clean-ups that fail
    MaxExpiries,   \* bound: generations that outlive the lock's TTL
    None

Actors == Requests \cup Refreshers \cup Generators

Decisions == {"continue_interview", "need_more_evidence", "route_correction",
              "high_risk_review", "simulated_refusal"}

ASSUME ActorsDisjoint ==
    /\ Requests \cap Refreshers = {} /\ Requests \cap Generators = {}
    /\ Refreshers \cap Generators = {}
ASSUME AnswersAreDecisions == Answers \subseteq Decisions
ASSUME TurnBounds ==
    /\ MaxAttempts \in Nat \ {0} /\ SessionLimit \in Nat
    /\ MaxCrashes \in Nat /\ MaxExpiries \in Nat
ASSUME RepliesNamed == {"rejected", "failed"} \cap Requests = {}

\* interviewer_state_json, as far as anyone reads it back: the decision it
\* repeats, the turn being processed (named by its request), the generation
\* lock (named by its holder; None when never taken, completed or failed) and
\* the starts that count towards the session's limit.
States == [status : Decisions \cup {None}, marker : Requests \cup {None},
           lock : Generators \cup {None}, starts : 0 .. SessionLimit]

Rows == [phase : {"interview", "session_closed"}, decision : Decisions, state : States]

\* A turn and the actor that wrote it; a generator's turns have role "user".
Turns == [role : {"user", "assistant"}, by : Requests \cup Generators]

ASSUME NoneIsNobody ==
    None \notin Actors /\ None \notin Decisions /\ None \notin Rows

VARIABLES
    row,        \* SessionRecord: phase_state, current_governor_decision, state
    turns,      \* SessionTurnRecord rows by turn_index
    pc,         \* where each actor is
    view,       \* the copy of the row it has loaded
    attempts,   \* [Requests -> model calls made]
    reply,      \* [Requests -> what the client got]
    expired,    \* generators whose lock is older than the TTL
    crashes     \* threads that died and clean-ups that failed so far

vars == <<row, turns, pc, view, attempts, reply, expired, crashes>>

\* A session with a declared family whose gate has been refreshed once.
Init ==
    /\ row = [phase |-> "interview", decision |-> "need_more_evidence",
              state |-> [status |-> None, marker |-> None, lock |-> None, starts |-> 0]]
    /\ turns = <<>>
    /\ pc = [a \in Actors |-> "idle"]
    /\ view = [a \in Actors |-> None]
    /\ attempts = [r \in Requests |-> 0]
    /\ reply = [r \in Requests |-> None]
    /\ expired = {}
    /\ crashes = 0

-----------------------------------------------------------------------------
(* The row.                                                                *)

\* Mutant: the phase of the session is not looked at.
Terminal_IgnoresPhase(r) ==
    r.decision = "simulated_refusal" \/ r.state.status = "simulated_refusal"

\* GateRuntimeService.is_terminal_session.
Terminal(r) ==
    \/ r.phase = "session_closed"
    \/ r.decision = "simulated_refusal"
    \/ r.state.status = "simulated_refusal"

\* A column is written when it differs from the copy it was loaded into.
Column(loaded, new, committed) == IF new = loaded THEN committed ELSE new

PhaseFor(dec) == IF dec = "simulated_refusal" THEN "session_closed" ELSE "interview"

\* _apply_graph_response_state: the state is replaced, marker and generation
\* lock are not among the keys it keeps.
Decided(loaded, dec) ==
    [phase |-> Column(loaded.phase, PhaseFor(dec), row.phase),
     decision |-> Column(loaded.decision, dec, row.decision),
     state |-> [status |-> dec, marker |-> None, lock |-> None, starts |-> 0]]

\* Mutant: whoever has arrived holds the lock.
Locked_Arrived(a) == \E r \in Requests \ {a} : pc[r] \in {"arrived", "checked"}

\* Between its check and its commit an admission holds the row's lock.
Locked(a) == RowLocks /\ \E r \in Requests \ {a} : pc[r] = "checked"

Goto(a, where, copy) ==
    /\ pc' = [pc EXCEPT ![a] = where]
    /\ view' = [view EXCEPT ![a] = copy]

-----------------------------------------------------------------------------
(* The turns.                                                              *)

UserTurnOf(i, r) == turns[i].role = "user" /\ turns[i].by = r

\* Mutant: the lookup finds the turns of every message.
Earlier_AnyMessage(r) ==
    {i \in DOMAIN turns : MsgOf[r] # None /\ \E q \in Requests : UserTurnOf(i, q)}

\* Mutant: neither the lookup nor a unique index knows the message.
Earlier_Forgotten(r) == {}

\* find_user_turn_by_client_message_id
Earlier(r) ==
    {i \in DOMAIN turns : /\ MsgOf[r] # None
                          /\ \E q \in Requests : UserTurnOf(i, q) /\ MsgOf[q] = MsgOf[r]}

\* next_assistant_turn_after: the next turn, if it is an answer.
AnswerTo(i) ==
    IF i + 1 \in DOMAIN turns /\ turns[i + 1].role = "assistant" THEN turns[i + 1].by
    ELSE None

\* Mutant: the check for an unanswered turn is dropped.
Unanswered_Never == FALSE

\* _latest_unanswered_user_turn
Unanswered == turns # <<>> /\ turns[Len(turns)].role = "user"

\* A message of somebody else is marked as being processed in the loaded copy.
MarkedForOther(r) ==
    LET marker == view[r].state.marker IN
    marker # None /\ (MsgOf[r] = None \/ MsgOf[marker] # MsgOf[r])

-----------------------------------------------------------------------------
(* A message request: handle_user_turn.                                    *)

End(r, what) ==
    /\ Goto(r, "done", None)
    /\ reply' = [reply EXCEPT ![r] = what]

\* The row is loaded; a closed session answers 409.
Arrive(r) ==
    /\ pc[r] = "idle"
    /\ IF Terminal(row) THEN End(r, "rejected")
       ELSE Goto(r, "arrived", row) /\ UNCHANGED reply
    /\ UNCHANGED <<row, turns, attempts, expired, crashes>>

\* A retry of a message gets the recorded answer, or 409 while there is none.
Replay(r) ==
    /\ \E i \in Earlier(r) :
          End(r, IF AnswerTo(i) = None THEN "rejected" ELSE AnswerTo(i))
    /\ UNCHANGED <<row, turns, attempts, expired, crashes>>

ReplayFound(r) == pc[r] = "arrived" /\ ~Locked(r) /\ Replay(r)

RejectBusy(r) ==
    /\ pc[r] = "arrived"
    /\ ~Locked(r)
    /\ Earlier(r) = {}
    /\ Unanswered \/ MarkedForOther(r)
    /\ End(r, "rejected")
    /\ UNCHANGED <<row, turns, attempts, expired, crashes>>

\* All checks passed, on a fresh list of turns and a copy of the row.
Check(r) ==
    /\ pc[r] = "arrived"
    /\ ~Locked(r)
    /\ Earlier(r) = {}
    /\ ~Unanswered
    /\ ~MarkedForOther(r)
    /\ Goto(r, "checked", view[r])
    /\ UNCHANGED <<row, turns, attempts, reply, expired, crashes>>

\* The user turn and the marker, in one commit.
Admit(r) ==
    /\ pc[r] = "checked"
    /\ Earlier(r) = {}
    /\ turns' = Append(turns, [role |-> "user", by |-> r])
    /\ row' = [row EXCEPT !.state = [view[r].state EXCEPT !.marker = r]]
    /\ Goto(r, "admitted", None)
    /\ UNCHANGED <<attempts, reply, expired, crashes>>

\* The unique index of client_message_id refuses the turn.
AdmitDuplicate(r) == pc[r] = "checked" /\ Replay(r)

\* The commit fails for another reason; nothing was written.
AdmitFails(r) ==
    /\ pc[r] = "checked"
    /\ End(r, "failed")
    /\ UNCHANGED <<row, turns, attempts, expired, crashes>>

\* Memory and claims are captured and committed, the row is reloaded, the model
\* is called.
Ask(r) ==
    /\ pc[r] = "admitted"
    /\ Goto(r, "asking", row)
    /\ attempts' = [attempts EXCEPT ![r] = 1]
    /\ UNCHANGED <<row, turns, reply, expired, crashes>>

\* A retryable provider failure: rollback, reload, call again.
Retry(r) ==
    /\ pc[r] = "asking"
    /\ attempts[r] < MaxAttempts
    /\ attempts' = [attempts EXCEPT ![r] = @ + 1]
    /\ Goto(r, "asking", row)
    /\ UNCHANGED <<row, turns, reply, expired, crashes>>

\* The decision is applied to the copy, the answer appended, all committed.
Answer(r, dec) ==
    /\ pc[r] = "asking"
    /\ ~Locked(r)
    /\ row' = Decided(view[r], dec)
    /\ turns' = Append(turns, [role |-> "assistant", by |-> r])
    /\ End(r, r)
    /\ UNCHANGED <<attempts, expired, crashes>>

\* Mutant: the turn goes, the marker stays.
Unmarked_Kept(state) == state

Unmarked(state) == [state EXCEPT !.marker = None]

\* Between its user turn and its answer.
InFlight(r) == pc[r] \in {"admitted", "asking"}

LastTurnIsOf(r) == turns # <<>> /\ UserTurnOf(Len(turns), r)

\* _cleanup_incomplete_committed_user_turn after a failure: the turn and the
\* marker go, unless a later turn is there already.
Fail(r) ==
    /\ InFlight(r)
    /\ ~Locked(r)
    /\ IF LastTurnIsOf(r)
       THEN /\ turns' = SubSeq(turns, 1, Len(turns) - 1)
            /\ row' = [row EXCEPT !.state = Unmarked(@)]
       ELSE UNCHANGED <<turns, row>>
    /\ End(r, "failed")
    /\ UNCHANGED <<attempts, expired, crashes>>

\* The clean-up fails in its turn and is rolled back: its exception is only logged,
\* turn and marker stay.
CleanupFails(r) ==
    /\ InFlight(r)
    /\ crashes < MaxCrashes
    /\ crashes' = crashes + 1
    /\ End(r, "failed")
    /\ UNCHANGED <<row, turns, attempts, expired>>

-----------------------------------------------------------------------------
(* refresh_after_material_change, by a worker or by a generator.           *)

AfterRefresh(a) == IF a \in Generators THEN "refreshed" ELSE "idle"

LoadRefresh(a) ==
    /\ pc[a] = IF a \in Generators THEN "committed" ELSE "idle"
    /\ IF Terminal(row) THEN Goto(a, AfterRefresh(a), None) ELSE Goto(a, "refreshing", row)
    /\ UNCHANGED <<row, turns, attempts, reply, expired, crashes>>

\* _material_change_decision: conflicts in the case lead to a risk review.
RefreshDecisions(loaded) ==
    {"high_risk_review",
     IF loaded.decision = "route_correction" THEN "route_correction" ELSE "continue_interview"}

SaveRefresh(a) ==
    /\ pc[a] = "refreshing"
    /\ ~Locked(a)
    /\ \E dec \in RefreshDecisions(view[a]) : row' = Decided(view[a], dec)
    /\ Goto(a, AfterRefresh(a), None)
    /\ UNCHANGED <<turns, attempts, reply, expired, crashes>>

FailRefresh(a) ==
    /\ pc[a] = "refreshing"
    /\ Goto(a, AfterRefresh(a), None)
    /\ UNCHANGED <<row, turns, attempts, reply, expired, crashes>>

-----------------------------------------------------------------------------
(* A generator: create_bundle_events under MaterialGenerationGuard.        *)

Running(state) == state.lock \in Generators \ expired

Acquire(g) ==
    /\ pc[g] = "idle"
    /\ ~Locked(g)
    /\ ~Running(row.state)
    /\ row.state.starts < SessionLimit
    /\ row' = [row EXCEPT !.state.lock = g, !.state.starts = @ + 1]
    /\ Goto(g, "acquired", None)
    /\ UNCHANGED <<turns, attempts, reply, expired, crashes>>

\* 409 or 429.
RefuseGeneration(g) ==
    /\ pc[g] = "idle"
    /\ ~Locked(g)
    /\ Running(row.state) \/ row.state.starts >= SessionLimit
    /\ Goto(g, "done", None)
    /\ UNCHANGED <<row, turns, attempts, reply, expired, crashes>>

\* The row is loaded, the model writes the bundle.
Generate(g) ==
    /\ pc[g] = "acquired"
    /\ Goto(g, "generating", row)
    /\ UNCHANGED <<row, turns, attempts, reply, expired, crashes>>

\* set_bundle_id writes its old copy back if that copy says "running".
SetBundleId(g) ==
    /\ pc[g] = "generating"
    /\ ~Locked(g)
    /\ IF view[g].state.lock # None
       THEN row' = [row EXCEPT !.state = view[g].state] /\ Goto(g, "writing", row')
       ELSE UNCHANGED row /\ Goto(g, "writing", view[g])
    /\ UNCHANGED <<turns, attempts, reply, expired, crashes>>

\* Documents and, if asked for, synthetic user turns are committed.
SyntheticTurns(g) == {turns, Append(turns, [role |-> "user", by |-> g])}

WriteBundle(g) ==
    /\ pc[g] = "writing"
    /\ ~Locked(g)
    /\ turns' \in SyntheticTurns(g)
    /\ Goto(g, "committed", None)
    /\ UNCHANGED <<row, attempts, reply, expired, crashes>>

\* db.refresh(record), then the last events are streamed.
ReloadRow(g) ==
    /\ pc[g] = "refreshed"
    /\ Goto(g, "closing", row)
    /\ UNCHANGED <<row, turns, attempts, reply, expired, crashes>>

\* guard.complete, from the copy; nobody asks whose lock it is.
Complete(g) ==
    /\ pc[g] = "closing"
    /\ ~Locked(g)
    /\ row' = [row EXCEPT !.state = [view[g].state EXCEPT !.lock = None]]
    /\ Goto(g, "done", None)
    /\ UNCHANGED <<turns, attempts, reply, expired, crashes>>

\* guard.fail commits its copy of the row and whatever was flushed before the
\* exception; once the bundle is committed it is tombstoned first (and the row
\* is read afresh).
FailGeneration(g) ==
    /\ pc[g] \in {"acquired", "generating", "writing", "refreshed", "closing"}
    /\ ~Locked(g)
    /\ LET loaded == IF pc[g] \in {"generating", "writing"} THEN view[g] ELSE row IN
       row' = [row EXCEPT !.state = [loaded.state EXCEPT !.lock = None]]
    /\ turns' \in IF pc[g] = "writing" THEN SyntheticTurns(g) ELSE {turns}
    /\ Goto(g, "failing", None)
    /\ UNCHANGED <<attempts, reply, expired, crashes>>

\* The endpoint that does not stream calls guard.fail again.
FailAgain(g) ==
    /\ pc[g] = "failing"
    /\ ~Locked(g)
    /\ row' \in {row, [row EXCEPT !.state.lock = None]}
    /\ Goto(g, "done", None)
    /\ UNCHANGED <<turns, attempts, reply, expired, crashes>>

-----------------------------------------------------------------------------
(* Time and failures.                                                      *)

Generating(g) == pc[g] \in {"acquired", "generating", "writing"}

Expire(g) ==
    /\ Generating(g)
    /\ Cardinality(expired) < MaxExpiries
    /\ expired' = expired \cup {g}
    /\ expired' # expired
    /\ UNCHANGED <<row, turns, pc, view, attempts, reply, crashes>>

\* A thread dies with its process; no open transaction survives.
Crash(a) ==
    /\ pc[a] \notin {"idle", "done"}
    /\ crashes < MaxCrashes
    /\ crashes' = crashes + 1
    /\ Goto(a, IF a \in Refreshers THEN "idle" ELSE "done", None)
    /\ UNCHANGED <<row, turns, attempts, reply, expired>>

RequestStep(r) ==
    \/ ReplayFound(r)
    \/ RejectBusy(r)
    \/ Check(r)
    \/ Admit(r)
    \/ AdmitDuplicate(r)
    \/ AdmitFails(r)
    \/ Ask(r)
    \/ Retry(r)
    \/ \E dec \in Answers : Answer(r, dec)
    \/ Fail(r)
    \/ CleanupFails(r)

GeneratorStep(g) ==
    \/ RefuseGeneration(g)
    \/ Acquire(g)
    \/ Generate(g)
    \/ SetBundleId(g)
    \/ WriteBundle(g)
    \/ ReloadRow(g)
    \/ Complete(g)
    \/ FailGeneration(g)
    \/ FailAgain(g)

RefreshStep(a) == LoadRefresh(a) \/ SaveRefresh(a) \/ FailRefresh(a)

Next ==
    \/ \E r \in Requests : Arrive(r) \/ RequestStep(r)
    \/ \E g \in Generators : GeneratorStep(g) \/ Expire(g)
    \/ \E a \in Refreshers \cup Generators : RefreshStep(a)
    \/ \E a \in Actors : Crash(a)

Spec == Init /\ [][Next]_vars

\* A request that has arrived runs on: model calls time out and locks are short.
FairSpec == Spec /\ \A r \in Requests : WF_vars(RequestStep(r))

-----------------------------------------------------------------------------
(* Properties.                                                             *)

RequestPCs == {"idle", "arrived", "checked", "admitted", "asking", "done"}
GeneratorPCs == {"idle", "acquired", "generating", "writing", "committed", "refreshing",
                 "refreshed", "closing", "failing", "done"}

TypeOK ==
    /\ row \in Rows
    /\ turns \in Seq(Turns)
    /\ pc \in [Actors -> RequestPCs \cup GeneratorPCs]
    /\ view \in [Actors -> Rows \cup {None}]
    /\ attempts \in [Requests -> 0 .. MaxAttempts]
    /\ reply \in [Requests -> Requests \cup {None, "rejected", "failed"}]
    /\ expired \in SUBSET Generators
    /\ crashes \in 0 .. MaxCrashes

\* At most one message of a session is between its user turn and its answer.
TurnExclusive == \A q, r \in Requests : InFlight(q) /\ InFlight(r) => q = r

\* A client that repeats a message gets the answer to that message, never that
\* to another one.
ReplayTruthful ==
    \A r \in Requests : reply[r] \in Requests =>
        reply[r] = r \/ (MsgOf[r] # None /\ MsgOf[reply[r]] = MsgOf[r])

\* A message is answered once, however often it is sent.
AnsweredOnce ==
    \A i, j \in DOMAIN turns :
        /\ turns[i].role = "assistant" /\ turns[j].role = "assistant"
        /\ MsgOf[turns[i].by] # None
        /\ MsgOf[turns[i].by] = MsgOf[turns[j].by]
        => i = j

\* Only an answer to the applicant may reopen the interview of a closed session:
\* no refresh, no generator and no cleanup does.
MaterialNeverReopens ==
    [][row.phase = "session_closed" /\ row'.phase = "interview" =>
          \E r \in Requests : pc[r] = "asking" /\ reply'[r] = r]_vars

\* Every request that was let in ends.
RequestEnds == \A r \in Requests : pc[r] = "arrived" ~> pc[r] = "done"

Quiet == \A a \in Actors : pc[a] \in {"idle", "done"}

\* Nothing is left behind that makes the next message end in 409.
Unblocked == Quiet => ~Unanswered /\ row.state.marker = None

\* It is so as long as no thread died, no clean-up failed and no material was
\* generated.
UnblockedByMessages ==
    crashes = 0 /\ (\A g \in Generators : pc[g] = "idle") => Unblocked

=============================================================================

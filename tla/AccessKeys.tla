----------------------------- MODULE AccessKeys -----------------------------
(***************************************************************************)
(* The access keys an administrator hands out and the interview sessions   *)
(* that are created with them: each creation is charged to the quota of    *)
(* the key of its caller and bound to that key.                            *)
(*                                                                         *)
(* Every handler has a database session of its own; a column is written    *)
(* only when it differs from the copy the handler has loaded.  Callers are *)
(* known by the key of their cookie; LoginSessions has the cookies.        *)
(***************************************************************************)
EXTENDS Naturals, FiniteSets

CONSTANTS
    Keys,           \* access keys
    Creations,      \* POSTs of /v1/sessions; the session has a fresh id
    MaxLimit,       \* bound: usage limits an administrator sets
    MaxUpdates,     \* bound: updates of keys, and keys that expire
    None

ASSUME CreationsFinite == IsFiniteSet(Creations)
ASSUME BoundsNat == MaxLimit \in Nat \ {0} /\ MaxUpdates \in Nat
ASSUME NoneIsNobody == None \notin Keys \cup Creations

KeyRows == [limit : 1 .. MaxLimit, count : Nat, revoked : BOOLEAN, expired : BOOLEAN]

ASSUME NoneIsNoUpdate == None \notin [key : Keys, copy : KeyRows]

VARIABLES
    key,        \* access_keys: [Keys -> KeyRows]
    session,    \* sessions: [Creations -> "absent", "live" or "deleted"]
    owner,      \* access_key_sessions: [Creations -> Keys or None]
    create,     \* [Creations -> [pc, caller, payer, open]]: requests in progress
    admin,      \* the update of a key in progress: [key, copy] or None
    updates,
    clearing    \* a DELETE of a caller's sessions in progress: their ids

vars == <<key, session, owner, create, admin, updates, clearing>>

Init ==
    /\ key \in [Keys -> [limit : 1 .. MaxLimit, count : {0}, revoked : BOOLEAN, expired : {FALSE}]]
    /\ session = [s \in Creations |-> "absent"]
    /\ owner = [s \in Creations |-> None]
    /\ create = [s \in Creations |-> [pc |-> "idle", caller |-> None, payer |-> None, open |-> FALSE]]
    /\ admin = None
    /\ updates = 0
    /\ clearing = {}

-----------------------------------------------------------------------------
(* POST /v1/sessions.                                                      *)

At(s, pc) == create' = [create EXCEPT ![s].pc = pc]

\* The middleware lets the caller in: with a key, or as an administrator or by
\* password without one.
Enter(s, k) ==
    /\ create[s].pc = "idle"
    /\ create' = [create EXCEPT ![s].pc = "inside", ![s].caller = k]
    /\ UNCHANGED <<key, session, owner, admin, updates, clearing>>

\* create_session_with_quota asks for the cookie again, in a database session of
\* its own.  Without a key, or when the cookie has ended since, the session is
\* created for nobody.
Identify(s, ended) ==
    LET k == create[s].caller IN
    /\ create[s].pc = "inside"
    /\ IF k # None /\ ~ended
       THEN /\ create' = [create EXCEPT ![s].payer = k, ![s].pc = "paying",
                                        ![s].open = ~key[k].expired]
            /\ UNCHANGED session
       ELSE /\ At(s, "done")
            /\ session' = [session EXCEPT ![s] = "live"]
    /\ UNCHANGED <<key, owner, admin, updates, clearing>>

\* A transaction that has locked the key and not ended.
Locked(k) == \E s \in Creations : create[s].payer = k /\ create[s].pc = "charged"

\* Mutant: one session too many.
Affords_OneMore(k) == key[k].count <= key[k].limit

\* The condition of the UPDATE.
Affords(k) == key[k].count < key[k].limit

\* consume_session_quota locks the row and updates it if that leaves the count
\* within the limit, which only this transaction sees until it commits.  The
\* time compared with expires_at was read before the row was waited for.  After
\* a refusal the session row that has been flushed goes with the rollback.
ChargeKey(s) ==
    LET k == create[s].payer IN
    /\ create[s].pc = "paying"
    /\ ~Locked(k)
    /\ create' = [create EXCEPT ![s].open = FALSE,
                                ![s].pc = IF ~key[k].revoked /\ create[s].open /\ Affords(k)
                                          THEN "charged" ELSE "refused"]
    /\ UNCHANGED <<key, admin, updates, session, owner, clearing>>

\* The session row, the charge and the binding are one commit.
CommitSession(s) ==
    /\ create[s].pc = "charged"
    /\ key' = [key EXCEPT ![create[s].payer].count = @ + 1]
    /\ session' = [session EXCEPT ![s] = "live"]
    /\ owner' = [owner EXCEPT ![s] = create[s].payer]
    /\ At(s, "done")
    /\ UNCHANGED <<admin, updates, clearing>>

-----------------------------------------------------------------------------
(* The administrator and the owner.                                        *)

\* update_key loads the row without a lock ...
LoadKey(k) ==
    /\ admin = None
    /\ updates < MaxUpdates
    /\ updates' = updates + 1
    /\ admin' = [key |-> k, copy |-> key[k]]
    /\ UNCHANGED <<key, session, owner, clearing, create>>

Column(loaded, new, committed) == IF new = loaded THEN committed ELSE new

\* A limit below one counts as one.
Limit(asked) == IF asked < 1 THEN 1 ELSE asked

\* Mutant: the count is written with the columns that were asked for.
Updated_Row(row, limit, revoked, expired) ==
    [limit |-> limit, revoked |-> revoked, expired |-> expired, count |-> admin.copy.count]

\* ... and writes the columns it was asked for.  The limit may fall below the
\* count, and a key that has expired or was disabled may be opened again.
Updated(row, limit, revoked, expired) ==
    [row EXCEPT !.limit = Column(admin.copy.limit, limit, @),
                !.revoked = Column(admin.copy.revoked, revoked, @),
                !.expired = Column(admin.copy.expired, expired, @)]

UpdateKey(asked, revoked, expired) ==
    /\ admin # None
    /\ ~Locked(admin.key)
    /\ key' = [key EXCEPT ![admin.key] = Updated(@, Limit(asked), revoked, expired)]
    /\ admin' = None
    /\ UNCHANGED <<updates, session, owner, clearing, create>>

\* clear_account_sessions: the sessions of the caller's key, one of which may be
\* kept ...
ListSessions(k, kept) ==
    /\ clearing = {}
    /\ clearing' = {s \in Creations : owner[s] = k} \ {kept}
    /\ clearing' # {}
    /\ UNCHANGED <<key, admin, updates, session, owner, create>>

\* Mutant: the bindings stay behind.
DeleteSessions_Bound ==
    /\ clearing # {}
    /\ session' = [s \in Creations |-> IF s \in clearing THEN "deleted" ELSE session[s]]
    /\ clearing' = {}
    /\ UNCHANGED <<key, admin, updates, owner, create>>

\* ... are deleted with their bindings.  No quota is given back.
DeleteSessions ==
    /\ clearing # {}
    /\ session' = [s \in Creations |-> IF s \in clearing THEN "deleted" ELSE session[s]]
    /\ owner' = [s \in Creations |-> IF s \in clearing THEN None ELSE owner[s]]
    /\ clearing' = {}
    /\ UNCHANGED <<key, admin, updates, create>>

\* expires_at of a key passes.
ExpireKey(k) ==
    /\ ~key[k].expired
    /\ updates < MaxUpdates
    /\ updates' = updates + 1
    /\ key' = [key EXCEPT ![k].expired = TRUE]
    /\ UNCHANGED <<admin, session, owner, clearing, create>>

CreateStep(s) ==
    \/ \E ended \in BOOLEAN : Identify(s, ended)
    \/ ChargeKey(s)
    \/ CommitSession(s)

Next ==
    \/ \E s \in Creations : CreateStep(s) \/ (\E k \in Keys \cup {None} : Enter(s, k))
    \/ \E k \in Keys : LoadKey(k) \/ ExpireKey(k)
    \/ \E asked \in 0 .. MaxLimit, revoked, expired \in BOOLEAN :
         UpdateKey(asked, revoked, expired)
    \/ \E k \in Keys, kept \in Creations \cup {None} : ListSessions(k, kept)
    \/ DeleteSessions

Spec == Init /\ [][Next]_vars

-----------------------------------------------------------------------------
(* Properties.                                                             *)

TypeOK ==
    /\ key \in [Keys -> KeyRows]
    /\ session \in [Creations -> {"absent", "live", "deleted"}]
    /\ owner \in [Creations -> Keys \cup {None}]
    /\ create \in [Creations -> [pc : {"idle", "inside", "paying", "charged", "done", "refused"},
                                 caller : Keys \cup {None}, payer : Keys \cup {None},
                                 open : BOOLEAN]]
    /\ admin \in [key : Keys, copy : KeyRows] \cup {None}
    /\ updates \in 0 .. MaxUpdates
    /\ clearing \subseteq Creations

Paid(k) == {s \in Creations : create[s].pc = "done" /\ create[s].payer = k}

\* usage_count is the number of sessions ever created with the key: each is
\* charged once, whether it is still there or not, and nothing else is.
ChargedOnce == \A k \in Keys : key[k].count = Cardinality(Paid(k))

\* A session and its binding come and go together: a live session belongs to the
\* key that paid for it, to nobody when nobody did, and one that is gone to nobody.
BoundToPayer ==
    \A s \in Creations :
      owner[s] = IF session[s] = "live" THEN create[s].payer ELSE None

\* No session is charged beyond the limit of the moment, or to a disabled key.
ChargedWithinLimit ==
    [][\A k \in Keys : key'[k].count > key[k].count =>
         key'[k].count <= key[k].limit /\ ~key[k].revoked]_vars

=============================================================================

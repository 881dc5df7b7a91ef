--------------------------- MODULE AccessProofs -----------------------------
(***************************************************************************)
(* Theorems about AccessKeys, LoginSessions and UploadTickets. For any     *)
(* keys and requests, the quota and the ownership of the sessions are      *)
(* right whatever the order of the steps; for any attempts, cookies and    *)
(* timeouts, a logout is final and attempts that do not overlap keep to    *)
(* the rate; for any uploads and faults, the count of a ticket is exact as *)
(* long as no slot is counted from an old copy.                            *)
(***************************************************************************)
EXTENDS AccessKeys, LoginSessions, UploadTickets, FiniteSetTheorems, TLAPS

-----------------------------------------------------------------------------
(* The access keys: types.                                                 *)

\* What an update of a key makes of its row is a row.
LEMMA UpdatedRow ==
    ASSUME TypeOK, admin # None, NEW row \in KeyRows, NEW asked \in 0 .. MaxLimit,
           NEW revoked \in BOOLEAN, NEW expired \in BOOLEAN
    PROVE  /\ Updated(row, Limit(asked), revoked, expired) \in KeyRows
           /\ Updated(row, Limit(asked), revoked, expired).count = row.count
<1>1. Limit(asked) \in 1 .. MaxLimit
  BY BoundsNat DEF Limit
<1>2. /\ Column(admin.copy.limit, Limit(asked), row.limit) \in 1 .. MaxLimit
      /\ Column(admin.copy.revoked, revoked, row.revoked) \in BOOLEAN
      /\ Column(admin.copy.expired, expired, row.expired) \in BOOLEAN
  BY <1>1 DEF Column, KeyRows
<1>3. QED
  BY <1>2 DEF Updated, KeyRows

\* Who pays for a session whose creation is under way, and which sessions there are;
\* only sessions that are there are cleared.
Placed ==
    \A s \in Creations :
      /\ session[s] = "absent" <=> create[s].pc # "done"
      /\ create[s].pc \in {"idle", "inside"} => create[s].payer = None
      /\ create[s].pc \in {"paying", "charged"} => create[s].payer \in Keys
      /\ s \in clearing => create[s].pc = "done"

IInv == TypeOK /\ Placed /\ BoundToPayer

LEMMA InitIInv == Init => IInv
<1> SUFFICES ASSUME Init PROVE IInv
  OBVIOUS
<1>1. key \in [Keys -> KeyRows]
  <2>1. {0} \subseteq Nat /\ {FALSE} \subseteq BOOLEAN
    OBVIOUS
  <2>2. [limit : 1 .. MaxLimit, count : {0}, revoked : BOOLEAN, expired : {FALSE}]
          \subseteq KeyRows
    BY <2>1 DEF KeyRows
  <2>3. QED
    BY <2>2 DEF Init
<1>2. TypeOK
  BY <1>1, BoundsNat DEF Init, TypeOK
<1>3. Placed /\ BoundToPayer
  BY DEF Init, Placed, BoundToPayer
<1>4. QED
  BY <1>2, <1>3 DEF IInv

LEMMA NextIInv == IInv /\ [Next]_vars => IInv'
<1> SUFFICES ASSUME IInv, [Next]_vars PROVE IInv'
  OBVIOUS
<1> USE DEF IInv
<1>1. ASSUME NEW s \in Creations, NEW k \in Keys \cup {None}, Enter(s, k) PROVE IInv'
  BY <1>1, ZenonT(30) DEF Enter, TypeOK, Placed, BoundToPayer
<1>2. ASSUME NEW s \in Creations, NEW ended \in BOOLEAN, Identify(s, ended) PROVE IInv'
  <2>1. CASE create[s].caller # None /\ ~ended
    <3>1. create[s].caller \in Keys /\ key[create[s].caller].expired \in BOOLEAN
      BY <2>1 DEF TypeOK, KeyRows
    <3>2. QED
      BY <1>2, <2>1, <3>1 DEF Identify, TypeOK, Placed, BoundToPayer
  <2>2. CASE ~(create[s].caller # None /\ ~ended)
    BY <1>2, <2>2 DEF Identify, At, TypeOK, Placed, BoundToPayer
  <2>3. QED
    BY <2>1, <2>2
<1>3. ASSUME NEW s \in Creations, ChargeKey(s) PROVE IInv'
  <2>1. PICK where \in {"charged", "refused"} :
            create' = [create EXCEPT ![s].open = FALSE, ![s].pc = where]
    BY <1>3 DEF ChargeKey
  <2>2. QED
    BY <1>3, <2>1 DEF ChargeKey, TypeOK, Placed, BoundToPayer
<1>4. ASSUME NEW s \in Creations, CommitSession(s) PROVE IInv'
  <2>1. create[s].payer \in Keys
    BY <1>4 DEF CommitSession, Placed
  <2>2. TypeOK'
    <3>1. key' \in [Keys -> KeyRows]
      BY <1>4, <2>1 DEF CommitSession, TypeOK, KeyRows
    <3>2. QED
      BY <1>4, <2>1, <3>1 DEF CommitSession, At, TypeOK
  <2>3. Placed' /\ BoundToPayer'
    BY <1>4, <2>1 DEF CommitSession, At, TypeOK, Placed, BoundToPayer
  <2>4. QED
    BY <2>2, <2>3
<1>5. ASSUME NEW k \in Keys, LoadKey(k) PROVE IInv'
  BY <1>5, BoundsNat DEF LoadKey, TypeOK, Placed, BoundToPayer
<1>6. ASSUME NEW k \in Keys, ExpireKey(k) PROVE IInv'
  <2>1. key' \in [Keys -> KeyRows]
    BY <1>6 DEF ExpireKey, TypeOK, KeyRows
  <2>2. QED
    BY <1>6, <2>1, BoundsNat DEF ExpireKey, TypeOK, Placed, BoundToPayer
<1>7. ASSUME NEW asked \in 0 .. MaxLimit, NEW revoked \in BOOLEAN, NEW expired \in BOOLEAN,
             UpdateKey(asked, revoked, expired)
      PROVE  IInv'
  <2>1. admin # None /\ admin.key \in Keys /\ key[admin.key] \in KeyRows
    BY <1>7 DEF UpdateKey, TypeOK
  <2>2. Updated(key[admin.key], Limit(asked), revoked, expired) \in KeyRows
    BY <2>1, UpdatedRow
  <2>3. key' \in [Keys -> KeyRows]
    BY <1>7, <2>2 DEF UpdateKey, TypeOK
  <2>4. QED
    BY <1>7, <2>3 DEF UpdateKey, TypeOK, Placed, BoundToPayer
<1>8. ASSUME NEW k \in Keys, NEW kept \in Creations \cup {None}, ListSessions(k, kept) PROVE IInv'
  <2>1. \A s \in clearing' : s \in Creations /\ owner[s] = k
    BY <1>8 DEF ListSessions
  <2>2. \A s \in clearing' : create[s].pc = "done"
    BY <2>1, NoneIsNobody DEF TypeOK, Placed, BoundToPayer
  <2>3. QED
    BY <1>8, <2>1, <2>2 DEF ListSessions, TypeOK, Placed, BoundToPayer
<1>9. ASSUME DeleteSessions PROVE IInv'
  BY <1>9 DEF DeleteSessions, TypeOK, Placed, BoundToPayer
<1>10. ASSUME UNCHANGED vars PROVE IInv'
  BY <1>10 DEF vars, TypeOK, Placed, BoundToPayer
<1>11. QED
  BY <1>1, <1>2, <1>3, <1>4, <1>5, <1>6, <1>7, <1>8, <1>9, <1>10 DEF Next, CreateStep

\* Every variable keeps its type.
THEOREM TypeCorrect == Spec => []TypeOK
<1>1. IInv => TypeOK
  BY DEF IInv
<1>2. QED
  BY <1>1, InitIInv, NextIInv, PTL DEF Spec

\* Sessions and bindings come and go together (create_session_with_quota,
\* clear_account_sessions).
THEOREM OwnersPaid == Spec => []BoundToPayer
<1>1. IInv => BoundToPayer
  BY DEF IInv
<1>2. QED
  BY <1>1, InitIInv, NextIInv, PTL DEF Spec
-----------------------------------------------------------------------------
(* The quota.  A charged creation holds the lock of its key until it       *)
(* commits, so what its condition has found about the key is still true.   *)

Held ==
    \A s \in Creations : create[s].pc = "charged" =>
      /\ Affords(create[s].payer)
      /\ ~key[create[s].payer].revoked
      /\ \A t \in Creations \ {s} :
           create[t].pc = "charged" => create[t].payer # create[s].payer

QInv == IInv /\ ChargedOnce /\ Held

LEMMA PaidFinite == ASSUME NEW k \in Keys PROVE IsFiniteSet(Paid(k)) /\ IsFiniteSet(Paid(k)')
<1>1. Paid(k) \subseteq Creations /\ Paid(k)' \subseteq Creations
  BY DEF Paid
<1>2. QED
  BY <1>1, CreationsFinite, FS_Subset

LEMMA InitQInv == Init => QInv
<1> SUFFICES ASSUME Init PROVE QInv
  OBVIOUS
<1>1. ASSUME NEW k \in Keys PROVE key[k].count = Cardinality(Paid(k))
  <2>1. Paid(k) = {}
    BY DEF Init, Paid
  <2>2. key[k].count = 0
    BY DEF Init
  <2>3. QED
    BY <2>1, <2>2, FS_EmptySet
<1>2. Held
  BY DEF Init, Held
<1>3. QED
  BY <1>1, <1>2, InitIInv DEF QInv, ChargedOnce

\* Where no creation ends and no count changes, every count is still right.
LEMMA SameCounts ==
    ASSUME ChargedOnce,
           \A s \in Creations : /\ create'[s].pc = "done" <=> create[s].pc = "done"
                                /\ create[s].pc = "done" => create'[s].payer = create[s].payer,
           \A k \in Keys : key'[k].count = key[k].count
    PROVE  ChargedOnce'
<1>1. ASSUME NEW k \in Keys PROVE Paid(k)' = Paid(k)
  BY DEF Paid
<1>2. QED
  BY <1>1 DEF ChargedOnce

LEMMA NextQInv == QInv /\ [Next]_vars => QInv'
<1> SUFFICES ASSUME QInv, [Next]_vars PROVE ChargedOnce' /\ Held'
  BY NextIInv DEF QInv
<1> USE DEF QInv, IInv
<1>1. ASSUME NEW s \in Creations, NEW k \in Keys \cup {None}, Enter(s, k)
      PROVE  ChargedOnce' /\ Held'
  <2>1. ChargedOnce'
    BY <1>1, SameCounts DEF Enter, TypeOK
  <2>2. Held'
    BY <1>1 DEF Enter, TypeOK, Held, Affords
  <2>3. QED
    BY <2>1, <2>2
<1>2. ASSUME NEW s \in Creations, NEW ended \in BOOLEAN, Identify(s, ended)
      PROVE  ChargedOnce' /\ Held'
  <2>1. CASE create[s].caller # None /\ ~ended
    <3>1. /\ create' = [create EXCEPT ![s].payer = create[s].caller, ![s].pc = "paying",
                                      ![s].open = ~key[create[s].caller].expired]
          /\ create[s].pc = "inside" /\ key' = key
      BY <1>2, <2>1 DEF Identify
    <3>2. ChargedOnce'
      BY <3>1, SameCounts DEF TypeOK
    <3>3. Held'
      BY <3>1 DEF TypeOK, Held, Affords
    <3>4. QED
      BY <3>2, <3>3
  <2>2. CASE ~(create[s].caller # None /\ ~ended)
    <3>1. create' = [create EXCEPT ![s].pc = "done"] /\ create[s].pc = "inside" /\ key' = key
      BY <1>2, <2>2 DEF Identify, At
    <3>2. ASSUME NEW k \in Keys PROVE Paid(k)' = Paid(k)
      BY <3>1, NoneIsNobody DEF Paid, Placed, TypeOK
    <3>3. ChargedOnce'
      BY <3>1, <3>2 DEF ChargedOnce
    <3>4. Held'
      BY <3>1 DEF TypeOK, Held, Affords
    <3>5. QED
      BY <3>3, <3>4
  <2>3. QED
    BY <2>1, <2>2
<1>3. ASSUME NEW s \in Creations, ChargeKey(s) PROVE ChargedOnce' /\ Held'
  <2> DEFINE k == create[s].payer
             fits == ~key[k].revoked /\ create[s].open /\ Affords(k)
  <2>1. /\ create' = [create EXCEPT ![s].open = FALSE,
                                    ![s].pc = IF fits THEN "charged" ELSE "refused"]
        /\ create[s].pc = "paying" /\ ~Locked(k) /\ key' = key
    BY <1>3 DEF ChargeKey
  <2>2. ChargedOnce'
    BY <2>1, SameCounts DEF TypeOK
  <2>3. /\ \A t \in Creations : create'[t].payer = create[t].payer
        /\ \A t \in Creations \ {s} : create'[t].pc = create[t].pc
        /\ create'[s].pc = "charged" => fits
    BY <2>1 DEF TypeOK
  <2>4. \A t \in Creations \ {s} : create[t].pc = "charged" => create[t].payer # k
    BY <2>1 DEF Locked
  <2>5. Held'
    <3> SUFFICES ASSUME NEW t \in Creations, create'[t].pc = "charged"
                 PROVE  /\ Affords(create[t].payer)
                        /\ ~key[create[t].payer].revoked
                        /\ \A u \in Creations \ {t} :
                             create'[u].pc = "charged" => create[u].payer # create[t].payer
      BY <2>1, <2>3, ZenonT(30) DEF Held, Affords
    <3>1. CASE t = s
      BY <3>1, <2>3, <2>4
    <3>2. CASE t # s
      BY <3>2, <2>3, <2>4 DEF Held
    <3>3. QED
      BY <3>1, <3>2
  <2>6. QED
    BY <2>2, <2>5
<1>4. ASSUME NEW s \in Creations, CommitSession(s) PROVE ChargedOnce' /\ Held'
  <2> DEFINE k == create[s].payer
  <2>1. /\ k \in Keys /\ create[s].pc = "charged"
        /\ create' = [create EXCEPT ![s].pc = "done"]
        /\ key' = [key EXCEPT ![k].count = @ + 1]
    BY <1>4 DEF CommitSession, Placed, At
  <2>2. ASSUME NEW h \in Keys PROVE key'[h].count = Cardinality(Paid(h)')
    <3>1. CASE h = k
      <4>1. Paid(k)' = Paid(k) \cup {s} /\ s \notin Paid(k)
        BY <2>1 DEF Paid, TypeOK
      <4>2. Cardinality(Paid(k)') = Cardinality(Paid(k)) + 1
        BY <4>1, <2>1, PaidFinite, FS_AddElement
      <4>3. key'[k].count = key[k].count + 1
        BY <2>1 DEF TypeOK, KeyRows
      <4>4. QED
        BY <3>1, <4>2, <4>3, <2>1 DEF ChargedOnce
    <3>2. CASE h # k
      <4>1. Paid(h)' = Paid(h)
        BY <2>1, <3>2 DEF Paid, TypeOK
      <4>2. key'[h].count = key[h].count
        BY <2>1, <3>2 DEF TypeOK
      <4>3. QED
        BY <4>1, <4>2 DEF ChargedOnce
    <3>3. QED
      BY <3>1, <3>2
  <2>3. Held'
    <3>1. \A t \in Creations : /\ create'[t].payer = create[t].payer
                               /\ create'[t].pc = "charged" => t # s /\ create[t].pc = "charged"
      BY <2>1 DEF TypeOK
    <3>2. \A t \in Creations : create'[t].pc = "charged" => create[t].payer # k
      BY <3>1, <2>1 DEF Held
    <3>3. \A h \in Keys \ {k} : key'[h] = key[h]
      BY <2>1 DEF TypeOK
    <3>4. \A t \in Creations : create'[t].pc = "charged" => create[t].payer \in Keys \ {k}
      BY <3>1, <3>2 DEF Placed
    <3>5. QED
      BY <3>1, <3>3, <3>4 DEF Held, Affords
  <2>4. QED
    BY <2>2, <2>3 DEF ChargedOnce
<1>5. ASSUME NEW k \in Keys, LoadKey(k) PROVE ChargedOnce' /\ Held'
  BY <1>5, SameCounts DEF LoadKey, Held, Affords
<1>6. ASSUME NEW k \in Keys, ExpireKey(k) PROVE ChargedOnce' /\ Held'
  <2>1. /\ create' = create
        /\ \A h \in Keys : /\ key'[h].count = key[h].count
                           /\ key'[h].limit = key[h].limit
                           /\ key'[h].revoked = key[h].revoked
    BY <1>6 DEF ExpireKey, TypeOK, KeyRows
  <2>2. ChargedOnce'
    BY <2>1, SameCounts
  <2>3. Held'
    BY <2>1 DEF Held, Affords, Placed
  <2>4. QED
    BY <2>2, <2>3
<1>7. ASSUME NEW asked \in 0 .. MaxLimit, NEW revoked \in BOOLEAN, NEW expired \in BOOLEAN,
             UpdateKey(asked, revoked, expired)
      PROVE  ChargedOnce' /\ Held'
  <2>1. /\ admin # None /\ admin.key \in Keys /\ key[admin.key] \in KeyRows
        /\ create' = create /\ ~Locked(admin.key)
        /\ key' = [key EXCEPT ![admin.key] =
                     Updated(key[admin.key], Limit(asked), revoked, expired)]
    BY <1>7 DEF UpdateKey, TypeOK
  <2>2. Updated(key[admin.key], Limit(asked), revoked, expired).count = key[admin.key].count
    BY <2>1, UpdatedRow
  <2>3. /\ \A h \in Keys : key'[h].count = key[h].count
        /\ \A h \in Keys \ {admin.key} : key'[h] = key[h]
    BY <2>1, <2>2 DEF TypeOK
  <2>4. ChargedOnce'
    BY <2>1, <2>3, SameCounts
  <2>5. \A t \in Creations : create[t].pc = "charged" => create[t].payer \in Keys \ {admin.key}
    BY <2>1 DEF Locked, Placed
  <2>6. Held'
    BY <2>1, <2>3, <2>5 DEF Held, Affords
  <2>7. QED
    BY <2>4, <2>6
<1>8. ASSUME NEW k \in Keys, NEW kept \in Creations \cup {None}, ListSessions(k, kept)
      PROVE  ChargedOnce' /\ Held'
  BY <1>8, SameCounts DEF ListSessions, Held, Affords
<1>9. ASSUME DeleteSessions PROVE ChargedOnce' /\ Held'
  BY <1>9, SameCounts DEF DeleteSessions, Held, Affords
<1>10. ASSUME UNCHANGED vars PROVE ChargedOnce' /\ Held'
  BY <1>10, SameCounts DEF vars, Held, Affords
<1>11. QED
  BY <1>1, <1>2, <1>3, <1>4, <1>5, <1>6, <1>7, <1>8, <1>9, <1>10 DEF Next, CreateStep

\* The count of a key is the number of sessions ever created with it
\* (consume_session_quota, update_key, clear_account_sessions).
THEOREM QuotaExact == Spec => []ChargedOnce
<1>1. QInv => ChargedOnce
  BY DEF QInv
<1>2. QED
  BY <1>1, InitQInv, NextQInv, PTL DEF Spec

WithinLimit ==
    \A k \in Keys : key'[k].count > key[k].count =>
      key'[k].count <= key[k].limit /\ ~key[k].revoked

\* Only the commit of a creation raises a count, by one.
LEMMA NextWithinLimit == QInv /\ [Next]_vars => WithinLimit \/ UNCHANGED vars
<1> SUFFICES ASSUME QInv, [Next]_vars, NEW k \in Keys, key'[k].count > key[k].count
             PROVE  key'[k].count <= key[k].limit /\ ~key[k].revoked
  BY DEF WithinLimit
<1> USE DEF QInv, IInv
<1>1. key[k] \in KeyRows
  BY DEF TypeOK
<1>2. ASSUME NEW s \in Creations, CommitSession(s)
      PROVE  key'[k].count <= key[k].limit /\ ~key[k].revoked
  <2>1. /\ create[s].payer \in Keys /\ create[s].pc = "charged"
        /\ key' = [key EXCEPT ![create[s].payer].count = @ + 1]
    BY <1>2 DEF CommitSession, Placed
  <2>2. k = create[s].payer /\ key'[k].count = key[k].count + 1
    BY <2>1, <1>1 DEF TypeOK, KeyRows
  <2>3. key[k].count < key[k].limit /\ ~key[k].revoked
    BY <2>1, <2>2 DEF Held, Affords
  <2>4. QED
    BY <2>2, <2>3, <1>1 DEF KeyRows
<1>3. ASSUME NEW h \in Keys, ExpireKey(h) PROVE FALSE
  BY <1>3, <1>1 DEF ExpireKey, TypeOK, KeyRows
<1>4. ASSUME NEW asked \in 0 .. MaxLimit, NEW revoked \in BOOLEAN, NEW expired \in BOOLEAN,
             UpdateKey(asked, revoked, expired)
      PROVE  FALSE
  <2>1. /\ admin # None /\ admin.key \in Keys /\ key[admin.key] \in KeyRows
        /\ key' = [key EXCEPT ![admin.key] =
                     Updated(key[admin.key], Limit(asked), revoked, expired)]
    BY <1>4 DEF UpdateKey, TypeOK
  <2>2. key'[k].count = key[k].count
    BY <2>1, UpdatedRow DEF TypeOK
  <2>3. QED
    BY <2>2, <1>1 DEF KeyRows
<1>5. ASSUME key' = key PROVE FALSE
  BY <1>5, <1>1 DEF KeyRows
<1>6. QED
  BY <1>2, <1>3, <1>4, <1>5
     DEF Next, CreateStep, Enter, Identify, ChargeKey, LoadKey, ListSessions, DeleteSessions, vars

\* No creation is charged beyond the limit its key has at that moment, and none to a
\* disabled key (consume_session_quota).
THEOREM QuotaKept == Spec => ChargedWithinLimit
<1>1. QInv /\ [Next]_vars => [WithinLimit]_vars
  BY NextWithinLimit
<1>2. QED
  BY <1>1, InitQInv, NextQInv, PTL DEF Spec, ChargedWithinLimit, WithinLimit

-----------------------------------------------------------------------------
(* The login sessions: types.                                              *)

\* The types the argument needs; LoginTypeOK has those of the times.
Typed ==
    /\ cookie \in [Logins -> Cookies \cup {NoCookie}]
    /\ DOMAIN login = Logins
    /\ now \in Nat
    /\ \A c \in Logins : login[c].at \in Nat
    /\ request \in [Requests -> [pc : {"idle", "touching", "inside", "leaving"},
                                 with : Logins \cup {NoCookie}, at : Nat]]

\* A cookie is the last step of its attempt, and a request in progress has one.
Ordered ==
    /\ \A c \in Logins : login[c].pc \in {"idle", "checked", "failing"} => cookie[c] = NoCookie
    /\ \A r \in Requests : request[r].pc # "idle" =>
         request[r].with \in Logins /\ cookie[request[r].with] # NoCookie

LoginInv == Typed /\ Ordered

LEMMA LoginInitInv == LoginInit => LoginInv
BY NumbersNat DEF LoginInit, Ended, LoginInv, Typed, Ordered

\* A request goes on with its cookie, or ends.
LEMMA NextRequest ==
    ASSUME LoginInv, NEW r \in Requests,
           NEW where \in {"touching", "inside", "leaving"}, NEW c \in Logins, NEW at \in Nat,
           \/ request' = [request EXCEPT ![r] = Ended]
           \/ request' = [request EXCEPT ![r] = [pc |-> where, with |-> c, at |-> at]],
           cookie[c] # NoCookie, cookie' = cookie, login' = login, now' = now
    PROVE  LoginInv'
<1>1. Typed'
  BY DEF LoginInv, Typed, Ended
<1>2. Ordered'
  BY DEF LoginInv, Typed, Ordered, Ended
<1>3. QED
  BY <1>1, <1>2 DEF LoginInv

Final == \A c \in Logins : cookie[c] # NoCookie /\ cookie[c].revoked => cookie'[c].revoked

LEMMA LoginNextInv == LoginInv /\ [LoginNext]_authVars => LoginInv' /\ Final
<1> SUFFICES ASSUME LoginInv, [LoginNext]_authVars PROVE LoginInv' /\ Final
  OBVIOUS
<1> USE DEF LoginInv
<1>1. ASSUME NEW c \in Logins, CheckRate(c) PROVE LoginInv' /\ Final
  <2>1. PICK where : login' = [login EXCEPT ![c].at = now, ![c].pc = where] /\ login[c].pc = "idle"
    BY <1>1 DEF CheckRate
  <2>2. cookie' = cookie /\ request' = request /\ now' = now
    BY <1>1 DEF CheckRate
  <2>3. Typed'
    BY <2>1, <2>2 DEF Typed
  <2>4. Ordered' /\ Final
    BY <2>1, <2>2 DEF Typed, Ordered, Final
  <2>5. QED
    BY <2>3, <2>4
<1>2. ASSUME NEW c \in Logins, Succeed(c) PROVE LoginInv' /\ Final
  <2> DEFINE row == [seen |-> login[c].at, expires |-> login[c].at + Ttl, revoked |-> FALSE]
  <2>1. /\ login[c].pc = "checked" /\ cookie[c] = NoCookie
        /\ cookie' = [cookie EXCEPT ![c] = row]
        /\ login' = [login EXCEPT ![c].pc = "in"]
        /\ now' = now /\ request' = request
    BY <1>2 DEF Succeed, Ordered
  <2>2. row \in Cookies /\ row # NoCookie
    <3>1. login[c].at \in Nat /\ Ttl \in Nat
      BY NumbersNat DEF Typed
    <3>2. row \in Cookies
      BY <3>1 DEF Cookies
    <3>3. QED
      BY <3>2, NoCookieIsNone
  <2> HIDE DEF row
  <2>3. Typed'
    BY <2>1, <2>2 DEF Typed
  <2>4. Ordered'
    BY <2>1, <2>2 DEF Typed, Ordered
  <2>5. Final
    BY <2>1 DEF Typed, Final
  <2>6. QED
    BY <2>3, <2>4, <2>5
<1>3. ASSUME NEW c \in Logins, Fail(c) \/ RecordFailure(c) PROVE LoginInv' /\ Final
  <2>1. \E kept : \/ login' = [login EXCEPT ![c].pc = "failing", ![c].kept = kept]
                  \/ login' = [login EXCEPT ![c].pc = "failed", ![c].kept = kept]
    BY <1>3 DEF Fail, RecordFailure
  <2>2. PICK kept : \E where \in {"failing", "failed"} :
                       login' = [login EXCEPT ![c].pc = where, ![c].kept = kept]
    BY <2>1
  <2>3. PICK where \in {"failing", "failed"} :
          login' = [login EXCEPT ![c].pc = where, ![c].kept = kept]
    BY <2>2
  <2>4. /\ login[c].pc \in {"checked", "failing"}
        /\ cookie' = cookie /\ request' = request /\ now' = now
    BY <1>3 DEF Fail, RecordFailure
  <2>5. QED
    BY <2>3, <2>4 DEF Typed, Ordered, Final
<1>4. ASSUME NEW r \in Requests, NEW c \in Logins, UseCookie(r, c) PROVE LoginInv' /\ Final
  <2>1. /\ cookie[c] # NoCookie /\ cookie' = cookie /\ login' = login /\ now' = now
        /\ \/ request' = [request EXCEPT ![r] = [pc |-> "touching", with |-> c, at |-> now]]
           \/ request' = [request EXCEPT ![r] = [pc |-> "inside", with |-> c, at |-> 0]]
    BY <1>4 DEF UseCookie, Accepted, loginVars
  <2>2. LoginInv'
    BY <2>1, NextRequest DEF Typed
  <2>3. QED
    BY <2>1, <2>2 DEF Final
<1>5. ASSUME NEW r \in Requests, TouchCookie(r) PROVE LoginInv' /\ Final
  <2> DEFINE c == request[r].with
  <2>1. /\ c \in Logins /\ cookie[c] \in Cookies /\ request[r].at \in Nat
        /\ cookie' = [cookie EXCEPT ![c] = Touched(cookie[c], request[r].at)]
        /\ request' = [request EXCEPT ![r].pc = "inside", ![r].at = 0]
        /\ login' = login /\ now' = now
    BY <1>5 DEF TouchCookie, Typed, Ordered, loginVars
  <2>2. /\ Touched(cookie[c], request[r].at) \in Cookies
        /\ Touched(cookie[c], request[r].at).revoked = cookie[c].revoked
    BY <2>1 DEF Touched, Cookies
  <2>3. Typed'
    BY <2>1, <2>2 DEF Typed
  <2>4. Ordered'
    BY <2>1, <2>2, NoCookieIsNone, <1>5 DEF TouchCookie, Typed, Ordered
  <2>5. Final
    BY <2>1, <2>2 DEF Typed, Final
  <2>6. QED
    BY <2>3, <2>4, <2>5
<1>6. ASSUME NEW r \in Requests, Serve(r) PROVE LoginInv' /\ Final
  <2>1. request' = [request EXCEPT ![r] = Ended] /\ UNCHANGED <<now, cookie, login>>
    BY <1>6 DEF Serve, loginVars
  <2>2. QED
    BY <2>1, NumbersNat DEF Ended, Typed, Ordered, Final
<1>7. ASSUME NEW r \in Requests, LoadForLogout(r) PROVE LoginInv' /\ Final
  <2>1. /\ request[r].pc = "inside" /\ UNCHANGED <<now, cookie, login>>
        /\ \/ request' = [request EXCEPT ![r] = Ended]
           \/ request' = [request EXCEPT ![r] = [request[r] EXCEPT !.pc = "leaving"]]
    BY <1>7 DEF LoadForLogout, loginVars
  <2>2. CASE request' = [request EXCEPT ![r] = Ended]
    BY <2>1, <2>2, NumbersNat DEF Ended, Typed, Ordered, Final
  <2>3. CASE request' = [request EXCEPT ![r] = [request[r] EXCEPT !.pc = "leaving"]]
    BY <2>1, <2>3 DEF Typed, Ordered, Final
  <2>4. QED
    BY <2>1, <2>2, <2>3
<1>8. ASSUME NEW r \in Requests, Logout(r) PROVE LoginInv' /\ Final
  <2> DEFINE c == request[r].with
             row == [cookie[c] EXCEPT !.revoked = TRUE]
  <2>1. /\ c \in Logins /\ cookie[c] \in Cookies
        /\ cookie' = [cookie EXCEPT ![c] = row]
        /\ request' = [request EXCEPT ![r] = Ended]
        /\ login' = login /\ now' = now
    BY <1>8 DEF Logout, Typed, Ordered, loginVars
  <2>2. row \in Cookies /\ row.revoked /\ row # NoCookie
    BY <2>1, NoCookieIsNone DEF Cookies
  <2> HIDE DEF row
  <2>3. Typed'
    BY <2>1, <2>2, NumbersNat DEF Typed, Ended
  <2>4. Ordered'
    BY <2>1, <2>2, <1>8 DEF Logout, Typed, Ordered, Ended
  <2>5. Final
    BY <2>1, <2>2 DEF Typed, Final
  <2>6. QED
    BY <2>3, <2>4, <2>5
<1>9. ASSUME Tick PROVE LoginInv' /\ Final
  BY <1>9 DEF Tick, loginVars, Typed, Ordered, Final
<1>10. ASSUME UNCHANGED authVars PROVE LoginInv' /\ Final
  BY <1>10 DEF authVars, loginVars, Typed, Ordered, Final
<1>11. QED
  BY <1>1, <1>2, <1>3, <1>4, <1>5, <1>6, <1>7, <1>8, <1>9, <1>10 DEF LoginNext

\* No touch of a request under way brings a cookie back that was logged out
\* (touch of simple_auth_middleware, revoke_current_auth_session).
THEOREM LogoutFinal == LoginSpec => LoggedOutForGood
<1>1. LoginInv /\ [LoginNext]_authVars => [Final]_authVars
  BY LoginNextInv
<1>2. QED
  BY <1>1, LoginInitInv, LoginNextInv, PTL DEF LoginSpec, LoggedOutForGood, Final

-----------------------------------------------------------------------------
(* The rate of failures.                                                   *)

LoginTyped ==
    /\ login \in [Logins -> [pc : {"idle", "checked", "failing", "failed", "refused", "in"},
                             at : Nat, kept : SUBSET Logins]]
    /\ failures \in SUBSET Logins /\ since \in SUBSET Logins /\ overlapped \in BOOLEAN
    /\ now \in Nat
    /\ \A c \in Logins : login[c].at <= now

\* The failures that an attempt made at t counts, if the list has them all.
SinceWindow(t) == {d \in since : login[d].at >= t - Window}

\* One attempt at a time: the list that the next one counts has every failure that
\* is still in the window, and an attempt that was let through found room for one
\* more.
Alone ==
    /\ \A c, d \in Logins : c \in LoggingIn /\ d \in LoggingIn => c = d
    /\ \A c \in since : login[c].pc \in {"failing", "failed"}
    /\ \A c \in Logins : login[c].pc = "failing" => failures = login[c].kept
    /\ \A d \in SinceWindow(now) : login[d].pc = "failed" => d \in failures
    /\ \A c \in Logins : login[c].pc = "checked" => Cardinality(SinceWindow(login[c].at)) < Attempts

Within(t) == {c \in since : t <= login[c].at /\ login[c].at <= t + Window}
Rate == \A t \in Nat : Cardinality(Within(t)) <= Attempts

Throttle == LoginTyped /\ (~overlapped => Alone /\ Rate)

\* One attempt moves on.
LEMMA LoginMoves ==
    ASSUME LoginTyped, NEW c \in Logins, NEW where \in {"failing", "failed"}, NEW kept \in SUBSET Logins,
           login' = [login EXCEPT ![c].pc = where, ![c].kept = kept],
           failures' \in SUBSET Logins, since' \in SUBSET Logins, overlapped' = overlapped, now' = now
    PROVE  LoginTyped'
<1> DEFINE row == [login[c] EXCEPT !.pc = where, !.kept = kept]
<1>1. login' = [login EXCEPT ![c] = row]
  OBVIOUS
<1>2. /\ row \in [pc : {"idle", "checked", "failing", "failed", "refused", "in"},
                  at : Nat, kept : SUBSET Logins]
      /\ row.at = login[c].at
  <2>1. login[c] \in [pc : {"idle", "checked", "failing", "failed", "refused", "in"},
                      at : Nat, kept : SUBSET Logins]
    BY DEF LoginTyped
  <2>2. QED
    BY <2>1
<1> HIDE DEF row
<1>3. \A d \in Logins : login'[d].at = login[d].at
  BY <1>1, <1>2 DEF LoginTyped
<1>4. QED
  BY <1>1, <1>2, <1>3, ZenonT(30) DEF LoginTyped

LEMMA SinceFinite ==
    ASSUME LoginTyped
    PROVE  /\ \A t : IsFiniteSet(SinceWindow(t)) /\ Cardinality(SinceWindow(t)) \in Nat
           /\ \A t : IsFiniteSet(Within(t)) /\ Cardinality(Within(t)) \in Nat
           /\ IsFiniteSet(failures)
<1>1. \A S \in SUBSET Logins : IsFiniteSet(S) /\ Cardinality(S) \in Nat
  BY LoginsFinite, FS_Subset, FS_CardinalityType
<1>2. \A t : SinceWindow(t) \in SUBSET Logins /\ Within(t) \in SUBSET Logins
  BY DEF LoginTyped, SinceWindow, Within
<1>3. QED
  BY <1>1, <1>2 DEF LoginTyped

\* An attempt begins: what it counts is what it is let through on.
LEMMA ThrottleCheckRate ==
    ASSUME Throttle, NEW c \in Logins, CheckRate(c)
    PROVE  Throttle'
<1> DEFINE counted == Recent(failures, now)
<1>1. PICK where \in {"refused", "checked"} :
        /\ login' = [login EXCEPT ![c].at = now, ![c].pc = where]
        /\ where = "checked" => ~(Cardinality(counted) >= Attempts)
  BY DEF CheckRate
<1>2. /\ login[c].pc = "idle" /\ failures' = counted /\ now' = now /\ since' = since
      /\ overlapped' = (overlapped \/ LoggingIn # {})
  BY DEF CheckRate
<1>3. LoginTyped
  BY DEF Throttle
<1>4. counted \in SUBSET failures
  BY DEF Recent
<1>5. LoginTyped'
  BY <1>1, <1>2, <1>3, <1>4 DEF LoginTyped
<1>6. ASSUME ~overlapped' PROVE Alone' /\ Rate'
  <2>1. ~overlapped /\ LoggingIn = {} /\ Alone /\ Rate
    BY <1>2, <1>3, <1>6 DEF Throttle, LoginTyped
  <2>2. /\ login'[c].at = now /\ login'[c].pc = where
        /\ \A d \in Logins : d # c => login'[d] = login[d]
    BY <1>1, <1>3 DEF LoginTyped
  <2>3. \A d \in since : d \in Logins /\ d # c /\ login[d].pc = "failed" /\ login'[d] = login[d]
    BY <1>2, <1>3, <2>1, <2>2 DEF LoginTyped, Alone, LoggingIn
  <2>4. \A d \in Logins : login'[d].pc \in {"checked", "failing"} => d = c /\ where = "checked"
    BY <1>1, <2>1, <2>2 DEF LoggingIn
  <2>5. SinceWindow(now) \in SUBSET counted
    BY <2>1, <2>3 DEF Alone, SinceWindow, Recent
  <2>6. \A t : SinceWindow(t)' = SinceWindow(t) /\ Within(t)' = Within(t)
    BY <1>2, <2>3 DEF SinceWindow, Within
  <2>7. where = "checked" => Cardinality(SinceWindow(now)) < Attempts
    <3>1. IsFiniteSet(counted)
      BY <1>3, <1>4, SinceFinite, FS_Subset
    <3>2. Cardinality(SinceWindow(now)) <= Cardinality(counted)
      BY <2>5, <3>1, FS_Subset
    <3>3. Cardinality(SinceWindow(now)) \in Nat /\ Cardinality(counted) \in Nat /\ Attempts \in Nat
      BY <1>3, <3>1, SinceFinite, FS_CardinalityType, NumbersNat
    <3>4. QED
      BY <1>1, <3>2, <3>3
  <2>8. \A a, d \in Logins : a \in LoggingIn' /\ d \in LoggingIn' => a = d
    BY <2>4 DEF LoggingIn
  <2>9. \A d \in since' : login'[d].pc \in {"failing", "failed"}
    BY <1>2, <2>3
  <2>10. \A d \in Logins : login'[d].pc # "failing"
    BY <1>1, <2>2, <2>4
  <2>11. \A d \in SinceWindow(now)' : d \in failures'
    BY <1>2, <2>5, <2>6 DEF SinceWindow
  <2>12. \A d \in Logins : login'[d].pc = "checked" => Cardinality(SinceWindow(login[d].at)') < Attempts
    <3> SUFFICES ASSUME NEW d \in Logins, login'[d].pc = "checked"
                 PROVE  Cardinality(SinceWindow(login[d].at)') < Attempts
      OBVIOUS
    <3>1. d = c /\ where = "checked" /\ login'[d].at = now
      BY <2>2, <2>4
    <3>2. SinceWindow(login[d].at)' = SinceWindow(now)
      BY <1>2, <2>3, <3>1 DEF SinceWindow
    <3>3. QED
      BY <2>7, <3>1, <3>2
  <2>13. Alone'
    BY <2>8, <2>9, <2>10, <2>11, <2>12 DEF Alone
  <2>14. Rate'
    BY <2>1, <2>6 DEF Rate
  <2>15. QED
    BY <2>13, <2>14
<1>7. QED
  BY <1>5, <1>6 DEF Throttle

LEMMA ThrottleSucceed ==
    ASSUME Throttle, NEW c \in Logins, Succeed(c)
    PROVE  Throttle'
<1>1. /\ login' = [login EXCEPT ![c].pc = "in"] /\ failures' = {} /\ since' = {}
      /\ now' = now /\ overlapped' = overlapped
  BY DEF Succeed
<1>2. LoginTyped
  BY DEF Throttle
<1>3. LoginTyped'
  BY <1>1, <1>2 DEF LoginTyped
<1>4. /\ login'[c].pc = "in"
      /\ \A d \in Logins : d # c => login'[d] = login[d]
  BY <1>1, <1>2 DEF LoginTyped
<1>5. \A t : SinceWindow(t)' = {} /\ Within(t)' = {}
  BY <1>1 DEF SinceWindow, Within
<1>6. Cardinality({}) = 0 /\ Attempts \in Nat \ {0}
  BY FS_EmptySet, NumbersNat
<1>7. ASSUME ~overlapped' PROVE Alone' /\ Rate'
  <2>1. Alone /\ c \in LoggingIn
    BY <1>1, <1>7 DEF Throttle, Succeed, LoggingIn
  <2>2. \A d \in Logins : login'[d].pc \notin {"checked", "failing"}
    BY <1>4, <2>1 DEF Alone, LoggingIn
  <2>3. Alone'
    BY <1>1, <1>5, <2>2 DEF Alone, LoggingIn
  <2>4. Rate'
    BY <1>5, <1>6 DEF Rate
  <2>5. QED
    BY <2>3, <2>4
<1>8. QED
  BY <1>3, <1>7 DEF Throttle

\* An attempt fails: those within a window of it are those it counted.
LEMMA ThrottleFail ==
    ASSUME Throttle, NEW c \in Logins, Fail(c)
    PROVE  Throttle'
<1> DEFINE kept == Recent(failures, login[c].at)
<1>1. /\ login' = [login EXCEPT ![c].pc = "failing", ![c].kept = kept] /\ login[c].pc = "checked"
      /\ failures' = kept /\ since' = since \cup {c} /\ now' = now /\ overlapped' = overlapped
  BY DEF Fail
<1>2. LoginTyped
  BY DEF Throttle
<1>3. kept \in SUBSET failures /\ \A d \in failures : d \in kept <=> login[d].at >= login[c].at - Window
  BY DEF Recent
<1> HIDE DEF kept
<1>4. LoginTyped'
  <2>1. kept \in SUBSET Logins /\ since \cup {c} \in SUBSET Logins
    BY <1>2, <1>3 DEF LoginTyped
  <2>2. QED
    BY <1>1, <1>2, <2>1, LoginMoves
<1>5. /\ login'[c].pc = "failing" /\ login'[c].kept = kept /\ login'[c].at = login[c].at
      /\ \A d \in Logins : d # c => login'[d] = login[d]
  BY <1>1, <1>2 DEF LoginTyped
<1>6. ASSUME ~overlapped' PROVE Alone' /\ Rate'
  <2>1. Alone /\ Rate /\ c \in LoggingIn
    BY <1>1, <1>6 DEF Throttle, LoggingIn
  <2>2. \A d \in Logins : d # c => login[d].pc \notin {"checked", "failing"}
    BY <2>1 DEF Alone, LoggingIn
  <2>3. \A d \in Logins : login'[d].at = login[d].at /\ login[d].at \in Nat /\ login[d].at <= now
    BY <1>2, <1>5 DEF LoginTyped
  <2>4. Window \in Nat /\ Attempts \in Nat /\ now \in Nat
    BY <1>2, NumbersNat DEF LoginTyped
  <2>5. \A d \in SinceWindow(now)' : login'[d].pc = "failed" => d \in failures'
    <3> SUFFICES ASSUME NEW d \in Logins, d \in since', login'[d].at >= now - Window,
                        login'[d].pc = "failed"
                 PROVE  d \in failures'
      BY <1>1, <1>4 DEF SinceWindow, LoginTyped
    <3>1. d # c /\ d \in since /\ login[d].pc = "failed" /\ login[d].at >= now - Window
      BY <1>1, <1>5
    <3>2. d \in failures
      BY <2>1, <3>1 DEF Alone, SinceWindow
    <3>3. login[d].at >= login[c].at - Window
      BY <2>3, <2>4, <3>1
    <3>4. QED
      BY <1>1, <1>3, <3>2, <3>3
  <2>6. Alone'
    <3>1. \A a, d \in Logins : a \in LoggingIn' /\ d \in LoggingIn' => a = d
      BY <1>5, <2>2 DEF LoggingIn
    <3>2. \A d \in since' : login'[d].pc \in {"failing", "failed"}
      BY <1>1, <1>2, <1>5, <2>1 DEF Alone, LoginTyped
    <3>3. \A d \in Logins : login'[d].pc = "failing" => failures' = login'[d].kept
      BY <1>1, <1>5, <2>2
    <3>4. \A d \in Logins : login'[d].pc # "checked"
      BY <1>5, <2>2
    <3>5. QED
      BY <2>5, <3>1, <3>2, <3>3, <3>4 DEF Alone
  <2>7. Rate'
    <3> SUFFICES ASSUME NEW t \in Nat PROVE Cardinality(Within(t)') <= Attempts
      BY DEF Rate
    <3>1. \A d \in Within(t)' : d \in Within(t) \/ d = c
      BY <1>1, <1>2, <2>3 DEF Within, LoginTyped
    <3>2. CASE c \in Within(t)'
      <4>1. t <= login[c].at /\ login[c].at <= t + Window
        BY <2>3, <3>2 DEF Within
      <4>2. Within(t)' \in SUBSET (SinceWindow(login[c].at) \cup {c})
        BY <1>2, <2>3, <2>4, <3>1, <4>1 DEF Within, SinceWindow, LoginTyped
      <4> DEFINE S == SinceWindow(login[c].at)
      <4>3. IsFiniteSet(S) /\ Cardinality(S) \in Nat /\ Cardinality(S) < Attempts
        BY <1>1, <1>2, <2>1, SinceFinite DEF Alone
      <4> HIDE DEF S
      <4>4. IsFiniteSet(S \cup {c}) /\ Cardinality(S \cup {c}) <= Cardinality(S) + 1
        BY <4>3, FS_AddElement
      <4>5. Cardinality(Within(t)') <= Cardinality(S \cup {c})
        BY <4>2, <4>4, FS_Subset DEF S
      <4>6. Cardinality(Within(t)') \in Nat /\ Cardinality(S \cup {c}) \in Nat
        BY <4>2, <4>4, FS_Subset, FS_CardinalityType DEF S
      <4>7. QED
        BY <2>4, <4>3, <4>4, <4>5, <4>6
    <3>3. CASE c \notin Within(t)'
      <4>1. Within(t)' \in SUBSET Within(t)
        BY <3>1, <3>3
      <4>2. Cardinality(Within(t)') <= Cardinality(Within(t)) /\ Cardinality(Within(t)) <= Attempts
        BY <1>2, <2>1, <4>1, SinceFinite, FS_Subset DEF Rate
      <4>3. Cardinality(Within(t)') \in Nat /\ Cardinality(Within(t)) \in Nat
        BY <1>2, <4>1, SinceFinite, FS_Subset, FS_CardinalityType
      <4>4. QED
        BY <2>4, <4>2, <4>3
    <3>4. QED
      BY <3>2, <3>3
  <2>8. QED
    BY <2>6, <2>7
<1>7. QED
  BY <1>4, <1>6 DEF Throttle

LEMMA ThrottleRecord ==
    ASSUME Throttle, NEW c \in Logins, RecordFailure(c)
    PROVE  Throttle'
<1>1. /\ login' = [login EXCEPT ![c].pc = "failed", ![c].kept = {}] /\ login[c].pc = "failing"
      /\ failures' = login[c].kept \cup {c}
      /\ since' = since /\ now' = now /\ overlapped' = overlapped
  BY DEF RecordFailure
<1>2. LoginTyped
  BY DEF Throttle
<1>3. LoginTyped'
  <2>1. failures' \in SUBSET Logins /\ since' \in SUBSET Logins /\ {} \in SUBSET Logins
    BY <1>1, <1>2 DEF LoginTyped
  <2>2. "failed" \in {"failing", "failed"}
    OBVIOUS
  <2>3. QED
    BY <1>1, <1>2, <2>1, <2>2, LoginMoves
<1>4. /\ login'[c].pc = "failed" /\ login'[c].at = login[c].at
      /\ \A d \in Logins : d # c => login'[d] = login[d]
  BY <1>1, <1>2 DEF LoginTyped
<1>5. \A d \in Logins : login'[d].at = login[d].at
  BY <1>4
<1>6. \A t : SinceWindow(t)' = SinceWindow(t) /\ Within(t)' = Within(t)
  BY <1>1, <1>2, <1>5 DEF SinceWindow, Within, LoginTyped
<1>7. ASSUME ~overlapped' PROVE Alone' /\ Rate'
  <2>1. Alone /\ Rate /\ c \in LoggingIn
    BY <1>1, <1>7 DEF Throttle, LoggingIn
  <2>2. \A d \in Logins : login'[d].pc \notin {"checked", "failing"}
    BY <1>4, <2>1 DEF Alone, LoggingIn
  <2>3. failures' = failures \cup {c}
    BY <1>1, <2>1 DEF Alone
  <2>4. \A d \in SinceWindow(now)' : d \in failures'
    <3>1. SinceWindow(now)' = SinceWindow(now)
      BY <1>1, <1>2, <1>5 DEF SinceWindow, LoginTyped
    <3>2. \A d \in SinceWindow(now) : d = c \/ (login[d].pc = "failed" /\ d \in failures)
      BY <1>2, <1>4, <2>1, <2>2 DEF SinceWindow, Alone, LoginTyped
    <3>3. QED
      BY <2>3, <3>1, <3>2
  <2>5. \A d \in since' : login'[d].pc \in {"failing", "failed"}
    BY <1>1, <1>2, <1>4, <2>1 DEF Alone, LoginTyped
  <2>6. Alone'
    BY <2>2, <2>4, <2>5 DEF Alone, LoggingIn
  <2>7. Rate'
    BY <1>6, <2>1 DEF Rate
  <2>8. QED
    BY <2>6, <2>7
<1>8. QED
  BY <1>3, <1>7 DEF Throttle

\* Whatever else happens, time at most goes on.
LEMMA ThrottleRest ==
    ASSUME Throttle, UNCHANGED loginVars, now' = now \/ now' = now + 1
    PROVE  Throttle'
<1>1. /\ login' = login /\ failures' = failures /\ since' = since /\ overlapped' = overlapped
  BY DEF loginVars
<1>2. LoginTyped /\ now \in Nat /\ Window \in Nat
  BY NumbersNat DEF Throttle, LoginTyped
<1>3. LoginTyped'
  BY <1>1, <1>2 DEF LoginTyped
<1>4. \A t : SinceWindow(t)' = SinceWindow(t) /\ Within(t)' = Within(t)
  BY <1>1 DEF SinceWindow, Within
<1>5. ASSUME ~overlapped' PROVE Alone' /\ Rate'
  <2>1. Alone /\ Rate
    BY <1>1, <1>5 DEF Throttle
  <2>2. \A d \in SinceWindow(now)' : d \in SinceWindow(now)
    BY <1>1, <1>2 DEF SinceWindow, LoginTyped
  <2>3. \A d \in Logins : Cardinality(SinceWindow(login[d].at)') = Cardinality(SinceWindow(login[d].at))
    BY <1>1 DEF SinceWindow
  <2>4. Alone'
    BY <1>1, <2>1, <2>2, <2>3 DEF Alone, LoggingIn
  <2>5. QED
    BY <1>4, <2>1, <2>4 DEF Rate
<1>6. QED
  BY <1>3, <1>5 DEF Throttle

LEMMA ThrottleNext == Throttle /\ [LoginNext]_authVars => Throttle'
<1> SUFFICES ASSUME Throttle, [LoginNext]_authVars PROVE Throttle'
  OBVIOUS
<1>1. ASSUME NEW r \in Requests,
             (\E c \in Logins : UseCookie(r, c)) \/ TouchCookie(r) \/ Serve(r) \/ LoadForLogout(r) \/ Logout(r)
      PROVE  Throttle'
  <2>1. UNCHANGED loginVars /\ now' = now
    BY <1>1 DEF UseCookie, TouchCookie, Serve, LoadForLogout, Logout
  <2>2. QED
    BY <2>1, ThrottleRest
<1>2. CASE Tick
  BY <1>2, ThrottleRest DEF Tick
<1>3. CASE UNCHANGED authVars
  BY <1>3, ThrottleRest DEF authVars
<1>4. QED
  BY <1>1, <1>2, <1>3, ThrottleCheckRate, ThrottleSucceed, ThrottleFail, ThrottleRecord DEF LoginNext

LEMMA ThrottleInit == LoginInit => Throttle
<1> SUFFICES ASSUME LoginInit PROVE Throttle
  OBVIOUS
<1>1. LoginTyped
  <2>1. [pc |-> "idle", at |-> 0, kept |-> {}]
          \in [pc : {"idle", "checked", "failing", "failed", "refused", "in"},
               at : Nat, kept : SUBSET Logins]
    OBVIOUS
  <2>2. \A c \in Logins : login[c].at = 0
    BY DEF LoginInit
  <2>3. login \in [Logins -> [pc : {"idle", "checked", "failing", "failed", "refused", "in"},
                              at : Nat, kept : SUBSET Logins]]
    BY <2>1 DEF LoginInit
  <2>4. failures \in SUBSET Logins /\ since \in SUBSET Logins /\ overlapped \in BOOLEAN
    BY DEF LoginInit
  <2>5. now \in Nat /\ \A c \in Logins : login[c].at <= now
    BY <2>2 DEF LoginInit
  <2>6. QED
    BY <2>3, <2>4, <2>5 DEF LoginTyped
<1>2. \A t : Within(t) = {}
  BY DEF LoginInit, Within
<1>3. Rate
  BY <1>2, FS_EmptySet, NumbersNat DEF Rate
<1>4. Alone
  BY DEF LoginInit, Alone, LoggingIn, SinceWindow
<1>5. QED
  BY <1>1, <1>3, <1>4 DEF Throttle

\* Attempts that do not overlap never fail more often within a window than they
\* may, whatever the window (check_login_rate_limit, record_login_failure).
THEOREM ThrottleHolds == LoginSpec => []FailuresWithinRate
<1>1. Throttle => FailuresWithinRate
  <2>1. ASSUME Throttle, ~overlapped, NEW t \in 0 .. now
        PROVE  Cardinality({c \in since : t <= login[c].at /\ login[c].at <= t + Window}) <= Attempts
    BY <2>1 DEF Throttle, Rate, Within, LoginTyped
  <2>2. QED
    BY <2>1 DEF FailuresWithinRate
<1>2. QED
  BY <1>1, ThrottleInit, ThrottleNext, PTL DEF LoginSpec

-----------------------------------------------------------------------------
(* The upload tickets: types.                                              *)

\* What is written of a ticket is a ticket.
LEMMA Written ==
    ASSUME NEW t \in Tickets, NEW u \in Uploads
    PROVE  Taken(t) \in Tickets /\ GivenBack(t) \in Tickets /\ Recorded(t, u) \in Tickets
<1>1. Taken(t) \in Tickets
  <2>1. t.count + 1 \in Nat
    BY DEF Tickets
  <2>2. (IF t.count + 1 >= MaxFiles THEN "completed" ELSE t.status)
          \in {"active", "completed", "expired"}
    BY DEF Tickets
  <2>3. QED
    BY <2>1, <2>2 DEF Taken, Tickets
<1>2. GivenBack(t) \in Tickets
  <2>1. t.count # 0 => t.count - 1 \in Nat
    BY DEF Tickets
  <2>2. QED
    BY <2>1 DEF GivenBack, Tickets
<1>3. Recorded(t, u) \in Tickets
  <2>1. t.results \cup {u} \in SUBSET Uploads
    BY DEF Tickets
  <2>2. Cardinality(t.results \cup {u}) \in Nat
    BY <2>1, UploadsFinite, FS_Subset, FS_CardinalityType
  <2>3. QED
    BY <2>1, <2>2 DEF Recorded, Tickets
<1>4. QED
  BY <1>1, <1>2, <1>3

LEMMA WriteType ==
    ASSUME TicketTypeOK, NEW loaded \in Tickets, NEW new \in Tickets,
           NEW kind \in {"reserve", "release", "finalize"}, Write(loaded, new, kind)
    PROVE  ticket' \in Tickets /\ stale' \subseteq {"reserve", "release", "finalize"}
<1>1. ticket' \in Tickets
  <2>1. /\ TicketColumn(loaded.count, new.count, ticket.count) \in Nat
        /\ TicketColumn(loaded.status, new.status, ticket.status) \in {"active", "completed", "expired"}
        /\ TicketColumn(loaded.results, new.results, ticket.results) \in SUBSET Uploads
    BY DEF TicketColumn, TicketTypeOK, Tickets
  <2>2. QED
    BY <2>1 DEF Write, Tickets
<1>2. QED
  BY <1>1 DEF Write, TicketTypeOK

\* A handler that writes has a copy.
Loaded ==
    \A u \in Uploads : pc[u] \in {"reserving", "reserved", "uploading", "finalizing"} =>
                         copy[u] # NoTicket

LEMMA InitType == TicketInit => TicketTypeOK /\ Loaded
<1> SUFFICES ASSUME TicketInit PROVE TicketTypeOK /\ Loaded
  OBVIOUS
<1>1. ticket \in Tickets
  BY DEF TicketInit, Tickets
<1>2. pc \in [Uploads -> PCs] /\ copy \in [Uploads -> Tickets \cup {NoTicket}] /\ Loaded
  BY DEF TicketInit, PCs, Loaded
<1>3. doc \in [Uploads -> {"none", "live", "tombstoned", "deleted"}] /\ faults \in 0 .. MaxFaults
  BY FaultsNat DEF TicketInit
<1>4. late \in BOOLEAN /\ target \in {"open", "closed", "deleted"} /\ stale = {}
  BY DEF TicketInit
<1>5. QED
  BY <1>1, <1>2, <1>3, <1>4 DEF TicketTypeOK

LEMMA GotoType ==
    ASSUME TicketTypeOK, Loaded, NEW u \in Uploads, NEW where \in PCs,
           NEW c \in Tickets \cup {NoTicket},
           where \in {"reserving", "reserved", "uploading", "finalizing"} => c # NoTicket,
           Goto(u, where, c)
    PROVE  /\ pc' \in [Uploads -> PCs]
           /\ copy' \in [Uploads -> Tickets \cup {NoTicket}]
           /\ Loaded'
<1>1. pc' \in [Uploads -> PCs] /\ copy' \in [Uploads -> Tickets \cup {NoTicket}]
  BY DEF Goto, TicketTypeOK
<1>2. ASSUME NEW v \in Uploads, pc'[v] \in {"reserving", "reserved", "uploading", "finalizing"}
      PROVE  copy'[v] # NoTicket
  <2>1. CASE v = u
    BY <2>1, <1>2 DEF Goto, TicketTypeOK
  <2>2. CASE v # u
    BY <2>2, <1>2 DEF Goto, TicketTypeOK, Loaded
  <2>3. QED
    BY <2>1, <2>2
<1>3. QED
  BY <1>1, <1>2 DEF Loaded

LEMMA NextType == TicketTypeOK /\ Loaded /\ [TicketNext]_ticketVars => TicketTypeOK' /\ Loaded'
<1> SUFFICES ASSUME TicketTypeOK, Loaded, [TicketNext]_ticketVars PROVE TicketTypeOK' /\ Loaded'
  OBVIOUS
<1>1. ASSUME NEW u \in Uploads, BeginReserve(u) PROVE TicketTypeOK' /\ Loaded'
  <2>1. CASE StatusFor(ticket) = "active" /\ target # "deleted"
    <3>1. Goto(u, "reserving", ticket) /\ ticket' = ticket
      BY <1>1, <2>1 DEF BeginReserve
    <3>2. ticket \in Tickets /\ ticket # NoTicket
      BY NoTicketAssumption DEF TicketTypeOK
    <3>3. QED
      BY <1>1, <3>1, <3>2, GotoType DEF BeginReserve, TicketTypeOK, PCs
  <2>2. CASE ~(StatusFor(ticket) = "active" /\ target # "deleted")
    <3>1. Goto(u, "refused", NoTicket) /\ ticket' \in Tickets
      BY <1>1, <2>2 DEF BeginReserve, TicketTypeOK, Tickets
    <3>2. QED
      BY <1>1, <3>1, GotoType DEF BeginReserve, TicketTypeOK, PCs
  <2>3. QED
    BY <2>1, <2>2
<1>2. ASSUME NEW u \in Uploads, CommitReserve(u) PROVE TicketTypeOK' /\ Loaded'
  <2>1. copy[u] \in Tickets
    BY <1>2 DEF CommitReserve, TicketTypeOK, Loaded
  <2>2. ticket' \in Tickets /\ stale' \subseteq {"reserve", "release", "finalize"}
    BY <1>2, <2>1, Written, WriteType DEF CommitReserve
  <2>3. QED
    BY <1>2, <2>2, GotoType DEF CommitReserve, TicketTypeOK, PCs
<1>3. ASSUME NEW u \in Uploads, Finalize(u) PROVE TicketTypeOK' /\ Loaded'
  <2>1. copy[u] \in Tickets
    BY <1>3 DEF Finalize, TicketTypeOK, Loaded
  <2>2. ticket' \in Tickets /\ stale' \subseteq {"reserve", "release", "finalize"}
    BY <1>3, <2>1, Written, WriteType DEF Finalize
  <2>3. QED
    BY <1>3, <2>2, GotoType DEF Finalize, TicketTypeOK, PCs
<1>4. ASSUME NEW u \in Uploads, Release(u) PROVE TicketTypeOK' /\ Loaded'
  <2>1. copy[u] \in Tickets
    BY <1>4 DEF Release, TicketTypeOK, Loaded
  <2>2. ticket' \in Tickets /\ stale' \subseteq {"reserve", "release", "finalize"}
    BY <1>4, <2>1, Written, WriteType DEF Release
  <2>3. QED
    BY <1>4, <2>2, GotoType DEF Release, TicketTypeOK, PCs
<1>5. ASSUME NEW u \in Uploads,
             \/ Reload(u) \/ RefuseForSession(u) \/ StartUpload(u) \/ RejectFile(u)
             \/ UploadFails(u) \/ AnswerFails(u) \/ LoadForFinalize(u) \/ LoadForRelease(u)
      PROVE  TicketTypeOK' /\ Loaded'
  <2>1. ticket \in Tickets /\ ticket # NoTicket /\ copy[u] \in Tickets \cup {NoTicket}
    BY NoTicketAssumption DEF TicketTypeOK
  <2>2. \/ Goto(u, "reserved", ticket) \/ Goto(u, "releasing", copy[u])
        \/ Goto(u, "releasing", NoTicket) \/ Goto(u, "finalizing", ticket)
        \/ Goto(u, "releasing", ticket)
        \/ Goto(u, "uploading", copy[u]) /\ copy[u] # NoTicket
    BY <1>5 DEF Reload, RefuseForSession, StartUpload, RejectFile, UploadFails, AnswerFails,
                LoadForFinalize, LoadForRelease, Loaded
  <2>3. UNCHANGED <<ticket, late, target, doc, faults, stale>>
    BY <1>5 DEF Reload, RefuseForSession, StartUpload, RejectFile, UploadFails, AnswerFails,
                LoadForFinalize, LoadForRelease
  <2>4. QED
    BY <2>1, <2>2, <2>3, GotoType DEF TicketTypeOK, PCs
<1>6. ASSUME NEW u \in Uploads, CommitUpload(u) \/ Tombstone(u) PROVE TicketTypeOK' /\ Loaded'
  <2>1. \/ Goto(u, "uploaded", NoTicket)
        \/ Goto(u, "refused", NoTicket)
    BY <1>6 DEF CommitUpload, Tombstone
  <2>2. QED
    BY <1>6, <2>1, GotoType DEF CommitUpload, Tombstone, TicketTypeOK, PCs
<1>7. ASSUME NEW u \in Uploads, ReadFails(u) \/ Die(u) PROVE TicketTypeOK' /\ Loaded'
  <2>1. Goto(u, "dead", NoTicket) \/ Goto(u, "refused", NoTicket)
    BY <1>7 DEF ReadFails, Die
  <2>2. faults' \in 0 .. MaxFaults /\ UNCHANGED <<ticket, late, target, doc, stale>>
    BY <1>7, FaultsNat DEF ReadFails, Die, TicketTypeOK
  <2>3. QED
    BY <2>1, <2>2, GotoType DEF TicketTypeOK, PCs
<1>8. ASSUME Expire PROVE TicketTypeOK' /\ Loaded'
  BY <1>8 DEF Expire, TicketTypeOK, Loaded
<1>9. ASSUME NEW how \in {"closed", "deleted"}, EndSession(how) PROVE TicketTypeOK' /\ Loaded'
  BY <1>9 DEF EndSession, TicketTypeOK, Loaded
<1>10. ASSUME UNCHANGED ticketVars PROVE TicketTypeOK' /\ Loaded'
  BY <1>10 DEF ticketVars, TicketTypeOK, Loaded
<1>11. QED
  BY <1>1, <1>2, <1>3, <1>4, <1>5, <1>6, <1>7, <1>8, <1>9, <1>10 DEF TicketNext, UploadStep

\* Every variable keeps its type.
THEOREM TicketsTypeCorrect == TicketSpec => []TicketTypeOK
BY InitType, NextType, PTL DEF TicketSpec
-----------------------------------------------------------------------------
(* The count.  A document keeps its slot, so what a handler that finishes  *)
(* has read of the results fits under the count it has read, and the       *)
(* result it adds takes no slot.                                           *)

AcceptedUploads == {u \in Uploads : pc[u] = "accepted"}

\* Results are of accepted uploads, in the row and in the copies of it.
Results ==
    /\ ticket.results \subseteq AcceptedUploads
    /\ \A u \in Uploads : copy[u] # NoTicket => copy[u].results \subseteq AcceptedUploads

\* The slot of the result is counted in the copy it is written from.
Covered ==
    \A u \in Uploads : pc[u] = "finalizing" =>
      Cardinality(copy[u].results \cup {u}) <= copy[u].count

Counted == ticket.count = Cardinality(Holding) /\ Covered

CInv == TicketTypeOK /\ Loaded /\ Results /\ (CountedInOrder => Counted)

LEMMA HoldingFinite == IsFiniteSet(Holding) /\ Cardinality(Holding) \in Nat
<1>1. Holding \subseteq Uploads
  BY DEF Holding
<1>2. QED
  BY <1>1, UploadsFinite, FS_Subset, FS_CardinalityType

LEMMA InitCInv == TicketInit => CInv
<1> SUFFICES ASSUME TicketInit PROVE Results /\ Counted
  BY InitType DEF CInv
<1>1. Holding = {}
  BY DEF TicketInit, Holding
<1>2. ticket.count = Cardinality(Holding)
  BY <1>1, FS_EmptySet DEF TicketInit
<1>3. Results /\ Covered
  BY DEF TicketInit, Results, Covered
<1>4. QED
  BY <1>2, <1>3 DEF Counted

\* Where an upload does not begin or stop holding its slot, the count may stay.
LEMMA SameHolding ==
    ASSUME TicketTypeOK, NEW u \in Uploads, NEW where, NEW c, Goto(u, where, c),
           where \in {"reloading", "reserved", "uploading", "uploaded", "finalizing",
                     "releasing", "accepted", "dead"} <=> u \in Holding
    PROVE  Holding' = Holding
BY DEF Goto, TicketTypeOK, Holding

LEMMA NewHolding ==
    ASSUME TicketTypeOK, NEW u \in Uploads, Goto(u, "reloading", NoTicket), u \notin Holding
    PROVE  Cardinality(Holding') = Cardinality(Holding) + 1
<1>1. Holding' = Holding \cup {u}
  BY DEF Goto, TicketTypeOK, Holding
<1>2. QED
  BY <1>1, HoldingFinite, FS_AddElement

LEMMA LostHolding ==
    ASSUME TicketTypeOK, NEW u \in Uploads, NEW where \in {"tombstoning", "refused"},
           Goto(u, where, NoTicket), u \in Holding
    PROVE  Cardinality(Holding') = Cardinality(Holding) - 1
<1>1. Holding' = Holding \ {u}
  BY DEF Goto, TicketTypeOK, Holding
<1>2. QED
  BY <1>1, HoldingFinite, FS_RemoveElement

\* A write that is not from an old copy writes the row.
LEMMA WriteFresh ==
    ASSUME TicketTypeOK, NEW loaded \in Tickets, NEW new \in Tickets, NEW kind,
           Write(loaded, new, kind), loaded = ticket
    PROVE  ticket' = new /\ stale' = stale
<1>1. \A x, y : TicketColumn(x, y, x) = y
  BY DEF TicketColumn
<1>2. ticket' = [count |-> new.count, status |-> new.status, results |-> new.results]
  BY <1>1 DEF Write
<1>3. QED
  BY <1>2 DEF Write, Tickets

\* The results only grow by the upload that is accepted.
LEMMA NextResults == CInv /\ [TicketNext]_ticketVars => Results'
<1> SUFFICES ASSUME CInv, [TicketNext]_ticketVars PROVE Results'
  OBVIOUS
<1> USE DEF CInv
<1>1. ASSUME NEW u \in Uploads, NEW where \in PCs, NEW c \in {copy[u], ticket, NoTicket},
             Goto(u, where, c), pc[u] # "accepted", ticket'.results = ticket.results
      PROVE  Results'
  <2>1. AcceptedUploads \subseteq AcceptedUploads'
    BY <1>1 DEF Goto, AcceptedUploads, TicketTypeOK
  <2>2. \A v \in Uploads : copy'[v] \in {copy[v], ticket, NoTicket}
    BY <1>1 DEF Goto, TicketTypeOK
  <2>3. QED
    BY <1>1, <2>1, <2>2 DEF Results
<1>2. ASSUME NEW u \in Uploads, BeginReserve(u) PROVE Results'
  <2>1. ticket'.results = ticket.results
    BY <1>2 DEF BeginReserve, TicketTypeOK, Tickets
  <2>2. Goto(u, "reserving", ticket) \/ Goto(u, "refused", NoTicket)
    BY <1>2 DEF BeginReserve
  <2>3. QED
    BY <1>1, <1>2, <2>1, <2>2 DEF BeginReserve, PCs
<1>3. ASSUME NEW u \in Uploads, CommitReserve(u) PROVE Results'
  <2>1. copy[u] \in Tickets /\ Taken(copy[u]).results = copy[u].results
    BY <1>3 DEF CommitReserve, TicketTypeOK, Loaded, Taken, Tickets
  <2>2. ticket'.results = ticket.results
    BY <1>3, <2>1 DEF CommitReserve, Write, TicketColumn
  <2>3. QED
    BY <1>1, <1>3, <2>2 DEF CommitReserve, PCs
<1>4. ASSUME NEW u \in Uploads, Release(u) PROVE Results'
  <2>1. copy[u] \in Tickets /\ GivenBack(copy[u]).results = copy[u].results
    BY <1>4 DEF Release, TicketTypeOK, GivenBack, Tickets
  <2>2. ticket'.results = ticket.results
    BY <1>4, <2>1 DEF Release, Write, TicketColumn
  <2>3. QED
    BY <1>1, <1>4, <2>2 DEF Release, PCs
<1>5. ASSUME NEW u \in Uploads, Finalize(u) PROVE Results'
  <2>1. copy[u] # NoTicket /\ pc' = [pc EXCEPT ![u] = "accepted"]
        /\ copy' = [copy EXCEPT ![u] = NoTicket]
    BY <1>5 DEF Finalize, Loaded, Goto
  <2>2. AcceptedUploads' = AcceptedUploads \cup {u}
    BY <2>1 DEF AcceptedUploads, TicketTypeOK
  <2>3. Recorded(copy[u], u).results = copy[u].results \cup {u}
    BY DEF Recorded
  <2>4. ticket'.results \in {ticket.results, copy[u].results \cup {u}}
    BY <1>5, <2>3 DEF Finalize, Write, TicketColumn
  <2>5. ticket'.results \subseteq AcceptedUploads'
    BY <2>1, <2>2, <2>4 DEF Results
  <2>6. \A v \in Uploads : copy'[v] # NoTicket => copy'[v].results \subseteq AcceptedUploads'
    BY <2>1, <2>2 DEF Results, TicketTypeOK
  <2>7. QED
    BY <2>5, <2>6 DEF Results
<1>6. ASSUME NEW u \in Uploads,
             \/ Reload(u) \/ RefuseForSession(u) \/ StartUpload(u) \/ RejectFile(u)
             \/ UploadFails(u) \/ AnswerFails(u) \/ LoadForFinalize(u) \/ LoadForRelease(u)
             \/ CommitUpload(u) \/ Tombstone(u) \/ ReadFails(u) \/ Die(u)
      PROVE  Results'
  <2>1. ticket' = ticket /\ pc[u] # "accepted"
    BY <1>6 DEF Reload, RefuseForSession, StartUpload, RejectFile, UploadFails, AnswerFails,
                LoadForFinalize, LoadForRelease, CommitUpload, Tombstone, ReadFails, Die
  <2>2. PICK where \in PCs, c \in {copy[u], ticket, NoTicket} : Goto(u, where, c)
    BY <1>6 DEF Reload, RefuseForSession, StartUpload, RejectFile, UploadFails, AnswerFails,
                LoadForFinalize, LoadForRelease, CommitUpload, Tombstone, ReadFails, Die, PCs
  <2>3. QED
    BY <1>1, <2>1, <2>2
<1>7. ASSUME UNCHANGED <<ticket, pc, copy>> PROVE Results'
  BY <1>7 DEF Results, AcceptedUploads
<1>8. QED
  BY <1>2, <1>3, <1>4, <1>5, <1>6, <1>7 DEF TicketNext, UploadStep, Expire, EndSession, ticketVars
\* Copies that are not loaded to finalize need not be covered.
LEMMA StillCovered ==
    ASSUME TicketTypeOK, Covered, NEW u \in Uploads, NEW where \in PCs \ {"finalizing"}, NEW c,
           Goto(u, where, c)
    PROVE  Covered'
BY DEF Goto, TicketTypeOK, Covered

LEMMA NextCounted == CInv /\ [TicketNext]_ticketVars => (CountedInOrder' => Counted')
<1> SUFFICES ASSUME CInv, [TicketNext]_ticketVars, CountedInOrder' PROVE Counted'
  OBVIOUS
<1> USE DEF CInv
<1>1. ASSUME NEW u \in Uploads, NEW where \in PCs \ {"finalizing"}, NEW c, Goto(u, where, c),
             ticket'.count = ticket.count, stale' = stale,
             where \in {"reloading", "reserved", "uploading", "uploaded", "finalizing",
                       "releasing", "accepted", "dead"} <=> u \in Holding
      PROVE  Counted'
  <2>1. Counted
    BY <1>1 DEF CountedInOrder
  <2>2. Covered' /\ Holding' = Holding
    BY <1>1, <2>1, StillCovered, SameHolding DEF Counted
  <2>3. QED
    BY <1>1, <2>1, <2>2 DEF Counted
<1>2. ASSUME NEW u \in Uploads, BeginReserve(u) PROVE Counted'
  <2>1. ticket'.count = ticket.count /\ u \notin Holding /\ stale' = stale
    BY <1>2 DEF BeginReserve, TicketTypeOK, Tickets, Holding
  <2>2. Goto(u, "reserving", ticket) \/ Goto(u, "refused", NoTicket)
    BY <1>2 DEF BeginReserve
  <2>3. QED
    BY <1>1, <2>1, <2>2 DEF PCs
<1>3. ASSUME NEW u \in Uploads, CommitReserve(u) PROVE Counted'
  <2>1. copy[u] = ticket /\ stale' = stale
    BY <1>3 DEF CommitReserve, Write, CountedInOrder
  <2>2. Counted
    BY <2>1 DEF CountedInOrder
  <2>3. ticket' = Taken(ticket)
    BY <1>3, <2>1, Written, WriteFresh DEF CommitReserve, TicketTypeOK
  <2>4. ticket'.count = ticket.count + 1
    BY <2>3 DEF Taken, TicketTypeOK, Tickets
  <2>5. Goto(u, "reloading", NoTicket) /\ u \notin Holding
    BY <1>3 DEF CommitReserve, Holding
  <2>6. Covered'
    BY <2>2, <2>5, StillCovered DEF Counted, PCs
  <2>7. QED
    BY <2>2, <2>4, <2>5, <2>6, NewHolding DEF Counted
<1>4. ASSUME NEW u \in Uploads, Release(u) PROVE Counted'
  <2>1. copy[u] = ticket /\ stale' = stale
    BY <1>4 DEF Release, Write, CountedInOrder
  <2>2. Counted
    BY <2>1 DEF CountedInOrder
  <2>3. u \in Holding
    BY <1>4 DEF Release, Holding
  <2>4. ticket.count # 0
    BY <2>2, <2>3, HoldingFinite, FS_EmptySet DEF Counted
  <2>5. ticket' = GivenBack(ticket)
    BY <1>4, <2>1, Written, WriteFresh DEF Release, TicketTypeOK
  <2>6. ticket'.count = ticket.count - 1
    BY <2>4, <2>5 DEF GivenBack, TicketTypeOK, Tickets
  <2>7. Goto(u, "tombstoning", NoTicket) \/ Goto(u, "refused", NoTicket)
    BY <1>4 DEF Release
  <2>8. Covered'
    BY <2>2, <2>7, StillCovered DEF Counted, PCs
  <2>9. QED
    BY <2>2, <2>3, <2>6, <2>7, <2>8, LostHolding DEF Counted
<1>5. ASSUME NEW u \in Uploads, Finalize(u) PROVE Counted'
  <2>1. pc[u] = "finalizing" /\ Goto(u, "accepted", NoTicket) /\ copy[u] \in Tickets
    BY <1>5 DEF Finalize, TicketTypeOK, Loaded
  <2>2. Counted
    BY <1>5 DEF Finalize, Write, CountedInOrder
  <2>3. Cardinality(copy[u].results \cup {u}) <= copy[u].count
    BY <2>1, <2>2 DEF Counted, Covered
  <2>4. copy[u].results \cup {u} \subseteq Uploads /\ copy[u].count \in Nat
    BY <2>1 DEF Tickets
  <2>5. Cardinality(copy[u].results \cup {u}) \in Nat
    BY <2>4, UploadsFinite, FS_Subset, FS_CardinalityType
  <2>6. Recorded(copy[u], u).count = copy[u].count
    BY <2>3, <2>4, <2>5 DEF Recorded
  <2>7. ticket'.count = ticket.count
    BY <1>5, <2>6 DEF Finalize, Write, TicketColumn
  <2>8. Holding' = Holding
    BY <2>1, SameHolding DEF Holding
  <2>9. Covered'
    BY <2>1, <2>2, StillCovered DEF Counted, PCs
  <2>10. QED
    BY <2>2, <2>7, <2>8, <2>9 DEF Counted
<1>6. ASSUME NEW u \in Uploads, LoadForFinalize(u) PROVE Counted'
  <2>1. /\ pc[u] = "uploaded" /\ Goto(u, "finalizing", ticket)
        /\ ticket' = ticket /\ stale' = stale
    BY <1>6 DEF LoadForFinalize
  <2>2. Counted
    BY <2>1 DEF CountedInOrder
  <2>3. Holding' = Holding
    BY <2>1, SameHolding DEF Holding
  <2>4. ticket.results \cup {u} \subseteq Holding
    BY <2>1 DEF Results, AcceptedUploads, Holding
  <2>5. Cardinality(ticket.results \cup {u}) <= ticket.count
    BY <2>2, <2>4, HoldingFinite, FS_Subset DEF Counted
  <2>6. ASSUME NEW v \in Uploads, pc'[v] = "finalizing"
        PROVE  Cardinality(copy'[v].results \cup {v}) <= copy'[v].count
    <3>1. CASE v = u
      BY <3>1, <2>1, <2>5 DEF Goto, TicketTypeOK
    <3>2. CASE v # u
      BY <3>2, <2>6, <2>1, <2>2 DEF Goto, TicketTypeOK, Counted, Covered
    <3>3. QED
      BY <3>1, <3>2
  <2>7. QED
    BY <2>1, <2>2, <2>3, <2>6 DEF Counted, Covered
<1>7. ASSUME NEW u \in Uploads,
             \/ Reload(u) \/ RefuseForSession(u) \/ StartUpload(u) \/ RejectFile(u)
             \/ UploadFails(u) \/ AnswerFails(u) \/ LoadForRelease(u)
             \/ CommitUpload(u) \/ ReadFails(u)
      PROVE  Counted'
  <2>1. ticket' = ticket /\ stale' = stale /\ u \in Holding
    BY <1>7 DEF Reload, RefuseForSession, StartUpload, RejectFile, UploadFails, AnswerFails,
                LoadForRelease, CommitUpload, ReadFails, Holding
  <2>2. PICK where \in {"reserved", "releasing", "uploading", "uploaded", "dead"},
             c \in {copy[u], ticket, NoTicket} : Goto(u, where, c)
    BY <1>7 DEF Reload, RefuseForSession, StartUpload, RejectFile, UploadFails, AnswerFails,
                LoadForRelease, CommitUpload, ReadFails
  <2>3. QED
    BY <1>1, <2>1, <2>2 DEF PCs
<1>8. ASSUME NEW u \in Uploads, Tombstone(u) PROVE Counted'
  BY <1>8, <1>1 DEF Tombstone, Holding, PCs
<1>9. ASSUME NEW u \in Uploads, Die(u) PROVE Counted'
  <2>1. CASE pc[u] = "tombstoning"
    BY <1>9, <2>1, <1>1 DEF Die, Holding, PCs
  <2>2. CASE pc[u] # "tombstoning"
    BY <1>9, <2>2, <1>1 DEF Die, Holding, PCs
  <2>3. QED
    BY <2>1, <2>2
<1>10. ASSUME UNCHANGED <<ticket, pc, copy, stale>> PROVE Counted'
  BY <1>10 DEF CountedInOrder, Counted, Holding, Covered
<1>11. QED
  BY <1>2, <1>3, <1>4, <1>5, <1>6, <1>7, <1>8, <1>9, <1>10
     DEF TicketNext, UploadStep, Expire, EndSession, ticketVars

\* The count of a ticket is the number of slots taken and not given back
\* (reserve_upload_slot, release_upload_slot, finalize_reserved_upload).
THEOREM CountExact == TicketSpec => []CountIsExact
<1>1. CInv /\ [TicketNext]_ticketVars => CInv'
  BY NextType, NextResults, NextCounted DEF CInv
<1>2. CInv => CountIsExact
  BY DEF CInv, Counted, CountIsExact
<1>3. QED
  BY <1>1, <1>2, InitCInv, PTL DEF TicketSpec
-----------------------------------------------------------------------------
(* The results.  Only a finalization changes them, and one from a copy that *)
(* is not old adds its own to all of them.                                  *)

LEMMA NextComplete == CInv /\ ResultsComplete /\ [TicketNext]_ticketVars => ResultsComplete'
<1> SUFFICES ASSUME CInv, ResultsComplete, [TicketNext]_ticketVars, "finalize" \notin stale'
             PROVE  ticket'.results = AcceptedUploads'
  BY DEF ResultsComplete, AcceptedUploads
<1> USE DEF CInv
<1>1. ASSUME NEW u \in Uploads, NEW where \in PCs \ {"accepted"}, NEW c, Goto(u, where, c),
             pc[u] # "accepted", ticket'.results = ticket.results, "finalize" \notin stale
      PROVE  ticket'.results = AcceptedUploads'
  <2>1. AcceptedUploads' = AcceptedUploads
    BY <1>1 DEF Goto, AcceptedUploads, TicketTypeOK
  <2>2. QED
    BY <1>1, <2>1 DEF ResultsComplete, AcceptedUploads
<1>2. ASSUME NEW u \in Uploads, BeginReserve(u) PROVE ticket'.results = AcceptedUploads'
  <2>1. ticket'.results = ticket.results /\ "finalize" \notin stale /\ pc[u] # "accepted"
    BY <1>2 DEF BeginReserve, TicketTypeOK, Tickets
  <2>2. Goto(u, "reserving", ticket) \/ Goto(u, "refused", NoTicket)
    BY <1>2 DEF BeginReserve
  <2>3. QED
    BY <1>1, <2>1, <2>2 DEF PCs
<1>3. ASSUME NEW u \in Uploads, CommitReserve(u) PROVE ticket'.results = AcceptedUploads'
  <2>1. copy[u] \in Tickets /\ Taken(copy[u]).results = copy[u].results
    BY <1>3 DEF CommitReserve, TicketTypeOK, Loaded, Taken, Tickets
  <2>2. /\ ticket'.results = ticket.results /\ "finalize" \notin stale
        /\ Goto(u, "reloading", NoTicket) /\ pc[u] # "accepted"
    BY <1>3, <2>1 DEF CommitReserve, Write, TicketColumn
  <2>3. QED
    BY <1>1, <2>2 DEF PCs
<1>4. ASSUME NEW u \in Uploads, Release(u) PROVE ticket'.results = AcceptedUploads'
  <2>1. copy[u] \in Tickets /\ GivenBack(copy[u]).results = copy[u].results
    BY <1>4 DEF Release, TicketTypeOK, GivenBack, Tickets
  <2>2. /\ ticket'.results = ticket.results /\ "finalize" \notin stale /\ pc[u] # "accepted"
        /\ Goto(u, "tombstoning", NoTicket) \/ Goto(u, "refused", NoTicket)
    BY <1>4, <2>1 DEF Release, Write, TicketColumn
  <2>3. QED
    BY <1>1, <2>2 DEF PCs
<1>5. ASSUME NEW u \in Uploads, Finalize(u) PROVE ticket'.results = AcceptedUploads'
  <2>1. /\ copy[u] = ticket /\ "finalize" \notin stale
        /\ Goto(u, "accepted", NoTicket) /\ Write(copy[u], Recorded(copy[u], u), "finalize")
    BY <1>5 DEF Finalize, Write
  <2>2. ticket' = Recorded(ticket, u)
    BY <2>1, Written, WriteFresh DEF TicketTypeOK
  <2>3. AcceptedUploads' = AcceptedUploads \cup {u}
    BY <2>1 DEF Goto, AcceptedUploads, TicketTypeOK
  <2>4. ticket'.results = ticket.results \cup {u}
    BY <2>2 DEF Recorded
  <2>5. QED
    BY <2>1, <2>3, <2>4 DEF ResultsComplete, AcceptedUploads
<1>6. ASSUME NEW u \in Uploads,
             \/ Reload(u) \/ RefuseForSession(u) \/ StartUpload(u) \/ RejectFile(u)
             \/ UploadFails(u) \/ AnswerFails(u) \/ LoadForFinalize(u) \/ LoadForRelease(u)
             \/ CommitUpload(u) \/ Tombstone(u) \/ ReadFails(u) \/ Die(u)
      PROVE  ticket'.results = AcceptedUploads'
  <2>1. ticket' = ticket /\ "finalize" \notin stale /\ pc[u] # "accepted"
    BY <1>6 DEF Reload, RefuseForSession, StartUpload, RejectFile, UploadFails, AnswerFails,
                LoadForFinalize, LoadForRelease, CommitUpload, Tombstone, ReadFails, Die
  <2>2. PICK where \in PCs \ {"accepted"}, c \in {copy[u], ticket, NoTicket} : Goto(u, where, c)
    BY <1>6 DEF Reload, RefuseForSession, StartUpload, RejectFile, UploadFails, AnswerFails,
                LoadForFinalize, LoadForRelease, CommitUpload, Tombstone, ReadFails, Die, PCs
  <2>3. QED
    BY <1>1, <2>1, <2>2
<1>7. ASSUME UNCHANGED <<ticket, pc, stale>> PROVE ticket'.results = AcceptedUploads'
  BY <1>7 DEF ResultsComplete, AcceptedUploads
<1>8. QED
  BY <1>2, <1>3, <1>4, <1>5, <1>6, <1>7 DEF TicketNext, UploadStep, Expire, EndSession, ticketVars

\* The results of a ticket are those of every upload it has accepted, as long as
\* none was finalized from an old copy (finalize_reserved_upload).
THEOREM AllResults == TicketSpec => []ResultsComplete
<1>1. TicketInit => ResultsComplete
  BY DEF TicketInit, ResultsComplete
<1>2. CInv /\ [TicketNext]_ticketVars => CInv'
  BY NextType, NextResults, NextCounted DEF CInv
<1>3. QED
  BY <1>1, <1>2, InitCInv, NextComplete, PTL DEF TicketSpec
=============================================================================

---------------------------- MODULE LoginSessions ----------------------------
(***************************************************************************)
(* Attempts to log in, the window of failures of their address, and the    *)
(* cookies a login gives, which end by logout, by age or for lack of use.  *)
(*                                                                         *)
(* Cookies are rows of the database: a handler has a session of its own    *)
(* and writes only the columns it has changed.  The window of failures is  *)
(* a dictionary of the process, shared by its threads without a lock.  Its *)
(* list of times holds at most one for each attempt and is only counted    *)
(* and cut by age: it is modelled by the attempts whose times are in it.   *)
(***************************************************************************)
EXTENDS Integers, FiniteSets

CONSTANTS
    Logins,         \* attempts to log in; one that succeeds is its cookie
    Requests,       \* requests with a cookie
    Attempts,       \* app_auth_login_rate_limit_attempts
    Window,         \* app_auth_login_rate_limit_window_seconds, in ticks
    Idle,           \* app_auth_idle_timeout_seconds, in ticks; 0 for none
    Touch,          \* app_auth_touch_interval_seconds, in ticks
    Ttl,            \* app_auth_session_ttl_seconds, in ticks
    MaxTime,        \* bound: the clock
    NoCookie

ASSUME LoginsFinite == IsFiniteSet(Logins)
ASSUME NumbersNat ==
    /\ {Attempts, Window, Ttl} \subseteq Nat \ {0}
    /\ {Idle, Touch, MaxTime} \subseteq Nat

Cookies == [seen : Nat, expires : Nat, revoked : BOOLEAN]

ASSUME NoCookieIsNone == NoCookie \notin Cookies \cup Logins

VARIABLES
    now,
    cookie,     \* auth_sessions: [Logins -> Cookies or NoCookie]
    failures,   \* LOGIN_FAILURES[address]: the attempts in the list
    login,      \* [Logins -> [pc, at, kept]]: attempts
    request,    \* [Requests -> [pc, with, at]]
    since,      \* history: attempts that have failed since the last success
    overlapped  \* history: two attempts were in progress together

loginVars == <<failures, login, since, overlapped>>
authVars == <<now, cookie, loginVars, request>>

Ended == [pc |-> "idle", with |-> NoCookie, at |-> 0]

LoginInit ==
    /\ now = 0
    /\ cookie = [c \in Logins |-> NoCookie]
    /\ failures = {}
    /\ login = [c \in Logins |-> [pc |-> "idle", at |-> 0, kept |-> {}]]
    /\ request = [r \in Requests |-> Ended]
    /\ since = {}
    /\ overlapped = FALSE

-----------------------------------------------------------------------------
(* Logging in.                                                             *)

\* Mutant: the window is one tick short.
Recent_Short(list, t) == {c \in list : login[c].at > t - Window}

\* _prune_login_failures: the failures of the window that ends at t.
Recent(list, t) == {c \in list : login[c].at >= t - Window}

LoggingIn == {c \in Logins : login[c].pc \in {"checked", "failing"}}

\* check_login_rate_limit.  The time is read once, at the start of the attempt.
CheckRate(c) ==
    /\ login[c].pc = "idle"
    /\ failures' = Recent(failures, now)
    /\ login' = [login EXCEPT ![c].at = now,
                              ![c].pc = IF Cardinality(Recent(failures, now)) >= Attempts
                                        THEN "refused" ELSE "checked"]
    /\ overlapped' = (overlapped \/ LoggingIn # {})
    /\ UNCHANGED <<now, cookie, request, since>>

\* The key, or the password, is right: the address starts afresh and the cookie
\* is committed.
Succeed(c) ==
    /\ login[c].pc = "checked"
    /\ failures' = {}
    /\ cookie' = [cookie EXCEPT ![c] = [seen |-> login[c].at, expires |-> login[c].at + Ttl,
                                        revoked |-> FALSE]]
    /\ login' = [login EXCEPT ![c].pc = "in"]
    /\ since' = {}
    /\ UNCHANGED <<now, request, overlapped>>

\* record_login_failure: the list is pruned and stored ...
Fail(c) ==
    /\ login[c].pc = "checked"
    /\ failures' = Recent(failures, login[c].at)
    /\ login' = [login EXCEPT ![c].pc = "failing", ![c].kept = Recent(failures, login[c].at)]
    /\ since' = since \cup {c}
    /\ UNCHANGED <<now, cookie, request, overlapped>>

\* ... and stored again with this failure.
RecordFailure(c) ==
    /\ login[c].pc = "failing"
    /\ failures' = login[c].kept \cup {c}
    /\ login' = [login EXCEPT ![c].pc = "failed", ![c].kept = {}]
    /\ UNCHANGED <<now, cookie, request, since, overlapped>>

-----------------------------------------------------------------------------
(* Cookies.                                                                *)

\* _get_auth_session
Accepted(c) ==
    /\ cookie[c] # NoCookie
    /\ ~cookie[c].revoked
    /\ now < cookie[c].expires
    /\ Idle > 0 => now < cookie[c].seen + Idle

\* _should_touch_auth_session
Due(c) == cookie[c].seen + Touch <= now

\* Mutant: the row is written back as it was loaded.
Touched_Row(row, at) == [row EXCEPT !.seen = at, !.revoked = FALSE]

\* A touch writes last_seen_at and no other column.
Touched(row, at) == [row EXCEPT !.seen = at]

\* simple_auth_middleware: the cookie is checked, and touched if that is due.
UseCookie(r, c) ==
    /\ request[r].pc = "idle"
    /\ Accepted(c)
    /\ request' = [request EXCEPT ![r] = IF Due(c) THEN [pc |-> "touching", with |-> c, at |-> now]
                                                   ELSE [pc |-> "inside", with |-> c, at |-> 0]]
    /\ UNCHANGED <<now, cookie, loginVars>>

TouchCookie(r) ==
    /\ request[r].pc = "touching"
    /\ cookie' = [cookie EXCEPT ![request[r].with] = Touched(@, request[r].at)]
    /\ request' = [request EXCEPT ![r].pc = "inside", ![r].at = 0]
    /\ UNCHANGED <<now, loginVars>>

\* The handler asks for the cookie again, without touching it: it runs for the
\* cookie, or for nobody.
Serve(r) ==
    /\ request[r].pc = "inside"
    /\ request' = [request EXCEPT ![r] = Ended]
    /\ UNCHANGED <<now, cookie, loginVars>>

\* revoke_current_auth_session, loaded: the caller's cookie is accepted ...
LoadForLogout(r) ==
    /\ request[r].pc = "inside"
    /\ request' = [request EXCEPT ![r] = IF Accepted(@.with) THEN [@ EXCEPT !.pc = "leaving"]
                                                            ELSE Ended]
    /\ UNCHANGED <<now, cookie, loginVars>>

\* ... and revoked.
Logout(r) ==
    /\ request[r].pc = "leaving"
    /\ cookie' = [cookie EXCEPT ![request[r].with].revoked = TRUE]
    /\ request' = [request EXCEPT ![r] = Ended]
    /\ UNCHANGED <<now, loginVars>>

\* A touch commits within the tick in which it was found due.
Tick ==
    /\ now < MaxTime
    /\ \A r \in Requests : request[r].pc # "touching"
    /\ now' = now + 1
    /\ UNCHANGED <<cookie, loginVars, request>>

LoginNext ==
    \/ \E c \in Logins : CheckRate(c) \/ Succeed(c) \/ Fail(c) \/ RecordFailure(c)
    \/ \E r \in Requests : \/ \E c \in Logins : UseCookie(r, c)
                           \/ TouchCookie(r) \/ Serve(r) \/ LoadForLogout(r) \/ Logout(r)
    \/ Tick

LoginSpec == LoginInit /\ [][LoginNext]_authVars

-----------------------------------------------------------------------------
(* Properties.                                                             *)

LoginTypeOK ==
    /\ now \in 0 .. MaxTime
    /\ cookie \in [Logins -> [seen : 0 .. now, expires : Nat, revoked : BOOLEAN] \cup {NoCookie}]
    /\ failures \subseteq Logins
    /\ login \in [Logins -> [pc : {"idle", "checked", "failing", "failed", "refused", "in"},
                             at : 0 .. now, kept : SUBSET Logins]]
    /\ request \in [Requests -> [pc : {"idle", "touching", "inside", "leaving"},
                                 with : Logins \cup {NoCookie}, at : 0 .. now]]
    /\ since \subseteq Logins
    /\ overlapped \in BOOLEAN

\* A cookie that was logged out is never good again, whatever request was in the
\* middle of touching it.
LoggedOutForGood ==
    [][\A c \in Logins : cookie[c] # NoCookie /\ cookie[c].revoked => cookie'[c].revoked]_authVars

\* As long as attempts do not overlap, an address never fails more often within
\* a window than it may, unless it succeeds in between.
FailuresWithinRate ==
    ~overlapped =>
        \A t \in 0 .. now :
          Cardinality({c \in since : t <= login[c].at /\ login[c].at <= t + Window}) <= Attempts

=============================================================================

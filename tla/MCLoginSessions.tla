--------------------------- MODULE MCLoginSessions ---------------------------
(* Small instances of LoginSessions for TLC.                               *)
EXTENDS LoginSessions, TLC

\* Attempts differ in nothing, nor do requests.
MCSymmetry == Permutations(Logins) \cup Permutations(Requests)

=============================================================================

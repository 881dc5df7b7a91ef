--------------------------- MODULE MCSessionTurns ---------------------------
(* Small instances of SessionTurns for TLC.                                *)
EXTENDS SessionTurns

CONSTANTS r1, r2, r3

\* r1 and r2 send one message twice; r3 sends a message without an id.
MCMsgOf == [r \in Requests |-> IF r = r3 THEN None ELSE "m"]

=============================================================================

---------------------------- MODULE MCAccessKeys ----------------------------
(* Small instances of AccessKeys for TLC.                                  *)
EXTENDS AccessKeys, TLC

=============================================================================

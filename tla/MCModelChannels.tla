-------------------------- MODULE MCModelChannels --------------------------
(* Small instances of ModelChannels for TLC.                               *)
EXTENDS ModelChannels

CONSTANTS i1, i2, i3, k1, k2

=============================================================================

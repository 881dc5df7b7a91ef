--------------------------- MODULE MCUploadTickets ---------------------------
(* Small instances of UploadTickets for TLC.                               *)
EXTENDS UploadTickets, TLC

\* Uploads differ in nothing.
MCSymmetry == Permutations(Uploads)

=============================================================================

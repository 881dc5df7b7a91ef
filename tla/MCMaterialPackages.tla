------------------------- MODULE MCMaterialPackages -------------------------
(* A small instance of MaterialPackages for TLC.                           *)
EXTENDS MaterialPackages, TLC

CONSTANTS s1, s2

MCRequired == <<"ds160", "passport_bio">>
\* Sessions differ in nothing.
MCSymmetry == Permutations(Sessions)

=============================================================================

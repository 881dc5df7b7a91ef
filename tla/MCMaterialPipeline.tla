------------------------- MODULE MCMaterialPipeline -------------------------
(* Small instances of MaterialPipeline for TLC.                            *)
EXTENDS MaterialPipeline

CONSTANTS d1, d2

\* One document of the type the gate asks for, one of the funding type.
MCTypeOf == [d \in Docs |-> IF d = d1 THEN "i20" ELSE "funding_proof"]

=============================================================================

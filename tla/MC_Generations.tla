--------------------------- MODULE MC_Generations ---------------------------
(* The generations of the AI inbox by themselves.                            *)
EXTENDS Generations
=============================================================================

--------------------------- MODULE MC_BodyHydration ---------------------------
(* Two workers and a conversation of the window with two messages: one may be *)
(* deleted, the payload of the other cannot be parsed.                        *)
EXTENDS BodyHydration, TLC
CONSTANTS a1, a2, A, w1, w2
Place == (a1 :> A) @@ (a2 :> A)
Sym == Permutations(Workers)
=============================================================================

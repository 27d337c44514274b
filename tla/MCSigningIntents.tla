------------------------- MODULE MCSigningIntents -------------------------
(***************************************************************************)
(* SigningIntents on small instances.                                      *)
(***************************************************************************)
EXTENDS SigningIntents, TLC

Symmetry == Permutations(Handles) \cup Permutations(Intents)
=============================================================================

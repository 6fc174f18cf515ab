--------------------------- MODULE MC_WebSession ---------------------------
(* Model-checking instances of WebSession. *)
EXTENDS WebSession, TLC
ModelSymmetry == Permutations(Tokens) \cup Permutations(Tenants) \cup Permutations(Procs)
============================================================================

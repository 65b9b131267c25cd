-------------------------- MODULE MCSessionCatalog --------------------------
(* Model-checking instances of SessionCatalog. *)
EXTENDS SessionCatalog, TLC

MCSymmetry == Permutations(Shards) \cup Permutations(Syncers)
=============================================================================

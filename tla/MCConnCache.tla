----------------------------- MODULE MCConnCache -----------------------------
(* The connection cache on small instances: one asset with one database. *)
EXTENDS ConnCache, TLC

CONSTANTS a1, k1

OneAsset == k1 :> a1

Symmetry == Permutations(Caller) \cup Permutations(Conn)
=============================================================================

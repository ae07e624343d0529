------------------------------- MODULE MCAIChat -------------------------------
(* One conversation's turns on small instances. *)
EXTENDS AIChat, TLC

Symmetry == Permutations(Turn) \cup Permutations(Msg)
=============================================================================

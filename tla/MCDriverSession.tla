--------------------------- MODULE MCDriverSession ---------------------------
(* One session of an extension driver on small instances.  The instances are *)
(* interchangeable in the runs that check safety only.                        *)
EXTENDS DriverSession, TLC

CONSTANTS o1, o2, o3

\* A writer, a cursor and a plain operation, as far as Op has them.
Mixed == [o \in Op |-> CASE o = o1 -> "prepare" [] o = o2 -> "stream" [] o = o3 -> "op"]

Symmetry == Permutations(Inst)
=============================================================================

------------------------------ MODULE MCSSHPool ------------------------------
(* The SSH pool on small instances.  The callers are interchangeable, and so  *)
(* are the connections, in the runs that check safety only.                   *)
EXTENDS SSHPool, TLC

Symmetry == Permutations(Caller) \cup Permutations(Conn)
=============================================================================

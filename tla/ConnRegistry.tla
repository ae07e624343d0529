---------------------------- MODULE ConnRegistry ----------------------------
(***************************************************************************)
(* What a keyed connection registry promises, whatever its locking: at any *)
(* moment each key has at most one connection that may be handed out; a    *)
(* connection is handed out for one key only and never again once it has   *)
(* been withdrawn; only withdrawn connections are closed, each exactly     *)
(* once, and every withdrawn connection is closed in the end.              *)
(*                                                                         *)
(* The SSH pool (internal/sshpool) and the panel connection cache          *)
(* (internal/connpool) both implement it.                                  *)
(***************************************************************************)

CONSTANTS Key, Conn, NoConn

VARIABLES
  served,     \* the connection handed out for each key
  phase       \* how far each connection is in its life

vars == <<served, phase>>

Phase == {"unused", "serving", "withdrawn", "closed"}

Init ==
  /\ served = [k \in Key |-> NoConn]
  /\ phase = [c \in Conn |-> "unused"]

\* A dialled connection begins to serve a key that has none.
Publish(k, c) ==
  /\ served[k] = NoConn
  /\ phase[c] = "unused"
  /\ served' = [served EXCEPT ![k] = c]
  /\ phase' = [phase EXCEPT ![c] = "serving"]

\* A connection is dialled too late to serve anyone.
Reject(c) ==
  /\ phase[c] = "unused"
  /\ phase' = [phase EXCEPT ![c] = "withdrawn"]
  /\ UNCHANGED served

\* Some serving connections are withdrawn together.
Withdraw(S) ==
  /\ S # {}
  /\ \A c \in S : phase[c] = "serving"
  /\ served' = [k \in Key |-> IF served[k] \in S THEN NoConn ELSE served[k]]
  /\ phase' = [c \in Conn |-> IF c \in S THEN "withdrawn" ELSE phase[c]]

CloseConn(c) ==
  /\ phase[c] = "withdrawn"
  /\ phase' = [phase EXCEPT ![c] = "closed"]
  /\ UNCHANGED served

Next ==
  \/ \E k \in Key, c \in Conn : Publish(k, c)
  \/ \E c \in Conn : Reject(c) \/ CloseConn(c)
  \/ \E S \in SUBSET Conn : Withdraw(S)

Spec == Init /\ [][Next]_vars

LiveSpec == Spec /\ \A c \in Conn : WF_vars(CloseConn(c))
=============================================================================

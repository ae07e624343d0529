--------------------------- MODULE MCForwardManager ---------------------------
(* Starts of two configurations on one asset. *)
EXTENDS ForwardManager, TLC

CONSTANTS s1, s2, s3, k1, k2

\* Two starts of the first configuration, one of the second.
TwoConfigs == [s \in Start |-> IF s = s3 THEN k2 ELSE k1]
=============================================================================

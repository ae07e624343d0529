--------------------------- MODULE MCOpsctlApproval ---------------------------
(* Opsctl approvals on small instances.  The cfg of each run picks the requests *)
(* and their sessions; c3 is what the user may type, and has no grant of its own. *)
EXTENDS OpsctlApproval, TLC

CONSTANTS r1, r2, r3, s1, s2, c1, c2, c3

Asked == [r \in Req |-> IF r = r1 THEN c1 ELSE c2]

Granted == c1 :> {c1} @@ c2 :> {c2} @@ c3 :> {}

GrantedEdit == c1 :> {c1} @@ c2 :> {c2} @@ c3 :> {c3}

\* A command, a deletion and an MFA challenge, one of them without a session.
CommandsAndMFA == [r \in Req |-> CASE r = r1 -> "single" [] r = r2 -> "once" [] r = r3 -> "mfa"]
FirstSession == [r \in Req |-> IF r = r1 THEN s1 ELSE NoSession]

\* A command with and a command without a session.
TwoCommands == r1 :> "single" @@ r2 :> "single"
OneSession == r1 :> s1 @@ r2 :> NoSession

\* A grant request beside a command of another session.
GrantAndCommand == [r \in Req |-> CASE r = r1 -> "grant" [] r = r2 -> "single" [] r = r3 -> "batch"]
TwoSessions == [r \in Req |-> IF r = r1 THEN s1 ELSE s2]

\* Requests of the same session.
TwoGrants == r1 :> "grant" @@ r2 :> "grant"
SameSession == r1 :> s1 @@ r2 :> s1
=============================================================================

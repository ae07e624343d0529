---------------------------- MODULE MCToolApproval ----------------------------
(* Two overlapping calls of one or two conversations on one asset. *)
EXTENDS ToolApproval, TLC

CONSTANTS c1, c2, v1, v2, web, ls, cat, rm, blob, file, other

\* ls needs a yes, a rule allows cat, rm is denied by a rule, blob cannot be split into commands;
\* file and other are local paths.
Assets == [x \in Cmd |-> IF x \in {file, other} THEN Local ELSE web]
Rules == [x \in Cmd |-> CASE x = rm -> "deny" [] x = blob -> "opaque" [] x = cat -> "allow" [] OTHER -> "ask"]
Proposed == [x \in Cmd |-> {x}]
Edits == {{ls, rm, blob, file, other}}

In(v, tool, rounds, dst) == [conv |-> v, tool |-> tool, rounds |-> rounds, dst |-> dst]

Exec(v) == In(v, "exec", <<{ls}>>, NoCmd)
ExecBlob(v) == In(v, "exec", <<{blob}>>, NoCmd)
Batch(v) == In(v, "batch", <<{ls, rm, cat}>>, NoCmd)
Cp(v) == In(v, "cp", <<{cat}, {ls}>>, NoCmd)
CpMany(v) == In(v, "cpMany", <<{ls, cat}>>, file)
Grant(v) == In(v, "grant", <<{ls}>>, NoCmd)
Delete(v) == In(v, "delete", <<{blob}>>, NoCmd)
Write(v) == In(v, "local", <<{file, other}>>, NoCmd)

\* Two calls that can disturb each other, of one conversation and of two.
Pairs ==
  {c1 :> p[1] @@ c2 :> p[2] : p \in
    {<<Exec(v1), Exec(v1)>>, <<Grant(v1), Exec(v1)>>, <<Grant(v1), Batch(v1)>>, <<Grant(v1), Cp(v1)>>,
     <<Write(v1), Write(v1)>>, <<Write(v1), CpMany(v1)>>, <<Exec(v1), CpMany(v1)>>, <<Delete(v1), ExecBlob(v1)>>,
     <<Grant(v1), Exec(v2)>>, <<Exec(v1), Batch(v2)>>, <<Write(v1), Write(v2)>>, <<Batch(v1), Cp(v2)>>}}
=============================================================================

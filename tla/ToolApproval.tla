----------------------------- MODULE ToolApproval -----------------------------
(***************************************************************************)
(* What an AI tool call passes before it runs: internal/ai/permission      *)
(* (rules, grants, model review, confirmation), the handlers of            *)
(* internal/ai/tool that ask it (exec, batch_exec, cp, request_permission, *)
(* delete_asset), the local tool gate, and the approval dialog of          *)
(* internal/app/ai/approval.go.                                            *)
(*                                                                         *)
(* The calls of one turn may overlap: batch_exec is not serial and a       *)
(* subagent has calls of its own.  A command stands for the text together  *)
(* with the asset it is for; a pattern is the set of commands it matches.  *)
(* Audit records, wording and what the commands do are left out.           *)
(***************************************************************************)
EXTENDS Integers, Sequences, FiniteSets

CONSTANTS
  Conv,        \* conversations
  Call,        \* tool calls, each made at most once
  Asset,       \* assets
  Cmd,         \* what calls ask for: commands on assets, local subjects
  AssetOf,     \* the asset of each command; Local for a local subject
  Verdict,     \* what the rules alone say of it: "allow", "deny", "ask", or "opaque" (no sub-commands)
  Default,     \* the pattern "always allow" proposes for it
  Typed,       \* the patterns a user may type instead
  Plan,        \* the calls that may be made: the conversation of each and what it asks for
  MaxMode,     \* bound on the changes of permission modes
  Local, NoCmd, NoID, NoEdit

ASSUME ApprovalConstants ==
  /\ AssetOf \in [Cmd -> Asset \cup {Local}] /\ Local \notin Asset /\ NoCmd \notin Cmd
  /\ Verdict \in [Cmd -> {"allow", "deny", "ask", "opaque"}]
  /\ Default \in [Cmd -> SUBSET Cmd] /\ Typed \subseteq SUBSET Cmd /\ NoEdit \notin Typed
  /\ \A p \in Plan, c \in Call :
       /\ DOMAIN p = Call /\ p[c].conv \in Conv
       /\ p[c].tool \in {"exec", "batch", "cp", "cpMany", "grant", "delete", "local"}
       /\ p[c].rounds \in Seq(SUBSET Cmd) /\ p[c].dst \in Cmd \cup {NoCmd}
  /\ MaxMode \in Nat

\* What is asked of the local tools is no command of an asset, and rules judge neither
\* that nor deletions.  A call asks for something; only a transfer writes a local file.
ASSUME PlanConstants ==
  /\ \A x \in Cmd : AssetOf[x] = Local => Verdict[x] = "ask"
  /\ \A p \in Plan, c \in Call :
       /\ p[c].rounds # <<>>
       /\ p[c].dst # NoCmd => AssetOf[p[c].dst] = Local /\ p[c].tool \in {"cp", "cpMany"}
       /\ \A i \in DOMAIN p[c].rounds : \A x \in p[c].rounds[i] :
            /\ p[c].tool = "local" => AssetOf[x] = Local
            /\ p[c].tool = "delete" => Verdict[x] # "deny"

Mode == {"default", "assisted", "autopilot"}

VARIABLES
  mode,       \* the permission mode in force on each asset
  changes,    \* how often a mode has been changed
  grants,     \* approved grant items: conversation, asset and pattern
  allowed,    \* LocalToolGate.allowed: the patterns of each conversation
  call,       \* the tool calls
  pending,    \* pendingAIApprovals: the call filed under each confirmation id
  ch,         \* the channel of each confirmation: empty, or the response in it
  ui,         \* the approval block of each call in the chat
  clock,      \* the time confirmation ids are made of; no two dialogs read the same time
  stopped,    \* calls whose context is cancelled
  closed,     \* whether the application is closing
  said,       \* <<call, command>>: a yes was clicked in a dialog of that call showing that command
  consent     \* what the user has agreed to have remembered, with the conversation

vars == <<mode, changes, grants, allowed, call, pending, ch, ui, clock, stopped, closed, said, consent>>

-----------------------------------------------------------------------------
(* State *)

Response == [decision: {"deny", "allow", "allowAll"}, edit: Typed \cup {NoEdit}]

Denial == [decision |-> "deny", edit |-> NoEdit]

Tool == {"exec", "batch", "cp", "cpMany", "grant", "delete", "local"}

Kind == {"single", "once", "batch", "grant", "local_tool", "delete"}

Phase == {"new", "check", "review", "gate", "emit", "register", "wait", "remember", "store", "done"}

Kept == [conv: Conv, asset: Asset \cup {Local}, pattern: SUBSET Cmd]

ConfirmID == [prefix: {"ai", "grant", "local_tool"}, conv: Conv, time: Nat]

\* left: the checks still to come.  ok: what has been let through.  asked: what the
\* dialog lists.  sent, strict: what is under review, and the part of it whose asset
\* was on autopilot.  passed: what the model passed.  refused: a command of this round
\* was denied.  todo, seen: the patterns to remember and the list as it was loaded.
\* run: what the call goes on to execute.
CallState ==
  [phase: Phase, conv: Conv, tool: Tool, want: SUBSET Cmd, left: Seq(SUBSET Cmd), dst: Cmd \cup {NoCmd},
   ok: SUBSET Cmd, asked: SUBSET Cmd, sent: SUBSET Cmd, strict: SUBSET Cmd, passed: SUBSET Cmd,
   refused: BOOLEAN, prompted: BOOLEAN, kind: Kind, id: ConfirmID \cup {NoID},
   todo: SUBSET SUBSET Cmd, seen: SUBSET SUBSET Cmd, run: SUBSET Cmd]

NewCall(q) ==
  [phase |-> "new", conv |-> q.conv, tool |-> q.tool, want |-> UNION {q.rounds[i] : i \in DOMAIN q.rounds},
   left |-> q.rounds, dst |-> q.dst, ok |-> {}, asked |-> {}, sent |-> {}, strict |-> {}, passed |-> {},
   refused |-> FALSE, prompted |-> FALSE, kind |-> "once", id |-> NoID, todo |-> {}, seen |-> {}, run |-> {}]

Init ==
  /\ mode \in [Asset -> Mode] /\ changes = 0
  /\ grants = {} /\ allowed = [v \in Conv |-> {}]
  /\ call \in {[c \in Call |-> NewCall(p[c])] : p \in Plan}
  /\ pending = {} /\ ch = [c \in Call |-> {}] /\ ui = [c \in Call |-> "none"]
  /\ clock = 0 /\ stopped = {} /\ closed = FALSE /\ said = {} /\ consent = {}

-----------------------------------------------------------------------------
(* Rules, grants and model review *)

OfAsset(x) == {y \in Cmd : AssetOf[y] = AssetOf[x]}

\* Mutant: a lookup that forgets the session.
GrantedAnywhere(v, x) == \E g \in grants : g.asset = AssetOf[x] /\ x \in g.pattern

\* Whether the grants of the call's own conversation cover the command.
Granted(v, x) == \E g \in grants : g.conv = v /\ g.asset = AssetOf[x] /\ x \in g.pattern

\* Deny rules, then allow rules, then grants.  What has no sub-commands meets no grant.
RuleResult(v, x) ==
  CASE Verdict[x] \in {"allow", "deny"} -> Verdict[x]
    [] Verdict[x] = "ask" /\ Granted(v, x) -> "allow"
    [] OTHER -> "ask"

\* Whether the command may be put to the reviewing model.
Reviewable(x) == Verdict[x] # "opaque" /\ mode[AssetOf[x]] # "default"

\* CheckPermissions on the next round up to the review: rules and grants, then the modes.
\* Opaque commands are left to the user, or denied on autopilot.
Check(c) ==
  LET r == call[c]
      Results(res) == {x \in Head(r.left) : RuleResult(r.conv, x) = res}
      asks == Results("ask")
      sent == {x \in asks : Reviewable(x)}
      auto == {x \in asks : mode[AssetOf[x]] = "autopilot"}
  IN /\ r.phase = "check"
     /\ call' = [call EXCEPT ![c] = [r EXCEPT
          !.phase = "review", !.left = Tail(r.left), !.ok = @ \cup Results("allow"),
          !.asked = asks \ (sent \cup auto), !.sent = sent, !.strict = sent \cap auto,
          !.refused = Results("deny") \cup (auto \ sent) # {}]]
     /\ UNCHANGED <<mode, changes, grants, allowed, pending, ch, ui, clock, stopped, closed, said, consent>>

\* The call is over but for running what was let through.
Finish(r, run) == [r EXCEPT !.phase = "done", !.run = run, !.ok = {}, !.asked = {}, !.left = <<>>,
                            !.prompted = FALSE, !.refused = FALSE, !.kind = "once", !.id = NoID]

Drop(r) == Finish(r, {})

\* What a call does once a round of checks is over and nobody has to be asked about it,
\* or the user has agreed: the next round, the local write gate of a transfer nobody was
\* asked about, or the work itself.
Proceed(r) ==
  CASE r.left # <<>> -> [r EXCEPT !.phase = "check"]
    [] r.left = <<>> /\ r.dst # NoCmd /\ ~r.prompted -> [r EXCEPT !.phase = "gate"]
    [] OTHER -> Finish(r, r.ok \cup ({r.dst} \ {NoCmd}))


Ask(r, kind, items) == [r EXCEPT !.phase = "emit", !.kind = kind, !.asked = items]

\* ApprovalKindFor: a command without patterns can only be approved once.
ApprovalKindFor(items) == IF \E x \in items : Verdict[x] = "opaque" THEN "once" ELSE "single"

\* The round's results are in.  batch_exec goes on with what was let through, the
\* others give up on a refusal.
Decided(r) ==
  IF r.refused /\ r.tool # "batch" THEN Drop(r)
  ELSE IF r.asked = {} THEN Proceed(r)
  ELSE Ask(r, IF r.tool \in {"batch", "cpMany"} THEN "batch" ELSE ApprovalKindFor(r.asked), r.asked)

\* The model has answered.  What it did not pass is asked about, or denied where the
\* mode read before the review was autopilot.
Review(c, pass) ==
  LET r == call[c]
  IN /\ r.phase = "review" /\ pass \subseteq r.sent
     /\ call' = [call EXCEPT ![c] = Decided([r EXCEPT
          !.ok = @ \cup pass, !.passed = @ \cup pass, !.asked = @ \cup (r.sent \ (pass \cup r.strict)),
          !.refused = @ \/ r.strict \ pass # {}, !.sent = {}, !.strict = {}])]
     /\ UNCHANGED <<mode, changes, grants, allowed, pending, ch, ui, clock, stopped, closed, said, consent>>

-----------------------------------------------------------------------------
(* The calls *)

\* A tool call of some conversation's turn.  A grant request leaves out the assets on
\* autopilot; a deletion is always asked about.
Begin(c) ==
  LET r == call[c]
      kept == {x \in r.want : mode[AssetOf[x]] # "autopilot"}
  IN /\ r.phase = "new" /\ ~closed
     /\ call' = [call EXCEPT ![c] =
          CASE r.tool \in {"exec", "batch", "cp", "cpMany"} -> [r EXCEPT !.phase = "check"]
            [] r.tool = "local" -> [r EXCEPT !.phase = "gate", !.left = <<>>]
            [] r.tool = "delete" -> Ask([r EXCEPT !.left = <<>>], "delete", r.want)
            [] r.tool = "grant" ->
                 IF kept = {} THEN Drop(r) ELSE Ask([r EXCEPT !.left = <<>>], "grant", kept)]
     /\ UNCHANGED <<mode, changes, grants, allowed, pending, ch, ui, clock, stopped, closed, said, consent>>

\* LocalToolGate.decide up to the dialog: every subject has to match a remembered pattern.
Gate(c) ==
  LET r == call[c]
      subjects == IF r.tool = "local" THEN r.want ELSE {r.dst}
  IN /\ r.phase = "gate"
     /\ call' = [call EXCEPT ![c] =
          IF subjects \subseteq UNION allowed[r.conv]
          THEN Finish(r, r.ok \cup subjects)
          ELSE Ask(r, "local_tool", subjects)]
     /\ UNCHANGED <<mode, changes, grants, allowed, pending, ch, ui, clock, stopped, closed, said, consent>>

-----------------------------------------------------------------------------
(* The dialog *)

Prefix(kind) == IF kind \in {"grant", "local_tool"} THEN kind ELSE "ai"

\* The approval_request event goes out before the confirmation is filed.
Emit(c) ==
  LET r == call[c]
  IN /\ r.phase = "emit"
     /\ call' = [call EXCEPT ![c].phase = "register", ![c].id = [prefix |-> Prefix(r.kind), conv |-> r.conv, time |-> clock]]
     /\ ui' = [ui EXCEPT ![c] = "pending"]
     /\ clock' = clock + 1
     /\ UNCHANGED <<mode, changes, grants, allowed, pending, ch, stopped, closed, said, consent>>

Register(c) ==
  /\ call[c].phase = "register"
  /\ pending' = {p \in pending : p.id # call[c].id} \cup {[id |-> call[c].id, call |-> c]}
  /\ ch' = [ch EXCEPT ![c] = {}]
  /\ call' = [call EXCEPT ![c].phase = "wait"]
  /\ UNCHANGED <<mode, changes, grants, allowed, ui, clock, stopped, closed, said, consent>>

\* ParseApprovalResponse: anything that is not a decision of this kind is a denial.
Parse(kind, resp) ==
  LET mayEdit == resp.decision = "allowAll" \/ (kind = "grant" /\ resp.decision = "allow")
  IN IF \/ resp.decision = "deny"
        \/ resp.decision = "allowAll" /\ kind \notin {"single", "local_tool"}
        \/ resp.edit # NoEdit /\ ~mayEdit
     THEN Denial
     ELSE resp

\* What an approval has remembered: the edited pattern, within the asset the item is
\* for, or the proposed one.
Patterns(r, resp) ==
  {[conv |-> r.conv, asset |-> AssetOf[x],
    pattern |-> IF resp.edit = NoEdit THEN Default[x] ELSE resp.edit \cap OfAsset(x)] : x \in r.asked}

Remembers(kind, resp) == resp.decision = "allowAll" \/ (kind = "grant" /\ resp.decision = "allow")

\* What a dialog shows: its items, and both ends of a transfer.
Shown(r) == r.asked \cup ({r.dst} \ {NoCmd})

\* The user clicks in the dialog of call c.  The response goes to the call filed under the
\* block's id.  Before anything is filed, or with a response already in the channel, the
\* click changes nothing; the block stays until a result arrives and can be clicked again.
Respond(c, resp) ==
  LET r == call[c]
      yes == Parse(r.kind, resp)
  IN /\ ui[c] = "pending" /\ ~closed
     /\ \E p \in pending :
          /\ p.id = r.id /\ ch[p.call] = {}
          /\ ch' = [ch EXCEPT ![p.call] = {Parse(call[p.call].kind, resp)}]
     /\ said' = IF yes.decision = "deny" THEN said ELSE said \cup ({c} \X Shown(r))
     /\ consent' = IF Remembers(r.kind, yes) THEN consent \cup Patterns(r, yes) ELSE consent
     /\ UNCHANGED <<mode, changes, grants, allowed, call, pending, ui, clock, stopped, closed>>

\* Mutant: a denial that lets the rest of a transfer go on.
AppliedPartly(r, resp) ==
  LET yes == Parse(r.kind, resp)
      agreed == [r EXCEPT !.ok = @ \cup r.asked, !.prompted = TRUE]
  IN CASE yes.decision = "deny" /\ r.kind = "batch" -> Finish(r, r.ok)
       [] yes.decision = "deny" /\ r.kind # "batch" -> Drop(r)
       [] yes.decision # "deny" /\ r.kind = "grant" -> Drop(r)
       [] yes.decision = "allowAll" /\ r.kind = "local_tool" ->
            [agreed EXCEPT !.phase = "remember", !.todo = {k.pattern : k \in Patterns(r, yes)} \ {{}}]
       [] OTHER -> Proceed(agreed)

\* What the caller makes of the response.
Applied(r, resp) ==
  LET yes == Parse(r.kind, resp)
      agreed == [r EXCEPT !.ok = @ \cup r.asked, !.prompted = TRUE]
  IN CASE yes.decision = "deny" /\ r.tool = "batch" -> Finish(r, r.ok)
       [] yes.decision = "deny" /\ r.tool # "batch" -> Drop(r)
       [] yes.decision # "deny" /\ r.kind = "grant" -> Drop(r)
       [] yes.decision = "allowAll" /\ r.kind = "local_tool" ->
            [agreed EXCEPT !.phase = "remember", !.todo = {k.pattern : k \in Patterns(r, yes)} \ {{}}]
       [] OTHER -> Proceed(agreed)

\* Mutant: an edit saved for every asset.
SavedWide(r, resp) ==
  LET yes == Parse(r.kind, resp)
  IN IF Remembers(r.kind, yes) /\ r.kind \in {"single", "grant"}
     THEN {[k EXCEPT !.conv = v] : k \in Patterns(r, yes), v \in Conv}
     ELSE {}

\* The grants an approval writes before the call goes on.
Saved(r, resp) ==
  LET yes == Parse(r.kind, resp)
  IN IF Remembers(r.kind, yes) /\ r.kind \in {"single", "grant"}
     THEN {k \in Patterns(r, yes) : k.pattern # {}}
     ELSE {}

\* The deferred Delete, and the caller going on.  A grant the database does not take is
\* only logged.
Return(c, resp) ==
  /\ pending' = {p \in pending : p.id # call[c].id}
  /\ \E written \in {Saved(call[c], resp), {}} : grants' = grants \cup written
  /\ call' = [call EXCEPT ![c] = Applied(call[c], resp)]
  /\ ch' = [ch EXCEPT ![c] = {}]
  /\ UNCHANGED <<mode, changes, allowed, clock, stopped, closed, said, consent>>

\* approval_result settles every block with the id.
Settled(id) == [d \in Call |-> IF ui[d] = "pending" /\ call[d].id = id THEN "settled" ELSE ui[d]]

\* The select of the confirm functions: when several of its cases are ready any may win.
Answered(c) ==
  /\ call[c].phase = "wait"
  /\ \E resp \in ch[c] : Return(c, resp)
  /\ ui' = Settled(call[c].id)

\* Mutant: a cancellation that tells nobody.
CancelledSilently(c) ==
  /\ call[c].phase = "wait" /\ c \in stopped
  /\ Return(c, Denial)
  /\ UNCHANGED ui

\* Mutant: a confirmation that only an answer ends.
CancelledNever(c) ==
  /\ call[c].phase = "wait" /\ c \in stopped /\ ch[c] # {}
  /\ Return(c, Denial)
  /\ ui' = Settled(call[c].id)

Cancelled(c) ==
  /\ call[c].phase = "wait" /\ c \in stopped
  /\ Return(c, Denial)
  /\ ui' = Settled(call[c].id)

Closing(c) ==
  /\ call[c].phase = "wait" /\ closed
  /\ Return(c, Denial)
  /\ UNCHANGED ui

\* remember(): the list is loaded, and stored again with one pattern more.
RememberLoad(c) ==
  LET r == call[c]
  IN /\ r.phase = "remember"
     /\ call' = [call EXCEPT ![c] =
          IF r.todo \subseteq allowed[r.conv]
          THEN Finish([r EXCEPT !.todo = {}], r.ok)
          ELSE [r EXCEPT !.phase = "store", !.seen = allowed[r.conv]]]
     /\ UNCHANGED <<mode, changes, grants, allowed, pending, ch, ui, clock, stopped, closed, said, consent>>

RememberStore(c) ==
  LET r == call[c]
  IN /\ r.phase = "store"
     /\ \E p \in r.todo \ r.seen :
          /\ allowed' = [allowed EXCEPT ![r.conv] = r.seen \cup {p}]
          /\ call' = [call EXCEPT ![c].phase = "remember", ![c].todo = @ \ {p}, ![c].seen = {}]
     /\ UNCHANGED <<mode, changes, grants, pending, ch, ui, clock, stopped, closed, said, consent>>

-----------------------------------------------------------------------------
(* The user and the application *)

\* The asset is saved with another permission mode.
SetMode(a, m) ==
  /\ changes < MaxMode /\ m # mode[a] /\ ~closed
  /\ mode' = [mode EXCEPT ![a] = m] /\ changes' = changes + 1
  /\ UNCHANGED <<grants, allowed, call, pending, ch, ui, clock, stopped, closed, said, consent>>

\* The turn is stopped, replaced or its conversation deleted: the context of its calls ends.
StopTurn(v) ==
  LET running == {c \in Call : call[c].conv = v /\ call[c].phase \notin {"new", "done"}}
  IN /\ ~closed /\ running \ stopped # {}
     /\ stopped' = stopped \cup running
     /\ UNCHANGED <<mode, changes, grants, allowed, call, pending, ch, ui, clock, closed, said, consent>>

CloseApp ==
  /\ ~closed /\ closed' = TRUE
  /\ UNCHANGED <<mode, changes, grants, allowed, call, pending, ch, ui, clock, stopped, said, consent>>

-----------------------------------------------------------------------------

\* The steps the code takes by itself.
Step(c) ==
  \/ Check(c) \/ (\E pass \in SUBSET call[c].sent : Review(c, pass))
  \/ Gate(c) \/ Emit(c) \/ Register(c)
  \/ Answered(c) \/ Cancelled(c) \/ Closing(c)
  \/ RememberLoad(c) \/ RememberStore(c)

Next ==
  \/ \E c \in Call :
       \/ Begin(c)
       \/ Step(c)
       \/ \E resp \in Response : Respond(c, resp)
  \/ \E a \in Asset, m \in Mode : SetMode(a, m)
  \/ \E v \in Conv : StopTurn(v)
  \/ CloseApp

Spec == Init /\ [][Next]_vars

\* A goroutine that can go on does, and the review answers or fails in the end.
LiveSpec == Spec /\ \A c \in Call : WF_vars(Step(c))

-----------------------------------------------------------------------------
(* Properties *)

\* The state has the shape of the maps, channels and structs it stands for; a channel
\* takes one response, and a confirmation id names one call.
TypeOK ==
  /\ mode \in [Asset -> Mode] /\ changes \in Nat
  /\ grants \subseteq Kept /\ allowed \in [Conv -> SUBSET SUBSET Cmd]
  /\ call \in [Call -> CallState]
  /\ pending \subseteq [id: ConfirmID, call: Call]
  /\ \A p, q \in pending : p.id = q.id => p = q
  /\ ch \in [Call -> SUBSET Response] /\ \A c \in Call : \A x, y \in ch[c] : x = y
  /\ ui \in [Call -> {"none", "pending", "settled"}]
  /\ clock \in Nat
  /\ stopped \subseteq Call /\ closed \in BOOLEAN
  /\ said \subseteq Call \X Cmd /\ consent \subseteq Kept

\* Whether the user has agreed to have a pattern remembered that covers the command, in
\* this conversation.
Agreed(v, x) == \E k \in consent : k.conv = v /\ k.asset = AssetOf[x] /\ x \in k.pattern

\* What lets the call c, in state r, run the command x.
Backed(c, r, x) ==
  \/ <<c, x>> \in said /\ Verdict[x] # "deny"
  \/ r.tool # "delete" /\ Verdict[x] = "allow"
  \/ r.tool # "delete" /\ Verdict[x] = "ask" /\ (x \in r.passed \/ Agreed(r.conv, x))

\* Whatever a call runs is backed: by an allow rule, by the model's pass on a command the
\* rules could check, by a pattern the user agreed to in this conversation, or by a yes
\* clicked in a dialog of this very call that showed the command (approval.go: what is
\* shown is what is executed).  A denied command never runs, a deletion only runs on a
\* yes of its own, and a transfer nobody was asked about writes no local file the user
\* has not allowed.
RunsOnlyBacked == \A c \in Call : \A x \in call[c].run : Backed(c, call[c], x)

\* Every grant in the database and every pattern in a local allow list is one the user
\* agreed to have remembered, for that asset and in that conversation, and no wider.
KeptIsConsented ==
  /\ grants \subseteq consent
  /\ \A v \in Conv : \A p \in allowed[v] : [conv |-> v, asset |-> Local, pattern |-> p] \in consent

\* A transfer runs whole or not at all: one endpoint refused by a rule, the review or the
\* user stops it before any byte moves, however many rounds of checks it takes.
TransferWhole ==
  \A c \in Call : LET r == call[c] IN
    r.tool \in {"cp", "cpMany"} /\ r.run # {} => r.want \subseteq r.run

\* Nobody waits for an answer that cannot arrive: a waiting call has its block on the
\* screen and is the one filed under its id; and no block outlives its call, unless the
\* application is closing.
WaitingIsAnswerable ==
  \A c \in Call :
    /\ call[c].phase = "wait" => ui[c] = "pending" /\ [id |-> call[c].id, call |-> c] \in pending
    /\ ui[c] = "pending" => call[c].phase \in {"register", "wait"} \/ closed

\* A call whose turn is stopped, or whose application closes, returns.
StopEnds == \A c \in Call : (call[c].phase # "new" /\ (c \in stopped \/ closed)) ~> (call[c].phase = "done")
=============================================================================

-------------------------- MODULE ToolApprovalProofs --------------------------
(***************************************************************************)
(* Proofs about the approval of AI tool calls, for any number of           *)
(* conversations, calls, assets and commands, any rules and any patterns.  *)
(***************************************************************************)
EXTENDS ToolApproval, TLAPS

-----------------------------------------------------------------------------
(* The inductive invariant *)

\* Where a call has a dialog coming or open, and where the dialog has an id.
Asking == {"emit", "register", "wait"}
Live == {"register", "wait"}

\* The tools whose commands are checked.
Checked == {"exec", "batch", "cp", "cpMany"}

\* What the local tools are asked for.
Subject == {x \in Cmd : AssetOf[x] = Local}

\* The commands of the checks still to come.
Rest(left) == UNION {left[i] : i \in DOMAIN left}

\* The user has agreed to have the local pattern t remembered.
LocallyAgreed(v, t) == [conv |-> v, asset |-> Local, pattern |-> t] \in consent

\* What never changes of a call.
Planned(r) ==
  /\ r.tool = "local" => r.want \subseteq Subject
  /\ r.dst # NoCmd => r.dst \in Subject /\ r.tool \in {"cp", "cpMany"}
  /\ r.tool = "delete" => \A x \in r.want : Verdict[x] # "deny"

\* Which calls get where, and what is still left to check there.
Placed(r) ==
  /\ r.phase \in {"new", "check"} => r.left # <<>>
  /\ r.phase \in {"check", "review"} => r.tool \in Checked
  /\ r.phase = "gate" => r.left = <<>> /\ (r.tool = "local" \/ r.dst # NoCmd)
  /\ r.phase \in Asking =>
       /\ r.tool \notin Checked => r.left = <<>>
       /\ r.tool = "grant" => r.kind = "grant"
       /\ r.kind = "local_tool" => r.left = <<>> /\ r.asked \subseteq Subject
  /\ r.phase \in {"remember", "store"} => r.left = <<>>
  /\ r.phase # "done" => r.run = {}

\* What was let through or runs is backed, and what is under review or asked about was
\* not denied by a rule.
LetThrough(c, r) ==
  /\ \A x \in r.ok \cup r.run : Backed(c, r, x)
  /\ r.phase = "review" => \A x \in r.sent : Verdict[x] = "ask"
  /\ r.phase \in Asking \cup {"review"} /\ r.tool # "grant" => \A x \in r.asked : Verdict[x] # "deny"
  /\ r.prompted /\ r.dst # NoCmd => <<c, r.dst>> \in said

\* What a call is about to remember, or has loaded, the user agreed to.
Remembering(r) ==
  /\ r.phase \in {"remember", "store"} => \A t \in r.todo : LocallyAgreed(r.conv, t)
  /\ r.phase = "store" => \A t \in r.seen : LocallyAgreed(r.conv, t)

\* Nothing a transfer wants gets lost on the way without stopping it.
Whole(r) ==
  r.tool \in {"cp", "cpMany"} =>
    /\ r.phase \in {"new", "check"} => r.want \subseteq r.ok \cup Rest(r.left)
    /\ r.phase = "review" /\ ~r.refused => r.want \subseteq r.ok \cup r.asked \cup r.sent \cup Rest(r.left)
    /\ r.phase \in Asking => r.want \subseteq r.ok \cup r.asked \cup Rest(r.left)
    /\ r.phase \in {"gate", "remember", "store"} => r.want \subseteq r.ok
    /\ r.phase = "done" => r.run = {} \/ r.want \subseteq r.run

CallOK(c, r) == Planned(r) /\ Placed(r) /\ LetThrough(c, r) /\ Remembering(r) /\ Whole(r)

CallInv == \A c \in Call : CallOK(c, call[c])

\* Ids are of the past and name one call; what is filed is a call that waits.
IdInv ==
  /\ \A c \in Call : call[c].phase \in Live => call[c].id \in ConfirmID /\ call[c].id.time < clock
  /\ \A c, d \in Call : call[c].phase \in Live /\ call[d].phase \in Live /\ call[c].id = call[d].id => c = d
  /\ \A p \in pending : call[p.call].phase = "wait" /\ p.id = call[p.call].id

\* A dialog with an id is on the screen.
ScreenInv ==
  /\ WaitingIsAnswerable
  /\ \A c \in Call : call[c].phase = "register" => ui[c] = "pending"

\* A response in a call's channel was given to that call's dialog.
Meant(c, r, resp) ==
  LET yes == Parse(r.kind, resp) IN
  /\ yes.decision # "deny" => {c} \X Shown(r) \subseteq said
  /\ Remembers(r.kind, yes) => Patterns(r, yes) \subseteq consent

ChannelInv == \A c \in Call : \A resp \in ch[c] : call[c].phase = "wait" /\ Meant(c, call[c], resp)

\* The inductive invariant behind the approvals.
IInv == TypeOK /\ CallInv /\ IdInv /\ ScreenInv /\ ChannelInv /\ KeptIsConsented

-----------------------------------------------------------------------------
(* The records of the calls *)

\* A call that is over.
LEMMA FinishIs ==
  ASSUME NEW r \in CallState, NEW run \in SUBSET Cmd, NEW e, e = Finish(r, run)
  PROVE  /\ e \in CallState
         /\ e.phase = "done" /\ e.run = run /\ e.ok = {} /\ e.asked = {} /\ ~e.prompted
         /\ e.conv = r.conv /\ e.tool = r.tool /\ e.want = r.want /\ e.dst = r.dst /\ e.passed = r.passed
<1>1. <<>> \in Seq(SUBSET Cmd) /\ "done" \in Phase /\ "once" \in Kind
  BY DEF Phase, Kind
<1>2. \A b \in BOOLEAN : [r EXCEPT !.phase = "done", !.run = run, !.ok = {}, !.asked = {}, !.left = <<>>,
                            !.prompted = b, !.refused = b, !.kind = "once", !.id = NoID] \in CallState
  BY <1>1 DEF CallState
<1>3. e \in CallState
  BY <1>2, Zenon DEF Finish
<1> QED
  BY <1>3 DEF CallState, Finish

\* A call that goes on asking.
LEMMA AskIs ==
  ASSUME NEW r \in CallState, NEW kind \in Kind, NEW items \in SUBSET Cmd, NEW e, e = Ask(r, kind, items)
  PROVE  /\ e \in CallState
         /\ e.phase = "emit" /\ e.kind = kind /\ e.asked = items
         /\ e.run = r.run /\ e.ok = r.ok /\ e.left = r.left /\ e.prompted = r.prompted
         /\ e.conv = r.conv /\ e.tool = r.tool /\ e.want = r.want /\ e.dst = r.dst /\ e.passed = r.passed
<1>1. e \in CallState
  BY DEF CallState, Ask, Phase
<1> QED
  BY <1>1 DEF CallState, Ask

\* A call that only changes its phase.
LEMMA PhaseIs ==
  ASSUME NEW r \in CallState, NEW phase \in Phase, NEW e, e = [r EXCEPT !.phase = phase]
  PROVE  /\ e \in CallState
         /\ e.phase = phase /\ e.kind = r.kind /\ e.asked = r.asked /\ e.sent = r.sent /\ e.refused = r.refused
         /\ e.run = r.run /\ e.ok = r.ok /\ e.left = r.left /\ e.prompted = r.prompted /\ e.id = r.id
         /\ e.conv = r.conv /\ e.tool = r.tool /\ e.want = r.want /\ e.dst = r.dst /\ e.passed = r.passed
         /\ e.todo = r.todo /\ e.seen = r.seen
<1>1. e \in CallState
  BY DEF CallState
<1> QED
  BY <1>1 DEF CallState

\* A call may end with what is backed, and a transfer with all it wants or nothing.
LEMMA FinishOK ==
  ASSUME NEW c \in Call, NEW r \in CallState, NEW run \in SUBSET Cmd, Planned(r),
         \A x \in run : Backed(c, r, x),
         r.tool \in {"cp", "cpMany"} => run = {} \/ r.want \subseteq run,
         NEW e, e = Finish(r, run)
  PROVE  e \in CallState /\ e.phase = "done" /\ CallOK(c, e)
<1>1. /\ e \in CallState
      /\ e.phase = "done" /\ e.run = run /\ e.ok = {} /\ e.asked = {} /\ ~e.prompted
      /\ e.conv = r.conv /\ e.tool = r.tool /\ e.want = r.want /\ e.dst = r.dst /\ e.passed = r.passed
  BY FinishIs
<1>2. Planned(e) /\ Placed(e) /\ Remembering(e) /\ Whole(e)
  BY <1>1 DEF Planned, Placed, Asking, Remembering, Whole
<1>3. LetThrough(c, e)
  BY <1>1 DEF LetThrough, Backed, Asking
<1> QED
  BY <1>1, <1>2, <1>3 DEF CallOK

\* It may always end with nothing.
LEMMA DropOK ==
  ASSUME NEW c \in Call, NEW r \in CallState, Planned(r), NEW e, e = Drop(r)
  PROVE  e \in CallState /\ e.phase = "done" /\ CallOK(c, e)
<1>1. e = Finish(r, {}) /\ {} \in SUBSET Cmd
  BY DEF Drop
<1> QED
  BY <1>1, FinishOK

\* Between two rounds a call has let through or still to check what it wants.
LEMMA ProceedOK ==
  ASSUME NEW c \in Call, NEW r \in CallState, Planned(r), r.run = {},
         \A x \in r.ok : Backed(c, r, x),
         r.prompted /\ r.dst # NoCmd => <<c, r.dst>> \in said,
         r.tool \notin Checked => r.left = <<>>,
         r.tool \in {"cp", "cpMany"} => r.want \subseteq r.ok \cup Rest(r.left),
         NEW e, e = Proceed(r)
  PROVE  e \in CallState /\ e.phase \in {"check", "gate", "done"} /\ CallOK(c, e)
<1>0. r.ok \in SUBSET Cmd /\ r.dst \in Cmd \cup {NoCmd}
  BY DEF CallState
<1>1. CASE r.left # <<>>
  <2>1. e = [r EXCEPT !.phase = "check"] /\ "check" \in Phase
    BY <1>1 DEF Proceed, Phase
  <2>2. /\ e \in CallState
        /\ e.phase = "check" /\ e.run = r.run /\ e.ok = r.ok /\ e.left = r.left /\ e.prompted = r.prompted
        /\ e.conv = r.conv /\ e.tool = r.tool /\ e.want = r.want /\ e.dst = r.dst /\ e.passed = r.passed
    BY <2>1, PhaseIs
  <2>3. Planned(e) /\ Placed(e) /\ Remembering(e) /\ Whole(e)
    BY <1>1, <2>2 DEF Planned, Placed, Asking, Remembering, Whole
  <2>4. LetThrough(c, e)
    BY <2>2 DEF LetThrough, Backed, Asking
  <2> QED
    BY <2>2, <2>3, <2>4 DEF CallOK
<1>2. r.left = <<>> => Rest(r.left) = {}
  BY DEF Rest
<1>3. CASE r.left = <<>> /\ r.dst # NoCmd /\ ~r.prompted
  <2>1. e = [r EXCEPT !.phase = "gate"] /\ "gate" \in Phase
    BY <1>3 DEF Proceed, Phase
  <2>2. /\ e \in CallState
        /\ e.phase = "gate" /\ e.run = r.run /\ e.ok = r.ok /\ e.left = r.left /\ e.prompted = r.prompted
        /\ e.conv = r.conv /\ e.tool = r.tool /\ e.want = r.want /\ e.dst = r.dst /\ e.passed = r.passed
    BY <2>1, PhaseIs
  <2>3. Planned(e) /\ Placed(e) /\ Remembering(e) /\ Whole(e)
    BY <1>2, <1>3, <2>2 DEF Planned, Placed, Asking, Remembering, Whole
  <2>4. LetThrough(c, e)
    BY <2>2 DEF LetThrough, Backed, Asking
  <2> QED
    BY <2>2, <2>3, <2>4 DEF CallOK
<1>4. CASE r.left = <<>> /\ (r.dst = NoCmd \/ r.prompted)
  <2>1. PICK run \in SUBSET Cmd : run = r.ok \cup ({r.dst} \ {NoCmd})
    BY <1>0
  <2>2. e = Finish(r, run)
    BY <1>4, <2>1 DEF Proceed
  <2>3. \A x \in run : Backed(c, r, x)
    <3>1. r.dst # NoCmd => <<c, r.dst>> \in said /\ Verdict[r.dst] # "deny"
      BY <1>4, PlanConstants DEF Planned, Subject
    <3> QED
      BY <2>1, <3>1 DEF Backed
  <2> QED
    BY <1>2, <1>4, <2>1, <2>2, <2>3, FinishOK
<1> QED
  BY <1>1, <1>3, <1>4

\* After a round a call gives up, goes on or asks.
LEMMA DecidedOK ==
  ASSUME NEW c \in Call, NEW r \in CallState, Planned(r), r.run = {}, r.tool \in Checked,
         \A x \in r.ok : Backed(c, r, x),
         \A x \in r.asked : Verdict[x] # "deny",
         r.prompted /\ r.dst # NoCmd => <<c, r.dst>> \in said,
         r.tool \in {"cp", "cpMany"} /\ ~r.refused => r.want \subseteq r.ok \cup r.asked \cup Rest(r.left),
         NEW e, e = Decided(r)
  PROVE  e \in CallState /\ e.phase \notin Live /\ CallOK(c, e)
<1>1. CASE r.refused /\ r.tool # "batch"
  BY <1>1, DropOK DEF Decided, Live
<1>2. CASE ~(r.refused /\ r.tool # "batch") /\ r.asked = {}
  <2>1. e = Proceed(r)
    BY <1>2 DEF Decided
  <2>2. r.tool \in {"cp", "cpMany"} => r.want \subseteq r.ok \cup Rest(r.left)
    BY <1>2
  <2>3. r.tool \notin Checked => r.left = <<>>
    OBVIOUS
  <2> QED
    BY <2>1, <2>2, <2>3, ProceedOK DEF Live
<1>3. CASE ~(r.refused /\ r.tool # "batch") /\ r.asked # {}
  <2>1. PICK kind \in {"batch", "once", "single"} : e = Ask(r, kind, r.asked)
    BY <1>3 DEF Decided, ApprovalKindFor
  <2>2. kind \in Kind /\ r.asked \in SUBSET Cmd /\ kind # "local_tool" /\ r.tool # "grant"
    BY DEF Kind, CallState, Checked
  <2>3. /\ e \in CallState
        /\ e.phase = "emit" /\ e.kind = kind /\ e.asked = r.asked
        /\ e.run = r.run /\ e.ok = r.ok /\ e.left = r.left /\ e.prompted = r.prompted
        /\ e.conv = r.conv /\ e.tool = r.tool /\ e.want = r.want /\ e.dst = r.dst /\ e.passed = r.passed
    BY <2>1, <2>2, AskIs
  <2>4. Planned(e) /\ Placed(e) /\ Remembering(e) /\ Whole(e)
    BY <1>3, <2>2, <2>3 DEF Planned, Placed, Asking, Remembering, Whole
  <2>5. LetThrough(c, e)
    BY <2>3 DEF LetThrough, Backed, Asking
  <2> QED
    BY <2>3, <2>4, <2>5 DEF CallOK, Live
<1> QED
  BY <1>1, <1>2, <1>3

\* Asking the user about something no rule denies.
LEMMA AskOK ==
  ASSUME NEW c \in Call, NEW r \in CallState, Planned(r), r.run = {}, r.left = <<>>,
         \A x \in r.ok : Backed(c, r, x),
         r.prompted /\ r.dst # NoCmd => <<c, r.dst>> \in said,
         r.tool \in {"cp", "cpMany"} => r.want \subseteq r.ok,
         NEW kind \in Kind, NEW items \in SUBSET Cmd,
         r.tool # "grant" => \A x \in items : Verdict[x] # "deny",
         r.tool = "grant" => kind = "grant",
         kind = "local_tool" => items \subseteq Subject,
         NEW e, e = Ask(r, kind, items)
  PROVE  e \in CallState /\ e.phase = "emit" /\ CallOK(c, e)
<1>1. /\ e \in CallState
      /\ e.phase = "emit" /\ e.kind = kind /\ e.asked = items
      /\ e.run = r.run /\ e.ok = r.ok /\ e.left = r.left /\ e.prompted = r.prompted
      /\ e.conv = r.conv /\ e.tool = r.tool /\ e.want = r.want /\ e.dst = r.dst /\ e.passed = r.passed
  BY AskIs
<1>2. Planned(e) /\ Placed(e) /\ Remembering(e) /\ Whole(e)
  BY <1>1 DEF Planned, Placed, Asking, Remembering, Whole
<1>3. LetThrough(c, e)
  BY <1>1 DEF LetThrough, Backed, Asking
<1> QED
  BY <1>1, <1>2, <1>3 DEF CallOK

\* A denial is a response that grants nothing, and parsing a response twice changes nothing.
LEMMA ParseIs ==
  ASSUME NEW kind \in Kind, NEW resp \in Response
  PROVE  /\ Denial \in Response /\ Parse(kind, Denial).decision = "deny"
         /\ Parse(kind, resp) \in Response
         /\ Parse(kind, Parse(kind, resp)) = Parse(kind, resp)
         /\ Remembers(kind, Parse(kind, resp)) => Parse(kind, resp).decision # "deny"
<1>1. Denial \in Response /\ Denial.decision = "deny" /\ Denial.edit = NoEdit
  BY DEF Denial, Response
<1>2. Parse(kind, Denial) = Denial
  BY <1>1 DEF Parse
<1>3. Parse(kind, resp) = Denial \/ Parse(kind, resp) = resp
  BY DEF Parse
<1>4. Parse(kind, Parse(kind, resp)) = Parse(kind, resp)
  BY <1>2, <1>3
<1>5. Remembers(kind, Parse(kind, resp)) => Parse(kind, resp).decision # "deny"
  BY DEF Remembers
<1> QED
  BY <1>1, <1>2, <1>3, <1>4, <1>5

\* The patterns of an approval are of the asset of their item.
LEMMA PatternsAre ==
  ASSUME NEW r \in CallState, NEW yes \in Response, NEW k \in Patterns(r, yes)
  PROVE  /\ k \in Kept /\ k.conv = r.conv
         /\ r.asked \subseteq Subject => k = [conv |-> r.conv, asset |-> Local, pattern |-> k.pattern]
<1>1. PICK x \in r.asked : k = [conv |-> r.conv, asset |-> AssetOf[x],
         pattern |-> IF yes.edit = NoEdit THEN Default[x] ELSE yes.edit \cap OfAsset(x)]
  BY DEF Patterns
<1>2. PICK t : t = IF yes.edit = NoEdit THEN Default[x] ELSE yes.edit \cap OfAsset(x)
  OBVIOUS
<1>3. r.conv \in Conv /\ x \in Cmd
  BY <1>1 DEF CallState
<1>4. t \in SUBSET Cmd /\ AssetOf[x] \in Asset \cup {Local}
  BY <1>2, <1>3, ApprovalConstants DEF Response, OfAsset
<1>5. k = [conv |-> r.conv, asset |-> AssetOf[x], pattern |-> t]
  BY <1>1, <1>2
<1> QED
  BY <1>1, <1>3, <1>4, <1>5 DEF Kept, Subject

\* What a waiting call makes of a response that was meant for it.
LEMMA AppliedOK ==
  ASSUME NEW c \in Call, NEW r \in CallState, CallOK(c, r), r.phase = "wait", NEW resp \in Response, Meant(c, r, resp),
         NEW e, e = Applied(r, resp)
  PROVE  e \in CallState /\ e.phase \notin Live /\ CallOK(c, e)
<1>1. PICK yes \in Response : yes = Parse(r.kind, resp)
  BY ParseIs DEF CallState
<1>2. r.kind \in Kind /\ r.ok \in SUBSET Cmd /\ r.asked \in SUBSET Cmd /\ r.tool \in Tool /\ Planned(r) /\ r.run = {}
  BY DEF CallState, CallOK, Placed
<1>3. \A x \in r.ok : Backed(c, r, x)
  BY DEF CallOK, LetThrough
<1>4. CASE yes.decision = "deny" /\ r.tool = "batch"
  <2>1. e = Finish(r, r.ok)
    BY <1>1, <1>4 DEF Applied
  <2> QED
    BY <1>2, <1>3, <1>4, <2>1, FinishOK DEF Live
<1>5. CASE yes.decision = "deny" /\ r.tool # "batch"
  <2>1. e = Drop(r)
    BY <1>1, <1>5 DEF Applied
  <2> QED
    BY <1>2, <2>1, DropOK DEF Live
<1>6. CASE yes.decision # "deny" /\ r.kind = "grant"
  <2>1. e = Drop(r)
    BY <1>1, <1>6 DEF Applied
  <2> QED
    BY <1>2, <2>1, DropOK DEF Live
<1>7. CASE yes.decision # "deny" /\ r.kind # "grant"
  <2>1. PICK g : g = [r EXCEPT !.ok = @ \cup r.asked, !.prompted = TRUE]
    OBVIOUS
  <2>2. g \in CallState
    <3>1. \A b \in BOOLEAN : [r EXCEPT !.ok = @ \cup r.asked, !.prompted = b] \in CallState
      BY <1>2 DEF CallState
    <3> QED
      BY <2>1, <3>1, Zenon
  <2>3. /\ g.ok = r.ok \cup r.asked /\ g.prompted
        /\ g.phase = r.phase /\ g.kind = r.kind /\ g.asked = r.asked /\ g.run = r.run /\ g.left = r.left
        /\ g.conv = r.conv /\ g.tool = r.tool /\ g.want = r.want /\ g.dst = r.dst /\ g.passed = r.passed
    BY <2>1, <2>2 DEF CallState
  <2>4. Planned(g)
    BY <1>2, <2>3 DEF Planned
  <2>5. {c} \X Shown(r) \subseteq said /\ r.tool # "grant"
    BY <1>1, <1>7 DEF Meant, CallOK, Placed, Asking
  <2>6. \A x \in g.ok : Backed(c, g, x)
    <3>1. \A x \in r.asked : <<c, x>> \in said /\ Verdict[x] # "deny"
      BY <2>5 DEF Shown, CallOK, LetThrough, Asking
    <3> QED
      BY <1>3, <2>3, <3>1 DEF Backed
  <2>7. g.dst # NoCmd => <<c, g.dst>> \in said
    BY <2>3, <2>5 DEF Shown
  <2>8. g.tool \notin Checked => g.left = <<>>
    BY <2>3 DEF CallOK, Placed, Asking
  <2>9. g.tool \in {"cp", "cpMany"} => g.want \subseteq g.ok \cup Rest(g.left)
    BY <2>3 DEF CallOK, Whole, Asking
  <2>10. CASE ~(yes.decision = "allowAll" /\ r.kind = "local_tool")
    <3>1. e = Proceed(g)
      BY <1>1, <1>7, <2>1, <2>10 DEF Applied
    <3> QED
      BY <1>2, <2>2, <2>3, <2>4, <2>6, <2>7, <2>8, <2>9, <3>1, ProceedOK DEF Live
  <2>11. CASE yes.decision = "allowAll" /\ r.kind = "local_tool"
    <3>1. PICK todo : todo = {k.pattern : k \in Patterns(r, yes)} \ {{}}
      OBVIOUS
    <3>2. r.asked \subseteq Subject /\ r.left = <<>>
      BY <2>11 DEF CallOK, Placed, Asking
    <3>3. Patterns(r, yes) \subseteq consent
      BY <1>1, <2>11 DEF Meant, Remembers
    <3>4. todo \in SUBSET SUBSET Cmd /\ \A t \in todo : LocallyAgreed(r.conv, t)
      <4> SUFFICES ASSUME NEW t \in todo
                   PROVE  t \in SUBSET Cmd /\ LocallyAgreed(r.conv, t)
        OBVIOUS
      <4>1. PICK k \in Patterns(r, yes) : t = k.pattern
        BY <3>1
      <4>2. k \in Kept /\ k = [conv |-> r.conv, asset |-> Local, pattern |-> k.pattern]
        BY <3>2, PatternsAre
      <4> QED
        BY <3>3, <4>1, <4>2 DEF Kept, LocallyAgreed
    <3>5. e = [g EXCEPT !.phase = "remember", !.todo = todo]
      BY <1>1, <1>7, <2>1, <2>11, <3>1 DEF Applied
    <3>6. e \in CallState
      <4>1. "remember" \in Phase
        BY DEF Phase
      <4>2. \A t \in SUBSET SUBSET Cmd : [g EXCEPT !.phase = "remember", !.todo = t] \in CallState
        BY <2>2, <4>1 DEF CallState
      <4> QED
        BY <3>4, <3>5, <4>2
    <3>7. /\ e.phase = "remember" /\ e.todo = todo /\ e.ok = g.ok /\ e.prompted = g.prompted
          /\ e.run = g.run /\ e.left = g.left
          /\ e.conv = g.conv /\ e.tool = g.tool /\ e.want = g.want /\ e.dst = g.dst /\ e.passed = g.passed
      BY <2>2, <3>5, <3>6 DEF CallState
    <3>8. Rest(g.left) = {}
      BY <2>3, <3>2 DEF Rest
    <3>9. Planned(e) /\ Placed(e) /\ Whole(e)
      BY <1>2, <2>3, <2>4, <2>9, <3>2, <3>7, <3>8 DEF Planned, Placed, Asking, Whole
    <3>10. Remembering(e)
      BY <2>3, <3>4, <3>7 DEF Remembering
    <3>11. LetThrough(c, e)
      BY <1>2, <2>3, <2>6, <2>7, <3>7 DEF LetThrough, Backed, Asking
    <3> QED
      BY <3>6, <3>7, <3>9, <3>10, <3>11 DEF CallOK, Live
  <2> QED
    BY <2>10, <2>11
<1> QED
  BY <1>4, <1>5, <1>6, <1>7

-----------------------------------------------------------------------------
(* Steps without a dialog on the screen *)

\* A call that has no dialog before or after the step.
LEMMA QuietKeeps ==
  ASSUME IInv, NEW c \in Call, NEW e \in CallState, call' = [call EXCEPT ![c] = e], CallOK(c, e),
         call[c].phase \notin Live, e.phase \notin Live,
         UNCHANGED <<mode, changes, grants, pending, ch, ui, clock, stopped, closed, said, consent>>,
         allowed' \in [Conv -> SUBSET SUBSET Cmd],
         \A v \in Conv : \A p \in allowed'[v] : LocallyAgreed(v, p)
  PROVE  IInv'
<1>1. TypeOK /\ call'[c] = e /\ \A d \in Call : d # c => call'[d] = call[d]
  BY DEF IInv, TypeOK
<1>2. TypeOK'
  BY <1>1 DEF TypeOK
<1>3. CallInv'
  <2>1. \A d \in Call : d # c => CallOK(d, call[d])
    BY DEF IInv, CallInv
  <2>2. \A d \in Call : CallOK(d, call'[d])
    BY <1>1, <2>1
  <2> QED
    BY <2>2 DEF CallInv, CallOK, Planned, Placed, LetThrough, Remembering, Whole, Backed, Agreed, LocallyAgreed
<1>4. IdInv'
  <2>1. \A p \in pending : p.call \in Call /\ p.call # c
    BY <1>1 DEF IInv, IdInv, TypeOK, Live
  <2> QED
    BY <1>1, <2>1 DEF IInv, IdInv
<1>5. ScreenInv'
  <2>1. ui[c] = "pending" => closed
    BY DEF IInv, ScreenInv, WaitingIsAnswerable, Live
  <2>2. ASSUME NEW d \in Call, d # c
        PROVE  /\ call'[d].phase = "wait" => ui[d] = "pending" /\ [id |-> call'[d].id, call |-> d] \in pending
               /\ ui[d] = "pending" => call'[d].phase \in {"register", "wait"} \/ closed
               /\ call'[d].phase = "register" => ui[d] = "pending"
    <3>1. call'[d] = call[d]
      BY <1>1, <2>2
    <3> QED
      BY <3>1 DEF IInv, ScreenInv, WaitingIsAnswerable
  <2> QED
    BY <1>1, <2>1, <2>2 DEF ScreenInv, WaitingIsAnswerable, Live
<1>6. ChannelInv'
  <2>1. \A resp \in ch[c] : FALSE
    BY DEF IInv, ChannelInv, Live
  <2>2. \A d \in Call : \A resp \in ch[d] : call'[d].phase = "wait" /\ Meant(d, call'[d], resp)
    BY <1>1, <2>1 DEF IInv, ChannelInv
  <2> QED
    BY <2>2 DEF ChannelInv, Meant
<1>7. KeptIsConsented'
  BY DEF IInv, KeptIsConsented, LocallyAgreed
<1> QED
  BY <1>2, <1>3, <1>4, <1>5, <1>6, <1>7 DEF IInv

\* What the lists hold, the user agreed to.
LEMMA ListsAgreed ==
  ASSUME IInv
  PROVE  /\ allowed \in [Conv -> SUBSET SUBSET Cmd]
         /\ \A v \in Conv : \A p \in allowed[v] : LocallyAgreed(v, p)
BY DEF IInv, TypeOK, KeptIsConsented, LocallyAgreed

\* A grant the rules meet is backed.
LEMMA GrantedIsAgreed ==
  ASSUME IInv, NEW v, NEW x, Granted(v, x)
  PROVE  Agreed(v, x)
BY DEF IInv, KeptIsConsented, Granted, Agreed

\* The head of what is left, and the rest of it.
LEMMA RestIs ==
  ASSUME NEW left \in Seq(SUBSET Cmd), left # <<>>
  PROVE  /\ Head(left) \in SUBSET Cmd /\ Tail(left) \in Seq(SUBSET Cmd)
         /\ Rest(left) \subseteq Head(left) \cup Rest(Tail(left))
<1>1. Head(left) = left[1] /\ Tail(left) \in Seq(SUBSET Cmd) /\ Head(left) \in SUBSET Cmd
  OBVIOUS
<1>2. ASSUME NEW i \in DOMAIN left, i # 1
      PROVE  i - 1 \in DOMAIN Tail(left) /\ Tail(left)[i - 1] = left[i]
  BY <1>2
<1> QED
  BY <1>1, <1>2 DEF Rest

\* CheckPermissions up to the review.
LEMMA CheckKeeps ==
  ASSUME IInv, NEW c \in Call, Check(c)
  PROVE  IInv'
<1>1. PICK r \in CallState : r = call[c]
  BY DEF IInv, TypeOK
<1> DEFINE Results(res) == {x \in Head(r.left) : RuleResult(r.conv, x) = res}
           asks == Results("ask")
           sent == {x \in asks : Reviewable(x)}
           auto == {x \in asks : mode[AssetOf[x]] = "autopilot"}
<1>2. CallOK(c, r) /\ r.phase = "check" /\ r.left # <<>> /\ r.left \in Seq(SUBSET Cmd) /\ r.tool \in Checked /\ r.run = {}
  BY <1>1 DEF IInv, CallInv, CallOK, Placed, Check, CallState
<1>3. /\ Head(r.left) \in SUBSET Cmd /\ Tail(r.left) \in Seq(SUBSET Cmd)
      /\ Rest(r.left) \subseteq Head(r.left) \cup Rest(Tail(r.left))
  BY <1>2, RestIs
<1>4. PICK b \in BOOLEAN : b = (Results("deny") \cup (auto \ sent) # {})
  OBVIOUS
<1>5. PICK ok \in SUBSET Cmd : ok = r.ok \cup Results("allow")
  BY <1>3 DEF CallState
<1>6. PICK asked \in SUBSET Cmd : asked = asks \ (sent \cup auto)
  BY <1>3
<1>7. PICK q \in SUBSET Cmd : q = sent
  BY <1>3
<1>8. PICK strict \in SUBSET Cmd : strict = sent \cap auto
  BY <1>3
<1>9. PICK e : e = [r EXCEPT !.phase = "review", !.left = Tail(r.left), !.ok = ok, !.asked = asked, !.sent = q,
                             !.strict = strict, !.refused = b]
  OBVIOUS
<1>10. call' = [call EXCEPT ![c] = e]
  BY <1>1, <1>4, <1>5, <1>6, <1>7, <1>8, <1>9 DEF Check
<1>11. e \in CallState
  <2>1. "review" \in Phase
    BY DEF Phase
  <2> QED
    BY <1>3, <1>9, <2>1 DEF CallState
<1>12. /\ e.phase = "review" /\ e.left = Tail(r.left) /\ e.ok = ok /\ e.asked = asked /\ e.sent = q /\ e.refused = b
       /\ e.prompted = r.prompted /\ e.run = r.run
       /\ e.conv = r.conv /\ e.tool = r.tool /\ e.want = r.want /\ e.dst = r.dst /\ e.passed = r.passed
  BY <1>9, <1>11 DEF CallState
<1>13. \A x \in Head(r.left) : RuleResult(r.conv, x) \in {"allow", "deny", "ask"}
  BY DEF RuleResult
<1>14. \A x \in Head(r.left) : /\ RuleResult(r.conv, x) = "ask" => Verdict[x] \in {"ask", "opaque"}
                               /\ RuleResult(r.conv, x) = "allow" =>
                                    Verdict[x] = "allow" \/ (Verdict[x] = "ask" /\ Agreed(r.conv, x))
  BY <1>3, GrantedIsAgreed, ApprovalConstants DEF RuleResult
<1>15. Planned(e) /\ Placed(e) /\ Remembering(e)
  BY <1>2, <1>12 DEF CallOK, Planned, Placed, Asking, Remembering
<1>16. LetThrough(c, e)
  <2>1. \A x \in ok : Backed(c, e, x)
    <3>1. \A x \in r.ok : Backed(c, e, x)
      BY <1>2, <1>12 DEF CallOK, LetThrough, Backed
    <3>2. \A x \in Results("allow") : Backed(c, e, x)
      BY <1>2, <1>12, <1>14 DEF Backed, Checked
    <3> QED
      BY <1>5, <3>1, <3>2
  <2>2. \A x \in q : Verdict[x] = "ask"
    BY <1>7, <1>14 DEF Reviewable
  <2>3. \A x \in asked : Verdict[x] # "deny"
    BY <1>6, <1>14
  <2>4. r.prompted /\ r.dst # NoCmd => <<c, r.dst>> \in said
    BY <1>2 DEF CallOK, LetThrough
  <2> QED
    BY <1>2, <1>12, <2>1, <2>2, <2>3, <2>4 DEF LetThrough
<1>17. Whole(e)
  <2> SUFFICES ASSUME r.tool \in {"cp", "cpMany"}, ~b
               PROVE  r.want \subseteq ok \cup asked \cup q \cup Rest(Tail(r.left))
    BY <1>12 DEF Whole, Asking
  <2>1. r.want \subseteq r.ok \cup Rest(r.left)
    BY <1>2 DEF CallOK, Whole
  <2>2. Results("deny") = {} /\ auto \ sent = {}
    BY <1>4
  <2>3. Head(r.left) \subseteq Results("allow") \cup asks
    BY <1>13, <2>2
  <2>4. asks \subseteq asked \cup q
    BY <1>6, <1>7, <2>2
  <2> QED
    BY <1>3, <1>5, <2>1, <2>3, <2>4
<1>18. UNCHANGED <<mode, changes, grants, pending, ch, ui, clock, stopped, closed, said, consent>> /\ allowed' = allowed
  BY DEF Check
<1> QED
  BY <1>1, <1>2, <1>10, <1>11, <1>12, <1>15, <1>16, <1>17, <1>18, QuietKeeps, ListsAgreed DEF CallOK, Live

\* The model's review of a round, and what follows from the round.
LEMMA ReviewKeeps ==
  ASSUME IInv, NEW c \in Call, NEW pass, Review(c, pass)
  PROVE  IInv'
<1>1. PICK r \in CallState : r = call[c]
  BY DEF IInv, TypeOK
<1>2. CallOK(c, r) /\ r.phase = "review" /\ r.tool \in Checked /\ r.run = {} /\ pass \subseteq r.sent
  BY <1>1 DEF IInv, CallInv, CallOK, Placed, Review
<1>3. /\ r.sent \in SUBSET Cmd /\ r.ok \in SUBSET Cmd /\ r.passed \in SUBSET Cmd /\ r.asked \in SUBSET Cmd
      /\ r.strict \in SUBSET Cmd /\ r.refused \in BOOLEAN
  BY DEF CallState
<1>4. PICK b \in BOOLEAN : b = (r.refused \/ r.strict \ pass # {})
  OBVIOUS
<1>5. PICK asked \in SUBSET Cmd : asked = r.asked \cup (r.sent \ (pass \cup r.strict))
  BY <1>3
<1>6. PICK g : g = [r EXCEPT !.ok = r.ok \cup pass, !.passed = r.passed \cup pass, !.asked = asked,
                             !.refused = b, !.sent = {}, !.strict = {}]
  OBVIOUS
<1>7. g \in CallState
  <2>1. r.ok \cup pass \in SUBSET Cmd /\ r.passed \cup pass \in SUBSET Cmd /\ {} \in SUBSET Cmd
    BY <1>2, <1>3
  <2> QED
    BY <1>6, <2>1 DEF CallState
<1>8. /\ g.ok = r.ok \cup pass /\ g.passed = r.passed \cup pass /\ g.asked = asked /\ g.refused = b
      /\ g.left = r.left /\ g.prompted = r.prompted /\ g.run = r.run
      /\ g.conv = r.conv /\ g.tool = r.tool /\ g.want = r.want /\ g.dst = r.dst
  BY <1>6, <1>7 DEF CallState
<1>9. PICK e : e = Decided(g)
  OBVIOUS
<1>10. call' = [call EXCEPT ![c] = e]
  <2>1. call' = [call EXCEPT ![c] = Decided([r EXCEPT !.ok = r.ok \cup pass, !.passed = r.passed \cup pass,
           !.asked = r.asked \cup (r.sent \ (pass \cup r.strict)), !.refused = r.refused \/ r.strict \ pass # {},
           !.sent = {}, !.strict = {}])]
    BY <1>1 DEF Review
  <2> QED
    BY <1>4, <1>5, <1>6, <1>9, <2>1
<1>11. Planned(g)
  BY <1>2, <1>8 DEF CallOK, Planned
<1>12. \A x \in g.ok : Backed(c, g, x)
  <2>1. \A x \in r.ok : Backed(c, g, x)
    BY <1>2, <1>8 DEF CallOK, LetThrough, Backed
  <2>2. \A x \in pass : Backed(c, g, x)
    BY <1>2, <1>8 DEF CallOK, LetThrough, Backed, Checked
  <2> QED
    BY <1>8, <2>1, <2>2
<1>13. \A x \in g.asked : Verdict[x] # "deny"
  <2>1. (\A x \in r.asked : Verdict[x] # "deny") /\ (\A x \in r.sent : Verdict[x] = "ask")
    BY <1>2 DEF CallOK, LetThrough, Checked
  <2> QED
    BY <1>5, <1>8, <2>1
<1>14. g.prompted /\ g.dst # NoCmd => <<c, g.dst>> \in said
  BY <1>2, <1>8 DEF CallOK, LetThrough
<1>15. g.tool \in {"cp", "cpMany"} /\ ~g.refused => g.want \subseteq g.ok \cup g.asked \cup Rest(g.left)
  <2> SUFFICES ASSUME r.tool \in {"cp", "cpMany"}, ~b
               PROVE  r.want \subseteq r.ok \cup pass \cup asked \cup Rest(r.left)
    BY <1>8
  <2>1. r.want \subseteq r.ok \cup r.asked \cup r.sent \cup Rest(r.left) /\ r.strict \subseteq pass
    BY <1>2, <1>4 DEF CallOK, Whole
  <2> QED
    BY <1>5, <2>1
<1>16. e \in CallState /\ e.phase \notin Live /\ CallOK(c, e)
  BY <1>2, <1>7, <1>8, <1>9, <1>11, <1>12, <1>13, <1>14, <1>15, DecidedOK
<1>17. UNCHANGED <<mode, changes, grants, pending, ch, ui, clock, stopped, closed, said, consent>> /\ allowed' = allowed
  BY DEF Review
<1> QED
  BY <1>1, <1>2, <1>10, <1>16, <1>17, QuietKeeps, ListsAgreed DEF Live

\* A call begins with its checks, with the local gate or with a dialog.
LEMMA BeginKeeps ==
  ASSUME IInv, NEW c \in Call, Begin(c)
  PROVE  IInv'
<1>1. PICK r \in CallState : r = call[c]
  BY DEF IInv, TypeOK
<1>2. CallOK(c, r) /\ r.phase = "new" /\ r.run = {} /\ r.left # <<>> /\ Planned(r) /\ r.tool \in Tool /\ r.want \in SUBSET Cmd
  BY <1>1 DEF IInv, CallInv, CallOK, Placed, Begin, CallState
<1>3. \A x \in r.ok : Backed(c, r, x)
  BY <1>2 DEF CallOK, LetThrough
<1>4. r.prompted /\ r.dst # NoCmd => <<c, r.dst>> \in said
  BY <1>2 DEF CallOK, LetThrough
<1>5. PICK g : g = [r EXCEPT !.left = <<>>]
  OBVIOUS
<1>6. g \in CallState
  <2>1. <<>> \in Seq(SUBSET Cmd)
    OBVIOUS
  <2> QED
    BY <1>5, <2>1 DEF CallState
<1>7. /\ g.left = <<>> /\ g.ok = r.ok /\ g.passed = r.passed /\ g.prompted = r.prompted /\ g.run = r.run
      /\ g.conv = r.conv /\ g.tool = r.tool /\ g.want = r.want /\ g.dst = r.dst
  BY <1>5, <1>6 DEF CallState
<1>8. Planned(g) /\ (\A x \in g.ok : Backed(c, g, x)) /\ (g.prompted /\ g.dst # NoCmd => <<c, g.dst>> \in said)
  BY <1>2, <1>3, <1>4, <1>7 DEF Planned, Backed
<1>9. \E e \in CallState : call' = [call EXCEPT ![c] = e] /\ e.phase \notin Live /\ CallOK(c, e)
  <2>1. CASE r.tool \in Checked
    <3>1. PICK e : e = [r EXCEPT !.phase = "check"]
      OBVIOUS
    <3>2. call' = [call EXCEPT ![c] = e] /\ "check" \in Phase
      BY <1>1, <2>1, <3>1 DEF Begin, Checked, Phase
    <3>3. /\ e \in CallState
          /\ e.phase = "check" /\ e.run = r.run /\ e.ok = r.ok /\ e.left = r.left /\ e.prompted = r.prompted
          /\ e.conv = r.conv /\ e.tool = r.tool /\ e.want = r.want /\ e.dst = r.dst /\ e.passed = r.passed
      BY <3>1, <3>2, PhaseIs
    <3>4. Planned(e) /\ Placed(e) /\ Remembering(e) /\ Whole(e)
      BY <1>2, <2>1, <3>3 DEF CallOK, Planned, Placed, Asking, Remembering, Whole
    <3>5. LetThrough(c, e)
      BY <1>2, <1>3, <1>4, <3>3 DEF LetThrough, Backed, Asking
    <3> QED
      BY <3>2, <3>3, <3>4, <3>5 DEF CallOK, Live
  <2>2. CASE r.tool = "local"
    <3>1. PICK e : e = [r EXCEPT !.phase = "gate", !.left = <<>>]
      OBVIOUS
    <3>2. call' = [call EXCEPT ![c] = e] /\ "gate" \in Phase
      BY <1>1, <2>2, <3>1 DEF Begin, Phase
    <3>3. e = [g EXCEPT !.phase = "gate"]
      BY <1>5, <3>1 DEF CallState
    <3>4. /\ e \in CallState
          /\ e.phase = "gate" /\ e.run = g.run /\ e.ok = g.ok /\ e.left = g.left /\ e.prompted = g.prompted
          /\ e.conv = g.conv /\ e.tool = g.tool /\ e.want = g.want /\ e.dst = g.dst /\ e.passed = g.passed
      BY <1>6, <3>2, <3>3, PhaseIs
    <3>5. Planned(e) /\ Placed(e) /\ Remembering(e) /\ Whole(e)
      BY <1>2, <1>7, <1>8, <2>2, <3>4 DEF Planned, Placed, Asking, Remembering, Whole
    <3>6. LetThrough(c, e)
      BY <1>2, <1>7, <1>8, <3>4 DEF LetThrough, Backed, Asking
    <3> QED
      BY <3>2, <3>4, <3>5, <3>6 DEF CallOK, Live
  <2>3. CASE r.tool = "delete"
    <3>1. PICK e : e = Ask(g, "delete", r.want)
      OBVIOUS
    <3>2. call' = [call EXCEPT ![c] = e] /\ "delete" \in Kind
      BY <1>1, <1>5, <2>3, <3>1 DEF Begin, Kind
    <3>3. \A x \in r.want : Verdict[x] # "deny"
      BY <1>2, <2>3 DEF Planned
    <3>4. e \in CallState /\ e.phase = "emit" /\ CallOK(c, e)
      BY <1>2, <1>6, <1>7, <1>8, <2>3, <3>1, <3>2, <3>3, AskOK
    <3> QED
      BY <3>2, <3>4 DEF Live
  <2>4. CASE r.tool = "grant"
    <3>1. PICK kept \in SUBSET Cmd : kept = {x \in r.want : mode[AssetOf[x]] # "autopilot"}
      BY <1>2
    <3>2. CASE kept = {}
      <4>1. PICK e : e = Drop(r)
        OBVIOUS
      <4>2. call' = [call EXCEPT ![c] = e]
        BY <1>1, <2>4, <3>1, <3>2, <4>1 DEF Begin
      <4> QED
        BY <1>2, <4>1, <4>2, DropOK DEF Live
    <3>3. CASE kept # {}
      <4>1. PICK e : e = Ask(g, "grant", kept)
        OBVIOUS
      <4>2. call' = [call EXCEPT ![c] = e] /\ "grant" \in Kind
        BY <1>1, <1>5, <2>4, <3>1, <3>3, <4>1 DEF Begin, Kind
      <4>3. e \in CallState /\ e.phase = "emit" /\ CallOK(c, e)
        BY <1>2, <1>6, <1>7, <1>8, <2>4, <4>1, <4>2, AskOK
      <4> QED
        BY <4>2, <4>3 DEF Live
    <3> QED
      BY <3>2, <3>3
  <2> QED
    BY <1>2, <2>1, <2>2, <2>3, <2>4 DEF Tool, Checked
<1>10. UNCHANGED <<mode, changes, grants, pending, ch, ui, clock, stopped, closed, said, consent>> /\ allowed' = allowed
  BY DEF Begin
<1> QED
  BY <1>1, <1>2, <1>9, <1>10, QuietKeeps, ListsAgreed DEF Live

\* The local gate: everything was allowed before, or a dialog.
LEMMA GateKeeps ==
  ASSUME IInv, NEW c \in Call, Gate(c)
  PROVE  IInv'
<1>1. PICK r \in CallState : r = call[c]
  BY DEF IInv, TypeOK
<1>2. CallOK(c, r) /\ r.phase = "gate" /\ r.run = {} /\ r.left = <<>> /\ Planned(r) /\ r.ok \in SUBSET Cmd
      /\ (r.tool = "local" \/ r.dst # NoCmd) /\ r.conv \in Conv
  BY <1>1 DEF IInv, CallInv, CallOK, Placed, Gate, CallState
<1>3. PICK subjects : subjects = IF r.tool = "local" THEN r.want ELSE {r.dst}
  OBVIOUS
<1>4. subjects \subseteq Subject /\ subjects \in SUBSET Cmd /\ r.tool \notin {"grant", "delete"}
  BY <1>2, <1>3 DEF Planned, Subject
<1>5. \A x \in subjects : Verdict[x] = "ask" /\ AssetOf[x] = Local
  BY <1>4, PlanConstants DEF Subject
<1>6. /\ \A x \in r.ok : Backed(c, r, x)
      /\ r.prompted /\ r.dst # NoCmd => <<c, r.dst>> \in said
      /\ r.tool \in {"cp", "cpMany"} => r.want \subseteq r.ok
  BY <1>2 DEF CallOK, LetThrough, Whole
<1>7. \E e \in CallState : call' = [call EXCEPT ![c] = e] /\ e.phase \notin Live /\ CallOK(c, e)
  <2>1. CASE subjects \subseteq UNION allowed[r.conv]
    <3>1. PICK run \in SUBSET Cmd : run = r.ok \cup subjects
      BY <1>2, <1>4
    <3>2. PICK e : e = Finish(r, run)
      OBVIOUS
    <3>3. call' = [call EXCEPT ![c] = e]
      BY <1>1, <1>3, <2>1, <3>1, <3>2 DEF Gate
    <3>4. ASSUME NEW x \in subjects
          PROVE  Backed(c, r, x)
      <4>1. PICK p \in allowed[r.conv] : x \in p
        BY <2>1, <3>4
      <4>2. PICK k : k = [conv |-> r.conv, asset |-> Local, pattern |-> p]
        OBVIOUS
      <4>3. k \in consent /\ k.conv = r.conv /\ k.asset = AssetOf[x] /\ x \in k.pattern
        BY <1>2, <1>5, <3>4, <4>1, <4>2 DEF IInv, KeptIsConsented
      <4> QED
        BY <1>4, <1>5, <3>4, <4>3 DEF Backed, Agreed
    <3> QED
      BY <1>2, <1>6, <3>1, <3>2, <3>3, <3>4, FinishOK DEF Live
  <2>2. CASE ~(subjects \subseteq UNION allowed[r.conv])
    <3>1. PICK e : e = Ask(r, "local_tool", subjects)
      OBVIOUS
    <3>2. call' = [call EXCEPT ![c] = e] /\ "local_tool" \in Kind
      BY <1>1, <1>3, <2>2, <3>1 DEF Gate, Kind
    <3>3. e \in CallState /\ e.phase = "emit" /\ CallOK(c, e)
      BY <1>2, <1>4, <1>5, <1>6, <3>1, <3>2, AskOK
    <3> QED
      BY <3>2, <3>3 DEF Live
  <2> QED
    BY <2>1, <2>2
<1>8. UNCHANGED <<mode, changes, grants, pending, ch, ui, clock, stopped, closed, said, consent>> /\ allowed' = allowed
  BY DEF Gate
<1> QED
  BY <1>1, <1>2, <1>7, <1>8, QuietKeeps, ListsAgreed DEF Live

\* remember(): whatever interleaves, only patterns the user agreed to are stored.
LEMMA RememberKeeps ==
  ASSUME IInv, NEW c \in Call, RememberLoad(c) \/ RememberStore(c)
  PROVE  IInv'
<1>1. PICK r \in CallState : r = call[c]
  BY DEF IInv, TypeOK
<1>2. CallOK(c, r) /\ r.phase \in {"remember", "store"} /\ r.run = {} /\ r.left = <<>> /\ Planned(r) /\ r.ok \in SUBSET Cmd
      /\ r.conv \in Conv /\ r.todo \in SUBSET SUBSET Cmd /\ r.seen \in SUBSET SUBSET Cmd
  BY <1>1 DEF IInv, CallInv, CallOK, Placed, RememberLoad, RememberStore, CallState
<1>3. /\ \A x \in r.ok : Backed(c, r, x)
      /\ r.prompted /\ r.dst # NoCmd => <<c, r.dst>> \in said
      /\ r.tool \in {"cp", "cpMany"} => r.want \subseteq r.ok
      /\ \A t \in r.todo : LocallyAgreed(r.conv, t)
      /\ r.phase = "store" => \A t \in r.seen : LocallyAgreed(r.conv, t)
  BY <1>2 DEF CallOK, LetThrough, Whole, Remembering
<1>4. UNCHANGED <<mode, changes, grants, pending, ch, ui, clock, stopped, closed, said, consent>>
  BY DEF RememberLoad, RememberStore
<1>5. ASSUME NEW e \in CallState, NEW todo \in SUBSET r.todo, NEW seen \in SUBSET SUBSET Cmd,
             e.phase \in {"remember", "store"}, e.todo = todo, e.seen = seen,
             e.ok = r.ok, e.prompted = r.prompted, e.run = r.run, e.left = r.left,
             e.conv = r.conv, e.tool = r.tool, e.want = r.want, e.dst = r.dst, e.passed = r.passed,
             \A t \in seen : LocallyAgreed(r.conv, t)
      PROVE  CallOK(c, e) /\ e.phase \notin Live
  <2>1. Planned(e) /\ Placed(e) /\ Remembering(e) /\ Whole(e)
    BY <1>2, <1>3, <1>5 DEF Planned, Placed, Asking, Remembering, Whole
  <2>2. LetThrough(c, e)
    BY <1>2, <1>3, <1>5 DEF LetThrough, Backed, Asking
  <2> QED
    BY <1>5, <2>1, <2>2 DEF CallOK, Live
<1>6. CASE RememberLoad(c)
  <2>1. allowed[r.conv] \in SUBSET SUBSET Cmd /\ \A t \in allowed[r.conv] : LocallyAgreed(r.conv, t)
    BY <1>2, ListsAgreed
  <2>2. CASE r.todo \subseteq allowed[r.conv]
    <3>1. PICK g : g = [r EXCEPT !.todo = {}]
      OBVIOUS
    <3>2. g \in CallState
      BY <3>1 DEF CallState
    <3>3. /\ g.ok = r.ok /\ g.passed = r.passed
          /\ g.conv = r.conv /\ g.tool = r.tool /\ g.want = r.want /\ g.dst = r.dst
      BY <3>1, <3>2 DEF CallState
    <3>4. PICK e : e = Finish(g, r.ok)
      OBVIOUS
    <3>5. call' = [call EXCEPT ![c] = e]
      BY <1>1, <1>6, <2>2, <3>1, <3>4 DEF RememberLoad
    <3>6. Planned(g) /\ \A x \in r.ok : Backed(c, g, x)
      BY <1>2, <1>3, <3>3 DEF Planned, Backed
    <3>7. e \in CallState /\ e.phase = "done" /\ CallOK(c, e)
      BY <1>2, <1>3, <3>2, <3>3, <3>4, <3>6, FinishOK
    <3>8. allowed' = allowed
      BY <1>6 DEF RememberLoad
    <3> QED
      BY <1>1, <1>2, <1>4, <3>5, <3>7, <3>8, QuietKeeps, ListsAgreed DEF Live
  <2>3. CASE ~(r.todo \subseteq allowed[r.conv])
    <3>1. PICK seen \in SUBSET SUBSET Cmd : seen = allowed[r.conv]
      BY <2>1
    <3>2. PICK e : e = [r EXCEPT !.phase = "store", !.seen = seen]
      OBVIOUS
    <3>3. call' = [call EXCEPT ![c] = e] /\ allowed' = allowed
      BY <1>1, <1>6, <2>3, <3>1, <3>2 DEF RememberLoad
    <3>4. "store" \in Phase
      BY DEF Phase
    <3>5. e \in CallState
      BY <3>2, <3>4 DEF CallState
    <3>6. /\ e.phase = "store" /\ e.todo = r.todo /\ e.seen = seen
          /\ e.ok = r.ok /\ e.prompted = r.prompted /\ e.run = r.run /\ e.left = r.left
          /\ e.conv = r.conv /\ e.tool = r.tool /\ e.want = r.want /\ e.dst = r.dst /\ e.passed = r.passed
      BY <3>2, <3>5 DEF CallState
    <3>7. CallOK(c, e) /\ e.phase \notin Live
      BY <1>5, <2>1, <3>1, <3>5, <3>6
    <3> QED
      BY <1>1, <1>2, <1>4, <3>3, <3>5, <3>7, QuietKeeps, ListsAgreed DEF Live
  <2> QED
    BY <2>2, <2>3
<1>7. CASE RememberStore(c)
  <2>1. PICK p \in r.todo \ r.seen :
          /\ allowed' = [allowed EXCEPT ![r.conv] = r.seen \cup {p}]
          /\ call' = [call EXCEPT ![c].phase = "remember", ![c].todo = @ \ {p}, ![c].seen = {}]
    BY <1>1, <1>7 DEF RememberStore
  <2>2. PICK todo \in SUBSET r.todo : todo = r.todo \ {p}
    OBVIOUS
  <2>3. PICK e : e = [r EXCEPT !.phase = "remember", !.todo = todo, !.seen = {}]
    OBVIOUS
  <2>4. call' = [call EXCEPT ![c] = e]
    BY <1>1, <2>1, <2>2, <2>3
  <2>5. e \in CallState
    <3>1. "remember" \in Phase /\ {} \in SUBSET SUBSET Cmd /\ todo \in SUBSET SUBSET Cmd
      BY <1>2 DEF Phase
    <3> QED
      BY <2>3, <3>1 DEF CallState
  <2>6. /\ e.phase = "remember" /\ e.todo = todo /\ e.seen = {}
        /\ e.ok = r.ok /\ e.prompted = r.prompted /\ e.run = r.run /\ e.left = r.left
        /\ e.conv = r.conv /\ e.tool = r.tool /\ e.want = r.want /\ e.dst = r.dst /\ e.passed = r.passed
    BY <2>3, <2>5 DEF CallState
  <2>7. CallOK(c, e) /\ e.phase \notin Live
    BY <1>5, <2>5, <2>6
  <2>8. r.phase = "store"
    BY <1>1, <1>7 DEF RememberStore
  <2>9. allowed' \in [Conv -> SUBSET SUBSET Cmd]
    BY <1>2, <2>1, ListsAgreed
  <2>10. \A v \in Conv : \A q \in allowed'[v] : LocallyAgreed(v, q)
    BY <1>2, <1>3, <2>1, <2>8, ListsAgreed
  <2> QED
    BY <1>1, <1>2, <1>4, <2>4, <2>5, <2>7, <2>9, <2>10, QuietKeeps DEF Live
<1> QED
  BY <1>6, <1>7

-----------------------------------------------------------------------------
(* The dialog *)

\* The request is on the screen before the confirmation is filed.
LEMMA EmitKeeps ==
  ASSUME IInv, NEW c \in Call, Emit(c)
  PROVE  IInv'
<1>1. PICK r \in CallState : r = call[c]
  BY DEF IInv, TypeOK
<1>2. CallOK(c, r) /\ r.phase = "emit" /\ r.conv \in Conv /\ r.kind \in Kind /\ TypeOK /\ clock \in Nat
  BY <1>1 DEF IInv, CallInv, Emit, CallState, TypeOK
<1>3. PICK id : id = [prefix |-> Prefix(r.kind), conv |-> r.conv, time |-> clock]
  OBVIOUS
<1>4. id \in ConfirmID /\ id.time = clock
  BY <1>2, <1>3 DEF ConfirmID, Prefix
<1>5. PICK e : e = [r EXCEPT !.phase = "register", !.id = id]
  OBVIOUS
<1>6. /\ call' = [call EXCEPT ![c] = e] /\ ui' = [ui EXCEPT ![c] = "pending"] /\ clock' = clock + 1
      /\ UNCHANGED <<mode, changes, grants, allowed, pending, ch, stopped, closed, said, consent>>
  BY <1>1, <1>3, <1>5 DEF Emit
<1>7. e \in CallState
  BY <1>4, <1>5 DEF CallState, Phase
<1>8. /\ e.phase = "register" /\ e.id = id /\ e.kind = r.kind /\ e.asked = r.asked
      /\ e.ok = r.ok /\ e.prompted = r.prompted /\ e.run = r.run /\ e.left = r.left
      /\ e.conv = r.conv /\ e.tool = r.tool /\ e.want = r.want /\ e.dst = r.dst /\ e.passed = r.passed
  BY <1>5, <1>7 DEF CallState
<1>9. call'[c] = e /\ (\A d \in Call : d # c => call'[d] = call[d]) /\ ui'[c] = "pending"
      /\ \A d \in Call : d # c => ui'[d] = ui[d]
  BY <1>2, <1>6 DEF TypeOK
<1>10. TypeOK'
  BY <1>2, <1>6, <1>7 DEF TypeOK
<1>11. CallOK(c, e)
  <2>1. Planned(e) /\ Placed(e) /\ Remembering(e) /\ Whole(e)
    BY <1>2, <1>8 DEF CallOK, Planned, Placed, Asking, Remembering, Whole
  <2>2. LetThrough(c, e)
    BY <1>2, <1>8 DEF CallOK, Placed, LetThrough, Backed, Asking
  <2> QED
    BY <2>1, <2>2 DEF CallOK
<1>12. CallInv'
  <2>1. \A d \in Call : CallOK(d, call'[d])
    BY <1>9, <1>11 DEF IInv, CallInv
  <2> QED
    BY <1>6, <2>1 DEF CallInv, CallOK, Planned, Placed, LetThrough, Remembering, Whole, Backed, Agreed, LocallyAgreed
<1>13. IdInv'
  <2>1. \A d \in Call : d # c /\ call[d].phase \in Live => call[d].id # id /\ call[d].id.time < clock + 1
                                                           /\ call[d].id \in ConfirmID
    <3> SUFFICES ASSUME NEW d \in Call, call[d].phase \in Live
                 PROVE  call[d].id # id /\ call[d].id.time < clock + 1 /\ call[d].id \in ConfirmID
      OBVIOUS
    <3>1. call[d].id \in ConfirmID /\ call[d].id.time < clock
      BY DEF IInv, IdInv
    <3>2. call[d].id.time \in Nat
      BY <3>1 DEF ConfirmID
    <3> QED
      BY <1>2, <1>4, <3>1, <3>2
  <2>2. \A d \in Call : call'[d].phase \in Live => call'[d].id \in ConfirmID /\ call'[d].id.time < clock'
    BY <1>2, <1>4, <1>6, <1>8, <1>9, <2>1
  <2>3. \A d, f \in Call : call'[d].phase \in Live /\ call'[f].phase \in Live /\ call'[d].id = call'[f].id => d = f
    BY <1>8, <1>9, <2>1 DEF IInv, IdInv
  <2>4. \A p \in pending : p.call \in Call /\ p.call # c
    BY <1>1, <1>2 DEF IInv, IdInv, TypeOK
  <2>5. \A p \in pending : call'[p.call].phase = "wait" /\ p.id = call'[p.call].id
    BY <1>9, <2>4 DEF IInv, IdInv
  <2> QED
    BY <1>6, <2>2, <2>3, <2>5 DEF IdInv
<1>14. ScreenInv'
  <2>1. ASSUME NEW d \in Call, d # c
        PROVE  /\ call'[d].phase = "wait" => ui'[d] = "pending" /\ [id |-> call'[d].id, call |-> d] \in pending
               /\ ui'[d] = "pending" => call'[d].phase \in {"register", "wait"} \/ closed
               /\ call'[d].phase = "register" => ui'[d] = "pending"
    <3>1. call'[d] = call[d] /\ ui'[d] = ui[d]
      BY <1>9, <2>1
    <3> QED
      BY <3>1 DEF IInv, ScreenInv, WaitingIsAnswerable
  <2>2. /\ call'[c].phase = "register" /\ ui'[c] = "pending"
        /\ "register" # "wait"
    BY <1>8, <1>9
  <2>3. pending' = pending /\ closed' = closed
    BY <1>6
  <2>4. \A d \in Call : call'[d].phase = "wait" => ui'[d] = "pending" /\ [id |-> call'[d].id, call |-> d] \in pending'
    BY <2>1, <2>2, <2>3
  <2>5. \A d \in Call : ui'[d] = "pending" => call'[d].phase \in {"register", "wait"} \/ closed'
    BY <2>1, <2>2, <2>3
  <2>6. \A d \in Call : call'[d].phase = "register" => ui'[d] = "pending"
    BY <2>1, <2>2
  <2> QED
    BY <2>4, <2>5, <2>6 DEF ScreenInv, WaitingIsAnswerable
<1>15. ChannelInv'
  <2>1. \A resp \in ch[c] : FALSE
    BY <1>1, <1>2 DEF IInv, ChannelInv
  <2>2. \A d \in Call : \A resp \in ch[d] : call'[d].phase = "wait" /\ Meant(d, call'[d], resp)
    BY <1>9, <2>1 DEF IInv, ChannelInv
  <2> QED
    BY <1>6, <2>2 DEF ChannelInv, Meant
<1>16. KeptIsConsented'
  BY <1>6 DEF IInv, KeptIsConsented
<1> QED
  BY <1>10, <1>12, <1>13, <1>14, <1>15, <1>16 DEF IInv

\* The confirmation is filed under its id.
LEMMA RegisterKeeps ==
  ASSUME IInv, NEW c \in Call, Register(c)
  PROVE  IInv'
<1>1. PICK r \in CallState : r = call[c]
  BY DEF IInv, TypeOK
<1>2. CallOK(c, r) /\ r.phase = "register" /\ TypeOK /\ r.id \in ConfirmID
  BY <1>1 DEF IInv, CallInv, Register, TypeOK, IdInv, Live
<1>3. PICK e : e = [r EXCEPT !.phase = "wait"]
  OBVIOUS
<1>4. \A p \in pending : p.call \in Call /\ p.call # c /\ p.id # r.id
  BY <1>1, <1>2 DEF IInv, IdInv, TypeOK, Live
<1>5. PICK q : q = [id |-> r.id, call |-> c]
  OBVIOUS
<1>6. /\ call' = [call EXCEPT ![c] = e] /\ pending' = pending \cup {q} /\ ch' = [ch EXCEPT ![c] = {}]
      /\ UNCHANGED <<mode, changes, grants, allowed, ui, clock, stopped, closed, said, consent>>
  BY <1>1, <1>3, <1>4, <1>5 DEF Register
<1>7. "wait" \in Phase
  BY DEF Phase
<1>8. /\ e \in CallState
      /\ e.phase = "wait" /\ e.id = r.id /\ e.kind = r.kind /\ e.asked = r.asked
      /\ e.ok = r.ok /\ e.prompted = r.prompted /\ e.run = r.run /\ e.left = r.left
      /\ e.conv = r.conv /\ e.tool = r.tool /\ e.want = r.want /\ e.dst = r.dst /\ e.passed = r.passed
  BY <1>3, <1>7, PhaseIs
<1>9. call'[c] = e /\ (\A d \in Call : d # c => call'[d] = call[d]) /\ ch'[c] = {}
      /\ \A d \in Call : d # c => ch'[d] = ch[d]
  BY <1>2, <1>6 DEF TypeOK
<1>10. TypeOK'
  <2>1. q \in [id: ConfirmID, call: Call] /\ q.id = r.id
    BY <1>2, <1>5
  <2>2. \A p, o \in pending' : p.id = o.id => p = o
    BY <1>2, <1>4, <1>6, <2>1 DEF TypeOK
  <2>3. ch' \in [Call -> SUBSET Response] /\ \A d \in Call : \A x, y \in ch'[d] : x = y
    BY <1>2, <1>6, <1>9 DEF TypeOK
  <2> QED
    BY <1>2, <1>6, <1>8, <2>1, <2>2, <2>3 DEF TypeOK
<1>11. CallOK(c, e)
  <2>1. Planned(e) /\ Placed(e) /\ Remembering(e) /\ Whole(e)
    BY <1>2, <1>8 DEF CallOK, Planned, Placed, Asking, Remembering, Whole
  <2>2. LetThrough(c, e)
    BY <1>2, <1>8 DEF CallOK, Placed, LetThrough, Backed, Asking
  <2> QED
    BY <2>1, <2>2 DEF CallOK
<1>12. CallInv'
  <2>1. \A d \in Call : CallOK(d, call'[d])
    BY <1>9, <1>11 DEF IInv, CallInv
  <2> QED
    BY <1>6, <2>1 DEF CallInv, CallOK, Planned, Placed, LetThrough, Remembering, Whole, Backed, Agreed, LocallyAgreed
<1>13. \A d \in Call : call'[d].id = call[d].id /\ (call'[d].phase \in Live <=> call[d].phase \in Live)
  BY <1>1, <1>2, <1>8, <1>9 DEF Live
<1>14. IdInv'
  <2>1. \A p \in pending' : call'[p.call].phase = "wait" /\ p.id = call'[p.call].id
    <3>1. \A p \in pending : call'[p.call].phase = "wait" /\ p.id = call'[p.call].id
      BY <1>4, <1>9 DEF IInv, IdInv
    <3>2. call'[q.call].phase = "wait" /\ q.id = call'[q.call].id
      BY <1>5, <1>8, <1>9
    <3> QED
      BY <1>6, <3>1, <3>2
  <2> QED
    BY <1>6, <1>13, <2>1 DEF IInv, IdInv
<1>15. ScreenInv'
  <2>1. ASSUME NEW d \in Call, d # c
        PROVE  /\ call'[d].phase = "wait" => ui[d] = "pending" /\ [id |-> call'[d].id, call |-> d] \in pending
               /\ ui[d] = "pending" => call'[d].phase \in {"register", "wait"} \/ closed
               /\ call'[d].phase = "register" => ui[d] = "pending"
    <3>1. call'[d] = call[d]
      BY <1>9, <2>1
    <3> QED
      BY <3>1 DEF IInv, ScreenInv, WaitingIsAnswerable
  <2>2. ui[c] = "pending" /\ [id |-> call'[c].id, call |-> c] \in pending'
    BY <1>1, <1>2, <1>5, <1>6, <1>8, <1>9 DEF IInv, ScreenInv
  <2>3. pending \subseteq pending' /\ closed' = closed /\ ui' = ui /\ call'[c].phase = "wait"
    BY <1>6, <1>8, <1>9
  <2>4. \A d \in Call : call'[d].phase = "wait" => ui'[d] = "pending" /\ [id |-> call'[d].id, call |-> d] \in pending'
    BY <2>1, <2>2, <2>3
  <2>5. \A d \in Call : ui'[d] = "pending" => call'[d].phase \in {"register", "wait"} \/ closed'
    BY <2>1, <2>2, <2>3
  <2>6. \A d \in Call : call'[d].phase = "register" => ui'[d] = "pending"
    BY <2>1, <2>2, <2>3
  <2> QED
    BY <2>4, <2>5, <2>6 DEF ScreenInv, WaitingIsAnswerable
<1>16. ChannelInv'
  <2>1. \A d \in Call : \A resp \in ch'[d] : call'[d].phase = "wait" /\ Meant(d, call'[d], resp)
    BY <1>9 DEF IInv, ChannelInv
  <2> QED
    BY <1>6, <2>1 DEF ChannelInv, Meant
<1>17. KeptIsConsented'
  BY <1>6 DEF IInv, KeptIsConsented
<1> QED
  BY <1>10, <1>12, <1>14, <1>15, <1>16, <1>17 DEF IInv

-----------------------------------------------------------------------------
(* Answers *)

\* What is in order for a call stays so when the user agrees to more.
LEMMA MoreAgreed ==
  ASSUME said \subseteq said', consent \subseteq consent', NEW c, NEW r
  PROVE  /\ CallOK(c, r) => CallOK(c, r)'
         /\ \A resp : Meant(c, r, resp) => Meant(c, r, resp)'
<1>1. \A x : Backed(c, r, x) => Backed(c, r, x)'
  BY DEF Backed, Agreed
<1>2. \A t : LocallyAgreed(r.conv, t) => LocallyAgreed(r.conv, t)'
  BY DEF LocallyAgreed
<1>3. LetThrough(c, r) => LetThrough(c, r)'
  BY <1>1 DEF LetThrough
<1>4. Remembering(r) => Remembering(r)'
  BY <1>2 DEF Remembering
<1>5. CallOK(c, r) => CallOK(c, r)'
  BY <1>3, <1>4 DEF CallOK, Planned, Placed, Whole
<1>6. \A resp : Meant(c, r, resp) => Meant(c, r, resp)'
  BY DEF Meant
<1> QED
  BY <1>5, <1>6

\* A click reaches the call whose dialog was clicked, and no other.
LEMMA RespondKeeps ==
  ASSUME IInv, NEW c \in Call, NEW resp \in Response, Respond(c, resp)
  PROVE  IInv'
<1>1. PICK r \in CallState : r = call[c]
  BY DEF IInv, TypeOK
<1>2. PICK p \in pending : p.id = r.id /\ ch[p.call] = {} /\ ch' = [ch EXCEPT ![p.call] = {Parse(call[p.call].kind, resp)}]
  BY <1>1 DEF Respond
<1>3. TypeOK /\ r.kind \in Kind /\ r.asked \in SUBSET Cmd /\ r.dst \in Cmd \cup {NoCmd} /\ r.conv \in Conv
  BY DEF IInv, CallState
<1>4. r.phase \in Live
  BY <1>1 DEF Respond, IInv, ScreenInv, WaitingIsAnswerable, Live
<1>5. p.call = c /\ r.phase = "wait"
  <2>1. p.call \in Call /\ call[p.call].phase = "wait" /\ p.id = call[p.call].id
    BY <1>3 DEF IInv, IdInv, TypeOK
  <2> QED
    BY <1>1, <1>2, <1>4, <2>1 DEF IInv, IdInv, Live
<1>6. PICK yes \in Response : yes = Parse(r.kind, resp)
  BY <1>3, ParseIs
<1>7. /\ ch' = [ch EXCEPT ![c] = {yes}]
      /\ said' = IF yes.decision = "deny" THEN said ELSE said \cup ({c} \X Shown(r))
      /\ consent' = IF Remembers(r.kind, yes) THEN consent \cup Patterns(r, yes) ELSE consent
      /\ UNCHANGED <<mode, changes, grants, allowed, call, pending, ui, clock, stopped, closed>>
  BY <1>1, <1>2, <1>5, <1>6 DEF Respond
<1>8. said \subseteq said' /\ consent \subseteq consent'
  BY <1>7
<1>9. TypeOK'
  <2>1. said' \subseteq Call \X Cmd
    BY <1>3, <1>7 DEF TypeOK, Shown
  <2>2. Patterns(r, yes) \subseteq Kept
    BY PatternsAre
  <2>3. consent' \subseteq Kept
    BY <1>3, <1>7, <2>2 DEF TypeOK
  <2>4. ch' \in [Call -> SUBSET Response] /\ \A d \in Call : \A x, y \in ch'[d] : x = y
    BY <1>3, <1>7 DEF TypeOK
  <2> QED
    BY <1>3, <1>7, <2>1, <2>3, <2>4 DEF TypeOK
<1>10. CallInv'
  <2>1. \A d \in Call : CallOK(d, call[d])
    BY DEF IInv, CallInv
  <2>2. ASSUME NEW d \in Call
        PROVE  CallOK(d, call[d])'
    <3>1. PICK s : s = call[d] /\ s = call'[d]
      BY <1>7
    <3>2. CallOK(d, s)'
      BY <1>8, <2>1, <3>1, MoreAgreed
    <3> QED
      BY <3>1, <3>2 DEF CallOK, Planned, Placed, LetThrough, Remembering, Whole, Backed, Agreed, LocallyAgreed
  <2> QED
    BY <2>2 DEF CallInv
<1>11. IdInv' /\ ScreenInv'
  BY <1>7 DEF IInv, IdInv, ScreenInv, WaitingIsAnswerable
<1>12. Meant(c, r, yes)'
  <2>1. Parse(r.kind, yes) = yes
    BY <1>3, <1>6, ParseIs
  <2>2. yes.decision # "deny" => {c} \X Shown(r) \subseteq said'
    BY <1>7
  <2>3. Remembers(r.kind, yes) => Patterns(r, yes) \subseteq consent'
    BY <1>7
  <2> QED
    BY <2>1, <2>2, <2>3 DEF Meant
<1>13. ChannelInv'
  <2>1. ASSUME NEW d \in Call, NEW x \in ch'[d]
        PROVE  call'[d].phase = "wait" /\ Meant(d, call[d], x)'
    <3>1. PICK s : s = call[d] /\ s = call'[d]
      BY <1>7
    <3>2. CASE d = c
      <4>1. x = yes /\ s = r
        BY <1>1, <1>3, <1>7, <2>1, <3>1, <3>2 DEF TypeOK
      <4>2. Meant(d, s, x)'
        BY <1>12, <3>2, <4>1
      <4> QED
        BY <1>5, <3>1, <4>1, <4>2 DEF Meant
    <3>3. CASE d # c
      <4>1. x \in ch[d]
        BY <1>3, <1>7, <2>1, <3>3 DEF TypeOK
      <4>2. s.phase = "wait" /\ Meant(d, s, x)
        BY <3>1, <4>1 DEF IInv, ChannelInv
      <4>3. Meant(d, s, x)'
        BY <1>8, <4>2, MoreAgreed
      <4> QED
        BY <3>1, <4>2, <4>3 DEF Meant
    <3> QED
      BY <3>2, <3>3
  <2> QED
    BY <2>1 DEF ChannelInv
<1>14. KeptIsConsented'
  BY <1>7, <1>8 DEF IInv, KeptIsConsented
<1> QED
  BY <1>9, <1>10, <1>11, <1>13, <1>14 DEF IInv

\* What an approval writes the user agreed to.
LEMMA SavedIsConsented ==
  ASSUME NEW c \in Call, NEW r \in CallState, NEW resp \in Response, Meant(c, r, resp)
  PROVE  Saved(r, resp) \subseteq Kept \cap consent
<1>1. PICK yes \in Response : yes = Parse(r.kind, resp)
  BY ParseIs DEF CallState
<1>2. Patterns(r, yes) \subseteq Kept
  BY PatternsAre
<1>3. Remembers(r.kind, yes) => Patterns(r, yes) \subseteq consent
  BY <1>1 DEF Meant
<1>4. Remembers(r.kind, yes) => Saved(r, resp) \subseteq Patterns(r, yes)
  BY <1>1 DEF Saved
<1>5. ~Remembers(r.kind, yes) => Saved(r, resp) = {}
  BY <1>1 DEF Saved
<1> QED
  BY <1>2, <1>3, <1>4, <1>5

\* A waiting call goes on with what was said to it: the dialogs of the others stay.
LEMMA ReturnKeeps ==
  ASSUME IInv, NEW c \in Call, call[c].phase = "wait", NEW resp \in Response, Meant(c, call[c], resp), Return(c, resp),
         ui' = Settled(call[c].id) \/ (ui' = ui /\ closed)
  PROVE  IInv'
<1>1. PICK r \in CallState : r = call[c]
  BY DEF IInv, TypeOK
<1>2. CallOK(c, r) /\ r.phase = "wait" /\ TypeOK
  BY <1>1 DEF IInv, CallInv
<1>3. PICK e : e = Applied(r, resp)
  OBVIOUS
<1>4. e \in CallState /\ e.phase \notin Live /\ CallOK(c, e)
  BY <1>1, <1>2, <1>3, AppliedOK
<1>5. PICK written \in {Saved(r, resp), {}} : grants' = grants \cup written
  BY <1>1 DEF Return
<1>6. /\ call' = [call EXCEPT ![c] = e] /\ ch' = [ch EXCEPT ![c] = {}] /\ pending' = {p \in pending : p.id # r.id}
      /\ UNCHANGED <<mode, changes, allowed, clock, stopped, closed, said, consent>>
  BY <1>1, <1>3 DEF Return
<1>7. /\ call'[c] = e /\ ch'[c] = {}
      /\ \A d \in Call : d # c => call'[d] = call[d] /\ ch'[d] = ch[d]
  BY <1>2, <1>6 DEF TypeOK
<1>8. \A p \in pending : p.call \in Call /\ call[p.call].phase = "wait" /\ p.id = call[p.call].id
  BY <1>2 DEF IInv, IdInv, TypeOK
<1>9. \A d \in Call : d # c /\ call[d].phase \in Live => call[d].id # r.id
  BY <1>1, <1>2 DEF IInv, IdInv, Live
<1>10. \A p \in pending : p \in pending' <=> p.call # c
  BY <1>1, <1>6, <1>8, <1>9 DEF Live
<1>11. /\ ui' \in [Call -> {"none", "pending", "settled"}]
       /\ \A d \in Call : ui'[d] = "pending" => ui[d] = "pending"
       /\ \A d \in Call : d # c /\ call[d].phase \in Live => ui'[d] = ui[d]
       /\ ui'[c] = "pending" => closed
  <2>1. CASE ui' = Settled(call[c].id)
    BY <1>1, <1>2, <1>9, <2>1 DEF Settled, TypeOK
  <2>2. CASE ui' = ui /\ closed
    BY <1>2, <2>2 DEF TypeOK
  <2> QED
    BY <2>1, <2>2
<1>12. grants' \subseteq Kept /\ grants' \subseteq consent
  <2>1. Saved(r, resp) \subseteq Kept \cap consent
    BY <1>1, SavedIsConsented
  <2> QED
    BY <1>2, <1>5, <2>1 DEF IInv, TypeOK, KeptIsConsented
<1>13. TypeOK'
  <2>1. pending' \subseteq pending
    BY <1>6
  <2>2. ch' \in [Call -> SUBSET Response] /\ \A d \in Call : \A x, y \in ch'[d] : x = y
    BY <1>2, <1>6, <1>7 DEF TypeOK
  <2> QED
    BY <1>2, <1>4, <1>6, <1>11, <1>12, <2>1, <2>2 DEF TypeOK
<1>14. CallInv'
  <2>1. \A d \in Call : CallOK(d, call'[d])
    BY <1>4, <1>7 DEF IInv, CallInv
  <2> QED
    BY <1>6, <2>1 DEF CallInv, CallOK, Planned, Placed, LetThrough, Remembering, Whole, Backed, Agreed, LocallyAgreed
<1>15. IdInv'
  <2>1. \A d \in Call : call'[d].phase \in Live => d # c /\ call'[d] = call[d]
    BY <1>4, <1>7
  <2>2. \A p \in pending' : p.call # c /\ p \in pending
    BY <1>6, <1>10
  <2>3. \A p \in pending' : call'[p.call].phase = "wait" /\ p.id = call'[p.call].id
    BY <1>7, <1>8, <2>2
  <2> QED
    BY <1>6, <2>1, <2>3 DEF IInv, IdInv
<1>16. ScreenInv'
  <2>1. ASSUME NEW d \in Call, d # c
        PROVE  /\ call'[d].phase = "wait" => ui'[d] = "pending" /\ [id |-> call'[d].id, call |-> d] \in pending'
               /\ ui'[d] = "pending" => call'[d].phase \in {"register", "wait"} \/ closed
               /\ call'[d].phase = "register" => ui'[d] = "pending"
    <3>1. call'[d] = call[d] /\ (call[d].phase \in Live => ui'[d] = ui[d]) /\ (ui'[d] = "pending" => ui[d] = "pending")
      BY <1>7, <1>11, <2>1
    <3>2. call[d].phase = "wait" => ui[d] = "pending" /\ [id |-> call[d].id, call |-> d] \in pending
      BY DEF IInv, ScreenInv, WaitingIsAnswerable
    <3>3. [id |-> call[d].id, call |-> d].call # c
      BY <2>1
    <3>4. [id |-> call[d].id, call |-> d] \in pending => [id |-> call[d].id, call |-> d] \in pending'
      BY <1>10, <3>3
    <3>5. ui[d] = "pending" => call[d].phase \in {"register", "wait"} \/ closed
      BY DEF IInv, ScreenInv, WaitingIsAnswerable
    <3>6. call[d].phase = "register" => ui[d] = "pending"
      BY DEF IInv, ScreenInv
    <3> QED
      BY <3>1, <3>2, <3>4, <3>5, <3>6 DEF Live
  <2>2. call'[c].phase \notin {"register", "wait"} /\ (ui'[c] = "pending" => closed) /\ closed' = closed
    BY <1>4, <1>6, <1>7, <1>11 DEF Live
  <2>3. \A d \in Call : call'[d].phase = "wait" => ui'[d] = "pending" /\ [id |-> call'[d].id, call |-> d] \in pending'
    BY <2>1, <2>2
  <2>4. \A d \in Call : ui'[d] = "pending" => call'[d].phase \in {"register", "wait"} \/ closed'
    BY <2>1, <2>2
  <2>5. \A d \in Call : call'[d].phase = "register" => ui'[d] = "pending"
    BY <2>1, <2>2
  <2> QED
    BY <2>3, <2>4, <2>5 DEF ScreenInv, WaitingIsAnswerable
<1>17. ChannelInv'
  <2>1. \A d \in Call : \A x \in ch'[d] : call'[d].phase = "wait" /\ Meant(d, call'[d], x)
    BY <1>7 DEF IInv, ChannelInv
  <2> QED
    BY <1>6, <2>1 DEF ChannelInv, Meant
<1>18. KeptIsConsented'
  BY <1>6, <1>12 DEF IInv, KeptIsConsented
<1> QED
  BY <1>13, <1>14, <1>15, <1>16, <1>17, <1>18 DEF IInv

\* The three ways a confirmation ends.
LEMMA EndKeeps ==
  ASSUME IInv, NEW c \in Call, Answered(c) \/ Cancelled(c) \/ Closing(c)
  PROVE  IInv'
<1>1. PICK r \in CallState : r = call[c]
  BY DEF IInv, TypeOK
<1>2. Denial \in Response /\ Meant(c, call[c], Denial)
  <2>1. r.kind \in Kind
    BY DEF CallState
  <2>2. Denial \in Response /\ Parse(r.kind, Denial).decision = "deny"
    <3>1. Denial \in Response
      BY DEF Denial, Response
    <3> QED
      BY <2>1, <3>1, ParseIs
  <2>3. ~Remembers(r.kind, Parse(r.kind, Denial))
    BY <2>2 DEF Remembers
  <2> QED
    BY <1>1, <2>2, <2>3 DEF Meant
<1>3. CASE Answered(c)
  <2>1. PICK resp \in ch[c] : Return(c, resp)
    BY <1>3 DEF Answered
  <2>2. resp \in Response /\ Meant(c, call[c], resp)
    BY <2>1 DEF IInv, TypeOK, ChannelInv
  <2> QED
    BY <1>3, <2>1, <2>2, ReturnKeeps DEF Answered
<1>4. CASE Cancelled(c)
  BY <1>2, <1>4, ReturnKeeps DEF Cancelled
<1>5. CASE Closing(c)
  BY <1>2, <1>5, ReturnKeeps DEF Closing
<1> QED
  BY <1>3, <1>4, <1>5

-----------------------------------------------------------------------------
(* The user, the application and the theorems *)

\* Modes, stopped turns and the end of the application touch no call.
LEMMA AroundKeeps ==
  ASSUME IInv, UNCHANGED <<grants, allowed, call, pending, ch, ui, clock, said, consent>>,
         mode' \in [Asset -> Mode], changes' \in Nat, stopped' \subseteq Call, closed' \in BOOLEAN, closed => closed'
  PROVE  IInv'
<1>1. TypeOK'
  BY DEF IInv, TypeOK
<1>2. CallInv'
  BY DEF IInv, CallInv, CallOK, Planned, Placed, LetThrough, Remembering, Whole, Backed, Agreed, LocallyAgreed
<1>3. IdInv' /\ ChannelInv' /\ KeptIsConsented'
  BY DEF IInv, IdInv, ChannelInv, Meant, KeptIsConsented
<1>4. ScreenInv'
  BY DEF IInv, ScreenInv, WaitingIsAnswerable
<1> QED
  BY <1>1, <1>2, <1>3, <1>4 DEF IInv

\* A call as it is planned.
LEMMA NewCallOK ==
  ASSUME NEW p \in Plan, NEW c \in Call, NEW e, e = NewCall(p[c])
  PROVE  e \in CallState /\ e.phase = "new" /\ CallOK(c, e)
<1>1. PICK rounds : rounds = p[c].rounds
  OBVIOUS
<1>2. /\ p[c].conv \in Conv /\ p[c].tool \in Tool
      /\ rounds \in Seq(SUBSET Cmd) /\ p[c].dst \in Cmd \cup {NoCmd} /\ rounds # <<>>
      /\ p[c].dst # NoCmd => AssetOf[p[c].dst] = Local /\ p[c].tool \in {"cp", "cpMany"}
      /\ \A i \in DOMAIN rounds : \A x \in rounds[i] :
           /\ p[c].tool = "local" => AssetOf[x] = Local
           /\ p[c].tool = "delete" => Verdict[x] # "deny"
  BY <1>1, ApprovalConstants, PlanConstants DEF Tool
<1>3. \A i \in DOMAIN rounds : rounds[i] \in SUBSET Cmd
  BY <1>2
<1>4. PICK want \in SUBSET Cmd : want = Rest(rounds)
  BY <1>3 DEF Rest
<1>5. e = [phase |-> "new", conv |-> p[c].conv, tool |-> p[c].tool, want |-> want,
           left |-> rounds, dst |-> p[c].dst, ok |-> {}, asked |-> {}, sent |-> {}, strict |-> {}, passed |-> {},
           refused |-> FALSE, prompted |-> FALSE, kind |-> "once", id |-> NoID, todo |-> {}, seen |-> {}, run |-> {}]
  BY <1>1, <1>4 DEF NewCall, Rest
<1>6. "new" \in Phase /\ "once" \in Kind
  BY DEF Phase, Kind
<1>7. \A b \in BOOLEAN :
        [phase |-> "new", conv |-> p[c].conv, tool |-> p[c].tool, want |-> want,
         left |-> rounds, dst |-> p[c].dst, ok |-> {}, asked |-> {}, sent |-> {}, strict |-> {}, passed |-> {},
         refused |-> b, prompted |-> b, kind |-> "once", id |-> NoID, todo |-> {}, seen |-> {}, run |-> {}] \in CallState
  BY <1>2, <1>4, <1>6 DEF CallState
<1>8. e \in CallState
  BY <1>5, <1>7, Zenon
<1>9. /\ e.phase = "new" /\ e.conv = p[c].conv /\ e.tool = p[c].tool /\ e.want = want /\ e.left = rounds
      /\ e.dst = p[c].dst /\ e.ok = {} /\ e.run = {} /\ ~e.prompted
  BY <1>5
<1>10. Planned(e)
  BY <1>2, <1>3, <1>4, <1>9 DEF Planned, Subject, Rest
<1>11. Placed(e) /\ Remembering(e) /\ Whole(e)
  BY <1>2, <1>4, <1>9 DEF Placed, Asking, Remembering, Whole
<1>12. LetThrough(c, e)
  BY <1>9 DEF LetThrough, Asking
<1> QED
  BY <1>8, <1>9, <1>10, <1>11, <1>12 DEF CallOK

\* The invariant holds in every initial state.
LEMMA InitHolds == Init => IInv
<1> SUFFICES ASSUME Init
             PROVE  IInv
  OBVIOUS
<1>1. PICK p \in Plan : call = [c \in Call |-> NewCall(p[c])]
  BY DEF Init
<1>2. \A c \in Call : call[c] \in CallState /\ call[c].phase = "new" /\ CallOK(c, call[c])
  BY <1>1, NewCallOK
<1>3. call \in [Call -> CallState]
  BY <1>1, <1>2
<1>4. closed \in BOOLEAN
  BY DEF Init
<1>5. TypeOK
  BY <1>3, <1>4 DEF Init, TypeOK
<1>6. CallInv
  BY <1>2 DEF CallInv
<1>7. IdInv /\ ScreenInv /\ ChannelInv
  BY <1>2 DEF Init, IdInv, ScreenInv, WaitingIsAnswerable, ChannelInv, Live
<1>8. KeptIsConsented
  BY DEF Init, KeptIsConsented
<1> QED
  BY <1>5, <1>6, <1>7, <1>8 DEF IInv

\* Every step keeps it.
LEMMA NextKeeps == IInv /\ [Next]_vars => IInv'
<1> SUFFICES ASSUME IInv, [Next]_vars
             PROVE  IInv'
  OBVIOUS
<1>0. mode \in [Asset -> Mode] /\ changes \in Nat /\ stopped \subseteq Call /\ closed \in BOOLEAN
  BY DEF IInv, TypeOK
<1>1. ASSUME NEW c \in Call, Begin(c)
      PROVE  IInv'
  BY <1>1, BeginKeeps
<1>2. ASSUME NEW c \in Call, Step(c)
      PROVE  IInv'
  BY <1>2, CheckKeeps, ReviewKeeps, GateKeeps, EmitKeeps, RegisterKeeps, EndKeeps, RememberKeeps DEF Step
<1>3. ASSUME NEW c \in Call, NEW resp \in Response, Respond(c, resp)
      PROVE  IInv'
  BY <1>3, RespondKeeps
<1>4. ASSUME NEW a \in Asset, NEW m \in Mode, SetMode(a, m)
      PROVE  IInv'
  <2>1. mode' \in [Asset -> Mode] /\ changes' \in Nat
    BY <1>0, <1>4 DEF SetMode
  <2>2. UNCHANGED <<grants, allowed, call, pending, ch, ui, clock, stopped, closed, said, consent>>
    BY <1>4 DEF SetMode
  <2> QED
    BY <1>0, <2>1, <2>2, AroundKeeps
<1>5. ASSUME NEW v \in Conv, StopTurn(v)
      PROVE  IInv'
  <2>1. stopped' \subseteq Call
    BY <1>0, <1>5 DEF StopTurn
  <2>2. UNCHANGED <<mode, changes, grants, allowed, call, pending, ch, ui, clock, closed, said, consent>>
    BY <1>5 DEF StopTurn
  <2> QED
    BY <1>0, <2>1, <2>2, AroundKeeps
<1>6. CASE CloseApp
  <2>1. closed' = TRUE
    BY <1>6 DEF CloseApp
  <2>2. UNCHANGED <<mode, changes, grants, allowed, call, pending, ch, ui, clock, stopped, said, consent>>
    BY <1>6 DEF CloseApp
  <2> QED
    BY <1>0, <2>1, <2>2, AroundKeeps
<1>7. CASE UNCHANGED vars
  BY <1>0, <1>7, AroundKeeps DEF vars
<1> QED
  BY <1>1, <1>2, <1>3, <1>4, <1>5, <1>6, <1>7 DEF Next

\* The invariant of the approvals holds throughout.
THEOREM Invariance == Spec => []IInv
BY InitHolds, NextKeeps, PTL DEF Spec

\* The state keeps the shape of the program's structures: one response per channel, one
\* call per confirmation id.
THEOREM TypeCorrect == Spec => []TypeOK
<1>1. IInv => TypeOK
  BY DEF IInv
<1> QED
  BY <1>1, Invariance, PTL

\* Whatever a call runs is backed by a rule, the model's pass, a remembered agreement of its
\* conversation, or a yes clicked in its own dialog.
THEOREM NothingRunsUnbacked == Spec => []RunsOnlyBacked
<1>1. IInv => RunsOnlyBacked
  BY DEF IInv, CallInv, CallOK, LetThrough, RunsOnlyBacked
<1> QED
  BY <1>1, Invariance, PTL

\* Nothing is remembered that the user did not agree to, wherever the stores interleave.
THEOREM OnlyConsentIsKept == Spec => []KeptIsConsented
<1>1. IInv => KeptIsConsented
  BY DEF IInv
<1> QED
  BY <1>1, Invariance, PTL

\* A transfer runs whole or not at all.
THEOREM TransfersWhole == Spec => []TransferWhole
<1>1. IInv => TransferWhole
  <2> SUFFICES ASSUME IInv, NEW c \in Call, call[c].tool \in {"cp", "cpMany"}, call[c].run # {}
               PROVE  call[c].want \subseteq call[c].run
    BY DEF TransferWhole
  <2>1. CallOK(c, call[c])
    BY DEF IInv, CallInv
  <2>2. call[c].phase = "done"
    BY <2>1 DEF CallOK, Placed
  <2> QED
    BY <2>1, <2>2 DEF CallOK, Whole
<1> QED
  BY <1>1, Invariance, PTL

\* A waiting call is on the screen and filed under its own id; no block outlives its call.
THEOREM WaitsAnswerable == Spec => []WaitingIsAnswerable
<1>1. IInv => WaitingIsAnswerable
  BY DEF IInv, ScreenInv
<1> QED
  BY <1>1, Invariance, PTL
=============================================================================

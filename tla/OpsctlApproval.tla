---------------------------- MODULE OpsctlApproval ----------------------------
(***************************************************************************)
(* Approval of opsctl commands by the desktop user: the IPC server of      *)
(* internal/approval/approval.go, the handlers behind it in                *)
(* internal/app/opsctl (approval.go, mfa.go), the approval dialog's queue  *)
(* in frontend/src/components/approval/OpsctlApprovalDialog.tsx and the    *)
(* grant tables of internal/repository/grant_repo.                         *)
(*                                                                         *)
(* A request is one opsctl call.  Its handler, the watcher of its          *)
(* connection, the dialog, the delivery of an answer and the shutdown of   *)
(* the application interleave freely; each database statement is a step.   *)
(* A request asks about one command; what a command is granted as          *)
(* (NormalizeGrantPatterns) is the constant Grants.                        *)
(***************************************************************************)
EXTENDS Naturals, Sequences

CONSTANTS
  Req,        \* requests
  NoReq,      \* no pending approval under an ID
  Session,    \* grant sessions
  NoSession,  \* a request without a session
  Command,    \* commands and patterns
  NoCommand,  \* nothing edited
  KindOf,     \* the approval kind of each request
  SessionOf,  \* the session of each request
  CommandOf,  \* the command each request asks about
  Grants,     \* the patterns a command is granted as; none if it has no grant
  Edit,       \* what the user may type into a dialog
  Authentic,  \* requests with the right token
  DBFails     \* whether the database may refuse a statement

Kind == {"single", "once", "batch", "grant", "mfa"}

ASSUME ApprovalConstants ==
  /\ KindOf \in [Req -> Kind]
  /\ SessionOf \in [Req -> Session \cup {NoSession}]
  /\ CommandOf \in [Req -> Command]
  /\ Grants \in [Command -> SUBSET Command]
  /\ Edit \subseteq Command
  /\ Authentic \subseteq Req
  /\ DBFails \in BOOLEAN
  /\ NoReq \notin Req
  /\ NoSession \notin Session
  /\ NoCommand \notin Command
  /\ Req \cap Session = {}
  /\ \A r \in Req : KindOf[r] = "grant" => SessionOf[r] \in Session
  /\ \A r \in Req : KindOf[r] = "single" => Grants[CommandOf[r]] # {}

VARIABLES
  stopping,   \* s.stopping
  down,       \* the application's context has ended
  client,     \* what each opsctl process is doing
  conn,       \* the server's end of each connection
  handler,    \* the control point of each request's handler, and its outcome
  left,       \* requests whose handler context has ended
  pending,    \* pendingOpsctlApprovals and mfaBroker.pending, by ID
  reply,      \* the capacity-one channel of each request
  queue,      \* the dialog's queue of requests
  shown,      \* editState: the command shown for each grant session
  mfaOpen,    \* MFA challenges in the dialog's queue, in any order
  sent,       \* answers on their way from the frontend
  status,     \* grant_sessions: the status of each session
  items,      \* grant_items: the patterns of each session
  consent,    \* the <<ID, command>> pairs the user has allowed
  refused     \* sessions for which the database has refused a statement

vars == <<stopping, down, client, conn, handler, left, pending, reply, queue, shown, mfaOpen,
          sent, status, items, consent, refused>>

-----------------------------------------------------------------------------
(* State *)

ID == Req \cup Session

\* confirmID and challengeID are unique; a grant approval is filed by session.
IdOf(r) == IF KindOf[r] = "grant" THEN SessionOf[r] ELSE r

Challenges == {r \in Req : KindOf[r] = "mfa"}

Decision == {"none", "deny", "allow", "allowAll"}

Response == [decision: Decision, edited: Command \cup {NoCommand}]

NoResponse == [decision |-> "none", edited |-> NoCommand]

HandlerPC == {"none", "start", "session", "items", "register", "emit", "wait", "status",
              "saveSession", "saveItem", "edit", "recreate", "return", "encode", "done"}

\* carried: the command that is being approved, as edited.
HandlerState == [pc: HandlerPC, verdict: {"none", "yes", "no"}, carried: Command]

TypeOK ==
  /\ stopping \in BOOLEAN
  /\ down \in BOOLEAN
  /\ client \in [Req -> {"out", "waiting", "told", "gone"}]
  /\ conn \in [Req -> {"none", "backlog", "open", "closed"}]
  /\ handler \in [Req -> HandlerState]
  /\ left \in SUBSET Req
  /\ pending \in [ID -> Req \cup {NoReq}]
  /\ reply \in [Req -> Response]
  /\ queue \in Seq(Req)
  /\ shown \in [Session -> Command \cup {NoCommand}]
  /\ mfaOpen \in SUBSET Req
  /\ sent \in SUBSET (ID \X Response)
  /\ status \in [Session -> {"none", "pending", "approved", "rejected"}]
  /\ items \in [Session -> SUBSET Command]
  /\ consent \in SUBSET (ID \X Command)
  /\ refused \in SUBSET Session

Init ==
  /\ stopping = FALSE
  /\ down = FALSE
  /\ client = [r \in Req |-> "out"]
  /\ conn = [r \in Req |-> "none"]
  /\ handler = [r \in Req |-> [pc |-> "none", verdict |-> "none", carried |-> CommandOf[r]]]
  /\ left = {}
  /\ pending = [i \in ID |-> NoReq]
  /\ reply = [r \in Req |-> NoResponse]
  /\ queue = <<>>
  /\ shown = [s \in Session |-> NoCommand]
  /\ mfaOpen = {}
  /\ sent = {}
  /\ status = [s \in Session |-> "none"]
  /\ items = [s \in Session |-> {}]
  /\ consent = {}
  /\ refused = {}

At(r, pc) == handler[r].pc = pc

Running(r) == handler[r].pc \notin {"none", "done"}

Goto(r, pc) == handler' = [handler EXCEPT ![r].pc = pc]

\* The handler has its answer; the server encodes it next.
Answer(r, v) == handler' = [handler EXCEPT ![r].pc = "encode", ![r].verdict = v]

Unpended(r) == [pending EXCEPT ![IdOf(r)] = NoReq]

\* ListApprovedItems: what a later permission check of the session matches.
Effective(s) == IF status[s] = "approved" THEN items[s] ELSE {}

serverVars == <<stopping, client, conn, left>>
uiVars == <<queue, shown, mfaOpen, sent, consent>>
grantVars == <<status, items>>

-----------------------------------------------------------------------------
(* opsctl and the server's connections *)

\* RequestApproval dials and writes its request.
Send(r) ==
  /\ client[r] = "out"
  /\ ~stopping
  /\ client' = [client EXCEPT ![r] = "waiting"]
  /\ conn' = [conn EXCEPT ![r] = "backlog"]
  /\ UNCHANGED <<stopping, down, handler, left, pending, reply, uiVars, grantVars, refused>>

\* opsctl exits while it waits (Ctrl-C).
Leave(r) ==
  /\ client[r] = "waiting"
  /\ client' = [client EXCEPT ![r] = "gone"]
  /\ UNCHANGED <<stopping, down, conn, handler, left, pending, reply, uiVars, grantVars, refused>>

\* acceptLoop: under s.mu, a connection is registered or, once stopping, closed.
Accept(r) ==
  /\ conn[r] = "backlog"
  /\ IF stopping
       THEN /\ conn' = [conn EXCEPT ![r] = "closed"]
            /\ UNCHANGED handler
       ELSE /\ conn' = [conn EXCEPT ![r] = "open"]
            /\ Goto(r, "start")
  /\ UNCHANGED <<stopping, down, client, left, pending, reply, uiVars, grantVars, refused>>

\* Mutant: Stop leaves the accepted connections alone.
StopKeepsConns ==
  /\ down
  /\ ~stopping
  /\ stopping' = TRUE
  /\ UNCHANGED <<conn, down, client, handler, left, pending, reply, uiVars, grantVars, refused>>

\* OnShutdown, once it has ended the application's context, stops the server: Stop
\* closes the listener and every accepted connection.
Stop ==
  /\ down
  /\ ~stopping
  /\ stopping' = TRUE
  /\ conn' = [r \in Req |-> IF conn[r] = "open" THEN "closed" ELSE conn[r]]
  /\ UNCHANGED <<down, client, handler, left, pending, reply, uiVars, grantVars, refused>>

\* OnShutdown ends the application's context.
Shutdown ==
  /\ ~down
  /\ down' = TRUE
  /\ UNCHANGED <<serverVars, handler, pending, reply, uiVars, grantVars, refused>>

\* The goroutine reading the connection sees it end and cancels the context.
Watch(r) ==
  /\ Running(r) /\ ~At(r, "start")
  /\ r \in Authentic
  /\ r \notin left
  /\ client[r] = "gone" \/ conn[r] = "closed"
  /\ left' = left \cup {r}
  /\ UNCHANGED <<stopping, client, conn, down, handler, pending, reply, uiVars, grantVars, refused>>

\* handleConn refuses a wrong token, then handleRequest dispatches on the type.
Dispatch(r) ==
  /\ At(r, "start")
  /\ IF r \notin Authentic
       THEN Answer(r, "no")
       ELSE Goto(r, IF KindOf[r] = "grant" THEN "session" ELSE "register")
  /\ UNCHANGED <<serverVars, down, pending, reply, uiVars, grantVars, refused>>

\* The response is encoded, if somebody is there to read it, and the connection closed.
Encode(r) ==
  /\ At(r, "encode")
  /\ Goto(r, "done")
  /\ client' = [client EXCEPT ![r] = IF @ = "waiting" /\ conn[r] = "open" THEN "told" ELSE @]
  /\ conn' = [conn EXCEPT ![r] = "closed"]
  /\ UNCHANGED <<stopping, left, down, pending, reply, uiVars, grantVars, refused>>

-----------------------------------------------------------------------------
(* Asking the user *)

\* Mutant: the approval is not stored.
RegisterForgotten(r) ==
  /\ At(r, "register")
  /\ Goto(r, "emit")
  /\ UNCHANGED <<serverVars, down, pending, reply, uiVars, grantVars, refused>>

\* The pending approval is stored before the event is emitted.
Register(r) ==
  /\ At(r, "register")
  /\ pending' = [pending EXCEPT ![IdOf(r)] = r]
  /\ Goto(r, "emit")
  /\ UNCHANGED <<serverVars, down, reply, uiVars, grantVars, refused>>

Queued(r) == \E i \in 1 .. Len(queue) : IdOf(queue[i]) = IdOf(r)

\* The event reaches the frontend: enqueue drops an ID that is already queued; a
\* grant's editState is overwritten all the same.
Emit(r) ==
  /\ At(r, "emit")
  /\ Goto(r, "wait")
  /\ IF KindOf[r] = "mfa"
       THEN /\ mfaOpen' = mfaOpen \cup {r}
            /\ UNCHANGED <<queue, shown>>
       ELSE /\ queue' = IF Queued(r) THEN queue ELSE Append(queue, r)
            /\ shown' = IF KindOf[r] = "grant"
                          THEN [shown EXCEPT ![SessionOf[r]] = CommandOf[r]]
                          ELSE shown
            /\ UNCHANGED mfaOpen
  /\ UNCHANGED <<serverVars, down, pending, reply, sent, consent, grantVars, refused>>

\* What the dialog's first entry shows as its command.
OnScreen(r) == IF KindOf[r] = "grant" /\ shown[SessionOf[r]] # NoCommand
                 THEN shown[SessionOf[r]] ELSE CommandOf[r]

\* respond() in the dialog: the user decides on the first entry, keeping what is
\* on screen or typing something else where that is possible.
Click(d, typed) ==
  LET r == Head(queue)
      c == IF typed # NoCommand THEN typed ELSE OnScreen(r)
      mayEdit == (KindOf[r] = "grant" /\ d = "allow") \/ d = "allowAll"
  IN
  /\ queue # <<>>
  /\ d = "allowAll" => KindOf[r] = "single"
  /\ typed # NoCommand => mayEdit
  /\ queue' = Tail(queue)
  /\ shown' = IF KindOf[r] = "grant" THEN [shown EXCEPT ![SessionOf[r]] = NoCommand] ELSE shown
  /\ sent' = sent \cup {<<IdOf(r), [decision |-> d,
                                    edited |-> IF mayEdit /\ c # CommandOf[r] THEN c ELSE NoCommand]>>}
  /\ consent' = IF d = "deny" THEN consent ELSE consent \cup {<<IdOf(r), c>>}
  /\ UNCHANGED <<serverVars, down, handler, pending, reply, mfaOpen, grantVars, refused>>

\* ParseApprovalResponse: allowAll is for single approvals; an edit that repeats
\* the requested command is none.
Parse(r, resp) ==
  IF resp.decision = "allowAll" /\ KindOf[r] # "single"
    THEN [decision |-> "deny", edited |-> NoCommand]
    ELSE [resp EXCEPT !.edited = IF @ = CommandOf[r] THEN NoCommand ELSE @]

\* A non-blocking send to a channel of capacity one.
Offer(ch, resp) == IF ch = NoResponse THEN resp ELSE ch

\* RespondOpsctlApproval: an answer without a pending approval is dropped, the
\* first one offered to a channel stays.
Respond(m) ==
  LET r == pending[m[1]] IN
  /\ m \in sent
  /\ m[1] \notin Challenges
  /\ sent' = sent \ {m}
  /\ reply' = IF r = NoReq THEN reply ELSE [reply EXCEPT ![r] = Offer(@, Parse(r, m[2]))]
  /\ UNCHANGED <<serverVars, down, handler, pending, queue, shown, mfaOpen, consent, grantVars, refused>>

\* The MFA dialog submits answers ("allow") or is closed ("deny"), and is gone.
Submit(r, d) ==
  /\ r \in mfaOpen
  /\ mfaOpen' = mfaOpen \ {r}
  /\ sent' = sent \cup {<<r, [decision |-> d, edited |-> NoCommand]>>}
  /\ UNCHANGED <<serverVars, down, handler, pending, reply, queue, shown, consent, grantVars, refused>>

\* mfaBroker.respond and cancel: whoever takes the challenge out of pending sends.
RespondMFA(m) ==
  LET r == m[1] IN
  /\ m \in sent
  /\ r \in Challenges
  /\ sent' = sent \ {m}
  /\ IF pending[r] = NoReq
       THEN UNCHANGED <<pending, reply>>
       ELSE /\ pending' = Unpended(r)
            /\ reply' = [reply EXCEPT ![r] = m[2]]
  /\ UNCHANGED <<serverVars, down, handler, queue, shown, mfaOpen, consent, grantVars, refused>>

-----------------------------------------------------------------------------
(* The handlers *)

\* What an approved command is granted as: the edit if there is one.
Chosen(r) == IF reply[r].edited = NoCommand THEN CommandOf[r] ELSE reply[r].edited

\* awaitSingleApproval and handleBatchApproval receive the answer, and
\* requestSingleApproval goes on to save the grant of an "always allow".
Take(r) ==
  LET d == reply[r].decision IN
  /\ At(r, "wait")
  /\ KindOf[r] \in {"single", "once", "batch"}
  /\ reply[r] # NoResponse
  /\ pending' = Unpended(r)
  /\ IF d = "allow" THEN Answer(r, "yes")
     ELSE IF d # "allowAll" \/ SessionOf[r] = NoSession THEN Answer(r, "no")
     ELSE handler' = [handler EXCEPT
            ![r].pc = IF Grants[Chosen(r)] = {} THEN "encode" ELSE "saveSession",
            ![r].verdict = IF Grants[Chosen(r)] = {} THEN "yes" ELSE @,
            ![r].carried = Chosen(r)]
  /\ UNCHANGED <<serverVars, down, reply, uiVars, grantVars, refused>>

\* SaveGrantPattern creates the session, approved, if there is none.
SaveSession(r) ==
  /\ At(r, "saveSession")
  /\ status' = [status EXCEPT ![SessionOf[r]] = IF @ = "none" THEN "approved" ELSE @]
  /\ Goto(r, "saveItem")
  /\ UNCHANGED <<serverVars, down, pending, reply, uiVars, items, refused>>

\* ... and then its items.
SaveItem(r) ==
  /\ At(r, "saveItem")
  /\ items' = [items EXCEPT ![SessionOf[r]] = @ \cup Grants[handler[r].carried]]
  /\ Answer(r, "yes")
  /\ UNCHANGED <<serverVars, down, pending, reply, uiVars, status, refused>>

\* handleGrantApproval creates the session, pending, unless it exists.
GrantSession(r) ==
  /\ At(r, "session")
  /\ status' = [status EXCEPT ![SessionOf[r]] = IF @ = "none" THEN "pending" ELSE @]
  /\ Goto(r, "items")
  /\ UNCHANGED <<serverVars, down, pending, reply, uiVars, items, refused>>

\* The requested items are saved before anybody has been asked.
GrantItems(r) ==
  /\ At(r, "items")
  /\ items' = [items EXCEPT ![SessionOf[r]] = @ \cup {CommandOf[r]}]
  /\ Goto(r, "register")
  /\ UNCHANGED <<serverVars, down, pending, reply, uiVars, status, refused>>

\* Mutant: whatever the user answers approves the grant.
TakeGrantAnyAnswer(r) ==
  /\ At(r, "wait") /\ KindOf[r] = "grant"
  /\ reply[r] # NoResponse
  /\ handler' = [handler EXCEPT ![r].pc = "status", ![r].verdict = "yes", ![r].carried = Chosen(r)]
  /\ UNCHANGED <<serverVars, down, pending, reply, uiVars, grantVars, refused>>

\* handleGrantApproval receives the answer.
TakeGrant(r) ==
  LET ok == reply[r].decision = "allow" IN
  /\ At(r, "wait") /\ KindOf[r] = "grant"
  /\ reply[r] # NoResponse
  /\ handler' = [handler EXCEPT ![r].pc = "status",
                               ![r].verdict = IF ok THEN "yes" ELSE "no",
                               ![r].carried = IF ok THEN Chosen(r) ELSE @]
  /\ UNCHANGED <<serverVars, down, pending, reply, uiVars, grantVars, refused>>

AfterStatus(r) ==
  IF handler[r].verdict = "yes" /\ handler[r].carried # CommandOf[r] THEN "edit" ELSE "return"

\* The answer decides the status of the whole session.
GrantStatus(r) ==
  /\ At(r, "status")
  /\ status' = [status EXCEPT ![SessionOf[r]] =
                  IF handler[r].verdict = "yes" THEN "approved" ELSE "rejected"]
  /\ Goto(r, AfterStatus(r))
  /\ UNCHANGED <<serverVars, down, pending, reply, uiVars, items, refused>>

\* Mutant: the requested items are not deleted first.
GrantEditAdds(r) ==
  /\ At(r, "edit")
  /\ UNCHANGED items
  /\ Goto(r, "recreate")
  /\ UNCHANGED <<serverVars, down, pending, reply, uiVars, status, refused>>

\* UpdateItems deletes every item of the session ...
GrantEdit(r) ==
  /\ At(r, "edit")
  /\ items' = [items EXCEPT ![SessionOf[r]] = {}]
  /\ Goto(r, "recreate")
  /\ UNCHANGED <<serverVars, down, pending, reply, uiVars, status, refused>>

\* Mutant: only the old items are dropped.
GrantRecreateNothing(r) ==
  /\ At(r, "recreate")
  /\ Goto(r, "return")
  /\ UNCHANGED <<serverVars, down, pending, reply, uiVars, grantVars, refused>>

\* ... and, in a second statement, creates the edited ones.
GrantRecreate(r) ==
  /\ At(r, "recreate")
  /\ items' = [items EXCEPT ![SessionOf[r]] = @ \cup {handler[r].carried}]
  /\ Goto(r, "return")
  /\ UNCHANGED <<serverVars, down, pending, reply, uiVars, status, refused>>

\* The database refuses the statement the handler is at; a rejection at shutdown is
\* written under a context that may be the one that ended.  Only a grant request
\* whose rows cannot be created is refused; the other failures are logged, and of
\* the patterns of an "always allow" any may be missing.
DBError(r) ==
  /\ DBFails \/ (down /\ At(r, "status"))
  /\ refused' = refused \cup {SessionOf[r]}
  /\ \/ /\ At(r, "session") \/ At(r, "items")
        /\ Answer(r, "no")
        /\ UNCHANGED items
     \/ /\ At(r, "saveSession")
        /\ Goto(r, "saveItem")
        /\ UNCHANGED items
     \/ /\ At(r, "saveItem")
        /\ Answer(r, "yes")
        /\ \E saved \in SUBSET Grants[handler[r].carried] :
             items' = [items EXCEPT ![SessionOf[r]] = @ \cup saved]
     \/ /\ At(r, "status")
        /\ Goto(r, AfterStatus(r))
        /\ UNCHANGED items
     \/ /\ At(r, "edit") \/ At(r, "recreate")
        /\ Goto(r, "return")
        /\ UNCHANGED items
  /\ UNCHANGED <<serverVars, down, pending, reply, uiVars, status>>

\* handleGrantApproval returns; its deferred Delete goes by session.
GrantReturn(r) ==
  /\ At(r, "return")
  /\ pending' = Unpended(r)
  /\ Goto(r, "encode")
  /\ UNCHANGED <<serverVars, down, reply, uiVars, grantVars, refused>>

\* The application ends before the answer: every handler but MFA's denies.
TakeShutdown(r) ==
  /\ At(r, "wait") /\ KindOf[r] # "mfa"
  /\ down
  /\ IF KindOf[r] = "grant"
       THEN /\ handler' = [handler EXCEPT ![r].pc = "status", ![r].verdict = "no"]
            /\ UNCHANGED pending
       ELSE /\ pending' = Unpended(r)
            /\ Answer(r, "no")
  /\ UNCHANGED <<serverVars, down, reply, uiVars, grantVars, refused>>

\* mfaBroker.challenge receives the answers or the cancellation.
TakeMFA(r) ==
  /\ At(r, "wait") /\ KindOf[r] = "mfa"
  /\ reply[r] # NoResponse
  /\ pending' = Unpended(r)
  /\ Answer(r, IF reply[r].decision = "allow" THEN "yes" ELSE "no")
  /\ UNCHANGED <<serverVars, down, reply, uiVars, grantVars, refused>>

\* The requester has gone: the challenge is withdrawn and its dialog closed.
TakeGone(r) ==
  /\ At(r, "wait") /\ KindOf[r] = "mfa"
  /\ r \in left
  /\ pending' = Unpended(r)
  /\ mfaOpen' = mfaOpen \ {r}
  /\ Answer(r, "no")
  /\ UNCHANGED <<serverVars, down, reply, queue, shown, sent, consent, grantVars, refused>>

-----------------------------------------------------------------------------
(* Specification *)

ServerStep(r) == Accept(r) \/ Watch(r) \/ Dispatch(r) \/ Encode(r)

AskStep(r) == Register(r) \/ Emit(r) \/ Take(r) \/ SaveSession(r) \/ SaveItem(r) \/ TakeMFA(r)

GrantStep(r) ==
  \/ GrantSession(r) \/ GrantItems(r) \/ TakeGrant(r) \/ GrantStatus(r) \/ GrantEdit(r) \/ GrantRecreate(r)
  \/ GrantReturn(r)

EndStep(r) == TakeShutdown(r) \/ TakeGone(r)

HandlerStep(r) == ServerStep(r) \/ AskStep(r) \/ GrantStep(r) \/ DBError(r) \/ EndStep(r)

Deliver(m) == Respond(m) \/ RespondMFA(m)

UserStep ==
  \/ \E d \in Decision \ {"none"}, e \in Edit \cup {NoCommand} : Click(d, e)
  \/ \E r \in Req, d \in {"allow", "deny"} : Submit(r, d)

ClientStep(r) == Send(r) \/ Leave(r)

Next ==
  \/ \E r \in Req : HandlerStep(r) \/ ClientStep(r)
  \/ \E m \in sent : Deliver(m)
  \/ UserStep
  \/ Stop
  \/ Shutdown

Spec == Init /\ [][Next]_vars

\* Goroutines run and the frontend's calls arrive; nobody needs to click, to
\* leave or to quit the application.
LiveSpec ==
  /\ Spec
  /\ \A r \in Req : WF_vars(HandlerStep(r))
  /\ \A i \in ID, d \in Decision, e \in Command \cup {NoCommand} :
       WF_vars(Deliver(<<i, [decision |-> d, edited |-> e]>>))

-----------------------------------------------------------------------------
(* Properties *)

\* A request is approved only if the user allowed that very command in the dialog
\* that stands for it (RespondOpsctlApproval finds the pending approval by ID).
YesIsConsent ==
  \A r \in Req : KindOf[r] # "mfa" /\ handler[r].verdict = "yes" =>
    <<IdOf(r), handler[r].carried>> \in consent

Consented(s, p) ==
  \E pair \in consent :
    /\ pair[1] = s \/ (pair[1] \in Req /\ SessionOf[pair[1]] = s)
    /\ p = pair[2] \/ p \in Grants[pair[2]]

\* What a session's permission checks match was allowed by the user, as it is or as
\* the command the pattern was derived from (SaveGrantPattern, handleGrantApproval):
\* of sessions whose database statements have succeeded, and except while
\* handleGrantApproval is between approving a session and replacing its items.
SettledIsConsented ==
  \A s \in Session \ refused :
    (\A r \in Req : SessionOf[r] = s => ~At(r, "edit")) => \A p \in Effective(s) : Consented(s, p)

\* A grant request that is reported as approved has taken effect, unless the database
\* failed: the session's permission checks match what was approved, as edited.
ApprovedGrantTakesEffect ==
  \A r \in Req : KindOf[r] = "grant" /\ At(r, "encode") /\ handler[r].verdict = "yes" =>
    handler[r].carried \in Effective(SessionOf[r]) \/ SessionOf[r] \in refused

\* Every approval the user has decided on and every challenge answered or dismissed
\* ends its handler.
DecidedReturns == \A r \in Req : (\E m \in sent : m[1] = IdOf(r)) ~> ~Running(r)

\* Shutting down ends every handler.
ShutdownEnds == stopping ~> \A r \in Req : ~Running(r)

\* When opsctl goes away, whatever waits for the user on its behalf ends.
GoneEndsAll == \A r \in Req : client[r] = "gone" ~> ~Running(r)

=============================================================================

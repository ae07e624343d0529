------------------------- MODULE OpsctlApprovalProofs -------------------------
(***************************************************************************)
(* What OpsctlApproval promises, for any requests, sessions, commands and  *)
(* normalisation of grants.                                                *)
(*                                                                         *)
(* An answer carries an ID.  The grant requests of one session share it,   *)
(* so what is promised of a request is promised if its ID is its own       *)
(* (Alone), and what is promised of a session's items if its grant request *)
(* is the only request that writes them (Sole).  The inductive invariant   *)
(* follows the user's consent from the dialog to the answer on its way, to *)
(* the request's channel, to its handler and to the tables.                *)
(***************************************************************************)
EXTENDS OpsctlApproval, SequenceTheorems, TLAPS

-----------------------------------------------------------------------------
(* Requests and sessions *)

\* No other request has the request's ID; only two grant requests may.
Alone(r) == \A q \in Req : IdOf(q) = IdOf(r) => q = r

\* No two grant requests of one session.
OneGrantEach ==
  \A r, q \in Req :
    KindOf[r] = "grant" /\ KindOf[q] = "grant" /\ SessionOf[r] = SessionOf[q] => r = q

\* The request is the only one of its session that may write the grant tables.
Sole(r) ==
  \A q \in Req : SessionOf[q] = SessionOf[r] /\ KindOf[q] \in {"grant", "single"} => q = r

\* A session that asks for a grant has no other request that may write the grant tables.
GrantsAlone == \A r \in Req : KindOf[r] = "grant" => Sole(r)

NoGrantOf(s) == \A r \in Req : KindOf[r] = "grant" => SessionOf[r] # s

-----------------------------------------------------------------------------
(* The inductive invariant *)

Asking == {"none", "start", "session", "items", "register", "emit", "wait"}

Saving == {"saveSession", "saveItem"}

Answered == {"status", "edit", "recreate", "return"}

\* Where the handler of a request of this kind can be, and with what.
Shape(r, h) ==
  /\ h.pc \in {"session", "items"} \cup Answered => KindOf[r] = "grant"
  /\ h.pc \in Saving => KindOf[r] = "single" /\ SessionOf[r] \in Session
  /\ h.pc \in Asking \cup Saving => h.verdict = "none"
  /\ h.pc \in Asking => h.carried = CommandOf[r]
  /\ KindOf[r] = "grant" => h.pc \notin Saving

\* What the answer allows.
Text(r, resp) == IF resp.edited = NoCommand THEN CommandOf[r] ELSE resp.edited

\* The answer allows nothing but what the user has allowed.
Backed(r, resp, c) ==
  /\ resp.decision \in {"allow", "allowAll"} => <<IdOf(r), Text(r, resp)>> \in c
  /\ resp.decision = "allow" /\ KindOf[r] # "grant" => resp.edited = NoCommand
  /\ resp.decision = "allowAll" => KindOf[r] = "single"

PendInv == \A i \in ID : pending[i] # NoReq => IdOf(pending[i]) = i

SentInv ==
  \A r \in Req : KindOf[r] # "mfa" /\ Alone(r) =>
    \A m \in sent : m[1] = IdOf(r) => Backed(r, m[2], consent)

ReplyInv ==
  \A r \in Req : KindOf[r] # "mfa" /\ Alone(r) => Backed(r, reply[r], consent)

VerdictInv ==
  \A r \in Req : KindOf[r] # "mfa" /\ Alone(r) =>
    (handler[r].verdict = "yes" \/ handler[r].pc \in Saving =>
       <<IdOf(r), handler[r].carried>> \in consent)

\* What the handler of an approved grant request has written is in the tables.
Written(r, h, st, its, ref) ==
  /\ h.pc \in {"register", "emit", "wait", "status"} => CommandOf[r] \in its
  /\ h.verdict = "yes" /\ h.pc \in {"edit", "recreate", "return", "encode", "done"} =>
       st = "approved" \/ ref
  /\ h.verdict = "yes" /\ h.pc \in {"return", "encode", "done"} => h.carried \in its \/ ref

\* Nothing else is in them, if nobody else writes them.
Settled(r, h, st, its, ref) ==
  /\ st = "approved" =>
       h.verdict = "yes" /\ h.pc \in {"edit", "recreate", "return", "encode", "done"}
  /\ h.pc \in Asking \cup {"status"} => its \subseteq {CommandOf[r]}
  /\ h.pc = "recreate" => its = {}
  /\ h.verdict = "yes" /\ h.pc \in {"return", "encode", "done"} => its \subseteq {h.carried} \/ ref

GrantInv ==
  \A r \in Req : KindOf[r] = "grant" /\ Alone(r) =>
    Written(r, handler[r], status[SessionOf[r]], items[SessionOf[r]], SessionOf[r] \in refused)

SoleInv ==
  \A r \in Req : KindOf[r] = "grant" /\ Sole(r) =>
    Settled(r, handler[r], status[SessionOf[r]], items[SessionOf[r]], SessionOf[r] \in refused)

ItemsInv == \A s \in Session : NoGrantOf(s) => \A p \in items[s] : Consented(s, p)

ShapeInv == \A r \in Req : Shape(r, handler[r])

\* A request is read from its connection, once.
ConnInv ==
  \A r \in Req :
    /\ client[r] = "out" => conn[r] = "none"
    /\ conn[r] \in {"none", "backlog"} => handler[r].pc = "none"

\* The way of an answer, and what is done with it.
AskInv == mfaOpen \subseteq Challenges /\ PendInv /\ SentInv /\ ReplyInv

TableInv == ShapeInv /\ VerdictInv /\ GrantInv /\ SoleInv /\ ItemsInv

IInv == TypeOK /\ ConnInv /\ AskInv /\ TableInv

-----------------------------------------------------------------------------
(* Handlers, IDs and tables *)

\* Every ID is a request's or a session's.
LEMMA IdType ==
  ASSUME NEW r \in Req
  PROVE  IdOf(r) \in ID
BY ApprovalConstants DEF IdOf, ID

\* Only grant requests may share an ID.
LEMMA OthersAlone ==
  ASSUME NEW r \in Req, KindOf[r] # "grant"
  PROVE  Alone(r) /\ IdOf(r) = r
BY ApprovalConstants DEF Alone, IdOf

\* Whoever asks for a grant has a session, and its ID.
LEMMA GrantId ==
  ASSUME NEW r \in Req, KindOf[r] = "grant"
  PROVE  IdOf(r) = SessionOf[r] /\ SessionOf[r] \in Session
BY ApprovalConstants DEF IdOf

\* If no two grant requests share a session, every request has an ID of its own.
LEMMA OneIsAlone ==
  ASSUME OneGrantEach, NEW r \in Req
  PROVE  Alone(r)
BY ApprovalConstants DEF OneGrantEach, Alone, IdOf

\* The handler goes on.
LEMMA GotoIs ==
  ASSUME TypeOK, NEW r \in Req, NEW p \in HandlerPC, Goto(r, p)
  PROVE  \E h \in HandlerState :
           /\ h.pc = p /\ h.verdict = handler[r].verdict /\ h.carried = handler[r].carried
           /\ handler' = [handler EXCEPT ![r] = h]
<1>1. handler \in [Req -> HandlerState]
  BY DEF TypeOK
<1>2. PICK h : h = [handler[r] EXCEPT !.pc = p]
  OBVIOUS
<1>3. h \in HandlerState /\ h.pc = p /\ h.verdict = handler[r].verdict /\ h.carried = handler[r].carried
  BY <1>1, <1>2 DEF HandlerState
<1>4. handler' = [handler EXCEPT ![r] = h]
  BY <1>1, <1>2 DEF Goto
<1> QED
  BY <1>3, <1>4

\* The handler has its answer.
LEMMA AnswerIs ==
  ASSUME TypeOK, NEW r \in Req, NEW v \in {"none", "yes", "no"}, Answer(r, v)
  PROVE  \E h \in HandlerState :
           /\ h.pc = "encode" /\ h.verdict = v /\ h.carried = handler[r].carried
           /\ handler' = [handler EXCEPT ![r] = h]
<1>1. handler \in [Req -> HandlerState]
  BY DEF TypeOK
<1>2. PICK h : h = [handler[r] EXCEPT !.pc = "encode", !.verdict = v]
  OBVIOUS
<1>3. h \in HandlerState /\ h.pc = "encode" /\ h.verdict = v /\ h.carried = handler[r].carried
  BY <1>1, <1>2 DEF HandlerState, HandlerPC
<1>4. handler' = [handler EXCEPT ![r] = h]
  BY <1>1, <1>2 DEF Answer
<1> QED
  BY <1>3, <1>4

\* One handler moves and the tables stay.
LEMMA HandlerMoves ==
  ASSUME IInv, NEW r \in Req, NEW h \in HandlerState, handler' = [handler EXCEPT ![r] = h],
         UNCHANGED <<status, items, refused, consent>>,
         Shape(r, h),
         KindOf[r] # "mfa" /\ Alone(r) /\ (h.verdict = "yes" \/ h.pc \in Saving)
           => <<IdOf(r), h.carried>> \in consent,
         KindOf[r] = "grant" => Written(r, h, status[SessionOf[r]], items[SessionOf[r]], SessionOf[r] \in refused)
                                \/ ~Alone(r),
         KindOf[r] = "grant" => Settled(r, h, status[SessionOf[r]], items[SessionOf[r]], SessionOf[r] \in refused)
                                \/ ~Sole(r)
  PROVE  handler' \in [Req -> HandlerState] /\ TableInv'
<1>1. handler \in [Req -> HandlerState] /\ TableInv
  BY DEF IInv, TypeOK
<1>2. handler' \in [Req -> HandlerState] /\ handler'[r] = h /\ \A q \in Req \ {r} : handler'[q] = handler[q]
  BY <1>1
<1>3. ShapeInv'
  BY <1>1, <1>2 DEF TableInv, ShapeInv
<1>4. VerdictInv'
  BY <1>1, <1>2 DEF TableInv, VerdictInv
<1>5. GrantInv'
  BY <1>1, <1>2 DEF TableInv, GrantInv
<1>6. SoleInv'
  BY <1>1, <1>2 DEF TableInv, SoleInv
<1>7. ItemsInv'
  BY <1>1 DEF TableInv, ItemsInv, Consented
<1> QED
  BY <1>2, <1>3, <1>4, <1>5, <1>6, <1>7 DEF TableInv

\* One handler moves and writes the tables of its session.
LEMMA TablesMove ==
  ASSUME IInv, NEW r \in Req, KindOf[r] \in {"grant", "single"},
         NEW s \in Session, s = SessionOf[r], UNCHANGED consent,
         NEW h \in HandlerState, handler' = [handler EXCEPT ![r] = h],
         NEW x, x \in {"none", "pending", "approved", "rejected"}, status' = [status EXCEPT ![s] = x],
         NEW y, y \subseteq Command, items' = [items EXCEPT ![s] = y],
         refused' = refused \/ refused' = refused \cup {s},
         Shape(r, h),
         Alone(r) /\ (h.verdict = "yes" \/ h.pc \in Saving) => <<IdOf(r), h.carried>> \in consent,
         KindOf[r] = "grant" => Written(r, h, x, y, s \in refused') \/ ~Alone(r),
         KindOf[r] = "grant" => Settled(r, h, x, y, s \in refused') \/ ~Sole(r),
         KindOf[r] = "single" => (status[s] = "approved" => x = "approved") /\ items[s] \subseteq y,
         KindOf[r] = "single" => \A p \in y : p \in items[s] \/ Consented(s, p)
  PROVE  /\ handler' \in [Req -> HandlerState]
         /\ status' \in [Session -> {"none", "pending", "approved", "rejected"}]
         /\ items' \in [Session -> SUBSET Command]
         /\ refused' \in SUBSET Session
         /\ TableInv'
<1>1. /\ handler \in [Req -> HandlerState] /\ TableInv
      /\ status \in [Session -> {"none", "pending", "approved", "rejected"}]
      /\ items \in [Session -> SUBSET Command] /\ refused \in SUBSET Session
  BY DEF IInv, TypeOK
<1>2. handler' \in [Req -> HandlerState] /\ handler'[r] = h /\ \A q \in Req \ {r} : handler'[q] = handler[q]
  BY <1>1
<1>3. /\ status' \in [Session -> {"none", "pending", "approved", "rejected"}]
      /\ status'[s] = x /\ \A t \in Session \ {s} : status'[t] = status[t]
  BY <1>1
<1>4. /\ items' \in [Session -> SUBSET Command]
      /\ items'[s] = y /\ \A t \in Session \ {s} : items'[t] = items[t]
  BY <1>1
<1>5. /\ refused' \in SUBSET Session /\ (s \in refused => s \in refused')
      /\ \A t \in Session \ {s} : t \in refused' <=> t \in refused
  BY <1>1
<1>6. ShapeInv'
  BY <1>1, <1>2 DEF TableInv, ShapeInv
<1>7. VerdictInv'
  BY <1>1, <1>2 DEF TableInv, VerdictInv
<1>8. ASSUME NEW q \in Req, KindOf[q] = "grant", Alone(q)
      PROVE  Written(q, handler'[q], status'[SessionOf[q]], items'[SessionOf[q]], SessionOf[q] \in refused')
  <2>1. SessionOf[q] \in Session /\ Written(q, handler[q], status[SessionOf[q]], items[SessionOf[q]], SessionOf[q] \in refused)
    BY <1>1, <1>8, GrantId DEF TableInv, GrantInv
  <2>2. CASE q = r
    BY <1>2, <1>3, <1>4, <1>8, <2>2
  <2>3. CASE q # r /\ SessionOf[q] # s
    <3>1. /\ handler'[q] = handler[q] /\ status'[SessionOf[q]] = status[SessionOf[q]]
          /\ items'[SessionOf[q]] = items[SessionOf[q]] /\ (SessionOf[q] \in refused' <=> SessionOf[q] \in refused)
      BY <1>2, <1>3, <1>4, <1>5, <2>1, <2>3
    <3> QED
      BY <2>1, <3>1 DEF Written
  <2>4. CASE q # r /\ SessionOf[q] = s
    <3>1. KindOf[r] = "single"
      BY <1>8, <2>4, GrantId DEF Alone
    <3>2. /\ handler'[q] = handler[q] /\ (status[s] = "approved" => status'[s] = "approved")
          /\ items[s] \subseteq items'[s] /\ (s \in refused => s \in refused')
      BY <1>2, <1>3, <1>4, <1>5, <2>4, <3>1
    <3> QED
      BY <2>1, <2>4, <3>2 DEF Written
  <2> QED
    BY <2>2, <2>3, <2>4
<1>9. ASSUME NEW q \in Req, KindOf[q] = "grant", Sole(q)
      PROVE  Settled(q, handler'[q], status'[SessionOf[q]], items'[SessionOf[q]], SessionOf[q] \in refused')
  <2>1. SessionOf[q] \in Session /\ Settled(q, handler[q], status[SessionOf[q]], items[SessionOf[q]], SessionOf[q] \in refused)
    BY <1>1, <1>9, GrantId DEF TableInv, SoleInv
  <2>2. CASE q = r
    BY <1>2, <1>3, <1>4, <1>9, <2>2
  <2>3. CASE q # r
    <3>1. SessionOf[q] # s
      BY <1>9, <2>3 DEF Sole
    <3>2. /\ handler'[q] = handler[q] /\ status'[SessionOf[q]] = status[SessionOf[q]]
          /\ items'[SessionOf[q]] = items[SessionOf[q]] /\ (SessionOf[q] \in refused' <=> SessionOf[q] \in refused)
      BY <1>2, <1>3, <1>4, <1>5, <2>1, <2>3, <3>1
    <3> QED
      BY <2>1, <3>2 DEF Settled
  <2> QED
    BY <2>2, <2>3
<1>10. ItemsInv'
  <2>1. ASSUME NEW t \in Session, NoGrantOf(t), NEW p \in items'[t]
        PROVE  Consented(t, p)
    <3>1. CASE t # s
      BY <1>1, <1>4, <2>1, <3>1 DEF TableInv, ItemsInv
    <3>2. CASE t = s
      BY <1>1, <1>4, <2>1, <3>2 DEF TableInv, ItemsInv, NoGrantOf
    <3> QED
      BY <3>1, <3>2
  <2>2. \A t, p : Consented(t, p)' <=> Consented(t, p)
    BY DEF Consented
  <2> QED
    BY <2>1, <2>2 DEF ItemsInv
<1> QED
  BY <1>2, <1>3, <1>4, <1>5, <1>6, <1>7, <1>8, <1>9, <1>10 DEF TableInv, GrantInv, SoleInv

\* Neither the tables nor the handlers move.
LEMMA TablesSame ==
  ASSUME IInv, UNCHANGED <<handler, status, items, refused, consent>>
  PROVE  TableInv'
BY DEF IInv, TableInv, ShapeInv, VerdictInv, GrantInv, SoleInv, ItemsInv, Consented

\* No answer moves; an approval may be filed or removed.
LEMMA AnswersSame ==
  ASSUME IInv, UNCHANGED <<reply, sent, consent>>, mfaOpen' \subseteq Challenges,
         \/ UNCHANGED pending
         \/ \E r \in Req, x \in Req \cup {NoReq} :
              (x = NoReq \/ x = r) /\ pending' = [pending EXCEPT ![IdOf(r)] = x]
  PROVE  pending' \in [ID -> Req \cup {NoReq}] /\ AskInv'
<1>1. pending \in [ID -> Req \cup {NoReq}] /\ AskInv
  BY DEF IInv, TypeOK
<1>2. pending' \in [ID -> Req \cup {NoReq}] /\ PendInv'
  <2>1. CASE UNCHANGED pending
    BY <1>1, <2>1 DEF AskInv, PendInv
  <2>2. ASSUME NEW r \in Req, NEW x \in Req \cup {NoReq}, x = NoReq \/ x = r,
               pending' = [pending EXCEPT ![IdOf(r)] = x]
        PROVE  pending' \in [ID -> Req \cup {NoReq}] /\ PendInv'
    <3>1. IdOf(r) \in ID
      BY IdType
    <3>2. pending' \in [ID -> Req \cup {NoReq}] /\ pending'[IdOf(r)] = x
          /\ \A i \in ID : i # IdOf(r) => pending'[i] = pending[i]
      BY <1>1, <2>2, <3>1
    <3> QED
      BY <1>1, <2>2, <3>2 DEF AskInv, PendInv
  <2> QED
    BY <2>1, <2>2
<1>3. SentInv' /\ ReplyInv'
  BY <1>1 DEF AskInv, SentInv, ReplyInv
<1> QED
  BY <1>2, <1>3 DEF AskInv

\* A handler that runs goes on: its connection was read.
LEMMA ConnSame ==
  ASSUME IInv, UNCHANGED <<client, conn>>, NEW r \in Req, handler[r].pc # "none",
         NEW h, handler' = [handler EXCEPT ![r] = h]
  PROVE  ConnInv'
<1>1. handler \in [Req -> HandlerState]
  BY DEF IInv, TypeOK
<1> QED
  BY <1>1 DEF IInv, ConnInv

\* What is behind the server: nothing of it moves.
behind == <<handler, pending, reply, queue, shown, mfaOpen, sent, consent, status, items, refused>>

\* A client, its connection or the watcher of it moves.
LEMMA ServerMoves ==
  ASSUME IInv, UNCHANGED behind,
         stopping' \in BOOLEAN, down' \in BOOLEAN, left' \in SUBSET Req,
         client' \in [Req -> {"out", "waiting", "told", "gone"}],
         conn' \in [Req -> {"none", "backlog", "open", "closed"}],
         ConnInv'
  PROVE  IInv'
<1>1. TableInv'
  BY TablesSame DEF behind
<1>2. AskInv'
  <2>1. mfaOpen' \subseteq Challenges
    BY DEF behind, IInv, AskInv
  <2> QED
    BY <2>1, AnswersSame DEF behind
<1>3. TypeOK'
  BY DEF IInv, TypeOK, behind
<1> QED
  BY <1>1, <1>2, <1>3 DEF IInv

\* Send, Leave, Watch, Stop and Shutdown.
LEMMA ServerKeeps ==
  ASSUME IInv, Stop \/ Shutdown \/ \E r \in Req : Send(r) \/ Leave(r) \/ Watch(r)
  PROVE  IInv'
<1>1. TypeOK /\ ConnInv
  BY DEF IInv
<1>2. CASE Stop
  <2>1. UNCHANGED <<behind, down, client, left>> /\ stopping' = TRUE
        /\ conn' = [r \in Req |-> IF conn[r] = "open" THEN "closed" ELSE conn[r]]
    BY <1>2 DEF Stop, behind, uiVars, grantVars
  <2>2. ConnInv'
    BY <1>1, <2>1 DEF ConnInv, TypeOK, behind
  <2>3. conn' \in [Req -> {"none", "backlog", "open", "closed"}]
    BY <1>1, <2>1 DEF TypeOK
  <2>4. down' \in BOOLEAN /\ left' \in SUBSET Req /\ client' \in [Req -> {"out", "waiting", "told", "gone"}]
    BY <1>1, <2>1 DEF TypeOK
  <2> QED
    BY <2>1, <2>2, <2>3, <2>4, ServerMoves
<1>3. CASE Shutdown
  <2>1. UNCHANGED <<behind, stopping, client, conn, left>> /\ down' = TRUE
    BY <1>3 DEF Shutdown, behind, uiVars, grantVars, serverVars
  <2>2. ConnInv'
    BY <1>1, <2>1 DEF ConnInv, behind
  <2>3. /\ stopping' \in BOOLEAN /\ left' \in SUBSET Req /\ client' \in [Req -> {"out", "waiting", "told", "gone"}]
        /\ conn' \in [Req -> {"none", "backlog", "open", "closed"}]
    BY <1>1, <2>1 DEF TypeOK
  <2> QED
    BY <2>1, <2>2, <2>3, ServerMoves
<1>4. ASSUME NEW r \in Req, Send(r) \/ Leave(r) \/ Watch(r) PROVE IInv'
  <2>1. UNCHANGED <<behind, stopping, down>>
    BY <1>4 DEF Send, Leave, Watch, behind, uiVars, grantVars
  <2>2. /\ left' \in SUBSET Req /\ client' \in [Req -> {"out", "waiting", "told", "gone"}]
        /\ conn' \in [Req -> {"none", "backlog", "open", "closed"}]
    BY <1>1, <1>4 DEF TypeOK, Send, Leave, Watch
  <2>3. ConnInv'
    BY <1>1, <1>4, <2>1 DEF ConnInv, TypeOK, Send, Leave, Watch, behind
  <2>4. stopping' \in BOOLEAN /\ down' \in BOOLEAN
    BY <1>1, <2>1 DEF TypeOK
  <2> QED
    BY <2>1, <2>2, <2>3, <2>4, ServerMoves
<1> QED
  BY <1>2, <1>3, <1>4

\* The handler of a request goes on without its tables or an answer.
LEMMA StepMoves ==
  ASSUME IInv, NEW r \in Req, NEW h \in HandlerState, handler' = [handler EXCEPT ![r] = h],
         UNCHANGED <<stopping, down, left, reply, sent, consent, status, items, refused>>,
         queue' \in Seq(Req), shown' \in [Session -> Command \cup {NoCommand}],
         mfaOpen' \subseteq Challenges,
         \/ UNCHANGED pending
         \/ \E x \in Req \cup {NoReq} : (x = NoReq \/ x = r) /\ pending' = [pending EXCEPT ![IdOf(r)] = x],
         client' \in [Req -> {"out", "waiting", "told", "gone"}],
         conn' \in [Req -> {"none", "backlog", "open", "closed"}],
         ConnInv',
         Shape(r, h),
         KindOf[r] # "mfa" /\ Alone(r) /\ (h.verdict = "yes" \/ h.pc \in Saving)
           => <<IdOf(r), h.carried>> \in consent,
         KindOf[r] = "grant" => Written(r, h, status[SessionOf[r]], items[SessionOf[r]], SessionOf[r] \in refused)
                                \/ ~Alone(r),
         KindOf[r] = "grant" => Settled(r, h, status[SessionOf[r]], items[SessionOf[r]], SessionOf[r] \in refused)
                                \/ ~Sole(r)
  PROVE  IInv'
<1>1. handler' \in [Req -> HandlerState] /\ TableInv'
  BY HandlerMoves
<1>2. pending' \in [ID -> Req \cup {NoReq}] /\ AskInv'
  BY AnswersSame
<1>3. TypeOK'
  BY <1>1, <1>2 DEF IInv, TypeOK, Challenges
<1> QED
  BY <1>1, <1>2, <1>3 DEF IInv

-----------------------------------------------------------------------------
(* The handlers' steps *)

\* What is known of the handler of one request.
LEMMA Known ==
  ASSUME IInv, NEW r \in Req
  PROVE  /\ handler[r] \in HandlerState /\ Shape(r, handler[r])
         /\ KindOf[r] # "mfa" /\ Alone(r) /\ (handler[r].verdict = "yes" \/ handler[r].pc \in Saving)
              => <<IdOf(r), handler[r].carried>> \in consent
         /\ KindOf[r] = "grant" =>
              Written(r, handler[r], status[SessionOf[r]], items[SessionOf[r]], SessionOf[r] \in refused)
              \/ ~Alone(r)
         /\ KindOf[r] = "grant" =>
              Settled(r, handler[r], status[SessionOf[r]], items[SessionOf[r]], SessionOf[r] \in refused)
              \/ ~Sole(r)
BY DEF IInv, TypeOK, TableInv, ShapeInv, VerdictInv, GrantInv, SoleInv

\* acceptLoop.
LEMMA AcceptKeeps ==
  ASSUME IInv, NEW r \in Req, Accept(r)
  PROVE  IInv'
<1>1. TypeOK /\ ConnInv /\ mfaOpen \subseteq Challenges
  BY DEF IInv, AskInv
<1>2. handler[r].pc = "none" /\ conn[r] = "backlog"
  BY <1>1 DEF Accept, ConnInv
<1>3. UNCHANGED <<stopping, down, client, left, pending, reply, queue, shown, mfaOpen, sent, consent, status, items, refused>>
  BY DEF Accept, uiVars, grantVars
<1>4. client[r] # "out"
  BY <1>1, <1>2 DEF ConnInv
<1>5. CASE stopping
  <2>1. conn' = [conn EXCEPT ![r] = "closed"] /\ UNCHANGED handler
    BY <1>5 DEF Accept
  <2>2. ConnInv'
    BY <1>1, <1>3, <1>4, <2>1 DEF ConnInv, TypeOK
  <2>3. conn' \in [Req -> {"none", "backlog", "open", "closed"}]
    BY <1>1, <2>1 DEF TypeOK
  <2>4. /\ stopping' \in BOOLEAN /\ down' \in BOOLEAN /\ left' \in SUBSET Req
        /\ client' \in [Req -> {"out", "waiting", "told", "gone"}] /\ UNCHANGED behind
    BY <1>1, <1>3, <2>1 DEF TypeOK, behind
  <2> QED
    BY <2>2, <2>3, <2>4, ServerMoves
<1>6. CASE ~stopping
  <2>1. conn' = [conn EXCEPT ![r] = "open"] /\ Goto(r, "start")
    BY <1>6 DEF Accept
  <2>2. PICK h \in HandlerState :
          /\ h.pc = "start" /\ h.verdict = handler[r].verdict /\ h.carried = handler[r].carried
          /\ handler' = [handler EXCEPT ![r] = h]
    BY <1>1, <2>1, GotoIs DEF HandlerPC
  <2>3. ConnInv'
    BY <1>1, <1>3, <1>4, <2>1, <2>2 DEF ConnInv, TypeOK
  <2>4. Shape(r, h) /\ h.verdict = "none" /\ h.pc \notin Saving
    BY <1>2, <2>2, Known DEF Shape, Asking, Saving, Answered
  <2>5. KindOf[r] = "grant" => Written(r, h, status[SessionOf[r]], items[SessionOf[r]], SessionOf[r] \in refused)
    BY <2>2, <2>4 DEF Written
  <2>6. KindOf[r] = "grant" =>
          Settled(r, h, status[SessionOf[r]], items[SessionOf[r]], SessionOf[r] \in refused) \/ ~Sole(r)
    BY <1>2, <2>2, <2>4, Known DEF Settled, Asking
  <2>7. /\ queue' \in Seq(Req) /\ shown' \in [Session -> Command \cup {NoCommand}]
        /\ mfaOpen' \subseteq Challenges /\ client' \in [Req -> {"out", "waiting", "told", "gone"}]
        /\ conn' \in [Req -> {"none", "backlog", "open", "closed"}]
    BY <1>1, <1>3, <2>1 DEF TypeOK
  <2> QED
    BY <1>3, <2>2, <2>3, <2>4, <2>5, <2>6, <2>7, StepMoves
<1> QED
  BY <1>5, <1>6

\* handleConn and handleRequest.
LEMMA DispatchKeeps ==
  ASSUME IInv, NEW r \in Req, Dispatch(r)
  PROVE  IInv'
<1>1. TypeOK /\ ConnInv /\ mfaOpen \subseteq Challenges
  BY DEF IInv, AskInv
<1>2. handler[r].pc = "start"
  BY DEF Dispatch, At
<1>3. UNCHANGED <<stopping, client, conn, left, down, pending, reply, queue, shown, mfaOpen, sent, consent, status, items, refused>>
  BY DEF Dispatch, serverVars, uiVars, grantVars
<1>4. PICK h \in HandlerState :
        /\ \/ h.pc = "encode" /\ h.verdict = "no"
           \/ h.pc \in {"session", "register"} /\ h.verdict = handler[r].verdict /\ (h.pc = "session" <=> KindOf[r] = "grant")
        /\ h.carried = handler[r].carried
        /\ handler' = [handler EXCEPT ![r] = h]
  <2>1. CASE r \notin Authentic
    BY <1>1, <2>1, AnswerIs DEF Dispatch
  <2>2. CASE r \in Authentic /\ KindOf[r] = "grant"
    BY <1>1, <2>2, GotoIs DEF Dispatch, HandlerPC
  <2>3. CASE r \in Authentic /\ KindOf[r] # "grant"
    BY <1>1, <2>3, GotoIs DEF Dispatch, HandlerPC
  <2> QED
    BY <2>1, <2>2, <2>3
<1>5. ConnInv'
  BY <1>2, <1>3, <1>4, ConnSame
<1>6. Shape(r, h) /\ h.verdict # "yes" /\ h.pc \notin Saving
  BY <1>2, <1>4, Known DEF Shape, Asking, Saving, Answered
<1>7. KindOf[r] = "grant" => Written(r, h, status[SessionOf[r]], items[SessionOf[r]], SessionOf[r] \in refused)
  BY <1>4, <1>6 DEF Written
<1>8. KindOf[r] = "grant" =>
        Settled(r, h, status[SessionOf[r]], items[SessionOf[r]], SessionOf[r] \in refused) \/ ~Sole(r)
  BY <1>2, <1>4, <1>6, Known DEF Settled, Asking, Shape
<1>9. /\ queue' \in Seq(Req) /\ shown' \in [Session -> Command \cup {NoCommand}]
      /\ mfaOpen' \subseteq Challenges /\ client' \in [Req -> {"out", "waiting", "told", "gone"}]
      /\ conn' \in [Req -> {"none", "backlog", "open", "closed"}]
  BY <1>1, <1>3 DEF TypeOK
<1> QED
  BY <1>3, <1>4, <1>5, <1>6, <1>7, <1>8, <1>9, StepMoves

\* The response is encoded.
LEMMA EncodeKeeps ==
  ASSUME IInv, NEW r \in Req, Encode(r)
  PROVE  IInv'
<1>1. TypeOK /\ ConnInv /\ mfaOpen \subseteq Challenges
  BY DEF IInv, AskInv
<1>2. handler[r].pc = "encode"
  BY DEF Encode, At
<1>3. UNCHANGED <<stopping, left, down, pending, reply, queue, shown, mfaOpen, sent, consent, status, items, refused>>
  BY DEF Encode, uiVars, grantVars
<1>4. PICK h \in HandlerState :
        /\ h.pc = "done" /\ h.verdict = handler[r].verdict /\ h.carried = handler[r].carried
        /\ handler' = [handler EXCEPT ![r] = h]
  BY <1>1, GotoIs DEF Encode, HandlerPC
<1>5. client[r] # "out"
  BY <1>1, <1>2 DEF ConnInv
<1>6. client' \in [Req -> {"out", "waiting", "told", "gone"}] /\ client'[r] # "out"
      /\ \A q \in Req \ {r} : client'[q] = client[q]
  BY <1>1, <1>5 DEF Encode, TypeOK
<1>7. conn' \in [Req -> {"none", "backlog", "open", "closed"}] /\ conn'[r] = "closed"
      /\ \A q \in Req \ {r} : conn'[q] = conn[q]
  BY <1>1 DEF Encode, TypeOK
<1>8. \A q \in Req \ {r} : handler'[q] = handler[q]
  BY <1>1, <1>4 DEF TypeOK
<1>9. ConnInv'
  BY <1>1, <1>6, <1>7, <1>8 DEF ConnInv
<1>10. Shape(r, h) /\ h.pc \notin Saving
  BY <1>2, <1>4, Known DEF Shape, Asking, Saving, Answered
<1>11. KindOf[r] = "grant" => Written(r, h, status[SessionOf[r]], items[SessionOf[r]], SessionOf[r] \in refused) \/ ~Alone(r)
  BY <1>2, <1>4, Known DEF Written
<1>12. KindOf[r] = "grant" =>
        Settled(r, h, status[SessionOf[r]], items[SessionOf[r]], SessionOf[r] \in refused) \/ ~Sole(r)
  BY <1>2, <1>4, Known DEF Settled, Asking
<1>13. KindOf[r] # "mfa" /\ Alone(r) /\ (h.verdict = "yes" \/ h.pc \in Saving)
           => <<IdOf(r), h.carried>> \in consent
  BY <1>4, <1>10, Known
<1>14. queue' \in Seq(Req) /\ shown' \in [Session -> Command \cup {NoCommand}] /\ mfaOpen' \subseteq Challenges
  BY <1>1, <1>3 DEF TypeOK
<1> QED
  BY <1>3, <1>4, <1>6, <1>7, <1>9, <1>10, <1>11, <1>12, <1>13, <1>14, StepMoves

\* The approval is stored.
LEMMA RegisterKeeps ==
  ASSUME IInv, NEW r \in Req, Register(r)
  PROVE  IInv'
<1>1. TypeOK /\ ConnInv /\ mfaOpen \subseteq Challenges
  BY DEF IInv, AskInv
<1>2. handler[r].pc = "register"
  BY DEF Register, At
<1>3. UNCHANGED <<stopping, client, conn, left, down, reply, queue, shown, mfaOpen, sent, consent, status, items, refused>>
      /\ pending' = [pending EXCEPT ![IdOf(r)] = r]
  BY DEF Register, serverVars, uiVars, grantVars
<1>4. PICK h \in HandlerState :
        /\ h.pc = "emit" /\ h.verdict = handler[r].verdict /\ h.carried = handler[r].carried
        /\ handler' = [handler EXCEPT ![r] = h]
  BY <1>1, GotoIs DEF Register, HandlerPC
<1>5. ConnInv'
  BY <1>2, <1>3, <1>4, ConnSame
<1>6. Shape(r, h) /\ h.verdict = "none" /\ h.pc \notin Saving
  BY <1>2, <1>4, Known DEF Shape, Asking, Saving, Answered
<1>7. KindOf[r] = "grant" => Written(r, h, status[SessionOf[r]], items[SessionOf[r]], SessionOf[r] \in refused) \/ ~Alone(r)
  BY <1>2, <1>4, <1>6, Known DEF Written
<1>8. KindOf[r] = "grant" =>
        Settled(r, h, status[SessionOf[r]], items[SessionOf[r]], SessionOf[r] \in refused) \/ ~Sole(r)
  BY <1>2, <1>4, <1>6, Known DEF Settled, Asking
<1>9. /\ queue' \in Seq(Req) /\ shown' \in [Session -> Command \cup {NoCommand}]
      /\ mfaOpen' \subseteq Challenges /\ client' \in [Req -> {"out", "waiting", "told", "gone"}]
      /\ conn' \in [Req -> {"none", "backlog", "open", "closed"}]
  BY <1>1, <1>3 DEF TypeOK
<1> QED
  BY <1>3, <1>4, <1>5, <1>6, <1>7, <1>8, <1>9, StepMoves

\* The event reaches the frontend.
LEMMA EmitKeeps ==
  ASSUME IInv, NEW r \in Req, Emit(r)
  PROVE  IInv'
<1>1. TypeOK /\ ConnInv /\ mfaOpen \subseteq Challenges
  BY DEF IInv, AskInv
<1>2. handler[r].pc = "emit"
  BY DEF Emit, At
<1>3. UNCHANGED <<stopping, client, conn, left, down, pending, reply, sent, consent, status, items, refused>>
  BY DEF Emit, serverVars, grantVars
<1>4. PICK h \in HandlerState :
        /\ h.pc = "wait" /\ h.verdict = handler[r].verdict /\ h.carried = handler[r].carried
        /\ handler' = [handler EXCEPT ![r] = h]
  BY <1>1, GotoIs DEF Emit, HandlerPC
<1>5. ConnInv'
  BY <1>2, <1>3, <1>4, ConnSame
<1>6. Shape(r, h) /\ h.verdict = "none" /\ h.pc \notin Saving
  BY <1>2, <1>4, Known DEF Shape, Asking, Saving, Answered
<1>7. KindOf[r] = "grant" => Written(r, h, status[SessionOf[r]], items[SessionOf[r]], SessionOf[r] \in refused) \/ ~Alone(r)
  BY <1>2, <1>4, <1>6, Known DEF Written
<1>8. KindOf[r] = "grant" =>
        Settled(r, h, status[SessionOf[r]], items[SessionOf[r]], SessionOf[r] \in refused) \/ ~Sole(r)
  BY <1>2, <1>4, <1>6, Known DEF Settled, Asking
<1>9. queue' \in Seq(Req)
  <2>1. queue \in Seq(Req)
    BY <1>1 DEF TypeOK
  <2>2. queue' = queue \/ queue' = Append(queue, r)
    BY DEF Emit
  <2> QED
    BY <2>1, <2>2
<1>10. shown' \in [Session -> Command \cup {NoCommand}]
  BY <1>1, ApprovalConstants DEF TypeOK, Emit
<1>11. mfaOpen' \subseteq Challenges
  BY <1>1 DEF Emit, Challenges
<1>12. /\ client' \in [Req -> {"out", "waiting", "told", "gone"}]
       /\ conn' \in [Req -> {"none", "backlog", "open", "closed"}]
  BY <1>1, <1>3 DEF TypeOK
<1> QED
  BY <1>3, <1>4, <1>5, <1>6, <1>7, <1>8, <1>9, <1>10, <1>11, <1>12, StepMoves

\* A handler goes on; its approval may be removed and its dialog closed.
LEMMA Proceeds ==
  ASSUME IInv, NEW r \in Req, handler[r].pc # "none",
         NEW h \in HandlerState, handler' = [handler EXCEPT ![r] = h],
         UNCHANGED <<stopping, client, conn, left, down, reply, queue, shown, sent, consent, status, items, refused>>,
         mfaOpen' \subseteq mfaOpen, pending' = pending \/ pending' = Unpended(r),
         Shape(r, h),
         KindOf[r] # "mfa" /\ Alone(r) /\ (h.verdict = "yes" \/ h.pc \in Saving)
           => <<IdOf(r), h.carried>> \in consent,
         KindOf[r] = "grant" => Written(r, h, status[SessionOf[r]], items[SessionOf[r]], SessionOf[r] \in refused)
                                \/ ~Alone(r),
         KindOf[r] = "grant" => Settled(r, h, status[SessionOf[r]], items[SessionOf[r]], SessionOf[r] \in refused)
                                \/ ~Sole(r)
  PROVE  IInv'
<1>1. TypeOK /\ mfaOpen \subseteq Challenges
  BY DEF IInv, AskInv
<1>2. ConnInv'
  BY ConnSame
<1>3. \/ UNCHANGED pending
      \/ \E x \in Req \cup {NoReq} : (x = NoReq \/ x = r) /\ pending' = [pending EXCEPT ![IdOf(r)] = x]
  BY DEF Unpended
<1>4. /\ queue' \in Seq(Req) /\ shown' \in [Session -> Command \cup {NoCommand}]
      /\ mfaOpen' \subseteq Challenges /\ client' \in [Req -> {"out", "waiting", "told", "gone"}]
      /\ conn' \in [Req -> {"none", "backlog", "open", "closed"}]
  BY <1>1 DEF TypeOK
<1> QED
  BY <1>2, <1>3, <1>4, StepMoves

\* A command's answer is taken.
LEMMA TakeKeeps ==
  ASSUME IInv, NEW r \in Req, Take(r)
  PROVE  IInv'
<1>1. TypeOK /\ ReplyInv /\ handler \in [Req -> HandlerState]
  BY DEF IInv, AskInv, TypeOK
<1>2. handler[r].pc = "wait" /\ KindOf[r] \in {"single", "once", "batch"} /\ pending' = Unpended(r)
      /\ UNCHANGED <<stopping, client, conn, left, down, reply, queue, shown, mfaOpen, sent, consent, status, items, refused>>
  BY DEF Take, At, serverVars, uiVars, grantVars
<1>3. Alone(r) /\ Backed(r, reply[r], consent)
  BY <1>1, <1>2, OthersAlone DEF ReplyInv
<1>4. handler[r] \in HandlerState /\ handler[r].carried = CommandOf[r] /\ handler[r].verdict = "none"
  BY <1>2, Known DEF Shape, Asking
<1>5. Text(r, reply[r]) = Chosen(r) /\ Chosen(r) \in Command
  BY <1>1, ApprovalConstants DEF Text, Chosen, TypeOK, Response
<1>6. PICK h \in HandlerState :
        /\ handler' = [handler EXCEPT ![r] = h]
        /\ \/ h.pc = "encode" /\ h.verdict = "no"
           \/ h.pc = "encode" /\ h.verdict = "yes" /\ <<IdOf(r), h.carried>> \in consent
           \/ /\ h.pc = "saveSession" /\ h.verdict = "none" /\ <<IdOf(r), h.carried>> \in consent
              /\ KindOf[r] = "single" /\ SessionOf[r] \in Session
  <2>1. CASE reply[r].decision = "allow"
    <3>1. PICK h \in HandlerState :
            /\ h.pc = "encode" /\ h.verdict = "yes" /\ h.carried = handler[r].carried
            /\ handler' = [handler EXCEPT ![r] = h]
      BY <1>1, <2>1, AnswerIs DEF Take
    <3>2. <<IdOf(r), CommandOf[r]>> \in consent
      BY <1>2, <1>3, <2>1 DEF Backed, Text
    <3> QED
      BY <1>4, <3>1, <3>2
  <2>2. CASE reply[r].decision # "allow" /\ (reply[r].decision # "allowAll" \/ SessionOf[r] = NoSession)
    <3>1. Answer(r, "no")
      BY <2>2 DEF Take
    <3>2. PICK h \in HandlerState :
            /\ h.pc = "encode" /\ h.verdict = "no" /\ h.carried = handler[r].carried
            /\ handler' = [handler EXCEPT ![r] = h]
      BY <1>1, <3>1, AnswerIs
    <3> QED
      BY <3>2
  <2>3. CASE reply[r].decision = "allowAll" /\ SessionOf[r] # NoSession
    <3>1. handler' = [handler EXCEPT
            ![r].pc = IF Grants[Chosen(r)] = {} THEN "encode" ELSE "saveSession",
            ![r].verdict = IF Grants[Chosen(r)] = {} THEN "yes" ELSE @,
            ![r].carried = Chosen(r)]
      BY <2>3 DEF Take
    <3>2. <<IdOf(r), Chosen(r)>> \in consent
      BY <1>3, <1>5, <2>3 DEF Backed
    <3>3. PICK h : h = [handler[r] EXCEPT !.pc = IF Grants[Chosen(r)] = {} THEN "encode" ELSE "saveSession",
                                          !.verdict = IF Grants[Chosen(r)] = {} THEN "yes" ELSE handler[r].verdict,
                                          !.carried = Chosen(r)]
      OBVIOUS
    <3>4. handler' = [handler EXCEPT ![r] = h]
      BY <1>1, <3>1, <3>3
    <3>5. /\ h \in HandlerState /\ h.carried = Chosen(r)
          /\ \/ h.pc = "encode" /\ h.verdict = "yes"
             \/ h.pc = "saveSession" /\ h.verdict = "none"
      BY <1>4, <1>5, <3>3 DEF HandlerState, HandlerPC
    <3>6. SessionOf[r] \in Session
      BY <2>3, ApprovalConstants
    <3>7. h.pc = "saveSession" => KindOf[r] = "single"
      BY <1>2, <1>3, <2>3 DEF Backed
    <3> QED
      BY <3>2, <3>4, <3>5, <3>6, <3>7
  <2> QED
    BY <2>1, <2>2, <2>3
<1>7. Shape(r, h)
  BY <1>2, <1>6 DEF Shape, Asking, Saving, Answered
<1>8. KindOf[r] # "mfa" /\ Alone(r) /\ (h.verdict = "yes" \/ h.pc \in Saving)
           => <<IdOf(r), h.carried>> \in consent
  BY <1>6 DEF Saving
<1> QED
  BY <1>2, <1>6, <1>7, <1>8, Proceeds

\* A grant request's answer is taken, or none is waited for at shutdown.
LEMMA TakeGrantKeeps ==
  ASSUME IInv, NEW r \in Req, KindOf[r] = "grant", TakeGrant(r) \/ TakeShutdown(r)
  PROVE  IInv'
<1>1. TypeOK /\ ReplyInv /\ handler \in [Req -> HandlerState]
  BY DEF IInv, AskInv, TypeOK
<1>2. handler[r].pc = "wait"
      /\ UNCHANGED <<stopping, client, conn, left, down, pending, reply, queue, shown, mfaOpen, sent, consent, status, items, refused>>
  BY DEF TakeGrant, TakeShutdown, At, serverVars, uiVars, grantVars
<1>3. handler[r] \in HandlerState /\ handler[r].carried = CommandOf[r] /\ handler[r].verdict = "none"
  BY <1>2, Known DEF Shape, Asking
<1>4. Text(r, reply[r]) = Chosen(r) /\ Chosen(r) \in Command
  BY <1>1, ApprovalConstants DEF Text, Chosen, TypeOK, Response
<1>5. PICK h \in HandlerState :
        /\ handler' = [handler EXCEPT ![r] = h] /\ h.pc = "status"
        /\ \/ h.verdict = "no"
           \/ h.verdict = "yes" /\ (Alone(r) => <<IdOf(r), h.carried>> \in consent)
  <2>1. CASE TakeGrant(r)
    <3>1. PICK ok \in BOOLEAN : ok = (reply[r].decision = "allow")
      OBVIOUS
    <3>2. PICK h : h = [handler[r] EXCEPT !.pc = "status", !.verdict = IF ok THEN "yes" ELSE "no",
                                          !.carried = IF ok THEN Chosen(r) ELSE handler[r].carried]
      OBVIOUS
    <3>3. handler' = [handler EXCEPT ![r] = h]
      BY <1>1, <2>1, <3>1, <3>2 DEF TakeGrant
    <3>4. h \in HandlerState /\ h.pc = "status"
          /\ (h.verdict = "no" \/ (h.verdict = "yes" /\ ok /\ h.carried = Chosen(r)))
      BY <1>3, <1>4, <3>2 DEF HandlerState, HandlerPC
    <3>5. ok /\ Alone(r) => <<IdOf(r), Chosen(r)>> \in consent
      BY <1>1, <1>4, <3>1 DEF ReplyInv, Backed
    <3> QED
      BY <3>3, <3>4, <3>5
  <2>2. CASE TakeShutdown(r)
    <3>1. PICK h : h = [handler[r] EXCEPT !.pc = "status", !.verdict = "no"]
      OBVIOUS
    <3>2. handler' = [handler EXCEPT ![r] = h]
      BY <1>1, <2>2, <3>1 DEF TakeShutdown
    <3>3. h \in HandlerState /\ h.pc = "status" /\ h.verdict = "no"
      BY <1>3, <3>1 DEF HandlerState, HandlerPC
    <3> QED
      BY <3>2, <3>3
  <2> QED
    BY <2>1, <2>2
<1>6. Shape(r, h)
  BY <1>5 DEF Shape, Asking, Saving, Answered
<1>7. Written(r, h, status[SessionOf[r]], items[SessionOf[r]], SessionOf[r] \in refused) \/ ~Alone(r)
  BY <1>2, <1>5, Known DEF Written
<1>8. Settled(r, h, status[SessionOf[r]], items[SessionOf[r]], SessionOf[r] \in refused) \/ ~Sole(r)
  BY <1>2, <1>3, <1>5, Known DEF Settled, Asking
<1>9. Alone(r) /\ (h.verdict = "yes" \/ h.pc \in Saving) => <<IdOf(r), h.carried>> \in consent
  BY <1>5 DEF Saving
<1> QED
  BY <1>2, <1>5, <1>6, <1>7, <1>8, <1>9, Proceeds

\* The waiting of a command or a challenge ends otherwise.
LEMMA TakeEndKeeps ==
  ASSUME IInv, NEW r \in Req, KindOf[r] # "grant", TakeShutdown(r) \/ TakeMFA(r) \/ TakeGone(r)
  PROVE  IInv'
<1>1. TypeOK /\ handler \in [Req -> HandlerState]
  BY DEF IInv, TypeOK
<1>2. handler[r].pc = "wait" /\ pending' = Unpended(r) /\ mfaOpen' \subseteq mfaOpen
      /\ UNCHANGED <<stopping, client, conn, left, down, reply, queue, shown, sent, consent, status, items, refused>>
  BY DEF TakeShutdown, TakeMFA, TakeGone, At, serverVars, uiVars, grantVars
<1>3. Answer(r, "no") \/ (KindOf[r] = "mfa" /\ Answer(r, "yes"))
  BY DEF TakeShutdown, TakeMFA, TakeGone
<1>4. PICK h \in HandlerState :
        /\ handler' = [handler EXCEPT ![r] = h] /\ h.pc = "encode"
        /\ h.verdict = "yes" => KindOf[r] = "mfa"
  <2>1. CASE Answer(r, "no")
    BY <1>1, <2>1, AnswerIs
  <2>2. CASE KindOf[r] = "mfa" /\ Answer(r, "yes")
    BY <1>1, <2>2, AnswerIs
  <2> QED
    BY <1>3, <2>1, <2>2
<1>5. Shape(r, h) /\ h.pc \notin Saving
  BY <1>4 DEF Shape, Asking, Saving, Answered
<1> QED
  BY <1>2, <1>4, <1>5, Proceeds

\* handleGrantApproval returns.
LEMMA ReturnKeeps ==
  ASSUME IInv, NEW r \in Req, GrantReturn(r)
  PROVE  IInv'
<1>1. TypeOK
  BY DEF IInv
<1>2. handler[r].pc = "return" /\ pending' = Unpended(r)
      /\ UNCHANGED <<stopping, client, conn, left, down, reply, queue, shown, mfaOpen, sent, consent, status, items, refused>>
  BY DEF GrantReturn, At, serverVars, uiVars, grantVars
<1>3. PICK h \in HandlerState :
        /\ h.pc = "encode" /\ h.verdict = handler[r].verdict /\ h.carried = handler[r].carried
        /\ handler' = [handler EXCEPT ![r] = h]
  BY <1>1, GotoIs DEF GrantReturn, HandlerPC
<1>4. Shape(r, h) /\ h.pc \notin Saving /\ KindOf[r] = "grant"
  BY <1>2, <1>3, Known DEF Shape, Asking, Saving, Answered
<1>5. Written(r, h, status[SessionOf[r]], items[SessionOf[r]], SessionOf[r] \in refused) \/ ~Alone(r)
  BY <1>2, <1>3, <1>4, Known DEF Written
<1>6. Settled(r, h, status[SessionOf[r]], items[SessionOf[r]], SessionOf[r] \in refused) \/ ~Sole(r)
  BY <1>2, <1>3, <1>4, Known DEF Settled, Asking
<1>7. Alone(r) /\ (h.verdict = "yes" \/ h.pc \in Saving) => <<IdOf(r), h.carried>> \in consent
  BY <1>3, <1>4, Known
<1> QED
  BY <1>2, <1>3, <1>4, <1>5, <1>6, <1>7, Proceeds

-----------------------------------------------------------------------------
(* The statements *)

\* A handler goes on and writes the tables of its session.
LEMMA Writes ==
  ASSUME IInv, NEW r \in Req, handler[r].pc # "none", KindOf[r] \in {"grant", "single"},
         UNCHANGED <<stopping, client, conn, left, down, pending, reply, queue, shown, mfaOpen, sent, consent>>,
         NEW s \in Session, s = SessionOf[r],
         NEW h \in HandlerState, handler' = [handler EXCEPT ![r] = h],
         NEW x, x \in {"none", "pending", "approved", "rejected"}, status' = [status EXCEPT ![s] = x],
         NEW y, y \subseteq Command, items' = [items EXCEPT ![s] = y],
         refused' = refused \/ refused' = refused \cup {s},
         Shape(r, h),
         Alone(r) /\ (h.verdict = "yes" \/ h.pc \in Saving) => <<IdOf(r), h.carried>> \in consent,
         KindOf[r] = "grant" => Written(r, h, x, y, s \in refused') \/ ~Alone(r),
         KindOf[r] = "grant" => Settled(r, h, x, y, s \in refused') \/ ~Sole(r),
         KindOf[r] = "single" => (status[s] = "approved" => x = "approved") /\ items[s] \subseteq y,
         KindOf[r] = "single" => \A p \in y : p \in items[s] \/ Consented(s, p)
  PROVE  IInv'
<1>1. TypeOK /\ mfaOpen \subseteq Challenges
  BY DEF IInv, AskInv
<1>2. /\ handler' \in [Req -> HandlerState]
      /\ status' \in [Session -> {"none", "pending", "approved", "rejected"}]
      /\ items' \in [Session -> SUBSET Command]
      /\ refused' \in SUBSET Session
      /\ TableInv'
  BY TablesMove
<1>3. ConnInv'
  BY ConnSame
<1>4. AskInv'
  BY <1>1, AnswersSame
<1>5. TypeOK'
  BY <1>1, <1>2 DEF TypeOK
<1> QED
  BY <1>2, <1>3, <1>4, <1>5 DEF IInv

\* What the steps with a statement have in common.
LEMMA AtStatement ==
  ASSUME IInv, NEW r \in Req, handler[r].pc \in {"session", "items", "status", "edit", "recreate"} \cup Saving
  PROVE  /\ handler[r].pc \in Saving <=> KindOf[r] = "single"
         /\ handler[r].pc \in {"session", "items", "status", "edit", "recreate"} <=> KindOf[r] = "grant"
         /\ SessionOf[r] \in Session /\ handler[r].carried \in Command
         /\ status \in [Session -> {"none", "pending", "approved", "rejected"}]
         /\ items \in [Session -> SUBSET Command]
         /\ Alone(r) /\ (handler[r].verdict = "yes" \/ handler[r].pc \in Saving)
              => <<IdOf(r), handler[r].carried>> \in consent
<1>1. Shape(r, handler[r]) /\ handler[r] \in HandlerState
  BY Known
<1>2. /\ handler[r].pc \in Saving <=> KindOf[r] = "single"
      /\ handler[r].pc \in {"session", "items", "status", "edit", "recreate"} <=> KindOf[r] = "grant"
      /\ SessionOf[r] \in Session
  BY <1>1, ApprovalConstants DEF Shape, Saving, Answered
<1>3. handler[r].carried \in Command
  BY <1>1 DEF HandlerState
<1>4. Alone(r) /\ (handler[r].verdict = "yes" \/ handler[r].pc \in Saving)
        => <<IdOf(r), handler[r].carried>> \in consent
  BY <1>2, Known
<1> QED
  BY <1>2, <1>3, <1>4 DEF IInv, TypeOK

\* The statements of an "always allow".
LEMMA SaveKeeps ==
  ASSUME IInv, NEW r \in Req, SaveSession(r) \/ SaveItem(r)
  PROVE  IInv'
<1>1. TypeOK
  BY DEF IInv
<1>2. handler[r].pc \in Saving
      /\ UNCHANGED <<stopping, client, conn, left, down, pending, reply, queue, shown, mfaOpen, sent, consent, refused>>
  BY DEF SaveSession, SaveItem, At, serverVars, uiVars, Saving
<1>3. /\ KindOf[r] = "single" /\ SessionOf[r] \in Session /\ handler[r].carried \in Command
      /\ status \in [Session -> {"none", "pending", "approved", "rejected"}]
      /\ items \in [Session -> SUBSET Command]
      /\ <<IdOf(r), handler[r].carried>> \in consent
  BY <1>2, AtStatement, OthersAlone
<1>4. PICK s \in Session : s = SessionOf[r]
  BY <1>3
<1>5. CASE SaveSession(r)
  <2>1. PICK h \in HandlerState :
          /\ h.pc = "saveItem" /\ h.verdict = handler[r].verdict /\ h.carried = handler[r].carried
          /\ handler' = [handler EXCEPT ![r] = h]
    BY <1>1, <1>5, GotoIs DEF SaveSession, HandlerPC
  <2>2. PICK x : x = IF status[s] = "none" THEN "approved" ELSE status[s]
    OBVIOUS
  <2>3. PICK y : y = items[s]
    OBVIOUS
  <2>4. status' = [status EXCEPT ![s] = x] /\ items' = [items EXCEPT ![s] = y]
        /\ x \in {"none", "pending", "approved", "rejected"} /\ y \subseteq Command
        /\ (status[s] = "approved" => x = "approved") /\ items[s] \subseteq y
        /\ \A p \in y : p \in items[s]
    BY <1>3, <1>4, <1>5, <2>2, <2>3 DEF SaveSession
  <2>5. Shape(r, h)
    BY <1>2, <1>3, <1>5, <2>1, Known DEF SaveSession, At, Shape, Asking, Saving, Answered
  <2>6. handler[r].pc # "none"
    BY <1>2 DEF Saving
  <2>7. <<IdOf(r), h.carried>> \in consent
    BY <1>3, <2>1
  <2> QED
    BY <1>2, <1>3, <1>4, <2>1, <2>4, <2>5, <2>6, <2>7, Writes
<1>6. CASE SaveItem(r)
  <2>1. PICK h \in HandlerState :
          /\ h.pc = "encode" /\ h.verdict = "yes" /\ h.carried = handler[r].carried
          /\ handler' = [handler EXCEPT ![r] = h]
    BY <1>1, <1>6, AnswerIs DEF SaveItem
  <2>2. PICK x : x = status[s]
    OBVIOUS
  <2>3. PICK y : y = items[s] \cup Grants[handler[r].carried]
    OBVIOUS
  <2>4. status' = [status EXCEPT ![s] = x] /\ items' = [items EXCEPT ![s] = y]
        /\ x \in {"none", "pending", "approved", "rejected"} /\ y \subseteq Command
        /\ (status[s] = "approved" => x = "approved") /\ items[s] \subseteq y
    BY <1>3, <1>4, <1>6, <2>2, <2>3, ApprovalConstants DEF SaveItem
  <2>5. \A p \in y : p \in items[s] \/ Consented(s, p)
    BY <1>3, <1>4, <2>3, OthersAlone DEF Consented
  <2>6. Shape(r, h)
    BY <1>3, <2>1 DEF Shape, Asking, Saving, Answered
  <2>7. handler[r].pc # "none"
    BY <1>2 DEF Saving
  <2>8. <<IdOf(r), h.carried>> \in consent
    BY <1>3, <2>1
  <2> QED
    BY <1>2, <1>3, <1>4, <2>1, <2>4, <2>5, <2>6, <2>7, <2>8, Writes
<1> QED
  BY <1>5, <1>6

\* What a grant request's handler has found and may leave.
Stands(r, h, st, its, ref) ==
  (Written(r, h, st, its, ref) \/ ~Alone(r)) /\ (Settled(r, h, st, its, ref) \/ ~Sole(r))

\* The statements before the user is asked about a grant.
LEMMA GrantAskKeeps ==
  ASSUME IInv, NEW r \in Req, GrantSession(r) \/ GrantItems(r)
  PROVE  IInv'
<1>1. TypeOK
  BY DEF IInv
<1>2. handler[r].pc \in {"session", "items"}
      /\ UNCHANGED <<stopping, client, conn, left, down, pending, reply, queue, shown, mfaOpen, sent, consent, refused>>
  BY DEF GrantSession, GrantItems, At, serverVars, uiVars
<1>3. /\ KindOf[r] = "grant" /\ SessionOf[r] \in Session
      /\ status \in [Session -> {"none", "pending", "approved", "rejected"}]
      /\ items \in [Session -> SUBSET Command]
  BY <1>2, AtStatement
<1>4. PICK s \in Session : s = SessionOf[r]
  BY <1>3
<1>5. /\ handler[r].verdict = "none" /\ Stands(r, handler[r], status[s], items[s], s \in refused)
      /\ Shape(r, handler[r])
  BY <1>2, <1>3, <1>4, Known DEF Shape, Asking, Stands
<1>6. PICK h \in HandlerState :
        /\ h.pc = IF GrantSession(r) THEN "items" ELSE "register"
        /\ h.verdict = handler[r].verdict /\ h.carried = handler[r].carried
        /\ handler' = [handler EXCEPT ![r] = h]
  <2>1. CASE GrantSession(r)
    BY <1>1, <2>1, GotoIs DEF GrantSession, HandlerPC
  <2>2. CASE ~GrantSession(r)
    BY <1>1, <2>2, GotoIs DEF GrantItems, HandlerPC
  <2> QED
    BY <2>1, <2>2
<1>7. PICK x : x = IF GrantSession(r) /\ status[s] = "none" THEN "pending" ELSE status[s]
  OBVIOUS
<1>8. PICK y : y = IF GrantSession(r) THEN items[s] ELSE items[s] \cup {CommandOf[r]}
  OBVIOUS
<1>9. ~(GrantSession(r) /\ GrantItems(r))
  BY DEF GrantSession, GrantItems, At
<1>10. status' = [status EXCEPT ![s] = x] /\ items' = [items EXCEPT ![s] = y]
  <2>1. CASE GrantSession(r)
    BY <1>3, <1>4, <1>7, <1>8, <2>1 DEF GrantSession
  <2>2. CASE GrantItems(r)
    BY <1>3, <1>4, <1>7, <1>8, <1>9, <2>2 DEF GrantItems
  <2> QED
    BY <2>1, <2>2
<1>11. x \in {"none", "pending", "approved", "rejected"} /\ y \subseteq Command
  BY <1>3, <1>7, <1>8, ApprovalConstants
<1>12. Shape(r, h) /\ h.verdict = "none" /\ h.pc \notin Saving
  BY <1>2, <1>3, <1>5, <1>6 DEF Shape, Asking, Saving, Answered
<1>13. Written(r, h, x, y, s \in refused') \/ ~Alone(r)
  BY <1>6, <1>8, <1>12 DEF Written
<1>14. Settled(r, h, x, y, s \in refused') \/ ~Sole(r)
  BY <1>2, <1>5, <1>6, <1>7, <1>8, <1>12 DEF Stands, Settled, Asking
<1>15. handler[r].pc # "none" /\ KindOf[r] \in {"grant", "single"} /\ KindOf[r] # "single"
  BY <1>2, <1>3
<1>16. /\ Shape(r, h) /\ handler' = [handler EXCEPT ![r] = h]
       /\ Alone(r) /\ (h.verdict = "yes" \/ h.pc \in Saving) => <<IdOf(r), h.carried>> \in consent
  BY <1>6, <1>12
<1> QED
  BY <1>2, <1>4, <1>10, <1>11, <1>13, <1>14, <1>15, <1>16, Writes

\* The statements that follow the answer to a grant request.
LEMMA GrantDecidedKeeps ==
  ASSUME IInv, NEW r \in Req, GrantStatus(r) \/ GrantEdit(r) \/ GrantRecreate(r)
  PROVE  IInv'
<1>1. TypeOK
  BY DEF IInv
<1>2. handler[r].pc \in {"status", "edit", "recreate"}
      /\ UNCHANGED <<stopping, client, conn, left, down, pending, reply, queue, shown, mfaOpen, sent, consent, refused>>
  BY DEF GrantStatus, GrantEdit, GrantRecreate, At, serverVars, uiVars
<1>3. /\ KindOf[r] = "grant" /\ SessionOf[r] \in Session /\ handler[r].carried \in Command
      /\ status \in [Session -> {"none", "pending", "approved", "rejected"}]
      /\ items \in [Session -> SUBSET Command]
      /\ Alone(r) /\ handler[r].verdict = "yes" => <<IdOf(r), handler[r].carried>> \in consent
  BY <1>2, AtStatement
<1>4. PICK s \in Session : s = SessionOf[r]
  BY <1>3
<1>5. /\ Stands(r, handler[r], status[s], items[s], s \in refused)
      /\ Shape(r, handler[r])
  BY <1>3, <1>4, Known DEF Stands
<1>6. handler[r].pc # "none" /\ KindOf[r] \in {"grant", "single"} /\ KindOf[r] # "single"
  BY <1>2, <1>3
<1>7. CASE GrantStatus(r)
  <2>1. handler[r].pc = "status" /\ AfterStatus(r) \in {"edit", "return"}
        /\ (handler[r].verdict = "yes" => (AfterStatus(r) = "return" <=> handler[r].carried = CommandOf[r]))
        /\ (handler[r].verdict # "yes" => AfterStatus(r) = "return")
    BY <1>7 DEF GrantStatus, At, AfterStatus
  <2>2. PICK h \in HandlerState :
          /\ h.pc = AfterStatus(r) /\ h.verdict = handler[r].verdict /\ h.carried = handler[r].carried
          /\ handler' = [handler EXCEPT ![r] = h]
    BY <1>1, <1>7, <2>1, GotoIs DEF GrantStatus, HandlerPC
  <2>3. PICK x : x = IF h.verdict = "yes" THEN "approved" ELSE "rejected"
    OBVIOUS
  <2>4. PICK y : y = items[s]
    OBVIOUS
  <2>5. status' = [status EXCEPT ![s] = x] /\ items' = [items EXCEPT ![s] = y]
        /\ x \in {"none", "pending", "approved", "rejected"} /\ y \subseteq Command
    BY <1>3, <1>4, <1>7, <2>2, <2>3, <2>4 DEF GrantStatus
  <2>6. Shape(r, h) /\ (Alone(r) /\ (h.verdict = "yes" \/ h.pc \in Saving) => <<IdOf(r), h.carried>> \in consent)
    BY <1>3, <2>1, <2>2 DEF Shape, Asking, Saving, Answered
  <2>7. Written(r, h, x, y, s \in refused') \/ ~Alone(r)
    BY <1>5, <2>1, <2>2, <2>3, <2>4 DEF Stands, Written
  <2>8. Settled(r, h, x, y, s \in refused') \/ ~Sole(r)
    BY <1>5, <2>1, <2>2, <2>3, <2>4 DEF Stands, Settled, Asking
  <2> QED
    BY <1>2, <1>4, <1>6, <2>2, <2>5, <2>6, <2>7, <2>8, Writes
<1>8. CASE GrantEdit(r)
  <2>1. handler[r].pc = "edit"
    BY <1>8 DEF GrantEdit, At
  <2>2. PICK h \in HandlerState :
          /\ h.pc = "recreate" /\ h.verdict = handler[r].verdict /\ h.carried = handler[r].carried
          /\ handler' = [handler EXCEPT ![r] = h]
    BY <1>1, <1>8, GotoIs DEF GrantEdit, HandlerPC
  <2>3. PICK x : x = status[s]
    OBVIOUS
  <2>4. PICK y : y = {}
    OBVIOUS
  <2>5. status' = [status EXCEPT ![s] = x] /\ items' = [items EXCEPT ![s] = y]
        /\ x \in {"none", "pending", "approved", "rejected"} /\ y \subseteq Command
    BY <1>3, <1>4, <1>8, <2>3, <2>4 DEF GrantEdit
  <2>6. Shape(r, h) /\ (Alone(r) /\ (h.verdict = "yes" \/ h.pc \in Saving) => <<IdOf(r), h.carried>> \in consent)
    BY <1>3, <2>2 DEF Shape, Asking, Saving, Answered
  <2>7. Written(r, h, x, y, s \in refused') \/ ~Alone(r)
    BY <1>2, <1>5, <2>1, <2>2, <2>3 DEF Stands, Written
  <2>8. Settled(r, h, x, y, s \in refused') \/ ~Sole(r)
    BY <1>5, <2>1, <2>2, <2>3, <2>4 DEF Stands, Settled, Asking
  <2> QED
    BY <1>2, <1>4, <1>6, <2>2, <2>5, <2>6, <2>7, <2>8, Writes
<1>9. CASE GrantRecreate(r)
  <2>1. handler[r].pc = "recreate"
    BY <1>9 DEF GrantRecreate, At
  <2>2. PICK h \in HandlerState :
          /\ h.pc = "return" /\ h.verdict = handler[r].verdict /\ h.carried = handler[r].carried
          /\ handler' = [handler EXCEPT ![r] = h]
    BY <1>1, <1>9, GotoIs DEF GrantRecreate, HandlerPC
  <2>3. PICK x : x = status[s]
    OBVIOUS
  <2>4. PICK y : y = items[s] \cup {h.carried}
    OBVIOUS
  <2>5. status' = [status EXCEPT ![s] = x] /\ items' = [items EXCEPT ![s] = y]
        /\ x \in {"none", "pending", "approved", "rejected"} /\ y \subseteq Command
    BY <1>3, <1>4, <1>9, <2>2, <2>3, <2>4 DEF GrantRecreate
  <2>6. Shape(r, h) /\ (Alone(r) /\ (h.verdict = "yes" \/ h.pc \in Saving) => <<IdOf(r), h.carried>> \in consent)
    BY <1>3, <2>2 DEF Shape, Asking, Saving, Answered
  <2>7. Written(r, h, x, y, s \in refused') \/ ~Alone(r)
    BY <1>2, <1>5, <2>1, <2>2, <2>3, <2>4 DEF Stands, Written
  <2>8. Settled(r, h, x, y, s \in refused') \/ ~Sole(r)
    BY <1>5, <2>1, <2>2, <2>3, <2>4 DEF Stands, Settled, Asking
  <2> QED
    BY <1>2, <1>4, <1>6, <2>2, <2>5, <2>6, <2>7, <2>8, Writes
<1> QED
  BY <1>7, <1>8, <1>9

\* A statement of an "always allow" is refused.
LEMMA SaveRefusedKeeps ==
  ASSUME IInv, NEW r \in Req, DBError(r), KindOf[r] # "grant"
  PROVE  IInv'
<1>1. TypeOK
  BY DEF IInv
<1>2. handler[r].pc \in Saving
      /\ UNCHANGED <<stopping, client, conn, left, down, pending, reply, queue, shown, mfaOpen, sent, consent, status>>
      /\ refused' = refused \cup {SessionOf[r]}
  <2>1. Shape(r, handler[r])
    BY Known
  <2>2. handler[r].pc \in {"session", "items", "status", "edit", "recreate"} \cup Saving
    BY DEF DBError, At, Saving
  <2>3. handler[r].pc \in Saving
    BY <2>1, <2>2 DEF Shape, Answered
  <2> QED
    BY <2>3 DEF DBError, serverVars, uiVars
<1>3. /\ KindOf[r] = "single" /\ SessionOf[r] \in Session /\ handler[r].carried \in Command
      /\ status \in [Session -> {"none", "pending", "approved", "rejected"}]
      /\ items \in [Session -> SUBSET Command]
      /\ <<IdOf(r), handler[r].carried>> \in consent
      /\ Shape(r, handler[r])
  BY <1>2, AtStatement, OthersAlone, Known
<1>4. PICK s \in Session : s = SessionOf[r]
  BY <1>3
<1>5. PICK x : x = status[s]
  OBVIOUS
<1>6. status' = [status EXCEPT ![s] = x] /\ x \in {"none", "pending", "approved", "rejected"}
      /\ (status[s] = "approved" => x = "approved")
  BY <1>2, <1>3, <1>5
<1>7. CASE handler[r].pc = "saveSession"
  <2>1. Goto(r, "saveItem") /\ UNCHANGED items
    BY <1>7 DEF DBError, At
  <2>2. PICK h \in HandlerState :
          /\ h.pc = "saveItem" /\ h.verdict = handler[r].verdict /\ h.carried = handler[r].carried
          /\ handler' = [handler EXCEPT ![r] = h]
    BY <1>1, <2>1, GotoIs DEF HandlerPC
  <2>3. PICK y : y = items[s]
    OBVIOUS
  <2>4. items' = [items EXCEPT ![s] = y] /\ y \subseteq Command /\ items[s] \subseteq y
        /\ \A p \in y : p \in items[s]
    BY <1>3, <2>1, <2>3
  <2>5. Shape(r, h)
    BY <1>3, <1>7, <2>2 DEF Shape, Asking, Saving, Answered
  <2>6. <<IdOf(r), h.carried>> \in consent /\ handler[r].pc # "none"
    BY <1>3, <1>7, <2>2
  <2>7. /\ handler[r].pc # "none" /\ KindOf[r] \in {"grant", "single"} /\ KindOf[r] # "grant"
        /\ refused' = refused \cup {s} /\ handler' = [handler EXCEPT ![r] = h]
        /\ \A p \in y : p \in items[s] \/ Consented(s, p)
        /\ UNCHANGED <<stopping, client, conn, left, down, pending, reply, queue, shown, mfaOpen, sent, consent>>
    BY <1>2, <1>3, <1>4, <1>7, <2>2, <2>4
  <2> QED
    BY <1>4, <1>6, <2>4, <2>5, <2>6, <2>7, Writes
<1>8. CASE handler[r].pc = "saveItem"
  <2>1. /\ Answer(r, "yes")
        /\ \E saved \in SUBSET Grants[handler[r].carried] :
             items' = [items EXCEPT ![SessionOf[r]] = @ \cup saved]
    BY <1>8 DEF DBError, At
  <2>2. PICK h \in HandlerState :
          /\ h.pc = "encode" /\ h.verdict = "yes" /\ h.carried = handler[r].carried
          /\ handler' = [handler EXCEPT ![r] = h]
    BY <1>1, <2>1, AnswerIs
  <2>3. PICK saved \in SUBSET Grants[handler[r].carried] :
             items' = [items EXCEPT ![SessionOf[r]] = @ \cup saved]
    BY <2>1
  <2>4. PICK y : y = items[s] \cup saved
    OBVIOUS
  <2>5. items' = [items EXCEPT ![s] = y] /\ y \subseteq Command /\ items[s] \subseteq y
    BY <1>3, <1>4, <2>3, <2>4, ApprovalConstants
  <2>6. \A p \in y : p \in items[s] \/ Consented(s, p)
    BY <1>3, <1>4, <2>4, OthersAlone DEF Consented
  <2>7. Shape(r, h)
    BY <1>3, <2>2 DEF Shape, Asking, Saving, Answered
  <2>8. <<IdOf(r), h.carried>> \in consent /\ handler[r].pc # "none"
    BY <1>3, <1>8, <2>2
  <2>9. /\ handler[r].pc # "none" /\ KindOf[r] \in {"grant", "single"} /\ KindOf[r] # "grant"
        /\ refused' = refused \cup {s} /\ handler' = [handler EXCEPT ![r] = h]
        /\ UNCHANGED <<stopping, client, conn, left, down, pending, reply, queue, shown, mfaOpen, sent, consent>>
    BY <1>2, <1>3, <1>4, <1>8, <2>2
  <2> QED
    BY <1>4, <1>6, <2>5, <2>6, <2>7, <2>8, <2>9, Writes
<1> QED
  BY <1>2, <1>7, <1>8 DEF Saving

\* A statement of a grant request is refused.
LEMMA GrantRefusedKeeps ==
  ASSUME IInv, NEW r \in Req, DBError(r), KindOf[r] = "grant"
  PROVE  IInv'
<1>1. TypeOK
  BY DEF IInv
<1>2. handler[r].pc \in {"session", "items", "status", "edit", "recreate"}
  <2>1. Shape(r, handler[r])
    BY Known
  <2>2. handler[r].pc \in {"session", "items", "status", "edit", "recreate"} \cup Saving
    BY DEF DBError, At, Saving
  <2> QED
    BY <2>1, <2>2 DEF Shape
<1>3. /\ UNCHANGED <<stopping, client, conn, left, down, pending, reply, queue, shown, mfaOpen, sent, consent, status, items>>
      /\ refused' = refused \cup {SessionOf[r]}
      /\ \/ handler[r].pc \in {"session", "items"} /\ Answer(r, "no")
         \/ handler[r].pc = "status" /\ Goto(r, AfterStatus(r))
         \/ handler[r].pc \in {"edit", "recreate"} /\ Goto(r, "return")
  BY <1>2 DEF DBError, At, serverVars, uiVars
<1>4. /\ SessionOf[r] \in Session
      /\ status \in [Session -> {"none", "pending", "approved", "rejected"}]
      /\ items \in [Session -> SUBSET Command]
      /\ Alone(r) /\ handler[r].verdict = "yes" => <<IdOf(r), handler[r].carried>> \in consent
  BY <1>2, AtStatement
<1>5. PICK s \in Session : s = SessionOf[r]
  BY <1>4
<1>6. /\ Stands(r, handler[r], status[s], items[s], s \in refused)
      /\ Shape(r, handler[r])
  BY <1>5, Known DEF Stands
<1>7. PICK h \in HandlerState :
        /\ handler' = [handler EXCEPT ![r] = h] /\ h.carried = handler[r].carried
        /\ \/ handler[r].pc \in {"session", "items"} /\ h.pc = "encode" /\ h.verdict = "no"
           \/ handler[r].pc = "status" /\ h.pc \in {"edit", "return"} /\ h.verdict = handler[r].verdict
           \/ handler[r].pc \in {"edit", "recreate"} /\ h.pc = "return" /\ h.verdict = handler[r].verdict
  <2>1. CASE handler[r].pc \in {"session", "items"} /\ Answer(r, "no")
    BY <1>1, <2>1, AnswerIs
  <2>2. CASE handler[r].pc = "status" /\ Goto(r, AfterStatus(r))
    <3>1. AfterStatus(r) \in {"edit", "return"} /\ AfterStatus(r) \in HandlerPC
      BY DEF AfterStatus, HandlerPC
    <3> QED
      BY <1>1, <2>2, <3>1, GotoIs
  <2>3. CASE handler[r].pc \in {"edit", "recreate"} /\ Goto(r, "return")
    BY <1>1, <2>3, GotoIs DEF HandlerPC
  <2> QED
    BY <1>3, <2>1, <2>2, <2>3
<1>8. PICK x : x = status[s]
  OBVIOUS
<1>9. PICK y : y = items[s]
  OBVIOUS
<1>10. status' = [status EXCEPT ![s] = x] /\ items' = [items EXCEPT ![s] = y]
       /\ x \in {"none", "pending", "approved", "rejected"} /\ y \subseteq Command
       /\ refused' = refused \cup {s} /\ s \in refused'
  BY <1>3, <1>4, <1>5, <1>8, <1>9
<1>11. Shape(r, h) /\ (Alone(r) /\ (h.verdict = "yes" \/ h.pc \in Saving) => <<IdOf(r), h.carried>> \in consent)
  BY <1>4, <1>7 DEF Shape, Asking, Saving, Answered
<1>12. Written(r, h, x, y, s \in refused') \/ ~Alone(r)
  BY <1>7, <1>10 DEF Written
<1>13. Settled(r, h, x, y, s \in refused') \/ ~Sole(r)
  BY <1>6, <1>7, <1>8, <1>9, <1>10 DEF Stands, Settled, Asking, Shape
<1>14. handler[r].pc # "none" /\ KindOf[r] \in {"grant", "single"} /\ KindOf[r] # "single"
  BY <1>2
<1>15. /\ handler' = [handler EXCEPT ![r] = h]
       /\ UNCHANGED <<stopping, client, conn, left, down, pending, reply, queue, shown, mfaOpen, sent, consent>>
  BY <1>3, <1>7
<1> QED
  BY <1>5, <1>10, <1>11, <1>12, <1>13, <1>14, <1>15, Writes

-----------------------------------------------------------------------------
(* The dialogs and their answers *)

\* The user allows more; handlers and tables stay.
LEMMA ConsentGrows ==
  ASSUME IInv, UNCHANGED <<handler, status, items, refused>>, consent \subseteq consent'
  PROVE  TableInv'
<1>1. TableInv
  BY DEF IInv
<1>2. \A s, p : Consented(s, p) => Consented(s, p)'
  BY DEF Consented
<1>3. ShapeInv' /\ VerdictInv' /\ GrantInv' /\ SoleInv'
  BY <1>1 DEF TableInv, ShapeInv, VerdictInv, GrantInv, SoleInv
<1>4. ItemsInv'
  BY <1>1, <1>2 DEF TableInv, ItemsInv
<1> QED
  BY <1>3, <1>4 DEF TableInv

\* The user's answer leaves the dialog.
LEMMA ClickKeeps ==
  ASSUME IInv, NEW d \in Decision \ {"none"}, NEW typed \in Edit \cup {NoCommand}, Click(d, typed)
  PROVE  IInv'
<1>1. TypeOK /\ ConnInv /\ AskInv
  BY DEF IInv
<1>2. PICK r : r = Head(queue)
  OBVIOUS
<1>3. PICK c : c = IF typed # NoCommand THEN typed ELSE OnScreen(r)
  OBVIOUS
<1>4. PICK mayEdit \in BOOLEAN : mayEdit = ((KindOf[r] = "grant" /\ d = "allow") \/ d = "allowAll")
  OBVIOUS
<1>5. PICK resp : resp = [decision |-> d, edited |-> IF mayEdit /\ c # CommandOf[r] THEN c ELSE NoCommand]
  OBVIOUS
<1>6. /\ queue # <<>> /\ queue' = Tail(queue)
      /\ d = "allowAll" => KindOf[r] = "single"
      /\ typed # NoCommand => mayEdit
      /\ shown' = IF KindOf[r] = "grant" THEN [shown EXCEPT ![SessionOf[r]] = NoCommand] ELSE shown
      /\ sent' = sent \cup {<<IdOf(r), resp>>}
      /\ consent' = IF d = "deny" THEN consent ELSE consent \cup {<<IdOf(r), c>>}
      /\ UNCHANGED <<stopping, client, conn, left, down, handler, pending, reply, mfaOpen, status, items, refused>>
  BY <1>2, <1>3, <1>4, <1>5, Zenon DEF Click, serverVars, grantVars
<1>7. queue \in Seq(Req)
  BY <1>1 DEF TypeOK
<1>8. r \in Req /\ Tail(queue) \in Seq(Req)
  BY <1>2, <1>6, <1>7
<1>9. c \in Command
  BY <1>1, <1>3, <1>8, ApprovalConstants DEF OnScreen, TypeOK
<1>10. resp \in Response /\ resp.decision = d
       /\ resp.edited = IF mayEdit /\ c # CommandOf[r] THEN c ELSE NoCommand
  BY <1>5, <1>9 DEF Response
<1>11. IdOf(r) \in ID
  BY <1>8, IdType
<1>12. TypeOK'
  <2>1. shown' \in [Session -> Command \cup {NoCommand}]
    BY <1>1, <1>6, <1>8, ApprovalConstants DEF TypeOK
  <2>2. sent' \in SUBSET (ID \X Response) /\ consent' \in SUBSET (ID \X Command)
    BY <1>1, <1>6, <1>9, <1>10, <1>11 DEF TypeOK
  <2> QED
    BY <1>1, <1>6, <1>8, <2>1, <2>2 DEF TypeOK
<1>13. ConnInv'
  BY <1>1, <1>6 DEF ConnInv
<1>14. TableInv'
  BY <1>6, ConsentGrows
<1>15. mfaOpen' \subseteq Challenges /\ PendInv' /\ ReplyInv'
  BY <1>1, <1>6 DEF AskInv, PendInv, ReplyInv, Backed
<1>16. KindOf[r] # "mfa" => Backed(r, resp, consent')
  <2>1. CASE mayEdit
    <3>1. Text(r, resp) = c
      BY <1>9, <1>10, <2>1, ApprovalConstants DEF Text
    <3>2. d # "deny"
      BY <1>4, <2>1
    <3>3. <<IdOf(r), c>> \in consent'
      BY <1>6, <3>2
    <3>4. ~(d = "allow" /\ KindOf[r] # "grant")
      BY <1>4, <2>1
    <3> QED
      BY <1>6, <1>10, <3>1, <3>3, <3>4 DEF Backed
  <2>2. CASE ~mayEdit
    <3>1. resp.edited = NoCommand /\ Text(r, resp) = CommandOf[r]
      BY <1>10, <2>2 DEF Text
    <3>2. d # "allowAll" /\ (d = "allow" => KindOf[r] # "grant") /\ typed = NoCommand
      BY <1>4, <1>6, <2>2
    <3>3. d = "allow" => c = CommandOf[r]
      BY <1>3, <3>2 DEF OnScreen
    <3>4. d = "allow" => <<IdOf(r), CommandOf[r]>> \in consent'
      BY <1>6, <3>3
    <3> QED
      BY <1>10, <3>1, <3>2, <3>4 DEF Backed
  <2> QED
    BY <2>1, <2>2
<1>17. SentInv'
  <2>1. ASSUME NEW q \in Req, KindOf[q] # "mfa", Alone(q), NEW m \in sent', m[1] = IdOf(q)
        PROVE  Backed(q, m[2], consent')
    <3>1. CASE m \in sent
      <4>1. Backed(q, m[2], consent)
        BY <1>1, <2>1, <3>1 DEF AskInv, SentInv
      <4> QED
        BY <1>6, <4>1 DEF Backed
    <3>2. CASE m = <<IdOf(r), resp>>
      <4>1. r = q
        BY <1>8, <2>1, <3>2 DEF Alone
      <4> QED
        BY <1>16, <2>1, <3>2, <4>1
    <3> QED
      BY <1>6, <2>1, <3>1, <3>2
  <2> QED
    BY <2>1 DEF SentInv
<1> QED
  BY <1>12, <1>13, <1>14, <1>15, <1>17 DEF IInv, AskInv

\* An answer to an approval arrives.
LEMMA RespondKeeps ==
  ASSUME IInv, NEW m \in sent, Respond(m)
  PROVE  IInv'
<1>1. TypeOK /\ ConnInv /\ AskInv
  BY DEF IInv
<1>2. PICK r : r = pending[m[1]]
  OBVIOUS
<1>3. /\ sent' = sent \ {m}
      /\ reply' = IF r = NoReq THEN reply ELSE [reply EXCEPT ![r] = Offer(@, Parse(r, m[2]))]
      /\ UNCHANGED <<stopping, client, conn, left, down, handler, pending, queue, shown, mfaOpen, consent, status, items, refused>>
  BY <1>2 DEF Respond, serverVars, grantVars
<1>4. m[1] \in ID /\ m[2] \in Response
  BY <1>1 DEF TypeOK
<1>5. r \in Req \cup {NoReq} /\ (r # NoReq => IdOf(r) = m[1])
  BY <1>1, <1>2, <1>4 DEF AskInv, PendInv, TypeOK
<1>6. ConnInv' /\ TableInv'
  BY <1>1, <1>3, TablesSame DEF ConnInv
<1>7. mfaOpen' \subseteq Challenges /\ PendInv'
  BY <1>1, <1>3 DEF AskInv, PendInv
<1>8. SentInv'
  BY <1>1, <1>3 DEF AskInv, SentInv
<1>9. CASE r = NoReq
  <2>1. ReplyInv' /\ TypeOK'
    BY <1>1, <1>3, <1>9 DEF AskInv, ReplyInv, TypeOK
  <2> QED
    BY <1>6, <1>7, <1>8, <2>1 DEF IInv, AskInv
<1>10. CASE r # NoReq
  <2>1. r \in Req /\ reply \in [Req -> Response] /\ CommandOf[r] \in Command
    BY <1>1, <1>5, <1>10, ApprovalConstants DEF TypeOK
  <2>2. PICK p : p = Parse(r, m[2])
    OBVIOUS
  <2>3. p \in Response
    BY <1>4, <2>1, <2>2 DEF Parse, Response, Decision
  <2>4. /\ p.decision = m[2].decision \/ p.decision = "deny"
        /\ p.decision = m[2].decision => Text(r, p) = Text(r, m[2])
        /\ m[2].edited = NoCommand => p.edited = NoCommand
    BY <1>4, <2>1, <2>2, ApprovalConstants DEF Parse, Response, Text
  <2>5. ASSUME KindOf[r] # "mfa", Alone(r)
        PROVE  Backed(r, p, consent)
    <3>1. Backed(r, m[2], consent)
      BY <1>1, <1>5, <1>10, <2>1, <2>5 DEF AskInv, SentInv
    <3> QED
      BY <2>4, <3>1 DEF Backed
  <2>6. reply' \in [Req -> Response] /\ (reply'[r] = reply[r] \/ reply'[r] = p)
        /\ \A q \in Req \ {r} : reply'[q] = reply[q]
    BY <1>3, <1>10, <2>1, <2>2, <2>3 DEF Offer
  <2>7. ReplyInv'
    BY <1>1, <1>3, <2>1, <2>5, <2>6 DEF AskInv, ReplyInv
  <2>8. TypeOK'
    BY <1>1, <1>3, <2>6 DEF TypeOK
  <2> QED
    BY <1>6, <1>7, <1>8, <2>7, <2>8 DEF IInv, AskInv
<1> QED
  BY <1>9, <1>10

\* The MFA dialog answers, and its answer arrives.
LEMMA MFAKeeps ==
  ASSUME IInv,
         \/ \E r \in Req, d \in {"allow", "deny"} : Submit(r, d)
         \/ \E m \in sent : RespondMFA(m)
  PROVE  IInv'
<1>1. TypeOK /\ ConnInv /\ AskInv
  BY DEF IInv
<1>2. UNCHANGED <<stopping, client, conn, left, down, handler, queue, shown, consent, status, items, refused>>
  BY DEF Submit, RespondMFA, serverVars, grantVars
<1>3. ConnInv' /\ TableInv'
  BY <1>1, <1>2, TablesSame DEF ConnInv
<1>4. ASSUME NEW r \in Req, NEW d \in {"allow", "deny"}, Submit(r, d)
      PROVE  IInv'
  <2>1. PICK resp : resp = [decision |-> d, edited |-> NoCommand]
    OBVIOUS
  <2>2. r \in mfaOpen /\ mfaOpen' = mfaOpen \ {r} /\ sent' = sent \cup {<<r, resp>>} /\ UNCHANGED <<pending, reply>>
    BY <1>4, <2>1 DEF Submit
  <2>3. resp \in Response /\ r \in ID /\ KindOf[r] = "mfa" /\ IdOf(r) = r
    BY <1>1, <2>1, <2>2 DEF Response, Decision, AskInv, Challenges, ID, IdOf
  <2>4. TypeOK'
    BY <1>1, <1>2, <2>2, <2>3 DEF TypeOK
  <2>5. SentInv'
    <3>1. ASSUME NEW q \in Req, KindOf[q] # "mfa", Alone(q), NEW m \in sent', m[1] = IdOf(q)
          PROVE  m \in sent
      BY <2>2, <2>3, <3>1 DEF Alone
    <3> QED
      BY <1>1, <1>2, <3>1 DEF AskInv, SentInv
  <2>6. mfaOpen' \subseteq Challenges /\ PendInv' /\ ReplyInv'
    BY <1>1, <1>2, <2>2 DEF AskInv, PendInv, ReplyInv
  <2> QED
    BY <1>3, <2>4, <2>5, <2>6 DEF IInv, AskInv
<1>5. ASSUME NEW m \in sent, RespondMFA(m)
      PROVE  IInv'
  <2>1. PICK r : r = m[1]
    OBVIOUS
  <2>2. /\ r \in Challenges /\ sent' = sent \ {m} /\ UNCHANGED mfaOpen
        /\ \/ UNCHANGED <<pending, reply>>
           \/ pending' = Unpended(r) /\ reply' = [reply EXCEPT ![r] = m[2]]
    BY <1>5, <2>1 DEF RespondMFA
  <2>3. r \in Req /\ KindOf[r] = "mfa" /\ m[2] \in Response /\ IdOf(r) \in ID
    BY <1>1, <2>2, IdType DEF TypeOK, Challenges
  <2>4. reply' \in [Req -> Response] /\ pending' \in [ID -> Req \cup {NoReq}]
    BY <1>1, <2>2, <2>3 DEF TypeOK, Unpended
  <2>5. TypeOK'
    BY <1>1, <1>2, <2>2, <2>4 DEF TypeOK
  <2>6. ReplyInv'
    BY <1>1, <1>2, <2>2, <2>3 DEF AskInv, ReplyInv, TypeOK
  <2>7. PendInv'
    BY <1>1, <2>2, <2>3 DEF AskInv, PendInv, TypeOK, Unpended
  <2>8. SentInv' /\ mfaOpen' \subseteq Challenges
    BY <1>1, <1>2, <2>2 DEF AskInv, SentInv
  <2> QED
    BY <1>3, <2>5, <2>6, <2>7, <2>8 DEF IInv, AskInv
<1> QED
  BY <1>4, <1>5

-----------------------------------------------------------------------------
(* The theorems *)

\* Nothing has been asked yet.
LEMMA InitHolds ==
  ASSUME Init
  PROVE  IInv
<1>1. handler \in [Req -> HandlerState]
      /\ \A r \in Req : /\ handler[r].pc = "none" /\ handler[r].verdict = "none"
                        /\ handler[r].carried = CommandOf[r]
  <2>1. \A r \in Req : [pc |-> "none", verdict |-> "none", carried |-> CommandOf[r]] \in HandlerState
    BY ApprovalConstants DEF HandlerState, HandlerPC
  <2> QED
    BY <2>1 DEF Init
<1>2. TypeOK
  <2>1. NoResponse \in Response
    BY DEF Response, NoResponse, Decision
  <2>2. /\ pending \in [ID -> Req \cup {NoReq}] /\ reply \in [Req -> Response]
        /\ client \in [Req -> {"out", "waiting", "told", "gone"}]
        /\ conn \in [Req -> {"none", "backlog", "open", "closed"}]
    BY <2>1 DEF Init
  <2>3. /\ shown \in [Session -> Command \cup {NoCommand}] /\ queue \in Seq(Req)
        /\ status \in [Session -> {"none", "pending", "approved", "rejected"}]
        /\ items \in [Session -> SUBSET Command]
    BY DEF Init
  <2>4. stopping \in BOOLEAN /\ down \in BOOLEAN /\ left = {} /\ mfaOpen = {} /\ sent = {} /\ consent = {} /\ refused = {}
    BY DEF Init
  <2> QED
    BY <1>1, <2>2, <2>3, <2>4 DEF TypeOK
<1>3. ConnInv
  BY <1>1 DEF Init, ConnInv
<1>4. AskInv
  BY DEF Init, AskInv, PendInv, SentInv, ReplyInv, Backed, NoResponse
<1>5. ASSUME NEW r \in Req
      PROVE  /\ Shape(r, handler[r]) /\ handler[r].verdict # "yes" /\ handler[r].pc \notin Saving
             /\ handler[r].pc = "none"
  BY <1>1 DEF Shape, Asking, Saving, Answered
<1>6. ShapeInv /\ VerdictInv /\ GrantInv /\ SoleInv
  <2>1. ASSUME NEW r \in Req, KindOf[r] = "grant"
        PROVE  status[SessionOf[r]] = "none" /\ items[SessionOf[r]] = {}
    BY <2>1, GrantId DEF Init
  <2>2. ASSUME NEW r \in Req, KindOf[r] = "grant"
        PROVE  /\ Written(r, handler[r], status[SessionOf[r]], items[SessionOf[r]], SessionOf[r] \in refused)
               /\ Settled(r, handler[r], status[SessionOf[r]], items[SessionOf[r]], SessionOf[r] \in refused)
    BY <1>5, <2>1, <2>2 DEF Written, Settled, Asking
  <2> QED
    BY <1>5, <2>2 DEF ShapeInv, VerdictInv, GrantInv, SoleInv
<1>7. ItemsInv
  BY DEF Init, ItemsInv
<1> QED
  BY <1>2, <1>3, <1>4, <1>6, <1>7 DEF IInv, TableInv

\* Whatever a request's handler and its client do.
LEMMA RequestKeeps ==
  ASSUME IInv, NEW r \in Req, HandlerStep(r) \/ ClientStep(r)
  PROVE  IInv'
<1>1. CASE ServerStep(r)
  BY <1>1, AcceptKeeps, ServerKeeps, DispatchKeeps, EncodeKeeps DEF ServerStep
<1>2. CASE AskStep(r)
  <2>1. TakeMFA(r) => KindOf[r] # "grant"
    BY DEF TakeMFA
  <2> QED
    BY <1>2, <2>1, RegisterKeeps, EmitKeeps, TakeKeeps, SaveKeeps, TakeEndKeeps DEF AskStep
<1>3. CASE GrantStep(r)
  <2>1. TakeGrant(r) => KindOf[r] = "grant"
    BY DEF TakeGrant
  <2> QED
    BY <1>3, <2>1, GrantAskKeeps, TakeGrantKeeps, GrantDecidedKeeps, ReturnKeeps DEF GrantStep
<1>4. CASE DBError(r)
  BY <1>4, SaveRefusedKeeps, GrantRefusedKeeps
<1>5. CASE EndStep(r)
  <2>1. TakeGone(r) => KindOf[r] # "grant"
    BY DEF TakeGone
  <2> QED
    BY <1>5, <2>1, TakeGrantKeeps, TakeEndKeeps DEF EndStep
<1>6. CASE ClientStep(r)
  BY <1>6, ServerKeeps DEF ClientStep
<1> QED
  BY <1>1, <1>2, <1>3, <1>4, <1>5, <1>6 DEF HandlerStep

\* The user's consent is followed through every interleaving of handlers, clients,
\* answers, failing statements and shutdown (approval.go, mfa.go).
THEOREM Invariance == Spec => []IInv
<1>1. Init => IInv
  BY InitHolds
<1>2. IInv /\ [Next]_vars => IInv'
  <2> SUFFICES ASSUME IInv, [Next]_vars PROVE IInv'
    OBVIOUS
  <2>1. ASSUME NEW r \in Req, HandlerStep(r) \/ ClientStep(r) PROVE IInv'
    BY <2>1, RequestKeeps
  <2>2. ASSUME NEW m \in sent, Deliver(m) PROVE IInv'
    BY <2>2, RespondKeeps, MFAKeeps DEF Deliver
  <2>3. CASE UserStep
    BY <2>3, ClickKeeps, MFAKeeps DEF UserStep
  <2>4. CASE Stop \/ Shutdown
    BY <2>4, ServerKeeps
  <2>5. CASE UNCHANGED vars
    <3>1. UNCHANGED behind /\ UNCHANGED <<stopping, down, left, client, conn>>
      BY <2>5 DEF vars, behind
    <3>2. ConnInv'
      BY <3>1 DEF IInv, ConnInv, behind
    <3>3. /\ stopping' \in BOOLEAN /\ down' \in BOOLEAN /\ left' \in SUBSET Req
          /\ client' \in [Req -> {"out", "waiting", "told", "gone"}]
          /\ conn' \in [Req -> {"none", "backlog", "open", "closed"}]
      BY <3>1 DEF IInv, TypeOK
    <3> QED
      BY <3>1, <3>2, <3>3, ServerMoves
  <2> QED
    BY <2>1, <2>2, <2>3, <2>4, <2>5 DEF Next
<1> QED
  BY <1>1, <1>2, PTL DEF Spec

\* Every variable keeps its type.
THEOREM TypeCorrect == Spec => []TypeOK
<1>1. IInv => TypeOK
  BY DEF IInv
<1> QED
  BY <1>1, Invariance, PTL

\* A request is told yes only about what the user allowed in its own dialog, as long as
\* no session asks for two grants (RespondOpsctlApproval finds a request by its ID).
THEOREM YesNeedsConsent ==
  ASSUME OneGrantEach
  PROVE  Spec => []YesIsConsent
<1>1. IInv => YesIsConsent
  BY OneIsAlone DEF IInv, TableInv, VerdictInv, YesIsConsent
<1> QED
  BY <1>1, Invariance, PTL

\* Of commands and batches this is so whatever grants the sessions ask for.
CommandsNeedConsent ==
  \A r \in Req : KindOf[r] \notin {"mfa", "grant"} /\ handler[r].verdict = "yes" =>
    <<r, handler[r].carried>> \in consent

\* A command or a batch is told yes only if the user allowed it (awaitSingleApproval and
\* handleBatchApproval file it under an ID of its own).
THEOREM CommandYesNeedsConsent == Spec => []CommandsNeedConsent
<1>1. IInv => CommandsNeedConsent
  BY OthersAlone DEF IInv, TableInv, VerdictInv, CommandsNeedConsent
<1> QED
  BY <1>1, Invariance, PTL

\* What a session's checks match was allowed by the user, if a session that asks for a
\* grant has no other request that writes the tables (handleGrantApproval saves the
\* requested items before it asks, so in a session already approved they would match).
THEOREM SettledNeedsConsent ==
  ASSUME GrantsAlone
  PROVE  Spec => []SettledIsConsented
<1>1. IInv => SettledIsConsented
  <2> SUFFICES ASSUME IInv, NEW s \in Session \ refused,
                      \A r \in Req : SessionOf[r] = s => ~At(r, "edit"), NEW p \in Effective(s)
               PROVE  Consented(s, p)
    BY DEF SettledIsConsented
  <2>1. status[s] = "approved" /\ p \in items[s]
    BY DEF Effective
  <2>2. CASE NoGrantOf(s)
    BY <2>1, <2>2 DEF IInv, TableInv, ItemsInv
  <2>3. CASE ~NoGrantOf(s)
    <3>1. PICK r \in Req : KindOf[r] = "grant" /\ SessionOf[r] = s
      BY <2>3 DEF NoGrantOf
    <3>2. Sole(r)
      BY <3>1 DEF GrantsAlone
    <3>3. Alone(r) /\ IdOf(r) = s
      BY <3>1, <3>2, ApprovalConstants DEF Alone, Sole, IdOf
    <3>4. Settled(r, handler[r], status[s], items[s], s \in refused)
      BY <3>1, <3>2 DEF IInv, TableInv, SoleInv
    <3>5. handler[r].verdict = "yes" /\ handler[r].pc # "edit" /\ items[s] \subseteq {handler[r].carried}
      BY <2>1, <3>1, <3>4 DEF Settled, At
    <3>6. <<s, p>> \in consent
      BY <2>1, <3>1, <3>3, <3>5 DEF IInv, TableInv, VerdictInv
    <3> QED
      BY <3>6 DEF Consented
  <2> QED
    BY <2>2, <2>3
<1> QED
  BY <1>1, Invariance, PTL

\* A grant reported as approved matches from then on, as edited, unless the database has
\* refused a statement of its session; as long as no session asks for two grants.
THEOREM GrantTakesEffect ==
  ASSUME OneGrantEach
  PROVE  Spec => []ApprovedGrantTakesEffect
<1>1. IInv => ApprovedGrantTakesEffect
  BY OneIsAlone DEF IInv, TableInv, GrantInv, Written, ApprovedGrantTakesEffect, Effective, At
<1> QED
  BY <1>1, Invariance, PTL
=============================================================================

----------------------------- MODULE AIChatProofs -----------------------------
(***************************************************************************)
(* What AIChat promises, for any turns and messages.                       *)
(*                                                                         *)
(* As long as turns have not crossed there is one turn at a time, from the *)
(* call of SendAIMessage until the front end has heard of its end, and     *)
(* a.runners files no other while it is being prepared.  Then whoever      *)
(* takes an entry out of a.runners is the one that stops or releases it.   *)
(***************************************************************************)
EXTENDS AIChat, SequenceTheorems, TLAPS

-----------------------------------------------------------------------------
(* The inductive invariant *)

EndTypes == {"done", "stopped", "error", "rejected"}

\* The end of a turn is among the notes.
EndIn(s) == \E i \in 1 .. Len(s) : s[i].type \in EndTypes

LivePC == {"called", "waitOld", "build", "stored", "running"}

OneTurn ==
  ~crossed => \A t, v \in Turn : turn[t].pc \in LivePC /\ turn[v].pc \in LivePC => t = v

EndMeansOver ==
  ~crossed /\ EndIn(toUI) => \A t \in Turn : turn[t].pc \notin LivePC

\* The entry is released, or somebody is about to.
Handled(x) == x.released \/ x.stopping

\* What a.runners may file beside a turn, and whether the turn's entry is looked after.
Filed(t, x, r) ==
  /\ x.pc \in {"waitOld", "build"} => r = NoTurn
  /\ x.pc = "stored" => r \in {t, NoTurn}
  /\ x.pc \in {"stored", "running", "ended", "closed"} => r = t \/ Handled(x)
  /\ x.pc = "finished" => Handled(x)

FiledInv == ~crossed => \A t \in Turn : Filed(t, turn[t], runners)

ResetInv == resetting # NoTurn => Handled(turn[resetting])

StopInv == stopCall.pc = "waiting" => stopCall.turn \in Turn

OldInv == \A t \in Turn : turn[t].pc = "waitOld" => turn[t].old \in Turn

IInv ==
  /\ TypeOK
  /\ OneTurn
  /\ EndMeansOver
  /\ NoGhostTurn
  /\ FiledInv
  /\ ResetInv
  /\ StopInv
  /\ OldInv
  /\ QueuedNotLost

-----------------------------------------------------------------------------
(* Notes *)

\* A note is appended.
LEMMA AppendEnd ==
  ASSUME NEW s \in Seq(Notes), NEW n \in Notes, NEW u, u = Append(s, n)
  PROVE  u \in Seq(Notes) /\ (EndIn(u) => EndIn(s) \/ n.type \in EndTypes)
<1>1. u \in Seq(Notes) /\ Len(u) = Len(s) + 1 /\ u[Len(u)] = n /\ \A i \in 1 .. Len(s) : u[i] = s[i]
  OBVIOUS
<1>2. ASSUME NEW i \in 1 .. Len(u), u[i].type \in EndTypes
      PROVE  EndIn(s) \/ n.type \in EndTypes
  <2>1. i = Len(u) \/ i \in 1 .. Len(s)
    BY <1>1, <1>2
  <2> QED
    BY <1>1, <1>2, <2>1 DEF EndIn
<1> QED
  BY <1>1, <1>2 DEF EndIn

\* A note is taken.
LEMMA TailEnd ==
  ASSUME NEW s \in Seq(Notes), s # <<>>, NEW h, h = Head(s), NEW u, u = Tail(s)
  PROVE  /\ h \in Notes /\ u \in Seq(Notes)
         /\ EndIn(u) => EndIn(s)
         /\ h.type \in EndTypes => EndIn(s)
<1>1. /\ h \in Notes /\ u \in Seq(Notes) /\ h = s[1] /\ 1 \in 1 .. Len(s)
      /\ Len(u) = Len(s) - 1 /\ \A i \in 1 .. Len(u) : i + 1 \in 1 .. Len(s) /\ u[i] = s[i + 1]
  OBVIOUS
<1> QED
  BY <1>1 DEF EndIn

\* The notes the module itself looks for are those.
LEMMA EndComingIs ==
  ASSUME TypeOK
  PROVE  EndComing <=> EndIn(toUI)
<1>1. DOMAIN toUI = 1 .. Len(toUI)
  BY DEF TypeOK
<1> QED
  BY <1>1 DEF EndComing, EndIn, EndTypes

\* A note of a kind.
LEMMA NoteType ==
  ASSUME NEW type \in {"done", "stopped", "error", "consumed", "rejected", "queueRejected", "removed", "stopReturned"},
         NEW ms \in SUBSET Msg
  PROVE  Note(type, ms) \in Notes /\ Note(type, ms).type = type
BY DEF Note, Notes

-----------------------------------------------------------------------------
(* The front end *)

\* The front end moves and the turns stay.
LEMMA FrontMoves ==
  ASSUME IInv, UNCHANGED <<turn, runners, resetting>>, crossed => crossed', toUI' \in Seq(Notes),
         EndIn(toUI') => EndIn(toUI),
         ~crossed' /\ ~sending' /\ ~replaying' => \A t \in Turn : turn[t].pc \notin LivePC
  PROVE  OneTurn' /\ EndMeansOver' /\ NoGhostTurn' /\ FiledInv' /\ ResetInv' /\ OldInv'
<1>1. OneTurn' /\ EndMeansOver'
  BY DEF IInv, OneTurn, EndMeansOver
<1>2. NoGhostTurn'
  BY DEF NoGhostTurn, Live, Preparing, At, LivePC
<1>3. FiledInv' /\ ResetInv' /\ OldInv'
  BY DEF IInv, FiledInv, ResetInv, OldInv
<1> QED
  BY <1>1, <1>2, <1>3

\* A conversation is shown as running as long as one of its turns is live.
LEMMA Shown ==
  ASSUME IInv, ~crossed, EndIn(toUI) \/ (~sending /\ ~replaying)
  PROVE  \A t \in Turn : turn[t].pc \notin LivePC
BY DEF IInv, EndMeansOver, NoGhostTurn, Live, Preparing, At, LivePC

\* A turn begins.
LEMMA BeginKeeps ==
  ASSUME IInv, NEW t \in Turn, Begin(t), UNCHANGED <<runners, resetting>>, toUI' \in Seq(Notes),
         EndIn(toUI') => EndIn(toUI)
  PROVE  /\ turn' \in [Turn -> TurnState] /\ sending' = TRUE /\ listening' = TRUE /\ crossed' \in BOOLEAN
         /\ OneTurn' /\ EndMeansOver' /\ NoGhostTurn' /\ FiledInv' /\ ResetInv' /\ OldInv'
<1>1. turn \in [Turn -> TurnState] /\ TypeOK
  BY DEF IInv, TypeOK
<1>2. turn[t].pc = "unused" /\ sending' = TRUE /\ listening' = TRUE /\ crossed' = (crossed \/ Overlap)
      /\ turn' = [turn EXCEPT ![t].pc = "called"]
  BY DEF Begin, At
<1>3. PICK u : u = [turn[t] EXCEPT !.pc = "called"]
  OBVIOUS
<1>4. u \in TurnState /\ u.pc = "called" /\ u.stopping = turn[t].stopping /\ u.released = turn[t].released
  BY <1>1, <1>3 DEF TurnState, TurnPC
<1>5. turn' \in [Turn -> TurnState] /\ turn'[t] = u /\ \A v \in Turn \ {t} : turn'[v] = turn[v]
  BY <1>1, <1>2, <1>3, <1>4
<1>6. crossed' \in BOOLEAN
  BY <1>2
<1>7. ~crossed' => ~crossed /\ ~EndIn(toUI) /\ \A v \in Turn : turn[v].pc \notin LivePC
  BY <1>1, <1>2, EndComingIs DEF Overlap, Live, Preparing, At, LivePC
<1>8. OneTurn'
  BY <1>5, <1>7 DEF OneTurn
<1>9. EndMeansOver'
  BY <1>7 DEF EndMeansOver
<1>10. NoGhostTurn'
  BY <1>2 DEF NoGhostTurn
<1>11. FiledInv'
  BY <1>2, <1>4, <1>5, <1>7 DEF IInv, FiledInv, Filed
<1>12. ResetInv'
  BY <1>1, <1>4, <1>5 DEF IInv, ResetInv, Handled, TypeOK
<1>13. OldInv'
  BY <1>4, <1>5 DEF IInv, OldInv
<1> QED
  BY <1>2, <1>5, <1>6, <1>8, <1>9, <1>10, <1>11, <1>12, <1>13

\* A turn begins because the user or the timer sends.
LEMMA SendKeeps ==
  ASSUME IInv, NEW t \in Turn, UserSend(t) \/ ReplayIdle(t) \/ (TimerSend /\ Begin(t))
  PROVE  IInv'
<1>1. TypeOK /\ StopInv /\ QueuedNotLost
  BY DEF IInv
<1>2. Begin(t) /\ UNCHANGED <<replaying, shown, typed, queueCalls, stopCall, toUI, runners, resetting>>
  BY DEF UserSend, ReplayIdle, TimerSend, calls
<1>3. /\ turn' \in [Turn -> TurnState] /\ sending' = TRUE /\ listening' = TRUE /\ crossed' \in BOOLEAN
      /\ OneTurn' /\ EndMeansOver' /\ NoGhostTurn' /\ FiledInv' /\ ResetInv' /\ OldInv'
  <2>1. toUI' \in Seq(Notes) /\ (EndIn(toUI') => EndIn(toUI))
    BY <1>1, <1>2 DEF TypeOK
  <2> QED
    BY <1>2, <2>1, BeginKeeps
<1>4. /\ timer' \in BOOLEAN /\ queue' \in SUBSET Msg /\ dropped' \in SUBSET Msg
      /\ queue \cup dropped \subseteq queue' \cup dropped'
  BY <1>1 DEF UserSend, ReplayIdle, TimerSend, TypeOK
<1>5. TypeOK'
  BY <1>1, <1>2, <1>3, <1>4 DEF TypeOK
<1>6. StopInv' /\ QueuedNotLost'
  BY <1>1, <1>2, <1>4 DEF StopInv, QueuedNotLost
<1> QED
  BY <1>3, <1>5, <1>6 DEF IInv

\* The user queues or stops, or asks for a replay.
LEMMA UserKeeps ==
  ASSUME IInv, UserStop \/ Replay \/ (\E m \in Msg : UserQueue(m)) \/ (TimerSend /\ sending)
  PROVE  IInv'
<1>1. TypeOK /\ StopInv /\ QueuedNotLost
  BY DEF IInv
<1>2. UNCHANGED <<toUI, runners, turn, resetting, crossed>> /\ sending
      /\ ((UNCHANGED <<sending, replaying>>) \/ replaying' = TRUE)
  BY DEF UserStop, Replay, UserQueue, TimerSend, ui
<1>3. OneTurn' /\ EndMeansOver' /\ NoGhostTurn' /\ FiledInv' /\ ResetInv' /\ OldInv'
  <2>1. toUI' \in Seq(Notes) /\ (EndIn(toUI') => EndIn(toUI))
    BY <1>1, <1>2 DEF TypeOK
  <2> QED
    BY <1>2, <2>1, FrontMoves
<1>4. stopCall' \in [pc: {"none", "called", "waiting", "returning"}, turn: Turn \cup {NoTurn}] /\ StopInv'
  BY <1>1 DEF UserStop, Replay, UserQueue, TimerSend, calls, NotStopping, TypeOK, StopInv
<1>5. /\ sending' \in BOOLEAN /\ listening' \in BOOLEAN /\ replaying' \in BOOLEAN /\ timer' \in BOOLEAN
      /\ queue' \in SUBSET Msg /\ shown' \in SUBSET Msg /\ typed' \in SUBSET Msg /\ dropped' \in SUBSET Msg
      /\ queueCalls' \in SUBSET Msg
  BY <1>1 DEF UserStop, Replay, UserQueue, TimerSend, calls, ui, TypeOK
<1>6. QueuedNotLost'
  BY <1>1 DEF UserStop, Replay, UserQueue, TimerSend, calls, ui, QueuedNotLost
<1>7. TypeOK'
  BY <1>1, <1>2, <1>4, <1>5 DEF TypeOK
<1> QED
  BY <1>3, <1>4, <1>6, <1>7 DEF IInv

\* The head of the notes reaches the front end.
LEMMA DeliverKeeps ==
  ASSUME IInv, Deliver
  PROVE  IInv'
<1>1. TypeOK /\ StopInv /\ QueuedNotLost
  BY DEF IInv
<1>2. PICK h : h = Head(toUI)
  OBVIOUS
<1>3. toUI # <<>> /\ toUI' = Tail(toUI) /\ UNCHANGED <<runners, resetting, typed, queueCalls>>
  BY DEF Deliver, DeliverEvent, DeliverRejection, DeliverRemoval, DeliverStopReturned, ReplayGoesOn, calls, ui
<1>4. /\ h \in Notes /\ toUI' \in Seq(Notes) /\ (EndIn(toUI') => EndIn(toUI))
      /\ h.type \in EndTypes => EndIn(toUI)
  BY <1>1, <1>2, <1>3, TailEnd DEF TypeOK
<1>5. h.msgs \in SUBSET Msg
  BY <1>4 DEF Notes
<1>6. CASE DeliverEvent
  <2>1. h.type \in {"done", "stopped", "error", "consumed"}
        /\ UNCHANGED <<listening, replaying, dropped, stopCall, turn, crossed>>
    BY <1>2, <1>6 DEF DeliverEvent, calls
  <2>2. CASE ~listening \/ h.type = "consumed"
    <3>1. UNCHANGED sending /\ timer' \in BOOLEAN /\ queue' \in SUBSET Msg /\ shown' \in SUBSET Msg
          /\ queue \cup shown \subseteq queue' \cup shown'
      BY <1>1, <1>2, <1>5, <1>6, <2>2 DEF DeliverEvent, Handle, HandleConsumed, TypeOK
    <3>2. OneTurn' /\ EndMeansOver' /\ NoGhostTurn' /\ FiledInv' /\ ResetInv' /\ OldInv'
      <4>1. ~crossed' /\ ~sending' /\ ~replaying' => \A t \in Turn : turn[t].pc \notin LivePC
        BY <2>1, <3>1, Shown
      <4> QED
        BY <1>3, <1>4, <2>1, <4>1, FrontMoves
    <3>3. TypeOK'
      BY <1>1, <1>3, <1>4, <2>1, <3>1 DEF TypeOK
    <3>4. StopInv' /\ QueuedNotLost'
      BY <1>1, <1>3, <2>1, <3>1 DEF StopInv, QueuedNotLost
    <3> QED
      BY <3>2, <3>3, <3>4 DEF IInv
  <2>3. CASE listening /\ h.type # "consumed"
    <3>1. sending' = FALSE /\ timer' \in BOOLEAN /\ queue' \in SUBSET Msg /\ shown' \in SUBSET Msg
          /\ queue \cup shown \subseteq queue' \cup shown'
      <4>1. HandleEnd \/ HandleError
        BY <1>2, <1>6, <2>1, <2>3 DEF DeliverEvent, Handle
      <4> QED
        BY <1>1, <4>1 DEF HandleEnd, HandleError, TypeOK
    <3>2. OneTurn' /\ EndMeansOver' /\ NoGhostTurn' /\ FiledInv' /\ ResetInv' /\ OldInv'
      <4>1. EndIn(toUI)
        BY <1>4, <2>1, <2>3 DEF EndTypes
      <4>2. ~crossed' /\ ~sending' /\ ~replaying' => \A t \in Turn : turn[t].pc \notin LivePC
        BY <2>1, <4>1, Shown
      <4> QED
        BY <1>3, <1>4, <2>1, <4>2, FrontMoves
    <3>3. TypeOK'
      BY <1>1, <1>3, <1>4, <2>1, <3>1 DEF TypeOK
    <3>4. StopInv' /\ QueuedNotLost'
      BY <1>1, <1>3, <2>1, <3>1 DEF StopInv, QueuedNotLost
    <3> QED
      BY <3>2, <3>3, <3>4 DEF IInv
  <2> QED
    BY <2>2, <2>3
<1>7. CASE DeliverRejection \/ DeliverRemoval \/ DeliverStopReturned
  <2>1. UNCHANGED <<replaying, shown, timer, turn, crossed>>
    BY <1>7 DEF DeliverRejection, DeliverRemoval, DeliverStopReturned, calls, ui
  <2>2. /\ sending' \in BOOLEAN /\ listening' \in BOOLEAN
        /\ queue' \in SUBSET Msg /\ dropped' \in SUBSET Msg
        /\ queue \cup dropped \subseteq queue' \cup dropped'
    <3>1. CASE DeliverRejection \/ DeliverStopReturned
      BY <1>1, <3>1 DEF DeliverRejection, DeliverStopReturned, ui, TypeOK
    <3>2. CASE DeliverRemoval
      <4>1. UNCHANGED <<sending, listening>> /\ queue' = queue \ h.msgs
            /\ dropped' = dropped \cup (queue \cap h.msgs)
        BY <1>2, <3>2 DEF DeliverRemoval
      <4> QED
        BY <1>1, <4>1 DEF TypeOK
    <3> QED
      BY <1>7, <3>1, <3>2
  <2>3. UNCHANGED sending \/ EndIn(toUI)
    <3>1. CASE DeliverRejection
      BY <1>2, <1>4, <3>1 DEF DeliverRejection, EndTypes
    <3> QED
      BY <1>7, <3>1 DEF DeliverRemoval, DeliverStopReturned, ui
  <2>4. OneTurn' /\ EndMeansOver' /\ NoGhostTurn' /\ FiledInv' /\ ResetInv' /\ OldInv'
    <3>1. ~crossed' /\ ~sending' /\ ~replaying' => \A t \in Turn : turn[t].pc \notin LivePC
      BY <2>1, <2>3, Shown
    <3> QED
      BY <1>3, <1>4, <2>1, <3>1, FrontMoves
  <2>5. stopCall' \in [pc: {"none", "called", "waiting", "returning"}, turn: Turn \cup {NoTurn}] /\ StopInv'
    BY <1>1, <1>7 DEF DeliverRejection, DeliverRemoval, DeliverStopReturned, calls, NotStopping, StopInv, TypeOK
  <2>6. TypeOK'
    BY <1>1, <1>3, <1>4, <2>1, <2>2, <2>5 DEF TypeOK
  <2>7. QueuedNotLost'
    BY <1>1, <1>3, <2>1, <2>2 DEF QueuedNotLost
  <2> QED
    BY <2>4, <2>5, <2>6, <2>7 DEF IInv
<1>8. CASE ReplayGoesOn
  <2>1. /\ stopCall' = NotStopping /\ replaying' = FALSE /\ queue' = {}
        /\ dropped' = dropped \cup queue /\ UNCHANGED <<shown, timer>>
    BY <1>8 DEF ReplayGoesOn
  <2>2. /\ turn' \in [Turn -> TurnState] /\ sending' \in BOOLEAN /\ listening' \in BOOLEAN /\ crossed' \in BOOLEAN
        /\ OneTurn' /\ EndMeansOver' /\ NoGhostTurn' /\ FiledInv' /\ ResetInv' /\ OldInv'
    <3>1. CASE \E t \in Turn : Begin(t)
      <4>1. PICK t \in Turn : Begin(t)
        BY <3>1
      <4> QED
        BY <1>3, <1>4, <4>1, BeginKeeps
    <3>2. CASE /\ sending' = FALSE
               /\ crossed' = (crossed \/ Overlap)
               /\ UNCHANGED <<listening, turn>>
      <4>1. ~crossed' => ~crossed /\ \A t \in Turn : turn[t].pc \notin LivePC
        BY <3>2 DEF Overlap, Live, Preparing, At, LivePC
      <4>2. OneTurn' /\ EndMeansOver' /\ NoGhostTurn' /\ FiledInv' /\ ResetInv' /\ OldInv'
        BY <1>3, <1>4, <3>2, <4>1, FrontMoves
      <4> QED
        BY <1>1, <3>2, <4>2 DEF TypeOK
    <3> QED
      BY <1>8, <3>1, <3>2 DEF ReplayGoesOn
  <2>3. TypeOK'
    BY <1>1, <1>3, <1>4, <2>1, <2>2 DEF TypeOK, NotStopping
  <2>4. StopInv' /\ QueuedNotLost'
    BY <1>1, <1>3, <2>1 DEF StopInv, QueuedNotLost, NotStopping
  <2> QED
    BY <2>2, <2>3, <2>4 DEF IInv
<1> QED
  BY <1>6, <1>7, <1>8 DEF Deliver

-----------------------------------------------------------------------------
(* The backend *)

\* The backend moves: no turn begins, no entry loses who looks after it, and a note
\* of an end is the end of the turn that was live.
LEMMA Moves ==
  ASSUME IInv, UNCHANGED ui, queueCalls' \in SUBSET Msg,
         stopCall' \in [pc: {"none", "called", "waiting", "returning"}, turn: Turn \cup {NoTurn}], StopInv',
         toUI' \in Seq(Notes), turn' \in [Turn -> TurnState],
         runners' \in Turn \cup {NoTurn}, resetting' \in Turn \cup {NoTurn}, crossed' \in BOOLEAN,
         crossed => crossed',
         EndIn(toUI') =>
           EndIn(toUI) \/ \E t \in Turn : turn[t].pc \in LivePC /\ turn'[t].pc \notin LivePC,
         \A v \in Turn : turn'[v].pc \in LivePC => turn[v].pc \in LivePC,
         \A v \in Turn : Handled(turn[v]) => Handled(turn'[v]),
         \A v \in Turn : turn'[v].pc = "waitOld" => turn'[v].old \in Turn,
         resetting' \notin {resetting, NoTurn} => Handled(turn'[resetting']),
         ~crossed' => \A v \in Turn : Filed(v, turn'[v], runners')
  PROVE  IInv'
<1>1. TypeOK
  BY DEF IInv
<1>2. TypeOK'
  BY <1>1 DEF TypeOK, ui
<1>3. OneTurn'
  BY DEF IInv, OneTurn
<1>4. EndMeansOver'
  BY DEF IInv, EndMeansOver, OneTurn
<1>5. NoGhostTurn'
  BY Shown DEF NoGhostTurn, Live, Preparing, At, LivePC, ui
<1>6. FiledInv'
  BY DEF FiledInv
<1>7. ResetInv'
  BY <1>1 DEF IInv, ResetInv, TypeOK
<1>8. OldInv' /\ QueuedNotLost'
  BY DEF IInv, OldInv, QueuedNotLost, ui
<1> QED
  BY <1>2, <1>3, <1>4, <1>5, <1>6, <1>7, <1>8 DEF IInv

\* One turn moves.
LEMMA OneMoves ==
  ASSUME IInv, UNCHANGED ui, queueCalls' \in SUBSET Msg,
         stopCall' \in [pc: {"none", "called", "waiting", "returning"}, turn: Turn \cup {NoTurn}], StopInv',
         toUI' \in Seq(Notes), NEW t \in Turn, NEW u \in TurnState, turn' = [turn EXCEPT ![t] = u],
         runners' \in Turn \cup {NoTurn}, resetting' \in {resetting, NoTurn, t}, crossed' \in BOOLEAN,
         crossed => crossed',
         EndIn(toUI') => EndIn(toUI) \/ (turn[t].pc \in LivePC /\ u.pc \notin LivePC),
         u.pc \in LivePC => turn[t].pc \in LivePC,
         Handled(turn[t]) => Handled(u),
         u.pc = "waitOld" => u.old \in Turn,
         resetting' \notin {resetting, NoTurn} => Handled(u),
         ~crossed' => Filed(t, u, runners') /\ \A v \in Turn \ {t} : Filed(v, turn[v], runners')
  PROVE  IInv'
<1>1. turn \in [Turn -> TurnState] /\ resetting \in Turn \cup {NoTurn}
  BY DEF IInv, TypeOK
<1>2. turn' \in [Turn -> TurnState] /\ turn'[t] = u /\ \A v \in Turn \ {t} : turn'[v] = turn[v]
  BY <1>1
<1>3. resetting' \in Turn \cup {NoTurn}
  BY <1>1
<1>4. EndIn(toUI') =>
        EndIn(toUI) \/ \E v \in Turn : turn[v].pc \in LivePC /\ turn'[v].pc \notin LivePC
  BY <1>2
<1>5. /\ \A v \in Turn : turn'[v].pc \in LivePC => turn[v].pc \in LivePC
      /\ \A v \in Turn : Handled(turn[v]) => Handled(turn'[v])
      /\ \A v \in Turn : turn'[v].pc = "waitOld" => turn'[v].old \in Turn
  <2>1. \A v \in Turn : turn[v].pc = "waitOld" => turn[v].old \in Turn
    BY DEF IInv, OldInv
  <2> QED
    BY <1>2, <2>1
<1>6. resetting' \notin {resetting, NoTurn} => Handled(turn'[resetting'])
  BY <1>2
<1>7. ~crossed' => \A v \in Turn : Filed(v, turn'[v], runners')
  BY <1>2
<1> QED
  BY <1>2, <1>3, <1>4, <1>5, <1>6, <1>7, Moves

\* What is filed beside the turns stays right when the entry is taken out, if the
\* entry's own turn is looked after.
LEMMA TakenOut ==
  ASSUME FiledInv, ~crossed, NEW v \in Turn, runners # v
  PROVE  Filed(v, turn[v], NoTurn)
BY DEF FiledInv, Filed

\* One turn moves, and neither a.runners nor the stop and the reset do.
LEMMA OneKept ==
  ASSUME IInv, UNCHANGED <<ui, stopCall, runners, resetting>>, queueCalls' \in SUBSET Msg,
         toUI' \in Seq(Notes), NEW t \in Turn, NEW u \in TurnState, turn' = [turn EXCEPT ![t] = u],
         crossed' \in BOOLEAN, crossed => crossed',
         EndIn(toUI') => EndIn(toUI) \/ (turn[t].pc \in LivePC /\ u.pc \notin LivePC),
         u.pc \in LivePC => turn[t].pc \in LivePC,
         Handled(turn[t]) => Handled(u),
         u.pc = "waitOld" => u.old \in Turn,
         Filed(t, turn[t], runners) => Filed(t, u, runners)
  PROVE  IInv'
<1>1. runners \in Turn \cup {NoTurn} /\ StopInv
      /\ stopCall \in [pc: {"none", "called", "waiting", "returning"}, turn: Turn \cup {NoTurn}]
  BY DEF IInv, TypeOK
<1>2. /\ runners' \in Turn \cup {NoTurn} /\ resetting' \in {resetting, NoTurn, t}
      /\ resetting' \notin {resetting, NoTurn} => Handled(u)
      /\ stopCall' \in [pc: {"none", "called", "waiting", "returning"}, turn: Turn \cup {NoTurn}]
  BY <1>1
<1>3. StopInv' /\ UNCHANGED ui
  BY <1>1 DEF StopInv
<1>4. ~crossed' => Filed(t, u, runners') /\ \A v \in Turn \ {t} : Filed(v, turn[v], runners')
  BY DEF IInv, FiledInv
<1> QED
  BY <1>2, <1>3, <1>4, OneMoves

\* A turn is prepared, and nothing is filed or taken out.
LEMMA PrepareKeeps ==
  ASSUME IInv, NEW t \in Turn,
         \/ Refuse(t) \/ OldStopped(t) \/ BuildFail(t) \/ LLMSend(t) \/ CloseDone(t)
         \/ (LoadAndDelete(t) /\ runners = NoTurn)
  PROVE  IInv'
<1>1. TypeOK /\ turn[t] \in TurnState /\ toUI \in Seq(Notes) /\ UNCHANGED <<ui, stopCall, runners, resetting>>
      /\ queueCalls' \in SUBSET Msg /\ crossed' \in BOOLEAN /\ (crossed => crossed')
  BY DEF IInv, TypeOK, Refuse, OldStopped, BuildFail, LLMSend, CloseDone, LoadAndDelete, calls
<1>2. turn \in [Turn -> TurnState]
  BY <1>1 DEF TypeOK
<1>3. CASE Refuse(t)
  <2>1. PICK u : u = [turn[t] EXCEPT !.pc = "rejected"]
    OBVIOUS
  <2>2. /\ u \in TurnState /\ u.pc = "rejected"
        /\ u.released = turn[t].released /\ u.stopping = turn[t].stopping
    BY <1>1, <2>1 DEF TurnState, TurnPC
  <2>3. turn[t].pc = "called" /\ turn' = [turn EXCEPT ![t] = u]
    BY <1>2, <1>3, <2>1 DEF Refuse, At
  <2>4. toUI' \in Seq(Notes)
    BY <1>1, <1>3, NoteType, AppendEnd DEF Refuse, Emit
  <2> QED
    BY <1>1, <2>2, <2>3, <2>4, OneKept DEF Handled, Filed, LivePC
<1>4. CASE OldStopped(t)
  <2>1. PICK u : u = [turn[t] EXCEPT !.pc = "build", !.old = NoTurn]
    OBVIOUS
  <2>2. /\ u \in TurnState /\ u.pc = "build"
        /\ u.released = turn[t].released /\ u.stopping = turn[t].stopping
    BY <1>1, <2>1 DEF TurnState, TurnPC
  <2>3. turn[t].pc = "waitOld" /\ turn' = [turn EXCEPT ![t] = u] /\ toUI' = toUI
    BY <1>2, <1>4, <2>1 DEF OldStopped, At
  <2> QED
    BY <1>1, <2>2, <2>3, OneKept DEF Handled, Filed, LivePC
<1>5. CASE BuildFail(t)
  <2>1. PICK u : u = [turn[t] EXCEPT !.pc = "rejected"]
    OBVIOUS
  <2>2. /\ u \in TurnState /\ u.pc = "rejected"
        /\ u.released = turn[t].released /\ u.stopping = turn[t].stopping
    BY <1>1, <2>1 DEF TurnState, TurnPC
  <2>3. turn[t].pc = "build" /\ turn' = [turn EXCEPT ![t] = u]
    BY <1>2, <1>5, <2>1 DEF BuildFail, At
  <2>4. toUI' \in Seq(Notes)
    <3>1. PICK a, b : a = Note("error", {}) /\ b = Note("rejected", {})
      OBVIOUS
    <3>2. a \in Notes /\ b \in Notes /\ toUI' = toUI \o <<a, b>>
      BY <1>5, <3>1, NoteType DEF BuildFail
    <3> QED
      BY <1>1, <3>2
  <2> QED
    BY <1>1, <2>2, <2>3, <2>4, OneKept DEF Handled, Filed, LivePC
<1>6. CASE LLMSend(t)
  <2>1. PICK u : u = [turn[t] EXCEPT !.pc = "running"]
    OBVIOUS
  <2>2. /\ u \in TurnState /\ u.pc = "running"
        /\ u.released = turn[t].released /\ u.stopping = turn[t].stopping
    BY <1>1, <2>1 DEF TurnState, TurnPC
  <2>3. turn[t].pc = "stored" /\ turn' = [turn EXCEPT ![t] = u] /\ toUI' = toUI
    BY <1>2, <1>6, <2>1 DEF LLMSend, At
  <2> QED
    BY <1>1, <2>2, <2>3, OneKept DEF Handled, Filed, LivePC
<1>7. CASE CloseDone(t)
  <2>1. PICK u : u = [turn[t] EXCEPT !.pc = "closed"]
    OBVIOUS
  <2>2. /\ u \in TurnState /\ u.pc = "closed"
        /\ u.released = turn[t].released /\ u.stopping = turn[t].stopping
    BY <1>1, <2>1 DEF TurnState, TurnPC
  <2>3. turn[t].pc = "ended" /\ turn' = [turn EXCEPT ![t] = u] /\ toUI' = toUI
    BY <1>2, <1>7, <2>1 DEF CloseDone, At
  <2> QED
    BY <1>1, <2>2, <2>3, OneKept DEF Handled, Filed, LivePC
<1>8. CASE LoadAndDelete(t) /\ runners = NoTurn
  <2>1. PICK u : u = [turn[t] EXCEPT !.pc = "build"]
    OBVIOUS
  <2>2. /\ u \in TurnState /\ u.pc = "build"
        /\ u.released = turn[t].released /\ u.stopping = turn[t].stopping
    BY <1>1, <2>1 DEF TurnState, TurnPC
  <2>3. turn[t].pc = "called" /\ turn' = [turn EXCEPT ![t] = u] /\ toUI' = toUI
    BY <1>2, <1>8, <2>1 DEF LoadAndDelete, At
  <2> QED
    BY <1>1, <1>8, <2>2, <2>3, OneKept DEF Handled, Filed, LivePC
<1> QED
  BY <1>3, <1>4, <1>5, <1>6, <1>7, <1>8

\* The model works, and its turn ends; what it has been steered with goes in and out.
LEMMA RunKeeps ==
  ASSUME IInv, NEW t \in Turn,
         \/ End(t) \/ (\E m \in Msg : Consume(t, m))
         \/ (runners = t /\ \E m \in Msg : Steer(m))
         \/ (runners = t /\ \E ms \in SUBSET Msg : Withdraw(ms))
  PROVE  IInv'
<1>1. TypeOK /\ turn[t] \in TurnState /\ toUI \in Seq(Notes) /\ UNCHANGED <<ui, stopCall, runners, resetting>>
      /\ queueCalls' \in SUBSET Msg /\ crossed' \in BOOLEAN /\ (crossed => crossed')
  BY DEF IInv, TypeOK, End, Consume, Steer, Withdraw, calls
<1>2. turn \in [Turn -> TurnState]
  BY <1>1 DEF TypeOK
<1>3. CASE End(t)
  <2>1. PICK u : u = [turn[t] EXCEPT !.pc = "ended", !.canceled = FALSE, !.steers = {}]
    OBVIOUS
  <2>2. /\ u \in TurnState /\ u.pc = "ended"
        /\ u.released = turn[t].released /\ u.stopping = turn[t].stopping
    BY <1>1, <2>1 DEF TurnState, TurnPC
  <2>3. turn[t].pc = "running" /\ turn' = [turn EXCEPT ![t] = u]
    BY <1>2, <1>3, <2>1 DEF End, At
  <2>4. toUI' \in Seq(Notes)
    <3>1. PICK type \in {"stopped", "done", "error"} : Emit(type)
      BY <1>3 DEF End
    <3> QED
      BY <1>1, <3>1, NoteType, AppendEnd DEF Emit
  <2> QED
    BY <1>1, <2>2, <2>3, <2>4, OneKept DEF Handled, Filed, LivePC
<1>4. CASE \E m \in Msg : Consume(t, m)
  <2>1. PICK m \in Msg : Consume(t, m)
    BY <1>4
  <2>2. PICK u : u = [turn[t] EXCEPT !.steers = @ \ {m}]
    OBVIOUS
  <2>3. /\ u \in TurnState /\ u.pc = turn[t].pc /\ u.old = turn[t].old
        /\ u.released = turn[t].released /\ u.stopping = turn[t].stopping
    BY <1>1, <2>2 DEF TurnState
  <2>4. turn[t].pc = "running" /\ turn' = [turn EXCEPT ![t] = u]
    BY <1>2, <2>1, <2>2 DEF Consume, At
  <2>5. toUI' \in Seq(Notes) /\ (EndIn(toUI') => EndIn(toUI))
    <3>1. PICK n : n = Note("consumed", {m})
      OBVIOUS
    <3>2. n \in Notes /\ n.type = "consumed" /\ toUI' = Append(toUI, n)
      BY <2>1, <3>1, NoteType DEF Consume
    <3> QED
      BY <1>1, <3>2, AppendEnd DEF EndTypes
  <2> QED
    BY <1>1, <2>3, <2>4, <2>5, OneKept DEF Handled, Filed, LivePC
<1>5. CASE runners = t /\ \E m \in Msg : Steer(m)
  <2>1. PICK m \in Msg : Steer(m)
    BY <1>5
  <2>2. CASE turn[t].pc = "running"
    <3>1. PICK u : u = [turn[t] EXCEPT !.steers = @ \cup {m}]
      OBVIOUS
    <3>2. /\ u \in TurnState /\ u.pc = turn[t].pc /\ u.old = turn[t].old
          /\ u.released = turn[t].released /\ u.stopping = turn[t].stopping
      BY <1>1, <3>1 DEF TurnState
    <3>3. turn' = [turn EXCEPT ![t] = u] /\ toUI' = toUI
      BY <1>2, <1>5, <2>1, <2>2, <3>1 DEF Steer, At
    <3> QED
      BY <1>1, <2>2, <3>2, <3>3, OneKept DEF Handled, Filed, LivePC
  <2>3. CASE turn[t].pc # "running"
    <3>1. turn' = turn /\ toUI' = toUI
      BY <1>5, <2>1, <2>3 DEF Steer, At
    <3>2. turn' = [turn EXCEPT ![t] = turn[t]]
      BY <1>2, <3>1
    <3>3. turn[t].pc = "waitOld" => turn[t].old \in Turn
      BY DEF IInv, OldInv
    <3> QED
      BY <1>1, <3>1, <3>2, <3>3, OneKept
  <2> QED
    BY <2>2, <2>3
<1>6. CASE runners = t /\ \E ms \in SUBSET Msg : Withdraw(ms)
  <2>1. PICK ms \in SUBSET Msg : Withdraw(ms)
    BY <1>6
  <2>2. PICK u : u = [turn[t] EXCEPT !.steers = @ \ ms]
    OBVIOUS
  <2>3. /\ u \in TurnState /\ u.pc = turn[t].pc /\ u.old = turn[t].old
        /\ u.released = turn[t].released /\ u.stopping = turn[t].stopping
    BY <1>1, <2>2 DEF TurnState
  <2>4. turn' = [turn EXCEPT ![t] = u]
    BY <1>2, <1>6, <2>1, <2>2 DEF Withdraw
  <2>5. toUI' \in Seq(Notes) /\ (EndIn(toUI') => EndIn(toUI))
    <3>1. PICK n : n = Note("removed", ms)
      OBVIOUS
    <3>2. n \in Notes /\ n.type = "removed" /\ toUI' = Append(toUI, n)
      BY <2>1, <3>1, NoteType DEF Withdraw
    <3> QED
      BY <1>1, <3>2, AppendEnd DEF EndTypes
  <2>6. turn[t].pc = "waitOld" => turn[t].old \in Turn
    BY DEF IInv, OldInv
  <2> QED
    BY <1>1, <2>3, <2>4, <2>5, <2>6, OneKept DEF Handled, Filed
<1> QED
  BY <1>3, <1>4, <1>5, <1>6

\* stopEntry stops waiting and releases.
LEMMA ReleaseKeeps ==
  ASSUME IInv, NEW t \in Turn, StopEntry(t)
  PROVE  IInv'
<1>1. TypeOK /\ turn[t] \in TurnState /\ toUI' \in Seq(Notes) /\ toUI' = toUI
      /\ UNCHANGED <<ui, stopCall, runners, resetting>> /\ queueCalls' \in SUBSET Msg
  BY DEF IInv, TypeOK, StopEntry, StopWait, StopTimeout, calls
<1>2. crossed' \in BOOLEAN /\ (crossed => crossed')
  BY <1>1 DEF StopEntry, StopWait, StopTimeout, TypeOK
<1>3. PICK u : u = [turn[t] EXCEPT !.stopping = FALSE, !.released = TRUE]
  OBVIOUS
<1>4. /\ u \in TurnState /\ u.pc = turn[t].pc /\ u.old = turn[t].old /\ u.released
  BY <1>1, <1>3 DEF TurnState
<1>5. turn' = [turn EXCEPT ![t] = u]
  BY <1>1, <1>3 DEF StopEntry, StopWait, StopTimeout, TypeOK
<1>6. turn[t].pc = "waitOld" => turn[t].old \in Turn
  BY DEF IInv, OldInv
<1> QED
  BY <1>1, <1>2, <1>4, <1>5, <1>6, OneKept DEF Handled, Filed

\* stopEntry begins with a filed entry.
LEMMA TakenIs ==
  ASSUME TypeOK, NEW r \in Turn
  PROVE  \E x \in TurnState : /\ Taken(turn, r) = [turn EXCEPT ![r] = x]
                              /\ x.pc = turn[r].pc /\ x.old = turn[r].old /\ x.stopping
                              /\ x.released = turn[r].released
<1>1. turn \in [Turn -> TurnState] /\ turn[r] \in TurnState
  BY DEF TypeOK
<1>2. PICK b \in BOOLEAN : b = (turn[r].canceled \/ turn[r].pc = "running")
  OBVIOUS
<1>3. PICK x : x = [turn[r] EXCEPT !.stopping = TRUE, !.canceled = b]
  OBVIOUS
<1>4. x \in TurnState /\ x.pc = turn[r].pc /\ x.old = turn[r].old /\ x.stopping
      /\ x.released = turn[r].released
  BY <1>1, <1>3 DEF TurnState
<1>5. Taken(turn, r) = [turn EXCEPT ![r] = x]
  BY <1>1, <1>2, <1>3 DEF Taken, At
<1> QED
  BY <1>4, <1>5

\* The stop button and the reset take a filed entry, and the reset deletes what is filed.
LEMMA TakeKeeps ==
  ASSUME IInv, StopTake \/ ResetRead \/ ResetDelete
  PROVE  IInv'
<1>1. /\ TypeOK /\ StopInv /\ turn \in [Turn -> TurnState] /\ toUI \in Seq(Notes)
      /\ crossed \in BOOLEAN /\ resetting \in Turn \cup {NoTurn} /\ runners \in Turn \cup {NoTurn}
      /\ queueCalls \in SUBSET Msg
      /\ stopCall \in [pc: {"none", "called", "waiting", "returning"}, turn: Turn \cup {NoTurn}]
  BY DEF IInv, TypeOK
<1>2. /\ UNCHANGED <<ui, queueCalls, toUI>>
  BY DEF StopTake, ResetRead, ResetDelete, calls
<1>3. /\ \A v \in Turn : turn[v].pc = "waitOld" => turn[v].old \in Turn
      /\ ~crossed => \A v \in Turn : Filed(v, turn[v], runners)
  BY DEF IInv, OldInv, FiledInv
<1>4. CASE StopTake \/ ResetRead
  <2>1. runners \in Turn /\ turn' = Taken(turn, runners) /\ crossed' = crossed
    BY <1>1, <1>4 DEF StopTake, ResetRead
  <2>2. PICK x \in TurnState : /\ Taken(turn, runners) = [turn EXCEPT ![runners] = x]
                               /\ x.pc = turn[runners].pc /\ x.old = turn[runners].old /\ x.stopping
                               /\ x.released = turn[runners].released
    BY <1>1, <2>1, TakenIs
  <2>3. /\ stopCall' \in [pc: {"none", "called", "waiting", "returning"}, turn: Turn \cup {NoTurn}] /\ StopInv'
    BY <1>1, <1>4, <2>1 DEF StopTake, ResetRead, calls, StopInv
  <2>4. runners' \in {runners, NoTurn} /\ resetting' \in {resetting, runners}
    BY <1>4 DEF StopTake, ResetRead
  <2>5. Handled(x) /\ (x.pc = "waitOld" => x.old \in Turn)
    BY <1>3, <2>1, <2>2 DEF Handled
  <2>6. ASSUME ~crossed'
        PROVE  Filed(runners, x, runners') /\ \A v \in Turn \ {runners} : Filed(v, turn[v], runners')
    <3>1. Filed(runners, x, runners')
      BY <1>3, <2>1, <2>2, <2>4, <2>5, <2>6 DEF Filed
    <3>2. ASSUME NEW v \in Turn \ {runners}
          PROVE  Filed(v, turn[v], runners')
      BY <1>3, <2>1, <2>4, <2>6 DEF Filed
    <3> QED
      BY <3>1, <3>2
  <2>7. PICK r \in Turn : r = runners
    BY <2>1
  <2>8. turn' = [turn EXCEPT ![r] = x]
    BY <2>1, <2>2, <2>7
  <2>9. /\ toUI' \in Seq(Notes) /\ (EndIn(toUI') => EndIn(toUI)) /\ UNCHANGED ui
        /\ queueCalls' \in SUBSET Msg /\ crossed' \in BOOLEAN /\ (crossed => crossed')
        /\ runners' \in Turn \cup {NoTurn} /\ resetting' \in {resetting, NoTurn, r}
        /\ x.pc \in LivePC => turn[r].pc \in LivePC
    BY <1>1, <1>2, <2>1, <2>2, <2>4, <2>7
  <2>10. ~crossed' => Filed(r, x, runners') /\ \A v \in Turn \ {r} : Filed(v, turn[v], runners')
    BY <2>6, <2>7
  <2> QED
    BY <2>3, <2>5, <2>8, <2>9, <2>10, OneMoves
<1>5. CASE ResetDelete
  <2>1. /\ resetting \in Turn /\ runners' = NoTurn /\ resetting' = NoTurn /\ UNCHANGED <<turn, stopCall>>
        /\ crossed' = (crossed \/ runners \notin {resetting, NoTurn})
    BY <1>1, <1>5 DEF ResetDelete, calls
  <2>2. Handled(turn[resetting])
    BY <1>5 DEF IInv, ResetInv, ResetDelete
  <2>3. ASSUME ~crossed', NEW v \in Turn
        PROVE  Filed(v, turn[v], NoTurn)
    BY <1>3, <2>1, <2>2, <2>3 DEF Filed
  <2>4. /\ toUI' \in Seq(Notes) /\ (EndIn(toUI') => EndIn(toUI)) /\ UNCHANGED ui
        /\ queueCalls' \in SUBSET Msg /\ crossed' \in BOOLEAN /\ (crossed => crossed')
        /\ stopCall' \in [pc: {"none", "called", "waiting", "returning"}, turn: Turn \cup {NoTurn}] /\ StopInv'
    BY <1>1, <1>2, <2>1 DEF StopInv
  <2>5. PICK r \in Turn : r = resetting
    BY <2>1
  <2>6. turn' = [turn EXCEPT ![r] = turn[r]] /\ turn[r] \in TurnState
    BY <1>1, <2>1
  <2>7. ~crossed' => Filed(r, turn[r], runners') /\ \A v \in Turn \ {r} : Filed(v, turn[v], runners')
    BY <2>1, <2>3
  <2>8. runners' \in Turn \cup {NoTurn} /\ resetting' \in {resetting, NoTurn, r}
        /\ resetting' \in {resetting, NoTurn} /\ (turn[r].pc = "waitOld" => turn[r].old \in Turn)
    BY <1>3, <2>1
  <2> QED
    BY <2>4, <2>6, <2>7, <2>8, OneMoves
<1> QED
  BY <1>4, <1>5

\* The calls of the front end that touch no turn.
LEMMA CallsKeep ==
  ASSUME IInv, (\E m \in Msg : SteerFail(m)) \/ StopNothing \/ StopReturn
  PROVE  IInv'
<1>1. /\ TypeOK /\ StopInv /\ turn \in [Turn -> TurnState] /\ toUI \in Seq(Notes)
      /\ crossed \in BOOLEAN /\ resetting \in Turn \cup {NoTurn} /\ runners \in Turn \cup {NoTurn}
      /\ queueCalls \in SUBSET Msg
      /\ stopCall \in [pc: {"none", "called", "waiting", "returning"}, turn: Turn \cup {NoTurn}]
  BY DEF IInv, TypeOK
<1>2. UNCHANGED <<ui, runners, turn, resetting, crossed>> /\ queueCalls' \in SUBSET Msg
  BY <1>1 DEF SteerFail, StopNothing, StopReturn
<1>3. stopCall' \in [pc: {"none", "called", "waiting", "returning"}, turn: Turn \cup {NoTurn}] /\ StopInv'
  BY <1>1 DEF SteerFail, StopNothing, StopReturn, NotStopping, StopInv
<1>4. toUI' \in Seq(Notes) /\ (EndIn(toUI') => EndIn(toUI))
  <2>1. PICK n : n \in Notes /\ n.type \notin EndTypes /\ toUI' = Append(toUI, n)
    <3>1. CASE \E m \in Msg : SteerFail(m)
      <4>1. PICK m \in Msg : SteerFail(m)
        BY <3>1
      <4> QED
        BY <4>1, NoteType DEF SteerFail, EndTypes
    <3>2. CASE StopNothing \/ StopReturn
      BY <3>2, NoteType DEF StopNothing, StopReturn, Emit, EndTypes
    <3> QED
      BY <3>1, <3>2
  <2> QED
    BY <1>1, <2>1, AppendEnd
<1>5. /\ \A v \in Turn : turn'[v].pc \in LivePC => turn[v].pc \in LivePC
      /\ \A v \in Turn : Handled(turn[v]) => Handled(turn'[v])
      /\ \A v \in Turn : turn'[v].pc = "waitOld" => turn'[v].old \in Turn
      /\ ~crossed' => \A v \in Turn : Filed(v, turn'[v], runners')
  BY <1>2 DEF IInv, OldInv, FiledInv
<1> QED
  BY <1>1, <1>2, <1>3, <1>4, <1>5, Moves

\* A turn is filed, and takes itself out when it fails or is over.
LEMMA FileKeeps ==
  ASSUME IInv, NEW t \in Turn, Store(t) \/ LLMSendFail(t) \/ FinishRunner(t)
  PROVE  IInv'
<1>1. /\ TypeOK /\ StopInv /\ turn \in [Turn -> TurnState] /\ turn[t] \in TurnState /\ toUI \in Seq(Notes)
      /\ crossed \in BOOLEAN /\ resetting \in Turn \cup {NoTurn} /\ runners \in Turn \cup {NoTurn}
      /\ queueCalls \in SUBSET Msg
      /\ stopCall \in [pc: {"none", "called", "waiting", "returning"}, turn: Turn \cup {NoTurn}]
  BY DEF IInv, TypeOK
<1>2. UNCHANGED <<ui, queueCalls, stopCall, resetting, crossed>>
  BY DEF Store, LLMSendFail, FinishRunner, calls
<1>3. /\ queueCalls' \in SUBSET Msg /\ crossed' \in BOOLEAN /\ (crossed => crossed') /\ UNCHANGED ui
      /\ stopCall' \in [pc: {"none", "called", "waiting", "returning"}, turn: Turn \cup {NoTurn}] /\ StopInv'
      /\ resetting' \in {resetting, NoTurn, t} /\ resetting' \in {resetting, NoTurn}
  BY <1>1, <1>2 DEF StopInv
<1>4. ~crossed => /\ \A v \in Turn : Filed(v, turn[v], runners)
                  /\ \A v \in Turn : turn[t].pc \in LivePC /\ turn[v].pc \in LivePC => v = t
  BY DEF IInv, FiledInv, OneTurn
<1>5. CASE Store(t)
  <2>1. PICK u : u = [turn[t] EXCEPT !.pc = "stored"]
    OBVIOUS
  <2>2. /\ u \in TurnState /\ u.pc = "stored"
        /\ u.released = turn[t].released /\ u.stopping = turn[t].stopping
    BY <1>1, <2>1 DEF TurnState, TurnPC
  <2>3. turn[t].pc = "build" /\ turn' = [turn EXCEPT ![t] = u] /\ toUI' = toUI /\ runners' = t
    BY <1>1, <1>5, <2>1 DEF Store, At
  <2>4. ASSUME ~crossed'
        PROVE  Filed(t, u, runners') /\ \A v \in Turn \ {t} : Filed(v, turn[v], runners')
    <3>1. Filed(t, u, runners')
      BY <2>2, <2>3 DEF Filed
    <3>2. runners = NoTurn /\ ~crossed
      BY <1>2, <1>4, <2>3, <2>4 DEF Filed
    <3>3. ASSUME NEW v \in Turn \ {t}
          PROVE  Filed(v, turn[v], runners')
      <4>1. turn[v].pc \notin LivePC /\ Filed(v, turn[v], NoTurn)
        BY <1>4, <2>3, <3>2 DEF LivePC
      <4>2. v # NoTurn
        BY ChatConstants
      <4> QED
        BY <4>1, <4>2 DEF Filed, LivePC
    <3> QED
      BY <3>1, <3>3
  <2>5. /\ toUI' \in Seq(Notes) /\ (EndIn(toUI') => EndIn(toUI)) /\ runners' \in Turn \cup {NoTurn}
        /\ (Handled(turn[t]) => Handled(u)) /\ (u.pc \in LivePC => turn[t].pc \in LivePC)
        /\ u.pc # "waitOld"
    BY <1>1, <2>2, <2>3 DEF Handled, LivePC
  <2> QED
    BY <1>3, <2>2, <2>3, <2>4, <2>5, OneMoves
<1>6. CASE LLMSendFail(t)
  <2>1. PICK u : u = [turn[t] EXCEPT !.pc = "rejected", !.released = TRUE]
    OBVIOUS
  <2>2. u \in TurnState /\ u.pc = "rejected" /\ u.released
    BY <1>1, <2>1 DEF TurnState, TurnPC
  <2>3. turn[t].pc = "stored" /\ turn' = [turn EXCEPT ![t] = u] /\ runners' = NoTurn
    BY <1>1, <1>6, <2>1 DEF LLMSendFail, At
  <2>4. ASSUME ~crossed'
        PROVE  Filed(t, u, runners') /\ \A v \in Turn \ {t} : Filed(v, turn[v], runners')
    <3>1. Filed(t, u, runners')
      BY <2>2 DEF Filed
    <3>2. runners \in {t, NoTurn} /\ ~crossed
      BY <1>2, <1>4, <2>3, <2>4 DEF Filed
    <3>3. ASSUME NEW v \in Turn \ {t}
          PROVE  Filed(v, turn[v], runners')
      <4>1. FiledInv /\ runners # v
        BY <3>2, ChatConstants DEF IInv
      <4> QED
        BY <2>3, <3>2, <4>1, TakenOut
    <3> QED
      BY <3>1, <3>3
  <2>5. toUI' \in Seq(Notes)
    <3>1. PICK a, b : a = Note("error", {}) /\ b = Note("rejected", {})
      OBVIOUS
    <3>2. a \in Notes /\ b \in Notes /\ toUI' = toUI \o <<a, b>>
      BY <1>6, <3>1, NoteType DEF LLMSendFail
    <3> QED
      BY <1>1, <3>2
  <2>6. /\ turn[t].pc \in LivePC /\ u.pc \notin LivePC /\ runners' \in Turn \cup {NoTurn}
        /\ Handled(u) /\ u.pc # "waitOld"
    BY <2>2, <2>3 DEF Handled, LivePC
  <2> QED
    BY <1>3, <2>2, <2>3, <2>4, <2>5, <2>6, OneMoves
<1>7. CASE FinishRunner(t)
  <2>1. PICK b \in BOOLEAN : b = (turn[t].released \/ runners = t)
    OBVIOUS
  <2>2. PICK u : u = [turn[t] EXCEPT !.pc = "finished", !.released = b]
    OBVIOUS
  <2>3. u \in TurnState /\ u.pc = "finished" /\ u.released = b /\ u.stopping = turn[t].stopping
    BY <1>1, <2>2 DEF TurnState, TurnPC
  <2>4. /\ turn[t].pc = "closed" /\ turn' = [turn EXCEPT ![t] = u] /\ toUI' = toUI
        /\ runners' = IF runners = t THEN NoTurn ELSE runners
    BY <1>1, <1>7, <2>1, <2>2 DEF FinishRunner, At
  <2>5. ASSUME ~crossed'
        PROVE  Filed(t, u, runners') /\ \A v \in Turn \ {t} : Filed(v, turn[v], runners')
    <3>1. Filed(t, turn[t], runners) /\ ~crossed /\ FiledInv
      BY <1>2, <1>4, <2>5 DEF IInv
    <3>2. Filed(t, u, runners')
      BY <2>1, <2>3, <2>4, <3>1 DEF Filed, Handled
    <3>3. ASSUME NEW v \in Turn \ {t}
          PROVE  Filed(v, turn[v], runners')
      <4>1. CASE runners = t
        BY <2>4, <3>1, <4>1, TakenOut
      <4>2. CASE runners # t
        BY <1>4, <2>4, <3>1, <4>2
      <4> QED
        BY <4>1, <4>2
    <3> QED
      BY <3>2, <3>3
  <2>6. /\ toUI' \in Seq(Notes) /\ (EndIn(toUI') => EndIn(toUI)) /\ runners' \in Turn \cup {NoTurn}
        /\ (Handled(turn[t]) => Handled(u)) /\ (u.pc \in LivePC => turn[t].pc \in LivePC)
        /\ u.pc # "waitOld"
    BY <1>1, <2>1, <2>3, <2>4 DEF Handled, LivePC
  <2> QED
    BY <1>3, <2>3, <2>4, <2>5, <2>6, OneMoves
<1> QED
  BY <1>5, <1>6, <1>7

\* A call of SendAIMessage takes the entry of the turn before it and stops that.
LEMMA SupersedeKeeps ==
  ASSUME IInv, NEW t \in Turn, LoadAndDelete(t), runners # NoTurn
  PROVE  IInv'
<1>1. /\ TypeOK /\ StopInv /\ turn \in [Turn -> TurnState] /\ toUI \in Seq(Notes)
      /\ crossed \in BOOLEAN /\ resetting \in Turn \cup {NoTurn} /\ runners \in Turn
      /\ queueCalls \in SUBSET Msg
      /\ stopCall \in [pc: {"none", "called", "waiting", "returning"}, turn: Turn \cup {NoTurn}]
  BY DEF IInv, TypeOK
<1>2. /\ UNCHANGED <<ui, queueCalls, stopCall, toUI, resetting, crossed>> /\ turn[t].pc = "called"
      /\ runners' = NoTurn
      /\ turn' = [Taken(turn, runners) EXCEPT ![t].pc = "waitOld", ![t].old = runners]
  BY DEF LoadAndDelete, calls, At
<1>3. PICK x \in TurnState : /\ Taken(turn, runners) = [turn EXCEPT ![runners] = x]
                             /\ x.pc = turn[runners].pc /\ x.old = turn[runners].old /\ x.stopping
                             /\ x.released = turn[runners].released
  BY <1>1, TakenIs
<1>4. PICK g : g = [turn EXCEPT ![runners] = x]
  OBVIOUS
<1>5. g \in [Turn -> TurnState] /\ g[runners] = x /\ \A v \in Turn \ {runners} : g[v] = turn[v]
  BY <1>1, <1>4
<1>6. PICK u : u = [g[t] EXCEPT !.pc = "waitOld", !.old = runners]
  OBVIOUS
<1>7. /\ u \in TurnState /\ u.pc = "waitOld" /\ u.old = runners
      /\ u.released = g[t].released /\ u.stopping = g[t].stopping
  <2>1. g[t] \in TurnState
    BY <1>5
  <2> QED
    BY <1>1, <1>6, <2>1 DEF TurnState, TurnPC
<1>8. turn' \in [Turn -> TurnState] /\ turn'[t] = u /\ \A v \in Turn \ {t} : turn'[v] = g[v]
  BY <1>2, <1>3, <1>4, <1>5, <1>6, <1>7
<1>9. /\ \A v \in Turn : turn'[v].pc \in LivePC => turn[v].pc \in LivePC
      /\ \A v \in Turn : Handled(turn[v]) => Handled(turn'[v])
      /\ \A v \in Turn : turn'[v].pc = "waitOld" => turn'[v].old \in Turn
  <2>1. ASSUME NEW v \in Turn
        PROVE  /\ turn'[v].pc \in LivePC => turn[v].pc \in LivePC
               /\ Handled(turn[v]) => Handled(turn'[v])
               /\ turn'[v].pc = "waitOld" => turn'[v].old \in Turn
    <3>1. turn[v].pc = "waitOld" => turn[v].old \in Turn
      BY DEF IInv, OldInv
    <3>2. g[v].pc = turn[v].pc /\ g[v].old = turn[v].old /\ (Handled(turn[v]) => Handled(g[v]))
      BY <1>3, <1>5 DEF Handled
    <3>3. CASE v = t
      BY <1>1, <1>2, <1>7, <1>8, <3>2, <3>3 DEF Handled, LivePC
    <3>4. CASE v # t
      BY <1>8, <3>1, <3>2, <3>4
    <3> QED
      BY <3>3, <3>4
  <2> QED
    BY <2>1
<1>10. ASSUME ~crossed', NEW v \in Turn
       PROVE  Filed(v, turn'[v], runners')
  <2>1. CASE v = t
    BY <1>2, <1>7, <1>8, <2>1 DEF Filed
  <2>2. CASE v # t /\ v = runners
    BY <1>2, <1>3, <1>5, <1>8, <2>2 DEF Filed, Handled
  <2>3. CASE v # t /\ v # runners
    <3>1. FiledInv /\ ~crossed
      BY <1>2, <1>10 DEF IInv
    <3> QED
      BY <1>2, <1>5, <1>8, <2>3, <3>1, TakenOut
  <2> QED
    BY <2>1, <2>2, <2>3
<1>11. /\ queueCalls' \in SUBSET Msg /\ crossed' \in BOOLEAN /\ (crossed => crossed') /\ UNCHANGED ui
       /\ stopCall' \in [pc: {"none", "called", "waiting", "returning"}, turn: Turn \cup {NoTurn}] /\ StopInv'
       /\ resetting' \in Turn \cup {NoTurn} /\ resetting' \in {resetting, NoTurn}
       /\ toUI' \in Seq(Notes) /\ (EndIn(toUI') => EndIn(toUI)) /\ runners' \in Turn \cup {NoTurn}
  BY <1>1, <1>2 DEF StopInv
<1> QED
  BY <1>8, <1>9, <1>10, <1>11, Moves

-----------------------------------------------------------------------------
(* The theorems *)

\* A conversation in which nothing has been sent.
LEMMA InitHolds == Init => IInv
<1> SUFFICES ASSUME Init PROVE IInv
  OBVIOUS
<1>1. Unused \in TurnState /\ Unused.pc = "unused"
  BY DEF Unused, TurnState, TurnPC
<1>2. turn \in [Turn -> TurnState] /\ \A t \in Turn : turn[t].pc = "unused"
  BY <1>1 DEF Init
<1>3. /\ stopCall \in [pc: {"none", "called", "waiting", "returning"}, turn: Turn \cup {NoTurn}]
      /\ stopCall.pc = "none"
  BY DEF Init, NotStopping
<1>4. toUI \in Seq(Notes) /\ ~EndIn(toUI)
  BY DEF Init, EndIn
<1>5. TypeOK
  BY <1>2, <1>3, <1>4 DEF Init, TypeOK
<1>6. OneTurn /\ EndMeansOver /\ OldInv
  BY <1>2, <1>4 DEF OneTurn, EndMeansOver, OldInv, LivePC
<1>7. NoGhostTurn
  BY <1>2 DEF NoGhostTurn, Live, Preparing, At
<1>8. FiledInv
  BY <1>2 DEF FiledInv, Filed
<1>9. ResetInv /\ StopInv /\ QueuedNotLost
  BY <1>3 DEF Init, ResetInv, StopInv, QueuedNotLost
<1> QED
  BY <1>5, <1>6, <1>7, <1>8, <1>9 DEF IInv

\* Every step of the front end, the calls and the backend keeps the invariant.
LEMMA StepKeeps ==
  ASSUME IInv, [Next]_vars
  PROVE  IInv'
<1>1. TypeOK
  BY DEF IInv
<1>2. CASE User
  <2>1. CASE UserStop \/ Replay \/ \E m \in Msg : UserQueue(m)
    BY <2>1, UserKeeps
  <2>2. CASE \E t \in Turn : UserSend(t) \/ ReplayIdle(t)
    BY <2>2, SendKeeps
  <2>3. CASE ClearQueued \/ \E m \in Msg : RemoveQueued(m)
    <3>1. PICK ms : Withdraw(ms)
      BY <2>3 DEF ClearQueued, RemoveQueued
    <3>2. runners \in Turn /\ turn[runners] \in TurnState /\ ms \subseteq turn[runners].steers
      BY <1>1, <3>1 DEF Withdraw, TypeOK
    <3>3. ms \in SUBSET Msg
      BY <3>2 DEF TurnState
    <3> QED
      BY <3>1, <3>2, <3>3, RunKeeps
  <2> QED
    BY <1>2, <2>1, <2>2, <2>3 DEF User
<1>3. CASE TimerSend
  <2>1. CASE sending
    BY <1>3, <2>1, UserKeeps
  <2>2. CASE ~sending
    <3>1. PICK t \in Turn : Begin(t)
      BY <1>3, <2>2 DEF TimerSend
    <3> QED
      BY <1>3, <3>1, SendKeeps
  <2> QED
    BY <2>1, <2>2
<1>4. CASE Deliver
  BY <1>4, DeliverKeeps
<1>5. CASE LLM
  BY <1>5, RunKeeps DEF LLM
<1>6. CASE StopAIGeneration \/ ResetRunners
  BY <1>6, TakeKeeps, CallsKeep DEF StopAIGeneration, ResetRunners
<1>7. CASE \E t \in Turn : Prepare(t) \/ Finish(t) \/ StopEntry(t)
  <2>1. PICK t \in Turn : Prepare(t) \/ Finish(t) \/ StopEntry(t)
    BY <1>7
  <2>2. CASE Refuse(t) \/ OldStopped(t) \/ BuildFail(t) \/ LLMSend(t) \/ CloseDone(t)
    BY <2>2, PrepareKeeps
  <2>3. CASE LoadAndDelete(t)
    BY <2>3, PrepareKeeps, SupersedeKeeps
  <2>4. CASE Store(t) \/ LLMSendFail(t) \/ FinishRunner(t)
    BY <2>4, FileKeeps
  <2>5. CASE StopEntry(t)
    BY <2>5, ReleaseKeeps
  <2> QED
    BY <2>1, <2>2, <2>3, <2>4, <2>5 DEF Prepare, Finish
<1>8. CASE \E m \in Msg : QueueAIMessage(m)
  <2>1. PICK m \in Msg : Steer(m) \/ SteerFail(m)
    BY <1>8 DEF QueueAIMessage
  <2>2. CASE Steer(m)
    <3>1. runners \in Turn
      BY <1>1, <2>2 DEF Steer, TypeOK
    <3> QED
      BY <2>2, <3>1, RunKeeps
  <2>3. CASE SteerFail(m)
    BY <2>3, CallsKeep
  <2> QED
    BY <2>1, <2>2, <2>3
<1>9. CASE UNCHANGED vars
  <2>1. UNCHANGED <<sending, listening, replaying, queue, shown, timer, typed, dropped, queueCalls,
                    stopCall, toUI, runners, turn, resetting, crossed>>
    BY <1>9 DEF vars
  <2>2. TypeOK' /\ OneTurn' /\ EndMeansOver'
    BY <2>1 DEF IInv, TypeOK, OneTurn, EndMeansOver
  <2>3. NoGhostTurn' /\ FiledInv' /\ ResetInv'
    BY <2>1 DEF IInv, NoGhostTurn, Live, Preparing, At, FiledInv, ResetInv
  <2>4. StopInv' /\ OldInv' /\ QueuedNotLost'
    BY <2>1 DEF IInv, StopInv, OldInv, QueuedNotLost
  <2> QED
    BY <2>2, <2>3, <2>4 DEF IInv
<1> QED
  BY <1>2, <1>3, <1>4, <1>5, <1>6, <1>7, <1>8, <1>9 DEF Next

\* The invariant holds in every state the conversation can reach.
THEOREM Invariance == Spec => []IInv
<1>1. Init => IInv
  BY InitHolds
<1>2. IInv /\ [Next]_vars => IInv'
  BY StepKeeps
<1> QED
  BY <1>1, <1>2, PTL DEF Spec

\* Every variable stays within its type.
THEOREM TypeCorrect == Spec => []TypeOK
<1>1. IInv => TypeOK
  BY DEF IInv
<1> QED
  BY <1>1, Invariance, PTL

\* Sending, stopping, replaying and resetting in whatever order, the front end shows the
\* conversation as running while a turn of it is live, unless turns have crossed.
THEOREM NoTurnUnseen == Spec => []NoGhostTurn
<1>1. IInv => NoGhostTurn
  BY DEF IInv
<1> QED
  BY <1>1, Invariance, PTL

\* An entry taken out of a.runners by one of the four that may take it is released by
\* that one or by finishRunner, unless turns have crossed.
THEOREM NothingLeaks == Spec => []NotLeaked
<1>1. IInv => NotLeaked
  BY DEF IInv, FiledInv, Filed, Handled, NotLeaked, At
<1> QED
  BY <1>1, Invariance, PTL

\* A message that was typed is queued, in the conversation, or was discarded by the user
\* or by QueueAIMessage's refusal.
THEOREM NothingQueuedIsLost == Spec => []QueuedNotLost
<1>1. IInv => QueuedNotLost
  BY DEF IInv
<1> QED
  BY <1>1, Invariance, PTL
=============================================================================

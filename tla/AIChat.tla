-------------------------------- MODULE AIChat --------------------------------
(***************************************************************************)
(* The turns of one AI conversation: SendAIMessage, QueueAIMessage,        *)
(* StopAIGeneration and the provider reset of internal/app/ai/chat.go,     *)
(* with the conversation's state in frontend/src/stores/aiStore.ts that    *)
(* calls them.  A turn is one call of SendAIMessage and the runner it      *)
(* starts.                                                                 *)
(*                                                                         *)
(* The frontend's calls run in goroutines of their own; events and the     *)
(* results of calls come back in the order in which they were issued       *)
(* (toUI).  Stream events carry the conversation and no turn.  Some tab    *)
(* shows the conversation throughout.  The cago runner is external; its    *)
(* stream is assumed to end with a done, stopped or error event.  Bound:   *)
(* one stop and one replay are under way at a time.                        *)
(***************************************************************************)
EXTENDS Sequences

CONSTANTS
  Turn,     \* turns
  NoTurn,   \* no entry in a.runners
  Msg       \* messages the user types while a turn is running

ASSUME ChatConstants == NoTurn \notin Turn

VARIABLES
  sending,    \* conversationStreaming.sending
  listening,  \* the conversation's listener is subscribed
  replaying,  \* a replay waits for its stop
  queue,      \* conversationStreaming.pendingQueue
  shown,      \* messages typed during a turn that are in the conversation
  timer,      \* drainQueue's setTimeout
  typed,      \* messages that have been typed
  dropped,    \* messages discarded by the user or by QueueAIMessage's refusal
  queueCalls, \* QueueAIMessage calls on their way
  stopCall,   \* the StopAIGeneration call: where it is, and the turn it stops
  toUI,       \* events and results on their way to the frontend
  runners,    \* a.runners of the conversation
  turn,       \* the turns
  resetting,  \* the entry that resetRunners has read
  crossed     \* a turn has begun before the last one's end was heard, or lives on without its entry

vars == <<sending, listening, replaying, queue, shown, timer, typed, dropped, queueCalls, stopCall,
          toUI, runners, turn, resetting, crossed>>

ui == <<sending, listening, replaying, queue, shown, timer, typed, dropped>>
calls == <<queueCalls, stopCall>>

-----------------------------------------------------------------------------
(* State *)

TurnPC == {"unused", "called", "waitOld", "build", "stored", "running", "ended", "closed",
           "finished", "rejected"}

TurnState == [pc: TurnPC, old: Turn \cup {NoTurn}, canceled: BOOLEAN, stopping: BOOLEAN,
              released: BOOLEAN, steers: SUBSET Msg]

Unused == [pc |-> "unused", old |-> NoTurn, canceled |-> FALSE, stopping |-> FALSE,
           released |-> FALSE, steers |-> {}]

NotStopping == [pc |-> "none", turn |-> NoTurn]

Note(type, ms) == [type |-> type, msgs |-> ms]

Notes == [type: {"done", "stopped", "error", "consumed", "rejected", "queueRejected", "removed",
                 "stopReturned"},
          msgs: SUBSET Msg]

TypeOK ==
  /\ sending \in BOOLEAN
  /\ listening \in BOOLEAN
  /\ replaying \in BOOLEAN
  /\ queue \in SUBSET Msg
  /\ shown \in SUBSET Msg
  /\ timer \in BOOLEAN
  /\ typed \in SUBSET Msg
  /\ dropped \in SUBSET Msg
  /\ queueCalls \in SUBSET Msg
  /\ stopCall \in [pc: {"none", "called", "waiting", "returning"}, turn: Turn \cup {NoTurn}]
  /\ toUI \in Seq(Notes)
  /\ runners \in Turn \cup {NoTurn}
  /\ turn \in [Turn -> TurnState]
  /\ resetting \in Turn \cup {NoTurn}
  /\ crossed \in BOOLEAN

Init ==
  /\ sending = FALSE
  /\ listening = FALSE
  /\ replaying = FALSE
  /\ queue = {}
  /\ shown = {}
  /\ timer = FALSE
  /\ typed = {}
  /\ dropped = {}
  /\ queueCalls = {}
  /\ stopCall = NotStopping
  /\ toUI = <<>>
  /\ runners = NoTurn
  /\ turn = [t \in Turn |-> Unused]
  /\ resetting = NoTurn
  /\ crossed = FALSE

At(t, pc) == turn[t].pc = pc

Done(t) == turn[t].pc \in {"closed", "finished", "rejected"}

Preparing(t) == turn[t].pc \in {"called", "waitOld", "build", "stored"}

Live(t) == Preparing(t) \/ At(t, "running")

Emit(type) == toUI' = Append(toUI, Note(type, {}))

-----------------------------------------------------------------------------
(* The frontend *)

\* The end of a turn that the frontend has yet to hear of.
EndComing == \E i \in DOMAIN toUI : toUI[i].type \in {"done", "stopped", "error", "rejected"}

\* A turn is going on, or its end is still to be heard of.
Overlap == EndComing \/ \E t \in Turn : Live(t)

\* _sendForConversation of a conversation that is not sending: the listener is
\* subscribed anew and SendAIMessage called.
Begin(t) ==
  /\ At(t, "unused")
  /\ sending' = TRUE
  /\ listening' = TRUE
  /\ turn' = [turn EXCEPT ![t].pc = "called"]
  /\ crossed' = (crossed \/ Overlap)

UserSend(t) ==
  /\ ~sending
  /\ Begin(t)
  /\ UNCHANGED <<replaying, queue, shown, timer, typed, dropped, calls, toUI, runners, resetting>>

\* _sendForConversation of a conversation that is sending queues the message.
UserQueue(m) ==
  /\ sending
  /\ m \notin typed
  /\ typed' = typed \cup {m}
  /\ queue' = queue \cup {m}
  /\ queueCalls' = queueCalls \cup {m}
  /\ UNCHANGED <<sending, listening, replaying, shown, timer, dropped, stopCall, toUI, runners, turn,
                 resetting, crossed>>

\* The drained messages are sent; if somebody sends already there is nothing to do.
TimerSend ==
  /\ timer
  /\ timer' = FALSE
  /\ IF sending THEN UNCHANGED <<sending, listening, turn, crossed>> ELSE \E t \in Turn : Begin(t)
  /\ UNCHANGED <<replaying, queue, shown, typed, dropped, calls, toUI, runners, resetting>>

UserStop ==
  /\ sending
  /\ stopCall = NotStopping
  /\ stopCall' = [NotStopping EXCEPT !.pc = "called"]
  /\ UNCHANGED <<ui, queueCalls, toUI, runners, turn, resetting, crossed>>

\* replayConversation (regenerate, edit and resend): the listener is invalidated
\* and the queue discarded; a turn in progress is stopped first.
Replay ==
  /\ sending
  /\ ~replaying
  /\ stopCall = NotStopping
  /\ listening' = FALSE
  /\ sending' = FALSE
  /\ queue' = {}
  /\ dropped' = dropped \cup queue
  /\ replaying' = TRUE
  /\ stopCall' = [NotStopping EXCEPT !.pc = "called"]
  /\ UNCHANGED <<shown, timer, typed, queueCalls, toUI, runners, turn, resetting, crossed>>

\* When nothing has to be stopped the truncated conversation is sent at once.
ReplayIdle(t) ==
  /\ ~sending
  /\ ~replaying
  /\ queue' = {}
  /\ dropped' = dropped \cup queue
  /\ Begin(t)
  /\ UNCHANGED <<replaying, shown, timer, typed, calls, toUI, runners, resetting>>

\* The replay's stop has returned: the truncated conversation is sent, if anything is
\* left of it.
ReplayGoesOn ==
  /\ replaying
  /\ toUI # <<>>
  /\ Head(toUI).type = "stopReturned"
  /\ toUI' = Tail(toUI)
  /\ stopCall' = NotStopping
  /\ replaying' = FALSE
  /\ queue' = {}
  /\ dropped' = dropped \cup queue
  /\ \/ \E t \in Turn : Begin(t)
     \/ /\ sending' = FALSE
        /\ crossed' = (crossed \/ Overlap)
        /\ UNCHANGED <<listening, turn>>
  /\ UNCHANGED <<shown, timer, typed, queueCalls, runners, resetting>>

\* Mutant: what is queued is believed to have been consumed.
HandleEndNoDrain ==
  /\ sending' = FALSE
  /\ queue' = {}
  /\ UNCHANGED <<shown, timer>>

\* handleStreamEvent, for the events that change more than the text shown.  At the end
\* of a turn what is still queued becomes part of the conversation and is sent.
HandleEnd ==
  /\ sending' = FALSE
  /\ shown' = shown \cup queue
  /\ queue' = {}
  /\ timer' = (timer \/ queue # {})

HandleError == sending' = FALSE /\ UNCHANGED <<shown, queue, timer>>

HandleConsumed(ms) ==
  /\ shown' = shown \cup ms
  /\ queue' = queue \ ms
  /\ UNCHANGED <<sending, timer>>

Handle(e) ==
  CASE e.type = "consumed" -> HandleConsumed(e.msgs)
    [] e.type = "error"    -> HandleError
    [] OTHER               -> HandleEnd

\* An event reaches the frontend; nobody handles it without a listener.
DeliverEvent ==
  /\ toUI # <<>>
  /\ Head(toUI).type \in {"done", "stopped", "error", "consumed"}
  /\ toUI' = Tail(toUI)
  /\ IF listening THEN Handle(Head(toUI)) ELSE UNCHANGED <<sending, shown, queue, timer>>
  /\ UNCHANGED <<listening, replaying, typed, dropped, calls, runners, turn, resetting, crossed>>

\* SendAIMessage has failed: whatever is listened to is given up.
DeliverRejection ==
  /\ toUI # <<>>
  /\ Head(toUI).type = "rejected"
  /\ toUI' = Tail(toUI)
  /\ sending' = FALSE
  /\ listening' = FALSE
  /\ UNCHANGED <<replaying, queue, shown, timer, typed, dropped, calls, runners, turn, resetting, crossed>>

\* QueueAIMessage has failed, or RemoveQueuedAIMessage succeeded: the messages are
\* taken out of the queue.
DeliverRemoval ==
  /\ toUI # <<>>
  /\ Head(toUI).type \in {"queueRejected", "removed"}
  /\ toUI' = Tail(toUI)
  /\ queue' = queue \ Head(toUI).msgs
  /\ dropped' = dropped \cup (queue \cap Head(toUI).msgs)
  /\ UNCHANGED <<sending, listening, replaying, shown, timer, typed, calls, runners, turn, resetting,
                 crossed>>

DeliverStopReturned ==
  /\ ~replaying
  /\ toUI # <<>>
  /\ Head(toUI).type = "stopReturned"
  /\ toUI' = Tail(toUI)
  /\ stopCall' = NotStopping
  /\ UNCHANGED <<ui, queueCalls, runners, turn, resetting, crossed>>

Deliver ==
  DeliverEvent \/ DeliverRejection \/ DeliverRemoval \/ DeliverStopReturned \/ ReplayGoesOn

-----------------------------------------------------------------------------
(* The backend *)

\* stopEntry, called with an entry that has left a.runners: Cancel has no effect on
\* a runner that has not been sent to, or whose turn is over.
Taken(tu, t) == [tu EXCEPT ![t].stopping = TRUE, ![t].canceled = @ \/ At(t, "running")]

\* stopEntry waits for done, three seconds at most, and releases the entry.
StopWait(t) ==
  /\ turn[t].stopping
  /\ Done(t)
  /\ turn' = [turn EXCEPT ![t].stopping = FALSE, ![t].released = TRUE]
  /\ UNCHANGED <<ui, calls, toUI, runners, resetting, crossed>>

\* Mutant: the time limit does not apply to a turn that still runs.
StopTimeoutAgain(t) ==
  /\ turn[t].stopping
  /\ At(t, "ended")
  /\ turn' = [turn EXCEPT ![t].stopping = FALSE, ![t].released = TRUE]
  /\ UNCHANGED <<ui, calls, toUI, runners, resetting, crossed>>

StopTimeout(t) ==
  /\ turn[t].stopping
  /\ ~Done(t)
  /\ turn' = [turn EXCEPT ![t].stopping = FALSE, ![t].released = TRUE]
  /\ crossed' = (crossed \/ Live(t))
  /\ UNCHANGED <<ui, calls, toUI, runners, resetting>>

\* SendAIMessage returns an error before it has touched a.runners.
Refuse(t) ==
  /\ At(t, "called")
  /\ turn' = [turn EXCEPT ![t].pc = "rejected"]
  /\ Emit("rejected")
  /\ UNCHANGED <<ui, calls, runners, resetting, crossed>>

\* SendAIMessage takes the conversation's entry, if there is one, and stops it.
LoadAndDelete(t) ==
  /\ At(t, "called")
  /\ runners' = NoTurn
  /\ turn' = IF runners = NoTurn
                THEN [turn EXCEPT ![t].pc = "build"]
                ELSE [Taken(turn, runners) EXCEPT ![t].pc = "waitOld", ![t].old = runners]
  /\ UNCHANGED <<ui, calls, toUI, resetting, crossed>>

OldStopped(t) ==
  /\ At(t, "waitOld")
  /\ ~turn[turn[t].old].stopping
  /\ turn' = [turn EXCEPT ![t].pc = "build", ![t].old = NoTurn]
  /\ UNCHANGED <<ui, calls, toUI, runners, resetting, crossed>>

\* Mutant: after the failure the turn goes on.
BuildFailGoesOn(t) ==
  /\ At(t, "build")
  /\ turn' = [turn EXCEPT ![t].pc = "stored"]
  /\ toUI' = Append(toUI, Note("error", {}))
  /\ UNCHANGED <<ui, calls, runners, resetting, crossed>>

\* Mutant: the failure is swallowed.
BuildFailSilent(t) ==
  /\ At(t, "build")
  /\ turn' = [turn EXCEPT ![t].pc = "rejected"]
  /\ UNCHANGED <<ui, calls, toUI, runners, resetting, crossed>>

\* The session id or the coding system cannot be made: the error is emitted, then returned.
BuildFail(t) ==
  /\ At(t, "build")
  /\ turn' = [turn EXCEPT ![t].pc = "rejected"]
  /\ toUI' = toUI \o <<Note("error", {}), Note("rejected", {})>>
  /\ UNCHANGED <<ui, calls, runners, resetting, crossed>>

Store(t) ==
  /\ At(t, "build")
  /\ runners' = t
  /\ turn' = [turn EXCEPT ![t].pc = "stored"]
  /\ UNCHANGED <<ui, calls, toUI, resetting, crossed>>

\* Runner.Send; a runner that has been closed refuses.
LLMSend(t) ==
  /\ At(t, "stored")
  /\ ~turn[t].released
  /\ turn' = [turn EXCEPT ![t].pc = "running"]
  /\ UNCHANGED <<ui, calls, toUI, runners, resetting, crossed>>

LLMSendFail(t) ==
  /\ At(t, "stored")
  /\ runners' = NoTurn
  /\ turn' = [turn EXCEPT ![t].pc = "rejected", ![t].released = TRUE]
  /\ toUI' = toUI \o <<Note("error", {}), Note("rejected", {})>>
  /\ UNCHANGED <<ui, calls, resetting, crossed>>

\* Between two tool calls the runner consumes a steered message.
Consume(t, m) ==
  /\ At(t, "running")
  /\ m \in turn[t].steers
  /\ turn' = [turn EXCEPT ![t].steers = @ \ {m}]
  /\ toUI' = Append(toUI, Note("consumed", {m}))
  /\ UNCHANGED <<ui, calls, runners, resetting, crossed>>

\* The stream ends with its terminal event.
End(t) ==
  /\ At(t, "running")
  /\ turn' = [turn EXCEPT ![t].pc = "ended", ![t].canceled = FALSE, ![t].steers = {}]
  /\ IF turn[t].canceled THEN Emit("stopped") ELSE Emit("done") \/ Emit("error")
  /\ UNCHANGED <<ui, calls, runners, resetting, crossed>>

CloseDone(t) ==
  /\ At(t, "ended")
  /\ turn' = [turn EXCEPT ![t].pc = "closed"]
  /\ UNCHANGED <<ui, calls, toUI, runners, resetting, crossed>>

\* Mutant: LoadAndDelete for CompareAndDelete.
FinishRunnerAny(t) ==
  /\ At(t, "closed")
  /\ runners' = NoTurn
  /\ turn' = [turn EXCEPT ![t].pc = "finished", ![t].released = @ \/ runners # NoTurn]
  /\ UNCHANGED <<ui, calls, toUI, resetting, crossed>>

\* finishRunner: the turn that is still filed releases itself.
FinishRunner(t) ==
  /\ At(t, "closed")
  /\ runners' = IF runners = t THEN NoTurn ELSE runners
  /\ turn' = [turn EXCEPT ![t].pc = "finished", ![t].released = @ \/ runners = t]
  /\ UNCHANGED <<ui, calls, toUI, resetting, crossed>>

\* QueueAIMessage; a runner without an active turn does not take the message, and the
\* call succeeds all the same.
Steer(m) ==
  /\ m \in queueCalls
  /\ runners # NoTurn
  /\ queueCalls' = queueCalls \ {m}
  /\ turn' = IF At(runners, "running") THEN [turn EXCEPT ![runners].steers = @ \cup {m}] ELSE turn
  /\ UNCHANGED <<ui, stopCall, toUI, runners, resetting, crossed>>

\* QueueAIMessage fails: no turn is filed, or Steer has some other error.
SteerFail(m) ==
  /\ m \in queueCalls
  /\ queueCalls' = queueCalls \ {m}
  /\ toUI' = Append(toUI, Note("queueRejected", {m}))
  /\ UNCHANGED <<ui, stopCall, runners, turn, resetting, crossed>>

\* RemoveQueuedAIMessage and ClearQueuedAIMessages: what the filed turn's runner has not
\* consumed yet is withdrawn from it, and the frontend told.
Withdraw(ms) ==
  /\ ms # {}
  /\ runners # NoTurn
  /\ ms \subseteq turn[runners].steers
  /\ turn' = [turn EXCEPT ![runners].steers = @ \ ms]
  /\ toUI' = Append(toUI, Note("removed", ms))
  /\ UNCHANGED <<ui, calls, runners, resetting, crossed>>

RemoveQueued(m) == m \in queue /\ Withdraw({m})

ClearQueued == queue # {} /\ runners # NoTurn /\ Withdraw(turn[runners].steers)

\* StopAIGeneration.
StopTake ==
  /\ stopCall.pc = "called"
  /\ runners # NoTurn
  /\ runners' = NoTurn
  /\ turn' = Taken(turn, runners)
  /\ stopCall' = [pc |-> "waiting", turn |-> runners]
  /\ UNCHANGED <<ui, queueCalls, toUI, resetting, crossed>>

StopNothing ==
  /\ stopCall.pc = "called"
  /\ runners = NoTurn
  /\ stopCall' = [NotStopping EXCEPT !.pc = "returning"]
  /\ Emit("stopReturned")
  /\ UNCHANGED <<ui, queueCalls, runners, turn, resetting, crossed>>

StopReturn ==
  /\ stopCall.pc = "waiting"
  /\ ~turn[stopCall.turn].stopping
  /\ stopCall' = [NotStopping EXCEPT !.pc = "returning"]
  /\ Emit("stopReturned")
  /\ UNCHANGED <<ui, queueCalls, runners, turn, resetting, crossed>>

\* resetRunners, for a new provider: Range reads an entry, which is stopped ...
ResetRead ==
  /\ resetting = NoTurn
  /\ runners # NoTurn
  /\ resetting' = runners
  /\ turn' = Taken(turn, runners)
  /\ UNCHANGED <<ui, calls, toUI, runners, crossed>>

\* ... and Delete removes whatever is filed under its key by then.
ResetDelete ==
  /\ resetting # NoTurn
  /\ runners' = NoTurn
  /\ resetting' = NoTurn
  /\ crossed' = (crossed \/ runners \notin {resetting, NoTurn})
  /\ UNCHANGED <<ui, calls, toUI, turn>>

-----------------------------------------------------------------------------
(* Specification *)

User ==
  \/ UserStop \/ Replay \/ ClearQueued
  \/ \E t \in Turn : UserSend(t) \/ ReplayIdle(t)
  \/ \E m \in Msg : UserQueue(m) \/ RemoveQueued(m)

\* What the language model does, and when.
LLM == \E t \in Turn : End(t) \/ \E m \in Msg : Consume(t, m)

Prepare(t) ==
  \/ Refuse(t) \/ LoadAndDelete(t) \/ OldStopped(t) \/ BuildFail(t) \/ Store(t) \/ LLMSend(t)
  \/ LLMSendFail(t)

Finish(t) == CloseDone(t) \/ FinishRunner(t)

StopEntry(t) == StopWait(t) \/ StopTimeout(t)

QueueAIMessage(m) == Steer(m) \/ SteerFail(m)

StopAIGeneration == StopTake \/ StopNothing \/ StopReturn

ResetRunners == ResetRead \/ ResetDelete

Next ==
  \/ User \/ TimerSend \/ Deliver \/ LLM \/ StopAIGeneration \/ ResetRunners
  \/ \E t \in Turn : Prepare(t) \/ Finish(t) \/ StopEntry(t)
  \/ \E m \in Msg : QueueAIMessage(m)

Spec == Init /\ [][Next]_vars

\* Goroutines go on, events arrive, timers fire; a language model need not answer
\* and a user need not act.
Fairness ==
  /\ WF_vars(Deliver)
  /\ WF_vars(StopAIGeneration)
  /\ WF_vars(ResetDelete)
  /\ \A t \in Turn : WF_vars(Prepare(t)) /\ WF_vars(Finish(t)) /\ WF_vars(StopEntry(t))
  /\ \A m \in Msg : WF_vars(QueueAIMessage(m))

LiveSpec == Spec /\ Fairness

-----------------------------------------------------------------------------
(* Properties *)

\* A turn the user does not see as running would execute tools unnoticed, beyond the
\* stop button's reach: unless turns have crossed, no turn is live while the
\* conversation shows none (aiStore.ts clears sending on terminal events and on
\* SendAIMessage's rejection, which must therefore leave nothing behind).
NoGhostTurn == ~crossed /\ ~sending /\ ~replaying => \A t \in Turn : ~Live(t)

\* SendAIMessage, StopAIGeneration, resetRunners and finishRunner each may be the one
\* that releases an entry's connection caches, runner and system: unless turns have
\* crossed, a finished turn has been released or a stop is about to release it.
NotLeaked ==
  ~crossed => \A t \in Turn : At(t, "finished") => turn[t].released \/ turn[t].stopping

\* While no turn is live the conversation does not show one for ever: every way out of
\* SendAIMessage and of its goroutine tells the frontend, whatever stops, replays and
\* resets are going on.
UINeverStuck == (sending /\ \A t \in Turn : ~Live(t)) ~> ~sending

\* StopAIGeneration returns even if the language model never notices the cancellation
\* (stopEntry gives up after three seconds).
StopReturns == stopCall.pc = "called" ~> stopCall.pc = "none"

\* A message typed during a turn stays queued or gets into the conversation, however
\* the runner's consuming it, the turn's end, a stop and a reset interleave with
\* QueueAIMessage; only the user (a replay, a removal) and the refusal of QueueAIMessage
\* discard it.
QueuedNotLost == typed \subseteq queue \cup shown \cup dropped
=============================================================================

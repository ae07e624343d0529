---------------------------- MODULE DriverSession ----------------------------
(***************************************************************************)
(* A session of an extension's database driver,                            *)
(* internal/extreg/extdriver/session.go, and the removal of its driver,    *)
(* internal/extreg/dbdriver.go and dbdriver_session.go.                    *)
(*                                                                         *)
(* A session runs on up to MaxInst leased module instances.  An operation  *)
(* takes an idle one, logs in a new one, or queues.  An instance runs one  *)
(* call at a time (its mu); a call whose context ends, or that fails in    *)
(* the guest, leaves it broken.  Extra idle instances are reaped by a      *)
(* timer.  A row statement writer keeps its instance beyond the session    *)
(* and calls it without a context of its own.  Every critical section of   *)
(* the session's mu is one step, and so are locking and unlocking an       *)
(* instance's mu: everything may interleave with a running guest call.     *)
(* What the calls carry (statements, rows, the ids of collected writers    *)
(* handed to the guest) is left out.                                       *)
(***************************************************************************)
EXTENDS Integers, Sequences, SequencesExt, FiniteSets

CONSTANTS
  Inst,       \* leased instances; every Lease uses up one of them
  NoInst,     \* the nil *driverInstance
  Op,         \* operations on the session, one call of the holder's each
  MaxInst,    \* driverSessionInstances
  KindOf      \* what each operation is: "op", "stream" (a cursor) or "prepare" (a writer)

ASSUME SessionConstants ==
  /\ NoInst \notin Inst
  /\ IsFiniteSet(Op)
  /\ MaxInst \in Nat \ {0}
  /\ KindOf \in [Op -> {"op", "stream", "prepare"}]

VARIABLES
  live,       \* s.live
  idle,       \* s.idle, most recently used last
  queue,      \* s.queue: the operations waiting, in arrival order
  closed,     \* s.closed
  inst,       \* the instances
  op,         \* the operations
  writer,     \* the row statement writer each operation has prepared
  life        \* of the driver: "on", "removed" once extensionDriver.life has ended,
              \* "ended" once Drivers.life has ended too

vars == <<live, idle, queue, closed, inst, op, writer, life>>

-----------------------------------------------------------------------------
(* State *)

\* stage: where the session's hold on the instance is.  mu: what holds d.mu.
\* timer: the timer of the current idle spell is still to run reap.  late: so is one of
\* an earlier spell, which will find idleGen moved on.
InstState ==
  [stage: {"unused", "opening", "up", "retire", "closing", "gone"}, broken: BOOLEAN,
   refs: Nat, mu: {"free", "op", "writer", "close"}, timer: BOOLEAN, late: BOOLEAN]

OpPC == {"new", "acquire", "login", "opening", "wait", "forgo", "call", "run",
         "cursor", "release", "give", "retire", "done"}

OpState ==
  [pc: OpPC, task: {"first", "page", "end"}, inst: Inst \cup {NoInst}, ctx: BOOLEAN,
   grant: {"none", "inst", "login", "closed"}, usable: BOOLEAN, result: {"ok", "err", "stale"}]

WriterState == [at: {"none", "held", "call"}, inst: Inst \cup {NoInst}]

Unleased == [stage |-> "unused", broken |-> FALSE, refs |-> 0, mu |-> "free",
             timer |-> FALSE, late |-> FALSE]

NewOp == [pc |-> "new", task |-> "first", inst |-> NoInst, ctx |-> FALSE,
          grant |-> "none", usable |-> FALSE, result |-> "ok"]

NoWriter == [at |-> "none", inst |-> NoInst]

\* OpenDriverSession logs in one instance and releases it before anyone has the session.
Init ==
  /\ live = 1
  /\ \E i \in Inst :
       /\ idle = <<i>>
       /\ inst = [j \in Inst |-> IF j = i THEN [Unleased EXCEPT !.stage = "up", !.refs = 1]
                                          ELSE Unleased]
  /\ queue = <<>>
  /\ closed = FALSE
  /\ op = [o \in Op |-> NewOp]
  /\ writer = [o \in Op |-> NoWriter]
  /\ life = "on"

Removed == life # "on"

At(o, pc) == op[o].pc = pc

Busy(i) == inst[i].mu # "free"

Goto(o, pc) == op' = [op EXCEPT ![o].pc = pc]

\* The operation returns; of what it was only a failure for another's sake is kept.
Returned(o) == [NewOp EXCEPT !.pc = "done", !.result = IF op[o].result = "stale" THEN "stale" ELSE "ok"]

Finish(o) == op' = [op EXCEPT ![o] = Returned(o)]

session == <<live, idle, queue, closed>>

-----------------------------------------------------------------------------
(* The session: acquire, release, reap, Close *)

\* grantLocked after an instance has gone: the first waiting operation may log in one of
\* its own.  ops is what the step has made of the operations.
VacateNoGrant(ops) == live' = live - 1 /\ queue' = queue /\ op' = ops

Vacate(ops) ==
  IF queue = <<>> \/ live - 1 >= MaxInst
    THEN live' = live - 1 /\ queue' = queue /\ op' = ops
    ELSE /\ live' = live
         /\ queue' = Tail(queue)
         /\ op' = [ops EXCEPT ![Head(queue)].grant = "login"]

\* wakeLocked: the idle spell ends; its timer is stopped unless it has fired already.
Woken(d, stopped) ==
  [d EXCEPT !.timer = FALSE, !.late = @ \/ (d.timer /\ ~stopped)]

\* do: an operation on a removed driver fails before it reaches the session.
Begin(o) ==
  /\ At(o, "new")
  /\ IF Removed THEN Finish(o) ELSE Goto(o, "acquire")
  /\ UNCHANGED <<session, inst, writer, life>>

AcquireClosed(o) ==
  /\ At(o, "acquire") /\ closed
  /\ Finish(o)
  /\ UNCHANGED <<session, inst, writer, life>>

AcquireIdle(o) ==
  /\ At(o, "acquire") /\ ~closed
  /\ queue = <<>> /\ idle # <<>>
  /\ LET i == Last(idle) IN
       /\ op' = [op EXCEPT ![o].pc = "call", ![o].inst = i]
       /\ \E stopped \in BOOLEAN : inst' = [inst EXCEPT ![i] = Woken(@, stopped)]
  /\ idle' = Front(idle)
  /\ UNCHANGED <<live, queue, closed, writer, life>>

AcquireNew(o) ==
  /\ At(o, "acquire") /\ ~closed
  /\ queue = <<>> /\ idle = <<>> /\ live < MaxInst
  /\ live' = live + 1
  /\ Goto(o, "login")
  /\ UNCHANGED <<idle, queue, closed, inst, writer, life>>

AcquireWait(o) ==
  /\ At(o, "acquire") /\ ~closed
  /\ queue # <<>> \/ (idle = <<>> /\ live >= MaxInst)
  /\ queue' = Append(queue, o)
  /\ Goto(o, "wait")
  /\ UNCHANGED <<live, idle, closed, inst, writer, life>>

\* The select of acquire takes the grant.
Take(o) ==
  /\ At(o, "wait") /\ op[o].grant # "none"
  /\ CASE op[o].grant = "closed" -> Finish(o)
       [] op[o].grant = "inst" -> op' = [op EXCEPT ![o].pc = "call", ![o].grant = "none"]
       [] op[o].grant = "login" -> op' = [op EXCEPT ![o].pc = "login", ![o].grant = "none"]
  /\ UNCHANGED <<session, inst, writer, life>>

\* The select takes ctx.Done: leave the queue, or wait for the grant on its way.
Leave(o) ==
  /\ At(o, "wait") /\ op[o].ctx
  /\ IF \E n \in DOMAIN queue : queue[n] = o
       THEN /\ \E n \in DOMAIN queue : queue[n] = o /\ queue' = RemoveAt(queue, n)
            /\ Finish(o)
       ELSE queue' = queue /\ Goto(o, "forgo")
  /\ UNCHANGED <<live, idle, closed, inst, writer, life>>

\* Mutant: a granted login that is given up is not passed on.
ForgoDropsLogin(o) ==
  /\ At(o, "forgo") /\ op[o].grant # "none"
  /\ IF op[o].grant = "inst" THEN op' = [op EXCEPT ![o].pc = "release", ![o].grant = "none"] ELSE Finish(o)
  /\ UNCHANGED <<session, inst, writer, life>>

Forgo(o) ==
  /\ At(o, "forgo") /\ op[o].grant # "none"
  /\ CASE op[o].grant = "closed" -> Finish(o) /\ UNCHANGED <<live, queue>>
       [] op[o].grant = "inst" -> op' = [op EXCEPT ![o].pc = "release", ![o].grant = "none"] /\ UNCHANGED <<live, queue>>
       [] op[o].grant = "login" ->
            Vacate([op EXCEPT ![o] = Returned(o)])
  /\ UNCHANGED <<idle, closed, inst, writer, life>>

\* openInstance: lease an instance and call open on it.
Lease(o) ==
  /\ At(o, "login")
  /\ \E i \in Inst :
       /\ inst[i].stage = "unused"
       /\ inst' = [inst EXCEPT ![i].stage = "opening", ![i].refs = 1, ![i].mu = "op"]
       /\ op' = [op EXCEPT ![o].pc = "opening", ![o].inst = i]
  /\ UNCHANGED <<session, writer, life>>

\* Mutant: a failed login wakes nobody.
LeaseFailNoGrant(o) ==
  /\ At(o, "login")
  /\ VacateNoGrant([op EXCEPT ![o] = Returned(o)])
  /\ UNCHANGED <<idle, closed, inst, writer, life>>

LeaseFail(o) ==
  /\ At(o, "login")
  /\ Vacate([op EXCEPT ![o] = Returned(o)])
  /\ UNCHANGED <<idle, closed, inst, writer, life>>

LoggedIn(o) ==
  /\ At(o, "opening") /\ ~op[o].ctx
  /\ inst' = [inst EXCEPT ![op[o].inst].stage = "up", ![op[o].inst].mu = "free"]
  /\ Goto(o, "call")
  /\ UNCHANGED <<session, writer, life>>

\* The driver refuses, faults or is interrupted: the instance nobody else knows is
\* dropped, and the session has room again.
LoginFail(o) ==
  /\ At(o, "opening")
  /\ inst' = [inst EXCEPT ![op[o].inst].stage = "gone", ![op[o].inst].mu = "free",
                          ![op[o].inst].refs = @ - 1]
  /\ Vacate([op EXCEPT ![o] = Returned(o)])
  /\ UNCHANGED <<idle, closed, writer, life>>

\* release, before it locks the session: usable waits for the instance's mu.
AskUsable(o) ==
  /\ At(o, "release") /\ ~Busy(op[o].inst)
  /\ op' = [op EXCEPT ![o].pc = "give", ![o].usable = ~inst[op[o].inst].broken]
  /\ UNCHANGED <<session, inst, writer, life>>

ReleaseBroken(o) ==
  /\ At(o, "give") /\ (closed \/ ~op[o].usable)
  /\ Vacate([op EXCEPT ![o].pc = "retire"])
  /\ inst' = [inst EXCEPT ![op[o].inst].stage = "retire"]
  /\ UNCHANGED <<idle, closed, writer, life>>

ReleaseToWaiter(o) ==
  /\ At(o, "give") /\ ~closed /\ op[o].usable /\ queue # <<>>
  /\ op' = [op EXCEPT ![o] = Returned(o),
                      ![Head(queue)].grant = "inst", ![Head(queue)].inst = op[o].inst]
  /\ queue' = Tail(queue)
  /\ UNCHANGED <<live, idle, closed, inst, writer, life>>

\* The idle timer is set unless the instance is the session's only one.
ReleaseIdle(o) ==
  /\ At(o, "give") /\ ~closed /\ op[o].usable /\ queue = <<>>
  /\ inst' = [inst EXCEPT ![op[o].inst].timer = (live > 1)]
  /\ idle' = Append(idle, op[o].inst)
  /\ Finish(o)
  /\ UNCHANGED <<live, queue, closed, writer, life>>

\* An operation returns once the instance it has retired is closed.
Return(o) ==
  /\ At(o, "retire") /\ inst[op[o].inst].stage = "gone"
  /\ Finish(o)
  /\ UNCHANGED <<session, inst, writer, life>>

\* The timer of the current idle spell runs reap: not if the instance is the last one.
Reap(i) ==
  /\ inst[i].timer
  /\ IF ~closed /\ i \in Range(idle) /\ live > 1
       THEN /\ inst' = [inst EXCEPT ![i].timer = FALSE, ![i].stage = "retire"]
            /\ \E n \in DOMAIN idle : idle[n] = i /\ idle' = RemoveAt(idle, n)
            /\ live' = live - 1
            /\ UNCHANGED <<queue, closed, op, writer, life>>
       ELSE /\ inst' = [inst EXCEPT ![i].timer = FALSE]
            /\ UNCHANGED <<session, op, writer, life>>

\* The timer of an earlier spell runs reap.
ReapLate(i) ==
  /\ inst[i].late
  /\ inst' = [inst EXCEPT ![i].late = FALSE]
  /\ UNCHANGED <<session, op, writer, life>>

\* Mutant: waiting operations are not told.
CloseTellsNobody ==
  /\ ~closed /\ closed' = TRUE
  /\ live' = live - Len(idle)
  /\ \E stopped \in BOOLEAN :
       inst' = [i \in Inst |-> IF i \in Range(idle)
                                 THEN [Woken(inst[i], stopped) EXCEPT !.stage = "retire"]
                                 ELSE inst[i]]
  /\ idle' = <<>> /\ queue' = <<>>
  /\ UNCHANGED <<op, writer>>

\* Close: idle instances are retired side by side, waiting operations are told.
Close ==
  /\ ~closed /\ closed' = TRUE
  /\ live' = live - Len(idle)
  /\ \E stopped \in BOOLEAN :
       inst' = [i \in Inst |-> IF i \in Range(idle)
                                 THEN [Woken(inst[i], stopped) EXCEPT !.stage = "retire"]
                                 ELSE inst[i]]
  /\ op' = [o \in Op |-> IF o \in Range(queue) THEN [op[o] EXCEPT !.grant = "closed"] ELSE op[o]]
  /\ idle' = <<>> /\ queue' = <<>>
  /\ UNCHANGED writer

-----------------------------------------------------------------------------
(* Calls into an instance *)

\* Where an operation goes when its call has returned without leaving a cursor.
After(o) == IF op[o].task = "page" THEN "cursor" ELSE "release"

\* call, once it has the instance's mu: a broken instance or an ended context fails it.
Call(o) ==
  /\ At(o, "call") /\ ~Busy(op[o].inst)
  /\ IF inst[op[o].inst].broken \/ op[o].ctx
       THEN /\ op' = [op EXCEPT ![o].pc = After(o),
                                ![o].result = IF inst[op[o].inst].broken /\ op[o].task = "first"
                                                THEN "stale" ELSE "err"]
            /\ UNCHANGED inst
       ELSE /\ inst' = [inst EXCEPT ![op[o].inst].mu = "op"]
            /\ Goto(o, "run")
  /\ UNCHANGED <<session, writer, life>>

\* Mutant: the writer does not hold the instance.
CallReturnsNoHold(o) ==
  /\ At(o, "run") /\ ~op[o].ctx
  /\ LET i == op[o].inst
         opens == op[o].task = "first" /\ KindOf[o] = "stream"
         prepares == op[o].task = "first" /\ KindOf[o] = "prepare" IN
       /\ op' = [op EXCEPT ![o].pc = IF opens THEN "cursor" ELSE After(o)]
       /\ inst' = [inst EXCEPT ![i].mu = "free"]
       /\ writer' = IF prepares THEN [writer EXCEPT ![o] = [at |-> "held", inst |-> i]] ELSE writer
  /\ UNCHANGED <<session, life>>

\* The guest answers.  A cursor keeps the instance; a writer adds a hold to it.
CallReturns(o) ==
  /\ At(o, "run") /\ ~op[o].ctx
  /\ LET i == op[o].inst
         opens == op[o].task = "first" /\ KindOf[o] = "stream"
         prepares == op[o].task = "first" /\ KindOf[o] = "prepare" IN
       /\ op' = [op EXCEPT ![o].pc = IF opens THEN "cursor" ELSE After(o)]
       /\ inst' = [inst EXCEPT ![i].mu = "free", ![i].refs = IF prepares THEN @ + 1 ELSE @]
       /\ writer' = IF prepares THEN [writer EXCEPT ![o] = [at |-> "held", inst |-> i]] ELSE writer
  /\ UNCHANGED <<session, life>>

\* The driver answers with an error of its own: the instance stays usable.
CallRefused(o) ==
  /\ At(o, "run") /\ ~op[o].ctx
  /\ op' = [op EXCEPT ![o].pc = After(o), ![o].result = "err"]
  /\ inst' = [inst EXCEPT ![op[o].inst].mu = "free"]
  /\ UNCHANGED <<session, writer, life>>

\* The context has ended and the host has closed the connection, or the guest faults.
CallBreaks(o) ==
  /\ At(o, "run")
  /\ op' = [op EXCEPT ![o].pc = After(o), ![o].result = "err"]
  /\ inst' = [inst EXCEPT ![op[o].inst].mu = "free", ![op[o].inst].broken = TRUE]
  /\ UNCHANGED <<session, writer, life>>

\* driverStream.Next reads another page, until a read has failed.
ReadPage(o) ==
  /\ At(o, "cursor") /\ op[o].result # "err"
  /\ op' = [op EXCEPT ![o].pc = "call", ![o].task = "page"]
  /\ UNCHANGED <<session, inst, writer, life>>

\* driverStream.Close: discard the instance, leave a broken one alone, or close in the guest.
CloseCursor(o) ==
  /\ At(o, "cursor") /\ ~Busy(op[o].inst)
  /\ inst' = [inst EXCEPT ![op[o].inst].broken = @ \/ op[o].ctx]
  /\ IF op[o].ctx \/ inst[op[o].inst].broken
       THEN Goto(o, "release")
       ELSE op' = [op EXCEPT ![o].pc = "call", ![o].task = "end"]
  /\ UNCHANGED <<session, writer, life>>

\* The caller cancels or the query timeout passes; removing the driver cancels too.
Cancel(o) ==
  /\ op[o].pc \notin {"new", "done"} /\ ~op[o].ctx
  /\ op' = [op EXCEPT ![o].ctx = TRUE]
  /\ UNCHANGED <<session, inst, writer, life>>

-----------------------------------------------------------------------------
(* retire and the row statement writers *)

\* retire: a usable instance's session is closed in the guest first.
BeginClose(i) ==
  /\ inst[i].stage = "retire" /\ ~Busy(i) /\ ~inst[i].broken
  /\ inst' = [inst EXCEPT ![i].stage = "closing", ![i].mu = "close"]
  /\ UNCHANGED <<session, op, writer, life>>

\* The guest has closed its session, or has not within the close timeout.  drop: the last
\* hold closes the module.
Drop(i) ==
  /\ \/ inst[i].stage = "retire" /\ ~Busy(i) /\ inst[i].broken
     \/ inst[i].stage = "closing"
  /\ \E fails \in BOOLEAN :
       inst' = [inst EXCEPT ![i].stage = "gone", ![i].mu = "free",
                            ![i].refs = @ - 1, ![i].broken = @ \/ fails]
  /\ UNCHANGED <<session, op, writer, life>>

\* RowStatements runs in the guest, bounded by Drivers.life only.
WriterCall(o) ==
  /\ writer[o].at = "held" /\ ~Busy(writer[o].inst)
  /\ ~inst[writer[o].inst].broken /\ life # "ended"
  /\ inst' = [inst EXCEPT ![writer[o].inst].mu = "writer"]
  /\ writer' = [writer EXCEPT ![o].at = "call"]
  /\ UNCHANGED <<session, op, life>>

WriterReturns(o) ==
  /\ writer[o].at = "call" /\ life # "ended"
  /\ inst' = [inst EXCEPT ![writer[o].inst].mu = "free"]
  /\ writer' = [writer EXCEPT ![o].at = "held"]
  /\ UNCHANGED <<session, op, life>>

\* Drivers.life has ended, or the guest faults.
WriterBreaks(o) ==
  /\ writer[o].at = "call"
  /\ inst' = [inst EXCEPT ![writer[o].inst].mu = "free", ![writer[o].inst].broken = TRUE]
  /\ writer' = [writer EXCEPT ![o].at = "held"]
  /\ UNCHANGED <<session, op, life>>

\* A writer no longer reachable is collected: releaseWriter.
Collect(o) ==
  /\ writer[o].at = "held" /\ At(o, "done")
  /\ inst' = [inst EXCEPT ![writer[o].inst].refs = @ - 1]
  /\ writer' = [writer EXCEPT ![o] = NoWriter]
  /\ UNCHANGED <<session, op, life>>

-----------------------------------------------------------------------------
(* Removing the driver: removeDrivers ends the driver's life, which cancels its *)
(* operations, then closes the drivers, then the sessions.                      *)

EndDriver ==
  /\ life = "on" /\ life' = "removed"
  /\ UNCHANGED <<session, inst, op, writer>>

\* Mutant: the drivers are closed once the session is.
CloseDriversLate ==
  /\ life = "removed" /\ closed /\ (\A i \in Inst : inst[i].stage \in {"unused", "gone"})
  /\ life' = "ended"
  /\ UNCHANGED <<session, inst, op, writer>>

CloseDrivers ==
  /\ life = "removed" /\ life' = "ended"
  /\ UNCHANGED <<session, inst, op, writer>>

\* The holder closes the session, or remove does once the drivers are closed.
CloseSession == Close /\ UNCHANGED life

-----------------------------------------------------------------------------

Acquire(o) == Begin(o) \/ AcquireClosed(o) \/ AcquireIdle(o) \/ AcquireNew(o) \/ AcquireWait(o)

Wait(o) == Take(o) \/ Leave(o) \/ Forgo(o)

Login(o) == Lease(o) \/ LeaseFail(o) \/ LoggedIn(o) \/ LoginFail(o)

Run(o) == Call(o) \/ CallReturns(o) \/ CallRefused(o) \/ CallBreaks(o) \/ ReadPage(o) \/ CloseCursor(o)

Release(o) == AskUsable(o) \/ ReleaseBroken(o) \/ ReleaseToWaiter(o) \/ ReleaseIdle(o) \/ Return(o)

Writer(o) == WriterCall(o) \/ WriterReturns(o) \/ WriterBreaks(o) \/ Collect(o)

Retire(i) == BeginClose(i) \/ Drop(i)

Next ==
  \/ \E o \in Op : Acquire(o) \/ Wait(o) \/ Login(o) \/ Run(o) \/ Release(o) \/ Cancel(o) \/ Writer(o)
  \/ \E i \in Inst : Reap(i) \/ ReapLate(i) \/ Retire(i)
  \/ EndDriver \/ CloseDrivers \/ CloseSession

Spec == Init /\ [][Next]_vars

\* The steps an operation's goroutine takes by itself.  A guest call is only known to end
\* when the host interrupts it, because its context has ended.
Goes(o) ==
  \/ At(o, "acquire") /\ Acquire(o)
  \/ Wait(o)
  \/ Lease(o) \/ LeaseFail(o)
  \/ op[o].ctx /\ (LoginFail(o) \/ CallBreaks(o))
  \/ ReleaseBroken(o) \/ ReleaseToWaiter(o) \/ ReleaseIdle(o) \/ Return(o)

\* The goroutines run on; a sync.Mutex does not starve those who wait for it (SF); the
\* holder of a cursor closes it; a row statement call ends with Drivers.life; closing a
\* session in the guest is bounded; a timer runs; a removal goes through.
Fairness ==
  /\ \A o \in Op :
       /\ WF_vars(Goes(o))
       /\ SF_vars(Call(o) \/ CloseCursor(o) \/ AskUsable(o))
       /\ WF_vars(Removed /\ Cancel(o))
       /\ WF_vars(life = "ended" /\ WriterBreaks(o))
  /\ \A i \in Inst : SF_vars(Retire(i)) /\ WF_vars(Reap(i))
  /\ WF_vars(CloseDrivers \/ (life = "ended" /\ CloseSession))

LiveSpec == Spec /\ Fairness

-----------------------------------------------------------------------------
(* Properties *)

\* The state has the shape of the structs of session.go.
TypeOK ==
  /\ live \in 0..MaxInst /\ idle \in Seq(Inst) /\ queue \in Seq(Op) /\ closed \in BOOLEAN
  /\ inst \in [Inst -> InstState]
  /\ op \in [Op -> OpState]
  /\ writer \in [Op -> WriterState]
  /\ life \in {"on", "removed", "ended"}

\* The operation has an instance of the session, or is making one.
Holding(o) ==
  \/ op[o].pc \in {"login", "opening", "call", "run", "cursor", "release", "give"}
  \/ op[o].pc \in {"wait", "forgo"} /\ op[o].grant \in {"inst", "login"}

\* s.live is the number of instances idle, held, granted or logging in, through every
\* failed login, forgone grant, broken instance, reap and close: no slot of the three is
\* ever lost or counted twice, and the session never runs more.  An instance belongs to
\* one operation or cursor, or is idle, or is being retired: never two of these, whatever
\* grants cross a cancellation, a reap or the close.
SlotsAccounted ==
  /\ live = Len(idle) + Cardinality({o \in Op : Holding(o)})
  /\ live <= MaxInst
  /\ \A i \in Inst :
       Cardinality({o \in Op : Holding(o) /\ op[o].inst = i})
         + Cardinality({n \in DOMAIN idle : idle[n] = i})
         + (IF inst[i].stage \in {"retire", "closing"} THEN 1 ELSE 0) <= 1

\* acquire queues only when the session is full, and whoever makes room wakes the first
\* in the queue: nobody waits while there is an idle instance or room for a new one.
NobodyWaitsInVain == queue # <<>> => ~closed /\ idle = <<>> /\ live = MaxInst

\* drop closes the module at the last hold, when "no call can be running": a module is
\* open for as long as the session or a writer uses it, and closed once nobody does.
OpenWhileUsed ==
  \A i \in Inst : inst[i].stage # "unused" =>
    (inst[i].refs > 0 <=>
       \/ i \in Range(idle)
       \/ \E o \in Op : Holding(o) /\ op[o].inst = i
       \/ inst[i].stage \in {"retire", "closing"}
       \/ \E o \in Op : writer[o].inst = i)

\* Removing the driver (the extension disabled, upgraded or removed) ends every
\* operation, waiting or running, and lets go of every instance, even if no guest call
\* ever ends by itself: the order removeDrivers keeps makes that so.
RemovalEnds ==
  Removed ~> /\ closed
             /\ \A o \in Op : op[o].pc \in {"new", "done"}
             /\ \A i \in Inst : inst[i].stage \in {"unused", "gone"}

\* The guest finishes generating row statements.
GuestGenerates == \A o \in Op : []<>(writer[o].at # "call")

\* An operation that is cancelled or times out returns, wherever it is - queued, granted,
\* logging in, running, reading a cursor, or waiting for a writer's call to leave the
\* instance - as long as the guest does not generate row statements for ever.
CancelReturns == GuestGenerates => \A o \in Op : op[o].ctx ~> At(o, "done")

\* "The next operation that needs an instance logs in a new one" (session.go, after an
\* instance has been left broken): no operation fails because of an earlier failure.
NextLogsIn == \A o \in Op : op[o].result # "stale"
=============================================================================

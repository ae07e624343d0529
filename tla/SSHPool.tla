------------------------------- MODULE SSHPool -------------------------------
(***************************************************************************)
(* The shared SSH connection pool, internal/sshpool/pool.go.               *)
(*                                                                         *)
(* One pooled connection per asset, reference counted, dialled through a   *)
(* singleflight group, probed before reuse, retired by the idle sweep, by  *)
(* a refused forward, by an asset save and by closing the pool.  Every     *)
(* critical section of p.mu or entry.mu is one step; what the code does    *)
(* outside the locks (probing, dialling, closing a connection) is a step   *)
(* of its own, so that all callers, the sweeper, the saver and the closer  *)
(* interleave there.  The clock is abstracted: any time may pass between   *)
(* two steps, so the comparisons with idleTime and refusedRedialInterval   *)
(* may come out either way whenever they are made.                         *)
(***************************************************************************)
EXTENDS Integers, FiniteSets

CONSTANTS
  Asset,      \* SSH assets
  Conn,       \* connections; each dial that succeeds uses up one of them
  Caller,     \* goroutines calling Get / Release / ReleaseRefused
  NoConn,     \* the nil *poolEntry
  NoAsset,    \* no asset at work in the saver
  NoCaller,   \* no leader: the flight's leader has gone, or there is no flight
  MaxSave,    \* bound on asset saves, each of which ends in Remove
  Faults      \* what may remove a connection that is still held:
              \* a failed probe, an asset save, closing the pool

ASSUME PoolConstants ==
  /\ NoConn \notin Conn
  /\ NoAsset \notin Asset
  /\ NoCaller \notin Caller
  /\ IsFiniteSet(Caller)
  /\ MaxSave \in Nat
  /\ Faults \subseteq {"probe", "save", "close"}

VARIABLES
  slot,       \* p.entries: the entry pooled for each asset
  entry,      \* the poolEntry of each connection
  flight,     \* the singleflight call of each asset
  caller,     \* each caller's control point, entry and last result
  saver,      \* a goroutine saving an asset and then removing its entry
  sweeper,    \* the goroutine of cleanupLoop
  closer,     \* the goroutine running Pool.Close
  saves       \* how often each asset has been saved

vars == <<slot, entry, flight, caller, saver, sweeper, closer, saves>>

-----------------------------------------------------------------------------
(* State *)

Entry == [asset: Asset \cup {NoAsset}, refs: Int,
          retired: BOOLEAN, shut: BOOLEAN]

Unused == [asset |-> NoAsset, refs |-> 0,
           retired |-> FALSE, shut |-> FALSE]

Dialled(c) == entry[c].asset # NoAsset

Flight == [on: BOOLEAN, dialling: BOOLEAN, leader: Caller \cup {NoCaller}, waiters: SUBSET Caller,
           ctxDone: BOOLEAN]

NoFlight == [on |-> FALSE, dialling |-> FALSE, leader |-> NoCaller, waiters |-> {}, ctxDone |-> FALSE]

CallerPC == {"out", "top", "probe", "await", "acquire", "unlink", "close", "shut",
             "join", "wait", "again", "hold", "release"}

Result == {"none", "client", "ctxErr", "dialErr"}

CallerState == [pc: CallerPC, asset: Asset \cup {NoAsset}, conn: Conn \cup {NoConn},
                canceled: BOOLEAN, res: Result]

Outside == [pc |-> "out", asset |-> NoAsset, conn |-> NoConn, canceled |-> FALSE, res |-> "none"]

NotSaving == [pc |-> "out", asset |-> NoAsset, conn |-> NoConn]

TypeOK ==
  /\ slot \in [Asset -> Conn \cup {NoConn}]
  /\ entry \in [Conn -> Entry]
  /\ flight \in [Asset -> Flight]
  /\ caller \in [Caller -> CallerState]
  /\ saver \in [pc: {"out", "remove", "close"}, asset: Asset \cup {NoAsset},
                conn: Conn \cup {NoConn}]
  /\ sweeper \in [pc: {"out", "judge", "unlink", "shut"}, todo: SUBSET Conn, idle: SUBSET Conn]
  /\ closer \in [pc: {"out", "join", "close"}, todo: SUBSET Conn]
  /\ saves \in [Asset -> 0..MaxSave]

Init ==
  /\ slot = [a \in Asset |-> NoConn]
  /\ entry = [c \in Conn |-> Unused]
  /\ flight = [a \in Asset |-> NoFlight]
  /\ caller = [g \in Caller |-> Outside]
  /\ saver = NotSaving
  /\ sweeper = [pc |-> "out", todo |-> {}, idle |-> {}]
  /\ closer = [pc |-> "out", todo |-> {}]
  /\ saves = [a \in Asset |-> 0]

-----------------------------------------------------------------------------
(* Steps shared by the actors *)

At(g, pc) == caller[g].pc = pc

Goto(g, pc) == caller' = [caller EXCEPT ![g].pc = pc]

\* A call of Get ends; only a caller that got a client keeps an entry.
Return(g, res) ==
  caller' = [caller EXCEPT ![g] = [Outside EXCEPT !.canceled = caller[g].canceled, !.res = res]]

\* removeEntry and Remove delete the entry only while the pool still holds it.
Without(c) == [a \in Asset |-> IF slot[a] = c THEN NoConn ELSE slot[a]]

Retired(c) == [entry EXCEPT ![c].retired = TRUE]

\* closeConn
ShutDown(c) == [entry EXCEPT ![c].shut = TRUE]

\* poolEntry.close: retire, then closeConn.  Everybody who finds the entry in
\* between treats it as dead already, so the two are one step.
Closed(c) == [entry EXCEPT ![c].retired = TRUE, ![c].shut = TRUE]

-----------------------------------------------------------------------------
(* Pool.Get *)

Get(g, a) ==
  /\ At(g, "out")
  /\ caller' = [caller EXCEPT ![g] = [Outside EXCEPT !.pc = "top", !.asset = a]]
  /\ UNCHANGED <<slot, entry, flight, saver, sweeper, closer, saves>>

\* Head of the loop: read p.entries[assetID] under the read lock.
Lookup(g) ==
  LET c == slot[caller[g].asset] IN
  /\ At(g, "top")
  /\ caller' = [caller EXCEPT ![g].pc = IF c = NoConn THEN "join" ELSE "probe", ![g].conn = c]
  /\ UNCHANGED <<slot, entry, flight, saver, sweeper, closer, saves>>

\* probe: an entry that is already retired counts as dead without asking it.
ProbeStart(g) ==
  /\ At(g, "probe")
  /\ Goto(g, IF entry[caller[g].conn].retired THEN "unlink" ELSE "await")
  /\ UNCHANGED <<slot, entry, flight, saver, sweeper, closer, saves>>

\* The keepalive is answered: only a connection that is not shut answers.
ProbeAlive(g) ==
  /\ At(g, "await")
  /\ ~entry[caller[g].conn].shut
  /\ Goto(g, "acquire")
  /\ UNCHANGED <<slot, entry, flight, saver, sweeper, closer, saves>>

\* The keepalive fails or times out: on a shut connection, or on a dead one.
ProbeDead(g) ==
  /\ At(g, "await")
  /\ "probe" \in Faults \/ entry[caller[g].conn].shut
  /\ Goto(g, "unlink")
  /\ UNCHANGED <<slot, entry, flight, saver, sweeper, closer, saves>>

\* Mutant: a freshly dialled entry is handed out without being counted.
TryAcquireUncounted(g) ==
  LET c == caller[g].conn IN
  /\ At(g, "acquire") \/ At(g, "again")
  /\ IF entry[c].retired
       THEN /\ Goto(g, IF At(g, "acquire") THEN "join" ELSE "top")
            /\ UNCHANGED entry
       ELSE /\ caller' = [caller EXCEPT ![g].pc = "hold", ![g].res = "client"]
            /\ entry' = IF At(g, "again") THEN entry ELSE [entry EXCEPT ![c].refs = @ + 1]
  /\ UNCHANGED <<slot, flight, saver, sweeper, closer, saves>>

\* tryAcquire fails only on a retired entry; a probed entry is then dialled
\* anew, a freshly dialled one sends Get back to the head of its loop.
TryAcquire(g) ==
  LET c == caller[g].conn IN
  /\ At(g, "acquire") \/ At(g, "again")
  /\ IF entry[c].retired
       THEN /\ Goto(g, IF At(g, "acquire") THEN "join" ELSE "top")
            /\ UNCHANGED entry
       ELSE /\ caller' = [caller EXCEPT ![g].pc = "hold", ![g].res = "client"]
            /\ entry' = [entry EXCEPT ![c].refs = @ + 1]
  /\ UNCHANGED <<slot, flight, saver, sweeper, closer, saves>>

\* removeEntry: unlink under p.mu, then close the entry and go on to dial.
RemoveEntry(g) ==
  /\ At(g, "unlink")
  /\ slot' = Without(caller[g].conn)
  /\ Goto(g, "close")
  /\ UNCHANGED <<entry, flight, saver, sweeper, closer, saves>>

RemovedClose(g) ==
  /\ At(g, "close")
  /\ entry' = Closed(caller[g].conn)
  /\ Goto(g, "join")
  /\ UNCHANGED <<slot, flight, saver, sweeper, closer, saves>>

\* The caller's context ends at any point of Get; the flight it leads dials
\* with that context.
Cancel(g) ==
  /\ caller[g].pc \notin {"out", "hold", "release", "shut"}
  /\ ~caller[g].canceled
  /\ caller' = [caller EXCEPT ![g].canceled = TRUE]
  /\ flight' = [a \in Asset |-> IF flight[a].leader = g
                                  THEN [flight[a] EXCEPT !.ctxDone = TRUE] ELSE flight[a]]
  /\ UNCHANGED <<slot, entry, saver, sweeper, closer, saves>>

\* A canceled caller stops waiting for the probe or for the shared dial.
GiveUp(g) ==
  /\ At(g, "await") \/ At(g, "wait")
  /\ caller[g].canceled
  /\ Return(g, "ctxErr")
  /\ flight' = [a \in Asset |->
       [flight[a] EXCEPT !.waiters = @ \ {g},
                         !.leader = IF @ = g THEN NoCaller ELSE @]]
  /\ UNCHANGED <<slot, entry, saver, sweeper, closer, saves>>

-----------------------------------------------------------------------------
(* dialShared and the singleflight group *)

\* DoChan: join the asset's flight, or lead a new one.
Join(g) ==
  LET a == caller[g].asset IN
  /\ At(g, "join")
  /\ flight' = [flight EXCEPT ![a] =
       IF flight[a].on THEN [flight[a] EXCEPT !.waiters = @ \cup {g}]
       ELSE [on |-> TRUE, dialling |-> FALSE, leader |-> g, waiters |-> {g},
             ctxDone |-> caller[g].canceled]]
  /\ caller' = [caller EXCEPT ![g].pc = "wait", ![g].conn = NoConn]
  /\ UNCHANGED <<slot, entry, saver, sweeper, closer, saves>>

\* The flight's result reaches every caller still waiting for it.
Deliver(a, pc, res, c) ==
  /\ caller' = [g \in Caller |-> IF g \in flight[a].waiters
       THEN [caller[g] EXCEPT !.pc = pc, !.res = res, !.conn = c] ELSE caller[g]]
  /\ flight' = [flight EXCEPT ![a] = NoFlight]

\* The check in front of the dial: a pooled entry that is not retired.
Usable(a) == slot[a] # NoConn /\ ~entry[slot[a]].retired

\* An earlier flight's entry is in the pool and not retired: it is the result.
FlightReuse(a) ==
  /\ flight[a].on /\ ~flight[a].dialling
  /\ Usable(a)
  /\ Deliver(a, "again", "none", slot[a])
  /\ UNCHANGED <<slot, entry, saver, sweeper, closer, saves>>

\* DialAsset is called outside all locks.
FlightDial(a) ==
  /\ flight[a].on /\ ~flight[a].dialling
  /\ ~Usable(a)
  /\ flight' = [flight EXCEPT ![a].dialling = TRUE]
  /\ UNCHANGED <<slot, entry, caller, saver, sweeper, closer, saves>>

\* The dial succeeds: the new entry, still without references, becomes the
\* pooled one under p.mu.
FlightStore(a) ==
  /\ flight[a].dialling
  /\ \E c \in Conn :
       /\ ~Dialled(c)
       /\ entry' = [entry EXCEPT ![c] = [Unused EXCEPT !.asset = a]]
       /\ slot' = [slot EXCEPT ![a] = c]
       /\ Deliver(a, "again", "none", c)
  /\ UNCHANGED <<saver, sweeper, closer, saves>>

\* Mutant: an abandoned dial fails everybody who waited for it.
FlightFailAll(a) ==
  /\ flight[a].dialling
  /\ caller' = [g \in Caller |->
       IF g \notin flight[a].waiters THEN caller[g]
       ELSE [Outside EXCEPT !.canceled = caller[g].canceled,
                            !.res = IF flight[a].ctxDone THEN "ctxErr" ELSE "dialErr"]]
  /\ flight' = [flight EXCEPT ![a] = NoFlight]
  /\ UNCHANGED <<slot, entry, saver, sweeper, closer, saves>>

\* Mutant: the failure reaches only the leader.
FlightFailLeader(a) ==
  /\ flight[a].dialling
  /\ caller' = [g \in Caller |->
       IF g # flight[a].leader THEN caller[g]
       ELSE [Outside EXCEPT !.canceled = caller[g].canceled,
                            !.res = IF flight[a].ctxDone THEN "ctxErr" ELSE "dialErr"]]
  /\ flight' = [flight EXCEPT ![a] = NoFlight]
  /\ UNCHANGED <<slot, entry, saver, sweeper, closer, saves>>

\* The dial fails.  When the leader's context had ended the failure is an
\* abandonedDialError, and a waiter whose own context is alive starts over.
FlightFail(a) ==
  /\ flight[a].dialling
  /\ caller' = [g \in Caller |->
       IF g \notin flight[a].waiters THEN caller[g]
       ELSE IF flight[a].ctxDone /\ ~caller[g].canceled
         THEN [caller[g] EXCEPT !.pc = "top"]
       ELSE [Outside EXCEPT !.canceled = caller[g].canceled,
                            !.res = IF flight[a].ctxDone THEN "ctxErr" ELSE "dialErr"]]
  /\ flight' = [flight EXCEPT ![a] = NoFlight]
  /\ UNCHANGED <<slot, entry, saver, sweeper, closer, saves>>

-----------------------------------------------------------------------------
(* Release and ReleaseRefused *)

\* Release looks the entry up by asset, under the read lock ...
Release(g) ==
  /\ At(g, "hold")
  /\ caller' = [caller EXCEPT ![g].pc = "release", ![g].conn = slot[caller[g].asset]]
  /\ UNCHANGED <<slot, entry, flight, saver, sweeper, closer, saves>>

\* ... and then takes a reference off whatever entry it found there.
Released(g) ==
  LET c == caller[g].conn IN
  /\ At(g, "release")
  /\ entry' = IF c = NoConn THEN entry ELSE [entry EXCEPT ![c].refs = @ - 1]
  /\ Return(g, "none")
  /\ UNCHANGED <<slot, flight, saver, sweeper, closer, saves>>

\* ReleaseRefused: one section of p.mu with retireRefused inside.  aged: the
\* connection was dialled at least refusedRedialInterval ago.
ReleaseRefused(g) ==
  LET c == caller[g].conn IN
  /\ At(g, "hold")
  /\ IF slot[caller[g].asset] # c
       THEN Return(g, "none") /\ UNCHANGED <<slot, entry>>
       ELSE \E aged \in BOOLEAN :
              LET last == entry[c].refs - 1 <= 0 /\ aged IN
              /\ entry' = [entry EXCEPT ![c].refs = @ - 1, ![c].retired = @ \/ last]
              /\ slot' = IF last THEN Without(c) ELSE slot
              /\ IF last THEN Goto(g, "shut") ELSE Return(g, "none")
  /\ UNCHANGED <<flight, saver, sweeper, closer, saves>>

RefusedShut(g) ==
  /\ At(g, "shut")
  /\ entry' = ShutDown(caller[g].conn)
  /\ Return(g, "none")
  /\ UNCHANGED <<slot, flight, saver, sweeper, closer, saves>>

-----------------------------------------------------------------------------
(* Asset saves: the configuration is stored, then dropPooledConns removes *)

Save(a) ==
  /\ "save" \in Faults
  /\ saver.pc = "out"
  /\ saves[a] < MaxSave
  /\ saves' = [saves EXCEPT ![a] = @ + 1]
  /\ saver' = [saver EXCEPT !.pc = "remove", !.asset = a]
  /\ UNCHANGED <<slot, entry, flight, caller, sweeper, closer>>

\* Mutant: the entry is closed but stays in the pool.
RemoveKeeps ==
  LET c == slot[saver.asset] IN
  /\ saver.pc = "remove"
  /\ saver' = IF c = NoConn THEN NotSaving ELSE [saver EXCEPT !.pc = "close", !.conn = c]
  /\ UNCHANGED <<slot, entry, flight, caller, sweeper, closer, saves>>

Remove ==
  LET c == slot[saver.asset] IN
  /\ saver.pc = "remove"
  /\ slot' = [slot EXCEPT ![saver.asset] = NoConn]
  /\ saver' = IF c = NoConn THEN NotSaving ELSE [saver EXCEPT !.pc = "close", !.conn = c]
  /\ UNCHANGED <<entry, flight, caller, sweeper, closer, saves>>

RemoveClose ==
  /\ saver.pc = "close"
  /\ entry' = Closed(saver.conn)
  /\ saver' = NotSaving
  /\ UNCHANGED <<slot, flight, caller, sweeper, closer, saves>>

-----------------------------------------------------------------------------
(* cleanupLoop / cleanupIdle *)

\* A tick of the loop: snapshot the pool.  Once p.done is closed the select may
\* still pick a tick that is ready too, until the loop has returned.
SweepStart ==
  /\ sweeper.pc = "out" /\ closer.pc \in {"out", "join"}
  /\ \E a \in Asset : slot[a] # NoConn
  /\ sweeper' = [pc |-> "judge", todo |-> {slot[a] : a \in Asset} \ {NoConn}, idle |-> {}]
  /\ UNCHANGED <<slot, entry, flight, caller, saver, closer, saves>>

\* retireIfIdle, entry by entry, without p.mu.  old: lastUsed is further back
\* than idleTime.
SweepJudge(c) ==
  /\ sweeper.pc = "judge"
  /\ c \in sweeper.todo
  /\ \E old \in BOOLEAN :
       LET retire == ~entry[c].retired /\ entry[c].refs <= 0 /\ old
           idle == IF retire THEN sweeper.idle \cup {c} ELSE sweeper.idle
           todo == sweeper.todo \ {c}
       IN /\ entry' = IF retire THEN Retired(c) ELSE entry
          /\ sweeper' = [pc |-> IF todo # {} THEN "judge" ELSE IF idle = {} THEN "out" ELSE "unlink",
                         todo |-> todo, idle |-> idle]
  /\ UNCHANGED <<slot, flight, caller, saver, closer, saves>>

\* Mutant: retired entries are deleted but never closed.
SweepUnlinkLeaks ==
  /\ sweeper.pc = "unlink"
  /\ slot' = [a \in Asset |-> IF slot[a] \in sweeper.idle THEN NoConn ELSE slot[a]]
  /\ sweeper' = [sweeper EXCEPT !.pc = "out", !.idle = {}]
  /\ UNCHANGED <<entry, flight, caller, saver, closer, saves>>

SweepUnlink ==
  /\ sweeper.pc = "unlink"
  /\ slot' = [a \in Asset |-> IF slot[a] \in sweeper.idle THEN NoConn ELSE slot[a]]
  /\ sweeper' = [sweeper EXCEPT !.pc = "shut"]
  /\ UNCHANGED <<entry, flight, caller, saver, closer, saves>>

SweepShut(c) ==
  /\ sweeper.pc = "shut"
  /\ c \in sweeper.idle
  /\ entry' = ShutDown(c)
  /\ sweeper' = [sweeper EXCEPT !.idle = @ \ {c}, !.pc = IF sweeper.idle = {c} THEN "out" ELSE @]
  /\ UNCHANGED <<slot, flight, caller, saver, closer, saves>>

-----------------------------------------------------------------------------
(* Pool.Close: stop the loop, wait for it, swap the map, close what it held *)

Close ==
  /\ "close" \in Faults
  /\ closer.pc = "out"
  /\ closer' = [closer EXCEPT !.pc = "join"]
  /\ UNCHANGED <<slot, entry, flight, caller, saver, sweeper, saves>>

CloseSwap ==
  /\ closer.pc = "join" /\ sweeper.pc = "out"
  /\ closer' = [pc |-> "close", todo |-> {slot[a] : a \in Asset} \ {NoConn}]
  /\ slot' = [a \in Asset |-> NoConn]
  /\ UNCHANGED <<entry, flight, caller, saver, sweeper, saves>>

CloseEntry(c) ==
  /\ closer.pc = "close"
  /\ c \in closer.todo
  /\ entry' = Closed(c)
  /\ closer' = [closer EXCEPT !.todo = @ \ {c}]
  /\ UNCHANGED <<slot, flight, caller, saver, sweeper, saves>>

-----------------------------------------------------------------------------

GetStep(g) ==
  \/ Lookup(g) \/ ProbeStart(g) \/ ProbeAlive(g) \/ ProbeDead(g) \/ TryAcquire(g)
  \/ RemoveEntry(g) \/ RemovedClose(g) \/ GiveUp(g) \/ Join(g)

ReleaseStep(g) == Release(g) \/ Released(g) \/ ReleaseRefused(g) \/ RefusedShut(g)

FlightStep(a) == FlightReuse(a) \/ FlightDial(a) \/ FlightStore(a) \/ FlightFail(a)

SaverStep == Remove \/ RemoveClose

SweeperStep == SweepUnlink \/ \E c \in Conn : SweepJudge(c) \/ SweepShut(c)

CloserStep == CloseSwap \/ \E c \in Conn : CloseEntry(c)

Next ==
  \/ \E g \in Caller : GetStep(g) \/ Cancel(g) \/ ReleaseStep(g)
  \/ \E g \in Caller, a \in Asset : Get(g, a)
  \/ \E a \in Asset : FlightStep(a) \/ Save(a)
  \/ SaverStep \/ SweepStart \/ SweeperStep \/ Close \/ CloserStep

Spec == Init /\ [][Next]_vars

\* The Go scheduler runs every goroutine that can run; a dial, a probe and a
\* connection close all return (they carry timeouts).  Callers need not come
\* back, contexts need not end.
Fairness ==
  /\ \A g \in Caller : WF_vars(GetStep(g)) /\ WF_vars(Released(g) \/ RefusedShut(g))
  /\ \A a \in Asset : WF_vars(FlightStep(a))
  /\ WF_vars(SaverStep) /\ WF_vars(SweeperStep) /\ WF_vars(CloserStep)

LiveSpec == Spec /\ Fairness
-----------------------------------------------------------------------------
(* Properties *)

\* A caller fails with a context error only when its own context has ended: a
\* shared dial abandoned by its leader is retried by the others
\* (abandonedDialError, pool.go:237-240).
OwnContextOnly ==
  \A g \in Caller : caller[g].res = "ctxErr" => caller[g].canceled

\* The reference count of the pooled entry is the number of callers holding it, so
\* that neither the idle sweep nor a refused forward shuts a connection in use: as
\* long as the entry has replaced no other one of its asset, whose holders release by
\* asset.
HoldersCounted ==
  \A c \in Conn :
    /\ Dialled(c)
    /\ slot[entry[c].asset] = c
    /\ \A d \in Conn \ {c} : entry[d].asset # entry[c].asset
    => entry[c].refs = Cardinality({g \in Caller :
         caller[g].pc \in {"hold", "release"} /\ caller[g].conn = c})

\* Retiring an entry for being idle (retireIfIdle), or for refusing a forward
\* (retireRefused), is for entries nobody else holds.
RetiresOnlyUnheld ==
  [][\A c \in Conn :
       \/ c \in sweeper'.idle \ sweeper.idle
       \/ \E g \in Caller : At(g, "hold") /\ caller[g].conn = c /\ caller'[g].pc = "shut"
       => \A g \in Caller : ~(caller'[g].pc = "hold" /\ caller'[g].conn = c)]_vars

\* What the pool promises.  An entry serves its asset until it is retired or
\* unlinked, whichever actor comes first.
Registry == INSTANCE ConnRegistry WITH
  Key <- Asset,
  served <- [a \in Asset |-> IF Usable(a) THEN slot[a] ELSE NoConn],
  phase <- [c \in Conn |-> IF ~Dialled(c) THEN "unused"
                           ELSE IF entry[c].shut THEN "closed"
                           ELSE IF slot[entry[c].asset] = c /\ ~entry[c].retired
                             THEN "serving" ELSE "withdrawn"]

\* The pool implements the registry: one serving connection per asset, none
\* served after it was withdrawn, only withdrawn ones closed.
ImplementsRegistry == Registry!Spec

\* ... and it closes every connection it has withdrawn, whoever withdrew it.
ImplementsLiveRegistry == Registry!LiveSpec

\* Get returns, with a client or with an error, once the callers' contexts
\* stop ending: a caller can only be kept in the loop by leaders that abandon
\* the shared dial over and over.
GetReturns ==
  <>[](\A g \in Caller : ~caller[g].canceled) =>
    \A g \in Caller : caller[g].pc = "top" ~> caller[g].pc \in {"out", "hold"}

=============================================================================

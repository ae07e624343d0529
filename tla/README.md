# TLA+ models of OpsKat

OpsKat is a desktop application (Go behind a TypeScript front end, joined by
Wails) for operating servers, databases, object stores and clusters: by hand,
from the command line through `opsctl`, and through an AI assistant whose
commands pass a permission check.  This directory models the parts of it in
which goroutines, a user's answer, a network connection, a crash and a shutdown
can interleave; it checks them with TLC on small instances and proves their safety
for every instance with TLAPS.

Contents: [inventory](#inventory), [modules](#modules-and-the-code-they-model),
[runs](#runs), [proofs](#proofs), [weaknesses met](#weaknesses-met-while-modelling),
[what is left out](#what-is-not-modelled), [plan](#plan).

## Inventory

### Components that are modelled

| component | state | operations | hard behaviour |
| --- | --- | --- | --- |
| SSH connection pool, `internal/sshpool/pool.go` | one entry per asset with `refCount`, `retired`, last use; singleflight group | Get, Release, ReleaseRefused, Remove, idle sweep, Close | probing, dialling and closing happen outside the locks; waiters share a leader's context; Release names the asset, not the connection |
| Panel connection cache, `internal/connpool/conncache.go` | entries per key with holds; `closeGen`, `dropGen` | GetOrDial, Hold, Drop, DropAsset, EvictIdle, Close | an asset is saved while a dial is in flight; eviction against operations in progress |
| opsctl approval channel, `internal/approval`, `internal/app/opsctl`, the approval and MFA dialogs | connections, handlers, pending approvals by ID, the dialogs' queues, answers in flight | Accept, Stop, single, batch and grant approvals, MFA challenges, the user's clicks, client disconnects, application shutdown | every party can leave at every moment; answers are matched by ID; grants of a session share one ID |
| Grant sessions and items, `internal/repository/grant_repo`, `permission.SaveGrantPattern` | status of a session, items of a session | CreateSession, CreateItems, UpdateSessionStatus, UpdateItems, ListApprovedItems | one statement after the other, each of which may fail; several requests write one session |
| Extension driver sessions, `internal/extreg/extdriver`, `internal/extreg/dbdriver*.go` | `live`, `idle`, `queue`, `closed` of a session; an instance's mutex, holds, broken flag and idle timer; writers | acquire, login, release, reap, close; calls, cursors, row statement writers; removal of the driver | grants cross cancellations; timers of earlier spells; guest calls without a context |
| Port forwarding, `internal/app/ssh/forward_manager.go`, `internal/service/forward_svc` | connections with references and dials by asset, running rules, start locks, listeners | StartConfig, StopConfig, CloseAsset; Update and Delete of a configuration | dials outside the lock and shared; an asset closed while it is dialled; a stop during a start |
| AI tool approval, permission checker, local tool gate, `internal/ai/permission`, `internal/ai/tool`, `internal/app/ai/approval.go` | grants, local allow lists, permission modes, pending confirmations and their channels, the blocks on the screen | exec, batch_exec, cp, request_permission, delete_asset and local writes up to where they run; the user's answers; stop, close, mode changes | overlapping calls; grants made meanwhile; several rounds of checks; an answer against a stop |
| External editing, `internal/service/external_edit_svc` | session record (base and seen hash, state, mode), timers, pause, document runner, the two files, manifest | watch and reconcile, automatic save, Save, SaveSessionText, Resolve, Refresh, PrepareMerge, ApplyMerge, reopening, Start, Close | nothing locks the files; look and write are two operations; timers against Close; crash between any two steps |
| AI chat turns, `internal/app/ai/chat.go`, `frontend/src/stores/aiStore.ts` | `a.runners`, the turn behind an entry; `sending`, the listener and the queue of a conversation | SendAIMessage, QueueAIMessage, RemoveQueuedAIMessage, ClearQueuedAIMessages, StopAIGeneration, provider reset; sending, queueing, stopping, replaying, event handling | calls and events cross; events name a conversation and no turn; stop gives up after three seconds |

How they interact: the AI's and opsctl's commands ask the permission checker,
which asks the user (the approval channel for opsctl) and reads and writes
grant sessions; what is allowed runs over connections taken from the SSH pool
and the panel caches; saving an asset (`assetSvc.Update`) tells both, through
the invalidation callbacks, to forget its connections.  An AI turn owns
connection caches that live exactly as long as its `runnerEntry`, and its tool
calls wait for approvals that end with it.  Port forwarding dials connections of
its own, and deleting an asset closes them.  A driver session belongs to a
connection of the panel cache or of a turn; external editing works over the
SFTP sessions of the SSH terminals.

### What makes each component correct

* Pool and cache: a connection handed out is open and belongs to the key that
  was asked for; nothing open is forgotten; a connection in use is not retired
  for being idle; nothing dialled before an invalidation survives it; callers
  get out again.
* Approval channel: opsctl hears yes only about what the user saw and allowed;
  what a session's later checks match is what was allowed, and what was
  reported as granted does match; every decision, departure and shutdown ends
  what waited for it.
* Chat turns: no turn runs that the user cannot see and stop; every turn's
  resources are released by somebody; nothing the user typed gets lost; the
  conversation does not stay busy for ever.

* Driver sessions: no slot of a session is lost or used twice; nobody waits
  while there is room; a module is open exactly while it is used; removing the
  driver ends everything.
* Forwarding: the references of a connection are its rules; a stop wins against
  the start it overlaps; a deleted asset stays disconnected.
* Tool approval: what runs is backed by a rule, a review, or a yes that still
  stands; what is remembered is what was agreed to; nobody waits for an answer
  that cannot come.
* External editing: nobody's version is overwritten unseen; a conflict stays
  until it is resolved; a restored draft waits for its user.

The hazards behind these (where in the code each one bites, and which property
would notice) are listed in `PROJECT.json` under `hazards`.

### Components that are not modelled

See [below](#what-is-not-modelled); `PROJECT.json` lists them with reasons.

## Modules and the code they model

`PROJECT.json` maps every definition to source lines.  A definition called
*Mutant* in its comment is a plausible bug in the definition after it; no
specification uses it.  Each checked property has one that violates it.

### `ConnRegistry`: what a connection registry promises

The abstract specification of pool and cache: each key has at most one serving
connection; a connection serves one key, once; it is withdrawn before it is
closed and closed once; `LiveSpec` adds that each withdrawn connection is
closed.  `SSHPool` and `ConnCache` implement it through the refinement mappings
at their ends (`Registry == INSTANCE ConnRegistry WITH ...`).  In the pool a
connection stops serving when its entry is retired *or* unlinked, whichever is
first; in the cache when it leaves `c.entries`.

### `SSHPool`: `internal/sshpool/pool.go`

One step per critical section of `p.mu` or `entry.mu`; probe, dial and close
are steps of their own.  A caller walks through `Get` (`Lookup`, `ProbeStart`,
`ProbeAlive`/`ProbeDead`, `TryAcquire`, `RemoveEntry`, `RemovedClose`, `Join`,
`GiveUp`), the shared dial is `FlightReuse`, `FlightDial`, `FlightStore`,
`FlightFail`; `Release` and `ReleaseRefused` are what `connpool/tunnel.go`
calls; the sweeper, the saver (`Save` then `Remove`) and the closer are actors
beside the callers.  The clock is abstracted: any comparison with an idle time
may come out either way.  `Faults` selects what may take a connection away from
its holders.

### `ConnCache`: `internal/connpool/conncache.go`

One step per critical section of `c.mu`.  `Load` is the panel operation reading
the asset before it asks the cache; `GetOrDial`, `Do`, `Recheck`, `DialDone`,
`Discard`, `DialFail` are the lookup, the singleflight call with its second
lookup, and the store or the rejection after the dial; `Hold`, `Touch`,
`Unhold` the use; `UseUnheld` the MongoDB operations, which do not hold.
`outdated` is a ghost: it records whether an invalidation has happened since
the lookup, which the code infers from generations.

### `OpsctlApproval`: the opsctl approval channel

The client, the server (`Accept`, `Dispatch`, `Watch`, `Encode`, `Stop`), the
handlers of `internal/app/opsctl` (register, emit, wait, and for grants the
database statements one by one), the dialogs (`Click`, `Submit`; the grant
dialog keeps its text by session), the delivery of answers, and the grant
tables.  `consent` is a ghost of what the user allowed, `refused` of the
sessions for which the database failed.  A request is about one command;
`Grants` says as which patterns a command is granted (NormalizeGrantPatterns is
not modelled).

### `AIChat`: the turns of one conversation

A turn is one call of SendAIMessage and the runner it starts: `Refuse`,
`LoadAndDelete`, `OldStopped`, `BuildFail`, `Store`, `LLMSend`, `LLMSendFail`,
then `End`, `CloseDone`, `FinishRunner`.  `StopWait` and `StopTimeout` are
stopEntry on behalf of whoever took the entry.  `ResetRead` and `ResetDelete`
are resetRunners, whose Range and Delete are separate.  On the other side are
`UserSend`, `UserQueue`, `UserStop`, `Replay`, `ReplayIdle`, `ReplayGoesOn`,
`TimerSend`, `RemoveQueued`, `ClearQueued` and the
handling of events and results, which arrive in the order in which they were
issued (Wails hands both to the web view through one queue).  The cago runner is
external: it consumes steered messages, and its stream is assumed to end with a
done, stopped or error event.  `crossed` is a ghost: a turn has begun before the
end of the last one was heard, or lives on without its entry (after the
three-second limit, or when resetRunners deleted a newer entry than it read).
The front end prevents that except during a replay whose stop had nothing to
stop or gave up, between an error event and the rejection that follows it, and
for a send during a replay.  The properties that mention `crossed` say what holds
before it.

### `DriverSession`: a session of an extension's database driver

One step per critical section of the session's `mu`; locking and unlocking an
instance's `mu` are steps too, so that everything interleaves with a running
guest call.  `Acquire*`, `Take`, `Leave`, `Forgo` are acquire and what happens
to a grant whose operation has been cancelled; `Lease`, `LeaseFail`, `LoggedIn`,
`LoginFail` the login; `Call*`, `ReadPage`, `CloseCursor` the calls and cursors;
`AskUsable`, `Release*` the release; `Reap` and `ReapLate` the idle timer of the
current and of an earlier spell; `BeginClose` and `Drop` the retirement by the
session; `Writer*` and `Collect` the row statement writers, which hold an
instance beyond the session; `EndDriver`, `CloseDrivers`, `CloseSession` the
removal of the driver in removeDrivers' order.

### `ForwardManager`: port forwarding

A start is one call of StartConfig: `ReadConfig`, `LockAndStop`,
`AcquireClient` (a connection that is there, a dial of one's own, or somebody
else's), `DialShared`, `WaitEnds`, `DialFails`, `Connected`, `ConnectedOrphan`,
`Register`, `Listen`, `Started`.  `StopConfig`, `CloseAsset`, the steps of Update and
Delete, and the closing of listeners by their goroutines run beside it.
`outrun` is a ghost: the starts whose configuration has been stopped since they
took its lock.

### `ToolApproval`: what an AI tool call passes before it runs

`Begin` and `Check` are one round of rules and grants, `Review` the model's
review in the assisted and autopilot modes, `Gate` the local tool gate, `Emit`,
`Register`, `Answered`, `Cancelled`, `Closing` a confirmation, `RememberLoad`
and `RememberStore` the gate's unlocked list.  A tool is described by its rounds
of commands and, for a download, its local target.  What a rule matches is a
constant; a pattern is the set of commands it matches.  `said` and `consent` are
ghosts of the user's answers.

### `ExternalEdit`: one remote file edited through a local copy

Calls, timers and the check after a restart are jobs.  `Watch`,
`ReconcileRead`, `ReconcileApply`, `ReconcilePlan` lead from a change of the
copy to a scheduled save; `RunAutoSave` and `AutoSaveStops` are runAutoSave
around saveInternal; `SaveBegins`, `SaveLooks`, `SaveWrites`,
`SaveWriteMissing`, `SaveMarks`, `Resumes` are saveInternal for all five ways
into it; `Refresh*`, `Reread*`, `Rebuild*`, `Prepare*`, `Merge*` the other
calls under the document runner; `Check*` the check after a restart, which does
not take the runner.  `Edit` is the editor, `Foreign` anybody else at the remote
end, `Exit` the end of the process at any moment: the session record (written to
the manifest in the same critical sections) and the two files survive it.
Stopped timers are taken back together with their count in the WaitGroup `bg`.
`agreed` is a ghost: the content both sides last had in common, of which there
are two between the write of the remote file and the record of it.

### `MC*` and the `.cfg` files

The `MC` modules extend a specification with the functions the configurations
assign to its constants and with symmetry sets.  No configuration replaces a
definition.

## Runs

| run | instance | shows |
| --- | --- | --- |
| `sshpool` | 1 asset, 2 connections, 2 callers, 1 save; failing probes and saves | `OwnContextOnly`, `HoldersCounted` (for an entry that replaced no other of its asset), `ImplementsRegistry` |
| `sshpool_live` | 1 connection, 2 callers; failing probes and Close | `ImplementsLiveRegistry`: every withdrawn connection is closed; `GetReturns` once contexts stop being canceled |
| `conncache` | 1 key, 2 connections, 2 callers, 1 save, 1 Close | `CachedIsCurrent`, `CachedIsOpen`, `NoConnLost`, `EvictsOnlyUnheld`, `ImplementsLiveRegistry`, `GetOrDialReturns` |
| `opsctl` | a grant request the user may edit, a command of another session, a request with a wrong token; the database may fail | `YesIsConsent`, `SettledIsConsented`, `ApprovedGrantTakesEffect` |
| `opsctl_live` | a command and an MFA challenge | `DecidedReturns`, `ShutdownEnds` |
| `aichat` | 2 turns, 1 queued message | `NoGhostTurn`, `NotLeaked`, `QueuedNotLost` |
| `aichat_live` | 2 turns | `UINeverStuck`, `StopReturns` |
| `driver` | a writer, a cursor and an operation on 2 slots, 3 instances | `SlotsAccounted`, `NobodyWaitsInVain`, `OpenWhileUsed` |
| `driver_live` | a writer and a cursor on 1 slot, 2 instances | `RemovalEnds`; `CancelReturns` as long as writers' calls end |
| `forward` | 2 starts of one configuration, 1 of another, on 1 asset; 1 change | `RefsExact`, `NoClientLost`, `DeletedStaysClosed`, `StopWins`, `StartSettles` |
| `toolapproval` | 12 pairs of overlapping calls of 1 or 2 conversations, 1 mode change | `RunsOnlyBacked`, `KeptIsConsented`, `TransferWhole`, `WaitingIsAnswerable`, `StopEnds` |
| `externaledit` | 3 contents, 2 jobs at a time, 3 edits or calls, 2 foreign writes, 1 restart | `RestoredWaits`, `CloseWaits`, `NoUnseenOverwrite`, `ConflictSticks` |

To repeat one: `tlc -workers 2 -config SSHPool.cfg MCSSHPool`.  Each takes from
seconds to two minutes.  The type invariants (`TypeOK`) are not in the
configurations; add `INVARIANT TypeOK` when a module is changed.

### Bounds, and why they are enough

Interference in pool and cache is between the holder of one connection, whoever
replaces it, and a background actor.  Two callers and two connections give each
of them someone to interfere with; every dial that succeeds uses up a
connection, so two allow one replacement.  Entries of different assets share
nothing but the map, so one asset suffices; several keys of one asset are
covered by the [proofs](#proofs), which do without any bound.  `MaxSave` and
`MaxClose` bound the generation counters: one invalidation makes a call
outdated, and a second adds nothing to it.  Approvals interact pairwise through
an ID, a session, a grant or the dialog's queue.  In `AIChat` a turn interferes
with the one before it.

A driver session's cases are: no room, room, and a waiter behind a holder.
With two slots and three operations all of them occur with cursors and writers
in the places of holder and waiter; a third instance is there to replace a
broken one.  In `ForwardManager` the third start is the one that uses a
connection two others have acquired and closed.  In `ExternalEdit` three
contents tell the base, one's own version and somebody else's apart; two jobs
are one that looks and one that interferes, and every timer can be one of
them; three user actions allow an edit, the opening of the merge window and the
merge; two foreign writes allow the one that makes a conflict and one that
comes during its resolution.  `MaxUser`, `MaxForeign` and `MaxStart` bound
exactly these.  All this is an argument about which cases occur, not a cut-off
theorem.

Deadlock checking is off where the system may come to rest: no more requests,
turns, operations, starts or edits.

### Fairness

Only what the runtime provides: goroutines that can run do; dials, probes,
logins and closes return, because they carry timeouts; emitted events and calls
arrive; the timer of a `select` fires; whoever waits for a mutex that is
released again and again gets it in the end (strong fairness for the instance
mutex: Go's mutexes are fair to a waiter of more than a millisecond).  A guest
call is not assumed to end by itself; it ends when its context or its module
does.  Nothing is assumed of users (no click, no disconnect, no quit), of the
language model (`End`, `Consume`) or of contexts being canceled.  `GetReturns`
is conditional on cancellations ceasing, because a leader that gives up makes
the others dial again; `CancelReturns` on row statement generation ending,
because a writer's call has no context.  `ExternalEdit` is checked for safety
only: uploads have no timeout, so nothing there is bound to happen.

## Proofs

Every safety property of the runs, and both refinements of `ConnRegistry`, are
theorems, for any values of the constants that satisfy the modules' named
assumptions.  Each module of proofs states an inductive invariant `IInv`, proves
that the initial states have it and that each action keeps it (one lemma per
action or group of actions), and derives the rest.  What is proved:

| module | theorems (property) |
| --- | --- |
| `SSHPoolProofs` | `OthersContextNeverFails` (`OwnContextOnly`), `CountsExact` (`HoldersCounted`), `PoolIsRegistry` (`ImplementsRegistry`) |
| `ConnCacheProofs` | `NeverOutdated` (`CachedIsCurrent`), `NeverClosed` (`CachedIsOpen`), `NothingLost` (`NoConnLost`), `HeldNotEvicted` (`EvictsOnlyUnheld`), `HoldsExact`, `CacheIsRegistry` |
| `OpsctlApprovalProofs` | `YesNeedsConsent` (`YesIsConsent`), `CommandYesNeedsConsent`, `SettledNeedsConsent` (`SettledIsConsented`), `GrantTakesEffect` (`ApprovedGrantTakesEffect`) |
| `AIChatProofs` | `NoTurnUnseen` (`NoGhostTurn`), `NothingLeaks` (`NotLeaked`), `NothingQueuedIsLost` (`QueuedNotLost`) |
| `DriverSessionProofs` | `SlotsExact` (`SlotsAccounted`), `WaitsOnlyWhenFull` (`NobodyWaitsInVain`), `OpenWhileInUse` (`OpenWhileUsed`) |
| `ForwardManagerProofs` | `ReferencesExact` (`RefsExact`), `NothingLeftOpen` (`NoClientLost`), `ClosedForGood` (`DeletedStaysClosed`), `StopPrevails` (`StopWins`) |
| `ToolApprovalProofs` | `NothingRunsUnbacked` (`RunsOnlyBacked`), `OnlyConsentIsKept` (`KeptIsConsented`), `TransfersWhole` (`TransferWhole`), `WaitsAnswerable` (`WaitingIsAnswerable`) |
| `ExternalEditProofs` | `CloseWaitsForAll` (`CloseWaits`), `RestoredDraftWaits` (`RestoredWaits`), `OverwritesOnlySeen` (`NoUnseenOverwrite`), `ConflictStays` (`ConflictSticks`) |

Each of them also proves `TypeCorrect`: `Spec => []TypeOK`.

### Assumptions

The assumptions say that sentinels are not real values, that tables given as
constants are functions of the right type, and that bounds are numbers.  Two
say more.  The sets whose members are counted (`Caller` of pool and cache,
`Op`, `Start`, `Job`) are finite: in a run of the program only finitely many
goroutines ever exist, and the code's counters count them.  `PlanConstants` of
`ToolApproval` says what the tools in front of the gate pass to it: a local
pattern is never allowed or denied by a rule (policies belong to assets), there
is at least one round of checks, only a copy has a local target, and a deletion
the rules deny has been refused before.  `Grants` of `OpsctlApproval` is any
function from a command to the patterns it is granted as, the empty set included.

Two theorems about `opsctl` have a hypothesis of their own.  Grant requests of
one session share an ID, so an answer to one may be applied to the other (see
below): `YesNeedsConsent` and `GrantTakesEffect` hold if no session asks for two
grants (`OneGrantEach`), and `CommandYesNeedsConsent` says that a command or a
batch is safe without that.  `SettledNeedsConsent` needs that a session that
asks for a grant has no other request that writes its tables (`GrantsAlone`),
because the requested items are written before the user is asked.  The instances
of the runs satisfy both, and `OpsctlApproval_session.cfg` shows what happens
without.

### Why they hold

* **SSH pool.** A caller works on an entry of its own asset and, from the moment it
  is about to close it, on one that is out of the pool (`CallerOK`); a flight
  dials only while its asset has no usable entry, and its waiters wait for that
  asset (`FlightOK`).  So a caller's context error is its own.  `CountsExact` adds
  that releasing by asset finds the released entry, as long as no other was
  dialled for the asset.  `PoolIsRegistry` maps each step to withdrawing a set of
  connections, storing one, closing one, or nothing.
* **Panel cache.** `CachedIsCurrent` holds because a connection is stored only if the
  generation captured before the dial still equals the current one; `GenInv` says
  that for calls in progress this comparison tells exactly whether the call is
  outdated, which needs generations to grow only (`SaveInv` bounds them by the
  saves).  `NoConnLost` holds although the store does not look at what it
  overwrites: `LeaderInv` says that a key has one leader, and nothing cached while
  the leader dials, which is what the second lookup inside the singleflight call is
  for.  `CachedIsOpen` needs that what is about to be closed (`ClosingInv`) or
  discarded (`DiscardInv`) is in nobody else's hands (`SlotInv`).  A connection's
  hold count is the number of its holders (`HoldInv`), so the evictor, which takes
  those with none, never takes one in use.
* **opsctl.** The user's consent is followed from the dialog (`SentInv`) to the
  request's channel (`ReplyInv`), its handler (`VerdictInv`) and the tables
  (`Written`, `Settled`, `ItemsInv`), for requests whose ID is theirs alone.
* **Chat.** As long as turns have not crossed, one turn at a time is live (`OneTurn`),
  none is once its end is on its way to the front end (`EndMeansOver`), and
  `a.runners` files nothing else while a turn is being prepared (`Filed`).  Whoever
  takes an entry out of `a.runners` therefore takes that of the only turn that
  could be running, and stops or releases it; the entry that resetRunners has read
  is being stopped already (`ResetInv`).
* **Driver sessions.** An operation that holds a slot has an instance exactly when
  it is past its login, no two have the same, and none has an idle one (`OwnInv`,
  `IdleInv`); whoever is queued holds nothing, and only once, so that handing a slot
  over loses none (`QueueInv`, `SlotInv`); an instance's holds are the session's one
  and one for each writer (`RefsInv`).
* **Port forwarding.** A start past its configuration's lock holds it (`LockInv`), the one
  that dials for an asset is in `m.dialing` and the asset has no connection then
  (`DialInv`), and the connection a start was given is still the asset's or has been
  closed (`StartOK`), so a rule is never registered on a connection that was
  replaced.  The references are the registered rules and those about to be (`RefInv`).
* **Tool approval.** A response in a call's channel was given to that call's dialog
  (`ChannelInv`), because confirmation IDs of open dialogs differ (`IdInv`); what has been
  let through so far is backed (`LetThrough`) and what a transfer wants is let
  through, asked about, under review or still to be checked (`Whole`).
* **External editing.** Who saves holds the document's runner (`Holding`), what it has read
  of the session still is so (`Sound`), and the remote file is one somebody has agreed
  to replace, or was changed after the last look (`late`); in a restored session no
  job is, or is about to file, an automatic save (`Restored`).

### Only model-checked

Liveness under fairness is out of the prover's reach: `ImplementsLiveRegistry`
(the step part of it is proved as `PoolIsRegistry` and `CacheIsRegistry`),
`GetReturns`, `GetOrDialReturns`, `DecidedReturns`, `ShutdownEnds`,
`UINeverStuck`, `StopReturns`, `RemovalEnds`, `CancelReturns`, `StartSettles`
and `StopEnds`.  No recursive definition is used where something is proved.

## Weaknesses met while modelling

Five lines of documentation or comment do not hold.  Each has a configuration
beside the runs that reproduces it and ends in a violation:

* `SSHPool_held.cfg` (`RetiresOnlyUnheld`): `Release` (`pool.go:310`) finds the
  entry by asset.  After a failed probe has replaced a connection, its old holders
  release references of the new one, and the idle sweep retires a connection in
  use, against the comment of `retireIfIdle` (`pool.go:67`).
* `ConnCache_stale.cfg` (`NoStaleConfig`): the panel loads the asset
  (`query_ops.go:43`) before `GetOrDial` captures the generation; a save in between
  goes unnoticed and the old configuration is dialled and cached, against
  `conncache.go:34`.
* `OpsctlApproval_session.cfg` (`YesIsConsent`): two grant requests of a session
  share an ID (`app/opsctl/approval.go:365`); the user's answer to one text is
  applied to another.
* `OpsctlApproval_gone.cfg` (`GoneEndsAll`): a client that leaves does not end the
  dialog of its command or grant request (`app/opsctl/approval.go:81`); only MFA
  dialogs follow the request's context, as `internal/approval/approval.go:295`
  says of all.
* `DriverSession_stale.cfg` (`NextLogsIn`): acquire (`session.go:593`) takes an
  idle instance without asking whether a writer's call has broken it, so the next
  operation fails instead of logging in (`session.go:49`).

Others are kept out of the passing properties by their stated conditions, or lie
outside the models:

* SSH pool, `pool.go:282`: a dial in flight across an asset save is pooled after
  `Remove` has run, with the old configuration; the pool has no generations.
* Grants, `app/opsctl/approval.go:343, 386`: items of a grant request are saved
  before the answer, so a session that is approved already makes them effective at
  once; an approved session has its unedited items until `UpdateItems`; a
  failing statement is logged and the request reported as approved.
  `permission.go:877`: an "always allow" in a session that was rejected or is
  pending is saved where no check looks, as long as the session stays so.
* Chat, `chat.go:590`: while SendAIMessage prepares a turn, QueueAIMessage fails
  and the front end removes what the user typed (`aiStore.ts:1685`); a stop in that
  time does nothing.  A QueueAIMessage call that arrives after the queue has been
  drained into the next turn steers the message into that turn a second time.
  `chat.go:168`: resetRunners deletes by key; an entry stored after Range read
  the old one is deleted without being stopped, and its caches are never released.
* Driver sessions: a new instance may log in while a broken one is still being
  closed, so that for a moment there are more database connections than
  `session.go:52` says.
* Forwarding: StartConfig reads the configuration before it takes the start lock,
  so an Update or Delete in between is overtaken by the old rules; a restart may
  try to listen before the old listener's goroutine has closed it.
* Tool approval: the event that shows a dialog leaves before the confirmation is
  filed; confirmation IDs are the conversation and the clock, and would collide if
  two dialogs read the same time; of two calls that `remember` at once one
  pattern may be lost; the permission mode is read before the model's review and
  may have changed after it; `LocalToolGate.Reset` has no caller.
* External editing:
  - `Stat` over SFTP carries no hash, so Open always reuses the copy it has; that
    reopening a file changed remotely fetches it again (`builtin_editor_test.go:81`)
    holds with the tests' remote only;
  - two first Opens of one file at once create two sessions over one copy, and the
    second overwrites what has been edited in between;
  - an edit during an upload is marked clean by markSaved, and found only if its
    watcher event is still to come; edits made while the application is down
    are not noticed until something else changes the copy;
  - the check after a restart works with the base it has read, without the
    document runner: a save that goes through meanwhile is taken for somebody else's
    and reported as a conflict;
  - overlapping reconciles may apply the older reading last; runAutoSave takes a
    newer timer than its own off the map, and pauses after it has released the
    runner; reopening clears the error but not the pause; a reread whose editor
    does not start leaves the pause; a Refresh that marks the change first keeps
    it from being saved automatically; an automatic save that is already scheduled
    is carried out after the file has been opened in the built-in editor;
  - the manifest is written in place, so a crash during the write loses the records
    of all sessions; retention removes drafts with unsaved changes as well.

## What is not modelled

* Parsing and matching of commands (shell, SQL, Redis, Mongo, Kafka, S3) and the
  normalisation of grants: text processing, left to the code's tests.
* The agent loop (the cago library), prompts, providers, token counts.
* Extension runtime and manager, installation and rollback of extensions:
  concurrent and worth modelling; see the plan.
* Of external editing: the first Open, several sessions of one document,
  retention and expiry, encodings, the record and review flags, Compare, Recover
  and Continue, settings, failures to write the manifest.
* Of tool approval: what the tools do once let through, asset writes and groups,
  the documentation gate, audit records.
* Transfers, terminals, remote desktops, storage and migrations, the React
  views: byte streams, external semantics, or no state of their own.

The mapped lines are a small share of the repository: most of it is user
interface, protocol clients, parsers and data access, which have no states to
explore.

## Plan

Order: the connections everything runs over, then consent, then the turns that
use both, then the services beside them.  Done: `ConnRegistry`, `SSHPool`,
`ConnCache`, `OpsctlApproval`, `AIChat`, `DriverSession`, `ForwardManager`,
`ToolApproval`, `ExternalEdit`, and the proofs about each of them.  Left:

1. `ExtensionHost`: manager, leases, instances and interrupted calls
   (`pkg/extension`), install and rollback (`extension_svc`).  Abstract
   specification: an unloaded extension has no call in progress.
2. The grant tables as a module of their own, shared by `OpsctlApproval` and
   `ToolApproval`.

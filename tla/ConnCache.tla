------------------------------ MODULE ConnCache ------------------------------
(***************************************************************************)
(* AssetConnCache of internal/connpool/conncache.go, the cache of database,*)
(* MongoDB and Redis connections behind the query panels, together with    *)
(* its callers (internal/app/query, internal/service/redis_svc) and the    *)
(* asset saves that invalidate it (internal/service/asset_svc).            *)
(*                                                                         *)
(* Every critical section of c.mu is one step.  Dialling and closing happen*)
(* outside the lock, each in a step of its own.  Any time may pass between *)
(* two steps, so an entry's lastUsed may be older than idleTTL whenever    *)
(* the evictor compares it; lastUsed itself is therefore not kept.         *)
(***************************************************************************)
EXTENDS Integers, FiniteSets

CONSTANTS
  Asset,      \* assets
  Key,        \* cache keys, such as "<assetID>:<database>"
  Owner,      \* the asset of each key
  Conn,       \* connections; each dial that succeeds uses up one of them
  Caller,     \* goroutines running panel operations
  NoConn,     \* no entry under a key
  NoKey,      \* no key at work
  NoCaller,   \* no singleflight call in progress
  MaxSave,    \* bound on the saves of each asset
  MaxClose    \* bound on the calls of Close

ASSUME CacheConstants ==
  /\ Owner \in [Key -> Asset]
  /\ NoConn \notin Conn
  /\ NoKey \notin Key
  /\ NoCaller \notin Caller
  /\ IsFiniteSet(Caller)
  /\ MaxSave \in Nat
  /\ MaxClose \in Nat

VARIABLES
  slot,       \* c.entries: the cached connection of each key
  conn,       \* what is known of each connection, and its holds
  leader,     \* the caller running the singleflight call of each key
  caller,     \* the control point of each caller, and what it carries
  closing,    \* connections taken out of the cache and about to be closed
  saving,     \* assets saved but not yet invalidated
  config,     \* the saved configuration version of each asset
  closeGen,   \* number of calls of Close
  dropGen     \* number of calls of DropAsset for each asset

vars == <<slot, conn, leader, caller, closing, saving, config, closeGen, dropGen>>

-----------------------------------------------------------------------------
(* State *)

\* outdated (of a connection or of a call): its asset has been invalidated
\* since the GetOrDial that dialled it looked the key up.  The code has no such
\* flag; its generations are there to find it out.
Entry == [key: Key \cup {NoKey}, ver: Nat, holds: Int, shut: BOOLEAN, outdated: BOOLEAN]

Unused == [key |-> NoKey, ver |-> 0, holds |-> 0, shut |-> FALSE, outdated |-> FALSE]

CallerPC == {"out", "get", "do", "lead", "dial", "wait", "discard", "hold", "use", "touched"}

Result == {"none", "client", "dialErr", "invalidated"}

\* ver: the configuration version the caller loaded; gen: the invalidation
\* generation it captured; conn: the connection it was given; held: the one
\* its Hold counts on.
CallerState == [pc: CallerPC, key: Key \cup {NoKey}, ver: Nat, gen: Nat, outdated: BOOLEAN,
                conn: Conn \cup {NoConn}, held: Conn \cup {NoConn}, res: Result]

Outside == [pc |-> "out", key |-> NoKey, ver |-> 0, gen |-> 0, outdated |-> FALSE,
            conn |-> NoConn, held |-> NoConn, res |-> "none"]

TypeOK ==
  /\ slot \in [Key -> Conn \cup {NoConn}]
  /\ conn \in [Conn -> Entry]
  /\ leader \in [Key -> Caller \cup {NoCaller}]
  /\ caller \in [Caller -> CallerState]
  /\ closing \in SUBSET Conn
  /\ saving \in SUBSET Asset
  /\ config \in [Asset -> 0..MaxSave]
  /\ closeGen \in 0..MaxClose
  /\ dropGen \in [Asset -> 0..MaxSave]

Init ==
  /\ slot = [k \in Key |-> NoConn]
  /\ conn = [c \in Conn |-> Unused]
  /\ leader = [k \in Key |-> NoCaller]
  /\ caller = [g \in Caller |-> Outside]
  /\ closing = {}
  /\ saving = {}
  /\ config = [a \in Asset |-> 0]
  /\ closeGen = 0
  /\ dropGen = [a \in Asset |-> 0]

Dialled(c) == conn[c].key # NoKey

Cached == {slot[k] : k \in Key} \ {NoConn}

\* genLocked
Gen(a) == closeGen + dropGen[a]

At(g, pc) == caller[g].pc = pc

\* Take the connections in S out of c.entries.
Without(S) == [k \in Key |-> IF slot[k] \in S THEN NoConn ELSE slot[k]]

-----------------------------------------------------------------------------
(* GetOrDial and the operation around it *)

\* The operation loads the asset and resolves its connection configuration
\* before it asks the cache (getOrDialPanelDB takes asset and cfg by value).
Load(g, k) ==
  /\ At(g, "out")
  /\ caller' = [caller EXCEPT ![g] = [Outside EXCEPT !.pc = "get", !.key = k, !.ver = config[Owner[k]]]]
  /\ UNCHANGED <<slot, conn, leader, closing, saving, config, closeGen, dropGen>>

\* First section: a hit returns the entry, a miss captures the generation.
GetOrDial(g) ==
  LET k == caller[g].key IN
  /\ At(g, "get")
  /\ caller' = [caller EXCEPT ![g] =
       IF slot[k] # NoConn
         THEN [caller[g] EXCEPT !.pc = "hold", !.conn = slot[k]]
         ELSE [caller[g] EXCEPT !.pc = "do", !.gen = Gen(Owner[k]), !.outdated = FALSE]]
  /\ UNCHANGED <<slot, conn, leader, closing, saving, config, closeGen, dropGen>>

\* sf.Do: lead the key's call, or wait for the one in progress.
Do(g) ==
  LET k == caller[g].key IN
  /\ At(g, "do")
  /\ caller' = [caller EXCEPT ![g].pc = IF leader[k] = NoCaller THEN "lead" ELSE "wait"]
  /\ leader' = [leader EXCEPT ![k] = IF leader[k] = NoCaller THEN g ELSE leader[k]]
  /\ UNCHANGED <<slot, conn, closing, saving, config, closeGen, dropGen>>

\* Everyone in the singleflight call that g leads.
InCall(g) == {g} \cup {h \in Caller : At(h, "wait") /\ caller[h].key = caller[g].key}

\* The call ends: a connection goes on to Hold, an error ends the operation.
Finish(g, c) ==
  /\ caller' = [h \in Caller |->
       IF h \in InCall(g) THEN [caller[h] EXCEPT !.pc = "hold", !.conn = c] ELSE caller[h]]
  /\ leader' = [leader EXCEPT ![caller[g].key] = NoCaller]

Fail(g, err) ==
  /\ caller' = [h \in Caller |->
       IF h \in InCall(g) THEN [Outside EXCEPT !.res = err] ELSE caller[h]]
  /\ leader' = [leader EXCEPT ![caller[g].key] = NoCaller]

\* Mutant: no second lookup inside the call.
RecheckNot(g) ==
  /\ At(g, "lead")
  /\ caller' = [caller EXCEPT ![g].pc = "dial"]
  /\ UNCHANGED <<slot, conn, leader, closing, saving, config, closeGen, dropGen>>

\* Inside the call the cache is looked up once more.
Recheck(g) ==
  LET k == caller[g].key IN
  /\ At(g, "lead")
  /\ IF slot[k] # NoConn
       THEN Finish(g, slot[k])
       ELSE caller' = [caller EXCEPT ![g].pc = "dial"] /\ UNCHANGED leader
  /\ UNCHANGED <<slot, conn, closing, saving, config, closeGen, dropGen>>

\* The dial succeeds.  Under c.mu the generation decides: the connection enters
\* the cache, or it is about to be discarded.
DialDone(g, c) ==
  LET k == caller[g].key IN
  /\ At(g, "dial")
  /\ ~Dialled(c)
  /\ conn' = [conn EXCEPT ![c] = [key |-> k, ver |-> caller[g].ver, holds |-> 0,
                                  shut |-> FALSE, outdated |-> caller[g].outdated]]
  /\ IF Gen(Owner[k]) = caller[g].gen
       THEN slot' = [slot EXCEPT ![k] = c] /\ Finish(g, c)
       ELSE /\ caller' = [caller EXCEPT ![g].pc = "discard", ![g].conn = c]
            /\ UNCHANGED <<slot, leader>>
  /\ UNCHANGED <<closing, saving, config, closeGen, dropGen>>

\* Mutant: only the leader learns of the discarded connection.
DiscardLeaderOnly(g) ==
  /\ At(g, "discard")
  /\ conn' = [conn EXCEPT ![caller[g].conn].shut = TRUE]
  /\ caller' = [caller EXCEPT ![g] = [Outside EXCEPT !.res = "invalidated"]]
  /\ leader' = [leader EXCEPT ![caller[g].key] = NoCaller]
  /\ UNCHANGED <<slot, closing, saving, config, closeGen, dropGen>>

\* closeEntry of the outdated connection, then ErrConnInvalidated for all.
Discard(g) ==
  /\ At(g, "discard")
  /\ conn' = [conn EXCEPT ![caller[g].conn].shut = TRUE]
  /\ Fail(g, "invalidated")
  /\ UNCHANGED <<slot, closing, saving, config, closeGen, dropGen>>

DialFail(g) ==
  /\ At(g, "dial")
  /\ Fail(g, "dialErr")
  /\ UNCHANGED <<slot, conn, closing, saving, config, closeGen, dropGen>>

\* Hold(key) counts on whatever is cached under the key by now, if anything.
Hold(g) ==
  LET c == slot[caller[g].key] IN
  /\ At(g, "hold")
  /\ caller' = [caller EXCEPT ![g].pc = "use", ![g].held = c, ![g].res = "client"]
  /\ conn' = IF c = NoConn THEN conn ELSE [conn EXCEPT ![c].holds = @ + 1]
  /\ UNCHANGED <<slot, leader, closing, saving, config, closeGen, dropGen>>

\* The MongoDB panel uses its client without a Hold.
UseUnheld(g) ==
  /\ At(g, "hold")
  /\ caller' = [caller EXCEPT ![g].pc = "use", ![g].res = "client"]
  /\ UNCHANGED <<slot, conn, leader, closing, saving, config, closeGen, dropGen>>

\* Mutant: the hold is given up before lastUsed is recorded.
TouchLate(g) ==
  /\ At(g, "use")
  /\ caller' = [caller EXCEPT ![g] =
       IF caller[g].held = NoConn THEN Outside ELSE [caller[g] EXCEPT !.pc = "touched"]]
  /\ conn' = IF caller[g].held = NoConn THEN conn
             ELSE [conn EXCEPT ![caller[g].held].holds = @ - 1]
  /\ UNCHANGED <<slot, leader, closing, saving, config, closeGen, dropGen>>

\* release: record lastUsed, and only then give up the hold.
Touch(g) ==
  /\ At(g, "use")
  /\ caller' = [caller EXCEPT ![g] =
       IF caller[g].held = NoConn THEN Outside ELSE [caller[g] EXCEPT !.pc = "touched"]]
  /\ UNCHANGED <<slot, conn, leader, closing, saving, config, closeGen, dropGen>>

Unhold(g) ==
  /\ At(g, "touched")
  /\ conn' = [conn EXCEPT ![caller[g].held].holds = @ - 1]
  /\ caller' = [caller EXCEPT ![g] = Outside]
  /\ UNCHANGED <<slot, leader, closing, saving, config, closeGen, dropGen>>

-----------------------------------------------------------------------------
(* Invalidation, eviction, closing *)

\* asset_svc.Update: the new configuration is in the database ...
Save(a) ==
  /\ a \notin saving
  /\ config[a] < MaxSave
  /\ config' = [config EXCEPT ![a] = @ + 1]
  /\ saving' = saving \cup {a}
  /\ UNCHANGED <<slot, conn, leader, caller, closing, closeGen, dropGen>>

\* The calls in progress and the connections that the invalidation of the
\* assets in A makes outdated.
Outdate(A) ==
  /\ caller' = [g \in Caller |-> [caller[g] EXCEPT !.outdated =
       caller[g].outdated \/ (caller[g].key # NoKey /\ Owner[caller[g].key] \in A)]]
  /\ conn' = [c \in Conn |-> [conn[c] EXCEPT !.outdated =
       conn[c].outdated \/ (Dialled(c) /\ Owner[conn[c].key] \in A)]]

\* Mutant: the invalidation does not advance the generation.
DropAssetNoGen(a) ==
  LET S == {c \in Cached : Owner[conn[c].key] = a} IN
  /\ a \in saving
  /\ slot' = Without(S)
  /\ closing' = closing \cup S
  /\ saving' = saving \ {a}
  /\ Outdate({a})
  /\ UNCHANGED <<leader, config, closeGen, dropGen>>

\* ... and then the invalidation hook drops the asset's connections.
DropAsset(a) ==
  LET S == {c \in Cached : Owner[conn[c].key] = a} IN
  /\ a \in saving
  /\ dropGen' = [dropGen EXCEPT ![a] = @ + 1]
  /\ slot' = Without(S)
  /\ closing' = closing \cup S
  /\ saving' = saving \ {a}
  /\ Outdate({a})
  /\ UNCHANGED <<leader, config, closeGen>>

Drop(k) ==
  /\ slot[k] # NoConn
  /\ slot' = [slot EXCEPT ![k] = NoConn]
  /\ closing' = closing \cup {slot[k]}
  /\ UNCHANGED <<conn, leader, caller, saving, config, closeGen, dropGen>>

Close ==
  /\ closeGen < MaxClose
  /\ closeGen' = closeGen + 1
  /\ slot' = [k \in Key |-> NoConn]
  /\ closing' = closing \cup Cached
  /\ Outdate(Asset)
  /\ UNCHANGED <<leader, saving, config, dropGen>>

\* Mutant: the scan closes entries without deleting them.
EvictIdleKeepsMap(old) ==
  LET S == {c \in Cached \cap old : conn[c].holds = 0} IN
  /\ S # {}
  /\ closing' = closing \cup S
  /\ UNCHANGED <<slot, conn, leader, caller, saving, config, closeGen, dropGen>>

\* Mutant: the scan deletes entries without closing them.
EvictIdleLeaks(old) ==
  LET S == {c \in Cached \cap old : conn[c].holds = 0} IN
  /\ S # {}
  /\ slot' = Without(S)
  /\ UNCHANGED <<conn, leader, caller, closing, saving, config, closeGen, dropGen>>

\* One scan.  old: the entries whose lastUsed is further back than idleTTL.
EvictIdle(old) ==
  LET S == {c \in Cached \cap old : conn[c].holds = 0} IN
  /\ S # {}
  /\ slot' = Without(S)
  /\ closing' = closing \cup S
  /\ UNCHANGED <<conn, leader, caller, saving, config, closeGen, dropGen>>

\* closeEntry, outside the lock.
CloseEntry(c) ==
  /\ c \in closing
  /\ conn' = [conn EXCEPT ![c].shut = TRUE]
  /\ closing' = closing \ {c}
  /\ UNCHANGED <<slot, leader, caller, saving, config, closeGen, dropGen>>

-----------------------------------------------------------------------------

\* What a goroutine inside GetOrDial does without waiting for anybody's input.
CallStep(g) ==
  \/ GetOrDial(g) \/ Do(g) \/ Recheck(g) \/ Discard(g) \/ DialFail(g)
  \/ \E c \in Conn : DialDone(g, c)

UseStep(g) == Hold(g) \/ UseUnheld(g) \/ Touch(g) \/ Unhold(g)

Next ==
  \/ \E g \in Caller : CallStep(g) \/ UseStep(g)
  \/ \E g \in Caller, k \in Key : Load(g, k)
  \/ \E a \in Asset : Save(a) \/ DropAsset(a)
  \/ \E k \in Key : Drop(k)
  \/ Close
  \/ \E old \in SUBSET Conn : EvictIdle(old)
  \/ \E c \in Conn : CloseEntry(c)

Spec == Init /\ [][Next]_vars

\* Goroutines that can run are run, and dials and closes return.  Operations
\* need not start or end, and nobody need save, evict or close.
Fairness ==
  /\ \A g \in Caller : WF_vars(CallStep(g))
  /\ \A c \in Conn : WF_vars(CloseEntry(c))

LiveSpec == Spec /\ Fairness

-----------------------------------------------------------------------------
(* Properties *)

\* No cached connection is outdated: its dial began after the last
\* invalidation of its asset (genLocked, captured when GetOrDial misses and
\* compared under c.mu before the entry is stored).
CachedIsCurrent ==
  \A k \in Key : slot[k] # NoConn => ~conn[slot[k]].outdated

\* Nobody is given a connection from the cache that has been closed, or that
\* belongs to another key.
CachedIsOpen ==
  \A k \in Key : slot[k] # NoConn => conn[slot[k]].key = k /\ ~conn[slot[k]].shut

\* No connection is lost: while it is open it is cached, or somebody is about
\* to close it.  GetOrDial stores into c.entries without looking at what is
\* there; only the singleflight call and its second lookup make that safe.
NoConnLost ==
  \A c \in Conn : Dialled(c) /\ ~conn[c].shut =>
    \/ slot[conn[c].key] = c
    \/ c \in closing
    \/ \E g \in Caller : At(g, "discard") /\ caller[g].conn = c

\* Idle eviction never takes a connection out from under an operation that
\* holds it, up to the very end of its release.
EvictsOnlyUnheld ==
  [][\A old \in SUBSET Conn : EvictIdle(old) =>
       \A g \in Caller : caller[g].pc \in {"use", "touched"} => caller[g].held \notin closing' \ closing]_vars

\* GetOrDial returns: nobody waits forever for a call that was abandoned.
GetOrDialReturns ==
  \A g \in Caller : caller[g].pc = "get" ~> caller[g].pc \in {"out", "hold", "use", "touched"}

\* What the cache promises: one serving connection per key, none served after
\* it was taken out, every one taken out closed exactly once.
Registry == INSTANCE ConnRegistry WITH
  served <- slot,
  phase <- [c \in Conn |-> IF ~Dialled(c) THEN "unused"
                           ELSE IF conn[c].shut THEN "closed"
                           ELSE IF slot[conn[c].key] = c THEN "serving" ELSE "withdrawn"]

\* AssetConnCache implements the registry, and closes every connection it has taken out
\* (closeEntry).
ImplementsLiveRegistry == Registry!LiveSpec

\* After an asset save has returned, no connection dialled with an earlier
\* configuration is in the cache.
NoStaleConfig ==
  \A k \in Key : slot[k] # NoConn /\ Owner[k] \notin saving => conn[slot[k]].ver = config[Owner[k]]
=============================================================================

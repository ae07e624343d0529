---------------------------- MODULE ForwardManager ----------------------------
(***************************************************************************)
(* Port forwarding: internal/app/ssh/forward_manager.go under              *)
(* internal/service/forward_svc/service.go.                                *)
(*                                                                         *)
(* Starting a configuration reads it, takes the configuration's start      *)
(* lock, stops what runs of it, gets the asset's SSH connection (dialling  *)
(* it outside m.mu, or sharing the dial of another start), registers its   *)
(* rules with one reference each and starts their listeners.  Stopping,    *)
(* changing and deleting a configuration and deleting the asset interleave *)
(* with that anywhere outside the locks.  A connection is named by the     *)
(* start that dialled it, a running rule by its start and its number.      *)
(* The bytes forwarded are left out.                                       *)
(***************************************************************************)
EXTENDS Integers, FiniteSets

CONSTANTS
  Asset,      \* SSH assets
  Config,     \* forward configurations
  Start,      \* calls of StartConfig, each made at most once
  ConfigOf,   \* the configuration each start is for
  Impatient,  \* starts whose caller may give up
  N,          \* rules of a configuration
  Edited,     \* the configurations that may be changed or deleted
  MaxEdit,    \* bound on the changes of a configuration
  NoStart, NoAsset

ASSUME ForwardConstants ==
  /\ NoStart \notin Start /\ NoAsset \notin Asset
  /\ ConfigOf \in [Start -> Config]
  /\ Edited \subseteq Config /\ Impatient \subseteq Start
  /\ N \in Nat \ {0} /\ MaxEdit \in Nat
  /\ IsFiniteSet(Start)

Rule == 1..N

VARIABLES
  row,        \* the stored configurations: the asset, and how often the rules were replaced
  assets,     \* the assets: "kept", "deleted" from the database, "closed" by assetconn too
  clients,    \* m.clients: the connection of each asset
  conn,       \* every connection dialled: its references, and whether it is closed
  dialing,    \* m.dialing: the start that dials for each asset
  call,       \* each start's dialCall
  running,    \* m.running: <<start, number>> of every registered rule
  rules,      \* the contexts cancelled and the listeners open
  lock,       \* m.starting: the start that holds each configuration's lock
  start,      \* the StartConfig calls
  edit,       \* the Update or Delete going on for each configuration
  outrun      \* starts whose configuration has been stopped since they took its lock

vars == <<row, assets, clients, conn, dialing, call, running, rules, lock, start, edit, outrun>>

-----------------------------------------------------------------------------
(* State *)

Row == [asset: Asset, version: Nat, kept: BOOLEAN]

StartPC == {"new", "lock", "acquire", "wait", "dial", "connect", "register", "listen", "done"}

StartState == [pc: StartPC, asset: Asset \cup {NoAsset}, version: Nat, fc: Start \cup {NoStart},
               next: 1..N+1, ctx: BOOLEAN]

CallState == [done: BOOLEAN, closed: BOOLEAN, err: {"none", "failed", "abandoned", "closed"}]

ConnState == [up: BOOLEAN, refs: Int, shut: BOOLEAN]

NewStart == [pc |-> "new", asset |-> NoAsset, version |-> 0, fc |-> NoStart, next |-> 1,
             ctx |-> FALSE]

NoCall == [done |-> FALSE, closed |-> FALSE, err |-> "none"]

Init ==
  /\ row \in [Config -> [asset: Asset, version: {0}, kept: {TRUE}]]
  /\ assets = [a \in Asset |-> "kept"]
  /\ clients = [a \in Asset |-> NoStart]
  /\ conn = [s \in Start |-> [up |-> FALSE, refs |-> 0, shut |-> FALSE]]
  /\ dialing = [a \in Asset |-> NoStart]
  /\ call = [s \in Start |-> NoCall]
  /\ running = {}
  /\ rules = [cancelled |-> {}, open |-> {}]
  /\ lock = [c \in Config |-> NoStart]
  /\ start = [s \in Start |-> NewStart]
  /\ edit = [c \in Config |-> "none"]
  /\ outrun = {}

At(s, pc) == start[s].pc = pc

AssetOf(x) == start[x[1]].asset

RulesOf(c) == {x \in running : ConfigOf[x[1]] = c}

RulesOn(a) == {x \in running : AssetOf(x) = a}

\* The rule's id: ReplaceRules gives a configuration's rules new ones.
RuleID(x) == <<ConfigOf[x[1]], start[x[1]].version, x[2]>>

Goto(s, pc) == start' = [start EXCEPT ![s].pc = pc]

stored == <<row, assets, edit>>

-----------------------------------------------------------------------------
(* Stopping *)

Shut(f) == [conn[f] EXCEPT !.refs = 0, !.shut = TRUE]

\* stopConfigLocked: cancel the configuration's rules and release one reference for each;
\* the last one closes the connection.
StopLocked(c) ==
  LET stopped == RulesOf(c)
      on(a) == Cardinality({x \in stopped : AssetOf(x) = a})
      dead == {a \in Asset : on(a) > 0 /\ clients[a] # NoStart /\ conn[clients[a]].refs - on(a) <= 0}
  IN /\ running' = running \ stopped
     /\ rules' = [rules EXCEPT !.cancelled = @ \cup stopped]
     /\ clients' = [a \in Asset |-> IF a \in dead THEN NoStart ELSE clients[a]]
     /\ conn' = [f \in Start |->
          LET held == {a \in Asset : clients[a] = f} IN
          IF held = {} THEN conn[f]
          ELSE LET a == CHOOSE a \in held : TRUE IN
               IF a \in dead THEN Shut(f) ELSE [conn[f] EXCEPT !.refs = @ - on(a)]]

\* Whoever is past the lock is meant by the stop too.
Outrun(c) == outrun' = outrun \cup
  {s \in Start : ConfigOf[s] = c /\ start[s].pc \in {"acquire", "wait", "dial", "connect", "register", "listen"}}

\* Mutant: the stop does not wait for the start lock.
StopUnlocked(c) ==
  /\ StopLocked(c) /\ Outrun(c)
  /\ UNCHANGED <<dialing, call, lock, start>>

\* StopConfig waits for the start lock: a stop that comes during a start takes effect after it.
StopConfig(c) ==
  /\ lock[c] = NoStart
  /\ StopLocked(c) /\ Outrun(c)
  /\ UNCHANGED <<dialing, call, lock, start>>

UserStop(c) == StopConfig(c) /\ running # {} /\ UNCHANGED stored

\* asset_svc.Delete, and then assetconn.CloseAsset.
DeleteAsset(a) ==
  /\ assets[a] = "kept"
  /\ assets' = [assets EXCEPT ![a] = "deleted"]
  /\ UNCHANGED <<row, clients, conn, dialing, call, running, rules, lock, start, edit, outrun>>

\* Mutant: dials under way are not told.
CloseAssetNotDialing(a) ==
  /\ assets[a] = "deleted"
  /\ assets' = [assets EXCEPT ![a] = "closed"]
  /\ running' = running \ RulesOn(a)
  /\ rules' = [rules EXCEPT !.cancelled = @ \cup RulesOn(a)]
  /\ clients' = [clients EXCEPT ![a] = NoStart]
  /\ conn' = [f \in Start |-> IF f = clients[a] THEN Shut(f) ELSE conn[f]]
  /\ UNCHANGED <<row, dialing, call, lock, start, edit, outrun>>

CloseAsset(a) ==
  /\ assets[a] = "deleted"
  /\ assets' = [assets EXCEPT ![a] = "closed"]
  /\ running' = running \ RulesOn(a)
  /\ rules' = [rules EXCEPT !.cancelled = @ \cup RulesOn(a)]
  /\ call' = [s \in Start |-> IF s = dialing[a] THEN [call[s] EXCEPT !.closed = TRUE] ELSE call[s]]
  /\ clients' = [clients EXCEPT ![a] = NoStart]
  /\ conn' = [f \in Start |-> IF f = clients[a] THEN Shut(f) ELSE conn[f]]
  /\ UNCHANGED <<row, dialing, lock, start, edit, outrun>>

-----------------------------------------------------------------------------
(* StartConfig *)

\* Mutant: the start lock is kept.
FailKeepsLock(s) ==
  /\ start' = [start EXCEPT ![s] = [NewStart EXCEPT !.pc = "done"]]
  /\ UNCHANGED lock

\* StartConfig returns an error, and its deferred Unlock runs.
Fail(s) ==
  /\ start' = [start EXCEPT ![s] = [NewStart EXCEPT !.pc = "done"]]
  /\ lock' = [c \in Config |-> IF lock[c] = s THEN NoStart ELSE lock[c]]

\* FindConfig and ListRulesByConfigID: before the start lock is taken.
ReadConfig(s) ==
  /\ At(s, "new")
  /\ LET r == row[ConfigOf[s]] IN
       IF r.kept
         THEN /\ start' = [start EXCEPT ![s].pc = "lock", ![s].asset = r.asset, ![s].version = r.version]
              /\ UNCHANGED lock
         ELSE Fail(s)
  /\ UNCHANGED <<stored, clients, conn, dialing, call, running, rules, outrun>>

LockAndStop(s) ==
  /\ At(s, "lock") /\ lock[ConfigOf[s]] = NoStart
  /\ lock' = [lock EXCEPT ![ConfigOf[s]] = s]
  /\ StopLocked(ConfigOf[s])
  /\ Goto(s, "acquire")
  /\ UNCHANGED <<stored, dialing, call, outrun>>

\* Mutant: a connection that is there is taken without references.
AcquireClientFree(s) ==
  /\ At(s, "acquire")
  /\ LET a == start[s].asset IN
       \/ /\ clients[a] # NoStart
          /\ start' = [start EXCEPT ![s].pc = "register", ![s].fc = clients[a]]
          /\ UNCHANGED <<conn, dialing>>
       \/ /\ clients[a] = NoStart /\ dialing[a] # NoStart
          /\ start' = [start EXCEPT ![s].pc = "wait", ![s].fc = dialing[a]]
          /\ UNCHANGED <<conn, dialing>>
       \/ /\ clients[a] = NoStart /\ dialing[a] = NoStart
          /\ dialing' = [dialing EXCEPT ![a] = s]
          /\ Goto(s, "dial")
          /\ UNCHANGED conn
  /\ UNCHANGED <<stored, clients, call, running, rules, lock, outrun>>

\* acquireClient: share the connection, wait for the dial going on, or dial.
AcquireClient(s) ==
  /\ At(s, "acquire")
  /\ LET a == start[s].asset IN
       \/ /\ clients[a] # NoStart
          /\ conn' = [conn EXCEPT ![clients[a]].refs = @ + N]
          /\ start' = [start EXCEPT ![s].pc = "register", ![s].fc = clients[a]]
          /\ UNCHANGED dialing
       \/ /\ clients[a] = NoStart /\ dialing[a] # NoStart
          /\ start' = [start EXCEPT ![s].pc = "wait", ![s].fc = dialing[a]]
          /\ UNCHANGED <<conn, dialing>>
       \/ /\ clients[a] = NoStart /\ dialing[a] = NoStart
          /\ dialing' = [dialing EXCEPT ![a] = s]
          /\ Goto(s, "dial")
          /\ UNCHANGED conn
  /\ UNCHANGED <<stored, clients, call, running, rules, lock, outrun>>

\* Another start's dial is over.  One given up by its own caller is tried again.
DialShared(s) ==
  /\ At(s, "wait") /\ call[start[s].fc].done
  /\ IF call[start[s].fc].err \in {"none", "abandoned"}
       THEN start' = [start EXCEPT ![s].pc = "acquire", ![s].fc = NoStart] /\ UNCHANGED lock
       ELSE Fail(s)
  /\ UNCHANGED <<stored, clients, conn, dialing, call, running, rules, outrun>>

WaitEnds(s) ==
  /\ At(s, "wait") /\ start[s].ctx
  /\ Fail(s)
  /\ UNCHANGED <<stored, clients, conn, dialing, call, running, rules, outrun>>

\* The dialCall is out of the table; its result stays with those who wait for it.
DialDone(s, err) ==
  /\ dialing' = [dialing EXCEPT ![start[s].asset] = NoStart]
  /\ call' = [call EXCEPT ![s] = [@ EXCEPT !.done = TRUE, !.err = err]]

\* DialAsset: the asset is looked up, then the connection is made.
DialFails(s) ==
  /\ At(s, "connect") \/ (At(s, "dial") /\ assets[start[s].asset] # "kept")
  /\ DialDone(s, IF start[s].ctx THEN "abandoned" ELSE "failed")
  /\ Fail(s)
  /\ UNCHANGED <<stored, clients, conn, running, rules, outrun>>

LookUp(s) ==
  /\ At(s, "dial") /\ assets[start[s].asset] = "kept"
  /\ Goto(s, "connect")
  /\ UNCHANGED <<stored, clients, conn, dialing, call, running, rules, lock, outrun>>

\* The connection is there; CloseAsset may have come meanwhile.
Connected(s) ==
  /\ At(s, "connect") /\ ~call[s].closed
  /\ DialDone(s, "none")
  /\ clients' = [clients EXCEPT ![start[s].asset] = s]
  /\ conn' = [conn EXCEPT ![s] = [up |-> TRUE, refs |-> N, shut |-> FALSE]]
  /\ start' = [start EXCEPT ![s].pc = "register", ![s].fc = s]
  /\ UNCHANGED <<stored, running, rules, lock, outrun>>

\* Mutant: a connection nobody wants any more is left open.
ConnectedOrphanOpen(s) ==
  /\ At(s, "connect") /\ call[s].closed
  /\ DialDone(s, "closed")
  /\ conn' = [conn EXCEPT ![s] = [up |-> TRUE, refs |-> 0, shut |-> FALSE]]
  /\ Fail(s)
  /\ UNCHANGED <<stored, clients, running, rules, outrun>>

ConnectedOrphan(s) ==
  /\ At(s, "connect") /\ call[s].closed
  /\ DialDone(s, "closed")
  /\ conn' = [conn EXCEPT ![s] = [up |-> TRUE, refs |-> 0, shut |-> TRUE]]
  /\ Fail(s)
  /\ UNCHANGED <<stored, clients, running, rules, outrun>>

\* The rules are registered in the critical section that confirms the connection.
Register(s) ==
  /\ At(s, "register")
  /\ IF clients[start[s].asset] = start[s].fc
       THEN /\ running' = {x \in running : RuleID(x) \notin {RuleID(<<s, n>>) : n \in Rule}}
                            \cup {<<s, n>> : n \in Rule}
            /\ Goto(s, "listen") /\ UNCHANGED lock
       ELSE Fail(s) /\ UNCHANGED running
  /\ UNCHANGED <<stored, clients, conn, dialing, call, rules, outrun>>

\* startForwardRule, for one rule after the other, on a context that may have been
\* cancelled; a rule that cannot listen stays registered with its error.
Listen(s) ==
  /\ At(s, "listen") /\ start[s].next <= N
  /\ LET x == <<s, start[s].next>> IN
       \/ rules' = [rules EXCEPT !.open = @ \cup {x}]
       \/ rules' = [rules EXCEPT !.cancelled = @ \cup {x}]
  /\ start' = [start EXCEPT ![s].next = @ + 1]
  /\ UNCHANGED <<stored, clients, conn, dialing, call, running, lock, outrun>>

Started(s) ==
  /\ At(s, "listen") /\ start[s].next > N
  /\ start' = [start EXCEPT ![s].pc = "done", ![s].ctx = FALSE, ![s].next = 1]
  /\ lock' = [lock EXCEPT ![ConfigOf[s]] = NoStart]
  /\ UNCHANGED <<stored, clients, conn, dialing, call, running, rules, outrun>>

\* The goroutine that waits for a rule's context closes its listener.
CloseListener(x) ==
  /\ x \in rules.cancelled \cap rules.open
  /\ rules' = [rules EXCEPT !.open = @ \ {x}, !.cancelled = @ \ {x}]
  /\ UNCHANGED <<stored, clients, conn, dialing, call, running, lock, start, outrun>>

\* The caller of StartConfig gives up; only a dial, or a wait for one, notices.
Cancel(s) ==
  /\ s \in Impatient /\ start[s].pc \in {"wait", "dial", "connect"} /\ ~start[s].ctx
  /\ start' = [start EXCEPT ![s].ctx = TRUE]
  /\ UNCHANGED <<stored, clients, conn, dialing, call, running, rules, lock, outrun>>

-----------------------------------------------------------------------------
(* forward_svc: Update and Delete of a configuration *)

manager == <<clients, conn, dialing, call, running, rules, lock, start, outrun>>

\* Update stops the configuration if it runs, and will start it again.
UpdateBegins(c) ==
  /\ c \in Edited /\ edit[c] = "none" /\ row[c].kept /\ row[c].version < MaxEdit
  /\ edit' = [edit EXCEPT ![c] = IF RulesOf(c) # {} THEN "stop" ELSE "write"]
  /\ UNCHANGED <<row, assets, manager>>

UpdateStops(c) ==
  /\ edit[c] = "stop"
  /\ StopConfig(c)
  /\ edit' = [edit EXCEPT ![c] = "rewrite"]
  /\ UNCHANGED <<row, assets>>

\* UpdateConfig and ReplaceRules: the rules get new ids.  When either fails nothing is
\* started again.
UpdateWrites(c) ==
  /\ edit[c] \in {"write", "rewrite"}
  /\ \/ /\ \E a \in Asset : row' = [row EXCEPT ![c].asset = a, ![c].version = @ + 1]
        /\ edit' = [edit EXCEPT ![c] = IF @ = "write" THEN "none" ELSE "restart"]
     \/ edit' = [edit EXCEPT ![c] = "none"] /\ UNCHANGED row
  /\ UNCHANGED <<assets, manager>>

\* StartConfig as the last step of Update, like a user's start (one there is a Start for).
UpdateRestarts(c) ==
  /\ edit[c] = "restart"
  /\ edit' = [edit EXCEPT ![c] = "none"]
  /\ \/ \E s \in Start :
          /\ ConfigOf[s] = c /\ At(s, "new")
          /\ start' = [start EXCEPT ![s].pc = "lock", ![s].asset = row[c].asset, ![s].version = row[c].version]
     \/ (\A s \in Start : ConfigOf[s] = c => ~At(s, "new")) /\ UNCHANGED start
  /\ UNCHANGED <<row, assets, clients, conn, dialing, call, running, rules, lock, outrun>>

\* Delete stops the configuration, then removes the rows.
DeleteStops(c) ==
  /\ c \in Edited /\ edit[c] = "none" /\ row[c].kept
  /\ StopConfig(c)
  /\ edit' = [edit EXCEPT ![c] = "delete"]
  /\ UNCHANGED <<row, assets>>

DeleteConfig(c) ==
  /\ edit[c] = "delete"
  /\ \/ row' = [row EXCEPT ![c].kept = FALSE]
     \/ UNCHANGED row
  /\ edit' = [edit EXCEPT ![c] = "none"]
  /\ UNCHANGED <<assets, manager>>

-----------------------------------------------------------------------------

StartConfig(s) ==
  \/ ReadConfig(s) \/ LockAndStop(s) \/ AcquireClient(s)
  \/ DialShared(s) \/ WaitEnds(s) \/ DialFails(s) \/ LookUp(s) \/ Connected(s) \/ ConnectedOrphan(s)
  \/ Register(s) \/ Listen(s) \/ Started(s)

Service(c) ==
  \/ UpdateBegins(c) \/ UpdateStops(c) \/ UpdateWrites(c) \/ UpdateRestarts(c)
  \/ DeleteStops(c) \/ DeleteConfig(c) \/ UserStop(c)

Next ==
  \/ \E s \in Start : StartConfig(s) \/ Cancel(s)
  \/ \E x \in Start \X Rule : CloseListener(x)
  \/ \E c \in Config : Service(c)
  \/ \E a \in Asset : DeleteAsset(a) \/ CloseAsset(a)

Spec == Init /\ [][Next]_vars

\* A start runs on, and a dial ends: it has a timeout; so do the goroutines that close
\* listeners.
Fairness ==
  /\ \A s \in Start : WF_vars(~At(s, "new") /\ StartConfig(s))
  /\ \A x \in Start \X Rule : WF_vars(CloseListener(x))

LiveSpec == Spec /\ Fairness

-----------------------------------------------------------------------------
(* Properties *)

\* The state has the shape of the structs of forward_manager.go.
TypeOK ==
  /\ row \in [Config -> Row]
  /\ assets \in [Asset -> {"kept", "deleted", "closed"}]
  /\ clients \in [Asset -> Start \cup {NoStart}]
  /\ conn \in [Start -> ConnState]
  /\ dialing \in [Asset -> Start \cup {NoStart}]
  /\ call \in [Start -> CallState]
  /\ running \subseteq Start \X Rule
  /\ rules \in [cancelled: SUBSET (Start \X Rule), open: SUBSET (Start \X Rule)]
  /\ lock \in [Config -> Start \cup {NoStart}]
  /\ start \in [Start -> StartState]
  /\ outrun \subseteq Start

\* acquireClient takes the references before the rules exist and stopConfigLocked gives
\* them back by asset, not by connection: still the references of an asset's connection
\* are its registered rules and those about to be, so a stop never closes a connection
\* another configuration uses, and the last one does close it.  A registered rule runs on
\* the connection these references are of, and that is open, whatever closes and redials
\* happened while it was started.
RefsExact ==
  /\ \A a \in Asset : clients[a] # NoStart =>
       /\ conn[clients[a]].refs =
            Cardinality(RulesOn(a))
              + N * Cardinality({s \in Start : At(s, "register") /\ start[s].fc = clients[a]})
       /\ conn[clients[a]].refs > 0
  /\ \A x \in running : clients[AssetOf(x)] = start[x[1]].fc /\ ~conn[start[x[1]].fc].shut

\* A connection that was dialled is in the table or closed: one dialled while its asset
\* was being closed is not left open.
NoClientLost == \A f \in Start : conn[f].up /\ ~conn[f].shut => \E a \in Asset : clients[a] = f

\* Once an asset has been deleted and CloseAsset has run, nothing connects to it again:
\* no start under way, waiting or dialling brings back a connection or a rule.
DeletedStaysClosed ==
  \A a \in Asset : assets[a] = "closed" => clients[a] = NoStart /\ RulesOn(a) = {}

\* "A Stop issued while the same config is still dialing wins": the rules of a start that
\* had the lock before a stop of its configuration took effect are gone for good.
StopWins == \A x \in running : x[1] \notin outrun

\* A listener of the start is open and its rule is not registered (any more).
Stray(s) == \E n \in Rule : <<s, n>> \in rules.open \ running

\* StartConfig returns whatever happens to the dial it shares, and so gives up the lock
\* the stops of its configuration wait for; and a listener that outlives its rule - one
\* stopped, restarted or closed while it was about to listen - is closed in the end: no
\* port stays bound for a rule nobody can stop.
StartSettles ==
  \A s \in Start : (~At(s, "new") /\ (~At(s, "done") \/ Stray(s))) ~> (At(s, "done") /\ ~Stray(s))
=============================================================================

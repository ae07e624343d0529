------------------------- MODULE ForwardManagerProofs -------------------------
(***************************************************************************)
(* Proofs about port forwarding, for any number of assets, configurations, *)
(* starts and rules.                                                       *)
(***************************************************************************)
EXTENDS ForwardManager, FiniteSetTheorems, TLAPS

-----------------------------------------------------------------------------
(* The inductive invariant *)

\* Where a start holds its configuration's lock.
Past == {"acquire", "wait", "dial", "connect", "register", "listen"}

\* Where a start has not dialled.
Early == {"new", "lock", "acquire", "wait", "dial", "connect"}

\* A connection in m.clients is open and belongs to one asset; an open one is there, and
\* a start that has yet to dial has none.
ConnInv ==
  /\ \A a \in Asset : clients[a] # NoStart => conn[clients[a]].up /\ ~conn[clients[a]].shut
  /\ \A a, b \in Asset : clients[a] # NoStart /\ clients[a] = clients[b] => a = b
  /\ \A s \in Start : start[s].pc \in Early => ~conn[s].up
  /\ NoClientLost

\* What a start knows: its asset, the dial it waits for, the connection it was given -
\* which is still the asset's or has been closed - and that it holds the lock.
StartOK(s) ==
  /\ start[s].pc \notin {"new", "done"} => start[s].asset \in Asset
  /\ start[s].pc \in {"wait", "register", "listen"} => start[s].fc \in Start
  /\ start[s].pc = "register" =>
       conn[start[s].fc].up /\ (clients[start[s].asset] = start[s].fc \/ conn[start[s].fc].shut)
  /\ start[s].pc \in Past => lock[ConfigOf[s]] = s

StartInv == \A s \in Start : StartOK(s)

\* A held lock is held by a start of the configuration that is past it.
LockInv == \A c \in Config : lock[c] # NoStart => start[lock[c]].pc \in Past /\ ConfigOf[lock[c]] = c

\* Who dials for an asset is in m.dialing, and then the asset has no connection.
DialInv ==
  /\ \A a \in Asset : dialing[a] # NoStart =>
       start[dialing[a]].pc \in {"dial", "connect"} /\ start[dialing[a]].asset = a /\ clients[a] = NoStart
  /\ \A s \in Start : start[s].pc \in {"dial", "connect"} => dialing[start[s].asset] = s

\* A registered rule's start has registered it, runs on its asset's connection, and is
\* the one that holds the configuration's lock when somebody does.
RunInv ==
  /\ IsFiniteSet(running)
  /\ \A x \in running :
       /\ start[x[1]].pc \in {"listen", "done"}
       /\ AssetOf(x) \in Asset
       /\ clients[AssetOf(x)] = start[x[1]].fc /\ start[x[1]].fc \in Start
       /\ lock[ConfigOf[x[1]]] \in {NoStart, x[1]}

\* An asset that was closed has no connection, and a connection made for it meanwhile
\* will be closed.
ClosedInv ==
  \A a \in Asset : assets[a] = "closed" =>
    /\ clients[a] = NoStart
    /\ \A s \in Start : At(s, "connect") /\ start[s].asset = a => call[s].closed

\* The starts about to register on a connection.
Regs(f) == {s \in Start : At(s, "register") /\ start[s].fc = f}

\* The references of an asset's connection.
RefInv ==
  \A a \in Asset : clients[a] # NoStart =>
    /\ conn[clients[a]].refs = Cardinality(RulesOn(a)) + N * Cardinality(Regs(clients[a]))
    /\ conn[clients[a]].refs > 0

\* The inductive invariant behind the manager's safety.
IInv ==
  /\ TypeOK /\ ConnInv /\ StartInv /\ LockInv /\ DialInv /\ RunInv /\ ClosedInv /\ RefInv
  /\ outrun = {}

-----------------------------------------------------------------------------
(* Types *)

\* A connection's record with other references, or shut down.
LEMMA ConnTypes ==
  ASSUME TypeOK, NEW f \in Start
  PROVE  /\ conn[f].up \in BOOLEAN /\ conn[f].shut \in BOOLEAN /\ conn[f].refs \in Int
         /\ Shut(f) \in ConnState /\ Shut(f).up = conn[f].up /\ Shut(f).refs = 0 /\ Shut(f).shut
         /\ \A k \in Int : LET e == [conn[f] EXCEPT !.refs = k] IN
              e \in ConnState /\ e.up = conn[f].up /\ e.refs = k /\ e.shut = conn[f].shut
<1>1. conn[f] \in ConnState
  BY DEF TypeOK
<1>2. conn[f].up \in BOOLEAN /\ conn[f].shut \in BOOLEAN /\ conn[f].refs \in Int
  BY <1>1 DEF ConnState
<1>3. \A k \in Int, b \in BOOLEAN : [conn[f] EXCEPT !.refs = k, !.shut = b] \in ConnState
  BY <1>1 DEF ConnState
<1>4. Shut(f) \in ConnState
  <2>1. 0 \in Int /\ TRUE \in BOOLEAN
    OBVIOUS
  <2> QED
    BY <1>3, <2>1, Zenon DEF Shut
<1>5. Shut(f).up = conn[f].up /\ Shut(f).refs = 0 /\ Shut(f).shut
  BY <1>1 DEF ConnState, Shut
<1>6. \A k \in Int : [conn[f] EXCEPT !.refs = k] \in ConnState
  BY <1>1 DEF ConnState
<1>7. ASSUME NEW k \in Int, NEW e, e = [conn[f] EXCEPT !.refs = k]
      PROVE  e.up = conn[f].up /\ e.refs = k /\ e.shut = conn[f].shut
  BY <1>1, <1>7 DEF ConnState
<1> QED
  BY <1>2, <1>4, <1>5, <1>6, <1>7

\* The rules are finitely many.
LEMMA RulesFinite ==
  IsFiniteSet(Start \X Rule) /\ IsFiniteSet(Rule) /\ Cardinality(Rule) = N
<1>1. 1 \in Int /\ N \in Int /\ 1 <= N /\ IsFiniteSet(Start)
  BY ForwardConstants
<1>2. IsFiniteSet(Rule) /\ Cardinality(Rule) = N - 1 + 1
  BY <1>1, FS_Interval DEF Rule
<1>3. IsFiniteSet(Start \X Rule)
  BY <1>1, <1>2, FS_Product
<1> QED
  BY <1>1, <1>2, <1>3

-----------------------------------------------------------------------------
(* Steps of one start that leave the connections of the assets alone *)

\* The start s goes on with the record r: it gives up its lock, its place in m.dialing
\* and a connection nobody has seen, or keeps them.
Moves(s, r) ==
  /\ start' = [start EXCEPT ![s] = r]
  /\ UNCHANGED <<assets, clients, running, outrun>>
  /\ \A c \in Config : lock'[c] = lock[c] \/ (lock[c] = s /\ lock'[c] = NoStart)
  /\ r.pc \in Past => start[s].pc \in Past /\ lock' = lock
  /\ r.pc \notin Past => \A c \in Config : lock'[c] # s
  /\ \A a \in Asset : dialing'[a] = dialing[a] \/ (dialing[a] = s /\ dialing'[a] = NoStart)
  /\ IF r.pc \in {"dial", "connect"}
       THEN dialing' = dialing /\ call' = call /\ start[s].pc \in {"dial", "connect"} /\ r.asset = start[s].asset
       ELSE \A a \in Asset : dialing'[a] # s
  /\ \A t \in Start : t # s => call'[t] = call[t] /\ conn'[t] = conn[t]
  /\ conn'[s] = conn[s] \/ (start[s].pc \in Early /\ r.pc \notin Early /\ conn'[s].up /\ conn'[s].shut)
  /\ r.pc \notin {"new", "done"} => r.asset \in Asset
  /\ r.pc \in {"wait", "listen"} => r.fc \in Start
  /\ r.pc # "register"
  /\ start[s].pc = "register" => \A a \in Asset : clients[a] # start[s].fc
  /\ r.pc \in Early => start[s].pc \in Early
  /\ start[s].pc \in {"listen", "done"} =>
       r.pc \in {"listen", "done"} /\ r.asset = start[s].asset /\ r.fc = start[s].fc
  /\ r.pc = "connect" => start[s].pc = "connect" \/ assets[r.asset] = "kept"

\* Such a step keeps the invariant.
LEMMA MovesKeep ==
  ASSUME IInv, NEW s \in Start, NEW r \in StartState, Moves(s, r), TypeOK'
  PROVE  IInv'
<1>1. TypeOK /\ NoStart \notin Start /\ NoAsset \notin Asset /\ ConfigOf \in [Start -> Config]
  BY ForwardConstants DEF IInv
<1>2. start'[s] = r /\ \A t \in Start : t # s => start'[t] = start[t]
  BY <1>1 DEF TypeOK, Moves
<1>3. /\ \A a \in Asset : clients'[a] = clients[a] /\ clients[a] \in Start \cup {NoStart}
      /\ running' = running
      /\ \A a \in Asset : clients[a] # NoStart => clients[a] \in Start
      /\ \A x \in running : x[1] \in Start
  BY <1>1 DEF TypeOK, Moves
<1>4. ASSUME NEW f \in Start, conn[f].up
      PROVE  conn'[f] = conn[f] \/ (conn'[f].up /\ conn'[f].shut /\ f = s)
  BY <1>4 DEF Moves
<1>5. \A a \in Asset : clients[a] # NoStart => conn'[clients[a]] = conn[clients[a]]
  BY <1>3 DEF Moves, IInv, ConnInv
<1>6. ConnInv'
  <2>1. NoClientLost'
    <3> SUFFICES ASSUME NEW f \in Start, conn'[f].up, ~conn'[f].shut
                 PROVE  \E a \in Asset : clients'[a] = f
      BY DEF NoClientLost
    <3>1. conn'[f] = conn[f]
      BY DEF Moves
    <3> QED
      BY <1>3, <3>1 DEF IInv, ConnInv, NoClientLost
  <2>2. \A t \in Start : start'[t].pc \in Early => ~conn'[t].up
    BY <1>2 DEF Moves, IInv, ConnInv
  <2>3. \A a \in Asset : clients'[a] # NoStart => conn'[clients'[a]].up /\ ~conn'[clients'[a]].shut
    BY <1>3, <1>5 DEF IInv, ConnInv
  <2>4. \A a, b \in Asset : clients'[a] # NoStart /\ clients'[a] = clients'[b] => a = b
    BY <1>3 DEF IInv, ConnInv
  <2> QED
    BY <2>1, <2>2, <2>3, <2>4 DEF ConnInv
<1>7. StartInv'
  <2>1. StartOK(s)'
    BY <1>2 DEF IInv, StartInv, StartOK, Moves, Past
  <2>2. ASSUME NEW t \in Start, t # s
        PROVE  StartOK(t)'
    <3>1. StartOK(t) /\ start'[t] = start[t]
      BY <1>2, <2>2 DEF IInv, StartInv
    <3>2. start[t].pc = "register" => conn[start[t].fc].up /\ start[t].fc \in Start /\ start[t].asset \in Asset
      BY <3>1 DEF StartOK
    <3>3. start[t].pc \in Past => lock'[ConfigOf[t]] = t
      BY <1>1, <2>2, <3>1 DEF StartOK, Moves
    <3>4. start[t].pc = "register" => conn'[start[t].fc] = conn[start[t].fc] \/ (conn'[start[t].fc].up /\ conn'[start[t].fc].shut)
      BY <1>4, <3>2
    <3> QED
      BY <1>3, <3>1, <3>2, <3>3, <3>4 DEF StartOK
  <2> QED
    BY <2>1, <2>2 DEF StartInv
<1>8. LockInv'
  BY <1>1, <1>2 DEF IInv, LockInv, Moves, TypeOK
<1>9. DialInv'
  <2>1. \A a \in Asset : dialing'[a] # NoStart =>
          start'[dialing'[a]].pc \in {"dial", "connect"} /\ start'[dialing'[a]].asset = a /\ clients'[a] = NoStart
    BY <1>1, <1>2, <1>3 DEF IInv, DialInv, Moves, TypeOK
  <2>2. ASSUME NEW t \in Start, start'[t].pc \in {"dial", "connect"}
        PROVE  dialing'[start'[t].asset] = t
    <3>1. start[t].pc \in {"dial", "connect"} /\ start'[t].asset = start[t].asset
      BY <1>2, <2>2 DEF Moves
    <3>2. start[t].asset \in Asset /\ dialing[start[t].asset] = t
      BY <3>1 DEF IInv, StartInv, StartOK, DialInv
    <3> QED
      BY <1>1, <1>2, <2>2, <3>1, <3>2 DEF Moves
  <2> QED
    BY <2>1, <2>2 DEF DialInv
<1>10. \A x \in running : /\ start'[x[1]].pc \in {"listen", "done"} /\ start'[x[1]].asset = start[x[1]].asset
                          /\ start'[x[1]].fc = start[x[1]].fc
  BY <1>2, <1>3 DEF IInv, RunInv, Moves
<1>11. RunInv'
  <2>1. \A x \in running : lock'[ConfigOf[x[1]]] \in {NoStart, x[1]}
    BY <1>1, <1>3 DEF IInv, RunInv, Moves
  <2> QED
    BY <1>3, <1>10, <2>1 DEF IInv, RunInv, AssetOf
<1>12. ClosedInv'
  <2>1. ASSUME NEW a \in Asset, assets[a] = "closed", NEW t \in Start, start'[t].pc = "connect", start'[t].asset = a
        PROVE  call'[t].closed
    <3>1. start[t].pc = "connect" /\ start[t].asset = a
      BY <1>2, <2>1 DEF Moves
    <3>2. call[t].closed
      BY <2>1, <3>1 DEF IInv, ClosedInv, At
    <3> QED
      BY <1>2, <2>1, <3>2 DEF Moves
  <2> QED
    BY <1>3, <2>1 DEF IInv, ClosedInv, At, Moves
<1>13. RefInv'
  <2> SUFFICES ASSUME NEW a \in Asset, clients'[a] # NoStart
               PROVE  /\ conn'[clients'[a]].refs = Cardinality(RulesOn(a)') + N * Cardinality(Regs(clients[a])')
                      /\ conn'[clients'[a]].refs > 0
    BY DEF RefInv
  <2>1. PICK f : f = clients[a]
    OBVIOUS
  <2>2. clients'[a] = f /\ f # NoStart /\ conn'[f] = conn[f]
    BY <1>3, <1>5, <2>1
  <2>3. RulesOn(a)' = RulesOn(a)
    BY <1>3, <1>10 DEF RulesOn, AssetOf
  <2>4. Regs(f)' = Regs(f)
    BY <1>2, <2>1 DEF Regs, At, Moves
  <2>5. Regs(clients[a])' = Regs(f)
    BY <2>2, <2>4 DEF Regs
  <2> QED
    BY <2>1, <2>2, <2>3, <2>5 DEF IInv, RefInv
<1> QED
  BY <1>6, <1>7, <1>8, <1>9, <1>11, <1>12, <1>13 DEF IInv, Moves

\* The record of a start that returned an error.
Failed == [NewStart EXCEPT !.pc = "done"]

\* That is a record of a start.
LEMMA FailedType == Failed \in StartState /\ Failed.pc = "done"
<1>1. 1 \in 1..N+1 /\ 0 \in Nat
  BY ForwardConstants
<1>2. NewStart \in StartState
  BY <1>1 DEF NewStart, StartState, StartPC
<1> QED
  BY <1>2 DEF Failed, StartState, StartPC

\* A start that returns an error, before or after it was given a connection.
LEMMA FailKeeps ==
  ASSUME IInv, NEW s \in Start, Fail(s), start[s].pc \notin {"listen", "done"},
         UNCHANGED <<row, assets, clients, running, rules, outrun>>,
         start[s].pc \notin {"dial", "connect"} => UNCHANGED <<dialing, call>>,
         start[s].pc \in {"dial", "connect"} => \E err \in {"none", "failed", "abandoned", "closed"} : DialDone(s, err),
         conn' = conn \/ (start[s].pc \in Early /\ conn' = [conn EXCEPT ![s] = [up |-> TRUE, refs |-> 0, shut |-> TRUE]]),
         start[s].pc = "register" => clients[start[s].asset] # start[s].fc
  PROVE  IInv'
<1>1. TypeOK /\ Failed \in StartState /\ Failed.pc = "done" /\ StartOK(s)
  BY FailedType DEF IInv, StartInv
<1>2. start' = [start EXCEPT ![s] = Failed] /\ start' \in [Start -> StartState]
  BY <1>1 DEF Fail, Failed, TypeOK
<1>3. /\ lock' \in [Config -> Start \cup {NoStart}]
      /\ \A c \in Config : lock'[c] = IF lock[c] = s THEN NoStart ELSE lock[c]
  BY <1>1 DEF Fail, TypeOK
<1>4. /\ dialing' \in [Asset -> Start \cup {NoStart}] /\ call' \in [Start -> CallState]
      /\ \A a \in Asset : dialing'[a] = dialing[a] \/ (dialing[a] = s /\ dialing'[a] = NoStart)
      /\ \A a \in Asset : dialing'[a] # s
      /\ \A t \in Start : t # s => call'[t] = call[t]
  <2>1. CASE start[s].pc \notin {"dial", "connect"}
    BY <1>1, <2>1, ForwardConstants DEF TypeOK, IInv, DialInv
  <2>2. CASE start[s].pc \in {"dial", "connect"}
    <3>1. PICK err \in {"none", "failed", "abandoned", "closed"} : DialDone(s, err)
      BY <2>2
    <3>2. start[s].asset \in Asset /\ dialing[start[s].asset] = s
      BY <1>1, <2>2 DEF StartOK, IInv, DialInv
    <3>3. call[s] \in CallState
      BY <1>1 DEF TypeOK
    <3>4. \A b \in BOOLEAN : [call[s] EXCEPT !.done = b, !.err = err] \in CallState
      BY <3>3 DEF CallState
    <3>5. [call[s] EXCEPT !.done = TRUE, !.err = err] \in CallState
      BY <3>4, Zenon
    <3>6. call' \in [Start -> CallState] /\ \A t \in Start : t # s => call'[t] = call[t]
      BY <1>1, <3>1, <3>5 DEF DialDone, TypeOK
    <3>7. dialing' \in [Asset -> Start \cup {NoStart}] /\ dialing'[start[s].asset] = NoStart
          /\ \A a \in Asset : a # start[s].asset => dialing'[a] = dialing[a]
      BY <1>1, <3>1, <3>2 DEF DialDone, TypeOK
    <3>8. \A a \in Asset : dialing[a] = s => a = start[s].asset
      BY <1>1, ForwardConstants DEF IInv, DialInv
    <3> QED
      BY <3>2, <3>6, <3>7, <3>8, ForwardConstants
  <2> QED
    BY <2>1, <2>2
<1>5. /\ conn' \in [Start -> ConnState]
      /\ \A t \in Start : t # s => conn'[t] = conn[t]
      /\ conn'[s] = conn[s] \/ (start[s].pc \in Early /\ conn'[s].up /\ conn'[s].shut)
  <2>1. CASE conn' = conn
    BY <1>1, <2>1 DEF TypeOK
  <2>2. CASE start[s].pc \in Early /\ conn' = [conn EXCEPT ![s] = [up |-> TRUE, refs |-> 0, shut |-> TRUE]]
    <3>1. PICK e : e = [up |-> TRUE, refs |-> 0, shut |-> TRUE]
      OBVIOUS
    <3>2. e \in ConnState /\ e.up /\ e.shut
      BY <3>1 DEF ConnState
    <3> QED
      BY <1>1, <2>2, <3>1, <3>2 DEF TypeOK
  <2> QED
    BY <2>1, <2>2
<1>6. start[s].pc = "register" => \A a \in Asset : clients[a] # start[s].fc
  BY <1>1, ForwardConstants DEF StartOK, IInv, ConnInv
<1>7. Failed.pc \notin Past /\ Failed.pc \notin Early
  BY <1>1 DEF Past, Early
<1>8. Moves(s, Failed)
  BY <1>1, <1>2, <1>3, <1>4, <1>5, <1>6, <1>7, ForwardConstants DEF Moves
<1>9. TypeOK'
  BY <1>1, <1>2, <1>3, <1>4, <1>5 DEF TypeOK
<1> QED
  BY <1>1, <1>8, <1>9, MovesKeep

\* A start is given the stored configuration, by StartConfig or by Update.
LEMMA ReadKeeps ==
  ASSUME IInv, NEW s \in Start, At(s, "new"), NEW c \in Config,
         start' = [start EXCEPT ![s].pc = "lock", ![s].asset = row[c].asset, ![s].version = row[c].version],
         UNCHANGED <<row, assets, clients, conn, dialing, call, running, rules, lock, outrun>>
  PROVE  IInv'
<1>1. TypeOK /\ start[s] \in StartState /\ row[c] \in Row /\ StartOK(s)
  BY DEF IInv, TypeOK, StartInv
<1>2. row[c].asset \in Asset /\ row[c].version \in Nat
  BY <1>1 DEF Row
<1>3. PICK r : r = [start[s] EXCEPT !.pc = "lock", !.asset = row[c].asset, !.version = row[c].version]
  OBVIOUS
<1>4. r \in StartState /\ r.pc = "lock" /\ r.asset \in Asset
  BY <1>1, <1>2, <1>3 DEF StartState, StartPC
<1>5. start' = [start EXCEPT ![s] = r] /\ start' \in [Start -> StartState]
  BY <1>1, <1>3, <1>4 DEF TypeOK
<1>6. \A d \in Config : lock[d] # s
  BY <1>1, ForwardConstants DEF IInv, LockInv, At, Past, TypeOK
<1>7. \A a \in Asset : dialing[a] # s
  BY ForwardConstants DEF IInv, DialInv, At
<1>8. Moves(s, r)
  BY <1>4, <1>5, <1>6, <1>7 DEF Moves, At, Past, Early
<1>9. TypeOK'
  BY <1>1, <1>5 DEF TypeOK
<1> QED
  BY <1>4, <1>8, <1>9, MovesKeep

\* StartConfig reads the configuration, which may be gone.
LEMMA ReadConfigKeeps ==
  ASSUME IInv, NEW s \in Start, ReadConfig(s)
  PROVE  IInv'
<1>1. At(s, "new") /\ ConfigOf[s] \in Config
  BY ForwardConstants DEF ReadConfig
<1>2. CASE row[ConfigOf[s]].kept
  BY <1>1, <1>2, ReadKeeps DEF ReadConfig, stored
<1>3. CASE ~row[ConfigOf[s]].kept
  BY <1>1, <1>3, FailKeeps DEF ReadConfig, stored, At
<1> QED
  BY <1>2, <1>3

\* A start that waits for another's dial: it retries, fails or gives up.
LEMMA WaitKeeps ==
  ASSUME IInv, NEW s \in Start, DialShared(s) \/ WaitEnds(s)
  PROVE  IInv'
<1>1. TypeOK /\ start[s].pc = "wait" /\ StartOK(s)
  BY DEF IInv, StartInv, DialShared, WaitEnds, At
<1>2. CASE Fail(s)
  BY <1>1, <1>2, FailKeeps DEF DialShared, WaitEnds, stored
<1>3. CASE start' = [start EXCEPT ![s].pc = "acquire", ![s].fc = NoStart] /\ UNCHANGED lock
  <2>1. PICK r : r = [start[s] EXCEPT !.pc = "acquire", !.fc = NoStart]
    OBVIOUS
  <2>2. r \in StartState /\ r.pc = "acquire" /\ r.asset = start[s].asset
    <3>1. start[s] \in StartState
      BY <1>1 DEF TypeOK
    <3> QED
      BY <2>1, <3>1 DEF StartState, StartPC
  <2>3. start' = [start EXCEPT ![s] = r] /\ start' \in [Start -> StartState]
    BY <1>1, <1>3, <2>1, <2>2 DEF TypeOK
  <2>4. \A a \in Asset : dialing[a] # s
    BY <1>1, ForwardConstants DEF IInv, DialInv
  <2>5. UNCHANGED <<row, assets, clients, conn, dialing, call, running, rules, lock, outrun>>
    BY <1>3 DEF DialShared, WaitEnds, stored
  <2>6. Moves(s, r)
    BY <1>1, <2>2, <2>3, <2>4, <2>5 DEF Moves, Past, Early, StartOK
  <2>7. TypeOK'
    BY <1>1, <2>3, <2>5 DEF TypeOK
  <2> QED
    BY <2>2, <2>6, <2>7, MovesKeep
<1> QED
  BY <1>2, <1>3 DEF DialShared, WaitEnds

\* A dial that fails, or that nobody wants any more when it is done.
LEMMA DialFailsKeeps ==
  ASSUME IInv, NEW s \in Start, DialFails(s) \/ ConnectedOrphan(s)
  PROVE  IInv'
<1>1. start[s].pc \in {"dial", "connect"} /\ start[s].pc \in Early /\ start[s].pc # "register"
  BY DEF DialFails, ConnectedOrphan, At, Early
<1>2. \E err \in {"none", "failed", "abandoned", "closed"} : DialDone(s, err)
  BY DEF DialFails, ConnectedOrphan
<1>3. Fail(s) /\ UNCHANGED <<row, assets, clients, running, rules, outrun>>
  BY DEF DialFails, ConnectedOrphan, stored
<1>4. conn' = conn \/ conn' = [conn EXCEPT ![s] = [up |-> TRUE, refs |-> 0, shut |-> TRUE]]
  BY DEF DialFails, ConnectedOrphan
<1> QED
  BY <1>1, <1>2, <1>3, <1>4, FailKeeps

\* The asset is looked up, and the start's caller gives up.
LEMMA LookUpKeeps ==
  ASSUME IInv, NEW s \in Start, LookUp(s) \/ Cancel(s)
  PROVE  IInv'
<1>1. TypeOK /\ start[s].pc \in {"wait", "dial", "connect"} /\ StartOK(s) /\ start[s] \in StartState
  BY DEF IInv, StartInv, LookUp, Cancel, At, TypeOK
<1>2. UNCHANGED <<row, assets, clients, conn, dialing, call, running, rules, lock, outrun>>
  BY DEF LookUp, Cancel, stored
<1>3. CASE LookUp(s)
  <2>1. PICK r : r = [start[s] EXCEPT !.pc = "connect"]
    OBVIOUS
  <2>2. r \in StartState /\ r.pc = "connect" /\ r.asset = start[s].asset
    <3>1. start[s] \in StartState
      BY <1>1 DEF TypeOK
    <3> QED
      BY <2>1, <3>1 DEF StartState, StartPC
  <2>3. start' = [start EXCEPT ![s] = r] /\ start' \in [Start -> StartState]
    BY <1>1, <1>3, <2>1, <2>2 DEF TypeOK, LookUp, Goto
  <2>4. Moves(s, r)
    BY <1>1, <1>2, <1>3, <2>2, <2>3 DEF Moves, Past, Early, StartOK, LookUp, At
  <2>5. TypeOK'
    BY <1>1, <1>2, <2>3 DEF TypeOK
  <2> QED
    BY <2>2, <2>4, <2>5, MovesKeep
<1>4. CASE Cancel(s)
  <2>1. PICK r : r = [start[s] EXCEPT !.ctx = TRUE]
    OBVIOUS
  <2>2. r \in StartState /\ r.pc = start[s].pc /\ r.asset = start[s].asset /\ r.fc = start[s].fc
    <3>1. \A b \in BOOLEAN : [start[s] EXCEPT !.ctx = b] \in StartState
      BY <1>1 DEF StartState
    <3>2. r \in StartState
      BY <2>1, <3>1, Zenon
    <3> QED
      BY <1>1, <2>1, <3>2 DEF StartState
  <2>3. start' = [start EXCEPT ![s] = r] /\ start' \in [Start -> StartState]
    BY <1>1, <1>4, <2>1, <2>2 DEF TypeOK, Cancel
  <2>4. start[s].pc = "wait" => \A a \in Asset : dialing[a] # s
    BY <1>1, ForwardConstants DEF IInv, DialInv
  <2>5. Moves(s, r)
    BY <1>1, <1>2, <2>2, <2>3, <2>4 DEF Moves, Past, Early, StartOK
  <2>6. TypeOK'
    BY <1>1, <1>2, <2>3 DEF TypeOK
  <2> QED
    BY <2>2, <2>5, <2>6, MovesKeep
<1> QED
  BY <1>3, <1>4

\* The listeners of a start's rules, one after the other, and its return.
LEMMA ListenKeeps ==
  ASSUME IInv, NEW s \in Start, Listen(s) \/ Started(s)
  PROVE  IInv'
<1>1. TypeOK /\ start[s].pc = "listen" /\ StartOK(s) /\ start[s] \in StartState /\ ConfigOf[s] \in Config
  BY ForwardConstants DEF IInv, StartInv, Listen, Started, At, TypeOK
<1>2. UNCHANGED <<row, assets, clients, conn, dialing, call, running, outrun>>
  BY DEF Listen, Started, stored
<1>3. \A a \in Asset : dialing[a] # s
  BY <1>1, ForwardConstants DEF IInv, DialInv
<1>4. CASE Listen(s)
  <2>1. PICK r : r = [start[s] EXCEPT !.next = @ + 1]
    OBVIOUS
  <2>2. start[s].next \in Rule /\ start[s].next + 1 \in 1..N+1
    BY <1>1, <1>4, ForwardConstants DEF StartState, Listen, Rule
  <2>3. r \in StartState /\ r.pc = start[s].pc /\ r.asset = start[s].asset /\ r.fc = start[s].fc
    BY <1>1, <2>1, <2>2 DEF StartState
  <2>4. start' = [start EXCEPT ![s] = r] /\ start' \in [Start -> StartState] /\ lock' = lock
    BY <1>1, <1>4, <2>1, <2>3 DEF TypeOK, Listen
  <2>5. rules' \in [cancelled: SUBSET (Start \X Rule), open: SUBSET (Start \X Rule)]
    <3>1. PICK x \in Start \X Rule : x = <<s, start[s].next>>
      BY <2>2
    <3>2. rules' = [rules EXCEPT !.open = @ \cup {x}] \/ rules' = [rules EXCEPT !.cancelled = @ \cup {x}]
      BY <1>4, <3>1 DEF Listen
    <3> QED
      BY <1>1, <3>2 DEF TypeOK
  <2>6. Moves(s, r)
    BY <1>1, <1>2, <1>3, <2>3, <2>4 DEF Moves, Past, Early, StartOK
  <2>7. TypeOK'
    BY <1>1, <1>2, <2>4, <2>5 DEF TypeOK
  <2> QED
    BY <2>3, <2>6, <2>7, MovesKeep
<1>5. CASE Started(s)
  <2>1. PICK r : r = [start[s] EXCEPT !.pc = "done", !.ctx = FALSE, !.next = 1]
    OBVIOUS
  <2>2. r \in StartState /\ r.pc = "done" /\ r.asset = start[s].asset /\ r.fc = start[s].fc
    <3>1. 1 \in 1..N+1
      BY ForwardConstants
    <3>2. \A b \in BOOLEAN : [start[s] EXCEPT !.pc = "done", !.ctx = b, !.next = 1] \in StartState
      BY <1>1, <3>1 DEF StartState, StartPC
    <3>3. r \in StartState
      BY <2>1, <3>2, Zenon
    <3> QED
      BY <1>1, <2>1, <3>3 DEF StartState
  <2>3. start' = [start EXCEPT ![s] = r] /\ start' \in [Start -> StartState]
    BY <1>1, <1>5, <2>1, <2>2 DEF TypeOK, Started
  <2>4. lock[ConfigOf[s]] = s /\ lock' = [lock EXCEPT ![ConfigOf[s]] = NoStart] /\ lock' \in [Config -> Start \cup {NoStart}]
    BY <1>1, <1>5 DEF StartOK, Past, Started, TypeOK
  <2>5. /\ lock'[ConfigOf[s]] = NoStart /\ \A c \in Config : c # ConfigOf[s] => lock'[c] = lock[c] /\ lock[c] # s
    BY <1>1, <2>4, ForwardConstants DEF TypeOK, IInv, LockInv
  <2>6. Moves(s, r)
    BY <1>1, <1>2, <1>3, <2>2, <2>3, <2>4, <2>5, ForwardConstants DEF Moves, Past, Early
  <2>7. TypeOK'
    BY <1>1, <1>2, <1>5, <2>3, <2>4 DEF TypeOK, Started
  <2> QED
    BY <2>2, <2>6, <2>7, MovesKeep
<1> QED
  BY <1>4, <1>5

-----------------------------------------------------------------------------
(* Steps that take rules and connections out of the tables *)

\* The rules of an asset that stay registered.
Staying(a) == {x \in running' : AssetOf(x) = a}

\* Rules leave m.running and their references go with them; a connection that leaves
\* m.clients is shut down, and no rule that stays runs on it.
Withdraws ==
  /\ running' \subseteq running
  /\ \A a \in Asset : clients'[a] = clients[a] \/ clients'[a] = NoStart
  /\ \A f \in Start : conn'[f].up = conn[f].up /\ (conn[f].shut => conn'[f].shut)
  /\ \A f \in Start : conn[f].up /\ ~conn'[f].shut => \E a \in Asset : clients'[a] = f
  /\ \A a \in Asset : clients[a] # NoStart => conn'[clients[a]].shut = (clients'[a] = NoStart)
  /\ \A x \in running' : clients'[AssetOf(x)] = clients[AssetOf(x)]
  /\ \A a \in Asset : clients'[a] # NoStart =>
       /\ conn'[clients[a]].refs = Cardinality(Staying(a)) + N * Cardinality(Regs(clients[a]))
       /\ conn'[clients[a]].refs > 0

\* Such a step keeps the invariant, when the starts stay where they are or take the lock.
LEMMA WithdrawsKeep ==
  ASSUME IInv, TypeOK', Withdraws, UNCHANGED dialing, outrun' = {},
         \A t \in Start : /\ start'[t].asset = start[t].asset /\ start'[t].fc = start[t].fc
                          /\ start'[t].pc = start[t].pc \/ (start[t].pc = "lock" /\ start'[t].pc = "acquire"),
         LockInv', ClosedInv',
         \A t \in Start : start'[t].pc \in Past => lock'[ConfigOf[t]] = t,
         \A x \in running' : lock'[ConfigOf[x[1]]] \in {NoStart, x[1]}
  PROVE  IInv'
<1>1. TypeOK /\ NoStart \notin Start
  BY ForwardConstants DEF IInv
<1>2. /\ \A a \in Asset : clients[a] # NoStart => clients[a] \in Start
      /\ \A x \in running : x[1] \in Start /\ x \in running
  BY <1>1 DEF TypeOK
<1>3. ConnInv'
  <2>1. \A a \in Asset : clients'[a] # NoStart => conn'[clients'[a]].up /\ ~conn'[clients'[a]].shut
    BY <1>1, <1>2 DEF Withdraws, IInv, ConnInv
  <2>2. \A a, b \in Asset : clients'[a] # NoStart /\ clients'[a] = clients'[b] => a = b
    BY DEF Withdraws, IInv, ConnInv
  <2>3. \A t \in Start : start'[t].pc \in Early => ~conn'[t].up
    BY DEF Withdraws, IInv, ConnInv, Early
  <2>4. NoClientLost'
    BY DEF Withdraws, NoClientLost
  <2> QED
    BY <2>1, <2>2, <2>3, <2>4 DEF ConnInv
<1>4. StartInv'
  <2> SUFFICES ASSUME NEW t \in Start
               PROVE  StartOK(t)'
    BY DEF StartInv
  <2>1. StartOK(t)
    BY DEF IInv, StartInv
  <2>2. start'[t].pc \notin {"new", "done"} => start'[t].asset \in Asset
    BY <2>1 DEF StartOK
  <2>3. start'[t].pc \in {"wait", "register", "listen"} => start'[t].fc \in Start
    BY <2>1 DEF StartOK
  <2>4. start'[t].pc = "register" =>
          conn'[start'[t].fc].up /\ (clients'[start'[t].asset] = start'[t].fc \/ conn'[start'[t].fc].shut)
    BY <2>1, <1>1 DEF StartOK, Withdraws
  <2> QED
    BY <2>2, <2>3, <2>4 DEF StartOK
<1>5. DialInv'
  <2>1. \A a \in Asset : dialing[a] # NoStart => dialing[a] \in Start
    BY <1>1 DEF TypeOK
  <2> QED
    BY <2>1 DEF Withdraws, IInv, DialInv
<1>6. RunInv'
  <2>1. IsFiniteSet(running')
    BY FS_Subset DEF Withdraws, IInv, RunInv
  <2>2. ASSUME NEW x \in running'
        PROVE  /\ start'[x[1]].pc \in {"listen", "done"} /\ start'[x[1]].asset \in Asset
               /\ clients'[start'[x[1]].asset] = start'[x[1]].fc /\ start'[x[1]].fc \in Start
    <3>1. x \in running /\ x[1] \in Start
      BY <1>2 DEF Withdraws
    <3> QED
      BY <3>1 DEF Withdraws, IInv, RunInv, AssetOf
  <2> QED
    BY <2>1, <2>2 DEF RunInv, AssetOf
<1>7. RefInv'
  <2> SUFFICES ASSUME NEW a \in Asset, clients'[a] # NoStart
               PROVE  /\ conn'[clients'[a]].refs = Cardinality(RulesOn(a)') + N * Cardinality(Regs(clients[a])')
                      /\ conn'[clients'[a]].refs > 0
    BY DEF RefInv
  <2>1. PICK f : f = clients[a]
    OBVIOUS
  <2>2. clients'[a] = f /\ f # NoStart
    BY <2>1 DEF Withdraws
  <2>3. RulesOn(a)' = Staying(a)
    BY <1>2 DEF RulesOn, AssetOf, Staying, Withdraws
  <2>4. Regs(f)' = Regs(f)
    BY DEF Regs, At
  <2>5. Regs(clients[a])' = Regs(f)
    BY <2>2, <2>4 DEF Regs
  <2> QED
    BY <2>1, <2>2, <2>3, <2>5 DEF Withdraws
<1> QED
  BY <1>3, <1>4, <1>5, <1>6, <1>7 DEF IInv

\* The references of an asset's connection, split into what a stop of the configuration
\* c takes away and what stays.
LEMMA StopCounts ==
  ASSUME IInv, NEW c, running' = running \ RulesOf(c), NEW a \in Asset
  PROVE  LET on == {x \in RulesOf(c) : AssetOf(x) = a} IN
         /\ Cardinality(on) \in Nat /\ Cardinality(Staying(a)) \in Nat
         /\ Cardinality(Staying(a)) = 0 <=> Staying(a) = {}
         /\ Cardinality(RulesOn(a)) = Cardinality(on) + Cardinality(Staying(a))
<1> DEFINE on == {x \in RulesOf(c) : AssetOf(x) = a}
<1>1. IsFiniteSet(RulesOn(a)) /\ on \subseteq RulesOn(a)
  BY FS_Subset DEF IInv, RunInv, RulesOn, RulesOf
<1>2. Staying(a) = RulesOn(a) \ on /\ RulesOn(a) \cap on = on
  BY DEF Staying, RulesOn, RulesOf
<1>3. IsFiniteSet(on) /\ IsFiniteSet(Staying(a))
      /\ Cardinality(Staying(a)) = Cardinality(RulesOn(a)) - Cardinality(on)
  <2>1. IsFiniteSet(on)
    BY <1>1, FS_Subset
  <2>2. /\ IsFiniteSet(RulesOn(a) \ on)
        /\ Cardinality(RulesOn(a) \ on) = Cardinality(RulesOn(a)) - Cardinality(RulesOn(a) \cap on)
    BY <1>1, FS_Difference
  <2> QED
    BY <1>2, <2>1, <2>2
<1>4. Cardinality(on) \in Nat /\ Cardinality(Staying(a)) \in Nat /\ Cardinality(RulesOn(a)) \in Nat
  BY <1>1, <1>3, FS_CardinalityType
<1>5. Cardinality(Staying(a)) = 0 <=> Staying(a) = {}
  BY <1>3, FS_EmptySet
<1>6. Cardinality(RulesOn(a)) = Cardinality(on) + Cardinality(Staying(a))
  BY <1>3, <1>4
<1> QED
  BY <1>4, <1>5, <1>6

\* The references of starts about to register.
LEMMA RegsCount ==
  ASSUME NEW f
  PROVE  IsFiniteSet(Regs(f)) /\ Cardinality(Regs(f)) \in Nat /\ N * Cardinality(Regs(f)) \in Nat
<1>1. IsFiniteSet(Regs(f)) /\ Cardinality(Regs(f)) \in Nat
  BY ForwardConstants, FS_Subset, FS_CardinalityType DEF Regs
<1> QED
  BY <1>1, ForwardConstants

\* stopConfigLocked is such a step, and keeps the types of the tables.
LEMMA StopWithdraws ==
  ASSUME IInv, NEW c \in Config, StopLocked(c)
  PROVE  /\ Withdraws
         /\ clients' \in [Asset -> Start \cup {NoStart}]
         /\ conn' \in [Start -> ConnState]
         /\ running' = running \ RulesOf(c)
         /\ rules' \in [cancelled: SUBSET (Start \X Rule), open: SUBSET (Start \X Rule)]
<1> DEFINE on(a) == Cardinality({x \in RulesOf(c) : AssetOf(x) = a})
           dead == {a \in Asset : on(a) > 0 /\ clients[a] # NoStart /\ conn[clients[a]].refs - on(a) <= 0}
<1>1. TypeOK /\ NoStart \notin Start /\ running' = running \ RulesOf(c) /\ RulesOf(c) \subseteq running
  BY ForwardConstants DEF IInv, StopLocked, RulesOf
<1>2. rules' = [rules EXCEPT !.cancelled = @ \cup RulesOf(c)]
  BY DEF StopLocked
<1>3. rules' \in [cancelled: SUBSET (Start \X Rule), open: SUBSET (Start \X Rule)]
  BY <1>1, <1>2 DEF TypeOK
<1>4. clients' = [a \in Asset |-> IF a \in dead THEN NoStart ELSE clients[a]]
  BY DEF StopLocked
<1>5. clients' \in [Asset -> Start \cup {NoStart}]
  BY <1>1, <1>4 DEF TypeOK
<1>6. ASSUME NEW a \in Asset
      PROVE  /\ on(a) \in Nat /\ Cardinality(Staying(a)) \in Nat
             /\ Cardinality(Staying(a)) = 0 <=> Staying(a) = {}
             /\ Cardinality(RulesOn(a)) = on(a) + Cardinality(Staying(a))
  BY <1>1, StopCounts
<1>7. conn' = [f \in Start |->
          LET held == {a \in Asset : clients[a] = f} IN
          IF held = {} THEN conn[f]
          ELSE LET a == CHOOSE a \in held : TRUE IN
               IF a \in dead THEN Shut(f) ELSE [conn[f] EXCEPT !.refs = @ - on(a)]]
  BY DEF StopLocked
<1>8. ASSUME NEW f \in Start, \A a \in Asset : clients[a] # f
      PROVE  conn'[f] = conn[f]
  BY <1>7, <1>8
<1>9. ASSUME NEW a \in Asset, clients[a] # NoStart
      PROVE  /\ clients[a] \in Start
             /\ conn'[clients[a]] = IF a \in dead THEN Shut(clients[a])
                                    ELSE [conn[clients[a]] EXCEPT !.refs = conn[clients[a]].refs - on(a)]
  <2>1. PICK f \in Start : f = clients[a]
    BY <1>1, <1>9 DEF TypeOK
  <2>2. {b \in Asset : clients[b] = f} = {a}
    BY <1>9, <2>1 DEF IInv, ConnInv
  <2>3. (CHOOSE b \in {b \in Asset : clients[b] = f} : TRUE) = a
    BY <2>2
  <2> QED
    BY <1>7, <2>1, <2>2, <2>3
<1> HIDE DEF on, dead
<1>10. ASSUME NEW a \in Asset, clients[a] # NoStart
       PROVE  /\ clients'[a] = IF a \in dead THEN NoStart ELSE clients[a]
              /\ a \in dead <=> on(a) > 0 /\ conn[clients[a]].refs - on(a) <= 0
              /\ conn'[clients[a]] \in ConnState /\ conn'[clients[a]].up = conn[clients[a]].up
              /\ a \in dead => conn'[clients[a]].shut /\ Staying(a) = {}
              /\ a \notin dead => /\ ~conn'[clients[a]].shut
                                  /\ conn'[clients[a]].refs = Cardinality(Staying(a)) + N * Cardinality(Regs(clients[a]))
                                  /\ conn'[clients[a]].refs > 0
  <2>1. PICK f \in Start : f = clients[a]
    BY <1>9, <1>10
  <2>2. PICK k \in Nat : k = N * Cardinality(Regs(f))
    BY RegsCount
  <2>3. conn[f].refs = on(a) + Cardinality(Staying(a)) + k /\ conn[f].refs > 0 /\ ~conn[f].shut
    BY <1>6, <1>10, <2>1, <2>2 DEF IInv, RefInv, ConnInv
  <2>4. a \in dead <=> on(a) > 0 /\ conn[f].refs - on(a) <= 0
    BY <1>10, <2>1 DEF dead
  <2>5. clients'[a] = IF a \in dead THEN NoStart ELSE clients[a]
    BY <1>4
  <2>6. conn[f].refs - on(a) \in Int
    BY <1>1, <1>6, ConnTypes
  <2>7. CASE a \in dead
    <3>1. conn'[f] = Shut(f)
      BY <1>9, <1>10, <2>1, <2>7
    <3>2. Cardinality(Staying(a)) = 0
      BY <1>6, <2>3, <2>4, <2>7
    <3> QED
      BY <1>1, <1>6, <2>1, <2>4, <2>5, <2>7, <3>1, <3>2, ConnTypes
  <2>8. CASE a \notin dead
    <3>1. conn'[f] = [conn[f] EXCEPT !.refs = conn[f].refs - on(a)]
      BY <1>9, <1>10, <2>1, <2>8
    <3>2. conn'[f] \in ConnState /\ conn'[f].up = conn[f].up /\ conn'[f].refs = conn[f].refs - on(a)
          /\ conn'[f].shut = conn[f].shut
      BY <1>1, <2>6, <3>1, ConnTypes
    <3>3. conn'[f].refs = Cardinality(Staying(a)) + k /\ conn'[f].refs > 0
      BY <1>6, <2>3, <2>4, <2>8, <3>2
    <3> QED
      BY <2>1, <2>2, <2>3, <2>4, <2>5, <2>8, <3>2, <3>3
  <2> QED
    BY <2>7, <2>8
<1>11. \A f \in Start : conn'[f] \in ConnState /\ conn'[f].up = conn[f].up
  <2> TAKE f \in Start
  <2>1. CASE \A a \in Asset : clients[a] # f
    BY <1>1, <1>8, <2>1 DEF TypeOK
  <2>2. CASE \E a \in Asset : clients[a] = f
    BY <1>1, <1>10, <2>2
  <2> QED
    BY <2>1, <2>2
<1>12. conn' \in [Start -> ConnState]
  BY <1>7, <1>11
<1>13. Withdraws
  <2>1. \A a \in Asset : clients'[a] = clients[a] \/ clients'[a] = NoStart
    BY <1>4
  <2>2. ASSUME NEW f \in Start, conn[f].shut
        PROVE  conn'[f].shut
    <3>1. \A a \in Asset : clients[a] # f
      BY <1>1, <2>2 DEF IInv, ConnInv
    <3> QED
      BY <1>8, <2>2, <3>1
  <2>3. ASSUME NEW f \in Start, conn[f].up, ~conn'[f].shut
        PROVE  \E a \in Asset : clients'[a] = f
    <3>1. PICK a \in Asset : clients[a] = f
      BY <2>2, <2>3 DEF IInv, ConnInv, NoClientLost
    <3> QED
      BY <1>1, <1>10, <2>3, <3>1
  <2>4. ASSUME NEW a \in Asset, clients[a] # NoStart
        PROVE  conn'[clients[a]].shut = (clients'[a] = NoStart)
    <3>1. conn'[clients[a]].shut \in BOOLEAN
      BY <1>10, <2>4 DEF ConnState
    <3> QED
      BY <1>10, <2>4, <3>1
  <2>5. ASSUME NEW x \in running'
        PROVE  clients'[AssetOf(x)] = clients[AssetOf(x)]
    <3>1. PICK a \in Asset : a = AssetOf(x)
      BY <1>1, <2>5 DEF IInv, RunInv
    <3>2. clients[a] # NoStart /\ x \in Staying(a)
      BY <1>1, <2>5, <3>1 DEF IInv, RunInv, Staying
    <3> QED
      BY <1>10, <3>1, <3>2
  <2>6. \A a \in Asset : clients'[a] # NoStart =>
       /\ conn'[clients[a]].refs = Cardinality(Staying(a)) + N * Cardinality(Regs(clients[a]))
       /\ conn'[clients[a]].refs > 0
    BY <1>10, <2>1
  <2> QED
    BY <1>1, <1>11, <2>1, <2>2, <2>3, <2>4, <2>5, <2>6 DEF Withdraws
<1> QED
  BY <1>1, <1>3, <1>5, <1>12, <1>13

\* Stopping a configuration nobody starts.
LEMMA StopKeeps ==
  ASSUME IInv, NEW c \in Config, StopConfig(c), UNCHANGED <<row, assets>>
  PROVE  IInv'
<1>1. StopLocked(c) /\ lock[c] = NoStart /\ UNCHANGED <<dialing, call, lock, start>> /\ Outrun(c)
  BY DEF StopConfig
<1>2. /\ Withdraws
      /\ clients' \in [Asset -> Start \cup {NoStart}]
      /\ conn' \in [Start -> ConnState]
      /\ running' = running \ RulesOf(c)
      /\ rules' \in [cancelled: SUBSET (Start \X Rule), open: SUBSET (Start \X Rule)]
  BY <1>1, StopWithdraws
<1>3. outrun' = {}
  <2>1. \A s \in Start : ConfigOf[s] = c => start[s].pc \notin Past
    BY <1>1, ForwardConstants DEF IInv, StartInv, StartOK
  <2> QED
    BY <1>1, <2>1 DEF Outrun, Past, IInv
<1>4. TypeOK'
  BY <1>1, <1>2, <1>3 DEF IInv, TypeOK
<1>5. LockInv' /\ ClosedInv'
  BY <1>1, <1>2 DEF IInv, LockInv, ClosedInv, Withdraws, At
<1>6. \A t \in Start : start'[t].pc \in Past => lock'[ConfigOf[t]] = t
  BY <1>1 DEF IInv, StartInv, StartOK
<1>7. \A x \in running' : lock'[ConfigOf[x[1]]] \in {NoStart, x[1]}
  BY <1>1, <1>2 DEF IInv, RunInv
<1> QED
  BY <1>1, <1>2, <1>3, <1>4, <1>5, <1>6, <1>7, WithdrawsKeep

\* A start takes its configuration's lock and stops what runs of it.
LEMMA LockAndStopKeeps ==
  ASSUME IInv, NEW s \in Start, LockAndStop(s)
  PROVE  IInv'
<1>1. PICK c \in Config : c = ConfigOf[s]
  BY ForwardConstants
<1>2. StopLocked(c) /\ lock[c] = NoStart /\ UNCHANGED <<row, assets, edit, dialing, call, outrun>> /\ start[s].pc = "lock"
      /\ lock' = [lock EXCEPT ![c] = s] /\ start' = [start EXCEPT ![s].pc = "acquire"]
  BY <1>1 DEF LockAndStop, stored, At, Goto
<1>3. /\ Withdraws
      /\ clients' \in [Asset -> Start \cup {NoStart}]
      /\ conn' \in [Start -> ConnState]
      /\ running' = running \ RulesOf(c)
      /\ rules' \in [cancelled: SUBSET (Start \X Rule), open: SUBSET (Start \X Rule)]
  BY <1>2, StopWithdraws
<1>4. TypeOK /\ NoStart \notin Start /\ ConfigOf \in [Start -> Config]
  BY ForwardConstants DEF IInv
<1>5. /\ start' \in [Start -> StartState]
      /\ start'[s].pc = "acquire" /\ start'[s].asset = start[s].asset /\ start'[s].fc = start[s].fc
      /\ \A t \in Start : t # s => start'[t] = start[t]
  <2>1. start[s] \in StartState
    BY <1>4 DEF TypeOK
  <2>2. PICK r : r = [start[s] EXCEPT !.pc = "acquire"]
    OBVIOUS
  <2>3. r \in StartState /\ r.pc = "acquire" /\ r.asset = start[s].asset /\ r.fc = start[s].fc
    BY <2>1, <2>2 DEF StartState, StartPC
  <2>4. start' = [start EXCEPT ![s] = r]
    BY <1>2, <2>2
  <2> QED
    BY <1>4, <2>3, <2>4 DEF TypeOK
<1>6. lock' \in [Config -> Start \cup {NoStart}] /\ lock'[c] = s /\ \A d \in Config : d # c => lock'[d] = lock[d]
  BY <1>2, <1>4 DEF TypeOK
<1>7. TypeOK'
  BY <1>2, <1>3, <1>4, <1>5, <1>6 DEF TypeOK
<1>8. LockInv'
  <2>1. start'[s].pc \in Past /\ start[s].pc \notin Past
    BY <1>2, <1>5 DEF Past
  <2>2. \A d \in Config : d # c /\ lock[d] # NoStart => lock[d] \in Start /\ lock[d] # s
    BY <1>4, <2>1 DEF IInv, LockInv, TypeOK
  <2> QED
    BY <1>1, <1>5, <1>6, <2>1, <2>2 DEF IInv, LockInv
<1>9. ClosedInv'
  BY <1>2, <1>3, <1>5 DEF IInv, ClosedInv, Withdraws, At
<1>10. \A t \in Start : start'[t].pc \in Past => lock'[ConfigOf[t]] = t
  <2> SUFFICES ASSUME NEW t \in Start, t # s, start[t].pc \in Past
               PROVE  lock'[ConfigOf[t]] = t
    BY <1>1, <1>5, <1>6
  <2>1. lock[ConfigOf[t]] = t /\ ConfigOf[t] \in Config
    BY <1>4 DEF IInv, StartInv, StartOK
  <2> QED
    BY <1>2, <1>4, <1>6, <2>1
<1>11. \A x \in running' : lock'[ConfigOf[x[1]]] \in {NoStart, x[1]}
  <2> SUFFICES ASSUME NEW x \in running'
               PROVE  lock'[ConfigOf[x[1]]] \in {NoStart, x[1]}
    OBVIOUS
  <2>1. x \in running /\ ConfigOf[x[1]] # c /\ x[1] \in Start
    BY <1>3, <1>4 DEF RulesOf, TypeOK
  <2>2. lock[ConfigOf[x[1]]] \in {NoStart, x[1]}
    BY <2>1 DEF IInv, RunInv
  <2> QED
    BY <1>4, <1>6, <2>1, <2>2
<1>12. /\ outrun' = {} /\ UNCHANGED dialing
       /\ \A t \in Start : /\ start'[t].asset = start[t].asset /\ start'[t].fc = start[t].fc
                           /\ start'[t].pc = start[t].pc \/ (start[t].pc = "lock" /\ start'[t].pc = "acquire")
  BY <1>2, <1>5 DEF IInv
<1> QED
  BY <1>3, <1>7, <1>8, <1>9, <1>10, <1>11, <1>12, WithdrawsKeep

\* An asset that was deleted is closed.
LEMMA CloseAssetKeeps ==
  ASSUME IInv, NEW a \in Asset, CloseAsset(a)
  PROVE  IInv'
<1>1. TypeOK /\ NoStart \notin Start
  BY ForwardConstants DEF IInv
<1>2. /\ running' = running \ RulesOn(a)
      /\ clients' = [clients EXCEPT ![a] = NoStart]
      /\ conn' = [f \in Start |-> IF f = clients[a] THEN Shut(f) ELSE conn[f]]
      /\ UNCHANGED <<row, dialing, lock, start, edit, outrun>>
      /\ assets' = [assets EXCEPT ![a] = "closed"]
  BY DEF CloseAsset
<1>3. /\ clients' \in [Asset -> Start \cup {NoStart}] /\ clients'[a] = NoStart
      /\ \A b \in Asset : b # a => clients'[b] = clients[b]
  BY <1>1, <1>2 DEF TypeOK
<1>4. /\ conn' \in [Start -> ConnState]
      /\ \A f \in Start : f # clients[a] => conn'[f] = conn[f]
      /\ clients[a] \in Start => conn'[clients[a]].shut
      /\ \A f \in Start : conn'[f].up = conn[f].up
  <2>1. \A f \in Start : conn'[f] \in ConnState
    BY <1>1, <1>2, ConnTypes DEF TypeOK
  <2> QED
    BY <1>1, <1>2, <2>1, ConnTypes
<1>5. call' \in [Start -> CallState] /\ \A s \in Start : call'[s].closed = (call[s].closed \/ s = dialing[a])
  <2>1. \A s \in Start : call[s] \in CallState
    BY <1>1 DEF TypeOK
  <2>2. \A s \in Start, b \in BOOLEAN : [call[s] EXCEPT !.closed = b] \in CallState
    BY <2>1 DEF CallState
  <2>3. \A s \in Start : [call[s] EXCEPT !.closed = TRUE] \in CallState
    BY <2>2, Zenon
  <2>4. call' = [s \in Start |-> IF s = dialing[a] THEN [call[s] EXCEPT !.closed = TRUE] ELSE call[s]]
    BY DEF CloseAsset
  <2>5. \A s \in Start : call'[s] \in CallState
    BY <2>1, <2>3, <2>4
  <2>6. ASSUME NEW s \in Start
        PROVE  call'[s].closed = (call[s].closed \/ s = dialing[a])
    <3>1. call[s].closed \in BOOLEAN
      BY <2>1 DEF CallState
    <3> QED
      BY <2>1, <2>4, <3>1 DEF CallState
  <2> QED
    BY <2>4, <2>5, <2>6
<1>6. Withdraws
  <2>1. \A f \in Start : conn'[f].up = conn[f].up /\ (conn[f].shut => conn'[f].shut)
    BY <1>4
  <2>2. \A f \in Start : conn[f].up /\ ~conn'[f].shut => \E b \in Asset : clients'[b] = f
    BY <1>3, <1>4 DEF IInv, ConnInv, NoClientLost
  <2>3. ASSUME NEW b \in Asset, clients[b] # NoStart
        PROVE  conn'[clients[b]].shut = (clients'[b] = NoStart)
    <3>1. clients[b] \in Start /\ ~conn[clients[b]].shut
      BY <1>1, <2>3 DEF TypeOK, IInv, ConnInv
    <3>2. conn'[clients[b]].shut \in BOOLEAN
      BY <1>4, <3>1 DEF ConnState
    <3>3. b # a => clients[b] # clients[a]
      BY <2>3 DEF IInv, ConnInv
    <3> QED
      BY <1>3, <1>4, <2>3, <3>1, <3>2, <3>3
  <2>4. \A x \in running' : AssetOf(x) \in Asset /\ AssetOf(x) # a
    BY <1>2 DEF IInv, RunInv, RulesOn
  <2>5. ASSUME NEW b \in Asset, clients'[b] # NoStart
        PROVE  /\ conn'[clients[b]].refs = Cardinality(Staying(b)) + N * Cardinality(Regs(clients[b]))
               /\ conn'[clients[b]].refs > 0
    <3>1. b # a /\ clients[b] # clients[a] /\ clients[b] # NoStart /\ clients[b] \in Start
      BY <1>1, <1>3, <2>5 DEF IInv, ConnInv, TypeOK
    <3>2. Staying(b) = RulesOn(b)
      BY <1>2, <3>1 DEF Staying, RulesOn
    <3> QED
      BY <1>4, <3>1, <3>2 DEF IInv, RefInv
  <2> QED
    BY <1>2, <1>3, <2>1, <2>2, <2>3, <2>4, <2>5 DEF Withdraws
<1>7. rules' \in [cancelled: SUBSET (Start \X Rule), open: SUBSET (Start \X Rule)]
  <2>1. rules' = [rules EXCEPT !.cancelled = @ \cup RulesOn(a)] /\ RulesOn(a) \subseteq Start \X Rule
    BY <1>1 DEF CloseAsset, RulesOn, TypeOK
  <2> QED
    BY <1>1, <2>1 DEF TypeOK
<1>8. TypeOK'
  BY <1>1, <1>2, <1>3, <1>4, <1>5, <1>7 DEF TypeOK
<1>9. ClosedInv'
  <2>1. \A s \in Start : start[s].pc = "connect" /\ start[s].asset = a => dialing[a] = s
    BY DEF IInv, DialInv
  <2>2. \A b \in Asset : b # a => assets'[b] = assets[b]
    BY <1>1, <1>2 DEF TypeOK
  <2>3. \A s \in Start : call[s].closed => call'[s].closed
    BY <1>5
  <2>4. \A s \in Start : start[s].pc = "connect" /\ start[s].asset = a => call'[s].closed
    BY <1>5, <2>1
  <2> QED
    BY <1>2, <1>3, <2>2, <2>3, <2>4 DEF IInv, ClosedInv, At
<1> QED
  BY <1>2, <1>6, <1>8, <1>9, WithdrawsKeep DEF IInv, LockInv, StartInv, StartOK, RunInv

-----------------------------------------------------------------------------
(* Steps that give a start a connection *)

\* A start that holds its lock and keeps it.
LEMMA StaysLocked ==
  ASSUME IInv, NEW s \in Start, NEW r, start' = [start EXCEPT ![s] = r],
         start[s].pc \in Past, r.pc \in Past, UNCHANGED lock
  PROVE  /\ LockInv'
         /\ \A t \in Start : start'[t].pc \in Past => lock'[ConfigOf[t]] = t
         /\ start'[s] = r /\ \A t \in Start : t # s => start'[t] = start[t]
<1>1. start \in [Start -> StartState] /\ lock \in [Config -> Start \cup {NoStart}]
  BY DEF IInv, TypeOK
<1>2. start'[s] = r /\ \A t \in Start : t # s => start'[t] = start[t]
  BY <1>1
<1>3. LockInv'
  BY <1>1, <1>2 DEF IInv, LockInv
<1>4. \A t \in Start : start'[t].pc \in Past => lock'[ConfigOf[t]] = t
  BY <1>2 DEF IInv, StartInv, StartOK
<1> QED
  BY <1>2, <1>3, <1>4

\* One more start is about to register on a connection.
LEMMA OneMoreReg ==
  ASSUME NEW f, NEW s \in Start, s \notin Regs(f), Regs(f)' = Regs(f) \cup {s}
  PROVE  N * Cardinality(Regs(f)') = N * Cardinality(Regs(f)) + N
<1>1. Cardinality(Regs(f)') = Cardinality(Regs(f)) + 1 /\ Cardinality(Regs(f)) \in Nat
  BY RegsCount, FS_AddElement
<1>2. \A n \in Nat, k \in Nat : n * (k + 1) = n * k + n
  OBVIOUS
<1> QED
  BY <1>1, <1>2, ForwardConstants

\* acquireClient shares the asset's connection, with its references.
LEMMA ShareKeeps ==
  ASSUME IInv, NEW s \in Start, NEW a \in Asset, NEW f \in Start,
         start[s].pc = "acquire", a = start[s].asset, clients[a] = f,
         conn' = [conn EXCEPT ![f].refs = @ + N],
         start' = [start EXCEPT ![s].pc = "register", ![s].fc = f],
         UNCHANGED <<row, assets, clients, dialing, call, running, rules, lock, outrun>>
  PROVE  IInv'
<1>1. TypeOK /\ NoStart \notin Start /\ N \in Nat /\ N > 0 /\ ConfigOf \in [Start -> Config]
  BY ForwardConstants DEF IInv
<1>2. PICK r : r = [start[s] EXCEPT !.pc = "register", !.fc = f]
  OBVIOUS
<1>3. r \in StartState /\ r.pc = "register" /\ r.asset = a /\ r.fc = f
  <2>1. start[s] \in StartState
    BY <1>1 DEF TypeOK
  <2> QED
    BY <1>2, <2>1 DEF StartState, StartPC
<1>4. start' = [start EXCEPT ![s] = r] /\ start' \in [Start -> StartState]
  BY <1>1, <1>2, <1>3 DEF TypeOK
<1>5. /\ LockInv'
      /\ \A t \in Start : start'[t].pc \in Past => lock'[ConfigOf[t]] = t
      /\ start'[s] = r /\ \A t \in Start : t # s => start'[t] = start[t]
  BY <1>3, <1>4, StaysLocked DEF Past
<1>6. /\ conn' \in [Start -> ConnState] /\ \A g \in Start : g # f => conn'[g] = conn[g]
      /\ conn'[f].up = conn[f].up /\ conn'[f].shut = conn[f].shut /\ conn'[f].refs = conn[f].refs + N
  <2>1. PICK e : e = [conn[f] EXCEPT !.refs = conn[f].refs + N]
    OBVIOUS
  <2>2. conn[f].refs + N \in Int
    BY <1>1, ConnTypes
  <2>3. e \in ConnState /\ e.up = conn[f].up /\ e.shut = conn[f].shut /\ e.refs = conn[f].refs + N
    BY <1>1, <2>1, <2>2, ConnTypes
  <2>4. conn' = [conn EXCEPT ![f] = e]
    BY <2>1
  <2> QED
    BY <1>1, <2>3, <2>4 DEF TypeOK
<1>7. TypeOK'
  BY <1>1, <1>4, <1>6 DEF TypeOK
<1>8. \A g \in Start : conn'[g].up = conn[g].up /\ conn'[g].shut = conn[g].shut
  BY <1>6
<1>9. ConnInv'
  <2>1. \A b \in Asset : clients[b] # NoStart => clients[b] \in Start
    BY <1>1 DEF TypeOK
  <2>2. \A b \in Asset : clients'[b] # NoStart => conn'[clients'[b]].up /\ ~conn'[clients'[b]].shut
    BY <1>8, <2>1 DEF IInv, ConnInv
  <2>3. \A t \in Start : start'[t].pc \in Early => ~conn'[t].up
    BY <1>3, <1>5, <1>8 DEF IInv, ConnInv, Early
  <2>4. NoClientLost'
    BY <1>8 DEF IInv, ConnInv, NoClientLost
  <2> QED
    BY <2>2, <2>3, <2>4 DEF IInv, ConnInv
<1>10. StartInv'
  <2>1. StartOK(s)'
    BY <1>1, <1>3, <1>5, <1>8 DEF StartOK, IInv, ConnInv
  <2>2. ASSUME NEW t \in Start, t # s
        PROVE  StartOK(t)'
    <3>1. StartOK(t) /\ start'[t] = start[t]
      BY <1>5, <2>2 DEF IInv, StartInv
    <3>2. start[t].pc = "register" => start[t].fc \in Start
      BY <3>1 DEF StartOK
    <3> QED
      BY <1>8, <3>1, <3>2 DEF StartOK
  <2> QED
    BY <2>1, <2>2 DEF StartInv
<1>11. DialInv'
  <2>1. \A b \in Asset : dialing[b] # NoStart => dialing[b] \in Start /\ dialing[b] # s
    BY <1>1 DEF TypeOK, IInv, DialInv
  <2>2. \A b \in Asset : dialing[b] # NoStart =>
          start'[dialing[b]].pc \in {"dial", "connect"} /\ start'[dialing[b]].asset = b /\ clients[b] = NoStart
    BY <1>5, <2>1 DEF IInv, DialInv
  <2>3. \A t \in Start : start'[t].pc \in {"dial", "connect"} => dialing[start'[t].asset] = t
    BY <1>3, <1>5 DEF IInv, DialInv
  <2> QED
    BY <2>2, <2>3 DEF DialInv
<1>12. \A x \in running : x[1] \in Start /\ x[1] # s /\ start'[x[1]] = start[x[1]]
  BY <1>1, <1>5 DEF TypeOK, IInv, RunInv
<1>13. RunInv'
  BY <1>12 DEF IInv, RunInv, AssetOf
<1>14. ClosedInv'
  BY <1>3, <1>5 DEF IInv, ClosedInv, At
<1>15. RefInv'
  <2> SUFFICES ASSUME NEW b \in Asset, NEW g, clients[b] = g, g # NoStart
               PROVE  /\ conn'[g].refs = Cardinality(RulesOn(b)') + N * Cardinality(Regs(g)')
                      /\ conn'[g].refs > 0
    BY DEF RefInv, Regs, At
  <2>1. RulesOn(b)' = RulesOn(b) /\ Cardinality(RulesOn(b)) \in Nat
    <3>1. RulesOn(b)' = RulesOn(b)
      BY <1>12 DEF RulesOn, AssetOf
    <3>2. IsFiniteSet(RulesOn(b))
      BY FS_Subset DEF RulesOn, IInv, RunInv
    <3> QED
      BY <3>1, <3>2, FS_CardinalityType
  <2>2. /\ conn[g].refs = Cardinality(RulesOn(b)) + N * Cardinality(Regs(g))
        /\ conn[g].refs > 0
    BY DEF IInv, RefInv
  <2>3. CASE g = f
    <3>1. s \notin Regs(g) /\ Regs(g)' = Regs(g) \cup {s}
      BY <1>3, <1>5, <2>3 DEF Regs, At
    <3>2. N * Cardinality(Regs(g)') = N * Cardinality(Regs(g)) + N
      BY <3>1, OneMoreReg
    <3>3. N * Cardinality(Regs(g)) \in Nat
      BY RegsCount
    <3> QED
      BY <1>1, <1>6, <2>1, <2>2, <2>3, <3>2, <3>3
  <2>4. CASE g # f
    <3>1. Regs(g)' = Regs(g)
      BY <1>3, <1>5, <2>4 DEF Regs, At
    <3>2. g \in Start
      BY <1>1 DEF TypeOK
    <3> QED
      BY <1>6, <2>1, <2>2, <2>4, <3>1, <3>2
  <2> QED
    BY <2>3, <2>4
<1> QED
  BY <1>5, <1>7, <1>9, <1>10, <1>11, <1>13, <1>14, <1>15 DEF IInv

\* acquireClient: share the connection, wait for the dial going on, or dial.
LEMMA AcquireKeeps ==
  ASSUME IInv, NEW s \in Start, AcquireClient(s)
  PROVE  IInv'
<1>1. TypeOK /\ NoStart \notin Start /\ start[s].pc = "acquire" /\ StartOK(s) /\ start[s] \in StartState
  BY ForwardConstants DEF IInv, StartInv, AcquireClient, At, TypeOK
<1>2. PICK a \in Asset : a = start[s].asset
  BY <1>1 DEF StartOK
<1>3. clients[a] \in Start \cup {NoStart} /\ dialing[a] \in Start \cup {NoStart}
  BY <1>1 DEF TypeOK
<1>4. UNCHANGED <<row, assets, clients, call, running, rules, lock, outrun>>
  BY DEF AcquireClient, stored
<1>5. CASE clients[a] # NoStart
  BY <1>1, <1>2, <1>3, <1>4, <1>5, ShareKeeps DEF AcquireClient
<1>6. CASE clients[a] = NoStart /\ dialing[a] # NoStart
  <2>1. PICK r : r = [start[s] EXCEPT !.pc = "wait", !.fc = dialing[a]]
    OBVIOUS
  <2>2. r \in StartState /\ r.pc = "wait" /\ r.asset = a /\ r.fc \in Start
    BY <1>1, <1>2, <1>3, <1>6, <2>1 DEF StartState, StartPC
  <2>3. start' = [start EXCEPT ![s] = r] /\ start' \in [Start -> StartState] /\ UNCHANGED <<conn, dialing>>
    <3>1. start' = [start EXCEPT ![s].pc = "wait", ![s].fc = dialing[a]] /\ UNCHANGED <<conn, dialing>>
      BY <1>2, <1>6 DEF AcquireClient
    <3> QED
      BY <1>1, <2>1, <2>2, <3>1 DEF TypeOK
  <2>4. \A b \in Asset : dialing[b] # s
    BY <1>1 DEF IInv, DialInv
  <2>5. Moves(s, r)
    BY <1>1, <1>4, <2>2, <2>3, <2>4 DEF Moves, Past, Early
  <2>6. TypeOK'
    BY <1>1, <1>4, <2>3 DEF TypeOK
  <2> QED
    BY <2>2, <2>5, <2>6, MovesKeep
<1>7. CASE clients[a] = NoStart /\ dialing[a] = NoStart
  <2>1. PICK r : r = [start[s] EXCEPT !.pc = "dial"]
    OBVIOUS
  <2>2. r \in StartState /\ r.pc = "dial" /\ r.asset = a
    BY <1>1, <1>2, <2>1 DEF StartState, StartPC
  <2>3. start' = [start EXCEPT ![s] = r] /\ start' \in [Start -> StartState] /\ UNCHANGED conn
        /\ dialing' = [dialing EXCEPT ![a] = s]
    BY <1>1, <1>2, <1>7, <2>1, <2>2 DEF TypeOK, AcquireClient, Goto
  <2>4. /\ LockInv'
        /\ \A t \in Start : start'[t].pc \in Past => lock'[ConfigOf[t]] = t
        /\ start'[s] = r /\ \A t \in Start : t # s => start'[t] = start[t]
    BY <1>1, <1>4, <2>2, <2>3, StaysLocked DEF Past
  <2>5. dialing' \in [Asset -> Start \cup {NoStart}] /\ dialing'[a] = s /\ \A b \in Asset : b # a => dialing'[b] = dialing[b]
    BY <1>1, <2>3 DEF TypeOK
  <2>6. TypeOK'
    BY <1>1, <1>4, <2>3, <2>5 DEF TypeOK
  <2>7. ConnInv'
    BY <1>1, <1>4, <2>2, <2>3, <2>4 DEF IInv, ConnInv, NoClientLost, Early
  <2>8. StartInv'
    <3>1. StartOK(s)'
      BY <2>2, <2>4 DEF StartOK
    <3>2. \A t \in Start : t # s => StartOK(t)'
      BY <1>4, <2>3, <2>4 DEF IInv, StartInv, StartOK
    <3> QED
      BY <3>1, <3>2 DEF StartInv
  <2>9. DialInv'
    <3>1. \A b \in Asset : dialing[b] # NoStart => dialing[b] \in Start /\ dialing[b] # s
      BY <1>1 DEF TypeOK, IInv, DialInv
    <3>2. \A b \in Asset : dialing'[b] # NoStart =>
            start'[dialing'[b]].pc \in {"dial", "connect"} /\ start'[dialing'[b]].asset = b /\ clients'[b] = NoStart
      BY <1>4, <1>7, <2>2, <2>4, <2>5, <3>1 DEF IInv, DialInv
    <3>3. ASSUME NEW t \in Start, start'[t].pc \in {"dial", "connect"}, t # s
          PROVE  dialing'[start'[t].asset] = t
      <4>1. start[t].asset \in Asset /\ dialing[start[t].asset] = t /\ start'[t] = start[t]
        BY <2>4, <3>3 DEF IInv, DialInv, StartInv, StartOK
      <4> QED
        BY <1>1, <1>7, <2>5, <4>1
    <3> QED
      BY <2>2, <2>4, <2>5, <3>2, <3>3 DEF DialInv
  <2>10. \A x \in running : x[1] \in Start /\ x[1] # s /\ start'[x[1]] = start[x[1]]
    BY <1>1, <2>4 DEF TypeOK, IInv, RunInv
  <2>11. RunInv'
    BY <1>4, <2>10 DEF IInv, RunInv, AssetOf
  <2>12. ClosedInv'
    BY <1>4, <2>2, <2>4 DEF IInv, ClosedInv, At
  <2>13. RefInv'
    <3> SUFFICES ASSUME NEW b \in Asset, NEW g, clients[b] = g, g # NoStart
                 PROVE  /\ conn[g].refs = Cardinality(RulesOn(b)') + N * Cardinality(Regs(g)')
                        /\ conn[g].refs > 0
      BY <1>4, <2>3 DEF RefInv, Regs, At
    <3>1. RulesOn(b)' = RulesOn(b)
      BY <1>4, <2>10 DEF RulesOn, AssetOf
    <3>2. Regs(g)' = Regs(g)
      BY <1>1, <2>2, <2>4 DEF Regs, At
    <3> QED
      BY <3>1, <3>2 DEF IInv, RefInv
  <2> QED
    BY <1>4, <2>4, <2>6, <2>7, <2>8, <2>9, <2>11, <2>12, <2>13 DEF IInv
<1> QED
  BY <1>5, <1>6, <1>7

\* The dial of an asset that was not closed meanwhile brings its connection.
LEMMA ConnectedKeeps ==
  ASSUME IInv, NEW s \in Start, Connected(s)
  PROVE  IInv'
<1>1. /\ TypeOK /\ NoStart \notin Start /\ N \in Nat /\ N > 0
      /\ start[s].pc = "connect" /\ StartOK(s) /\ start[s] \in StartState /\ ~call[s].closed
  BY ForwardConstants DEF IInv, StartInv, Connected, At, TypeOK
<1>2. PICK a \in Asset : a = start[s].asset
  BY <1>1 DEF StartOK
<1>3. /\ UNCHANGED <<row, assets, running, rules, lock, outrun>> /\ DialDone(s, "none")
      /\ clients' = [clients EXCEPT ![a] = s]
      /\ conn' = [conn EXCEPT ![s] = [up |-> TRUE, refs |-> N, shut |-> FALSE]]
      /\ start' = [start EXCEPT ![s].pc = "register", ![s].fc = s]
  BY <1>2 DEF Connected, stored
<1>4. PICK r : r = [start[s] EXCEPT !.pc = "register", !.fc = s]
  OBVIOUS
<1>5. r \in StartState /\ r.pc = "register" /\ r.asset = a /\ r.fc = s
  BY <1>1, <1>2, <1>4 DEF StartState, StartPC
<1>6. start' = [start EXCEPT ![s] = r] /\ start' \in [Start -> StartState]
  BY <1>1, <1>3, <1>4, <1>5 DEF TypeOK
<1>7. /\ LockInv'
      /\ \A t \in Start : start'[t].pc \in Past => lock'[ConfigOf[t]] = t
      /\ start'[s] = r /\ \A t \in Start : t # s => start'[t] = start[t]
  BY <1>1, <1>3, <1>5, <1>6, StaysLocked DEF Past
<1>8. /\ conn' \in [Start -> ConnState] /\ \A g \in Start : g # s => conn'[g] = conn[g]
      /\ conn'[s].up /\ ~conn'[s].shut /\ conn'[s].refs = N
  <2>1. PICK e : e = [up |-> TRUE, refs |-> N, shut |-> FALSE]
    OBVIOUS
  <2>2. e \in ConnState /\ e.up /\ ~e.shut /\ e.refs = N
    BY <1>1, <2>1 DEF ConnState
  <2> QED
    BY <1>1, <1>3, <2>1, <2>2 DEF TypeOK
<1>9. /\ clients' \in [Asset -> Start \cup {NoStart}] /\ clients'[a] = s
      /\ \A b \in Asset : b # a => clients'[b] = clients[b]
      /\ dialing' \in [Asset -> Start \cup {NoStart}] /\ dialing'[a] = NoStart
      /\ \A b \in Asset : b # a => dialing'[b] = dialing[b]
  BY <1>1, <1>2, <1>3 DEF TypeOK, DialDone
<1>10. call' \in [Start -> CallState] /\ \A t \in Start : t # s => call'[t] = call[t]
  <2>1. call[s] \in CallState
    BY <1>1 DEF TypeOK
  <2>2. \A b \in BOOLEAN : [call[s] EXCEPT !.done = b, !.err = "none"] \in CallState
    BY <2>1 DEF CallState
  <2>3. [call[s] EXCEPT !.done = TRUE, !.err = "none"] \in CallState
    BY <2>2, Zenon
  <2> QED
    BY <1>1, <1>3, <2>3 DEF DialDone, TypeOK
<1>11. TypeOK'
  BY <1>1, <1>3, <1>6, <1>8, <1>9, <1>10 DEF TypeOK
<1>12. dialing[a] = s /\ clients[a] = NoStart /\ ~conn[s].up /\ \A b \in Asset : clients[b] # s
  <2>1. dialing[a] = s /\ ~conn[s].up
    BY <1>1, <1>2 DEF IInv, DialInv, ConnInv, Early
  <2>2. \A b \in Asset : clients[b] # s
    BY <1>1, <2>1 DEF IInv, ConnInv
  <2> QED
    BY <1>1, <2>1, <2>2 DEF IInv, DialInv
<1>13. \A b \in Asset : clients[b] # NoStart => b # a /\ clients[b] \in Start /\ clients[b] # s
  BY <1>1, <1>12 DEF TypeOK
<1>14. ConnInv'
  <2>1. \A b \in Asset : clients'[b] # NoStart => conn'[clients'[b]].up /\ ~conn'[clients'[b]].shut
    BY <1>8, <1>9, <1>13 DEF IInv, ConnInv
  <2>2. \A b, d \in Asset : clients'[b] # NoStart /\ clients'[b] = clients'[d] => b = d
    BY <1>9, <1>12 DEF IInv, ConnInv
  <2>3. \A t \in Start : start'[t].pc \in Early => ~conn'[t].up
    BY <1>5, <1>7, <1>8 DEF IInv, ConnInv, Early
  <2>4. NoClientLost'
    <3> SUFFICES ASSUME NEW f \in Start, f # s, conn[f].up, ~conn[f].shut
                 PROVE  \E b \in Asset : clients'[b] = f
      BY <1>8, <1>9 DEF NoClientLost
    <3>1. PICK b \in Asset : clients[b] = f
      BY DEF IInv, ConnInv, NoClientLost
    <3> QED
      BY <1>1, <1>9, <1>13, <3>1
  <2> QED
    BY <2>1, <2>2, <2>3, <2>4 DEF ConnInv
<1>15. ASSUME NEW t \in Start, t # s, start[t].pc = "register"
       PROVE  start[t].fc # s /\ start[t].fc \in Start /\ start[t].asset \in Asset
              /\ conn[start[t].fc].up /\ (clients[start[t].asset] = start[t].fc \/ conn[start[t].fc].shut)
  BY <1>12, <1>15 DEF IInv, StartInv, StartOK
<1>16. StartInv'
  <2>1. StartOK(s)'
    BY <1>5, <1>7, <1>8, <1>9 DEF StartOK
  <2>2. ASSUME NEW t \in Start, t # s
        PROVE  StartOK(t)'
    <3>1. StartOK(t) /\ start'[t] = start[t]
      BY <1>7, <2>2 DEF IInv, StartInv
    <3>2. start[t].pc = "register" =>
            conn'[start[t].fc].up /\ (clients'[start[t].asset] = start[t].fc \/ conn'[start[t].fc].shut)
      BY <1>8, <1>9, <1>12, <1>15, <2>2, <1>1
    <3> QED
      BY <1>7, <3>1, <3>2 DEF StartOK
  <2> QED
    BY <2>1, <2>2 DEF StartInv
<1>17. DialInv'
  <2>1. ASSUME NEW b \in Asset, dialing'[b] # NoStart
        PROVE  start'[dialing'[b]].pc \in {"dial", "connect"} /\ start'[dialing'[b]].asset = b /\ clients'[b] = NoStart
    <3>1. b # a /\ dialing[b] # NoStart /\ dialing[b] \in Start /\ dialing'[b] = dialing[b]
      BY <1>1, <1>9, <2>1 DEF TypeOK
    <3>2. dialing[b] # s
      BY <1>2, <3>1 DEF IInv, DialInv
    <3> QED
      BY <1>7, <1>9, <3>1, <3>2 DEF IInv, DialInv
  <2>2. ASSUME NEW t \in Start, start'[t].pc \in {"dial", "connect"}
        PROVE  dialing'[start'[t].asset] = t
    <3>1. t # s /\ start'[t] = start[t]
      BY <1>5, <1>7, <2>2
    <3>2. start[t].asset \in Asset /\ dialing[start[t].asset] = t
      BY <2>2, <3>1 DEF IInv, DialInv, StartInv, StartOK
    <3> QED
      BY <1>9, <1>12, <3>1, <3>2
  <2> QED
    BY <2>1, <2>2 DEF DialInv
<1>18. \A x \in running : /\ x[1] \in Start /\ x[1] # s /\ start'[x[1]] = start[x[1]]
                          /\ start[x[1]].asset \in Asset /\ start[x[1]].asset # a
  BY <1>1, <1>7, <1>12 DEF TypeOK, IInv, RunInv, AssetOf
<1>19. RunInv'
  <2>1. ASSUME NEW x \in running
        PROVE  /\ start'[x[1]].pc \in {"listen", "done"} /\ start'[x[1]].asset \in Asset
               /\ clients'[start'[x[1]].asset] = start'[x[1]].fc /\ start'[x[1]].fc \in Start
               /\ lock'[ConfigOf[x[1]]] \in {NoStart, x[1]}
    <3>1. start'[x[1]] = start[x[1]] /\ start[x[1]].asset \in Asset /\ start[x[1]].asset # a
      BY <1>18, <2>1
    <3> QED
      BY <1>3, <1>9, <2>1, <3>1 DEF IInv, RunInv, AssetOf
  <2> QED
    BY <1>3, <2>1 DEF IInv, RunInv, AssetOf
<1>20. ClosedInv'
  <2>1. assets[a] # "closed"
    BY <1>1, <1>2 DEF IInv, ClosedInv, At
  <2>2. ASSUME NEW b \in Asset, assets[b] = "closed"
        PROVE  clients'[b] = NoStart
    BY <1>9, <2>1, <2>2 DEF IInv, ClosedInv
  <2>3. ASSUME NEW b \in Asset, assets[b] = "closed", NEW t \in Start, start'[t].pc = "connect", start'[t].asset = b
        PROVE  call'[t].closed
    <3>1. t # s /\ start'[t] = start[t] /\ call'[t] = call[t]
      BY <1>5, <1>7, <1>10, <2>3
    <3> QED
      BY <2>3, <3>1 DEF IInv, ClosedInv, At
  <2> QED
    BY <1>3, <2>2, <2>3 DEF ClosedInv, At
<1>21. RefInv'
  <2> SUFFICES ASSUME NEW b \in Asset, NEW g, clients'[b] = g, g # NoStart
               PROVE  /\ conn'[g].refs = Cardinality(RulesOn(b)') + N * Cardinality(Regs(g)')
                      /\ conn'[g].refs > 0
    BY DEF RefInv, Regs, At
  <2>1. RulesOn(b)' = RulesOn(b)
    BY <1>3, <1>18 DEF RulesOn, AssetOf
  <2>2. CASE b = a
    <3>1. g = s /\ RulesOn(b) = {}
      BY <1>9, <1>18, <2>2 DEF RulesOn, AssetOf
    <3>2. Regs(g)' = {s}
      BY <1>5, <1>7, <1>15, <3>1 DEF Regs, At
    <3>3. Cardinality(RulesOn(b)') = 0 /\ Cardinality(Regs(g)') = 1
      BY <2>1, <3>1, <3>2, FS_EmptySet, FS_Singleton
    <3> QED
      BY <1>1, <1>8, <3>1, <3>3
  <2>3. CASE b # a
    <3>1. clients[b] = g /\ g # s /\ g \in Start
      BY <1>9, <1>13, <2>3
    <3>2. Regs(g)' = Regs(g)
      BY <1>1, <1>5, <1>7, <3>1 DEF Regs, At
    <3> QED
      BY <1>8, <2>1, <3>1, <3>2 DEF IInv, RefInv
  <2> QED
    BY <2>2, <2>3
<1> QED
  BY <1>3, <1>7, <1>11, <1>14, <1>16, <1>17, <1>19, <1>20, <1>21 DEF IInv

\* The rules of one start are N.
LEMMA OwnRules ==
  ASSUME NEW s
  PROVE  IsFiniteSet({<<s, n>> : n \in Rule}) /\ Cardinality({<<s, n>> : n \in Rule}) = N
<1>1. {<<s, n>> : n \in Rule} = {s} \X Rule
  OBVIOUS
<1>2. IsFiniteSet({s}) /\ Cardinality({s}) = 1
  BY FS_Singleton
<1>3. IsFiniteSet({s} \X Rule) /\ Cardinality({s} \X Rule) = Cardinality({s}) * Cardinality(Rule)
  BY <1>2, RulesFinite, FS_Product
<1>4. 1 * N = N
  BY ForwardConstants
<1> QED
  BY <1>1, <1>2, <1>3, <1>4, RulesFinite

\* The rules are registered where the connection is still the asset's, each with the
\* reference that was taken for it; otherwise the start fails.
LEMMA RegisterKeeps ==
  ASSUME IInv, NEW s \in Start, Register(s)
  PROVE  IInv'
<1>1. /\ TypeOK /\ NoStart \notin Start /\ N \in Nat /\ N > 0 /\ ConfigOf \in [Start -> Config]
      /\ start[s].pc = "register" /\ StartOK(s) /\ start[s] \in StartState
  BY ForwardConstants DEF IInv, StartInv, Register, At, TypeOK
<1>2. PICK a \in Asset : a = start[s].asset
  BY <1>1 DEF StartOK
<1>3. PICK f \in Start : f = start[s].fc
  BY <1>1 DEF StartOK
<1>4. UNCHANGED <<row, assets, edit, clients, conn, dialing, call, rules, outrun>>
  BY DEF Register, stored
<1>5. CASE clients[a] # f
  BY <1>1, <1>2, <1>3, <1>4, <1>5, FailKeeps DEF Register
<1>6. CASE clients[a] = f
  <2> DEFINE own == {<<s, n>> : n \in Rule}
  <2>1. lock[ConfigOf[s]] = s /\ ConfigOf[s] \in Config
    BY <1>1 DEF StartOK, Past
  <2>2. \A x \in running : x[1] \in Start /\ x[1] # s /\ ConfigOf[x[1]] # ConfigOf[s]
    BY <1>1, <2>1 DEF TypeOK, IInv, RunInv
  <2>3. running' = running \cup own /\ UNCHANGED lock /\ start' = [start EXCEPT ![s].pc = "listen"]
    <3>1. \A x \in running : RuleID(x) \notin {RuleID(<<s, n>>) : n \in Rule}
      BY <2>2 DEF RuleID
    <3> QED
      BY <1>2, <1>3, <1>6, <3>1 DEF Register, Goto
  <2>4. PICK r : r = [start[s] EXCEPT !.pc = "listen"]
    OBVIOUS
  <2>5. r \in StartState /\ r.pc = "listen" /\ r.asset = a /\ r.fc = f
    BY <1>1, <1>2, <1>3, <2>4 DEF StartState, StartPC
  <2>6. start' = [start EXCEPT ![s] = r] /\ start' \in [Start -> StartState]
    BY <1>1, <2>3, <2>4, <2>5 DEF TypeOK
  <2>7. /\ LockInv'
        /\ \A t \in Start : start'[t].pc \in Past => lock'[ConfigOf[t]] = t
        /\ start'[s] = r /\ \A t \in Start : t # s => start'[t] = start[t]
    BY <1>1, <2>3, <2>5, <2>6, StaysLocked DEF Past
  <2>8. own \subseteq Start \X Rule /\ \A x \in own : x[1] = s
    OBVIOUS
  <2>9. TypeOK'
    BY <1>1, <1>4, <2>3, <2>6, <2>8 DEF TypeOK
  <2>10. ConnInv'
    BY <1>4, <2>5, <2>7 DEF IInv, ConnInv, NoClientLost, Early
  <2>11. StartInv'
    <3>1. StartOK(s)'
      BY <2>5, <2>7 DEF StartOK
    <3>2. \A t \in Start : t # s => StartOK(t)'
      BY <1>4, <2>7 DEF IInv, StartInv, StartOK
    <3> QED
      BY <3>1, <3>2 DEF StartInv
  <2>12. DialInv'
    <3>1. \A b \in Asset : dialing[b] # NoStart => dialing[b] \in Start /\ dialing[b] # s
      BY <1>1 DEF TypeOK, IInv, DialInv
    <3>2. \A b \in Asset : dialing[b] # NoStart =>
            start'[dialing[b]].pc \in {"dial", "connect"} /\ start'[dialing[b]].asset = b /\ clients[b] = NoStart
      BY <2>7, <3>1 DEF IInv, DialInv
    <3>3. \A t \in Start : start'[t].pc \in {"dial", "connect"} => dialing[start'[t].asset] = t
      BY <2>5, <2>7 DEF IInv, DialInv
    <3> QED
      BY <1>4, <3>2, <3>3 DEF DialInv
  <2>13. RunInv'
    <3>1. IsFiniteSet(running')
      BY <2>3, OwnRules, FS_Union DEF IInv, RunInv
    <3>2. ASSUME NEW x \in running'
          PROVE  /\ start'[x[1]].pc \in {"listen", "done"} /\ start'[x[1]].asset \in Asset
                 /\ clients'[start'[x[1]].asset] = start'[x[1]].fc /\ start'[x[1]].fc \in Start
                 /\ lock'[ConfigOf[x[1]]] \in {NoStart, x[1]}
      <4>1. CASE x \in own
        BY <1>2, <1>3, <1>4, <1>6, <2>1, <2>3, <2>5, <2>7, <2>8, <4>1
      <4>2. CASE x \in running
        <5>1. start'[x[1]] = start[x[1]]
          BY <2>2, <2>7, <4>2
        <5> QED
          BY <1>4, <2>3, <4>2, <5>1 DEF IInv, RunInv, AssetOf
      <4> QED
        BY <2>3, <3>2, <4>1, <4>2
    <3> QED
      BY <3>1, <3>2 DEF RunInv, AssetOf
  <2>14. ClosedInv'
    BY <1>4, <2>5, <2>7 DEF IInv, ClosedInv, At
  <2>15. RefInv'
    <3> SUFFICES ASSUME NEW b \in Asset, NEW g, clients[b] = g, g # NoStart
                 PROVE  /\ conn[g].refs = Cardinality(RulesOn(b)') + N * Cardinality(Regs(g)')
                        /\ conn[g].refs > 0
      BY <1>4 DEF RefInv, Regs, At
    <3>1. conn[g].refs = Cardinality(RulesOn(b)) + N * Cardinality(Regs(g)) /\ conn[g].refs > 0
      BY DEF IInv, RefInv
    <3>2. CASE b = a
      <4>1. g = f
        BY <1>6, <3>2
      <4>2. s \in Regs(g) /\ Regs(g)' = Regs(g) \ {s}
        BY <1>1, <1>3, <2>5, <2>7, <4>1 DEF Regs, At
      <4>3. N * Cardinality(Regs(g)) = N * Cardinality(Regs(g)') + N
        <5>1. Cardinality(Regs(g)') = Cardinality(Regs(g)) - 1 /\ Cardinality(Regs(g)) \in Nat
              /\ Cardinality(Regs(g)') \in Nat
          <6>1. IsFiniteSet(Regs(g))
            BY RegsCount
          <6>2. IsFiniteSet(Regs(g) \ {s}) /\ Cardinality(Regs(g) \ {s}) = Cardinality(Regs(g)) - 1
            BY <4>2, <6>1, FS_RemoveElement
          <6> QED
            BY <4>2, <6>1, <6>2, FS_CardinalityType
        <5>2. \A n \in Nat, k \in Nat : n * (k + 1) = n * k + n
          OBVIOUS
        <5>3. Cardinality(Regs(g)) = Cardinality(Regs(g)') + 1
          BY <5>1
        <5> QED
          BY <1>1, <5>1, <5>2, <5>3
      <4>4. RulesOn(b)' = RulesOn(b) \cup own /\ RulesOn(b) \cap own = {}
        BY <1>2, <2>2, <2>3, <2>5, <2>7, <2>8, <3>2 DEF RulesOn, AssetOf
      <4>5. Cardinality(RulesOn(b)') = Cardinality(RulesOn(b)) + N /\ Cardinality(RulesOn(b)) \in Nat
        <5>1. IsFiniteSet(RulesOn(b)) /\ Cardinality(RulesOn(b)) \in Nat
          BY FS_Subset, FS_CardinalityType DEF RulesOn, IInv, RunInv
        <5>2. IsFiniteSet(own) /\ Cardinality(own) = N
          BY OwnRules
        <5>3. Cardinality(RulesOn(b) \cup own) =
                Cardinality(RulesOn(b)) + Cardinality(own) - Cardinality(RulesOn(b) \cap own)
          BY <5>1, <5>2, FS_Union
        <5>4. Cardinality(RulesOn(b) \cap own) = 0
          BY <4>4, FS_EmptySet
        <5>5. Cardinality(RulesOn(b)') = Cardinality(RulesOn(b) \cup own)
          BY <4>4
        <5> QED
          BY <1>1, <5>1, <5>2, <5>3, <5>4, <5>5
      <4>6. PICK k \in Nat : k = N * Cardinality(Regs(g)')
        <5>1. Cardinality(Regs(g)') \in Nat
          BY <4>2, RegsCount, FS_RemoveElement, FS_CardinalityType
        <5> QED
          BY <1>1, <5>1
      <4> QED
        BY <1>1, <3>1, <4>3, <4>5, <4>6
    <3>3. CASE b # a
      <4>1. g # f
        BY <1>1, <1>6, <3>3 DEF IInv, ConnInv
      <4>2. Regs(g)' = Regs(g)
        BY <1>1, <1>3, <2>5, <2>7, <4>1 DEF Regs, At
      <4>3. RulesOn(b)' = RulesOn(b)
        BY <2>2, <2>3, <2>5, <2>7, <2>8, <3>3 DEF RulesOn, AssetOf
      <4> QED
        BY <3>1, <4>2, <4>3
    <3> QED
      BY <3>2, <3>3
  <2> QED
    BY <1>4, <2>7, <2>9, <2>10, <2>11, <2>12, <2>13, <2>14, <2>15 DEF IInv
<1> QED
  BY <1>5, <1>6

-----------------------------------------------------------------------------
(* The theorems *)

\* A step that leaves the manager alone but for closed listeners and deleted assets.
LEMMA StutterKeeps ==
  ASSUME IInv, TypeOK', UNCHANGED <<clients, conn, dialing, call, running, lock, start, outrun>>,
         \A a \in Asset : assets'[a] = assets[a] \/ assets'[a] # "closed"
  PROVE  IInv'
<1>1. ConnInv' /\ StartInv' /\ LockInv' /\ DialInv'
  BY DEF IInv, ConnInv, NoClientLost, StartInv, StartOK, LockInv, DialInv
<1>2. RunInv' /\ ClosedInv'
  BY DEF IInv, RunInv, AssetOf, ClosedInv, At
<1>3. RefInv'
  BY DEF IInv, RefInv, RulesOn, AssetOf, Regs, At
<1> QED
  BY <1>1, <1>2, <1>3 DEF IInv

\* The service's and the asset's own steps.
LEMMA ServiceKeeps ==
  ASSUME IInv, NEW c \in Config, Service(c)
  PROVE  IInv'
<1>1. TypeOK
  BY DEF IInv
<1>2. UpdateStops(c) \/ DeleteStops(c) \/ UserStop(c) => IInv'
  BY StopKeeps DEF UpdateStops, DeleteStops, UserStop, stored
<1>3. UpdateBegins(c) => IInv'
  <2> SUFFICES ASSUME UpdateBegins(c)
               PROVE  IInv'
    OBVIOUS
  <2>1. UNCHANGED <<row, assets, clients, conn, dialing, call, running, rules, lock, start, outrun>>
    BY DEF UpdateBegins, manager
  <2>2. TypeOK'
    BY <1>1, <2>1 DEF TypeOK
  <2> QED
    BY <2>1, <2>2, StutterKeeps
<1>4. UpdateWrites(c) \/ DeleteConfig(c) => IInv'
  <2> SUFFICES ASSUME UpdateWrites(c) \/ DeleteConfig(c)
               PROVE  IInv'
    OBVIOUS
  <2>1. UNCHANGED <<assets, clients, conn, dialing, call, running, rules, lock, start, outrun>>
    BY DEF UpdateWrites, DeleteConfig, manager
  <2>2. row[c] \in Row
    BY <1>1 DEF TypeOK
  <2>3. row' \in [Config -> Row]
    <3>1. CASE row' = row
      BY <1>1, <3>1 DEF TypeOK
    <3>2. ASSUME NEW a \in Asset, row' = [row EXCEPT ![c].asset = a, ![c].version = @ + 1]
          PROVE  row' \in [Config -> Row]
      <4>1. row[c].version + 1 \in Nat
        BY <2>2 DEF Row
      <4>2. [row[c] EXCEPT !.asset = a, !.version = row[c].version + 1] \in Row
        BY <2>2, <4>1 DEF Row
      <4>3. row' = [row EXCEPT ![c] = [row[c] EXCEPT !.asset = a, !.version = row[c].version + 1]]
        BY <3>2
      <4> QED
        BY <1>1, <4>2, <4>3 DEF TypeOK
    <3>3. CASE row' = [row EXCEPT ![c].kept = FALSE]
      <4>1. \A b \in BOOLEAN : [row[c] EXCEPT !.kept = b] \in Row
        BY <2>2 DEF Row
      <4>2. [row[c] EXCEPT !.kept = FALSE] \in Row
        BY <4>1, Zenon
      <4> QED
        BY <1>1, <3>3, <4>2 DEF TypeOK
    <3> QED
      BY <3>1, <3>2, <3>3 DEF UpdateWrites, DeleteConfig
  <2>4. TypeOK'
    BY <1>1, <2>1, <2>3 DEF TypeOK
  <2> QED
    BY <2>1, <2>4, StutterKeeps
<1>5. UpdateRestarts(c) => IInv'
  <2> SUFFICES ASSUME UpdateRestarts(c)
               PROVE  IInv'
    OBVIOUS
  <2>1. UNCHANGED <<row, assets, clients, conn, dialing, call, running, rules, lock, outrun>>
    BY DEF UpdateRestarts
  <2>2. CASE UNCHANGED start
    <3>1. TypeOK'
      BY <1>1, <2>1, <2>2 DEF TypeOK
    <3> QED
      BY <2>1, <2>2, <3>1, StutterKeeps
  <2>3. CASE \E s \in Start :
          /\ ConfigOf[s] = c /\ At(s, "new")
          /\ start' = [start EXCEPT ![s].pc = "lock", ![s].asset = row[c].asset, ![s].version = row[c].version]
    BY <2>1, <2>3, ReadKeeps
  <2> QED
    BY <2>2, <2>3 DEF UpdateRestarts
<1> QED
  BY <1>2, <1>3, <1>4, <1>5 DEF Service

\* The manager and its service start with empty tables, and every step keeps the
\* invariant: m.clients and m.dialing agree with where the starts are, whoever is past a
\* configuration's lock holds it, and the references of an asset's connection are its
\* registered rules and those about to be.
THEOREM Invariance == Spec => []IInv
<1>1. Init => IInv
  <2> SUFFICES ASSUME Init
               PROVE  IInv
    OBVIOUS
  <2>1. NewStart \in StartState /\ NewStart.pc = "new" /\ NoCall \in CallState
    <3>1. 1 \in 1..N+1 /\ 0 \in Nat
      BY ForwardConstants
    <3> QED
      BY <3>1 DEF NewStart, NoCall, StartState, StartPC, CallState
  <2>2. conn \in [Start -> ConnState] /\ \A s \in Start : ~conn[s].up
    BY DEF Init, ConnState
  <2>3. row \in [Config -> Row]
    <3>1. [asset: Asset, version: {0}, kept: {TRUE}] \subseteq Row
      <4>1. {0} \subseteq Nat /\ {TRUE} \subseteq BOOLEAN
        OBVIOUS
      <4> QED
        BY <4>1, Zenon DEF Row
    <3> QED
      BY <3>1 DEF Init
  <2>4. \A s \in Start : start[s].pc = "new"
    BY <2>1 DEF Init
  <2>5. TypeOK
    BY <2>1, <2>2, <2>3 DEF Init, TypeOK
  <2>6. ConnInv /\ StartInv /\ LockInv /\ DialInv
    BY <2>2, <2>4 DEF Init, ConnInv, NoClientLost, StartInv, StartOK, LockInv, DialInv, Past
  <2>7. RunInv
    BY FS_EmptySet DEF Init, RunInv
  <2>8. ClosedInv /\ RefInv
    BY DEF Init, ClosedInv, RefInv
  <2> QED
    BY <2>5, <2>6, <2>7, <2>8 DEF IInv, Init
<1>2. IInv /\ [Next]_vars => IInv'
  <2> SUFFICES ASSUME IInv, [Next]_vars
               PROVE  IInv'
    OBVIOUS
  <2>1. TypeOK
    BY DEF IInv
  <2>2. ASSUME NEW s \in Start, StartConfig(s) \/ Cancel(s)
        PROVE  IInv'
    BY <2>2, ReadConfigKeeps, LockAndStopKeeps, AcquireKeeps, WaitKeeps, DialFailsKeeps, LookUpKeeps,
       ConnectedKeeps, RegisterKeeps, ListenKeeps DEF StartConfig
  <2>3. ASSUME NEW x \in Start \X Rule, CloseListener(x)
        PROVE  IInv'
    <3>1. UNCHANGED <<row, assets, clients, conn, dialing, call, running, lock, start, outrun>>
      BY <2>3 DEF CloseListener, stored
    <3>2. TypeOK'
      BY <2>1, <2>3, <3>1 DEF CloseListener, TypeOK
    <3> QED
      BY <3>1, <3>2, StutterKeeps
  <2>4. ASSUME NEW a \in Asset, DeleteAsset(a)
        PROVE  IInv'
    <3>1. UNCHANGED <<row, clients, conn, dialing, call, running, rules, lock, start, outrun>>
      BY <2>4 DEF DeleteAsset
    <3>2. TypeOK'
      BY <2>1, <2>4, <3>1 DEF DeleteAsset, TypeOK
    <3>3. \A b \in Asset : assets'[b] = assets[b] \/ assets'[b] # "closed"
      BY <2>1, <2>4 DEF DeleteAsset, TypeOK
    <3> QED
      BY <3>1, <3>2, <3>3, StutterKeeps
  <2>5. CASE UNCHANGED vars
    <3>1. TypeOK'
      BY <2>1, <2>5 DEF TypeOK, vars
    <3> QED
      BY <2>5, <3>1, StutterKeeps DEF vars
  <2> QED
    BY <2>2, <2>3, <2>4, <2>5, ServiceKeeps, CloseAssetKeeps DEF Next
<1> QED
  BY <1>1, <1>2, PTL DEF Spec

\* The state keeps the shape of the structs of forward_manager.go.
THEOREM TypeCorrect == Spec => []TypeOK
<1>1. IInv => TypeOK
  BY DEF IInv
<1> QED
  BY <1>1, Invariance, PTL

\* The references of an asset's connection are its registered rules and those about to
\* be, and a registered rule runs on that connection, which is open.
THEOREM ReferencesExact == Spec => []RefsExact
<1>1. IInv => RefsExact
  <2> SUFFICES ASSUME IInv
               PROVE  RefsExact
    OBVIOUS
  <2>1. \A x \in running : clients[AssetOf(x)] = start[x[1]].fc /\ ~conn[start[x[1]].fc].shut
    BY ForwardConstants DEF IInv, RunInv, ConnInv
  <2> QED
    BY <2>1 DEF RefsExact, IInv, RefInv, Regs
<1> QED
  BY <1>1, Invariance, PTL

\* A connection that was dialled is in the table or closed.
THEOREM NothingLeftOpen == Spec => []NoClientLost
<1>1. IInv => NoClientLost
  BY DEF IInv, ConnInv
<1> QED
  BY <1>1, Invariance, PTL

\* After an asset was deleted and closed nothing connects to it again.
THEOREM ClosedForGood == Spec => []DeletedStaysClosed
<1>1. IInv => DeletedStaysClosed
  BY ForwardConstants DEF IInv, DeletedStaysClosed, ClosedInv, RunInv, RulesOn
<1> QED
  BY <1>1, Invariance, PTL

\* A stop that comes during a start of the same configuration wins.
THEOREM StopPrevails == Spec => []StopWins
<1>1. IInv => StopWins
  BY DEF IInv, StopWins
<1> QED
  BY <1>1, Invariance, PTL
=============================================================================

---------------------------- MODULE SSHPoolProofs ----------------------------
(***************************************************************************)
(* Proofs about the SSH connection pool, for any number of assets,         *)
(* connections and callers and whatever removes connections.               *)
(***************************************************************************)
EXTENDS SSHPool, FiniteSetTheorems, TLAPS

-----------------------------------------------------------------------------
(* The inductive invariant *)

\* What a caller works on: its own asset, and from the lookup on an entry of that
\* asset.  An entry it is about to close is out of the pool.
CallerOK(g) ==
  /\ caller[g].pc # "out" => caller[g].asset \in Asset
  /\ caller[g].pc \in {"probe", "await", "acquire", "unlink", "close", "shut", "again", "hold"} =>
       caller[g].conn \in Conn /\ entry[caller[g].conn].asset = caller[g].asset
  /\ caller[g].pc = "release" /\ caller[g].conn # NoConn =>
       entry[caller[g].conn].asset = caller[g].asset
  /\ caller[g].pc \in {"close", "shut"} => \A a \in Asset : slot[a] # caller[g].conn
  /\ caller[g].pc = "shut" => entry[caller[g].conn].retired

CallerInv == \A g \in Caller : CallerOK(g)

\* An entry is pooled for its own asset.
SlotInv == \A a \in Asset : slot[a] # NoConn => entry[slot[a]].asset = a

\* closeConn runs on retired entries only.
ShutInv == \A c \in Conn : entry[c].shut => entry[c].retired

\* While a flight dials there is no usable entry, and its waiters wait for its asset.
FlightOK(a) ==
  /\ flight[a].dialling => ~Usable(a)
  /\ \A g \in flight[a].waiters : caller[g].pc = "wait" /\ caller[g].asset = a

FlightInv == \A a \in Asset : FlightOK(a)

SaverInv ==
  /\ saver.pc = "remove" => saver.asset \in Asset
  /\ saver.pc = "close" => saver.conn \in Conn /\ Dialled(saver.conn) /\ \A a \in Asset : slot[a] # saver.conn

SweeperInv ==
  /\ \A c \in sweeper.todo : Dialled(c)
  /\ \A c \in sweeper.idle : Dialled(c) /\ entry[c].retired

CloserInv == \A c \in closer.todo : Dialled(c) /\ \A a \in Asset : slot[a] # c

\* The inductive invariant behind the pool's safety.
IInv ==
  /\ TypeOK /\ CallerInv /\ SlotInv /\ ShutInv /\ FlightInv
  /\ SaverInv /\ SweeperInv /\ CloserInv /\ OwnContextOnly

-----------------------------------------------------------------------------
(* Steps that dial nothing *)

\* What every step but the storing of a dialled entry does: entries leave the pool, are
\* retired and shut down, and that is never undone.
Mono ==
  /\ \A a \in Asset : slot'[a] = slot[a] \/ slot'[a] = NoConn
  /\ \A c \in Conn : entry'[c].asset = entry[c].asset /\ (entry[c].retired => entry'[c].retired)

\* Such a step keeps every part of the invariant whose own variables it leaves alone.
LEMMA MonoFacts ==
  ASSUME IInv, Mono
  PROVE  /\ SlotInv'
         /\ \A g \in Caller : caller'[g] = caller[g] => CallerOK(g)'
         /\ \A a \in Asset : Usable(a)' => Usable(a)
         /\ \A a \in Asset : flight'[a] = flight[a] /\ (\A g \in flight[a].waiters : caller'[g] = caller[g])
              => FlightOK(a)'
         /\ UNCHANGED saver => SaverInv'
         /\ UNCHANGED sweeper => SweeperInv'
         /\ UNCHANGED closer => CloserInv'
<1>1. slot \in [Asset -> Conn \cup {NoConn}] /\ NoConn \notin Conn
  BY PoolConstants DEF IInv, TypeOK
<1>2. SlotInv'
  BY <1>1 DEF IInv, SlotInv, Mono
<1>3. \A g \in Caller : caller'[g] = caller[g] => CallerOK(g)'
  <2> SUFFICES ASSUME NEW g \in Caller, caller'[g] = caller[g]
               PROVE  CallerOK(g)'
    OBVIOUS
  <2>1. CallerOK(g) /\ caller[g] \in CallerState
    BY DEF IInv, CallerInv, TypeOK
  <2>2. caller[g].conn \in Conn \cup {NoConn}
    BY <2>1 DEF CallerState
  <2> QED
    BY <1>1, <2>1, <2>2 DEF CallerOK, Mono
<1>4. \A a \in Asset : Usable(a)' => Usable(a)
  BY <1>1 DEF Usable, Mono
<1>5. \A a \in Asset : flight'[a] = flight[a] /\ (\A g \in flight[a].waiters : caller'[g] = caller[g])
         => FlightOK(a)'
  BY <1>4 DEF IInv, FlightInv, FlightOK
<1>6. UNCHANGED saver => SaverInv'
  BY <1>1 DEF IInv, SaverInv, Mono, Dialled
<1>7. UNCHANGED sweeper => SweeperInv'
  <2> SUFFICES ASSUME UNCHANGED sweeper
               PROVE  SweeperInv'
    OBVIOUS
  <2>1. sweeper.todo \subseteq Conn /\ sweeper.idle \subseteq Conn
    BY DEF IInv, TypeOK
  <2> QED
    BY <2>1 DEF IInv, SweeperInv, Mono, Dialled
<1>8. UNCHANGED closer => CloserInv'
  <2> SUFFICES ASSUME UNCHANGED closer
               PROVE  CloserInv'
    OBVIOUS
  <2>1. closer.todo \subseteq Conn
    BY DEF IInv, TypeOK
  <2> QED
    BY <1>1, <2>1 DEF IInv, CloserInv, Mono, Dialled
<1> QED
  BY <1>2, <1>3, <1>4, <1>5, <1>6, <1>7, <1>8

\* A step of one caller that is in no flight before and after it, and changes neither the
\* pool nor its entries.
LEMMA CallerOnly ==
  ASSUME IInv, NEW g \in Caller, NEW r \in CallerState,
         caller' = [caller EXCEPT ![g] = r],
         UNCHANGED <<slot, entry, flight, saver, sweeper, closer, saves>>,
         caller[g].pc # "wait",
         r.pc # "out" => r.asset \in Asset,
         r.pc \in {"probe", "await", "acquire", "unlink", "again", "hold"} =>
           r.conn \in Conn /\ entry[r.conn].asset = r.asset,
         r.pc = "release" /\ r.conn # NoConn => entry[r.conn].asset = r.asset,
         r.pc \notin {"close", "shut"},
         r.res = "ctxErr" => r.canceled
  PROVE  IInv'
<1>1. TypeOK /\ Mono
  BY DEF IInv, Mono
<1>2. caller'[g] = r /\ \A h \in Caller : h # g => caller'[h] = caller[h]
  BY <1>1 DEF TypeOK
<1>3. TypeOK'
  BY <1>1 DEF TypeOK
<1>4. CallerInv'
  <2>1. CallerOK(g)'
    BY <1>2 DEF CallerOK
  <2> QED
    BY <1>1, <1>2, <2>1, MonoFacts DEF CallerInv
<1>5. FlightInv'
  <2>1. \A a \in Asset : g \notin flight[a].waiters
    BY DEF IInv, FlightInv, FlightOK
  <2>2. \A a \in Asset : \A h \in flight[a].waiters : h \in Caller
    BY <1>1 DEF TypeOK, Flight
  <2> QED
    BY <1>1, <1>2, <2>1, <2>2, MonoFacts DEF FlightInv
<1>6. OwnContextOnly'
  BY <1>2 DEF IInv, OwnContextOnly
<1>7. ShutInv'
  BY DEF IInv, ShutInv
<1> QED
  BY <1>1, <1>3, <1>4, <1>5, <1>6, <1>7, MonoFacts DEF IInv

\* Get begins and looks the entry up, and Release looks it up again.
LEMMA LookupKeeps ==
  ASSUME IInv, NEW g \in Caller, Lookup(g) \/ Release(g) \/ \E a \in Asset : Get(g, a)
  PROVE  IInv'
<1>1. caller[g] \in CallerState /\ CallerOK(g) /\ (caller[g].res = "ctxErr" => caller[g].canceled)
  BY DEF IInv, TypeOK, CallerInv, OwnContextOnly
<1>2. CASE Lookup(g)
  <2>1. PICK c \in Conn \cup {NoConn} : c = slot[caller[g].asset]
    BY <1>1, <1>2 DEF Lookup, At, CallerOK, IInv, TypeOK
  <2>2. PICK r : r = [caller[g] EXCEPT !.pc = IF c = NoConn THEN "join" ELSE "probe", !.conn = c]
    OBVIOUS
  <2>3. /\ r \in CallerState /\ r.asset = caller[g].asset /\ r.conn = c /\ r.res = caller[g].res
        /\ r.canceled = caller[g].canceled /\ r.pc = IF c = NoConn THEN "join" ELSE "probe"
    BY <1>1, <2>2 DEF CallerState, CallerPC
  <2>4. caller' = [caller EXCEPT ![g] = r]
    BY <1>2, <2>1, <2>2 DEF Lookup, IInv, TypeOK
  <2>5. caller[g].asset \in Asset /\ caller[g].pc # "wait" /\ (c # NoConn => entry[c].asset = caller[g].asset)
    BY <1>1, <1>2, <2>1 DEF Lookup, At, CallerOK, IInv, SlotInv
  <2>6. r.pc \in {"join", "probe"} /\ (r.pc = "probe" => r.conn \in Conn /\ entry[r.conn].asset = r.asset)
    BY <2>3, <2>5
  <2>7. UNCHANGED <<slot, entry, flight, saver, sweeper, closer, saves>>
    BY <1>2 DEF Lookup
  <2> QED
    BY <1>1, <2>3, <2>4, <2>5, <2>6, <2>7, CallerOnly
<1>3. CASE Release(g)
  <2>1. PICK c \in Conn \cup {NoConn} : c = slot[caller[g].asset]
    BY <1>1, <1>3 DEF Release, At, CallerOK, IInv, TypeOK
  <2>2. PICK r : r = [caller[g] EXCEPT !.pc = "release", !.conn = c]
    OBVIOUS
  <2>3. /\ r \in CallerState /\ r.asset = caller[g].asset /\ r.conn = c /\ r.res = caller[g].res
        /\ r.canceled = caller[g].canceled /\ r.pc = "release"
    BY <1>1, <2>2 DEF CallerState, CallerPC
  <2>4. caller' = [caller EXCEPT ![g] = r]
    BY <1>3, <2>1, <2>2 DEF Release, IInv, TypeOK
  <2>5. caller[g].asset \in Asset /\ caller[g].pc # "wait" /\ (c # NoConn => entry[c].asset = caller[g].asset)
    BY <1>1, <1>3, <2>1 DEF Release, At, CallerOK, IInv, SlotInv
  <2> QED
    BY <1>1, <1>3, <2>3, <2>4, <2>5, CallerOnly DEF Release
<1>4. ASSUME NEW a \in Asset, Get(g, a)
      PROVE  IInv'
  <2>1. PICK r : r = [Outside EXCEPT !.pc = "top", !.asset = a]
    OBVIOUS
  <2>2. r \in CallerState /\ r.pc = "top" /\ r.asset = a /\ r.res = "none"
    BY <2>1 DEF CallerState, CallerPC, Result, Outside
  <2> QED
    BY <1>4, <2>1, <2>2, CallerOnly DEF Get, At
<1> QED
  BY <1>2, <1>3, <1>4

\* The probe, and what follows from its answer.
LEMMA ProbeKeeps ==
  ASSUME IInv, NEW g \in Caller, ProbeStart(g) \/ ProbeAlive(g) \/ ProbeDead(g)
  PROVE  IInv'
<1>1. caller[g] \in CallerState /\ CallerOK(g) /\ (caller[g].res = "ctxErr" => caller[g].canceled)
  BY DEF IInv, TypeOK, CallerInv, OwnContextOnly
<1>2. PICK p \in {"unlink", "await", "acquire"} : Goto(g, p)
  BY DEF ProbeStart, ProbeAlive, ProbeDead
<1>3. PICK r : r = [caller[g] EXCEPT !.pc = p]
  OBVIOUS
<1>4. /\ r \in CallerState /\ r.asset = caller[g].asset /\ r.conn = caller[g].conn /\ r.res = caller[g].res
      /\ r.canceled = caller[g].canceled /\ r.pc = p
  BY <1>1, <1>3 DEF CallerState, CallerPC
<1>5. caller' = [caller EXCEPT ![g] = r]
  BY <1>2, <1>3 DEF Goto, IInv, TypeOK
<1>6. caller[g].pc \in {"probe", "await"}
  BY DEF ProbeStart, ProbeAlive, ProbeDead, At
<1>7. UNCHANGED <<slot, entry, flight, saver, sweeper, closer, saves>>
  BY DEF ProbeStart, ProbeAlive, ProbeDead
<1> QED
  BY <1>1, <1>4, <1>5, <1>6, <1>7, CallerOnly DEF CallerOK

-----------------------------------------------------------------------------
(* Steps on entries *)

\* A step of one caller, in no flight before and after it, that takes entries out of the
\* pool, retires or shuts some down.
LEMMA CallerEntry ==
  ASSUME IInv, NEW g \in Caller, NEW r \in CallerState,
         caller' = [caller EXCEPT ![g] = r],
         slot' \in [Asset -> Conn \cup {NoConn}], entry' \in [Conn -> Entry], Mono, ShutInv',
         UNCHANGED <<flight, saver, sweeper, closer, saves>>,
         caller[g].pc # "wait",
         CallerOK(g)',
         r.res = "ctxErr" => r.canceled
  PROVE  IInv'
<1>1. TypeOK
  BY DEF IInv
<1>2. caller'[g] = r /\ \A h \in Caller : h # g => caller'[h] = caller[h]
  BY <1>1 DEF TypeOK
<1>3. TypeOK'
  BY <1>1 DEF TypeOK
<1>4. CallerInv'
  BY <1>2, MonoFacts DEF CallerInv
<1>5. FlightInv'
  <2>1. \A a \in Asset : g \notin flight[a].waiters
    BY DEF IInv, FlightInv, FlightOK
  <2>2. \A a \in Asset : \A h \in flight[a].waiters : h \in Caller
    BY <1>1 DEF TypeOK, Flight
  <2> QED
    BY <1>2, <2>1, <2>2, MonoFacts DEF FlightInv
<1>6. OwnContextOnly'
  BY <1>2 DEF IInv, OwnContextOnly
<1> QED
  BY <1>3, <1>4, <1>5, <1>6, MonoFacts DEF IInv

\* Taking an entry out of the pool.
LEMMA WithoutFacts ==
  ASSUME IInv, NEW c \in Conn
  PROVE  /\ Without(c) \in [Asset -> Conn \cup {NoConn}]
         /\ \A a \in Asset : Without(c)[a] # c /\ (Without(c)[a] = slot[a] \/ Without(c)[a] = NoConn)
  BY PoolConstants DEF Without, IInv, TypeOK

\* Retiring an entry and shutting it down.
LEMMA EntryFacts ==
  ASSUME IInv, NEW c \in Conn
  PROVE  /\ Closed(c) \in [Conn -> Entry] /\ ShutDown(c) \in [Conn -> Entry] /\ Retired(c) \in [Conn -> Entry]
         /\ \A d \in Conn : d # c => Closed(c)[d] = entry[d] /\ ShutDown(c)[d] = entry[d] /\ Retired(c)[d] = entry[d]
         /\ Closed(c)[c].asset = entry[c].asset /\ Closed(c)[c].retired /\ Closed(c)[c].shut
         /\ ShutDown(c)[c].asset = entry[c].asset /\ ShutDown(c)[c].retired = entry[c].retired /\ ShutDown(c)[c].shut
         /\ Retired(c)[c].asset = entry[c].asset /\ Retired(c)[c].retired /\ Retired(c)[c].shut = entry[c].shut
         /\ Closed(c)[c].refs = entry[c].refs /\ ShutDown(c)[c].refs = entry[c].refs /\ Retired(c)[c].refs = entry[c].refs
<1>1. entry \in [Conn -> Entry] /\ entry[c] \in Entry
  BY DEF IInv, TypeOK
<1> QED
  BY <1>1 DEF Entry, Closed, ShutDown, Retired

\* Retiring an entry, and shutting down a retired one, is never undone.
LEMMA EndFacts ==
  ASSUME IInv, NEW c \in Conn, \A a \in Asset : slot'[a] = slot[a] \/ slot'[a] = NoConn,
         \/ entry' = Closed(c)
         \/ entry' = Retired(c)
         \/ entry' = ShutDown(c) /\ entry[c].retired
  PROVE  entry' \in [Conn -> Entry] /\ Mono /\ ShutInv'
<1>1. entry' \in [Conn -> Entry]
  BY EntryFacts
<1>2. \A d \in Conn : d # c => entry'[d] = entry[d]
  BY DEF Closed, Retired, ShutDown, IInv, TypeOK
<1>3. entry'[c].asset = entry[c].asset /\ entry'[c].retired
  BY EntryFacts
<1>4. Mono
  BY <1>2, <1>3 DEF Mono
<1>5. ShutInv'
  BY <1>2, <1>3 DEF ShutInv, IInv
<1> QED
  BY <1>1, <1>4, <1>5

\* Return leaves nothing but the result and whether the context has ended.
LEMMA ReturnFacts ==
  ASSUME IInv, NEW g \in Caller, NEW res \in Result, Return(g, res)
  PROVE  \E r \in CallerState :
           /\ caller' = [caller EXCEPT ![g] = r]
           /\ r.pc = "out" /\ r.conn = NoConn /\ r.asset = NoAsset /\ r.res = res
           /\ r.canceled = caller[g].canceled
<1>1. PICK r : r = [Outside EXCEPT !.canceled = caller[g].canceled, !.res = res]
  OBVIOUS
<1>2. caller[g].canceled \in BOOLEAN
  BY DEF IInv, TypeOK, CallerState
<1>3. r \in CallerState
  BY <1>1, <1>2 DEF Outside, CallerState, CallerPC
<1> QED
  BY <1>1, <1>2, <1>3 DEF Return, Outside

\* tryAcquire, after a probe or on a freshly dialled entry.
LEMMA TryAcquireKeeps ==
  ASSUME IInv, NEW g \in Caller, TryAcquire(g)
  PROVE  IInv'
<1>1. caller[g] \in CallerState /\ CallerOK(g) /\ (caller[g].res = "ctxErr" => caller[g].canceled)
  BY DEF IInv, TypeOK, CallerInv, OwnContextOnly
<1>2. PICK c \in Conn : c = caller[g].conn
  BY <1>1 DEF TryAcquire, At, CallerOK
<1>3. caller[g].pc \in {"acquire", "again"} /\ caller[g].asset \in Asset /\ entry[c].asset = caller[g].asset
  BY <1>1, <1>2 DEF TryAcquire, At, CallerOK
<1>4. CASE entry[c].retired
  <2>1. PICK p \in {"join", "top"} : Goto(g, p)
    BY <1>2, <1>4 DEF TryAcquire
  <2>2. PICK r : r = [caller[g] EXCEPT !.pc = p]
    OBVIOUS
  <2>3. /\ r \in CallerState /\ r.asset = caller[g].asset /\ r.conn = c /\ r.res = caller[g].res
        /\ r.canceled = caller[g].canceled /\ r.pc = p
    BY <1>1, <1>2, <2>2 DEF CallerState, CallerPC
  <2>4. caller' = [caller EXCEPT ![g] = r]
    BY <2>1, <2>2 DEF Goto, IInv, TypeOK
  <2>5. UNCHANGED <<slot, entry, flight, saver, sweeper, closer, saves>>
    BY <1>2, <1>4 DEF TryAcquire
  <2> QED
    BY <1>1, <1>3, <2>3, <2>4, <2>5, CallerOnly
<1>5. CASE ~entry[c].retired
  <2>1. PICK r : r = [caller[g] EXCEPT !.pc = "hold", !.res = "client"]
    OBVIOUS
  <2>2. /\ r \in CallerState /\ r.asset = caller[g].asset /\ r.conn = c /\ r.res = "client" /\ r.pc = "hold"
    BY <1>1, <1>2, <2>1 DEF CallerState, CallerPC, Result
  <2>3. caller' = [caller EXCEPT ![g] = r]
    BY <1>2, <1>5, <2>1 DEF TryAcquire, IInv, TypeOK
  <2>4. /\ entry' \in [Conn -> Entry]
        /\ \A d \in Conn : entry'[d].asset = entry[d].asset /\ entry'[d].retired = entry[d].retired
                           /\ entry'[d].shut = entry[d].shut
    BY <1>2, <1>5 DEF TryAcquire, IInv, TypeOK, Entry
  <2>5. slot' = slot /\ UNCHANGED <<flight, saver, sweeper, closer, saves>>
    BY DEF TryAcquire
  <2>6. Mono /\ ShutInv'
    BY <2>4, <2>5 DEF Mono, IInv, ShutInv
  <2>7. caller'[g] = r
    BY <2>3 DEF IInv, TypeOK
  <2>8. CallerOK(g)'
    BY <1>3, <2>2, <2>4, <2>7 DEF CallerOK
  <2>9. slot' \in [Asset -> Conn \cup {NoConn}] /\ caller[g].pc # "wait"
    BY <1>3, <2>5 DEF IInv, TypeOK
  <2> QED
    BY <2>2, <2>3, <2>4, <2>5, <2>6, <2>8, <2>9, CallerEntry
<1> QED
  BY <1>4, <1>5

\* removeEntry: out of the pool, then closed.
LEMMA RemoveEntryKeeps ==
  ASSUME IInv, NEW g \in Caller, RemoveEntry(g) \/ RemovedClose(g)
  PROVE  IInv'
<1>1. caller[g] \in CallerState /\ CallerOK(g) /\ (caller[g].res = "ctxErr" => caller[g].canceled)
  BY DEF IInv, TypeOK, CallerInv, OwnContextOnly
<1>2. PICK c \in Conn : c = caller[g].conn
  BY <1>1 DEF RemoveEntry, RemovedClose, At, CallerOK
<1>3. caller[g].pc \in {"unlink", "close"} /\ caller[g].asset \in Asset /\ entry[c].asset = caller[g].asset
  BY <1>1, <1>2 DEF RemoveEntry, RemovedClose, At, CallerOK
<1>4. PICK p \in {"close", "join"} : Goto(g, p) /\ (p = "close" => RemoveEntry(g))
  BY DEF RemoveEntry, RemovedClose
<1>5. PICK r : r = [caller[g] EXCEPT !.pc = p]
  OBVIOUS
<1>6. /\ r \in CallerState /\ r.asset = caller[g].asset /\ r.conn = c /\ r.res = caller[g].res
      /\ r.canceled = caller[g].canceled /\ r.pc = p
  BY <1>1, <1>2, <1>5 DEF CallerState, CallerPC
<1>7. caller' = [caller EXCEPT ![g] = r] /\ caller'[g] = r
  BY <1>4, <1>5 DEF Goto, IInv, TypeOK
<1>8. UNCHANGED <<flight, saver, sweeper, closer, saves>>
  BY DEF RemoveEntry, RemovedClose
<1>9. /\ slot' \in [Asset -> Conn \cup {NoConn}] /\ entry' \in [Conn -> Entry] /\ Mono /\ ShutInv'
      /\ p = "close" => \A a \in Asset : slot'[a] # c
  <2>1. CASE RemoveEntry(g)
    <3>1. slot' = Without(c) /\ entry' = entry
      BY <1>2, <2>1 DEF RemoveEntry
    <3> QED
      BY <3>1, WithoutFacts DEF Mono, IInv, ShutInv, TypeOK
  <2>2. CASE RemovedClose(g)
    <3>1. entry' = Closed(c) /\ slot' = slot /\ p # "close"
      BY <1>2, <1>4, <2>2 DEF RemovedClose, RemoveEntry, At
    <3> QED
      BY <3>1, EndFacts DEF IInv, TypeOK
  <2> QED
    BY <2>1, <2>2
<1>10. CallerOK(g)'
  BY <1>3, <1>6, <1>7, <1>9 DEF CallerOK, Mono
<1> QED
  BY <1>1, <1>3, <1>6, <1>7, <1>8, <1>9, <1>10, CallerEntry

\* Release takes off its reference, ReleaseRefused takes its reference off and may retire
\* the entry, and shuts it down then.
LEMMA ReleaseKeeps ==
  ASSUME IInv, NEW g \in Caller, Released(g) \/ RefusedShut(g)
  PROVE  IInv'
<1>1. caller[g] \in CallerState /\ CallerOK(g)
  BY DEF IInv, TypeOK, CallerInv
<1>2. Return(g, "none") /\ caller[g].pc \in {"release", "shut"} /\ slot' = slot
      /\ UNCHANGED <<flight, saver, sweeper, closer, saves>>
  BY DEF Released, RefusedShut, At
<1>3. PICK r \in CallerState : /\ caller' = [caller EXCEPT ![g] = r]
                               /\ r.pc = "out" /\ r.conn = NoConn /\ r.res = "none"
  BY <1>2, ReturnFacts DEF Result
<1>4. entry' \in [Conn -> Entry] /\ Mono /\ ShutInv'
  <2>1. CASE Released(g) /\ caller[g].conn = NoConn
    BY <1>2, <2>1 DEF Released, Mono, IInv, TypeOK, ShutInv
  <2>2. CASE Released(g) /\ caller[g].conn # NoConn
    <3>1. PICK c \in Conn : c = caller[g].conn
      BY <1>1, <2>2 DEF CallerState
    <3>2. /\ entry' \in [Conn -> Entry]
          /\ \A d \in Conn : entry'[d].asset = entry[d].asset /\ entry'[d].retired = entry[d].retired
                             /\ entry'[d].shut = entry[d].shut
      BY <2>2, <3>1 DEF Released, IInv, TypeOK, Entry
    <3> QED
      BY <1>2, <3>2 DEF Mono, ShutInv, IInv
  <2>3. CASE RefusedShut(g)
    <3>1. PICK c \in Conn : c = caller[g].conn /\ entry[c].retired
      BY <1>1, <2>3 DEF RefusedShut, At, CallerOK
    <3> QED
      BY <1>2, <2>3, <3>1, EndFacts DEF RefusedShut
  <2> QED
    BY <2>1, <2>2, <2>3
<1>5. caller'[g] = r
  BY <1>3 DEF IInv, TypeOK
<1>6. CallerOK(g)'
  BY <1>3, <1>5 DEF CallerOK
<1>7. slot' \in [Asset -> Conn \cup {NoConn}]
  BY <1>2 DEF IInv, TypeOK
<1> QED
  BY <1>2, <1>3, <1>4, <1>6, <1>7, CallerEntry

\* ReleaseRefused.
LEMMA ReleaseRefusedKeeps ==
  ASSUME IInv, NEW g \in Caller, ReleaseRefused(g)
  PROVE  IInv'
<1>1. caller[g] \in CallerState /\ CallerOK(g) /\ (caller[g].res = "ctxErr" => caller[g].canceled)
  BY DEF IInv, TypeOK, CallerInv, OwnContextOnly
<1>2. PICK c \in Conn : c = caller[g].conn /\ entry[c].asset = caller[g].asset /\ caller[g].asset \in Asset
  BY <1>1 DEF ReleaseRefused, At, CallerOK
<1>3. caller[g].pc = "hold" /\ UNCHANGED <<flight, saver, sweeper, closer, saves>>
  BY DEF ReleaseRefused, At
<1>4. CASE slot[caller[g].asset] # c
  <2>1. Return(g, "none") /\ UNCHANGED <<slot, entry>>
    BY <1>2, <1>4 DEF ReleaseRefused
  <2>2. PICK r \in CallerState : /\ caller' = [caller EXCEPT ![g] = r]
                                 /\ r.pc = "out" /\ r.conn = NoConn /\ r.res = "none"
    BY <2>1, ReturnFacts DEF Result
  <2> QED
    BY <1>3, <2>1, <2>2, CallerOnly
<1>5. CASE slot[caller[g].asset] = c
  <2>1. PICK aged \in BOOLEAN, last \in BOOLEAN :
          /\ entry' = [entry EXCEPT ![c].refs = @ - 1, ![c].retired = @ \/ last]
          /\ slot' = IF last THEN Without(c) ELSE slot
          /\ IF last THEN Goto(g, "shut") ELSE Return(g, "none")
    BY <1>2, <1>5 DEF ReleaseRefused
  <2>2. /\ slot' \in [Asset -> Conn \cup {NoConn}]
        /\ \A a \in Asset : slot'[a] = slot[a] \/ slot'[a] = NoConn
        /\ last => \A a \in Asset : slot'[a] # c
    BY <2>1, WithoutFacts DEF IInv, TypeOK
  <2>3. PICK b \in BOOLEAN : b = (entry[c].retired \/ last)
    OBVIOUS
  <2>4. PICK e : e = [entry[c] EXCEPT !.refs = entry[c].refs - 1, !.retired = b]
    OBVIOUS
  <2>5. e \in Entry /\ e.asset = entry[c].asset /\ e.shut = entry[c].shut /\ e.retired = b
    <3>1. entry[c] \in Entry /\ entry[c].refs - 1 \in Int
      BY DEF IInv, TypeOK, Entry
    <3>2. e = [asset |-> entry[c].asset, refs |-> entry[c].refs - 1, retired |-> b, shut |-> entry[c].shut]
      BY <2>4, <3>1 DEF Entry
    <3>3. entry[c].asset \in Asset \cup {NoAsset} /\ entry[c].shut \in BOOLEAN
      BY <3>1 DEF Entry
    <3>4. e \in Entry
      BY <3>1, <3>2, <3>3 DEF Entry
    <3> QED
      BY <3>2, <3>4
  <2>6. /\ entry' \in [Conn -> Entry]
        /\ \A d \in Conn : d # c => entry'[d] = entry[d]
        /\ entry'[c].asset = entry[c].asset /\ entry'[c].shut = entry[c].shut /\ entry'[c].retired = b
    <3>1. entry' = [entry EXCEPT ![c] = e]
      BY <2>1, <2>3, <2>4 DEF IInv, TypeOK
    <3> QED
      BY <2>5, <3>1 DEF IInv, TypeOK
  <2>7. entry[c].retired => entry'[c].retired
    BY <2>3, <2>6
  <2>8. Mono /\ ShutInv'
    BY <2>2, <2>6, <2>7 DEF Mono, ShutInv, IInv
  <2>9. CASE last
    <3>1. PICK r : r = [caller[g] EXCEPT !.pc = "shut"]
      OBVIOUS
    <3>2. /\ r \in CallerState /\ r.asset = caller[g].asset /\ r.conn = c /\ r.res = caller[g].res
          /\ r.canceled = caller[g].canceled /\ r.pc = "shut"
      BY <1>1, <1>2, <3>1 DEF CallerState, CallerPC
    <3>3. caller' = [caller EXCEPT ![g] = r] /\ caller'[g] = r
      BY <2>1, <2>9, <3>1 DEF Goto, IInv, TypeOK
    <3>4. entry'[c].retired
      BY <2>3, <2>6, <2>9
    <3>5. CallerOK(g)'
      BY <1>2, <2>2, <2>6, <2>9, <3>2, <3>3, <3>4 DEF CallerOK
    <3> QED
      BY <1>1, <1>3, <2>2, <2>6, <2>8, <3>2, <3>3, <3>5, CallerEntry
  <2>10. CASE ~last
    <3>1. PICK r \in CallerState : /\ caller' = [caller EXCEPT ![g] = r]
                                   /\ r.pc = "out" /\ r.conn = NoConn /\ r.res = "none"
      BY <2>1, <2>10, ReturnFacts DEF Result
    <3>2. caller'[g] = r
      BY <3>1 DEF IInv, TypeOK
    <3>3. CallerOK(g)'
      BY <3>1, <3>2 DEF CallerOK
    <3> QED
      BY <1>3, <2>2, <2>6, <2>8, <3>1, <3>3, CallerEntry
  <2> QED
    BY <2>9, <2>10
<1> QED
  BY <1>4, <1>5

-----------------------------------------------------------------------------
(* The flights *)

\* A context ends, and a canceled caller stops waiting.
LEMMA CancelKeeps ==
  ASSUME IInv, NEW g \in Caller, Cancel(g) \/ GiveUp(g)
  PROVE  IInv'
<1>1. caller \in [Caller -> CallerState] /\ caller[g] \in CallerState /\ CallerOK(g) /\ flight \in [Asset -> Flight]
  BY DEF IInv, TypeOK, CallerInv
<1>2. UNCHANGED <<slot, entry, saver, sweeper, closer, saves>> /\ Mono /\ ShutInv'
  BY DEF Cancel, GiveUp, Mono, IInv, ShutInv
<1>3. CASE Cancel(g)
  <2>1. PICK r : r = [caller[g] EXCEPT !.canceled = TRUE]
    OBVIOUS
  <2>2. /\ r \in CallerState /\ r.asset = caller[g].asset /\ r.conn = caller[g].conn /\ r.canceled /\ r.pc = caller[g].pc
    BY <1>1, <2>1 DEF CallerState
  <2>3. caller' = [caller EXCEPT ![g] = r] /\ caller'[g] = r /\ \A h \in Caller : h # g => caller'[h] = caller[h]
    BY <1>1, <1>3, <2>1 DEF Cancel
  <2>4. flight' \in [Asset -> Flight]
        /\ \A a \in Asset : flight'[a].waiters = flight[a].waiters /\ flight'[a].dialling = flight[a].dialling
    BY <1>1, <1>3 DEF Cancel, Flight
  <2>5. TypeOK'
    BY <1>1, <1>2, <2>2, <2>3, <2>4 DEF TypeOK, IInv
  <2>6. CallerInv'
    <3>1. CallerOK(g)'
      BY <1>1, <1>2, <2>2, <2>3 DEF CallerOK
    <3> QED
      BY <1>2, <2>3, <3>1, MonoFacts DEF CallerInv
  <2>7. FlightInv'
    <3> SUFFICES ASSUME NEW a \in Asset
                 PROVE  FlightOK(a)'
      BY DEF FlightInv
    <3>1. FlightOK(a) /\ Usable(a)' = Usable(a)
      BY <1>2 DEF IInv, FlightInv, Usable
    <3>2. \A h \in Caller : caller'[h].pc = caller[h].pc /\ caller'[h].asset = caller[h].asset
      BY <2>2, <2>3
    <3>3. flight[a].waiters \subseteq Caller
      BY <1>1 DEF Flight
    <3> QED
      BY <2>4, <3>1, <3>2, <3>3 DEF FlightOK
  <2>8. OwnContextOnly'
    BY <2>2, <2>3 DEF IInv, OwnContextOnly
  <2> QED
    BY <1>2, <2>5, <2>6, <2>7, <2>8, MonoFacts DEF IInv
<1>4. CASE GiveUp(g)
  <2>1. PICK r \in CallerState : /\ caller' = [caller EXCEPT ![g] = r]
                                 /\ r.pc = "out" /\ r.res = "ctxErr" /\ r.canceled = caller[g].canceled
    BY <1>4, ReturnFacts DEF GiveUp, Result
  <2>2. caller'[g] = r /\ \A h \in Caller : h # g => caller'[h] = caller[h]
    BY <1>1, <2>1
  <2>3. flight' \in [Asset -> Flight]
        /\ \A a \in Asset : flight'[a].waiters = flight[a].waiters \ {g} /\ flight'[a].dialling = flight[a].dialling
    BY <1>1, <1>4 DEF GiveUp, Flight
  <2>4. TypeOK'
    BY <1>1, <1>2, <2>1, <2>3 DEF TypeOK, IInv
  <2>5. CallerInv'
    <3>1. CallerOK(g)'
      BY <2>1, <2>2 DEF CallerOK
    <3> QED
      BY <1>2, <2>2, <3>1, MonoFacts DEF CallerInv
  <2>6. FlightInv'
    <3> SUFFICES ASSUME NEW a \in Asset
                 PROVE  FlightOK(a)'
      BY DEF FlightInv
    <3>1. FlightOK(a) /\ Usable(a)' = Usable(a)
      BY <1>2 DEF IInv, FlightInv, Usable
    <3>2. flight[a].waiters \subseteq Caller
      BY <1>1 DEF Flight
    <3> QED
      BY <2>2, <2>3, <3>1, <3>2 DEF FlightOK
  <2>7. OwnContextOnly'
    BY <1>4, <2>1, <2>2 DEF IInv, OwnContextOnly, GiveUp
  <2> QED
    BY <1>2, <2>4, <2>5, <2>6, <2>7, MonoFacts DEF IInv
<1> QED
  BY <1>3, <1>4

\* DoChan.
LEMMA JoinKeeps ==
  ASSUME IInv, NEW g \in Caller, Join(g)
  PROVE  IInv'
<1>1. /\ caller \in [Caller -> CallerState] /\ caller[g] \in CallerState /\ CallerOK(g)
      /\ flight \in [Asset -> Flight] /\ (caller[g].res = "ctxErr" => caller[g].canceled)
  BY DEF IInv, TypeOK, CallerInv, OwnContextOnly
<1>2. UNCHANGED <<slot, entry, saver, sweeper, closer, saves>> /\ Mono /\ ShutInv'
  BY DEF Join, Mono, IInv, ShutInv
<1>3. PICK b \in Asset : b = caller[g].asset
  BY <1>1 DEF Join, At, CallerOK
<1>4. PICK r : r = [caller[g] EXCEPT !.pc = "wait", !.conn = NoConn]
  OBVIOUS
<1>5. /\ r \in CallerState /\ r.asset = b /\ r.pc = "wait" /\ r.res = caller[g].res
      /\ r.canceled = caller[g].canceled
  BY <1>1, <1>3, <1>4 DEF CallerState, CallerPC
<1>6. caller' = [caller EXCEPT ![g] = r] /\ caller'[g] = r /\ \A h \in Caller : h # g => caller'[h] = caller[h]
  BY <1>1, <1>4 DEF Join
<1>7. PICK f : f = IF flight[b].on THEN [flight[b] EXCEPT !.waiters = @ \cup {g}]
                   ELSE [on |-> TRUE, dialling |-> FALSE, leader |-> g, waiters |-> {g},
                         ctxDone |-> caller[g].canceled]
  OBVIOUS
<1>8. f \in Flight /\ (f.dialling => flight[b].dialling) /\ f.waiters \subseteq flight[b].waiters \cup {g}
  <2>1. flight[b] \in Flight /\ caller[g].canceled \in BOOLEAN
    BY <1>1, <1>3 DEF CallerState
  <2>2. CASE flight[b].on
    BY <1>7, <2>1, <2>2 DEF Flight
  <2>3. CASE ~flight[b].on
    BY <1>7, <2>1, <2>3 DEF Flight
  <2> QED
    BY <2>2, <2>3
<1>9. flight' = [flight EXCEPT ![b] = f]
  BY <1>3, <1>7 DEF Join
<1>10. TypeOK'
  BY <1>1, <1>2, <1>5, <1>6, <1>8, <1>9 DEF TypeOK, IInv
<1>11. CallerInv'
  <2>1. CallerOK(g)'
    BY <1>3, <1>5, <1>6 DEF CallerOK
  <2> QED
    BY <1>2, <1>6, <2>1, MonoFacts DEF CallerInv
<1>12. FlightInv'
  <2> SUFFICES ASSUME NEW a \in Asset
               PROVE  FlightOK(a)'
    BY DEF FlightInv
  <2>1. FlightOK(a) /\ FlightOK(b) /\ Usable(a)' = Usable(a)
    BY <1>2 DEF IInv, FlightInv, Usable
  <2>2. flight[a].waiters \subseteq Caller /\ g \notin flight[a].waiters
    BY <1>1, <2>1 DEF Flight, FlightOK, Join, At
  <2>3. CASE a = b
    <3>1. flight'[a] = f
      BY <1>1, <1>9, <2>3
    <3>2. \A h \in f.waiters : h \in Caller /\ caller'[h].pc = "wait" /\ caller'[h].asset = a
      BY <1>5, <1>6, <1>8, <2>1, <2>2, <2>3 DEF FlightOK
    <3> QED
      BY <1>8, <2>1, <2>3, <3>1, <3>2 DEF FlightOK
  <2>4. CASE a # b
    <3>1. flight'[a] = flight[a]
      BY <1>1, <1>9, <2>4
    <3> QED
      BY <1>6, <2>1, <2>2, <3>1 DEF FlightOK
  <2> QED
    BY <2>3, <2>4
<1>13. OwnContextOnly'
  BY <1>1, <1>5, <1>6 DEF IInv, OwnContextOnly
<1> QED
  BY <1>2, <1>10, <1>11, <1>12, <1>13, MonoFacts DEF IInv

\* The flight ends: its waiters go on with an entry of its asset.
LEMMA DeliverFacts ==
  ASSUME IInv, NEW a \in Asset, NEW c \in Conn, Deliver(a, "again", "none", c)
  PROVE  /\ caller' \in [Caller -> CallerState] /\ flight' \in [Asset -> Flight]
         /\ \A b \in Asset : b # a => flight'[b] = flight[b] /\ \A g \in flight[b].waiters : caller'[g] = caller[g]
         /\ flight'[a] = NoFlight
         /\ \A g \in Caller : \/ caller'[g] = caller[g]
                              \/ /\ caller[g].pc = "wait" /\ caller'[g].pc = "again" /\ caller'[g].asset = a
                                 /\ caller'[g].conn = c /\ caller'[g].res = "none"
<1>1. caller \in [Caller -> CallerState] /\ flight \in [Asset -> Flight] /\ NoFlight \in Flight
  BY DEF IInv, TypeOK, Flight, NoFlight
<1>2. \A g \in flight[a].waiters : g \in Caller /\ caller[g].pc = "wait" /\ caller[g].asset = a
  BY <1>1 DEF IInv, FlightInv, FlightOK, Flight
<1>3. \A b \in Asset : \A g \in flight[b].waiters : g \in Caller /\ caller[g].asset = b
  BY <1>1 DEF IInv, FlightInv, FlightOK, Flight
<1>4. \A r \in CallerState : LET q == [r EXCEPT !.pc = "again", !.res = "none", !.conn = c] IN
        q \in CallerState /\ q.pc = "again" /\ q.asset = r.asset /\ q.conn = c /\ q.res = "none"
  BY DEF CallerState, CallerPC, Result
<1>5. \A g \in Caller : caller'[g] = IF g \in flight[a].waiters
         THEN [caller[g] EXCEPT !.pc = "again", !.res = "none", !.conn = c] ELSE caller[g]
  BY DEF Deliver
<1>6. \A g \in Caller : \/ caller'[g] = caller[g]
                        \/ /\ caller[g].pc = "wait" /\ caller'[g].pc = "again" /\ caller'[g].asset = a
                           /\ caller'[g].conn = c /\ caller'[g].res = "none" /\ caller'[g] \in CallerState
  <2> TAKE g \in Caller
  <2>1. CASE g \in flight[a].waiters
    <3>1. caller'[g] = [caller[g] EXCEPT !.pc = "again", !.res = "none", !.conn = c]
      BY <1>5, <2>1
    <3>2. caller[g] \in CallerState /\ caller[g].pc = "wait" /\ caller[g].asset = a
      BY <1>1, <1>2, <2>1
    <3> QED
      BY <1>4, <3>1, <3>2
  <2>2. CASE g \notin flight[a].waiters
    BY <1>5, <2>2
  <2> QED
    BY <2>1, <2>2
<1>7. caller' \in [Caller -> CallerState]
  <2>1. \A g \in Caller : caller'[g] \in CallerState
    BY <1>1, <1>6
  <2> QED
    BY <2>1 DEF Deliver
<1>8. flight' \in [Asset -> Flight] /\ flight'[a] = NoFlight /\ \A b \in Asset : b # a => flight'[b] = flight[b]
  BY <1>1 DEF Deliver
<1>9. \A b \in Asset : b # a => \A g \in flight[b].waiters : caller'[g] = caller[g]
  <2> SUFFICES ASSUME NEW b \in Asset, b # a, NEW g \in flight[b].waiters
               PROVE  caller'[g] = caller[g]
    OBVIOUS
  <2>1. g \in Caller /\ g \notin flight[a].waiters
    BY <1>2, <1>3
  <2> QED
    BY <1>5, <2>1
<1> QED
  BY <1>6, <1>7, <1>8, <1>9

\* The call finds a usable entry, or goes on to dial.
LEMMA FlightBeginKeeps ==
  ASSUME IInv, NEW a \in Asset, FlightReuse(a) \/ FlightDial(a)
  PROVE  IInv'
<1>1. UNCHANGED <<slot, entry, saver, sweeper, closer, saves>> /\ Mono /\ ShutInv'
  BY DEF FlightReuse, FlightDial, Mono, IInv, ShutInv
<1>2. CASE FlightReuse(a)
  <2>1. PICK c \in Conn : c = slot[a] /\ entry[c].asset = a
    BY <1>2 DEF FlightReuse, Usable, IInv, TypeOK, SlotInv
  <2>2. Deliver(a, "again", "none", c)
    BY <1>2, <2>1 DEF FlightReuse
  <2>3. TypeOK'
    BY <1>1, <2>2, DeliverFacts DEF TypeOK, IInv
  <2>4. CallerInv'
    <3> SUFFICES ASSUME NEW g \in Caller
                 PROVE  CallerOK(g)'
      BY DEF CallerInv
    <3>1. CASE caller'[g] = caller[g]
      BY <1>1, <3>1, MonoFacts
    <3>2. CASE caller'[g].pc = "again" /\ caller'[g].asset = a /\ caller'[g].conn = c
      BY <1>1, <2>1, <3>2 DEF CallerOK
    <3> QED
      BY <2>2, <3>1, <3>2, DeliverFacts
  <2>5. FlightInv'
    <3>1. FlightOK(a)'
      BY <2>2, DeliverFacts DEF FlightOK, NoFlight
    <3> QED
      BY <1>1, <2>2, <3>1, DeliverFacts, MonoFacts DEF FlightInv
  <2>6. OwnContextOnly'
    BY <2>2, DeliverFacts DEF IInv, OwnContextOnly
  <2> QED
    BY <1>1, <2>3, <2>4, <2>5, <2>6, MonoFacts DEF IInv
<1>3. CASE FlightDial(a)
  <2>1. UNCHANGED caller /\ ~Usable(a)
    BY <1>3 DEF FlightDial
  <2>2. /\ flight' \in [Asset -> Flight] /\ flight'[a].waiters = flight[a].waiters
        /\ \A b \in Asset : b # a => flight'[b] = flight[b]
    BY <1>3 DEF FlightDial, IInv, TypeOK, Flight
  <2>3. TypeOK'
    BY <1>1, <2>1, <2>2 DEF TypeOK, IInv
  <2>4. FlightInv'
    <3>1. FlightOK(a)'
      BY <1>1, <2>1, <2>2 DEF FlightOK, IInv, FlightInv, Usable
    <3> QED
      BY <1>1, <2>1, <2>2, <3>1, MonoFacts DEF FlightInv
  <2>5. OwnContextOnly' /\ CallerInv'
    BY <1>1, <2>1, MonoFacts DEF IInv, OwnContextOnly, CallerInv
  <2> QED
    BY <1>1, <2>3, <2>4, <2>5, MonoFacts DEF IInv
<1> QED
  BY <1>2, <1>3

\* The dialled entry is stored and goes to the waiters.
LEMMA FlightStoreKeeps ==
  ASSUME IInv, NEW a \in Asset, FlightStore(a)
  PROVE  IInv'
<1>1. UNCHANGED <<saver, sweeper, closer, saves>>
  BY DEF FlightStore
<1>2. PICK c \in Conn :
        /\ ~Dialled(c)
        /\ entry' = [entry EXCEPT ![c] = [Unused EXCEPT !.asset = a]]
        /\ slot' = [slot EXCEPT ![a] = c]
        /\ Deliver(a, "again", "none", c)
  BY DEF FlightStore
<1>3. PICK e : e = [Unused EXCEPT !.asset = a]
  OBVIOUS
<1>4. e \in Entry /\ e.asset = a /\ ~e.shut /\ ~e.retired /\ e.refs = 0
  <2>1. e = [asset |-> a, refs |-> 0, retired |-> FALSE, shut |-> FALSE]
    BY <1>3 DEF Unused
  <2> QED
    BY <2>1 DEF Entry
<1>5. /\ entry' \in [Conn -> Entry] /\ entry'[c] = e /\ \A d \in Conn : d # c => entry'[d] = entry[d]
      /\ slot' \in [Asset -> Conn \cup {NoConn}] /\ slot'[a] = c /\ \A b \in Asset : b # a => slot'[b] = slot[b]
  BY <1>2, <1>3, <1>4 DEF IInv, TypeOK
<1>6. TypeOK'
  BY <1>1, <1>2, <1>5, DeliverFacts DEF TypeOK, IInv
<1>7. a # NoAsset /\ \A b \in Asset : slot[b] # c
  BY <1>2, PoolConstants DEF IInv, SlotInv, Dialled
<1>8. CallerInv'
  <2> SUFFICES ASSUME NEW g \in Caller
               PROVE  CallerOK(g)'
    BY DEF CallerInv
  <2>1. CASE caller'[g] = caller[g]
    <3>1. CallerOK(g) /\ caller[g].conn \in Conn \cup {NoConn}
      BY DEF IInv, CallerInv, TypeOK, CallerState
    <3>2. caller[g].conn = c => caller[g].pc \notin {"probe", "await", "acquire", "unlink", "close", "shut",
                                                     "again", "hold", "release"}
      <4> SUFFICES ASSUME caller[g].conn = c
                   PROVE  caller[g].pc \notin {"probe", "await", "acquire", "unlink", "close", "shut",
                                               "again", "hold", "release"}
        OBVIOUS
      <4>1. entry[c].asset = NoAsset /\ c # NoConn
        BY <1>2, PoolConstants DEF Dialled
      <4> QED
        BY <3>1, <4>1, PoolConstants DEF CallerOK
    <3> QED
      BY <1>5, <2>1, <3>1, <3>2 DEF CallerOK
  <2>2. CASE caller'[g].pc = "again" /\ caller'[g].asset = a /\ caller'[g].conn = c
    BY <1>4, <1>5, <2>2 DEF CallerOK
  <2> QED
    BY <1>2, <2>1, <2>2, DeliverFacts
<1>9. SlotInv'
  BY <1>4, <1>5, <1>7 DEF IInv, SlotInv, TypeOK
<1>10. ShutInv'
  BY <1>4, <1>5 DEF IInv, ShutInv
<1>11. FlightInv'
  <2> SUFFICES ASSUME NEW b \in Asset
               PROVE  FlightOK(b)'
    BY DEF FlightInv
  <2>1. CASE b = a
    BY <1>2, <2>1, DeliverFacts DEF FlightOK, NoFlight
  <2>2. CASE b # a
    <3>1. flight'[b] = flight[b] /\ \A g \in flight[b].waiters : caller'[g] = caller[g]
      BY <1>2, <2>2, DeliverFacts
    <3>2. Usable(b)' = Usable(b)
      BY <1>5, <1>7, <2>2 DEF Usable, IInv, TypeOK
    <3> QED
      BY <3>1, <3>2 DEF FlightOK, IInv, FlightInv
  <2> QED
    BY <2>1, <2>2
<1>12. SaverInv'
  <2>1. saver.pc = "close" => saver.conn \in Conn /\ saver.conn # c /\ Dialled(saver.conn)
                              /\ \A b \in Asset : slot[b] # saver.conn
    BY <1>2 DEF IInv, SaverInv
  <2>2. saver.pc = "close" => \A b \in Asset : slot'[b] # saver.conn
    BY <1>5, <2>1
  <2> QED
    BY <1>1, <1>5, <2>1, <2>2 DEF IInv, SaverInv, Dialled
<1>13. SweeperInv'
  <2>1. sweeper.todo \subseteq Conn /\ sweeper.idle \subseteq Conn /\ c \notin sweeper.todo /\ c \notin sweeper.idle
    BY <1>2 DEF IInv, TypeOK, SweeperInv
  <2> QED
    BY <1>1, <1>5, <2>1 DEF IInv, SweeperInv, Dialled
<1>14. CloserInv'
  <2>1. closer.todo \subseteq Conn /\ c \notin closer.todo
    BY <1>2 DEF IInv, TypeOK, CloserInv
  <2> QED
    BY <1>1, <1>5, <2>1 DEF IInv, CloserInv, Dialled
<1>15. OwnContextOnly'
  BY <1>2, DeliverFacts DEF IInv, OwnContextOnly
<1> QED
  BY <1>6, <1>8, <1>9, <1>10, <1>11, <1>12, <1>13, <1>14, <1>15 DEF IInv

\* The dial fails: its waiters start over or return.
LEMMA FlightFailFacts ==
  ASSUME IInv, NEW a \in Asset, FlightFail(a)
  PROVE  /\ caller' \in [Caller -> CallerState] /\ flight' \in [Asset -> Flight]
         /\ \A b \in Asset : b # a => flight'[b] = flight[b] /\ \A g \in flight[b].waiters : caller'[g] = caller[g]
         /\ flight'[a] = NoFlight
         /\ \A g \in Caller : \/ caller'[g] = caller[g]
                              \/ /\ caller[g].pc = "wait" /\ caller'[g].pc = "top" /\ caller'[g].asset = a
                                 /\ caller'[g].res = caller[g].res /\ caller'[g].canceled = caller[g].canceled
                              \/ /\ caller[g].pc = "wait" /\ caller'[g].pc = "out"
                                 /\ caller'[g].res = "ctxErr" => caller'[g].canceled
<1>1. caller \in [Caller -> CallerState] /\ flight \in [Asset -> Flight] /\ NoFlight \in Flight
  BY DEF IInv, TypeOK, Flight, NoFlight
<1>2. \A g \in flight[a].waiters : g \in Caller /\ caller[g].pc = "wait" /\ caller[g].asset = a
  BY <1>1 DEF IInv, FlightInv, FlightOK, Flight
<1>3. \A b \in Asset : \A g \in flight[b].waiters : g \in Caller /\ caller[g].asset = b
  BY <1>1 DEF IInv, FlightInv, FlightOK, Flight
<1>4. \A g \in Caller : g \notin flight[a].waiters => caller'[g] = caller[g]
  BY DEF FlightFail
<1>5. \A g \in Caller : g \in flight[a].waiters /\ flight[a].ctxDone /\ ~caller[g].canceled =>
        caller'[g] = [caller[g] EXCEPT !.pc = "top"]
  BY DEF FlightFail
<1>6. \A g \in Caller : g \in flight[a].waiters /\ ~(flight[a].ctxDone /\ ~caller[g].canceled) =>
        caller'[g] = [Outside EXCEPT !.canceled = caller[g].canceled,
                                     !.res = IF flight[a].ctxDone THEN "ctxErr" ELSE "dialErr"]
  BY DEF FlightFail
<1>7. \A r \in CallerState : LET q == [r EXCEPT !.pc = "top"] IN
        q \in CallerState /\ q.pc = "top" /\ q.asset = r.asset /\ q.res = r.res /\ q.canceled = r.canceled
  BY DEF CallerState, CallerPC
<1>9. ASSUME NEW g \in Caller
      PROVE  /\ caller'[g] \in CallerState
             /\ \/ caller'[g] = caller[g]
                \/ /\ caller[g].pc = "wait" /\ caller'[g].pc = "top" /\ caller'[g].asset = a
                   /\ caller'[g].res = caller[g].res /\ caller'[g].canceled = caller[g].canceled
                \/ /\ caller[g].pc = "wait" /\ caller'[g].pc = "out"
                   /\ caller'[g].res = "ctxErr" => caller'[g].canceled
  <2>1. CASE g \notin flight[a].waiters
    BY <1>1, <1>4, <2>1
  <2>2. CASE g \in flight[a].waiters /\ flight[a].ctxDone /\ ~caller[g].canceled
    <3>1. caller'[g] = [caller[g] EXCEPT !.pc = "top"] /\ caller[g] \in CallerState
      BY <1>1, <1>5, <2>2
    <3> QED
      BY <1>2, <1>7, <2>2, <3>1
  <2>3. CASE g \in flight[a].waiters /\ ~(flight[a].ctxDone /\ ~caller[g].canceled)
    <3>1. PICK res : res = IF flight[a].ctxDone THEN "ctxErr" ELSE "dialErr"
      OBVIOUS
    <3>2. res \in Result /\ caller[g].canceled \in BOOLEAN /\ (res = "ctxErr" => caller[g].canceled)
      BY <1>1, <2>3, <3>1 DEF Result, CallerState
    <3>3. caller'[g] = [Outside EXCEPT !.canceled = caller[g].canceled, !.res = res]
      BY <1>6, <2>3, <3>1
    <3>4. caller'[g] = [pc |-> "out", asset |-> NoAsset, conn |-> NoConn, canceled |-> caller[g].canceled,
                        res |-> res]
      BY <3>3 DEF Outside
    <3>5. caller'[g] \in CallerState
      BY <3>2, <3>4 DEF CallerState, CallerPC
    <3>6. caller'[g].pc = "out" /\ caller'[g].res = res /\ (caller'[g].canceled <=> caller[g].canceled)
      BY <3>4
    <3> QED
      BY <1>2, <2>3, <3>2, <3>5, <3>6
  <2> QED
    BY <2>1, <2>2, <2>3
<1>10. caller' \in [Caller -> CallerState]
  BY <1>9 DEF FlightFail
<1>11. flight' \in [Asset -> Flight] /\ flight'[a] = NoFlight /\ \A b \in Asset : b # a => flight'[b] = flight[b]
  BY <1>1 DEF FlightFail
<1>12. ASSUME NEW b \in Asset, b # a, NEW g \in flight[b].waiters
       PROVE  caller'[g] = caller[g]
  <2>1. g \in Caller /\ g \notin flight[a].waiters
    BY <1>2, <1>3, <1>12
  <2> QED
    BY <1>4, <2>1
<1> QED
  BY <1>9, <1>10, <1>11, <1>12

\* The dial fails.
LEMMA FlightFailKeeps ==
  ASSUME IInv, NEW a \in Asset, FlightFail(a)
  PROVE  IInv'
<1>1. UNCHANGED <<slot, entry, saver, sweeper, closer, saves>> /\ Mono /\ ShutInv'
  BY DEF FlightFail, Mono, IInv, ShutInv
<1>2. TypeOK'
  BY <1>1, FlightFailFacts DEF TypeOK, IInv
<1>3. CallerInv'
  <2> SUFFICES ASSUME NEW g \in Caller
               PROVE  CallerOK(g)'
    BY DEF CallerInv
  <2>1. CASE caller'[g] = caller[g]
    BY <1>1, <2>1, MonoFacts
  <2>2. CASE caller'[g].pc = "top" /\ caller'[g].asset = a
    BY <2>2 DEF CallerOK
  <2>3. CASE caller'[g].pc = "out"
    BY <2>3 DEF CallerOK
  <2> QED
    BY <2>1, <2>2, <2>3, FlightFailFacts
<1>4. FlightInv'
  <2>1. FlightOK(a)'
    BY FlightFailFacts DEF FlightOK, NoFlight
  <2> QED
    BY <1>1, <2>1, FlightFailFacts, MonoFacts DEF FlightInv
<1>5. OwnContextOnly'
  BY FlightFailFacts DEF IInv, OwnContextOnly
<1> QED
  BY <1>1, <1>2, <1>3, <1>4, <1>5, MonoFacts DEF IInv

-----------------------------------------------------------------------------
(* The saver, the sweeper and the closer *)

\* A step of one of them leaves callers and flights alone.
LEMMA OthersKeep ==
  ASSUME IInv, TypeOK', Mono, ShutInv', SaverInv', SweeperInv', CloserInv', UNCHANGED <<caller, flight>>
  PROVE  IInv'
<1>1. CallerInv' /\ FlightInv'
  BY MonoFacts DEF CallerInv, FlightInv
<1>2. OwnContextOnly'
  BY DEF IInv, OwnContextOnly
<1> QED
  BY <1>1, <1>2, MonoFacts DEF IInv

\* An asset is saved and its entry removed and closed.
LEMMA SaverKeeps ==
  ASSUME IInv, SaverStep \/ \E a \in Asset : Save(a)
  PROVE  IInv'
<1>1. CASE \E a \in Asset : Save(a)
  <2>1. PICK a \in Asset : Save(a)
    BY <1>1
  <2>2. Mono /\ ShutInv' /\ UNCHANGED <<slot, entry, flight, caller, sweeper, closer>>
    BY <2>1 DEF Save, Mono, IInv, ShutInv
  <2>3. TypeOK'
    <3>1. saves' \in [Asset -> 0..MaxSave]
      <4>1. saves \in [Asset -> 0..MaxSave] /\ saves[a] \in 0..MaxSave /\ saves[a] < MaxSave /\ MaxSave \in Nat
        BY <2>1, PoolConstants DEF Save, TypeOK, IInv
      <4>2. saves[a] + 1 \in 0..MaxSave
        BY <4>1
      <4> QED
        BY <2>1, <4>1, <4>2 DEF Save
    <3>2. saver' \in [pc: {"out", "remove", "close"}, asset: Asset \cup {NoAsset}, conn: Conn \cup {NoConn}]
      BY <2>1 DEF Save, TypeOK, IInv
    <3> QED
      BY <2>2, <3>1, <3>2 DEF TypeOK, IInv
  <2>4. SaverInv'
    BY <2>1 DEF Save, SaverInv, IInv, TypeOK
  <2> QED
    BY <2>2, <2>3, <2>4, MonoFacts, OthersKeep
<1>2. CASE Remove
  <2>1. PICK a \in Asset : a = saver.asset
    BY <1>2 DEF Remove, IInv, SaverInv
  <2>2. /\ slot' = [slot EXCEPT ![a] = NoConn] /\ UNCHANGED <<entry, flight, caller, sweeper, closer, saves>>
        /\ saver' = IF slot[a] = NoConn THEN NotSaving ELSE [saver EXCEPT !.pc = "close", !.conn = slot[a]]
    BY <1>2, <2>1 DEF Remove
  <2>3. slot[a] \in Conn \cup {NoConn}
    BY DEF IInv, TypeOK
  <2>4. Mono /\ ShutInv'
    BY <2>2 DEF Mono, IInv, ShutInv, TypeOK
  <2>5. TypeOK'
    <3>1. slot' \in [Asset -> Conn \cup {NoConn}]
      BY <2>2 DEF IInv, TypeOK
    <3>2. saver' \in [pc: {"out", "remove", "close"}, asset: Asset \cup {NoAsset}, conn: Conn \cup {NoConn}]
      BY <2>2, <2>3 DEF IInv, TypeOK, NotSaving
    <3> QED
      BY <2>2, <3>1, <3>2 DEF IInv, TypeOK
  <2>6. SaverInv'
    <3>1. CASE slot[a] = NoConn
      BY <2>2, <3>1 DEF SaverInv, NotSaving
    <3>2. CASE slot[a] # NoConn
      <4>1. PICK c \in Conn : c = slot[a]
        BY <2>3, <3>2
      <4>2. entry[c].asset = a /\ a # NoAsset
        BY <3>2, <4>1, PoolConstants DEF IInv, SlotInv
      <4>3. saver'.pc = "close" /\ saver'.conn = c
        BY <2>2, <3>2, <4>1 DEF IInv, TypeOK
      <4>4. \A b \in Asset : slot'[b] # c
        BY <2>2, <4>1, <4>2, PoolConstants DEF IInv, SlotInv, TypeOK
      <4> QED
        BY <2>2, <4>2, <4>3, <4>4 DEF SaverInv, Dialled
    <3> QED
      BY <3>1, <3>2
  <2> QED
    BY <2>2, <2>4, <2>5, <2>6, MonoFacts, OthersKeep
<1>3. CASE RemoveClose
  <2>1. PICK c \in Conn : c = saver.conn
    BY <1>3 DEF RemoveClose, IInv, SaverInv
  <2>2. entry' = Closed(c) /\ saver' = NotSaving /\ UNCHANGED <<slot, flight, caller, sweeper, closer, saves>>
    BY <1>3, <2>1 DEF RemoveClose
  <2>3. entry' \in [Conn -> Entry] /\ Mono /\ ShutInv'
    BY <2>2, EndFacts
  <2>4. TypeOK'
    BY <2>2, <2>3 DEF IInv, TypeOK, NotSaving
  <2>5. SaverInv'
    BY <2>2 DEF SaverInv, NotSaving
  <2> QED
    BY <2>2, <2>3, <2>4, <2>5, MonoFacts, OthersKeep
<1> QED
  BY <1>1, <1>2, <1>3 DEF SaverStep

\* A sweep snapshots the pool, retires idle entries, unlinks and shuts them down.
LEMMA SweeperKeeps ==
  ASSUME IInv, SweepStart \/ SweeperStep
  PROVE  IInv'
<1>1. /\ sweeper.todo \subseteq Conn /\ sweeper.idle \subseteq Conn
      /\ slot \in [Asset -> Conn \cup {NoConn}] /\ entry \in [Conn -> Entry]
  BY DEF IInv, TypeOK
<1>2. CASE SweepStart
  <2>1. PICK T : T = {slot[a] : a \in Asset} \ {NoConn}
    OBVIOUS
  <2>2. sweeper' = [pc |-> "judge", todo |-> T, idle |-> {}]
        /\ UNCHANGED <<slot, entry, flight, caller, saver, closer, saves>>
    BY <1>2, <2>1 DEF SweepStart
  <2>3. T \subseteq Conn /\ \A c \in T : Dialled(c)
    BY <1>1, <2>1, PoolConstants DEF IInv, SlotInv, Dialled
  <2>4. Mono /\ ShutInv'
    BY <2>2 DEF Mono, IInv, ShutInv
  <2>5. TypeOK'
    BY <2>2, <2>3 DEF IInv, TypeOK
  <2>6. SweeperInv'
    BY <2>2, <2>3 DEF SweeperInv, Dialled
  <2> QED
    BY <2>2, <2>4, <2>5, <2>6, MonoFacts, OthersKeep
<1>3. ASSUME NEW c \in Conn, SweepJudge(c)
      PROVE  IInv'
  <2>1. Dialled(c) /\ c \in sweeper.todo /\ UNCHANGED <<slot, flight, caller, saver, closer, saves>>
    BY <1>3 DEF SweepJudge, IInv, SweeperInv
  <2>2. PICK todo, idle, pc :
          /\ todo = sweeper.todo \ {c} /\ pc \in {"judge", "out", "unlink"}
          /\ sweeper' = [pc |-> pc, todo |-> todo, idle |-> idle]
          /\ \/ idle = sweeper.idle /\ entry' = entry
             \/ idle = sweeper.idle \cup {c} /\ entry' = Retired(c)
    BY <1>3 DEF SweepJudge
  <2>3. entry' \in [Conn -> Entry] /\ Mono /\ ShutInv'
    <3>1. CASE entry' = entry
      BY <2>1, <3>1 DEF Mono, IInv, ShutInv, TypeOK
    <3>2. CASE entry' = Retired(c)
      BY <2>1, <3>2, EndFacts
    <3> QED
      BY <2>2, <3>1, <3>2
  <2>4. TypeOK'
    <3>1. sweeper' \in [pc: {"out", "judge", "unlink", "shut"}, todo: SUBSET Conn, idle: SUBSET Conn]
      BY <1>1, <2>2
    <3> QED
      BY <2>1, <2>3, <3>1 DEF IInv, TypeOK
  <2>5. SweeperInv'
    <3>1. \A d \in todo : d \in Conn /\ Dialled(d)
      BY <1>1, <2>2 DEF IInv, SweeperInv
    <3>2. \A d \in idle : d \in Conn /\ Dialled(d) /\ entry'[d].retired
      <4>1. \A d \in sweeper.idle : d \in Conn /\ Dialled(d) /\ entry'[d].retired
        BY <1>1, <2>3 DEF IInv, SweeperInv, Mono
      <4>2. entry' = Retired(c) => entry'[c].retired
        BY EntryFacts
      <4> QED
        BY <2>1, <2>2, <4>1, <4>2
    <3> QED
      BY <2>2, <2>3, <3>1, <3>2 DEF SweeperInv, Mono, Dialled
  <2> QED
    BY <2>1, <2>3, <2>4, <2>5, MonoFacts, OthersKeep
<1>4. CASE SweepUnlink
  <2>1. /\ slot' = [a \in Asset |-> IF slot[a] \in sweeper.idle THEN NoConn ELSE slot[a]]
        /\ sweeper' = [sweeper EXCEPT !.pc = "shut"] /\ UNCHANGED <<entry, flight, caller, saver, closer, saves>>
    BY <1>4 DEF SweepUnlink
  <2>2. Mono /\ ShutInv'
    BY <2>1 DEF Mono, IInv, ShutInv
  <2>3. sweeper' \in [pc: {"out", "judge", "unlink", "shut"}, todo: SUBSET Conn, idle: SUBSET Conn]
        /\ sweeper'.todo = sweeper.todo /\ sweeper'.idle = sweeper.idle
    BY <2>1 DEF IInv, TypeOK
  <2>4. TypeOK'
    BY <1>1, <2>1, <2>3 DEF IInv, TypeOK
  <2>5. SweeperInv'
    BY <2>1, <2>3 DEF IInv, SweeperInv, Dialled
  <2> QED
    BY <2>1, <2>2, <2>4, <2>5, MonoFacts, OthersKeep
<1>5. ASSUME NEW c \in Conn, SweepShut(c)
      PROVE  IInv'
  <2>1. /\ entry' = ShutDown(c) /\ entry[c].retired /\ UNCHANGED <<slot, flight, caller, saver, closer, saves>>
        /\ sweeper' = [sweeper EXCEPT !.idle = @ \ {c}, !.pc = IF sweeper.idle = {c} THEN "out" ELSE @]
    BY <1>5 DEF SweepShut, IInv, SweeperInv
  <2>2. entry' \in [Conn -> Entry] /\ Mono /\ ShutInv'
    BY <2>1, EndFacts
  <2>3. sweeper' \in [pc: {"out", "judge", "unlink", "shut"}, todo: SUBSET Conn, idle: SUBSET Conn]
        /\ sweeper'.todo = sweeper.todo /\ sweeper'.idle \subseteq sweeper.idle
    BY <2>1 DEF IInv, TypeOK
  <2>4. TypeOK'
    BY <2>1, <2>2, <2>3 DEF IInv, TypeOK
  <2>5. SweeperInv'
    BY <1>1, <2>2, <2>3 DEF IInv, SweeperInv, Dialled, Mono
  <2> QED
    BY <2>1, <2>2, <2>4, <2>5, MonoFacts, OthersKeep
<1> QED
  BY <1>2, <1>3, <1>4, <1>5 DEF SweeperStep

\* Pool.Close.
LEMMA CloserKeeps ==
  ASSUME IInv, Close \/ CloserStep
  PROVE  IInv'
<1>1. closer.todo \subseteq Conn /\ slot \in [Asset -> Conn \cup {NoConn}] /\ entry \in [Conn -> Entry]
  BY DEF IInv, TypeOK
<1>2. CASE Close
  <2>1. closer' = [closer EXCEPT !.pc = "join"] /\ UNCHANGED <<slot, entry, flight, caller, saver, sweeper, saves>>
    BY <1>2 DEF Close
  <2>2. Mono /\ ShutInv'
    BY <2>1 DEF Mono, IInv, ShutInv
  <2>3. closer' \in [pc: {"out", "join", "close"}, todo: SUBSET Conn] /\ closer'.todo = closer.todo
    BY <2>1 DEF IInv, TypeOK
  <2>4. TypeOK' /\ CloserInv'
    BY <2>1, <2>3 DEF IInv, TypeOK, CloserInv, Dialled
  <2> QED
    BY <2>1, <2>2, <2>4, MonoFacts, OthersKeep
<1>3. CASE CloseSwap
  <2>1. PICK T : T = {slot[a] : a \in Asset} \ {NoConn}
    OBVIOUS
  <2>2. /\ closer' = [pc |-> "close", todo |-> T] /\ slot' = [a \in Asset |-> NoConn]
        /\ UNCHANGED <<entry, flight, caller, saver, sweeper, saves>>
    BY <1>3, <2>1 DEF CloseSwap
  <2>3. T \subseteq Conn /\ \A c \in T : Dialled(c)
    BY <1>1, <2>1, PoolConstants DEF IInv, SlotInv, Dialled
  <2>4. Mono /\ ShutInv'
    BY <2>2 DEF Mono, IInv, ShutInv
  <2>5. TypeOK'
    BY <2>2, <2>3 DEF IInv, TypeOK
  <2>6. CloserInv'
    BY <2>2, <2>3, PoolConstants DEF CloserInv, Dialled
  <2> QED
    BY <2>2, <2>4, <2>5, <2>6, MonoFacts, OthersKeep
<1>4. ASSUME NEW c \in Conn, CloseEntry(c)
      PROVE  IInv'
  <2>1. /\ entry' = Closed(c) /\ closer' = [closer EXCEPT !.todo = @ \ {c}]
        /\ UNCHANGED <<slot, flight, caller, saver, sweeper, saves>>
    BY <1>4 DEF CloseEntry
  <2>2. entry' \in [Conn -> Entry] /\ Mono /\ ShutInv'
    BY <2>1, EndFacts
  <2>3. closer' \in [pc: {"out", "join", "close"}, todo: SUBSET Conn] /\ closer'.todo \subseteq closer.todo
    BY <2>1 DEF IInv, TypeOK
  <2>4. TypeOK'
    BY <2>1, <2>2, <2>3 DEF IInv, TypeOK
  <2>5. CloserInv'
    BY <1>1, <2>1, <2>2, <2>3 DEF IInv, CloserInv, Dialled, Mono
  <2> QED
    BY <2>1, <2>2, <2>4, <2>5, MonoFacts, OthersKeep
<1> QED
  BY <1>2, <1>3, <1>4 DEF CloserStep

-----------------------------------------------------------------------------
(* The invariant and what follows from it at once *)

\* IInv is an invariant: it holds initially and every step keeps it.
THEOREM Invariance == Spec => []IInv
<1>1. Init => IInv
  <2> SUFFICES ASSUME Init
               PROVE  IInv
    OBVIOUS
  <2>1. TypeOK
    BY PoolConstants DEF Init, TypeOK, Entry, Unused, Flight, NoFlight, CallerState, CallerPC, Result,
       Outside, NotSaving
  <2>2. CallerInv
    BY DEF Init, CallerInv, CallerOK, Outside
  <2>3. SlotInv /\ ShutInv /\ FlightInv
    BY DEF Init, SlotInv, ShutInv, FlightInv, FlightOK, NoFlight, Unused
  <2>4. SaverInv /\ SweeperInv /\ CloserInv /\ OwnContextOnly
    BY DEF Init, SaverInv, SweeperInv, CloserInv, OwnContextOnly, NotSaving, Outside
  <2> QED
    BY <2>1, <2>2, <2>3, <2>4 DEF IInv
<1>2. IInv /\ [Next]_vars => IInv'
  <2> SUFFICES ASSUME IInv, [Next]_vars
               PROVE  IInv'
    OBVIOUS
  <2>1. ASSUME NEW g \in Caller, GetStep(g)
        PROVE  IInv'
    BY <2>1, LookupKeeps, ProbeKeeps, TryAcquireKeeps, RemoveEntryKeeps, CancelKeeps, JoinKeeps DEF GetStep
  <2>2. ASSUME NEW g \in Caller, ReleaseStep(g)
        PROVE  IInv'
    BY <2>2, LookupKeeps, ReleaseKeeps, ReleaseRefusedKeeps DEF ReleaseStep
  <2>3. ASSUME NEW a \in Asset, FlightStep(a)
        PROVE  IInv'
    BY <2>3, FlightBeginKeeps, FlightStoreKeeps, FlightFailKeeps DEF FlightStep
  <2>4. ASSUME NEW g \in Caller, Cancel(g) \/ \E a \in Asset : Get(g, a)
        PROVE  IInv'
    BY <2>4, CancelKeeps, LookupKeeps
  <2>5. CASE UNCHANGED vars
    BY <2>5 DEF vars, IInv, TypeOK, CallerInv, CallerOK, SlotInv, ShutInv, FlightInv, FlightOK, Usable, SaverInv,
       SweeperInv, CloserInv, OwnContextOnly, Dialled
  <2> QED
    BY <2>1, <2>2, <2>3, <2>4, <2>5, SaverKeeps, SweeperKeeps, CloserKeeps DEF Next
<1> QED
  BY <1>1, <1>2, PTL DEF Spec

\* The variables keep their types.
THEOREM TypeCorrect == Spec => []TypeOK
<1>1. IInv => TypeOK
  BY DEF IInv
<1> QED
  BY <1>1, Invariance, PTL

\* Get returns a context error only to a caller whose own context has ended, however many
\* callers share the dial that its leader abandoned.
THEOREM OthersContextNeverFails == Spec => []OwnContextOnly
<1>1. IInv => OwnContextOnly
  BY DEF IInv
<1> QED
  BY <1>1, Invariance, PTL

-----------------------------------------------------------------------------
(* References *)

\* The callers that hold an entry or are about to release it.
HoldersOf(c) == {g \in Caller : caller[g].pc \in {"hold", "release"} /\ caller[g].conn = c}

\* An entry is the pooled one of its asset, and the only one that was ever dialled for it.
Sole(c) ==
  Dialled(c) /\ slot[entry[c].asset] = c /\ \A d \in Conn \ {c} : entry[d].asset # entry[c].asset

\* An entry that is the sole one after a step that dials nothing was so before it.
LEMMA SoleBefore ==
  ASSUME IInv, Mono, NEW c \in Conn, Sole(c)'
  PROVE  Sole(c)
<1>1. slot \in [Asset -> Conn \cup {NoConn}] /\ NoConn \notin Conn
  BY PoolConstants DEF IInv, TypeOK
<1>2. entry[c].asset \in Asset
  BY DEF Sole, Dialled, Mono, IInv, TypeOK, Entry
<1> QED
  BY <1>1, <1>2 DEF Sole, Dialled, Mono

\* A step that changes no holder and no count keeps the counts exact.
LEMMA SameCounts ==
  ASSUME IInv, HoldersCounted, Mono,
         \A c \in Conn : Sole(c) => entry'[c].refs = entry[c].refs,
         \A c \in Conn : Sole(c) /\ Sole(c)' =>
           \A g \in Caller : (caller'[g].pc \in {"hold", "release"} /\ caller'[g].conn = c)
                               <=> (caller[g].pc \in {"hold", "release"} /\ caller[g].conn = c)
  PROVE  HoldersCounted'
<1> SUFFICES ASSUME NEW c \in Conn, Sole(c)'
             PROVE  entry'[c].refs = Cardinality(HoldersOf(c)')
  BY DEF HoldersCounted, Sole, HoldersOf
<1>1. Sole(c)
  BY SoleBefore
<1>2. HoldersOf(c)' = HoldersOf(c)
  BY <1>1 DEF HoldersOf
<1>3. entry[c].refs = Cardinality(HoldersOf(c))
  BY <1>1 DEF HoldersCounted, Sole, HoldersOf
<1> QED
  BY <1>1, <1>2, <1>3

\* The only entry dialled for an asset is the one everybody with that asset works on.
LEMMA SoleConn ==
  ASSUME IInv, NEW c \in Conn, Sole(c), NEW g \in Caller,
         caller[g].pc \in {"probe", "await", "acquire", "unlink", "close", "shut", "again", "hold"}
  PROVE  (caller[g].conn = c <=> slot[caller[g].asset] = c) /\ caller[g].asset \in Asset
<1>1. caller[g].conn \in Conn /\ entry[caller[g].conn].asset = caller[g].asset /\ caller[g].asset \in Asset
  BY DEF IInv, CallerInv, CallerOK
<1>2. slot[caller[g].asset] = c => entry[c].asset = caller[g].asset
  BY <1>1, PoolConstants DEF IInv, SlotInv
<1> QED
  BY <1>1, <1>2 DEF Sole

\* The steps of Get.
LEMMA GetCounts ==
  ASSUME IInv, HoldersCounted, NEW g \in Caller,
         GetStep(g) \/ Cancel(g) \/ \E a \in Asset : Get(g, a)
  PROVE  HoldersCounted'
<1>1. /\ caller \in [Caller -> CallerState] /\ caller[g] \in CallerState /\ CallerOK(g)
      /\ entry \in [Conn -> Entry] /\ slot \in [Asset -> Conn \cup {NoConn}]
  BY DEF IInv, TypeOK, CallerInv
<1>2. ASSUME \A h \in Caller : h # g => caller'[h] = caller[h],
             caller[g].pc \notin {"hold", "release"}, caller'[g].pc \notin {"hold", "release"},
             Mono, \A c \in Conn : entry'[c].refs = entry[c].refs
      PROVE  HoldersCounted'
  BY <1>2, SameCounts
<1>3. CASE Lookup(g) \/ ProbeStart(g) \/ ProbeAlive(g) \/ ProbeDead(g)
  <2>1. Mono /\ \A c \in Conn : entry'[c].refs = entry[c].refs
    BY <1>3 DEF Lookup, ProbeStart, ProbeAlive, ProbeDead, Mono
  <2>2. caller[g].pc \notin {"hold", "release"}
    BY <1>3 DEF Lookup, ProbeStart, ProbeAlive, ProbeDead, At
  <2>3. \A h \in Caller : h # g => caller'[h] = caller[h]
    BY <1>1, <1>3 DEF Lookup, ProbeStart, ProbeAlive, ProbeDead, Goto
  <2>4. caller'[g].pc \notin {"hold", "release"}
    <3>1. CASE Lookup(g)
      BY <1>1, <3>1 DEF Lookup, CallerState
    <3>2. CASE ProbeStart(g) \/ ProbeAlive(g) \/ ProbeDead(g)
      BY <1>1, <3>2 DEF ProbeStart, ProbeAlive, ProbeDead, Goto, CallerState
    <3> QED
      BY <1>3, <3>1, <3>2
  <2> QED
    BY <1>2, <2>1, <2>2, <2>3, <2>4
<1>4. CASE RemoveEntry(g)
  <2>1. PICK c \in Conn : c = caller[g].conn
    BY <1>1, <1>4 DEF RemoveEntry, At, CallerOK
  <2>2. Mono /\ \A d \in Conn : entry'[d].refs = entry[d].refs
    BY <1>4, <2>1, WithoutFacts DEF RemoveEntry, Mono
  <2>3. /\ caller[g].pc \notin {"hold", "release"} /\ caller'[g].pc \notin {"hold", "release"}
        /\ \A h \in Caller : h # g => caller'[h] = caller[h]
    BY <1>1, <1>4 DEF RemoveEntry, Goto, At, CallerState
  <2> QED
    BY <1>2, <2>2, <2>3
<1>5. CASE RemovedClose(g)
  <2>1. PICK c \in Conn : c = caller[g].conn
    BY <1>1, <1>5 DEF RemovedClose, At, CallerOK
  <2>2. entry' = Closed(c) /\ slot' = slot
    BY <1>5, <2>1 DEF RemovedClose
  <2>3. Mono /\ \A d \in Conn : entry'[d].refs = entry[d].refs
    BY <2>2, EndFacts, EntryFacts
  <2>4. /\ caller[g].pc \notin {"hold", "release"} /\ caller'[g].pc \notin {"hold", "release"}
        /\ \A h \in Caller : h # g => caller'[h] = caller[h]
    BY <1>1, <1>5 DEF RemovedClose, Goto, At, CallerState
  <2> QED
    BY <1>2, <2>3, <2>4
<1>6. CASE Join(g) \/ GiveUp(g) \/ \E a \in Asset : Get(g, a)
  <2>1. Mono /\ \A c \in Conn : entry'[c].refs = entry[c].refs
    BY <1>6 DEF Join, GiveUp, Get, Mono
  <2>2. caller[g].pc \notin {"hold", "release"}
    BY <1>6 DEF Join, GiveUp, Get, At
  <2>3. caller'[g].pc \notin {"hold", "release"}
    <3>1. Join(g) => caller'[g].pc = "wait"
      BY <1>1 DEF Join, CallerState
    <3>2. GiveUp(g) => caller'[g].pc = "out"
      <4> SUFFICES ASSUME GiveUp(g)
                   PROVE  caller'[g].pc = "out"
        OBVIOUS
      <4>1. PICK r \in CallerState : caller' = [caller EXCEPT ![g] = r] /\ r.pc = "out"
        BY ReturnFacts DEF GiveUp, Result
      <4> QED
        BY <1>1, <4>1
    <3>3. \A a \in Asset : Get(g, a) => caller'[g].pc = "top"
      BY <1>1 DEF Get, Outside
    <3> QED
      BY <1>6, <3>1, <3>2, <3>3
  <2>4. \A h \in Caller : h # g => caller'[h] = caller[h]
    BY <1>1, <1>6 DEF Join, GiveUp, Get, Return
  <2> QED
    BY <1>2, <2>1, <2>2, <2>3, <2>4
<1>7. CASE Cancel(g)
  <2>1. Mono /\ \A c \in Conn : entry'[c].refs = entry[c].refs
    BY <1>7 DEF Cancel, Mono
  <2>2. \A h \in Caller : caller'[h].pc = caller[h].pc /\ caller'[h].conn = caller[h].conn
    BY <1>1, <1>7 DEF Cancel, CallerState
  <2> QED
    BY <2>1, <2>2, SameCounts
<1>8. CASE TryAcquire(g)
  <2>1. PICK c \in Conn : c = caller[g].conn
    BY <1>1, <1>8 DEF TryAcquire, At, CallerOK
  <2>2. caller[g].pc \in {"acquire", "again"}
    BY <1>8 DEF TryAcquire, At
  <2>3. CASE entry[c].retired
    <3>1. Mono /\ \A d \in Conn : entry'[d].refs = entry[d].refs
      BY <1>8, <2>1, <2>3 DEF TryAcquire, Mono
    <3>2. PICK p \in {"join", "top"} : Goto(g, p)
      BY <1>8, <2>1, <2>3 DEF TryAcquire
    <3>3. caller'[g].pc \notin {"hold", "release"} /\ \A h \in Caller : h # g => caller'[h] = caller[h]
      BY <1>1, <3>2 DEF Goto, CallerState
    <3> QED
      BY <1>2, <2>2, <3>1, <3>3
  <2>4. CASE ~entry[c].retired
    <3>1. /\ caller'[g].pc = "hold" /\ caller'[g].conn = c /\ \A h \in Caller : h # g => caller'[h] = caller[h]
      BY <1>1, <1>8, <2>1, <2>4 DEF TryAcquire, CallerState
    <3>2. entry' = [entry EXCEPT ![c].refs = @ + 1] /\ slot' = slot
      BY <1>8, <2>1, <2>4 DEF TryAcquire
    <3>3. entry'[c].refs = entry[c].refs + 1 /\ \A d \in Conn : entry'[d].asset = entry[d].asset
          /\ entry'[d].retired = entry[d].retired
      BY <1>1, <3>2 DEF Entry
    <3>4. Mono
      BY <3>2, <3>3 DEF Mono
    <3> SUFFICES ASSUME NEW d \in Conn, Sole(d)'
                 PROVE  entry'[d].refs = Cardinality(HoldersOf(d)')
      BY DEF HoldersCounted, Sole, HoldersOf
    <3>5. entry[d].refs = Cardinality(HoldersOf(d))
      BY <3>4, SoleBefore DEF HoldersCounted, Sole, HoldersOf
    <3>6. CASE d = c
      <4>1. HoldersOf(c)' = HoldersOf(c) \cup {g} /\ g \notin HoldersOf(c)
        BY <2>2, <3>1 DEF HoldersOf
      <4>2. IsFiniteSet(HoldersOf(c))
        BY PoolConstants, FS_Subset DEF HoldersOf
      <4>3. Cardinality(HoldersOf(c)') = Cardinality(HoldersOf(c)) + 1
        BY <4>1, <4>2, FS_AddElement
      <4> QED
        BY <3>3, <3>5, <3>6, <4>3
    <3>7. CASE d # c
      <4>1. HoldersOf(d)' = HoldersOf(d)
        BY <2>2, <3>1, <3>7 DEF HoldersOf
      <4>2. entry'[d].refs = entry[d].refs
        BY <1>1, <3>2, <3>7
      <4> QED
        BY <3>5, <4>1, <4>2
    <3> QED
      BY <3>6, <3>7
  <2> QED
    BY <2>3, <2>4
<1> QED
  BY <1>3, <1>4, <1>5, <1>6, <1>7, <1>8 DEF GetStep

\* Release and ReleaseRefused.
LEMMA ReleaseCounts ==
  ASSUME IInv, HoldersCounted, NEW g \in Caller, ReleaseStep(g)
  PROVE  HoldersCounted'
<1>1. /\ caller \in [Caller -> CallerState] /\ caller[g] \in CallerState /\ CallerOK(g)
      /\ entry \in [Conn -> Entry] /\ slot \in [Asset -> Conn \cup {NoConn}]
  BY DEF IInv, TypeOK, CallerInv
<1>2. CASE Release(g)
  <2>1. Mono /\ \A c \in Conn : entry'[c].refs = entry[c].refs
    BY <1>2 DEF Release, Mono
  <2>2. caller[g].pc = "hold"
    BY <1>2 DEF Release, At
  <2>3. /\ caller'[g].pc = "release" /\ caller'[g].conn = slot[caller[g].asset]
        /\ \A h \in Caller : h # g => caller'[h] = caller[h]
    BY <1>1, <1>2 DEF Release, CallerState
  <2>4. ASSUME NEW c \in Conn, Sole(c), NEW h \in Caller
        PROVE  (caller'[h].pc \in {"hold", "release"} /\ caller'[h].conn = c)
                 <=> (caller[h].pc \in {"hold", "release"} /\ caller[h].conn = c)
    <3>1. caller[g].conn = c <=> slot[caller[g].asset] = c
      BY <2>2, <2>4, SoleConn
    <3> QED
      BY <2>2, <2>3, <3>1
  <2> QED
    BY <2>1, <2>4, SameCounts
<1>3. CASE RefusedShut(g)
  <2>1. PICK c \in Conn : c = caller[g].conn /\ entry[c].retired
    BY <1>1, <1>3 DEF RefusedShut, At, CallerOK
  <2>2. entry' = ShutDown(c) /\ slot' = slot
    BY <1>3, <2>1 DEF RefusedShut
  <2>3. Mono /\ \A d \in Conn : entry'[d].refs = entry[d].refs
    BY <2>1, <2>2, EndFacts, EntryFacts
  <2>4. /\ caller[g].pc \notin {"hold", "release"} /\ caller'[g].pc \notin {"hold", "release"}
        /\ \A h \in Caller : h # g => caller'[h] = caller[h]
    BY <1>1, <1>3 DEF RefusedShut, Return, At, Outside
  <2> QED
    BY <2>3, <2>4, SameCounts
<1>4. ASSUME NEW c \in Conn, caller[g].conn = c, caller[g].pc \in {"hold", "release"}, Mono,
             entry'[c].refs = entry[c].refs - 1, caller'[g].pc \notin {"hold", "release"},
             \A h \in Caller : h # g => caller'[h] = caller[h],
             \A d \in Conn : d # c => entry'[d].refs = entry[d].refs
      PROVE  HoldersCounted'
  <2> SUFFICES ASSUME NEW d \in Conn, Sole(d)'
               PROVE  entry'[d].refs = Cardinality(HoldersOf(d)')
    BY DEF HoldersCounted, Sole, HoldersOf
  <2>1. Sole(d)
    BY <1>4, SoleBefore
  <2>2. IsFiniteSet(HoldersOf(d)) /\ entry[d].refs = Cardinality(HoldersOf(d))
    BY <2>1, PoolConstants, FS_Subset DEF HoldersOf, HoldersCounted, Sole
  <2>3. CASE d = c
    <3>1. HoldersOf(c)' = HoldersOf(c) \ {g} /\ g \in HoldersOf(c)
      BY <1>4 DEF HoldersOf
    <3>2. Cardinality(HoldersOf(c)') = Cardinality(HoldersOf(c)) - 1
      BY <2>2, <2>3, <3>1, FS_RemoveElement
    <3> QED
      BY <1>4, <2>2, <2>3, <3>2
  <2>4. CASE d # c
    <3>1. HoldersOf(d)' = HoldersOf(d)
      BY <1>4, <2>4 DEF HoldersOf
    <3> QED
      BY <1>4, <2>2, <2>4, <3>1
  <2> QED
    BY <2>3, <2>4
<1>5. CASE Released(g)
  <2>1. /\ caller[g].pc = "release" /\ caller'[g].pc \notin {"hold", "release"} /\ slot' = slot
        /\ \A h \in Caller : h # g => caller'[h] = caller[h]
    BY <1>1, <1>5 DEF Released, Return, At, Outside
  <2>2. CASE caller[g].conn = NoConn
    <3>1. entry' = entry
      BY <1>5, <2>2 DEF Released
    <3>2. Mono
      BY <2>1, <3>1 DEF Mono
    <3> QED
      BY <2>1, <2>2, <3>1, <3>2, SameCounts, PoolConstants
  <2>3. CASE caller[g].conn # NoConn
    <3>1. PICK c \in Conn : c = caller[g].conn
      BY <1>1, <2>3 DEF CallerState
    <3>2. entry' = [entry EXCEPT ![c].refs = @ - 1]
      BY <1>5, <2>3, <3>1 DEF Released
    <3>3. /\ entry'[c].refs = entry[c].refs - 1 /\ \A d \in Conn : d # c => entry'[d] = entry[d]
          /\ entry'[c].asset = entry[c].asset /\ entry'[c].retired = entry[c].retired
      BY <1>1, <3>2 DEF Entry
    <3>4. Mono
      BY <2>1, <3>3 DEF Mono
    <3> QED
      BY <1>4, <2>1, <3>1, <3>3, <3>4
  <2> QED
    BY <2>2, <2>3
<1>6. CASE ReleaseRefused(g)
  <2>1. PICK c \in Conn : c = caller[g].conn
    BY <1>1, <1>6 DEF ReleaseRefused, At, CallerOK
  <2>2. caller[g].pc = "hold"
    BY <1>6 DEF ReleaseRefused, At
  <2>3. CASE slot[caller[g].asset] # c
    <3>1. Return(g, "none") /\ slot' = slot /\ entry' = entry
      BY <1>6, <2>1, <2>3 DEF ReleaseRefused
    <3>2. \A h \in Caller : h # g => caller'[h] = caller[h]
      BY <1>1, <3>1 DEF Return
    <3>3. ~Sole(c) /\ caller'[g].pc = "out"
      BY <1>1, <2>1, <2>2, <2>3, <3>1, SoleConn DEF Return, Outside
    <3>4. Mono
      BY <3>1 DEF Mono
    <3>5. ASSUME NEW d \in Conn, Sole(d), NEW h \in Caller
          PROVE  (caller'[h].pc \in {"hold", "release"} /\ caller'[h].conn = d)
                   <=> (caller[h].pc \in {"hold", "release"} /\ caller[h].conn = d)
      BY <2>1, <3>2, <3>3, <3>5
    <3> QED
      BY <3>1, <3>4, <3>5, SameCounts
  <2>4. CASE slot[caller[g].asset] = c
    <3>1. PICK last \in BOOLEAN :
            /\ entry' = [entry EXCEPT ![c].refs = @ - 1, ![c].retired = @ \/ last]
            /\ slot' = IF last THEN Without(c) ELSE slot
            /\ IF last THEN Goto(g, "shut") ELSE Return(g, "none")
      BY <1>6, <2>1, <2>4 DEF ReleaseRefused
    <3>2. /\ caller'[g].pc \notin {"hold", "release"} /\ \A h \in Caller : h # g => caller'[h] = caller[h]
      <4>1. Goto(g, "shut") => caller'[g].pc = "shut" /\ \A h \in Caller : h # g => caller'[h] = caller[h]
        BY <1>1 DEF Goto, CallerState
      <4>2. Return(g, "none") => caller'[g].pc = "out" /\ \A h \in Caller : h # g => caller'[h] = caller[h]
        BY <1>1 DEF Return, Outside
      <4> QED
        BY <3>1, <4>1, <4>2
    <3>3. PICK b \in BOOLEAN : b = (entry[c].retired \/ last)
      OBVIOUS
    <3>4. /\ entry'[c].refs = entry[c].refs - 1 /\ \A d \in Conn : d # c => entry'[d] = entry[d]
          /\ entry'[c].asset = entry[c].asset /\ entry'[c].retired = b
      <4>1. entry' = [entry EXCEPT ![c].refs = @ - 1, ![c].retired = b]
        BY <1>1, <3>1, <3>3
      <4>2. entry[c] = [asset |-> entry[c].asset, refs |-> entry[c].refs, retired |-> entry[c].retired,
                        shut |-> entry[c].shut]
        BY <1>1 DEF Entry
      <4>3. entry'[c] = [asset |-> entry[c].asset, refs |-> entry[c].refs - 1, retired |-> b, shut |-> entry[c].shut]
        BY <1>1, <4>1, <4>2
      <4> QED
        BY <1>1, <4>1, <4>3
    <3>5. entry[c].retired => entry'[c].retired
      BY <3>3, <3>4
    <3>6. Mono
      <4>1. \A a \in Asset : slot'[a] = slot[a] \/ slot'[a] = NoConn
        BY <3>1, WithoutFacts
      <4> QED
        BY <3>4, <3>5, <4>1 DEF Mono
    <3> QED
      BY <1>4, <2>1, <2>2, <3>2, <3>4, <3>6
  <2> QED
    BY <2>3, <2>4
<1> QED
  BY <1>2, <1>3, <1>5, <1>6 DEF ReleaseStep

\* The flights.
LEMMA FlightCounts ==
  ASSUME IInv, HoldersCounted, NEW a \in Asset, FlightStep(a)
  PROVE  HoldersCounted'
<1>1. CASE FlightDial(a)
  <2>1. Mono /\ entry' = entry /\ caller' = caller
    BY <1>1 DEF FlightDial, Mono
  <2> QED
    BY <2>1, SameCounts
<1>2. CASE FlightReuse(a)
  <2>1. PICK c \in Conn : c = slot[a] /\ Deliver(a, "again", "none", c)
    BY <1>2 DEF FlightReuse, Usable, IInv, TypeOK
  <2>2. Mono /\ entry' = entry
    BY <1>2 DEF FlightReuse, Mono
  <2> QED
    BY <2>1, <2>2, DeliverFacts, SameCounts
<1>3. CASE FlightFail(a)
  <2>1. Mono /\ entry' = entry
    BY <1>3 DEF FlightFail, Mono
  <2> QED
    BY <1>3, <2>1, FlightFailFacts, SameCounts
<1>4. CASE FlightStore(a)
  <2>1. PICK c \in Conn :
          /\ ~Dialled(c)
          /\ entry' = [entry EXCEPT ![c] = [Unused EXCEPT !.asset = a]]
          /\ Deliver(a, "again", "none", c)
    BY <1>4 DEF FlightStore
  <2>2. entry'[c].asset = a /\ entry'[c].refs = 0 /\ a # NoAsset
    BY <2>1, PoolConstants DEF Unused, IInv, TypeOK
  <2> SUFFICES ASSUME NEW d \in Conn, Sole(d)'
               PROVE  entry'[d].refs = Cardinality(HoldersOf(d)')
    BY DEF HoldersCounted, Sole, HoldersOf
  <2>3. ASSUME d # c
        PROVE  entry'[d].refs = Cardinality(HoldersOf(d)')
    <3>1. /\ entry'[d] = entry[d] /\ entry[d].asset \in Asset \ {a} /\ entry[c].asset = NoAsset
          /\ \A e \in Conn \ {c, d} : entry[e].asset # entry[d].asset
      <4>1. entry \in [Conn -> Entry] /\ \A e \in Conn \ {c} : entry'[e] = entry[e]
        BY <2>1 DEF IInv, TypeOK
      <4> QED
        BY <2>1, <2>2, <2>3, <4>1 DEF Sole, Dialled, Entry
    <3>2. slot'[entry[d].asset] = slot[entry[d].asset]
      BY <1>4, <3>1 DEF FlightStore, IInv, TypeOK
    <3>3. Sole(d)
      BY <3>1, <3>2, PoolConstants DEF Sole, Dialled
    <3>4. HoldersOf(d)' = HoldersOf(d)
      BY <2>1, DeliverFacts DEF HoldersOf
    <3> QED
      BY <3>1, <3>3, <3>4 DEF HoldersCounted, Sole, HoldersOf
  <2>4. HoldersOf(c)' = {}
    <3> SUFFICES ASSUME NEW g \in Caller, caller'[g].pc \in {"hold", "release"}, caller'[g].conn = c
                 PROVE  FALSE
      BY DEF HoldersOf
    <3>1. caller'[g] = caller[g]
      BY <2>1, DeliverFacts
    <3>2. CallerOK(g) /\ c # NoConn /\ entry[c].asset = NoAsset
      BY <2>1, PoolConstants DEF IInv, CallerInv, Dialled
    <3> QED
      BY <3>1, <3>2, PoolConstants DEF CallerOK
  <2> QED
    BY <2>2, <2>3, <2>4, FS_EmptySet
<1> QED
  BY <1>1, <1>2, <1>3, <1>4 DEF FlightStep

\* The saver, the sweeper and the closer change no holder and no count.
LEMMA OtherCounts ==
  ASSUME IInv, HoldersCounted,
         SaverStep \/ SweepStart \/ SweeperStep \/ Close \/ CloserStep \/ (\E a \in Asset : Save(a)) \/ UNCHANGED vars
  PROVE  HoldersCounted'
<1>1. caller' = caller
  BY DEF SaverStep, Remove, RemoveClose, SweepStart, SweeperStep, SweepUnlink, SweepJudge, SweepShut, Close,
     CloserStep, CloseSwap, CloseEntry, Save, vars
<1>2. slot \in [Asset -> Conn \cup {NoConn}] /\ entry \in [Conn -> Entry]
  BY DEF IInv, TypeOK
<1>3. ASSUME NEW c \in Conn, slot' = slot,
             entry' = Closed(c) \/ entry' = Retired(c) \/ (entry' = ShutDown(c) /\ entry[c].retired)
      PROVE  HoldersCounted'
  <2>1. Mono
    BY <1>3, EndFacts
  <2>2. entry'[c].refs = entry[c].refs
    BY <1>3, EntryFacts
  <2>3. \A d \in Conn : d # c => entry'[d] = entry[d]
    BY <1>2, <1>3 DEF Closed, Retired, ShutDown
  <2> QED
    BY <1>1, <2>1, <2>2, <2>3, SameCounts
<1>4. ASSUME entry' = entry, \A a \in Asset : slot'[a] = slot[a] \/ slot'[a] = NoConn
      PROVE  HoldersCounted'
  <2>1. Mono
    BY <1>4 DEF Mono
  <2> QED
    BY <1>1, <1>4, <2>1, SameCounts
<1>5. CASE SweepStart \/ Close \/ (\E a \in Asset : Save(a)) \/ UNCHANGED vars
  BY <1>4, <1>5 DEF SweepStart, Close, Save, vars
<1>6. CASE Remove \/ CloseSwap \/ SweepUnlink
  BY <1>2, <1>4, <1>6 DEF Remove, CloseSwap, SweepUnlink
<1>7. CASE RemoveClose
  BY <1>3, <1>7 DEF RemoveClose, IInv, SaverInv
<1>8. ASSUME NEW c \in Conn, CloseEntry(c)
      PROVE  HoldersCounted'
  BY <1>3, <1>8 DEF CloseEntry
<1>9. ASSUME NEW c \in Conn, SweepShut(c)
      PROVE  HoldersCounted'
  BY <1>3, <1>9 DEF SweepShut, IInv, SweeperInv
<1>10. ASSUME NEW c \in Conn, SweepJudge(c)
       PROVE  HoldersCounted'
  BY <1>3, <1>4, <1>10 DEF SweepJudge
<1> QED
  BY <1>5, <1>6, <1>7, <1>8, <1>9, <1>10 DEF SaverStep, SweeperStep, CloserStep

\* As long as the pooled entry has replaced no other one of its asset, its references are
\* its holders:
\* neither the idle sweep nor a refused forward can take it for unused while somebody holds
\* it, for any number of callers.
THEOREM CountsExact == Spec => []HoldersCounted
<1>1. Init => HoldersCounted
  BY DEF Init, HoldersCounted, Dialled, Unused
<1>2. IInv /\ HoldersCounted /\ [Next]_vars => HoldersCounted'
  BY GetCounts, ReleaseCounts, FlightCounts, OtherCounts DEF Next
<1> QED
  BY <1>1, <1>2, Invariance, PTL DEF Spec

-----------------------------------------------------------------------------
(* Refinement of the registry *)

\* What the registry sees of an asset and of an entry.
ServedOf(a) == IF Usable(a) THEN slot[a] ELSE NoConn

PhaseOf(c) ==
  IF ~Dialled(c) THEN "unused"
  ELSE IF entry[c].shut THEN "closed"
  ELSE IF slot[entry[c].asset] = c /\ ~entry[c].retired THEN "serving" ELSE "withdrawn"

\* A step that dials and shuts nothing withdraws what serves no more, if anything.
LEMMA RegistryWithdraws ==
  ASSUME IInv, Mono, \A c \in Conn : entry'[c].shut = entry[c].shut
  PROVE  [Registry!Next]_Registry!vars
<1>1. slot \in [Asset -> Conn \cup {NoConn}] /\ NoConn \notin Conn /\ entry \in [Conn -> Entry]
  BY PoolConstants DEF IInv, TypeOK
<1>2. PICK S : S = {c \in Conn : PhaseOf(c) = "serving" /\ PhaseOf(c)' # "serving"}
  OBVIOUS
<1>3. \A c \in S : c \in Conn /\ PhaseOf(c) = "serving"
  BY <1>2
<1>4. \A c \in Conn : PhaseOf(c)' = IF c \in S THEN "withdrawn" ELSE PhaseOf(c)
  <2> SUFFICES ASSUME NEW c \in Conn
               PROVE  PhaseOf(c)' = IF c \in S THEN "withdrawn" ELSE PhaseOf(c)
    OBVIOUS
  <2>1. CASE ~Dialled(c) \/ entry[c].shut
    BY <1>2, <2>1 DEF PhaseOf, Dialled, Mono
  <2>2. CASE Dialled(c) /\ ~entry[c].shut
    <3>1. entry[c].asset \in Asset
      BY <1>1, <2>2 DEF Dialled, Entry
    <3>2. Dialled(c)' /\ ~entry'[c].shut
      BY <2>2 DEF Dialled, Mono
    <3>3. PhaseOf(c)' = "serving" => PhaseOf(c) = "serving"
      BY <1>1, <2>2, <3>1, <3>2 DEF PhaseOf, Mono
    <3>4. PhaseOf(c) \in {"serving", "withdrawn"} /\ PhaseOf(c)' \in {"serving", "withdrawn"}
      BY <2>2, <3>2 DEF PhaseOf
    <3> QED
      BY <1>2, <3>3, <3>4
  <2> QED
    BY <2>1, <2>2
<1>5. \A a \in Asset : ServedOf(a)' = IF ServedOf(a) \in S THEN NoConn ELSE ServedOf(a)
  <2> SUFFICES ASSUME NEW a \in Asset
               PROVE  ServedOf(a)' = IF ServedOf(a) \in S THEN NoConn ELSE ServedOf(a)
    OBVIOUS
  <2>1. CASE ~Usable(a)
    <3>1. ~Usable(a)'
      BY <2>1, MonoFacts
    <3> QED
      BY <1>1, <1>3, <2>1, <3>1 DEF ServedOf
  <2>2. CASE Usable(a)
    <3>1. PICK c \in Conn : c = slot[a]
      BY <1>1, <2>2 DEF Usable
    <3>2. entry[c].asset = a /\ ~entry[c].retired /\ ~entry[c].shut /\ Dialled(c)
      BY <2>2, <3>1, PoolConstants DEF IInv, SlotInv, ShutInv, Usable, Dialled
    <3>3. PhaseOf(c) = "serving" /\ ServedOf(a) = c
      BY <2>2, <3>1, <3>2 DEF PhaseOf, ServedOf
    <3>4. Dialled(c)' /\ ~entry'[c].shut /\ entry'[c].asset = a
      BY <3>2 DEF Dialled, Mono
    <3>5. PhaseOf(c)' = "serving" <=> slot'[a] = c /\ ~entry'[c].retired
      BY <3>4 DEF PhaseOf
    <3>6. slot'[a] = c \/ slot'[a] = NoConn
      BY <3>1 DEF Mono
    <3>7. Usable(a)' <=> PhaseOf(c)' = "serving"
      BY <1>1, <3>5, <3>6 DEF Usable
    <3>8. Usable(a)' => slot'[a] = c
      BY <3>6 DEF Usable
    <3> QED
      BY <1>2, <3>3, <3>7, <3>8 DEF ServedOf
  <2> QED
    BY <2>1, <2>2
<1>6. CASE S = {}
  <2>1. /\ [c \in Conn |-> PhaseOf(c)]' = [c \in Conn |-> PhaseOf(c)]
        /\ [a \in Asset |-> ServedOf(a)]' = [a \in Asset |-> ServedOf(a)]
    BY <1>4, <1>5, <1>6
  <2> QED
    BY <2>1 DEF Registry!vars, PhaseOf, ServedOf
<1>7. CASE S # {}
  <2>1. \A c \in S : [d \in Conn |-> PhaseOf(d)][c] = "serving"
    BY <1>3
  <2>2. [d \in Conn |-> PhaseOf(d)]'
          = [d \in Conn |-> IF d \in S THEN "withdrawn" ELSE [e \in Conn |-> PhaseOf(e)][d]]
    BY <1>4
  <2>3. [a \in Asset |-> ServedOf(a)]'
          = [a \in Asset |-> IF [b \in Asset |-> ServedOf(b)][a] \in S THEN NoConn
                             ELSE [b \in Asset |-> ServedOf(b)][a]]
    BY <1>5
  <2>4. Registry!Withdraw(S)
    BY <1>7, <2>1, <2>2, <2>3 DEF Registry!Withdraw, PhaseOf, ServedOf
  <2>5. S \in SUBSET Conn
    BY <1>3
  <2> QED
    BY <2>4, <2>5 DEF Registry!Next
<1> QED
  BY <1>6, <1>7

\* Closing an entry that is out of the pool, or retired, is the registry's CloseConn, and
\* closing it once more is nothing.
LEMMA RegistryCloses ==
  ASSUME IInv, NEW c \in Conn, Dialled(c), UNCHANGED slot,
         \/ entry' = Closed(c) /\ \A a \in Asset : slot[a] # c
         \/ entry' = ShutDown(c) /\ entry[c].retired
  PROVE  [Registry!Next]_Registry!vars
<1>1. slot \in [Asset -> Conn \cup {NoConn}] /\ NoConn \notin Conn /\ entry \in [Conn -> Entry]
  BY PoolConstants DEF IInv, TypeOK
<1>2. entry'[c].shut /\ entry'[c].asset = entry[c].asset /\ entry'[c].retired
  BY EntryFacts
<1>3. \A d \in Conn : d # c => entry'[d] = entry[d]
  BY <1>1 DEF Closed, ShutDown
<1>4. entry[c].asset \in Asset
  BY <1>1 DEF Dialled, Entry
<1>5. PhaseOf(c)' = "closed" /\ \A d \in Conn : d # c => PhaseOf(d)' = PhaseOf(d)
  BY <1>2, <1>3 DEF PhaseOf, Dialled
<1>6. \A a \in Asset : ServedOf(a)' = ServedOf(a)
  <2> SUFFICES ASSUME NEW a \in Asset
               PROVE  Usable(a)' = Usable(a)
    BY DEF ServedOf
  <2>1. CASE slot[a] = c
    <3>1. entry[c].retired
      BY <2>1
    <3> QED
      BY <1>2, <2>1, <3>1 DEF Usable
  <2>2. CASE slot[a] # c
    BY <1>1, <1>3, <2>2 DEF Usable
  <2> QED
    BY <2>1, <2>2
<1>7. [a \in Asset |-> ServedOf(a)]' = [a \in Asset |-> ServedOf(a)]
  BY <1>6
<1>8. CASE entry[c].shut
  <2>1. PhaseOf(c) = "closed"
    BY <1>8 DEF PhaseOf
  <2>2. [d \in Conn |-> PhaseOf(d)]' = [d \in Conn |-> PhaseOf(d)]
    BY <1>5, <2>1
  <2> QED
    BY <1>7, <2>2 DEF Registry!vars, PhaseOf, ServedOf
<1>9. CASE ~entry[c].shut
  <2>1. PhaseOf(c) = "withdrawn"
    BY <1>4, <1>9 DEF PhaseOf
  <2>2. [d \in Conn |-> PhaseOf(d)]' = [[d \in Conn |-> PhaseOf(d)] EXCEPT ![c] = "closed"]
    BY <1>5
  <2>3. Registry!CloseConn(c)
    BY <1>7, <2>1, <2>2 DEF Registry!CloseConn, PhaseOf, ServedOf
  <2> QED
    BY <2>3 DEF Registry!Next
<1> QED
  BY <1>8, <1>9

\* Storing a dialled entry publishes it: nothing served its asset any more.
LEMMA RegistryStores ==
  ASSUME IInv, NEW a \in Asset, FlightStore(a)
  PROVE  [Registry!Next]_Registry!vars
<1>1. slot \in [Asset -> Conn \cup {NoConn}] /\ NoConn \notin Conn /\ entry \in [Conn -> Entry]
  BY PoolConstants DEF IInv, TypeOK
<1>2. ~Usable(a)
  BY DEF FlightStore, IInv, FlightInv, FlightOK
<1>3. PICK c \in Conn :
        /\ ~Dialled(c)
        /\ entry' = [entry EXCEPT ![c] = [Unused EXCEPT !.asset = a]]
        /\ slot' = [slot EXCEPT ![a] = c]
  BY DEF FlightStore
<1>4. /\ entry'[c].asset = a /\ ~entry'[c].shut /\ ~entry'[c].retired
      /\ \A d \in Conn : d # c => entry'[d] = entry[d]
  <2>1. entry'[c] = [asset |-> a, refs |-> 0, retired |-> FALSE, shut |-> FALSE]
    BY <1>1, <1>3 DEF Unused
  <2>2. \A d \in Conn : d # c => entry'[d] = entry[d]
    BY <1>1, <1>3
  <2> QED
    BY <2>1, <2>2
<1>5. slot'[a] = c /\ \A b \in Asset : b # a => slot'[b] = slot[b]
  BY <1>1, <1>3
<1>6. PhaseOf(c) = "unused" /\ PhaseOf(c)' = "serving"
  BY <1>3, <1>4, <1>5, PoolConstants DEF PhaseOf, Dialled
<1>7. \A d \in Conn : d # c => PhaseOf(d)' = PhaseOf(d)
  <2> SUFFICES ASSUME NEW d \in Conn, d # c
               PROVE  PhaseOf(d)' = PhaseOf(d)
    OBVIOUS
  <2>1. entry'[d] = entry[d]
    BY <1>4
  <2>2. CASE ~Dialled(d) \/ entry[d].shut \/ entry[d].retired
    BY <2>1, <2>2 DEF PhaseOf, Dialled
  <2>3. CASE Dialled(d) /\ ~entry[d].shut /\ ~entry[d].retired
    <3>1. entry[d].asset \in Asset
      BY <1>1, <2>3 DEF Dialled, Entry
    <3>2. slot'[entry[d].asset] = d <=> slot[entry[d].asset] = d
      <4>1. CASE entry[d].asset = a
        <5>1. slot[a] # d
          BY <1>1, <1>2, <2>3 DEF Usable
        <5> QED
          BY <1>5, <4>1, <5>1
      <4>2. CASE entry[d].asset # a
        BY <1>5, <3>1, <4>2
      <4> QED
        BY <4>1, <4>2
    <3> QED
      BY <2>1, <3>2 DEF PhaseOf, Dialled
  <2> QED
    BY <2>2, <2>3
<1>8. ServedOf(a) = NoConn /\ ServedOf(a)' = c
  BY <1>1, <1>2, <1>4, <1>5 DEF ServedOf, Usable
<1>9. \A b \in Asset : b # a => ServedOf(b)' = ServedOf(b)
  <2> SUFFICES ASSUME NEW b \in Asset, b # a
               PROVE  ServedOf(b)' = ServedOf(b)
    OBVIOUS
  <2>1. slot'[b] = slot[b] /\ slot[b] # c
    BY <1>3, <1>5, PoolConstants DEF IInv, SlotInv, Dialled
  <2>2. Usable(b)' = Usable(b)
    BY <1>1, <1>4, <2>1 DEF Usable
  <2> QED
    BY <2>1, <2>2 DEF ServedOf
<1>10. [d \in Conn |-> PhaseOf(d)]' = [[d \in Conn |-> PhaseOf(d)] EXCEPT ![c] = "serving"]
  BY <1>6, <1>7
<1>11. [b \in Asset |-> ServedOf(b)]' = [[b \in Asset |-> ServedOf(b)] EXCEPT ![a] = c]
  BY <1>8, <1>9
<1>12. Registry!Publish(a, c)
  BY <1>6, <1>8, <1>10, <1>11 DEF Registry!Publish, PhaseOf, ServedOf
<1> QED
  BY <1>12 DEF Registry!Next

\* The callers' steps as the registry sees them.
LEMMA RegistryCaller ==
  ASSUME IInv, NEW g \in Caller,
         GetStep(g) \/ Cancel(g) \/ ReleaseStep(g) \/ \E a \in Asset : Get(g, a)
  PROVE  [Registry!Next]_Registry!vars
<1>1. /\ caller[g] \in CallerState /\ CallerOK(g)
      /\ entry \in [Conn -> Entry] /\ slot \in [Asset -> Conn \cup {NoConn}]
  BY DEF IInv, TypeOK, CallerInv
<1>2. CASE UNCHANGED <<slot, entry>>
  BY <1>2, RegistryWithdraws DEF Mono
<1>3. CASE TryAcquire(g) /\ entry' # entry
  <2>1. PICK c \in Conn : c = caller[g].conn
    BY <1>1, <1>3 DEF TryAcquire, At, CallerOK
  <2>2. entry' = [entry EXCEPT ![c].refs = @ + 1] /\ slot' = slot
    BY <1>3, <2>1 DEF TryAcquire
  <2>3. \A d \in Conn : entry'[d].asset = entry[d].asset /\ entry'[d].retired = entry[d].retired
                        /\ entry'[d].shut = entry[d].shut
    BY <1>1, <2>2 DEF Entry
  <2> QED
    BY <2>2, <2>3, RegistryWithdraws DEF Mono
<1>4. CASE RemoveEntry(g)
  <2>1. PICK c \in Conn : c = caller[g].conn
    BY <1>1, <1>4 DEF RemoveEntry, At, CallerOK
  <2>2. Mono /\ \A d \in Conn : entry'[d].shut = entry[d].shut
    BY <1>4, <2>1, WithoutFacts DEF RemoveEntry, Mono
  <2> QED
    BY <2>2, RegistryWithdraws
<1>5. CASE RemovedClose(g)
  <2>1. PICK c \in Conn : c = caller[g].conn /\ Dialled(c) /\ \A a \in Asset : slot[a] # c
    BY <1>1, <1>5, PoolConstants DEF RemovedClose, At, CallerOK, Dialled
  <2> QED
    BY <1>5, <2>1, RegistryCloses DEF RemovedClose
<1>6. CASE RefusedShut(g)
  <2>1. PICK c \in Conn : c = caller[g].conn /\ Dialled(c) /\ entry[c].retired
    BY <1>1, <1>6, PoolConstants DEF RefusedShut, At, CallerOK, Dialled
  <2> QED
    BY <1>6, <2>1, RegistryCloses DEF RefusedShut
<1>7. CASE Released(g) /\ caller[g].conn # NoConn
  <2>1. PICK c \in Conn : c = caller[g].conn
    BY <1>1, <1>7 DEF CallerState
  <2>2. entry' = [entry EXCEPT ![c].refs = @ - 1] /\ slot' = slot
    BY <1>7, <2>1 DEF Released
  <2>3. \A d \in Conn : entry'[d].asset = entry[d].asset /\ entry'[d].retired = entry[d].retired
                        /\ entry'[d].shut = entry[d].shut
    BY <1>1, <2>2 DEF Entry
  <2> QED
    BY <2>2, <2>3, RegistryWithdraws DEF Mono
<1>8. CASE ReleaseRefused(g) /\ slot[caller[g].asset] = caller[g].conn
  <2>1. PICK c \in Conn : c = caller[g].conn
    BY <1>1, <1>8 DEF ReleaseRefused, At, CallerOK
  <2>2. PICK last \in BOOLEAN :
          /\ entry' = [entry EXCEPT ![c].refs = @ - 1, ![c].retired = @ \/ last]
          /\ slot' = IF last THEN Without(c) ELSE slot
    BY <1>8, <2>1 DEF ReleaseRefused
  <2>3. PICK b \in BOOLEAN : b = (entry[c].retired \/ last)
    OBVIOUS
  <2>4. /\ \A d \in Conn : d # c => entry'[d] = entry[d]
        /\ entry'[c].asset = entry[c].asset /\ entry'[c].retired = b /\ entry'[c].shut = entry[c].shut
    <3>1. entry' = [entry EXCEPT ![c].refs = @ - 1, ![c].retired = b]
      BY <1>1, <2>2, <2>3
    <3>2. entry[c] = [asset |-> entry[c].asset, refs |-> entry[c].refs, retired |-> entry[c].retired,
                      shut |-> entry[c].shut]
      BY <1>1 DEF Entry
    <3>3. entry'[c] = [asset |-> entry[c].asset, refs |-> entry[c].refs - 1, retired |-> b, shut |-> entry[c].shut]
      BY <1>1, <3>1, <3>2
    <3> QED
      BY <1>1, <3>1, <3>3
  <2>5. entry[c].retired => entry'[c].retired
    BY <2>3, <2>4
  <2>6. \A a \in Asset : slot'[a] = slot[a] \/ slot'[a] = NoConn
    BY <2>2, WithoutFacts
  <2>7. Mono /\ \A d \in Conn : entry'[d].shut = entry[d].shut
    BY <2>4, <2>5, <2>6 DEF Mono
  <2> QED
    BY <2>7, RegistryWithdraws
<1>9. CASE Lookup(g) \/ ProbeStart(g) \/ ProbeAlive(g) \/ ProbeDead(g) \/ GiveUp(g) \/ Join(g) \/ Cancel(g)
           \/ Release(g) \/ \E a \in Asset : Get(g, a)
  BY <1>2, <1>9 DEF Lookup, ProbeStart, ProbeAlive, ProbeDead, GiveUp, Join, Cancel, Release, Get
<1>10. CASE TryAcquire(g) /\ entry' = entry
  BY <1>2, <1>10 DEF TryAcquire
<1>11. CASE Released(g) /\ caller[g].conn = NoConn
  BY <1>2, <1>11 DEF Released
<1>12. CASE ReleaseRefused(g) /\ slot[caller[g].asset] # caller[g].conn
  BY <1>2, <1>12 DEF ReleaseRefused
<1> QED
  BY <1>3, <1>4, <1>5, <1>6, <1>7, <1>8, <1>9, <1>10, <1>11, <1>12 DEF GetStep, ReleaseStep

\* The steps of the saver, the sweeper and the closer as the registry sees them.
LEMMA RegistryOthers ==
  ASSUME IInv,
         SaverStep \/ SweepStart \/ SweeperStep \/ Close \/ CloserStep \/ (\E a \in Asset : Save(a)) \/ UNCHANGED vars
  PROVE  [Registry!Next]_Registry!vars
<1>1. slot \in [Asset -> Conn \cup {NoConn}] /\ entry \in [Conn -> Entry]
  BY DEF IInv, TypeOK
<1>2. ASSUME entry' = entry, \A a \in Asset : slot'[a] = slot[a] \/ slot'[a] = NoConn
      PROVE  [Registry!Next]_Registry!vars
  BY <1>2, RegistryWithdraws DEF Mono
<1>3. CASE SweepStart \/ Close \/ (\E a \in Asset : Save(a)) \/ UNCHANGED vars
  BY <1>2, <1>3 DEF SweepStart, Close, Save, vars
<1>4. CASE Remove \/ CloseSwap \/ SweepUnlink
  BY <1>1, <1>2, <1>4 DEF Remove, CloseSwap, SweepUnlink
<1>5. CASE RemoveClose
  BY <1>5, RegistryCloses DEF RemoveClose, IInv, SaverInv
<1>6. ASSUME NEW c \in Conn, CloseEntry(c)
      PROVE  [Registry!Next]_Registry!vars
  BY <1>6, RegistryCloses DEF CloseEntry, IInv, CloserInv
<1>7. ASSUME NEW c \in Conn, SweepShut(c)
      PROVE  [Registry!Next]_Registry!vars
  BY <1>7, RegistryCloses DEF SweepShut, IInv, SweeperInv
<1>8. ASSUME NEW c \in Conn, SweepJudge(c)
      PROVE  [Registry!Next]_Registry!vars
  <2>1. slot' = slot /\ (entry' = entry \/ entry' = Retired(c))
    BY <1>8 DEF SweepJudge
  <2>2. CASE entry' = Retired(c)
    <3>1. Mono
      BY <2>1, <2>2, EndFacts
    <3>2. \A d \in Conn : entry'[d].shut = entry[d].shut
      BY <2>2, EntryFacts
    <3> QED
      BY <3>1, <3>2, RegistryWithdraws
  <2> QED
    BY <1>2, <2>1, <2>2
<1> QED
  BY <1>3, <1>4, <1>5, <1>6, <1>7, <1>8 DEF SaverStep, SweeperStep, CloserStep

\* The pool implements the registry: at any moment at most one entry of an asset is handed
\* out, none is handed out again once it was retired or unlinked by any of the actors, and
\* only such entries are closed.
THEOREM PoolIsRegistry == Spec => ImplementsRegistry
<1>1. Init => Registry!Init
  <2> SUFFICES ASSUME Init
               PROVE  Registry!Init
    OBVIOUS
  <2>1. \A c \in Conn : PhaseOf(c) = "unused"
    BY DEF Init, PhaseOf, Dialled, Unused
  <2>2. \A a \in Asset : ServedOf(a) = NoConn
    BY DEF Init, ServedOf, Usable
  <2> QED
    BY <2>1, <2>2 DEF Registry!Init, PhaseOf, ServedOf
<1>2. IInv /\ [Next]_vars => [Registry!Next]_Registry!vars
  <2> SUFFICES ASSUME IInv, [Next]_vars
               PROVE  [Registry!Next]_Registry!vars
    OBVIOUS
  <2>1. ASSUME NEW a \in Asset, FlightStep(a)
        PROVE  [Registry!Next]_Registry!vars
    <3>1. CASE FlightReuse(a) \/ FlightDial(a) \/ FlightFail(a)
      BY <3>1, RegistryWithdraws DEF FlightReuse, FlightDial, FlightFail, Mono
    <3> QED
      BY <2>1, <3>1, RegistryStores DEF FlightStep
  <2> QED
    BY <2>1, RegistryCaller, RegistryOthers DEF Next
<1> QED
  BY <1>1, <1>2, Invariance, PTL DEF Spec, ImplementsRegistry, Registry!Spec
=============================================================================

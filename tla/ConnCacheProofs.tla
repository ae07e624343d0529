--------------------------- MODULE ConnCacheProofs ---------------------------
(***************************************************************************)
(* Proofs about the connection cache, for any number of assets, keys,      *)
(* connections and callers.                                                *)
(***************************************************************************)
EXTENDS ConnCache, FiniteSetTheorems, TLAPS

-----------------------------------------------------------------------------
(* The inductive invariant *)

\* A caller inside an operation works on a key, and a caller that gives up a
\* hold has one.
KeyInv ==
  \A g \in Caller :
    /\ caller[g].pc # "out" => caller[g].key \in Key
    /\ caller[g].pc = "touched" => caller[g].held \in Conn

\* What is cached is open, current and nobody's to close.
SlotInv ==
  \A k \in Key : slot[k] # NoConn =>
    /\ conn[slot[k]].key = k
    /\ ~conn[slot[k]].shut
    /\ ~conn[slot[k]].outdated
    /\ slot[k] \notin closing

\* Connections about to be closed are still open.
ClosingInv ==
  \A c \in closing : Dialled(c) /\ ~conn[c].shut

\* A connection about to be discarded is open, in one caller's hands only.
DiscardInv ==
  \A g \in Caller : At(g, "discard") =>
    /\ caller[g].conn \in Conn
    /\ Dialled(caller[g].conn)
    /\ ~conn[caller[g].conn].shut
    /\ caller[g].conn \notin closing
    /\ \A k \in Key : slot[k] # caller[g].conn
    /\ \A h \in Caller : At(h, "discard") /\ caller[h].conn = caller[g].conn => h = g

\* Whoever runs a key's singleflight call is its leader, and nothing is cached
\* under the key while the leader dials.
LeaderInv ==
  \A g \in Caller :
    /\ caller[g].pc \in {"lead", "dial", "discard"} => leader[caller[g].key] = g
    /\ caller[g].pc = "dial" => slot[caller[g].key] = NoConn

\* The captured generation tells exactly whether the call is outdated.
GenInv ==
  \A g \in Caller : caller[g].pc \in {"do", "lead", "dial"} =>
    /\ caller[g].gen <= Gen(Owner[caller[g].key])
    /\ caller[g].outdated <=> caller[g].gen # Gen(Owner[caller[g].key])

\* Every save is followed by one invalidation.
SaveInv ==
  \A a \in Asset :
    /\ dropGen[a] <= config[a]
    /\ a \in saving => dropGen[a] < config[a]

\* The inductive invariant behind the cache's safety.
IInv ==
  /\ TypeOK /\ KeyInv /\ SlotInv /\ ClosingInv /\ DiscardInv
  /\ LeaderInv /\ GenInv /\ SaveInv /\ NoConnLost

-----------------------------------------------------------------------------
(* Steps shared by several actions *)

\* Ending a singleflight call with a connection takes its members to Hold and
\* touches nobody else.
LEMMA FinishFacts ==
  ASSUME IInv, NEW g \in Caller, NEW c \in Conn, Finish(g, c),
         caller[g].pc \in {"lead", "dial"}
  PROVE  /\ caller' \in [Caller -> CallerState]
         /\ leader' = [leader EXCEPT ![caller[g].key] = NoCaller]
         /\ \A h \in Caller :
              /\ caller'[h].key = caller[h].key
              /\ caller'[h].gen = caller[h].gen
              /\ caller'[h].outdated = caller[h].outdated
              /\ caller'[h].held = caller[h].held
              /\ caller'[h].pc = "hold" \/ (caller'[h] = caller[h] /\ h # g)
              /\ caller[h].pc # "wait" /\ h # g => caller'[h] = caller[h]
<1>1. /\ InCall(g) \subseteq Caller /\ g \in InCall(g)
      /\ \A h \in InCall(g) : h # g => caller[h].pc = "wait"
  BY DEF InCall, At
<1>2. caller \in [Caller -> CallerState]
  BY DEF IInv, TypeOK
<1>3. caller' = [h \in Caller |->
        IF h \in InCall(g) THEN [caller[h] EXCEPT !.pc = "hold", !.conn = c] ELSE caller[h]]
  BY DEF Finish
<1>4. \A r \in CallerState :
        /\ [r EXCEPT !.pc = "hold", !.conn = c] \in CallerState
        /\ [r EXCEPT !.pc = "hold", !.conn = c].pc = "hold"
        /\ [r EXCEPT !.pc = "hold", !.conn = c].key = r.key
        /\ [r EXCEPT !.pc = "hold", !.conn = c].gen = r.gen
        /\ [r EXCEPT !.pc = "hold", !.conn = c].outdated = r.outdated
        /\ [r EXCEPT !.pc = "hold", !.conn = c].held = r.held
  BY DEF CallerState, CallerPC
<1>5. caller' \in [Caller -> CallerState]
  BY <1>1, <1>2, <1>3, <1>4
<1>6. ASSUME NEW h \in Caller
      PROVE  /\ caller'[h].key = caller[h].key
             /\ caller'[h].gen = caller[h].gen
             /\ caller'[h].outdated = caller[h].outdated
             /\ caller'[h].held = caller[h].held
             /\ caller'[h].pc = "hold" \/ (caller'[h] = caller[h] /\ h # g)
             /\ caller[h].pc # "wait" /\ h # g => caller'[h] = caller[h]
  <2>1. CASE h \in InCall(g)
    <3>1. caller'[h] = [caller[h] EXCEPT !.pc = "hold", !.conn = c]
      BY <2>1, <1>3
    <3>2. caller[h] \in CallerState /\ (h # g => caller[h].pc = "wait")
      BY <1>1, <1>2, <2>1
    <3>3. /\ caller'[h].key = caller[h].key
          /\ caller'[h].gen = caller[h].gen
          /\ caller'[h].outdated = caller[h].outdated
          /\ caller'[h].held = caller[h].held
          /\ caller'[h].pc = "hold"
      BY <3>1, <3>2, <1>4
    <3> QED
      BY <3>2, <3>3
  <2>2. CASE h \notin InCall(g)
    BY <2>2, <1>1, <1>3
  <2> QED
    BY <2>1, <2>2
<1> QED
  BY <1>5, <1>6 DEF Finish

\* Ending it with an error ends the operations of its members.
LEMMA FailFacts ==
  ASSUME IInv, NEW g \in Caller, NEW err \in Result, Fail(g, err)
  PROVE  /\ caller' \in [Caller -> CallerState]
         /\ leader' = [leader EXCEPT ![caller[g].key] = NoCaller]
         /\ \A h \in Caller :
              /\ caller'[h].pc = "out" \/ (caller'[h] = caller[h] /\ h # g)
              /\ caller[h].pc # "wait" /\ h # g => caller'[h] = caller[h]
<1>1. /\ InCall(g) \subseteq Caller /\ g \in InCall(g)
      /\ \A h \in InCall(g) : h # g => caller[h].pc = "wait"
  BY DEF InCall, At
<1>2. caller \in [Caller -> CallerState]
  BY DEF IInv, TypeOK
<1>3. caller' = [h \in Caller |->
        IF h \in InCall(g) THEN [Outside EXCEPT !.res = err] ELSE caller[h]]
  BY DEF Fail
<1>4. [Outside EXCEPT !.res = err] \in CallerState /\ [Outside EXCEPT !.res = err].pc = "out"
  BY DEF CallerState, CallerPC, Outside
<1> QED
  BY <1>1, <1>2, <1>3, <1>4 DEF Fail

\* An invalidation marks calls and connections, and changes nothing else of
\* them.
LEMMA OutdateFacts ==
  ASSUME IInv, NEW A \in SUBSET Asset, Outdate(A)
  PROVE  /\ caller' \in [Caller -> CallerState]
         /\ conn' \in [Conn -> Entry]
         /\ \A g \in Caller :
              /\ caller'[g].pc = caller[g].pc
              /\ caller'[g].key = caller[g].key
              /\ caller'[g].gen = caller[g].gen
              /\ caller'[g].conn = caller[g].conn
              /\ caller'[g].held = caller[g].held
              /\ caller'[g].outdated <=>
                   caller[g].outdated \/ (caller[g].key # NoKey /\ Owner[caller[g].key] \in A)
         /\ \A c \in Conn :
              /\ conn'[c].key = conn[c].key
              /\ conn'[c].shut = conn[c].shut
              /\ conn'[c].outdated <=>
                   conn[c].outdated \/ (Dialled(c) /\ Owner[conn[c].key] \in A)
<1>1. caller \in [Caller -> CallerState] /\ conn \in [Conn -> Entry]
  BY DEF IInv, TypeOK
<1>2. \A r \in CallerState, b \in BOOLEAN :
        /\ [r EXCEPT !.outdated = b] \in CallerState
        /\ [r EXCEPT !.outdated = b].pc = r.pc
        /\ [r EXCEPT !.outdated = b].key = r.key
        /\ [r EXCEPT !.outdated = b].gen = r.gen
        /\ [r EXCEPT !.outdated = b].conn = r.conn
        /\ [r EXCEPT !.outdated = b].held = r.held
        /\ [r EXCEPT !.outdated = b].outdated = b
  BY DEF CallerState
<1>3. \A r \in Entry, b \in BOOLEAN :
        /\ [r EXCEPT !.outdated = b] \in Entry
        /\ [r EXCEPT !.outdated = b].key = r.key
        /\ [r EXCEPT !.outdated = b].shut = r.shut
        /\ [r EXCEPT !.outdated = b].outdated = b
  BY DEF Entry
<1>4. \A g \in Caller : caller'[g] = [caller[g] EXCEPT !.outdated =
        caller[g].outdated \/ (caller[g].key # NoKey /\ Owner[caller[g].key] \in A)]
  BY DEF Outdate
<1>5. \A c \in Conn : conn'[c] = [conn[c] EXCEPT !.outdated =
        conn[c].outdated \/ (Dialled(c) /\ Owner[conn[c].key] \in A)]
  BY DEF Outdate
<1>6. \A g \in Caller : (caller[g].outdated \/ (caller[g].key # NoKey /\ Owner[caller[g].key] \in A)) \in BOOLEAN
  BY <1>1 DEF CallerState
<1>7. \A c \in Conn : (conn[c].outdated \/ (Dialled(c) /\ Owner[conn[c].key] \in A)) \in BOOLEAN
  BY <1>1 DEF Entry
<1>8. caller' \in [Caller -> CallerState]
  BY <1>1, <1>2, <1>4, <1>6 DEF Outdate
<1>9. conn' \in [Conn -> Entry]
  BY <1>1, <1>3, <1>5, <1>7 DEF Outdate
<1>10. \A g \in Caller :
              /\ caller'[g].pc = caller[g].pc
              /\ caller'[g].key = caller[g].key
              /\ caller'[g].gen = caller[g].gen
              /\ caller'[g].conn = caller[g].conn
              /\ caller'[g].held = caller[g].held
              /\ caller'[g].outdated <=>
                   caller[g].outdated \/ (caller[g].key # NoKey /\ Owner[caller[g].key] \in A)
  <2> SUFFICES ASSUME NEW g \in Caller
               PROVE  <1>10!(g)
    OBVIOUS
  <2> DEFINE b == caller[g].outdated \/ (caller[g].key # NoKey /\ Owner[caller[g].key] \in A)
  <2>1. caller[g] \in CallerState /\ b \in BOOLEAN /\ caller'[g] = [caller[g] EXCEPT !.outdated = b]
    BY <1>1, <1>4, <1>6
  <2> HIDE DEF b
  <2>2. caller'[g].outdated = b
    BY <2>1, <1>2
  <2> QED
    BY <2>1, <2>2, <1>2 DEF b
<1>11. \A c \in Conn :
              /\ conn'[c].key = conn[c].key
              /\ conn'[c].shut = conn[c].shut
              /\ conn'[c].outdated <=>
                   conn[c].outdated \/ (Dialled(c) /\ Owner[conn[c].key] \in A)
  <2> SUFFICES ASSUME NEW c \in Conn
               PROVE  <1>11!(c)
    OBVIOUS
  <2> DEFINE b == conn[c].outdated \/ (Dialled(c) /\ Owner[conn[c].key] \in A)
  <2>1. conn[c] \in Entry /\ b \in BOOLEAN /\ conn'[c] = [conn[c] EXCEPT !.outdated = b]
    BY <1>1, <1>5, <1>7
  <2> HIDE DEF b
  <2>2. conn'[c].outdated = b
    BY <2>1, <1>3
  <2> QED
    BY <2>1, <2>2, <1>3 DEF b
<1> QED
  BY <1>8, <1>9, <1>10, <1>11

-----------------------------------------------------------------------------
(* Every action keeps it *)

\* The caller step Load.
LEMMA LoadKeeps ==
  ASSUME IInv, NEW g \in Caller, NEW k \in Key, Load(g, k)
  PROVE  IInv'
<1>1. TypeOK'
  <2>1. caller' \in [Caller -> CallerState]
    <3>1. config[Owner[k]] \in Nat
      BY CacheConstants DEF IInv, TypeOK
    <3>2. [Outside EXCEPT !.pc = "get", !.key = k, !.ver = config[Owner[k]]] \in CallerState
      BY <3>1 DEF CallerState, CallerPC, Result, Outside
    <3> QED
      BY <3>2 DEF IInv, TypeOK, Load
  <2>2. conn' \in [Conn -> Entry]
    BY DEF IInv, TypeOK, Load
  <2> QED
    BY <2>1, <2>2, CacheConstants DEF IInv, TypeOK, KeyInv, SaveInv, Load
<1>2. KeyInv'
  BY CacheConstants DEF IInv, TypeOK, KeyInv, Entry, CallerState, CallerPC, Result, Outside, Unused, At, Dialled, Gen, Load
<1>3. SlotInv'
  BY CacheConstants DEF IInv, TypeOK, KeyInv, SlotInv, LeaderInv, GenInv, ClosingInv, DiscardInv, Entry, CallerState, CallerPC, Result, Outside, Unused, At, Dialled, Gen, Load
<1>4. ClosingInv'
  BY CacheConstants DEF IInv, TypeOK, KeyInv, SlotInv, ClosingInv, DiscardInv, Entry, CallerState, CallerPC, Result, Outside, Unused, At, Dialled, Gen, Load
<1>5. DiscardInv'
  BY CacheConstants DEF IInv, TypeOK, KeyInv, SlotInv, ClosingInv, DiscardInv, LeaderInv, Entry, CallerState, CallerPC, Result, Outside, Unused, At, Dialled, Gen, Load
<1>6. LeaderInv'
  BY CacheConstants DEF IInv, TypeOK, KeyInv, LeaderInv, Entry, CallerState, CallerPC, Result, Outside, Unused, At, Dialled, Gen, Load
<1>7. GenInv'
  BY CacheConstants DEF IInv, TypeOK, KeyInv, GenInv, Entry, CallerState, CallerPC, Result, Outside, Unused, At, Dialled, Gen, Load
<1>8. SaveInv'
  BY CacheConstants DEF IInv, TypeOK, SaveInv, Entry, CallerState, CallerPC, Result, Outside, Unused, At, Dialled, Gen, Load
<1>9. NoConnLost'
  BY CacheConstants DEF IInv, TypeOK, KeyInv, SlotInv, LeaderInv, DiscardInv, NoConnLost, Entry, CallerState, CallerPC, Result, Outside, Unused, At, Dialled, Gen, Load
<1> QED
  BY <1>1, <1>2, <1>3, <1>4, <1>5, <1>6, <1>7, <1>8, <1>9 DEF IInv

\* The caller step GetOrDial.
LEMMA GetOrDialKeeps ==
  ASSUME IInv, NEW g \in Caller, GetOrDial(g)
  PROVE  IInv'
<1>1. TypeOK'
  <2>1. caller' \in [Caller -> CallerState]
    <3>1. caller[g] \in CallerState /\ caller[g].key \in Key
      BY DEF IInv, TypeOK, KeyInv, GetOrDial, At
    <3>2. slot[caller[g].key] \in Conn \cup {NoConn} /\ Gen(Owner[caller[g].key]) \in Nat
      BY <3>1, CacheConstants DEF IInv, TypeOK, Gen
    <3>3. [caller[g] EXCEPT !.pc = "hold", !.conn = slot[caller[g].key]] \in CallerState
      BY <3>1, <3>2 DEF CallerState, CallerPC
    <3>4. [caller[g] EXCEPT !.pc = "do", !.gen = Gen(Owner[caller[g].key]), !.outdated = FALSE] \in CallerState
      BY <3>1, <3>2 DEF CallerState, CallerPC
    <3> QED
      BY <3>3, <3>4 DEF IInv, TypeOK, GetOrDial
  <2>2. conn' \in [Conn -> Entry]
    BY DEF IInv, TypeOK, GetOrDial
  <2> QED
    BY <2>1, <2>2, CacheConstants DEF IInv, TypeOK, KeyInv, SaveInv, GetOrDial
<1>2. KeyInv'
  BY CacheConstants DEF IInv, TypeOK, KeyInv, Entry, CallerState, CallerPC, Result, Outside, Unused, At, Dialled, Gen, GetOrDial
<1>3. SlotInv'
  BY CacheConstants DEF IInv, TypeOK, KeyInv, SlotInv, LeaderInv, GenInv, ClosingInv, DiscardInv, Entry, CallerState, CallerPC, Result, Outside, Unused, At, Dialled, Gen, GetOrDial
<1>4. ClosingInv'
  BY CacheConstants DEF IInv, TypeOK, KeyInv, SlotInv, ClosingInv, DiscardInv, Entry, CallerState, CallerPC, Result, Outside, Unused, At, Dialled, Gen, GetOrDial
<1>5. DiscardInv'
  BY CacheConstants DEF IInv, TypeOK, KeyInv, SlotInv, ClosingInv, DiscardInv, LeaderInv, Entry, CallerState, CallerPC, Result, Outside, Unused, At, Dialled, Gen, GetOrDial
<1>6. LeaderInv'
  BY CacheConstants DEF IInv, TypeOK, KeyInv, LeaderInv, Entry, CallerState, CallerPC, Result, Outside, Unused, At, Dialled, Gen, GetOrDial
<1>7. GenInv'
  BY CacheConstants DEF IInv, TypeOK, KeyInv, GenInv, Entry, CallerState, CallerPC, Result, Outside, Unused, At, Dialled, Gen, GetOrDial
<1>8. SaveInv'
  BY CacheConstants DEF IInv, TypeOK, SaveInv, Entry, CallerState, CallerPC, Result, Outside, Unused, At, Dialled, Gen, GetOrDial
<1>9. NoConnLost'
  BY CacheConstants DEF IInv, TypeOK, KeyInv, SlotInv, LeaderInv, DiscardInv, NoConnLost, Entry, CallerState, CallerPC, Result, Outside, Unused, At, Dialled, Gen, GetOrDial
<1> QED
  BY <1>1, <1>2, <1>3, <1>4, <1>5, <1>6, <1>7, <1>8, <1>9 DEF IInv

\* The caller step Do.
LEMMA DoKeeps ==
  ASSUME IInv, NEW g \in Caller, Do(g)
  PROVE  IInv'
<1>1. TypeOK'
  <2>1. caller' \in [Caller -> CallerState]
    BY CacheConstants DEF IInv, TypeOK, KeyInv, CallerState, CallerPC, Result, Outside, At, Gen, Do
  <2>2. conn' \in [Conn -> Entry]
    BY DEF IInv, TypeOK, Do
  <2> QED
    BY <2>1, <2>2, CacheConstants DEF IInv, TypeOK, KeyInv, SaveInv, Do
<1>2. KeyInv'
  BY CacheConstants DEF IInv, TypeOK, KeyInv, Entry, CallerState, CallerPC, Result, Outside, Unused, At, Dialled, Gen, Do
<1>3. SlotInv'
  BY CacheConstants DEF IInv, TypeOK, KeyInv, SlotInv, LeaderInv, GenInv, ClosingInv, DiscardInv, Entry, CallerState, CallerPC, Result, Outside, Unused, At, Dialled, Gen, Do
<1>4. ClosingInv'
  BY CacheConstants DEF IInv, TypeOK, KeyInv, SlotInv, ClosingInv, DiscardInv, Entry, CallerState, CallerPC, Result, Outside, Unused, At, Dialled, Gen, Do
<1>5. DiscardInv'
  BY CacheConstants DEF IInv, TypeOK, KeyInv, SlotInv, ClosingInv, DiscardInv, LeaderInv, Entry, CallerState, CallerPC, Result, Outside, Unused, At, Dialled, Gen, Do
<1>6. LeaderInv'
  BY CacheConstants DEF IInv, TypeOK, KeyInv, LeaderInv, Entry, CallerState, CallerPC, Result, Outside, Unused, At, Dialled, Gen, Do
<1>7. GenInv'
  BY CacheConstants DEF IInv, TypeOK, KeyInv, GenInv, Entry, CallerState, CallerPC, Result, Outside, Unused, At, Dialled, Gen, Do
<1>8. SaveInv'
  BY CacheConstants DEF IInv, TypeOK, SaveInv, Entry, CallerState, CallerPC, Result, Outside, Unused, At, Dialled, Gen, Do
<1>9. NoConnLost'
  BY CacheConstants DEF IInv, TypeOK, KeyInv, SlotInv, LeaderInv, DiscardInv, NoConnLost, Entry, CallerState, CallerPC, Result, Outside, Unused, At, Dialled, Gen, Do
<1> QED
  BY <1>1, <1>2, <1>3, <1>4, <1>5, <1>6, <1>7, <1>8, <1>9 DEF IInv

\* The caller step Hold.
LEMMA HoldKeeps ==
  ASSUME IInv, NEW g \in Caller, Hold(g)
  PROVE  IInv'
<1>1. TypeOK'
  <2>1. caller' \in [Caller -> CallerState]
    <3>1. caller[g] \in CallerState /\ slot[caller[g].key] \in Conn \cup {NoConn}
      BY DEF IInv, TypeOK, KeyInv, Hold, At
    <3>2. [caller[g] EXCEPT !.pc = "use", !.held = slot[caller[g].key], !.res = "client"] \in CallerState
      BY <3>1 DEF CallerState, CallerPC, Result
    <3> QED
      BY <3>2 DEF IInv, TypeOK, Hold
  <2>2. conn' \in [Conn -> Entry]
    BY CacheConstants DEF IInv, TypeOK, KeyInv, Entry, At, Hold
  <2> QED
    BY <2>1, <2>2, CacheConstants DEF IInv, TypeOK, KeyInv, SaveInv, Hold
<1>2. KeyInv'
  BY CacheConstants DEF IInv, TypeOK, KeyInv, Entry, CallerState, CallerPC, Result, Outside, Unused, At, Dialled, Gen, Hold
<1>3. SlotInv'
  BY CacheConstants DEF IInv, TypeOK, KeyInv, SlotInv, LeaderInv, GenInv, ClosingInv, DiscardInv, Entry, CallerState, CallerPC, Result, Outside, Unused, At, Dialled, Gen, Hold
<1>4. ClosingInv'
  BY CacheConstants DEF IInv, TypeOK, KeyInv, SlotInv, ClosingInv, DiscardInv, Entry, CallerState, CallerPC, Result, Outside, Unused, At, Dialled, Gen, Hold
<1>5. DiscardInv'
  BY CacheConstants DEF IInv, TypeOK, KeyInv, SlotInv, ClosingInv, DiscardInv, LeaderInv, Entry, CallerState, CallerPC, Result, Outside, Unused, At, Dialled, Gen, Hold
<1>6. LeaderInv'
  BY CacheConstants DEF IInv, TypeOK, KeyInv, LeaderInv, Entry, CallerState, CallerPC, Result, Outside, Unused, At, Dialled, Gen, Hold
<1>7. GenInv'
  BY CacheConstants DEF IInv, TypeOK, KeyInv, GenInv, Entry, CallerState, CallerPC, Result, Outside, Unused, At, Dialled, Gen, Hold
<1>8. SaveInv'
  BY CacheConstants DEF IInv, TypeOK, SaveInv, Entry, CallerState, CallerPC, Result, Outside, Unused, At, Dialled, Gen, Hold
<1>9. NoConnLost'
  <2> SUFFICES ASSUME NEW c \in Conn, Dialled(c)', ~conn'[c].shut
               PROVE  \/ slot'[conn'[c].key] = c \/ c \in closing'
                      \/ \E h \in Caller : At(h, "discard")' /\ caller'[h].conn = c
    BY DEF NoConnLost
  <2>1. Dialled(c) /\ ~conn[c].shut /\ conn'[c].key = conn[c].key /\ slot' = slot /\ closing' = closing
    BY DEF IInv, TypeOK, Entry, Dialled, DiscardInv, At, Hold
  <2>2. CASE \E h \in Caller : At(h, "discard") /\ caller[h].conn = c
    <3>1. PICK h \in Caller : At(h, "discard") /\ caller[h].conn = c
      BY <2>2
    <3>2. At(h, "discard")' /\ caller'[h].conn = c
      BY <3>1, CacheConstants DEF IInv, TypeOK, CallerState, DiscardInv, Entry, At, Hold
    <3> QED
      BY <3>2
  <2>3. CASE slot[conn[c].key] = c \/ c \in closing
    BY <2>1, <2>3
  <2> QED
    BY <2>1, <2>2, <2>3 DEF IInv, NoConnLost
<1> QED
  BY <1>1, <1>2, <1>3, <1>4, <1>5, <1>6, <1>7, <1>8, <1>9 DEF IInv

\* The caller step UseUnheld.
LEMMA UseUnheldKeeps ==
  ASSUME IInv, NEW g \in Caller, UseUnheld(g)
  PROVE  IInv'
<1>1. TypeOK'
  <2>1. caller' \in [Caller -> CallerState]
    <3>1. caller[g] \in CallerState
      BY DEF IInv, TypeOK
    <3>2. [caller[g] EXCEPT !.pc = "use", !.res = "client"] \in CallerState
      BY <3>1 DEF CallerState, CallerPC, Result
    <3> QED
      BY <3>2 DEF IInv, TypeOK, UseUnheld
  <2>2. conn' \in [Conn -> Entry]
    BY DEF IInv, TypeOK, UseUnheld
  <2> QED
    BY <2>1, <2>2, CacheConstants DEF IInv, TypeOK, KeyInv, SaveInv, UseUnheld
<1>2. KeyInv'
  BY CacheConstants DEF IInv, TypeOK, KeyInv, Entry, CallerState, CallerPC, Result, Outside, Unused, At, Dialled, Gen, UseUnheld
<1>3. SlotInv'
  BY CacheConstants DEF IInv, TypeOK, KeyInv, SlotInv, LeaderInv, GenInv, ClosingInv, DiscardInv, Entry, CallerState, CallerPC, Result, Outside, Unused, At, Dialled, Gen, UseUnheld
<1>4. ClosingInv'
  BY CacheConstants DEF IInv, TypeOK, KeyInv, SlotInv, ClosingInv, DiscardInv, Entry, CallerState, CallerPC, Result, Outside, Unused, At, Dialled, Gen, UseUnheld
<1>5. DiscardInv'
  BY CacheConstants DEF IInv, TypeOK, KeyInv, SlotInv, ClosingInv, DiscardInv, LeaderInv, Entry, CallerState, CallerPC, Result, Outside, Unused, At, Dialled, Gen, UseUnheld
<1>6. LeaderInv'
  BY CacheConstants DEF IInv, TypeOK, KeyInv, LeaderInv, Entry, CallerState, CallerPC, Result, Outside, Unused, At, Dialled, Gen, UseUnheld
<1>7. GenInv'
  BY CacheConstants DEF IInv, TypeOK, KeyInv, GenInv, Entry, CallerState, CallerPC, Result, Outside, Unused, At, Dialled, Gen, UseUnheld
<1>8. SaveInv'
  BY CacheConstants DEF IInv, TypeOK, SaveInv, Entry, CallerState, CallerPC, Result, Outside, Unused, At, Dialled, Gen, UseUnheld
<1>9. NoConnLost'
  BY CacheConstants DEF IInv, TypeOK, KeyInv, SlotInv, LeaderInv, DiscardInv, NoConnLost, Entry, CallerState, CallerPC, Result, Outside, Unused, At, Dialled, Gen, UseUnheld
<1> QED
  BY <1>1, <1>2, <1>3, <1>4, <1>5, <1>6, <1>7, <1>8, <1>9 DEF IInv

\* The caller step Touch.
LEMMA TouchKeeps ==
  ASSUME IInv, NEW g \in Caller, Touch(g)
  PROVE  IInv'
<1>1. TypeOK'
  <2>1. caller' \in [Caller -> CallerState]
    <3>1. caller[g] \in CallerState /\ Outside \in CallerState
      BY DEF IInv, TypeOK, CallerState, CallerPC, Result, Outside
    <3>2. [caller[g] EXCEPT !.pc = "touched"] \in CallerState
      BY <3>1 DEF CallerState, CallerPC
    <3> QED
      BY <3>1, <3>2 DEF IInv, TypeOK, Touch
  <2>2. conn' \in [Conn -> Entry]
    BY DEF IInv, TypeOK, Touch
  <2> QED
    BY <2>1, <2>2, CacheConstants DEF IInv, TypeOK, KeyInv, SaveInv, Touch
<1>2. KeyInv'
  BY CacheConstants DEF IInv, TypeOK, KeyInv, Entry, CallerState, CallerPC, Result, Outside, Unused, At, Dialled, Gen, Touch
<1>3. SlotInv'
  BY CacheConstants DEF IInv, TypeOK, KeyInv, SlotInv, LeaderInv, GenInv, ClosingInv, DiscardInv, Entry, CallerState, CallerPC, Result, Outside, Unused, At, Dialled, Gen, Touch
<1>4. ClosingInv'
  BY CacheConstants DEF IInv, TypeOK, KeyInv, SlotInv, ClosingInv, DiscardInv, Entry, CallerState, CallerPC, Result, Outside, Unused, At, Dialled, Gen, Touch
<1>5. DiscardInv'
  BY CacheConstants DEF IInv, TypeOK, KeyInv, SlotInv, ClosingInv, DiscardInv, LeaderInv, Entry, CallerState, CallerPC, Result, Outside, Unused, At, Dialled, Gen, Touch
<1>6. LeaderInv'
  BY CacheConstants DEF IInv, TypeOK, KeyInv, LeaderInv, Entry, CallerState, CallerPC, Result, Outside, Unused, At, Dialled, Gen, Touch
<1>7. GenInv'
  BY CacheConstants DEF IInv, TypeOK, KeyInv, GenInv, Entry, CallerState, CallerPC, Result, Outside, Unused, At, Dialled, Gen, Touch
<1>8. SaveInv'
  BY CacheConstants DEF IInv, TypeOK, SaveInv, Entry, CallerState, CallerPC, Result, Outside, Unused, At, Dialled, Gen, Touch
<1>9. NoConnLost'
  BY CacheConstants DEF IInv, TypeOK, KeyInv, SlotInv, LeaderInv, DiscardInv, NoConnLost, Entry, CallerState, CallerPC, Result, Outside, Unused, At, Dialled, Gen, Touch
<1> QED
  BY <1>1, <1>2, <1>3, <1>4, <1>5, <1>6, <1>7, <1>8, <1>9 DEF IInv

\* The caller step Unhold.
LEMMA UnholdKeeps ==
  ASSUME IInv, NEW g \in Caller, Unhold(g)
  PROVE  IInv'
<1>1. TypeOK'
  <2>1. caller' \in [Caller -> CallerState]
    BY CacheConstants DEF IInv, TypeOK, KeyInv, CallerState, CallerPC, Result, Outside, At, Gen, Unhold
  <2>2. conn' \in [Conn -> Entry]
    BY CacheConstants DEF IInv, TypeOK, KeyInv, Entry, At, Unhold
  <2> QED
    BY <2>1, <2>2, CacheConstants DEF IInv, TypeOK, KeyInv, SaveInv, Unhold
<1>2. KeyInv'
  BY CacheConstants DEF IInv, TypeOK, KeyInv, Entry, CallerState, CallerPC, Result, Outside, Unused, At, Dialled, Gen, Unhold
<1>3. SlotInv'
  BY CacheConstants DEF IInv, TypeOK, KeyInv, SlotInv, LeaderInv, GenInv, ClosingInv, DiscardInv, Entry, CallerState, CallerPC, Result, Outside, Unused, At, Dialled, Gen, Unhold
<1>4. ClosingInv'
  BY CacheConstants DEF IInv, TypeOK, KeyInv, SlotInv, ClosingInv, DiscardInv, Entry, CallerState, CallerPC, Result, Outside, Unused, At, Dialled, Gen, Unhold
<1>5. DiscardInv'
  BY CacheConstants DEF IInv, TypeOK, KeyInv, SlotInv, ClosingInv, DiscardInv, LeaderInv, Entry, CallerState, CallerPC, Result, Outside, Unused, At, Dialled, Gen, Unhold
<1>6. LeaderInv'
  BY CacheConstants DEF IInv, TypeOK, KeyInv, LeaderInv, Entry, CallerState, CallerPC, Result, Outside, Unused, At, Dialled, Gen, Unhold
<1>7. GenInv'
  BY CacheConstants DEF IInv, TypeOK, KeyInv, GenInv, Entry, CallerState, CallerPC, Result, Outside, Unused, At, Dialled, Gen, Unhold
<1>8. SaveInv'
  BY CacheConstants DEF IInv, TypeOK, SaveInv, Entry, CallerState, CallerPC, Result, Outside, Unused, At, Dialled, Gen, Unhold
<1>9. NoConnLost'
  BY CacheConstants DEF IInv, TypeOK, KeyInv, SlotInv, LeaderInv, DiscardInv, NoConnLost, Entry, CallerState, CallerPC, Result, Outside, Unused, At, Dialled, Gen, Unhold
<1> QED
  BY <1>1, <1>2, <1>3, <1>4, <1>5, <1>6, <1>7, <1>8, <1>9 DEF IInv

\* Recheck: a hit ends the call, a miss leads to the dial.
LEMMA RecheckKeeps ==
  ASSUME IInv, NEW g \in Caller, Recheck(g)
  PROVE  IInv'
<1>1. CASE slot[caller[g].key] # NoConn
  <2>1. slot[caller[g].key] \in Conn /\ Finish(g, slot[caller[g].key]) /\ caller[g].pc = "lead"
    BY <1>1 DEF IInv, TypeOK, KeyInv, Recheck, At
  <2> USE <2>1, FinishFacts, CacheConstants
  <2>2. TypeOK'
    BY DEF IInv, TypeOK, KeyInv, Recheck
  <2>3. KeyInv'
    BY DEF IInv, KeyInv, Recheck
  <2>4. SlotInv'
    BY DEF IInv, SlotInv, Recheck
  <2>5. ClosingInv'
    BY DEF IInv, ClosingInv, Dialled, Recheck
  <2>6. DiscardInv'
    BY DEF IInv, DiscardInv, Dialled, At, Recheck
  <2>7. LeaderInv'
    BY DEF IInv, TypeOK, KeyInv, LeaderInv, Recheck
  <2>8. GenInv'
    BY DEF IInv, TypeOK, KeyInv, GenInv, Gen, Recheck
  <2>9. SaveInv'
    BY DEF IInv, SaveInv, Recheck
  <2>10. NoConnLost'
    <3> SUFFICES ASSUME NEW c \in Conn, Dialled(c)', ~conn'[c].shut
                 PROVE  \/ slot'[conn'[c].key] = c \/ c \in closing'
                        \/ \E h \in Caller : At(h, "discard")' /\ caller'[h].conn = c
      BY DEF NoConnLost
    <3>1. Dialled(c) /\ ~conn[c].shut /\ conn'[c].key = conn[c].key /\ slot' = slot /\ closing' = closing
      BY DEF IInv, TypeOK, Entry, Dialled, DiscardInv, At, Recheck
    <3>2. CASE \E h \in Caller : At(h, "discard") /\ caller[h].conn = c
      <4>1. PICK h \in Caller : At(h, "discard") /\ caller[h].conn = c
        BY <3>2
      <4>2. \A i \in Caller : caller[i].pc # "wait" /\ i # g => caller'[i] = caller[i]
        BY <2>1, FinishFacts
      <4>3. At(h, "discard")' /\ caller'[h].conn = c
        BY <4>1, <4>2, <2>1 DEF At
      <4> QED
        BY <4>3
    <3>3. CASE slot[conn[c].key] = c \/ c \in closing
      BY <3>1, <3>3
    <3> QED
      BY <3>1, <3>2, <3>3 DEF IInv, NoConnLost
  <2> QED
    BY <2>2, <2>3, <2>4, <2>5, <2>6, <2>7, <2>8, <2>9, <2>10 DEF IInv
<1>2. CASE slot[caller[g].key] = NoConn
  <2> USE <1>2, CacheConstants
  <2>0. caller' = [caller EXCEPT ![g].pc = "dial"] /\ caller[g].pc = "lead" /\ leader' = leader
    BY DEF Recheck, At
  <2>1. TypeOK'
    BY <2>0 DEF IInv, TypeOK, CallerState, CallerPC, Recheck
  <2>2. KeyInv'
    BY <2>0 DEF IInv, TypeOK, KeyInv, CallerState, Recheck
  <2>3. SlotInv'
    BY <2>0 DEF IInv, SlotInv, Recheck
  <2>4. ClosingInv'
    BY <2>0 DEF IInv, ClosingInv, Dialled, Recheck
  <2>5. DiscardInv'
    BY <2>0 DEF IInv, TypeOK, DiscardInv, Dialled, At, CallerState, Recheck
  <2>6. LeaderInv'
    BY <2>0 DEF IInv, TypeOK, KeyInv, LeaderInv, CallerState, Recheck
  <2>7. GenInv'
    BY <2>0 DEF IInv, TypeOK, KeyInv, GenInv, Gen, CallerState, Recheck
  <2>8. SaveInv'
    BY <2>0 DEF IInv, SaveInv, Recheck
  <2>9. NoConnLost'
    BY <2>0 DEF IInv, TypeOK, NoConnLost, Dialled, At, CallerState, Recheck
  <2> QED
    BY <2>1, <2>2, <2>3, <2>4, <2>5, <2>6, <2>7, <2>8, <2>9 DEF IInv
<1> QED
  BY <1>1, <1>2

\* Discard closes the leader's connection and fails the call.
LEMMA DiscardKeeps ==
  ASSUME IInv, NEW g \in Caller, Discard(g)
  PROVE  IInv'
<1> USE CacheConstants
<1>1. /\ caller[g].pc = "discard" /\ caller' \in [Caller -> CallerState]
      /\ leader' = [leader EXCEPT ![caller[g].key] = NoCaller]
      /\ \A h \in Caller :
           /\ caller'[h].pc = "out" \/ (caller'[h] = caller[h] /\ h # g)
           /\ caller[h].pc # "wait" /\ h # g => caller'[h] = caller[h]
  BY FailFacts DEF Discard, Result, At
<1>2. TypeOK'
  BY <1>1 DEF IInv, TypeOK, KeyInv, Entry, Discard
<1>3. KeyInv'
  BY <1>1 DEF IInv, KeyInv, Discard
<1>4. SlotInv'
  BY <1>1 DEF IInv, TypeOK, Entry, SlotInv, DiscardInv, At, Discard
<1>5. ClosingInv'
  BY <1>1 DEF IInv, TypeOK, Entry, DiscardInv, ClosingInv, Dialled, At, Discard
<1>6. DiscardInv'
  BY <1>1 DEF IInv, TypeOK, Entry, DiscardInv, Dialled, At, Discard
<1>7. LeaderInv'
  BY <1>1 DEF IInv, TypeOK, KeyInv, LeaderInv, Discard
<1>8. GenInv'
  BY <1>1 DEF IInv, GenInv, Gen, Discard
<1>9. SaveInv'
  BY <1>1 DEF IInv, SaveInv, Discard
<1>10. NoConnLost'
  <2> SUFFICES ASSUME NEW c \in Conn, Dialled(c)', ~conn'[c].shut
               PROVE  \/ slot'[conn'[c].key] = c \/ c \in closing'
                      \/ \E h \in Caller : At(h, "discard")' /\ caller'[h].conn = c
    BY DEF NoConnLost
  <2>1. Dialled(c) /\ ~conn[c].shut /\ conn'[c].key = conn[c].key /\ slot' = slot /\ closing' = closing
    BY DEF IInv, TypeOK, Entry, Dialled, DiscardInv, At, Discard
  <2>2. CASE \E h \in Caller : At(h, "discard") /\ caller[h].conn = c
    <3>1. PICK h \in Caller : At(h, "discard") /\ caller[h].conn = c
      BY <2>2
    <3>2. At(h, "discard")' /\ caller'[h].conn = c
      BY <3>1, <1>1 DEF IInv, TypeOK, CallerState, DiscardInv, Entry, At, Discard
    <3> QED
      BY <3>2
  <2>3. CASE slot[conn[c].key] = c \/ c \in closing
    BY <2>1, <2>3
  <2> QED
    BY <2>1, <2>2, <2>3 DEF IInv, NoConnLost
<1> QED
  BY <1>2, <1>3, <1>4, <1>5, <1>6, <1>7, <1>8, <1>9, <1>10 DEF IInv

\* DialFail fails the call, and no connection is involved.
LEMMA DialFailKeeps ==
  ASSUME IInv, NEW g \in Caller, DialFail(g)
  PROVE  IInv'
<1> USE CacheConstants
<1>1. /\ caller[g].pc = "dial" /\ caller' \in [Caller -> CallerState]
      /\ leader' = [leader EXCEPT ![caller[g].key] = NoCaller]
      /\ \A h \in Caller :
           /\ caller'[h].pc = "out" \/ (caller'[h] = caller[h] /\ h # g)
           /\ caller[h].pc # "wait" /\ h # g => caller'[h] = caller[h]
  BY FailFacts DEF DialFail, Result, At
<1>2. TypeOK'
  BY <1>1 DEF IInv, TypeOK, KeyInv, Entry, DialFail
<1>3. KeyInv'
  BY <1>1 DEF IInv, KeyInv, DialFail
<1>4. SlotInv'
  BY <1>1 DEF IInv, TypeOK, Entry, SlotInv, DiscardInv, At, DialFail
<1>5. ClosingInv'
  BY <1>1 DEF IInv, TypeOK, Entry, DiscardInv, ClosingInv, Dialled, At, DialFail
<1>6. DiscardInv'
  BY <1>1 DEF IInv, TypeOK, Entry, DiscardInv, Dialled, At, DialFail
<1>7. LeaderInv'
  BY <1>1 DEF IInv, TypeOK, KeyInv, LeaderInv, DialFail
<1>8. GenInv'
  BY <1>1 DEF IInv, GenInv, Gen, DialFail
<1>9. SaveInv'
  BY <1>1 DEF IInv, SaveInv, DialFail
<1>10. NoConnLost'
  <2> SUFFICES ASSUME NEW c \in Conn, Dialled(c)', ~conn'[c].shut
               PROVE  \/ slot'[conn'[c].key] = c \/ c \in closing'
                      \/ \E h \in Caller : At(h, "discard")' /\ caller'[h].conn = c
    BY DEF NoConnLost
  <2>1. Dialled(c) /\ ~conn[c].shut /\ conn'[c].key = conn[c].key /\ slot' = slot /\ closing' = closing
    BY DEF IInv, TypeOK, Entry, Dialled, DiscardInv, At, DialFail
  <2>2. CASE \E h \in Caller : At(h, "discard") /\ caller[h].conn = c
    <3>1. PICK h \in Caller : At(h, "discard") /\ caller[h].conn = c
      BY <2>2
    <3>2. At(h, "discard")' /\ caller'[h].conn = c
      BY <3>1, <1>1 DEF IInv, TypeOK, CallerState, DiscardInv, Entry, At, DialFail
    <3> QED
      BY <3>2
  <2>3. CASE slot[conn[c].key] = c \/ c \in closing
    BY <2>1, <2>3
  <2> QED
    BY <2>1, <2>2, <2>3 DEF IInv, NoConnLost
<1> QED
  BY <1>2, <1>3, <1>4, <1>5, <1>6, <1>7, <1>8, <1>9, <1>10 DEF IInv

\* A successful dial is cached, or left to its leader to discard.
LEMMA DialDoneKeeps ==
  ASSUME IInv, NEW g \in Caller, NEW c \in Conn, DialDone(g, c)
  PROVE  IInv'
<1> USE CacheConstants
<1> DEFINE k == caller[g].key
<1>1. /\ k \in Key /\ caller[g] \in CallerState /\ caller[g].pc = "dial"
      /\ slot[k] = NoConn /\ leader[k] = g /\ ~Dialled(c)
      /\ closing' = closing /\ UNCHANGED <<saving, config, closeGen, dropGen>>
  BY DEF IInv, TypeOK, KeyInv, LeaderInv, DialDone, At
<1>2. /\ conn' \in [Conn -> Entry]
      /\ conn'[c].key = k /\ conn'[c].shut = FALSE /\ conn'[c].outdated = caller[g].outdated
      /\ \A d \in Conn \ {c} : conn'[d] = conn[d]
  BY <1>1 DEF IInv, TypeOK, DialDone, Entry, CallerState
<1>3. /\ \A j \in Key : slot[j] # c
      /\ c \notin closing
      /\ \A h \in Caller : At(h, "discard") => caller[h].conn # c
  BY <1>1 DEF IInv, SlotInv, ClosingInv, DiscardInv, Dialled
<1> HIDE DEF k
<1>4. CASE Gen(Owner[k]) = caller[g].gen
  <2>1. slot' = [slot EXCEPT ![k] = c] /\ Finish(g, c)
    BY <1>4 DEF DialDone, k
  <2>2. caller' \in [Caller -> CallerState] /\ leader' = [leader EXCEPT ![k] = NoCaller]
    BY <1>1, <2>1, FinishFacts DEF k
  <2>3. \A h \in Caller :
          /\ caller'[h].key = caller[h].key
          /\ caller'[h].gen = caller[h].gen
          /\ caller'[h].outdated = caller[h].outdated
          /\ caller'[h].held = caller[h].held
          /\ caller'[h].pc = "hold" \/ (caller'[h] = caller[h] /\ h # g)
          /\ caller[h].pc # "wait" /\ h # g => caller'[h] = caller[h]
    BY <1>1, <2>1, FinishFacts
  <2>4. ~caller[g].outdated
    BY <1>1, <1>4 DEF IInv, GenInv, k
  <2>5. TypeOK'
    BY <1>1, <1>2, <2>1, <2>2 DEF IInv, TypeOK
  <2>6. KeyInv'
    BY <1>1, <2>3 DEF IInv, KeyInv, k
  <2>7. SlotInv'
    BY <1>1, <1>2, <1>3, <2>1, <2>4 DEF IInv, TypeOK, SlotInv
  <2>8. ClosingInv'
    BY <1>1, <1>2, <1>3 DEF IInv, TypeOK, ClosingInv, Dialled
  <2>9. DiscardInv'
    BY <1>1, <1>2, <1>3, <2>1, <2>3 DEF IInv, TypeOK, DiscardInv, Dialled, At
  <2>10. LeaderInv'
    BY <1>1, <2>1, <2>2, <2>3 DEF IInv, TypeOK, KeyInv, LeaderInv, k
  <2>11. GenInv'
    BY <1>1, <2>3 DEF IInv, GenInv, Gen
  <2>12. SaveInv'
    BY <1>1 DEF IInv, SaveInv
  <2>13. NoConnLost'
    <3> SUFFICES ASSUME NEW d \in Conn \ {c}, Dialled(d)', ~conn'[d].shut
                 PROVE  \/ slot'[conn'[d].key] = d \/ d \in closing'
                        \/ \E h \in Caller : At(h, "discard")' /\ caller'[h].conn = d
      BY <1>1, <1>2, <2>1 DEF IInv, TypeOK, NoConnLost
    <3>1. Dialled(d) /\ ~conn[d].shut /\ conn[d].key \in Key /\ conn'[d].key = conn[d].key
      BY <1>2 DEF IInv, TypeOK, Entry, Dialled
    <3>2. CASE slot[conn[d].key] = d
      BY <1>1, <3>1, <3>2, <2>1 DEF IInv, TypeOK
    <3>3. CASE d \in closing
      BY <1>1, <3>3
    <3>4. CASE \E h \in Caller : At(h, "discard") /\ caller[h].conn = d
      BY <1>1, <2>3, <3>4 DEF At
    <3> QED
      BY <3>1, <3>2, <3>3, <3>4 DEF IInv, NoConnLost
  <2> QED
    BY <2>5, <2>6, <2>7, <2>8, <2>9, <2>10, <2>11, <2>12, <2>13 DEF IInv
<1>5. CASE Gen(Owner[k]) # caller[g].gen
  <2>1. slot' = slot /\ leader' = leader /\ caller' = [caller EXCEPT ![g].pc = "discard", ![g].conn = c]
    BY <1>5 DEF DialDone, k
  <2>2. /\ [caller[g] EXCEPT !.pc = "discard", !.conn = c] \in CallerState
        /\ [caller[g] EXCEPT !.pc = "discard", !.conn = c].pc = "discard"
        /\ [caller[g] EXCEPT !.pc = "discard", !.conn = c].conn = c
        /\ [caller[g] EXCEPT !.pc = "discard", !.conn = c].key = k
    BY <1>1 DEF CallerState, CallerPC, k
  <2>3. /\ caller' \in [Caller -> CallerState]
        /\ caller'[g].pc = "discard" /\ caller'[g].conn = c /\ caller'[g].key = k
        /\ \A h \in Caller \ {g} : caller'[h] = caller[h]
    <3>1. caller' = [caller EXCEPT ![g] = [caller[g] EXCEPT !.pc = "discard", !.conn = c]]
      BY <2>1
    <3> QED
      BY <3>1, <2>2 DEF IInv, TypeOK
  <2>5. TypeOK'
    BY <1>1, <1>2, <2>1, <2>3 DEF IInv, TypeOK
  <2>6. KeyInv'
    BY <1>1, <2>3 DEF IInv, KeyInv
  <2>7. SlotInv'
    BY <1>1, <1>2, <1>3, <2>1 DEF IInv, TypeOK, SlotInv
  <2>8. ClosingInv'
    BY <1>1, <1>2, <1>3 DEF IInv, TypeOK, ClosingInv, Dialled
  <2>9. DiscardInv'
    BY <1>1, <1>2, <1>3, <2>1, <2>3 DEF IInv, TypeOK, DiscardInv, Dialled, At
  <2>10. LeaderInv'
    BY <1>1, <2>1, <2>3 DEF IInv, LeaderInv
  <2>11. GenInv'
    BY <1>1, <2>3 DEF IInv, GenInv, Gen
  <2>12. SaveInv'
    BY <1>1 DEF IInv, SaveInv
  <2>13. NoConnLost'
    <3> SUFFICES ASSUME NEW d \in Conn \ {c}, Dialled(d)', ~conn'[d].shut
                 PROVE  \/ slot'[conn'[d].key] = d \/ d \in closing'
                        \/ \E h \in Caller : At(h, "discard")' /\ caller'[h].conn = d
      BY <2>3 DEF NoConnLost, At
    <3>1. Dialled(d) /\ ~conn[d].shut /\ conn'[d].key = conn[d].key
      BY <1>2 DEF Dialled
    <3>2. CASE \E h \in Caller : At(h, "discard") /\ caller[h].conn = d
      BY <1>1, <2>3, <3>2 DEF At
    <3> QED
      BY <1>1, <2>1, <3>1, <3>2 DEF IInv, NoConnLost
  <2> QED
    BY <2>5, <2>6, <2>7, <2>8, <2>9, <2>10, <2>11, <2>12, <2>13 DEF IInv
<1> QED
  BY <1>4, <1>5

\* A save leaves the cache alone and owes it an invalidation.
LEMMA SaveKeeps ==
  ASSUME IInv, NEW a \in Asset, Save(a)
  PROVE  IInv'
<1>1. TypeOK'
  BY CacheConstants DEF IInv, TypeOK, KeyInv, SaveInv, Save
<1>2. KeyInv'
  BY CacheConstants DEF IInv, TypeOK, KeyInv, Save
<1>3. SlotInv'
  BY CacheConstants DEF IInv, TypeOK, KeyInv, SlotInv, Save
<1>4. ClosingInv'
  BY CacheConstants DEF IInv, TypeOK, Entry, KeyInv, SlotInv, ClosingInv, Dialled, Save
<1>5. DiscardInv'
  BY CacheConstants DEF IInv, TypeOK, KeyInv, SlotInv, DiscardInv, Dialled, At, Save
<1>6. LeaderInv'
  BY CacheConstants DEF IInv, TypeOK, KeyInv, LeaderInv, Save
<1>7. GenInv'
  BY CacheConstants DEF IInv, TypeOK, KeyInv, GenInv, Gen, Save
<1>8. SaveInv'
  BY CacheConstants DEF IInv, TypeOK, SaveInv, Save
<1>9. NoConnLost'
  BY CacheConstants DEF IInv, TypeOK, Entry, KeyInv, SlotInv, NoConnLost, Dialled, At, Save
<1> QED
  BY <1>1, <1>2, <1>3, <1>4, <1>5, <1>6, <1>7, <1>8, <1>9 DEF IInv

\* An invalidation outdates and takes out all the asset's connections, and
\* moves the generation of all its calls.
LEMMA DropAssetKeeps ==
  ASSUME IInv, NEW a \in Asset, DropAsset(a)
  PROVE  IInv'
<1> USE CacheConstants
<1>0. Outdate({a})
  BY DEF DropAsset
<1>1. TypeOK'
  BY <1>0, OutdateFacts DEF IInv, TypeOK, KeyInv, SaveInv, DropAsset, Without, Cached
<1>2. KeyInv'
  BY <1>0, OutdateFacts DEF IInv, TypeOK, KeyInv, DropAsset, Without, Cached
<1>3. SlotInv'
  BY <1>0, OutdateFacts DEF IInv, TypeOK, KeyInv, SlotInv, DropAsset, Without, Cached
<1>4. ClosingInv'
  BY <1>0, OutdateFacts DEF IInv, TypeOK, Entry, KeyInv, SlotInv, ClosingInv, Dialled, DropAsset, Without, Cached
<1>5. DiscardInv'
  BY <1>0, OutdateFacts DEF IInv, TypeOK, KeyInv, SlotInv, DiscardInv, Dialled, At, DropAsset, Without, Cached
<1>6. LeaderInv'
  BY <1>0, OutdateFacts DEF IInv, TypeOK, KeyInv, LeaderInv, DropAsset, Without, Cached
<1>7. GenInv'
  <2> SUFFICES ASSUME NEW g \in Caller, caller'[g].pc \in {"do", "lead", "dial"}
               PROVE  /\ caller'[g].gen <= Gen(Owner[caller[g].key])'
                      /\ caller'[g].outdated <=> caller'[g].gen # Gen(Owner[caller[g].key])'
    BY DEF GenInv
  <2>1. /\ caller'[g].gen = caller[g].gen /\ caller'[g].key = caller[g].key /\ caller'[g].pc = caller[g].pc
        /\ caller'[g].outdated <=>
             caller[g].outdated \/ (caller[g].key # NoKey /\ Owner[caller[g].key] \in {a})
    BY <1>0, OutdateFacts
  <2>2. /\ caller[g].key \in Key /\ caller[g].key # NoKey /\ Owner[caller[g].key] \in Asset
        /\ caller[g].gen \in Nat
    BY <2>1 DEF IInv, TypeOK, KeyInv, CallerState
  <2>3. /\ caller[g].gen <= Gen(Owner[caller[g].key])
        /\ caller[g].outdated <=> caller[g].gen # Gen(Owner[caller[g].key])
    BY <2>1 DEF IInv, GenInv
  <2>4. \A b \in Asset : Gen(b) \in Nat /\ Gen(b)' = IF b \in {a} THEN Gen(b) + 1 ELSE Gen(b)
    BY DEF IInv, TypeOK, Gen, DropAsset
  <2>5. CASE Owner[caller[g].key] \in {a}
    BY <2>1, <2>2, <2>3, <2>4, <2>5
  <2>6. CASE Owner[caller[g].key] \notin {a}
    BY <2>1, <2>2, <2>3, <2>4, <2>6
  <2> QED
    BY <2>5, <2>6
<1>8. SaveInv'
  BY <1>0, OutdateFacts DEF IInv, TypeOK, SaveInv, DropAsset, Without, Cached
<1>9. NoConnLost'
  <2> SUFFICES ASSUME NEW c \in Conn, Dialled(c)', ~conn'[c].shut
               PROVE  \/ slot'[conn'[c].key] = c \/ c \in closing'
                      \/ \E h \in Caller : At(h, "discard")' /\ caller'[h].conn = c
    BY DEF NoConnLost
  <2>1. Dialled(c) /\ ~conn[c].shut /\ conn'[c].key = conn[c].key /\ conn[c].key \in Key
    BY <1>0, OutdateFacts DEF IInv, TypeOK, Entry, Dialled
  <2>2. CASE slot[conn[c].key] = c
    BY <2>1, <2>2 DEF DropAsset, Without, Cached
  <2>3. CASE c \in closing
    BY <2>3 DEF DropAsset
  <2>4. CASE \E h \in Caller : At(h, "discard") /\ caller[h].conn = c
    BY <2>4, <1>0, OutdateFacts DEF At
  <2> QED
    BY <2>1, <2>2, <2>3, <2>4 DEF IInv, NoConnLost
<1> QED
  BY <1>1, <1>2, <1>3, <1>4, <1>5, <1>6, <1>7, <1>8, <1>9 DEF IInv

\* Dropping one key.
LEMMA DropKeeps ==
  ASSUME IInv, NEW k \in Key, Drop(k)
  PROVE  IInv'
<1>1. TypeOK'
  BY CacheConstants DEF IInv, TypeOK, KeyInv, SaveInv, Drop
<1>2. KeyInv'
  BY CacheConstants DEF IInv, TypeOK, KeyInv, Drop
<1>3. SlotInv'
  BY CacheConstants DEF IInv, TypeOK, KeyInv, SlotInv, Drop
<1>4. ClosingInv'
  BY CacheConstants DEF IInv, TypeOK, Entry, KeyInv, SlotInv, ClosingInv, Dialled, Drop
<1>5. DiscardInv'
  BY CacheConstants DEF IInv, TypeOK, KeyInv, SlotInv, DiscardInv, Dialled, At, Drop
<1>6. LeaderInv'
  BY CacheConstants DEF IInv, TypeOK, KeyInv, LeaderInv, Drop
<1>7. GenInv'
  BY CacheConstants DEF IInv, TypeOK, KeyInv, GenInv, Gen, Drop
<1>8. SaveInv'
  BY CacheConstants DEF IInv, TypeOK, SaveInv, Drop
<1>9. NoConnLost'
  BY CacheConstants DEF IInv, TypeOK, Entry, KeyInv, SlotInv, NoConnLost, Dialled, At, Drop
<1> QED
  BY <1>1, <1>2, <1>3, <1>4, <1>5, <1>6, <1>7, <1>8, <1>9 DEF IInv

\* Closing the cache.
LEMMA CloseKeeps ==
  ASSUME IInv, Close
  PROVE  IInv'
<1> USE CacheConstants
<1>0. Outdate(Asset)
  BY DEF Close
<1>1. TypeOK'
  BY <1>0, OutdateFacts DEF IInv, TypeOK, KeyInv, SaveInv, Close, Cached
<1>2. KeyInv'
  BY <1>0, OutdateFacts DEF IInv, TypeOK, KeyInv, Close, Cached
<1>3. SlotInv'
  BY <1>0, OutdateFacts DEF IInv, TypeOK, KeyInv, SlotInv, Close, Cached
<1>4. ClosingInv'
  BY <1>0, OutdateFacts DEF IInv, TypeOK, Entry, KeyInv, SlotInv, ClosingInv, Dialled, Close, Cached
<1>5. DiscardInv'
  BY <1>0, OutdateFacts DEF IInv, TypeOK, KeyInv, SlotInv, DiscardInv, Dialled, At, Close, Cached
<1>6. LeaderInv'
  BY <1>0, OutdateFacts DEF IInv, TypeOK, KeyInv, LeaderInv, Close, Cached
<1>7. GenInv'
  <2> SUFFICES ASSUME NEW g \in Caller, caller'[g].pc \in {"do", "lead", "dial"}
               PROVE  /\ caller'[g].gen <= Gen(Owner[caller[g].key])'
                      /\ caller'[g].outdated <=> caller'[g].gen # Gen(Owner[caller[g].key])'
    BY DEF GenInv
  <2>1. /\ caller'[g].gen = caller[g].gen /\ caller'[g].key = caller[g].key /\ caller'[g].pc = caller[g].pc
        /\ caller'[g].outdated <=>
             caller[g].outdated \/ (caller[g].key # NoKey /\ Owner[caller[g].key] \in Asset)
    BY <1>0, OutdateFacts
  <2>2. /\ caller[g].key \in Key /\ caller[g].key # NoKey /\ Owner[caller[g].key] \in Asset
        /\ caller[g].gen \in Nat
    BY <2>1 DEF IInv, TypeOK, KeyInv, CallerState
  <2>3. /\ caller[g].gen <= Gen(Owner[caller[g].key])
        /\ caller[g].outdated <=> caller[g].gen # Gen(Owner[caller[g].key])
    BY <2>1 DEF IInv, GenInv
  <2>4. \A b \in Asset : Gen(b) \in Nat /\ Gen(b)' = IF b \in Asset THEN Gen(b) + 1 ELSE Gen(b)
    BY DEF IInv, TypeOK, Gen, Close
  <2>5. CASE Owner[caller[g].key] \in Asset
    BY <2>1, <2>2, <2>3, <2>4, <2>5
  <2>6. CASE Owner[caller[g].key] \notin Asset
    BY <2>1, <2>2, <2>3, <2>4, <2>6
  <2> QED
    BY <2>5, <2>6
<1>8. SaveInv'
  BY <1>0, OutdateFacts DEF IInv, TypeOK, SaveInv, Close, Cached
<1>9. NoConnLost'
  BY <1>0, OutdateFacts DEF IInv, TypeOK, Entry, KeyInv, SlotInv, NoConnLost, Dialled, At, Close, Cached
<1> QED
  BY <1>1, <1>2, <1>3, <1>4, <1>5, <1>6, <1>7, <1>8, <1>9 DEF IInv

\* A scan of the evictor.
LEMMA EvictIdleKeeps ==
  ASSUME IInv, NEW old \in SUBSET Conn, EvictIdle(old)
  PROVE  IInv'
<1>1. TypeOK'
  BY CacheConstants DEF IInv, TypeOK, KeyInv, SaveInv, EvictIdle, Without, Cached
<1>2. KeyInv'
  BY CacheConstants DEF IInv, TypeOK, KeyInv, EvictIdle, Without, Cached
<1>3. SlotInv'
  BY CacheConstants DEF IInv, TypeOK, KeyInv, SlotInv, EvictIdle, Without, Cached
<1>4. ClosingInv'
  BY CacheConstants DEF IInv, TypeOK, Entry, KeyInv, SlotInv, ClosingInv, Dialled, EvictIdle, Without, Cached
<1>5. DiscardInv'
  BY CacheConstants DEF IInv, TypeOK, KeyInv, SlotInv, DiscardInv, Dialled, At, EvictIdle, Without, Cached
<1>6. LeaderInv'
  BY CacheConstants DEF IInv, TypeOK, KeyInv, LeaderInv, EvictIdle, Without, Cached
<1>7. GenInv'
  BY CacheConstants DEF IInv, TypeOK, KeyInv, GenInv, Gen, EvictIdle, Without, Cached
<1>8. SaveInv'
  BY CacheConstants DEF IInv, TypeOK, SaveInv, EvictIdle, Without, Cached
<1>9. NoConnLost'
  BY CacheConstants DEF IInv, TypeOK, Entry, KeyInv, SlotInv, NoConnLost, Dialled, At, EvictIdle, Without, Cached
<1> QED
  BY <1>1, <1>2, <1>3, <1>4, <1>5, <1>6, <1>7, <1>8, <1>9 DEF IInv

\* Closing a connection that was taken out.
LEMMA CloseEntryKeeps ==
  ASSUME IInv, NEW c \in Conn, CloseEntry(c)
  PROVE  IInv'
<1>1. TypeOK'
  BY CacheConstants DEF IInv, TypeOK, Entry, CloseEntry
<1>2. KeyInv'
  BY CacheConstants DEF IInv, TypeOK, KeyInv, CloseEntry
<1>3. SlotInv'
  BY CacheConstants DEF IInv, TypeOK, Entry, SlotInv, CloseEntry
<1>4. ClosingInv'
  BY CacheConstants DEF IInv, TypeOK, Entry, KeyInv, SlotInv, ClosingInv, Dialled, CloseEntry
<1>5. DiscardInv'
  BY CacheConstants DEF IInv, TypeOK, Entry, DiscardInv, Dialled, At, CloseEntry
<1>6. LeaderInv'
  BY CacheConstants DEF IInv, TypeOK, KeyInv, LeaderInv, CloseEntry
<1>7. GenInv'
  BY CacheConstants DEF IInv, TypeOK, KeyInv, GenInv, Gen, CloseEntry
<1>8. SaveInv'
  BY CacheConstants DEF IInv, TypeOK, SaveInv, CloseEntry
<1>9. NoConnLost'
  BY CacheConstants DEF IInv, TypeOK, Entry, NoConnLost, Dialled, At, CloseEntry
<1> QED
  BY <1>1, <1>2, <1>3, <1>4, <1>5, <1>6, <1>7, <1>8, <1>9 DEF IInv

-----------------------------------------------------------------------------
(* The theorems *)

\* IInv is an invariant: it holds initially and every step keeps it.
THEOREM Invariance == Spec => []IInv
<1>1. Init => IInv
  BY CacheConstants DEF Init, IInv, TypeOK, KeyInv, SlotInv, ClosingInv, DiscardInv, LeaderInv, GenInv,
     SaveInv, NoConnLost, Entry, Unused, CallerState, CallerPC, Result, Outside, Dialled, At
<1>2. IInv /\ [Next]_vars => IInv'
  <2> SUFFICES ASSUME IInv, [Next]_vars
               PROVE  IInv'
    OBVIOUS
  <2>1. ASSUME NEW g \in Caller, CallStep(g)
        PROVE  IInv'
    BY <2>1, GetOrDialKeeps, DoKeeps, RecheckKeeps, DiscardKeeps, DialFailKeeps, DialDoneKeeps DEF CallStep
  <2>2. ASSUME NEW g \in Caller, UseStep(g)
        PROVE  IInv'
    BY <2>2, HoldKeeps, UseUnheldKeeps, TouchKeeps, UnholdKeeps DEF UseStep
  <2>3. CASE UNCHANGED vars
    BY <2>3 DEF vars, IInv, TypeOK, KeyInv, SlotInv, ClosingInv, DiscardInv, LeaderInv, GenInv,
       SaveInv, NoConnLost, Dialled, At, Gen
  <2> QED
    BY <2>1, <2>2, <2>3, LoadKeeps, SaveKeeps, DropAssetKeeps, DropKeeps, CloseKeeps, EvictIdleKeeps,
       CloseEntryKeeps DEF Next
<1> QED
  BY <1>1, <1>2, PTL DEF Spec

\* The variables keep their types; in particular the generations stay within
\* the number of saves.
THEOREM TypeCorrect == Spec => []TypeOK
<1>1. IInv => TypeOK
  BY DEF IInv
<1> QED
  BY <1>1, Invariance, PTL

\* GetOrDial never caches a connection whose dial began before the last
\* invalidation of its asset, however dials, saves and Close interleave.
THEOREM NeverOutdated == Spec => []CachedIsCurrent
<1>1. IInv => CachedIsCurrent
  BY DEF IInv, SlotInv, CachedIsCurrent
<1> QED
  BY <1>1, Invariance, PTL

\* GetOrDial never hands out a cached connection that somebody has closed.
THEOREM NeverClosed == Spec => []CachedIsOpen
<1>1. IInv => CachedIsOpen
  BY DEF IInv, SlotInv, CachedIsOpen
<1> QED
  BY <1>1, Invariance, PTL

\* The cache loses no open connection: storing never overwrites one, and one
\* that leaves the cache is on its way to closeEntry.
THEOREM NothingLost == Spec => []NoConnLost
<1>1. IInv => NoConnLost
  BY DEF IInv
<1> QED
  BY <1>1, Invariance, PTL

-----------------------------------------------------------------------------
(* Holds *)

\* The callers whose Hold counts on a connection.
HoldersOf(c) == {g \in Caller : caller[g].held = c}

\* Only an operation that uses its client holds, the holds of a connection are
\* counted exactly, and nobody holds a connection before it is dialled.
HoldInv ==
  /\ \A g \in Caller : caller[g].pc \notin {"use", "touched"} => caller[g].held = NoConn
  /\ \A c \in Conn : conn[c].holds = Cardinality(HoldersOf(c))
  /\ \A c \in Conn : ~Dialled(c) => conn[c].holds = 0

\* A step that changes nobody's hold and no count keeps the counts exact.
LEMMA SameHolds ==
  ASSUME HoldInv,
         \A g \in Caller : caller'[g].held = caller[g].held,
         \A g \in Caller : caller'[g].pc \notin {"use", "touched"} => caller'[g].held = NoConn,
         \A c \in Conn : conn'[c].holds = conn[c].holds /\ (conn'[c].key = NoKey => conn[c].key = NoKey)
  PROVE  HoldInv'
<1>1. \A c \in Conn : HoldersOf(c)' = HoldersOf(c)
  BY DEF HoldersOf
<1> QED
  BY <1>1 DEF HoldInv, Dialled

\* Every step of a caller inside GetOrDial leaves the holds alone.
LEMMA CallHolds ==
  ASSUME IInv, HoldInv, NEW g \in Caller, CallStep(g)
  PROVE  HoldInv'
<1>1. caller \in [Caller -> CallerState] /\ conn \in [Conn -> Entry]
  BY DEF IInv, TypeOK
<1>2. \A h \in Caller : caller[h].pc \notin {"use", "touched"} => caller[h].held = NoConn
  BY DEF HoldInv
<1>3. CASE GetOrDial(g) \/ Do(g)
  <2>1. \A c \in Conn : conn'[c].holds = conn[c].holds /\ conn'[c].key = conn[c].key
    BY <1>3 DEF GetOrDial, Do
  <2>2. \A h \in Caller : caller'[h].held = caller[h].held
    <3>1. GetOrDial(g) => \A h \in Caller : caller'[h].held = caller[h].held
      BY <1>1 DEF GetOrDial, CallerState
    <3>2. Do(g) => \A h \in Caller : caller'[h].held = caller[h].held
      BY <1>1 DEF Do, CallerState
    <3> QED
      BY <1>3, <3>1, <3>2
  <2>3. \A h \in Caller : caller'[h].pc \notin {"use", "touched"} => caller'[h].held = NoConn
    BY <1>1, <1>2, <1>3 DEF GetOrDial, Do, CallerState, At
  <2> QED
    BY <2>1, <2>2, <2>3, SameHolds
<1>4. CASE Recheck(g)
  <2>1. \A c \in Conn : conn'[c].holds = conn[c].holds /\ conn'[c].key = conn[c].key
    BY <1>4 DEF Recheck
  <2>2. CASE slot[caller[g].key] # NoConn
    <3>1. Finish(g, slot[caller[g].key]) /\ slot[caller[g].key] \in Conn
      BY <1>4, <2>2 DEF Recheck, IInv, TypeOK, KeyInv, At
    <3>2. caller[g].pc \in {"lead", "dial"}
      BY <1>4 DEF Recheck, At
    <3>3. \A h \in Caller : caller'[h].held = caller[h].held
      BY <3>1, <3>2, FinishFacts
    <3>4. \A h \in Caller : caller'[h].pc \notin {"use", "touched"} => caller'[h].held = NoConn
      <4> TAKE h \in Caller
      <4>1. caller'[h].pc = "hold" \/ caller'[h] = caller[h]
        BY <3>1, <3>2, FinishFacts
      <4>2. h \in InCall(g) => caller[h].pc \in {"lead", "wait"}
        BY <1>4 DEF InCall, Recheck, At
      <4>3. h \notin InCall(g) => caller'[h] = caller[h]
        BY <3>1 DEF Finish
      <4> QED
        BY <4>2, <4>3, <3>3, <1>2
    <3> QED
      BY <2>1, <3>3, <3>4, SameHolds
  <2>3. CASE slot[caller[g].key] = NoConn
    <3>1. \A h \in Caller : caller'[h].held = caller[h].held
      BY <1>1, <1>4, <2>3 DEF Recheck, CallerState
    <3>2. \A h \in Caller : caller'[h].pc \notin {"use", "touched"} => caller'[h].held = NoConn
      BY <1>1, <1>2, <1>4, <2>3 DEF Recheck, CallerState, At
    <3> QED
      BY <2>1, <3>1, <3>2, SameHolds
  <2> QED
    BY <2>2, <2>3
<1>5. ASSUME NEW err \in Result, Fail(g, err), caller[g].pc \in {"discard", "dial"}
      PROVE  \A h \in Caller : /\ caller'[h].held = caller[h].held
                               /\ caller'[h].pc \notin {"use", "touched"} => caller'[h].held = NoConn
  <2> TAKE h \in Caller
  <2>1. CASE h \in InCall(g)
    <3>1. caller'[h] = [Outside EXCEPT !.res = err]
      BY <1>5, <2>1 DEF Fail
    <3>2. caller'[h].held = NoConn
      BY <3>1 DEF Outside
    <3>3. caller[h].pc \in {"discard", "dial", "wait"}
      BY <1>5, <2>1 DEF InCall, At
    <3> QED
      BY <3>2, <3>3, <1>2
  <2>2. CASE h \notin InCall(g)
    BY <1>2, <1>5, <2>2 DEF Fail
  <2> QED
    BY <2>1, <2>2
<1>6. CASE Discard(g)
  <2>1. \A c \in Conn : conn'[c].holds = conn[c].holds /\ conn'[c].key = conn[c].key
    BY <1>1, <1>6 DEF Discard, Entry
  <2>2. Fail(g, "invalidated") /\ caller[g].pc \in {"discard", "dial"}
    BY <1>6 DEF Discard, At
  <2> QED
    BY <2>1, <2>2, <1>5, SameHolds DEF Result
<1>7. CASE DialFail(g)
  <2>1. \A c \in Conn : conn'[c].holds = conn[c].holds /\ conn'[c].key = conn[c].key
    BY <1>7 DEF DialFail
  <2>2. Fail(g, "dialErr") /\ caller[g].pc \in {"discard", "dial"}
    BY <1>7 DEF DialFail, At
  <2> QED
    BY <2>1, <2>2, <1>5, SameHolds DEF Result
<1>8. ASSUME NEW c \in Conn, DialDone(g, c)
      PROVE  HoldInv'
  <2>1. conn[c].holds = 0 /\ At(g, "dial") /\ caller[g].key # NoKey
    BY <1>8, CacheConstants DEF DialDone, HoldInv, IInv, KeyInv, At
  <2>2. /\ conn'[c].holds = 0 /\ conn'[c].key = caller[g].key
        /\ \A d \in Conn : d # c => conn'[d] = conn[d]
    BY <1>1, <1>8 DEF DialDone
  <2>3. \A d \in Conn : conn'[d].holds = conn[d].holds /\ (conn'[d].key = NoKey => conn[d].key = NoKey)
    BY <2>1, <2>2
  <2>4. CASE Finish(g, c)
    <3>1. caller[g].pc \in {"lead", "dial"}
      BY <2>1 DEF At
    <3>2. \A h \in Caller : caller'[h].held = caller[h].held
      BY <2>4, <3>1, FinishFacts
    <3>3. \A h \in Caller : caller'[h].pc \notin {"use", "touched"} => caller'[h].held = NoConn
      <4> TAKE h \in Caller
      <4>1. h \in InCall(g) => caller[h].pc \in {"dial", "wait"}
        BY <2>1 DEF InCall, At
      <4>2. h \notin InCall(g) => caller'[h] = caller[h]
        BY <2>4 DEF Finish
      <4> QED
        BY <4>1, <4>2, <3>2, <1>2
    <3> QED
      BY <2>3, <3>2, <3>3, SameHolds
  <2>5. CASE caller' = [caller EXCEPT ![g].pc = "discard", ![g].conn = c]
    <3>1. \A h \in Caller : caller'[h].held = caller[h].held
      BY <1>1, <2>5 DEF CallerState
    <3>2. \A h \in Caller : caller'[h].pc \notin {"use", "touched"} => caller'[h].held = NoConn
      BY <1>1, <1>2, <2>1, <2>5 DEF CallerState, At
    <3> QED
      BY <2>3, <3>1, <3>2, SameHolds
  <2> QED
    BY <1>8, <2>4, <2>5 DEF DialDone
<1> QED
  BY <1>3, <1>4, <1>6, <1>7, <1>8 DEF CallStep

\* Hold, release and the unheld use keep the counts exact.
LEMMA UseHolds ==
  ASSUME IInv, HoldInv, NEW g \in Caller, UseStep(g)
  PROVE  HoldInv'
<1>1. caller \in [Caller -> CallerState] /\ conn \in [Conn -> Entry]
  BY DEF IInv, TypeOK
<1>2. \A h \in Caller : caller[h].pc \notin {"use", "touched"} => caller[h].held = NoConn
  BY DEF HoldInv
<1>3. \A c \in Conn : HoldersOf(c) \in SUBSET Caller /\ IsFiniteSet(HoldersOf(c))
  BY CacheConstants, FS_Subset DEF HoldersOf
<1>4. CASE UseUnheld(g) \/ Touch(g)
  <2>1. \A c \in Conn : conn'[c].holds = conn[c].holds /\ conn'[c].key = conn[c].key
    BY <1>4 DEF UseUnheld, Touch
  <2>2. \A h \in Caller : caller'[h].held = caller[h].held
    BY <1>1, <1>4 DEF UseUnheld, Touch, CallerState, Outside
  <2>3. \A h \in Caller : caller'[h].pc \notin {"use", "touched"} => caller'[h].held = NoConn
    BY <1>1, <1>2, <1>4 DEF UseUnheld, Touch, CallerState, Outside
  <2> QED
    BY <2>1, <2>2, <2>3, SameHolds
<1>5. CASE Hold(g)
  <2>0. PICK c : c = slot[caller[g].key]
    OBVIOUS
  <2>1. At(g, "hold") /\ caller[g].held = NoConn /\ c \in Conn \cup {NoConn}
    BY <1>2, <1>5, <2>0 DEF Hold, At, IInv, TypeOK, KeyInv
  <2>2. /\ caller'[g].held = c /\ caller'[g].pc = "use"
        /\ \A h \in Caller : h # g => caller'[h] = caller[h]
    BY <1>1, <1>5, <2>0 DEF Hold, CallerState
  <2>3. \A h \in Caller : caller'[h].pc \notin {"use", "touched"} => caller'[h].held = NoConn
    BY <1>2, <2>2
  <2>4. CASE c = NoConn
    <3>1. \A h \in Caller : caller'[h].held = caller[h].held
      BY <2>1, <2>2, <2>4
    <3>2. \A d \in Conn : conn'[d].holds = conn[d].holds /\ conn'[d].key = conn[d].key
      BY <1>5, <2>0, <2>4 DEF Hold
    <3> QED
      BY <2>3, <3>1, <3>2, SameHolds
  <2>5. CASE c # NoConn
    <3>1. c \in Conn /\ g \notin HoldersOf(c)
      BY <2>1, <2>5, CacheConstants DEF HoldersOf
    <3>2. /\ conn'[c].holds = conn[c].holds + 1
          /\ \A d \in Conn : d # c => conn'[d] = conn[d]
          /\ \A d \in Conn : conn'[d].key = conn[d].key
      BY <1>1, <1>5, <2>0, <2>5, <3>1 DEF Hold, Entry
    <3>3. HoldersOf(c)' = HoldersOf(c) \cup {g}
      BY <2>1, <2>2 DEF HoldersOf
    <3>4. \A d \in Conn : d # c => HoldersOf(d)' = HoldersOf(d)
      BY <2>1, <2>2, CacheConstants DEF HoldersOf
    <3>5. Cardinality(HoldersOf(c)') = Cardinality(HoldersOf(c)) + 1
      BY <1>3, <3>1, <3>3, FS_AddElement
    <3>6. \A d \in Conn : conn'[d].holds = Cardinality(HoldersOf(d)')
      BY <3>1, <3>2, <3>4, <3>5 DEF HoldInv
    <3>7. Dialled(c)
      BY <2>0, <2>1, <2>5, CacheConstants DEF IInv, SlotInv, KeyInv, Dialled, At
    <3>8. \A d \in Conn : ~Dialled(d)' => conn'[d].holds = 0
      BY <3>2, <3>7 DEF HoldInv, Dialled
    <3> QED
      BY <2>3, <3>6, <3>8 DEF HoldInv
  <2> QED
    BY <2>4, <2>5
<1>6. CASE Unhold(g)
  <2>0. PICK c : c = caller[g].held
    OBVIOUS
  <2>1. c \in Conn /\ g \in HoldersOf(c)
    BY <1>6, <2>0 DEF Unhold, At, IInv, KeyInv, HoldersOf
  <2>2. /\ caller'[g].held = NoConn
        /\ \A h \in Caller : h # g => caller'[h] = caller[h]
    BY <1>1, <1>6 DEF Unhold, Outside
  <2>3. \A h \in Caller : caller'[h].pc \notin {"use", "touched"} => caller'[h].held = NoConn
    BY <1>2, <2>2
  <2>4. /\ conn'[c].holds = conn[c].holds - 1
        /\ \A d \in Conn : d # c => conn'[d] = conn[d]
        /\ \A d \in Conn : conn'[d].key = conn[d].key
    BY <1>1, <1>6, <2>0, <2>1 DEF Unhold, Entry
  <2>5. HoldersOf(c)' = HoldersOf(c) \ {g}
    <3>1. c \in Conn /\ NoConn \notin Conn
      BY <2>1, CacheConstants
    <3>2. \A h \in Caller : caller'[h].held = c <=> caller[h].held = c /\ h # g
      BY <2>0, <2>2, <3>1
    <3> QED
      BY <3>2 DEF HoldersOf
  <2>6. \A d \in Conn : d # c => HoldersOf(d)' = HoldersOf(d)
    BY <2>0, <2>1, <2>2, CacheConstants DEF HoldersOf
  <2>7. Cardinality(HoldersOf(c)') = Cardinality(HoldersOf(c)) - 1
    BY <1>3, <2>1, <2>5, FS_RemoveElement
  <2>8. \A d \in Conn : conn'[d].holds = Cardinality(HoldersOf(d)')
    BY <2>1, <2>4, <2>6, <2>7 DEF HoldInv
  <2>9. Dialled(c)
    <3>1. Cardinality(HoldersOf(c)) # 0
      BY <1>3, <2>1, FS_EmptySet
    <3> QED
      BY <2>1, <3>1 DEF HoldInv
  <2>10. \A d \in Conn : ~Dialled(d)' => conn'[d].holds = 0
    BY <2>4, <2>9 DEF HoldInv, Dialled
  <2> QED
    BY <2>3, <2>8, <2>10 DEF HoldInv
<1> QED
  BY <1>4, <1>5, <1>6 DEF UseStep

\* Loading, invalidating, evicting and closing leave the holds alone.
LEMMA OtherHolds ==
  ASSUME IInv, HoldInv,
         \/ \E g \in Caller, k \in Key : Load(g, k)
         \/ \E a \in Asset : Save(a) \/ DropAsset(a)
         \/ \E k \in Key : Drop(k)
         \/ Close
         \/ \E old \in SUBSET Conn : EvictIdle(old)
         \/ \E c \in Conn : CloseEntry(c)
         \/ UNCHANGED vars
  PROVE  HoldInv'
<1>1. caller \in [Caller -> CallerState] /\ conn \in [Conn -> Entry]
  BY DEF IInv, TypeOK
<1>2. \A h \in Caller : caller[h].pc \notin {"use", "touched"} => caller[h].held = NoConn
  BY DEF HoldInv
<1>3. ASSUME NEW g \in Caller, NEW k \in Key, Load(g, k)
      PROVE  HoldInv'
  <2>1. \A c \in Conn : conn'[c].holds = conn[c].holds /\ conn'[c].key = conn[c].key
    BY <1>3 DEF Load
  <2>2. /\ caller'[g].held = NoConn /\ caller[g].held = NoConn
        /\ \A h \in Caller : h # g => caller'[h] = caller[h]
    BY <1>1, <1>2, <1>3 DEF Load, Outside, At
  <2> QED
    BY <1>2, <2>1, <2>2, SameHolds
<1>4. ASSUME NEW A \in SUBSET Asset, Outdate(A)
      PROVE  HoldInv'
  <2>1. \A g \in Caller : caller'[g].held = caller[g].held /\ caller'[g].pc = caller[g].pc
    BY <1>4, OutdateFacts
  <2>2. \A c \in Conn : conn'[c].holds = conn[c].holds
    BY <1>1, <1>4 DEF Outdate, Entry
  <2>3. \A c \in Conn : conn'[c].key = conn[c].key
    BY <1>4, OutdateFacts
  <2> QED
    BY <1>2, <2>1, <2>2, <2>3, SameHolds
<1>5. ASSUME UNCHANGED caller,
             \A c \in Conn : conn'[c].holds = conn[c].holds /\ conn'[c].key = conn[c].key
      PROVE  HoldInv'
  BY <1>2, <1>5, SameHolds
<1>6. ASSUME NEW c \in Conn, CloseEntry(c)
      PROVE  HoldInv'
  BY <1>1, <1>5, <1>6 DEF CloseEntry, Entry
<1>7. ASSUME NEW a \in Asset, DropAsset(a)
      PROVE  HoldInv'
  BY <1>4, <1>7 DEF DropAsset
<1>8. CASE Close
  BY <1>4, <1>8 DEF Close
<1>9. CASE \/ \E a \in Asset : Save(a)
           \/ \E k \in Key : Drop(k)
           \/ \E old \in SUBSET Conn : EvictIdle(old)
           \/ UNCHANGED vars
  BY <1>5, <1>9 DEF Save, Drop, EvictIdle, vars
<1> QED
  BY <1>3, <1>6, <1>7, <1>8, <1>9

\* The holds are counted exactly in every state.
THEOREM HoldsExact == Spec => []HoldInv
<1>1. Init => HoldInv
  <2> SUFFICES ASSUME Init
               PROVE  HoldInv
    OBVIOUS
  <2>1. \A c \in Conn : HoldersOf(c) = {}
    BY CacheConstants DEF Init, HoldersOf, Outside
  <2> QED
    BY <2>1, FS_EmptySet DEF Init, HoldInv, Outside, Unused, Dialled
<1>2. IInv /\ HoldInv /\ [Next]_vars => HoldInv'
  BY CallHolds, UseHolds, OtherHolds DEF Next
<1> QED
  BY <1>1, <1>2, Invariance, PTL DEF Spec

\* A scan of the evictor never takes a connection that an operation still
\* holds, however many operations share it and however their Hold and release
\* interleave with the scan.
THEOREM HeldNotEvicted == Spec => EvictsOnlyUnheld
<1>1. HoldInv => \A old \in SUBSET Conn : EvictIdle(old) =>
        \A g \in Caller : caller[g].pc \in {"use", "touched"} => caller[g].held \notin closing' \ closing
  <2> SUFFICES ASSUME HoldInv, NEW old \in SUBSET Conn, EvictIdle(old), NEW g \in Caller,
                      caller[g].held \in closing' \ closing
               PROVE  FALSE
    OBVIOUS
  <2> DEFINE c == caller[g].held
  <2>1. c \in Conn /\ conn[c].holds = 0
    BY DEF EvictIdle
  <2>2. g \in HoldersOf(c) /\ IsFiniteSet(HoldersOf(c))
    BY CacheConstants, FS_Subset DEF HoldersOf
  <2>3. Cardinality(HoldersOf(c)) = 0
    BY <2>1 DEF HoldInv
  <2> QED
    BY <2>2, <2>3, FS_EmptySet
<1> QED
  BY <1>1, HoldsExact, PTL DEF EvictsOnlyUnheld

-----------------------------------------------------------------------------
(* Refinement of the registry *)

\* How far a connection is in its life, as the registry sees it.
PhaseOf(c) ==
  IF ~Dialled(c) THEN "unused"
  ELSE IF conn[c].shut THEN "closed"
  ELSE IF slot[conn[c].key] = c THEN "serving" ELSE "withdrawn"

\* A step that changes neither the cache nor what is known of connections is
\* no step of the registry.
LEMMA RegistryIdle ==
  ASSUME UNCHANGED slot,
         \A c \in Conn : conn'[c].key = conn[c].key /\ conn'[c].shut = conn[c].shut
  PROVE  UNCHANGED Registry!vars
<1>1. \A c \in Conn : PhaseOf(c)' = PhaseOf(c)
  BY DEF PhaseOf, Dialled
<1> QED
  BY <1>1 DEF Registry!vars, PhaseOf

\* Taking the connections of S out of c.entries withdraws them.
LEMMA RegistryWithdraws ==
  ASSUME IInv, NEW S \in SUBSET Cached, slot' = Without(S),
         \A c \in Conn : conn'[c].key = conn[c].key /\ conn'[c].shut = conn[c].shut
  PROVE  [Registry!Next]_Registry!vars
<1>1. \A c \in S : c \in Conn /\ Dialled(c) /\ ~conn[c].shut /\ slot[conn[c].key] = c /\ conn[c].key \in Key
  BY CacheConstants DEF Cached, IInv, TypeOK, SlotInv, Dialled
<1>2. CASE S = {}
  <2>1. slot' = slot
    BY <1>2 DEF Without, IInv, TypeOK
  <2> QED
    BY <2>1, RegistryIdle
<1>3. CASE S # {}
  <2>1. \A c \in S : PhaseOf(c) = "serving"
    BY <1>1 DEF PhaseOf
  <2>2. \A c \in S : PhaseOf(c)' = "withdrawn"
    <3> TAKE c \in S
    <3>1. slot'[conn[c].key] = NoConn /\ c # NoConn
      BY <1>1, CacheConstants DEF Without
    <3> QED
      BY <1>1, <3>1 DEF PhaseOf, Dialled
  <2>3. \A c \in Conn : c \notin S => PhaseOf(c)' = PhaseOf(c)
    <3> SUFFICES ASSUME NEW c \in Conn, c \notin S
                 PROVE  PhaseOf(c)' = PhaseOf(c)
      OBVIOUS
    <3>1. Dialled(c) => conn[c].key \in Key
      BY DEF IInv, TypeOK, Entry, Dialled
    <3>2. Dialled(c) => (slot'[conn[c].key] = c <=> slot[conn[c].key] = c)
      BY <3>1, CacheConstants DEF Without
    <3> QED
      BY <3>2 DEF PhaseOf, Dialled
  <2>4. Registry!Withdraw(S)
    <3>1. \A c \in S : [d \in Conn |-> PhaseOf(d)][c] = "serving"
      BY <1>1, <2>1
    <3>2. [d \in Conn |-> PhaseOf(d)]'
            = [d \in Conn |-> IF d \in S THEN "withdrawn" ELSE [e \in Conn |-> PhaseOf(e)][d]]
      BY <2>2, <2>3
    <3> QED
      BY <1>3, <3>1, <3>2 DEF Registry!Withdraw, PhaseOf, Without
  <2>5. S \in SUBSET Conn
    BY <1>1
  <2> QED
    BY <2>4, <2>5 DEF Registry!Next
<1> QED
  BY <1>2, <1>3

\* Closing a connection that serves no key is the registry's CloseConn.
LEMMA RegistryCloses ==
  ASSUME IInv, NEW c \in Conn, Dialled(c), ~conn[c].shut, \A k \in Key : slot[k] # c,
         UNCHANGED slot, conn' = [conn EXCEPT ![c].shut = TRUE]
  PROVE  [Registry!Next]_Registry!vars
<1>1. /\ conn'[c].shut = TRUE
      /\ \A d \in Conn : conn'[d].key = conn[d].key /\ (d # c => conn'[d] = conn[d])
  BY DEF IInv, TypeOK, Entry
<1>2. PhaseOf(c) = "withdrawn"
  BY DEF PhaseOf, IInv, TypeOK, Entry, Dialled
<1>3. PhaseOf(c)' = "closed" /\ \A d \in Conn : d # c => PhaseOf(d)' = PhaseOf(d)
  BY <1>1 DEF PhaseOf, Dialled
<1>4. [d \in Conn |-> PhaseOf(d)]' = [[d \in Conn |-> PhaseOf(d)] EXCEPT ![c] = "closed"]
  BY <1>3
<1>5. Registry!CloseConn(c)
  BY <1>2, <1>4 DEF Registry!CloseConn, PhaseOf
<1> QED
  BY <1>5 DEF Registry!Next

\* A dial that succeeds publishes its connection under a key that has none, or
\* the connection is rejected.
LEMMA RegistryDials ==
  ASSUME IInv, NEW g \in Caller, NEW c \in Conn, DialDone(g, c)
  PROVE  [Registry!Next]_Registry!vars
<1>1. PICK k \in Key : k = caller[g].key
  BY DEF IInv, KeyInv, DialDone, At
<1>2. slot[k] = NoConn /\ ~Dialled(c) /\ k # NoKey
  BY <1>1, CacheConstants DEF IInv, LeaderInv, DialDone, At
<1>3. /\ conn'[c].key = k /\ conn'[c].shut = FALSE
      /\ \A d \in Conn : d # c => conn'[d] = conn[d]
  BY <1>1 DEF DialDone, IInv, TypeOK
<1>4. PhaseOf(c) = "unused"
  BY <1>2 DEF PhaseOf
<1>5. CASE slot' = [slot EXCEPT ![k] = c]
  <2>1. PhaseOf(c)' = "serving"
    BY <1>2, <1>3, <1>5 DEF PhaseOf, Dialled, IInv, TypeOK
  <2>2. \A d \in Conn : d # c => PhaseOf(d)' = PhaseOf(d)
    <3> SUFFICES ASSUME NEW d \in Conn, d # c
                 PROVE  PhaseOf(d)' = PhaseOf(d)
      OBVIOUS
    <3>1. Dialled(d) => conn[d].key \in Key
      BY DEF IInv, TypeOK, Entry, Dialled
    <3>2. Dialled(d) => (slot'[conn[d].key] = d <=> slot[conn[d].key] = d)
      BY <1>2, <1>5, <3>1, CacheConstants DEF IInv, TypeOK
    <3> QED
      BY <1>3, <3>2 DEF PhaseOf, Dialled
  <2>3. [d \in Conn |-> PhaseOf(d)]' = [[d \in Conn |-> PhaseOf(d)] EXCEPT ![c] = "serving"]
    BY <2>1, <2>2
  <2>4. Registry!Publish(k, c)
    BY <1>2, <1>4, <1>5, <2>3 DEF Registry!Publish, PhaseOf
  <2> QED
    BY <2>4 DEF Registry!Next
<1>6. CASE UNCHANGED slot
  <2>1. PhaseOf(c)' = "withdrawn"
    BY <1>2, <1>3, <1>6, CacheConstants DEF PhaseOf, Dialled
  <2>2. \A d \in Conn : d # c => PhaseOf(d)' = PhaseOf(d)
    BY <1>3, <1>6 DEF PhaseOf, Dialled
  <2>3. [d \in Conn |-> PhaseOf(d)]' = [[d \in Conn |-> PhaseOf(d)] EXCEPT ![c] = "withdrawn"]
    BY <2>1, <2>2
  <2>4. Registry!Reject(c)
    BY <1>4, <1>6, <2>3 DEF Registry!Reject, PhaseOf
  <2> QED
    BY <2>4 DEF Registry!Next
<1> QED
  BY <1>1, <1>5, <1>6 DEF DialDone

\* AssetConnCache implements the registry: each key has at most one connection
\* that is handed out, none is handed out again once it was taken out, and each
\* one taken out or rejected is closed at most once.
THEOREM CacheIsRegistry == Spec => Registry!Spec
<1>1. Init => Registry!Init
  <2> SUFFICES ASSUME Init
               PROVE  Registry!Init
    OBVIOUS
  <2>1. \A c \in Conn : PhaseOf(c) = "unused"
    BY DEF Init, PhaseOf, Dialled, Unused
  <2> QED
    BY <2>1 DEF Init, Registry!Init, PhaseOf
<1>2. IInv /\ [Next]_vars => [Registry!Next]_Registry!vars
  <2> SUFFICES ASSUME IInv, [Next]_vars
               PROVE  [Registry!Next]_Registry!vars
    OBVIOUS
  <2>1. conn \in [Conn -> Entry] /\ slot \in [Key -> Conn \cup {NoConn}]
    BY DEF IInv, TypeOK
  <2>2. ASSUME NEW A \in SUBSET Asset, Outdate(A)
        PROVE  \A c \in Conn : conn'[c].key = conn[c].key /\ conn'[c].shut = conn[c].shut
    BY <2>2, OutdateFacts
  <2>3. ASSUME NEW g \in Caller, CallStep(g)
        PROVE  [Registry!Next]_Registry!vars
    <3>1. CASE GetOrDial(g) \/ Do(g) \/ Recheck(g) \/ DialFail(g)
      BY <3>1, RegistryIdle DEF GetOrDial, Do, Recheck, DialFail
    <3>2. CASE Discard(g)
      BY <3>2, RegistryCloses DEF Discard, IInv, DiscardInv
    <3> QED
      BY <2>3, <3>1, <3>2, RegistryDials DEF CallStep
  <2>4. ASSUME NEW g \in Caller, UseStep(g)
        PROVE  [Registry!Next]_Registry!vars
    <3>1. UNCHANGED slot
      BY <2>4 DEF UseStep, Hold, UseUnheld, Touch, Unhold
    <3>2. \A c \in Conn : conn'[c].key = conn[c].key /\ conn'[c].shut = conn[c].shut
      <4>1. CASE UseUnheld(g) \/ Touch(g)
        BY <4>1 DEF UseUnheld, Touch
      <4>2. CASE Hold(g)
        BY <2>1, <4>2 DEF Hold, Entry
      <4>3. CASE Unhold(g)
        BY <2>1, <4>3 DEF Unhold, Entry
      <4> QED
        BY <2>4, <4>1, <4>2, <4>3 DEF UseStep
    <3> QED
      BY <3>1, <3>2, RegistryIdle
  <2>5. ASSUME NEW a \in Asset, DropAsset(a)
        PROVE  [Registry!Next]_Registry!vars
    <3>1. \A c \in Conn : conn'[c].key = conn[c].key /\ conn'[c].shut = conn[c].shut
      BY <2>2, <2>5 DEF DropAsset
    <3> QED
      BY <2>5, <3>1, RegistryWithdraws DEF DropAsset
  <2>6. ASSUME NEW k \in Key, Drop(k)
        PROVE  [Registry!Next]_Registry!vars
    <3>1. slot' = Without({slot[k]})
      BY <2>1, <2>6, CacheConstants DEF Drop, Without, IInv, SlotInv
    <3>2. {slot[k]} \in SUBSET Cached
      BY <2>6 DEF Drop, Cached
    <3> QED
      BY <2>6, <3>1, <3>2, RegistryWithdraws DEF Drop
  <2>7. CASE Close
    <3>1. slot' = Without(Cached)
      BY <2>1, <2>7 DEF Close, Without, Cached
    <3>2. \A c \in Conn : conn'[c].key = conn[c].key /\ conn'[c].shut = conn[c].shut
      BY <2>2, <2>7 DEF Close
    <3> QED
      BY <3>1, <3>2, RegistryWithdraws
  <2>8. ASSUME NEW old \in SUBSET Conn, EvictIdle(old)
        PROVE  [Registry!Next]_Registry!vars
    BY <2>8, RegistryWithdraws DEF EvictIdle
  <2>9. ASSUME NEW c \in Conn, CloseEntry(c)
        PROVE  [Registry!Next]_Registry!vars
    <3>1. \A k \in Key : slot[k] # c
      BY <2>9, CacheConstants DEF CloseEntry, IInv, SlotInv
    <3> QED
      BY <2>9, <3>1, RegistryCloses DEF CloseEntry, IInv, ClosingInv
  <2>10. CASE \/ \E g \in Caller, k \in Key : Load(g, k)
              \/ \E a \in Asset : Save(a)
              \/ UNCHANGED vars
    BY <2>10, RegistryIdle DEF Load, Save, vars
  <2> QED
    BY <2>3, <2>4, <2>5, <2>6, <2>7, <2>8, <2>9, <2>10 DEF Next
<1> QED
  BY <1>1, <1>2, Invariance, PTL DEF Spec, Registry!Spec

=============================================================================

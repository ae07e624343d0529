------------------------- MODULE DriverSessionProofs -------------------------
(***************************************************************************)
(* What DriverSession promises, for any finite set of operations, any      *)
(* instances and any limit on them.                                        *)
(*                                                                         *)
(* The properties count; a step moves an operation, an instance or a       *)
(* writer.  The inductive invariant says who has what: an operation that   *)
(* holds a slot has an instance exactly when it is past its login, no two  *)
(* have the same one and none has an idle one; whoever is queued holds     *)
(* nothing; an instance that is up is idle or somebody's; its holds are    *)
(* the session's one and one for each of its writers.                      *)
(***************************************************************************)
EXTENDS DriverSession, FiniteSetTheorems, SequenceTheorems, TLAPS

-----------------------------------------------------------------------------
(* The inductive invariant *)

\* The operation's slot, and its instance.
Holds(x) ==
  \/ x.pc \in {"login", "opening", "call", "run", "cursor", "release", "give"}
  \/ (x.pc \in {"wait", "forgo"} /\ x.grant \in {"inst", "login"})

Owns(x) ==
  \/ x.pc \in {"opening", "call", "run", "cursor", "release", "give"}
  \/ (x.pc \in {"wait", "forgo"} /\ x.grant = "inst")

Queued(x) == x.pc = "wait" /\ x.grant = "none"

Fits(x) ==
  /\ x.grant # "none" => x.pc \in {"wait", "forgo"}
  /\ x.inst # NoInst <=> (Owns(x) \/ x.pc = "retire")

OwnStage(x) == IF x.pc = "opening" THEN "opening" ELSE "up"

Holders(ops) == {o \in Op : Holds(ops[o])}

WritersOf(ws, i) == {o \in Op : ws[o].inst = i}

\* The session's own hold on an instance.
Base(d) == IF d.stage \in {"opening", "up", "retire", "closing"} THEN 1 ELSE 0

Distinct(s) == \A m, n \in 1 .. Len(s) : s[m] = s[n] => m = n

\* A writer is there once its operation gives the instance back.
Late == {"release", "give", "retire", "done"}

OpInv == \A o \in Op : Fits(op[o])

QueueInv ==
  /\ Distinct(queue)
  /\ \A n \in 1 .. Len(queue) : Queued(op[queue[n]])

IdleInv ==
  /\ Distinct(idle)
  /\ closed => idle = <<>>
  /\ \A n \in 1 .. Len(idle) : inst[idle[n]].stage = "up"

OwnInv ==
  /\ \A o, p \in Op : Owns(op[o]) /\ Owns(op[p]) /\ op[o].inst = op[p].inst => o = p
  /\ \A o \in Op : Owns(op[o]) =>
       /\ inst[op[o].inst].stage = OwnStage(op[o])
       /\ \A n \in 1 .. Len(idle) : idle[n] # op[o].inst

UpInv ==
  \A i \in Inst : inst[i].stage \in {"opening", "up"} =>
    \/ \E n \in 1 .. Len(idle) : idle[n] = i
    \/ \E o \in Op : Owns(op[o]) /\ op[o].inst = i

RefsInv ==
  \A i \in Inst :
    /\ inst[i].refs = Base(inst[i]) + Cardinality(WritersOf(writer, i))
    /\ inst[i].stage = "unused" => WritersOf(writer, i) = {}

WriterInv ==
  \A o \in Op :
    /\ writer[o].at = "none" <=> writer[o].inst = NoInst
    /\ writer[o].at # "none" => op[o].pc \in Late

SlotInv == live = Len(idle) + Cardinality(Holders(op))

IInv ==
  /\ TypeOK
  /\ OpInv
  /\ QueueInv
  /\ NobodyWaitsInVain
  /\ IdleInv
  /\ OwnInv
  /\ UpInv
  /\ RefsInv
  /\ WriterInv
  /\ SlotInv

-----------------------------------------------------------------------------
(* Sequences *)

\* slices.Delete of one element.
LEMMA RemoveAtSeq ==
  ASSUME NEW S, NEW s \in Seq(S), NEW n \in 1 .. Len(s), NEW t, t = RemoveAt(s, n)
  PROVE  /\ t \in Seq(S) /\ Len(t) = Len(s) - 1
         /\ \A k \in 1 .. Len(t) : t[k] = s[IF k < n THEN k ELSE k + 1]
<1>1. PICK a : a = SubSeq(s, 1, n - 1)
  OBVIOUS
<1>2. PICK b : b = SubSeq(s, n + 1, Len(s))
  OBVIOUS
<1>3. a \in Seq(S) /\ Len(a) = n - 1 /\ \A k \in 1 .. n - 1 : a[k] = s[k]
  BY <1>1
<1>4. b \in Seq(S) /\ Len(b) = Len(s) - n /\ \A k \in 1 .. Len(s) - n : b[k] = s[n + k]
  BY <1>2
<1>5. t = a \o b
  BY <1>1, <1>2 DEF RemoveAt
<1>6. /\ t \in Seq(S) /\ Len(t) = Len(a) + Len(b)
      /\ \A k \in 1 .. Len(a) + Len(b) : t[k] = IF k <= Len(a) THEN a[k] ELSE b[k - Len(a)]
  <2>1. a \in Seq(S) /\ b \in Seq(S)
    BY <1>3, <1>4
  <2> QED
    BY <1>5, <2>1
<1>7. ASSUME NEW k \in 1 .. Len(t)
      PROVE  t[k] = s[IF k < n THEN k ELSE k + 1]
  <2>1. CASE k < n
    BY <1>3, <1>4, <1>6, <1>7, <2>1
  <2>2. CASE ~(k < n)
    <3>1. k - Len(a) \in 1 .. Len(s) - n /\ n + (k - Len(a)) = k + 1
      BY <1>3, <1>4, <1>6, <1>7, <2>2
    <3>2. t[k] = b[k - Len(a)]
      BY <1>3, <1>4, <1>6, <1>7, <2>2
    <3>3. b[k - Len(a)] = s[n + (k - Len(a))]
      BY <1>4, <3>1
    <3> QED
      BY <2>2, <3>1, <3>2, <3>3
  <2> QED
    BY <2>1, <2>2
<1> QED
  BY <1>3, <1>4, <1>6, <1>7

\* What is left of a sequence without repetitions has all but the element removed.
Shrunk(S, s, n, t) ==
  /\ t \in Seq(S) /\ Len(t) = Len(s) - 1 /\ Distinct(t)
  /\ \A k \in 1 .. Len(t) : t[k] # s[n] /\ \E m \in 1 .. Len(s) : t[k] = s[m]
  /\ \A m \in 1 .. Len(s) : m = n \/ \E k \in 1 .. Len(t) : t[k] = s[m]

\* slices.Delete of an element of a sequence without repetitions.
LEMMA RemoveAtDistinct ==
  ASSUME NEW S, NEW s \in Seq(S), Distinct(s), NEW n \in 1 .. Len(s), NEW t, t = RemoveAt(s, n)
  PROVE  Shrunk(S, s, n, t)
<1>1. /\ t \in Seq(S) /\ Len(t) = Len(s) - 1
      /\ \A k \in 1 .. Len(t) : t[k] = s[IF k < n THEN k ELSE k + 1]
  BY RemoveAtSeq
<1>2. \A k \in 1 .. Len(t) : (IF k < n THEN k ELSE k + 1) \in 1 .. Len(s) /\ (IF k < n THEN k ELSE k + 1) # n
  BY <1>1
<1>3. Distinct(t)
  BY <1>1, <1>2 DEF Distinct
<1>4. \A k \in 1 .. Len(t) : t[k] # s[n] /\ \E m \in 1 .. Len(s) : t[k] = s[m]
  BY <1>1, <1>2 DEF Distinct
<1>5. ASSUME NEW m \in 1 .. Len(s), m # n
      PROVE  \E k \in 1 .. Len(t) : t[k] = s[m]
  <2>1. CASE m < n
    BY <1>1, <1>5, <2>1
  <2>2. CASE m > n
    <3>1. m - 1 \in 1 .. Len(t) /\ ~(m - 1 < n)
      BY <1>1, <1>5, <2>2
    <3>2. t[m - 1] = s[(m - 1) + 1] /\ (m - 1) + 1 = m
      BY <1>1, <3>1
    <3> QED
      BY <3>1, <3>2
  <2> QED
    BY <1>5, <2>1, <2>2
<1> QED
  BY <1>1, <1>3, <1>4, <1>5 DEF Shrunk

\* popLocked: what is left of the queue is what was behind its head.
Popped(S, s, h, t) ==
  /\ h \in S /\ h = s[1] /\ 1 \in 1 .. Len(s)
  /\ t \in Seq(S) /\ Len(t) = Len(s) - 1 /\ Distinct(t)
  /\ \A k \in 1 .. Len(t) : t[k] # h /\ k + 1 \in 1 .. Len(s) /\ t[k] = s[k + 1]

\* popLocked takes the head of a queue without repetitions.
LEMMA TailDistinct ==
  ASSUME NEW S, NEW s \in Seq(S), Distinct(s), s # <<>>, NEW h, h = Head(s), NEW t, t = Tail(s)
  PROVE  Popped(S, s, h, t)
<1>1. /\ Head(s) \in S /\ Head(s) = s[1] /\ Len(s) >= 1 /\ 1 \in 1 .. Len(s)
      /\ t \in Seq(S) /\ Len(t) = Len(s) - 1 /\ \A k \in 1 .. Len(t) : t[k] = s[k + 1]
  OBVIOUS
<1>2. \A k \in 1 .. Len(t) : k + 1 \in 1 .. Len(s) /\ k + 1 # 1
  BY <1>1
<1> QED
  BY <1>1, <1>2 DEF Distinct, Popped

\* acquire takes the last of the idle instances.
LastTaken(S, s, l, t) ==
  /\ l \in S /\ l = s[Len(s)] /\ Len(s) \in 1 .. Len(s)
  /\ t \in Seq(S) /\ Len(t) = Len(s) - 1 /\ Distinct(t)
  /\ \A k \in 1 .. Len(t) : t[k] # l /\ k \in 1 .. Len(s) /\ t[k] = s[k]

\* acquire takes the last of a sequence without repetitions.
LEMMA FrontDistinct ==
  ASSUME NEW S, NEW s \in Seq(S), Distinct(s), s # <<>>, NEW l, l = Last(s), NEW t, t = Front(s)
  PROVE  LastTaken(S, s, l, t)
<1>1. /\ Len(s) \in 1 .. Len(s) /\ Last(s) = s[Len(s)] /\ Last(s) \in S
  BY DEF Last
<1>2. t \in Seq(S) /\ Len(t) = Len(s) - 1 /\ \A k \in 1 .. Len(t) : t[k] = s[k]
  <2>1. PICK m \in 0 .. Len(s) : m = Len(s) - 1
    <3>1. Len(s) \in Nat /\ 1 <= Len(s)
      BY <1>1, LenProperties
    <3>2. Len(s) - 1 \in 0 .. Len(s)
      BY <3>1
    <3> QED
      BY <3>2
  <2>2. t = SubSeq(s, 1, m)
    BY <2>1 DEF Front
  <2>3. t \in Seq(S) /\ Len(t) = m
    BY <2>1, <2>2
  <2>4. \A k \in 1 .. m : t[k] = s[k]
    BY <2>1, <2>2
  <2> QED
    BY <2>1, <2>3, <2>4
<1>3. \A k \in 1 .. Len(t) : k \in 1 .. Len(s) /\ k # Len(s)
  BY <1>1, <1>2
<1> QED
  BY <1>1, <1>2, <1>3 DEF Distinct, LastTaken

\* An operation queues behind the others, an instance becomes idle.
Grown(S, s, e, t) ==
  /\ t \in Seq(S) /\ Len(t) = Len(s) + 1 /\ Distinct(t) /\ t[Len(t)] = e /\ Len(t) \in 1 .. Len(t)
  /\ \A k \in 1 .. Len(s) : k \in 1 .. Len(t) /\ t[k] = s[k]
  /\ \A k \in 1 .. Len(t) : k = Len(t) \/ k \in 1 .. Len(s)

\* append of a new element to a sequence without repetitions.
LEMMA AppendDistinct ==
  ASSUME NEW S, NEW s \in Seq(S), Distinct(s), NEW e \in S, \A n \in 1 .. Len(s) : s[n] # e,
         NEW t, t = Append(s, e)
  PROVE  Grown(S, s, e, t)
<1>1. /\ t \in Seq(S) /\ Len(t) = Len(s) + 1 /\ t[Len(t)] = e /\ Len(t) \in 1 .. Len(t)
      /\ \A k \in 1 .. Len(s) : k \in 1 .. Len(t) /\ t[k] = s[k]
      /\ \A k \in 1 .. Len(t) : k = Len(t) \/ k \in 1 .. Len(s)
  OBVIOUS
<1> QED
  BY <1>1 DEF Distinct, Grown

-----------------------------------------------------------------------------
(* Counting *)

\* The slots of an operations table are finitely many.
LEMMA HoldersCount ==
  ASSUME NEW f
  PROVE  IsFiniteSet(Holders(f)) /\ Cardinality(Holders(f)) \in Nat
BY SessionConstants, FS_Subset, FS_CardinalityType DEF Holders

\* One operation takes a slot ...
LEMMA OneMore ==
  ASSUME NEW f, NEW g, NEW o \in Op, Holds(g[o]), ~Holds(f[o]), \A p \in Op : p # o => (Holds(g[p]) <=> Holds(f[p]))
  PROVE  Cardinality(Holders(g)) = Cardinality(Holders(f)) + 1
<1>1. PICK F : F = Holders(f)
  OBVIOUS
<1>2. IsFiniteSet(F)
  BY <1>1, HoldersCount
<1>3. Holders(g) = F \cup {o} /\ o \notin F
  BY <1>1 DEF Holders
<1> QED
  BY <1>1, <1>2, <1>3, FS_AddElement

\* ... or gives one up ...
LEMMA OneLess ==
  ASSUME NEW f, NEW g, NEW o \in Op, ~Holds(g[o]), Holds(f[o]), \A p \in Op : p # o => (Holds(g[p]) <=> Holds(f[p]))
  PROVE  Cardinality(Holders(g)) = Cardinality(Holders(f)) - 1
<1>1. PICK F : F = Holders(f)
  OBVIOUS
<1>2. IsFiniteSet(F)
  BY <1>1, HoldersCount
<1>3. Holders(g) = F \ {o} /\ o \in F
  BY <1>1 DEF Holders
<1> QED
  BY <1>1, <1>2, <1>3, FS_RemoveElement

\* ... or hands it to another.
LEMMA OneForOne ==
  ASSUME NEW f, NEW g, NEW o \in Op, NEW h \in Op, o # h, Holds(f[o]), ~Holds(g[o]), ~Holds(f[h]), Holds(g[h]),
         \A p \in Op : p # o /\ p # h => (Holds(g[p]) <=> Holds(f[p]))
  PROVE  Cardinality(Holders(g)) = Cardinality(Holders(f))
<1>1. PICK F : F = Holders(f)
  OBVIOUS
<1>2. PICK E : E = F \ {o}
  OBVIOUS
<1>3. IsFiniteSet(F) /\ Cardinality(F) \in Nat /\ o \in F
  BY <1>1, HoldersCount DEF Holders
<1>4. IsFiniteSet(E) /\ Cardinality(E) = Cardinality(F) - 1
  BY <1>2, <1>3, FS_RemoveElement
<1>5. Holders(g) = E \cup {h} /\ h \notin E
  BY <1>1, <1>2 DEF Holders
<1>6. Cardinality(E \cup {h}) = Cardinality(E) + 1
  BY <1>4, <1>5, FS_AddElement
<1> QED
  BY <1>1, <1>3, <1>4, <1>5, <1>6

\* There is a slot for every holder.
LEMMA HolderCounts ==
  ASSUME IInv, NEW o \in Op, Holds(op[o])
  PROVE  live >= 1 /\ live \in 0 .. MaxInst
<1>1. TypeOK /\ SlotInv
  BY DEF IInv
<1>2. PICK F : F = Holders(op)
  OBVIOUS
<1>3. IsFiniteSet(F) /\ Cardinality(F) \in Nat /\ o \in F
  BY <1>2, SessionConstants, FS_Subset, FS_CardinalityType DEF Holders
<1>4. Cardinality(F) # 0
  BY <1>3, FS_EmptySet
<1> QED
  BY <1>1, <1>2, <1>3, <1>4 DEF TypeOK, SlotInv

\* The writers of an instance are finitely many.
LEMMA WritersCount ==
  ASSUME NEW ws, NEW i
  PROVE  IsFiniteSet(WritersOf(ws, i)) /\ Cardinality(WritersOf(ws, i)) \in Nat
BY SessionConstants, FS_Subset, FS_CardinalityType DEF WritersOf

-----------------------------------------------------------------------------
(* Steps that leave the session's slots alone *)

\* One operation moves and keeps the slot and the instance it has, if any; its
\* instance may be used, broken, found to be logged in or given to a writer.
LEMMA OpAndWriterMove ==
  ASSUME IInv, NEW o \in Op, NEW x \in OpState, op' = [op EXCEPT ![o] = x],
         Fits(x), Holds(x) <=> Holds(op[o]), Owns(x) <=> Owns(op[o]),
         Owns(x) => x.inst = op[o].inst, Queued(op[o]) => Queued(x) \/ \A n \in 1 .. Len(queue) : queue[n] # o,
         inst' \in [Inst -> InstState],
         \A i \in Inst : inst'[i].stage = IF Owns(x) /\ i = x.inst THEN OwnStage(x) ELSE inst[i].stage,
         writer' \in [Op -> WriterState], RefsInv', WriterInv', UNCHANGED <<session, life>>
  PROVE  IInv'
<1>1. /\ TypeOK /\ OpInv /\ QueueInv /\ NobodyWaitsInVain /\ IdleInv /\ OwnInv /\ UpInv /\ RefsInv /\ WriterInv /\ SlotInv
      /\ live' = live /\ idle' = idle /\ queue' = queue /\ closed' = closed /\ life' = life
  BY DEF IInv, session
<1>2. op \in [Op -> OpState]
  BY <1>1 DEF TypeOK
<1>3. /\ op' \in [Op -> OpState] /\ op'[o] = x /\ \A p \in Op : p # o => op'[p] = op[p]
      /\ Cardinality(Holders(op')) = Cardinality(Holders(op))
  <2>1. op' \in [Op -> OpState] /\ op'[o] = x /\ \A p \in Op : p # o => op'[p] = op[p]
    BY <1>2
  <2>2. Holders(op') = Holders(op)
    BY <2>1 DEF Holders
  <2> QED
    BY <2>1, <2>2
<1>4. Owns(x) => x.inst \in Inst /\ inst[x.inst].stage = OwnStage(op[o])
  BY <1>1 DEF OpInv, OwnInv, Fits, TypeOK, OpState
<1>5. TypeOK'
  BY <1>1, <1>3 DEF TypeOK
<1>6. OpInv'
  BY <1>1, <1>3 DEF OpInv
<1>7. QueueInv'
  <2>1. Distinct(queue')
    BY <1>1 DEF QueueInv
  <2>2. ASSUME NEW n \in 1 .. Len(queue) PROVE Queued(op'[queue[n]])
    <3>1. queue[n] \in Op /\ Queued(op[queue[n]])
      BY <1>1 DEF QueueInv, TypeOK
    <3> QED
      BY <1>3, <3>1
  <2> QED
    BY <1>1, <2>1, <2>2 DEF QueueInv
<1>8. NobodyWaitsInVain'
  BY <1>1 DEF NobodyWaitsInVain
<1>9. IdleInv'
  <2>1. ASSUME NEW n \in 1 .. Len(idle) PROVE inst'[idle[n]].stage = "up"
    <3>1. idle[n] \in Inst /\ inst[idle[n]].stage = "up"
      BY <1>1 DEF IdleInv, TypeOK
    <3>2. ~(Owns(x) /\ idle[n] = x.inst)
      BY <1>1 DEF OwnInv
    <3> QED
      BY <3>1, <3>2
  <2> QED
    BY <1>1, <2>1 DEF IdleInv
<1>10. OwnInv'
  <2>1. \A p, q \in Op : Owns(op'[p]) /\ Owns(op'[q]) /\ op'[p].inst = op'[q].inst => p = q
    BY <1>1, <1>3 DEF OwnInv
  <2>2. ASSUME NEW p \in Op, Owns(op'[p])
        PROVE  /\ inst'[op'[p].inst].stage = OwnStage(op'[p])
               /\ \A n \in 1 .. Len(idle) : idle[n] # op'[p].inst
    <3>1. CASE p = o
      BY <1>1, <1>3, <1>4, <2>2, <3>1 DEF OwnInv
    <3>2. CASE p # o
      <4>1. op'[p] = op[p] /\ Owns(op[p]) /\ op[p].inst \in Inst
        BY <1>1, <1>3, <2>2, <3>2 DEF OpInv, Fits, TypeOK, OpState
      <4>2. ~(Owns(x) /\ op[p].inst = x.inst)
        BY <1>1, <3>2, <4>1 DEF OwnInv
      <4> QED
        BY <1>1, <4>1, <4>2 DEF OwnInv
    <3> QED
      BY <3>1, <3>2
  <2> QED
    BY <1>1, <2>1, <2>2 DEF OwnInv
<1>11. UpInv'
  <2>1. ASSUME NEW i \in Inst, inst'[i].stage \in {"opening", "up"}
        PROVE  (\E n \in 1 .. Len(idle) : idle[n] = i) \/ \E p \in Op : Owns(op'[p]) /\ op'[p].inst = i
    <3>1. CASE Owns(x) /\ i = x.inst
      BY <1>3, <3>1
    <3>2. CASE ~(Owns(x) /\ i = x.inst)
      <4>1. inst[i].stage \in {"opening", "up"}
        BY <2>1, <3>2
      <4>2. CASE \E n \in 1 .. Len(idle) : idle[n] = i
        BY <4>2
      <4>3. CASE \E p \in Op : Owns(op[p]) /\ op[p].inst = i
        BY <1>3, <3>2, <4>3
      <4> QED
        BY <1>1, <4>1, <4>2, <4>3 DEF UpInv
    <3> QED
      BY <3>1, <3>2
  <2> QED
    BY <1>1, <2>1 DEF UpInv
<1>12. SlotInv'
  BY <1>1, <1>3 DEF SlotInv
<1> QED
  BY <1>5, <1>6, <1>7, <1>8, <1>9, <1>10, <1>11, <1>12 DEF IInv

\* The same, without writers.
LEMMA OpMoves ==
  ASSUME IInv, NEW o \in Op, NEW x \in OpState, op' = [op EXCEPT ![o] = x],
         Fits(x), Holds(x) <=> Holds(op[o]), Owns(x) <=> Owns(op[o]),
         Owns(x) => x.inst = op[o].inst, Queued(op[o]) => Queued(x) \/ \A n \in 1 .. Len(queue) : queue[n] # o,
         op[o].pc \in Late => x.pc \in Late,
         inst' \in [Inst -> InstState],
         \A i \in Inst : /\ inst'[i].refs = inst[i].refs
                         /\ inst'[i].stage = IF Owns(x) /\ i = x.inst THEN OwnStage(x) ELSE inst[i].stage,
         UNCHANGED <<session, writer, life>>
  PROVE  IInv'
<1>1. TypeOK /\ OpInv /\ OwnInv /\ RefsInv /\ WriterInv /\ writer' = writer
  BY DEF IInv
<1>2. op \in [Op -> OpState] /\ writer' \in [Op -> WriterState]
  BY <1>1 DEF TypeOK
<1>3. op'[o] = x /\ \A p \in Op : p # o => op'[p] = op[p]
  BY <1>2
<1>4. Owns(x) => x.inst \in Inst /\ inst[x.inst].stage = OwnStage(op[o])
  BY <1>1 DEF OpInv, OwnInv, Fits, TypeOK, OpState
<1>5. RefsInv'
  <2>1. ASSUME NEW i \in Inst
        PROVE  /\ inst'[i].refs = Base(inst'[i]) + Cardinality(WritersOf(writer, i))
               /\ inst'[i].stage = "unused" => WritersOf(writer, i) = {}
    <3>1. CASE Owns(x) /\ i = x.inst
      <4>1. Base(inst'[i]) = 1 /\ Base(inst[i]) = 1 /\ inst'[i].stage # "unused"
        BY <1>4, <3>1 DEF Base, OwnStage
      <4> QED
        BY <1>1, <4>1 DEF RefsInv
    <3>2. CASE ~(Owns(x) /\ i = x.inst)
      BY <1>1, <3>2 DEF RefsInv, Base
    <3> QED
      BY <3>1, <3>2
  <2> QED
    BY <1>1, <2>1 DEF RefsInv
<1>6. WriterInv'
  BY <1>1, <1>3 DEF WriterInv
<1> QED
  BY <1>2, <1>5, <1>6, OpAndWriterMove

\* One instance, or one of its writers, moves; what the session has of it stays.
LEMMA InstMoves ==
  ASSUME IInv, NEW i \in Inst, NEW d \in InstState, inst' = [inst EXCEPT ![i] = d],
         d.refs - Base(d) = inst[i].refs - Base(inst[i]),
         d.stage = inst[i].stage \/ (inst[i].stage \in {"retire", "closing"} /\ d.stage \in {"closing", "gone"}),
         writer' \in [Op -> WriterState],
         \A o \in Op : writer'[o].inst = writer[o].inst /\ (writer'[o].at = "none" <=> writer[o].at = "none"),
         UNCHANGED <<session, op>>, life' \in {"on", "removed", "ended"}
  PROVE  IInv'
<1>1. /\ TypeOK /\ OpInv /\ QueueInv /\ NobodyWaitsInVain /\ IdleInv /\ OwnInv /\ UpInv /\ RefsInv /\ WriterInv /\ SlotInv
      /\ live' = live /\ idle' = idle /\ queue' = queue /\ closed' = closed /\ op' = op
  BY DEF IInv, session
<1>2. inst \in [Inst -> InstState]
  BY <1>1 DEF TypeOK
<1>3. inst' \in [Inst -> InstState] /\ inst'[i] = d /\ \A j \in Inst : j # i => inst'[j] = inst[j]
  BY <1>2
<1>4. TypeOK' /\ OpInv' /\ QueueInv' /\ NobodyWaitsInVain' /\ SlotInv'
  BY <1>1, <1>3 DEF TypeOK, OpInv, QueueInv, NobodyWaitsInVain, SlotInv
<1>5. ASSUME NEW j \in Inst
      PROVE  /\ inst[j].stage \in {"opening", "up"} => inst'[j].stage = inst[j].stage
             /\ inst'[j].stage \in {"opening", "up", "unused"} => inst'[j].stage = inst[j].stage
  BY <1>3
<1>6. IdleInv'
  <2>1. ASSUME NEW n \in 1 .. Len(idle) PROVE inst'[idle[n]].stage = "up"
    <3>1. idle[n] \in Inst /\ inst[idle[n]].stage = "up"
      BY <1>1 DEF IdleInv, TypeOK
    <3> QED
      BY <1>5, <3>1
  <2> QED
    BY <1>1, <2>1 DEF IdleInv
<1>7. OwnInv'
  <2>1. ASSUME NEW o \in Op, Owns(op[o]) PROVE inst'[op[o].inst].stage = OwnStage(op[o])
    <3>1. op[o].inst \in Inst /\ inst[op[o].inst].stage = OwnStage(op[o])
      BY <1>1, <2>1 DEF OpInv, OwnInv, Fits, TypeOK, OpState
    <3>2. inst[op[o].inst].stage \in {"opening", "up"}
      BY <3>1 DEF OwnStage
    <3> QED
      BY <1>5, <3>1, <3>2
  <2> QED
    BY <1>1, <2>1 DEF OwnInv
<1>8. UpInv'
  BY <1>1, <1>5 DEF UpInv
<1>9. RefsInv'
  <2>1. ASSUME NEW j \in Inst
        PROVE  /\ inst'[j].refs = Base(inst'[j]) + Cardinality(WritersOf(writer', j))
               /\ inst'[j].stage = "unused" => WritersOf(writer', j) = {}
    <3>1. WritersOf(writer', j) = WritersOf(writer, j)
      BY DEF WritersOf
    <3>2. inst[j].refs = Base(inst[j]) + Cardinality(WritersOf(writer, j))
      BY <1>1 DEF RefsInv
    <3>3. PICK c \in Nat : c = Cardinality(WritersOf(writer, j))
      BY WritersCount
    <3>4. Base(inst[j]) \in Nat /\ Base(inst'[j]) \in Nat /\ inst'[j].refs \in Nat
      BY <1>3 DEF Base, InstState
    <3>5. inst'[j].refs = Base(inst'[j]) + c
      BY <1>3, <3>2, <3>3, <3>4
    <3>6. inst'[j].stage = "unused" => WritersOf(writer, j) = {}
      BY <1>1, <1>5 DEF RefsInv
    <3> QED
      BY <3>1, <3>3, <3>5, <3>6
  <2> QED
    BY <2>1 DEF RefsInv
<1>10. WriterInv'
  BY <1>1 DEF WriterInv
<1> QED
  BY <1>4, <1>6, <1>7, <1>8, <1>9, <1>10 DEF IInv

-----------------------------------------------------------------------------
(* What the assignments of the code make of the records *)

\* An operation goes on.
LEMMA GoesTo ==
  ASSUME NEW y \in OpState, NEW pc \in OpPC, NEW x, x = [y EXCEPT !.pc = pc]
  PROVE  /\ x \in OpState /\ x.pc = pc /\ x.grant = y.grant /\ x.inst = y.inst /\ x.task = y.task
BY DEF OpState

\* An operation returns.
LEMMA ReturnedIs ==
  ASSUME NEW o \in Op, NEW x, x = Returned(o)
  PROVE  /\ x \in OpState /\ x.pc = "done" /\ x.grant = "none" /\ x.inst = NoInst
         /\ Fits(x) /\ ~Holds(x) /\ ~Owns(x) /\ ~Queued(x) /\ x.pc \in Late
<1>1. PICK r \in {"ok", "err", "stale"} : r = IF op[o].result = "stale" THEN "stale" ELSE "ok"
  OBVIOUS
<1>2. x = [pc |-> "done", task |-> "first", inst |-> NoInst, ctx |-> FALSE,
           grant |-> "none", usable |-> FALSE, result |-> r]
  BY <1>1 DEF Returned, NewOp
<1>3. /\ x \in OpState /\ x.pc = "done" /\ x.grant = "none" /\ x.inst = NoInst
  BY <1>2 DEF OpState, OpPC
<1> QED
  BY <1>3 DEF Fits, Holds, Owns, Queued, Late

\* An operation that moves while its instance stays as it is.
LEMMA OpOnly ==
  ASSUME IInv, NEW o \in Op, NEW x \in OpState, op' = [op EXCEPT ![o] = x],
         Fits(x), Holds(x) <=> Holds(op[o]), Owns(x) <=> Owns(op[o]),
         Owns(x) => x.inst = op[o].inst /\ OwnStage(x) = OwnStage(op[o]),
         Queued(op[o]) => Queued(x) \/ \A n \in 1 .. Len(queue) : queue[n] # o,
         op[o].pc \in Late => x.pc \in Late,
         UNCHANGED <<session, inst, writer, life>>
  PROVE  IInv'
<1>1. TypeOK /\ OwnInv
  BY DEF IInv
<1>2. Owns(x) => inst[x.inst].stage = OwnStage(x)
  BY <1>1 DEF OwnInv
<1>3. \A i \in Inst : /\ inst'[i].refs = inst[i].refs
                      /\ inst'[i].stage = IF Owns(x) /\ i = x.inst THEN OwnStage(x) ELSE inst[i].stage
  BY <1>2
<1>4. inst' \in [Inst -> InstState]
  BY <1>1 DEF TypeOK
<1> QED
  BY <1>3, <1>4, OpMoves

\* An operation that moves and uses, lets go of or breaks its instance.
LEMMA OpUses ==
  ASSUME IInv, NEW o \in Op, NEW x \in OpState, op' = [op EXCEPT ![o] = x],
         Fits(x), Holds(x) <=> Holds(op[o]), Owns(x) <=> Owns(op[o]),
         Owns(x) => x.inst = op[o].inst /\ OwnStage(x) = OwnStage(op[o]),
         Queued(op[o]) => Queued(x), op[o].pc \in Late => x.pc \in Late,
         NEW i \in Inst, NEW d \in InstState, inst' = [inst EXCEPT ![i] = d],
         d.stage = inst[i].stage, d.refs = inst[i].refs,
         UNCHANGED <<session, writer, life>>
  PROVE  IInv'
<1>1. TypeOK /\ OwnInv
  BY DEF IInv
<1>2. Owns(x) => inst[x.inst].stage = OwnStage(x)
  BY <1>1 DEF OwnInv
<1>3. inst' \in [Inst -> InstState] /\ \A j \in Inst : inst'[j].refs = inst[j].refs /\ inst'[j].stage = inst[j].stage
  BY <1>1 DEF TypeOK
<1>4. \A j \in Inst : /\ inst'[j].refs = inst[j].refs
                      /\ inst'[j].stage = IF Owns(x) /\ j = x.inst THEN OwnStage(x) ELSE inst[j].stage
  BY <1>2, <1>3
<1> QED
  BY <1>3, <1>4, OpMoves

-----------------------------------------------------------------------------
(* The actions: operations *)

\* do, before the session is reached.
LEMMA BeginKeeps ==
  ASSUME IInv, NEW o \in Op, Begin(o)
  PROVE  IInv'
<1>1. TypeOK /\ op[o] \in OpState /\ op[o].pc = "new" /\ Fits(op[o]) /\ UNCHANGED <<session, inst, writer, life>>
  BY DEF IInv, TypeOK, OpInv, Begin, At
<1>2. ~Holds(op[o]) /\ ~Owns(op[o]) /\ ~Queued(op[o]) /\ op[o].pc \notin Late
  BY <1>1 DEF Holds, Owns, Queued, Late
<1>3. CASE Removed
  <2>1. PICK x : x = Returned(o)
    OBVIOUS
  <2>2. op' = [op EXCEPT ![o] = x]
    BY <1>3, <2>1 DEF Begin, Finish
  <2> QED
    BY <1>1, <1>2, <2>1, <2>2, ReturnedIs, OpOnly
<1>4. CASE ~Removed
  <2>1. PICK x : x = [op[o] EXCEPT !.pc = "acquire"]
    OBVIOUS
  <2>2. op' = [op EXCEPT ![o] = x]
    BY <1>1, <1>4, <2>1 DEF Begin, Goto
  <2>3. x \in OpState /\ x.pc = "acquire" /\ x.grant = op[o].grant /\ x.inst = op[o].inst
    BY <1>1, <2>1 DEF OpState, OpPC
  <2>4. Fits(x) /\ ~Holds(x) /\ ~Owns(x) /\ ~Queued(x)
    BY <1>1, <2>3 DEF Fits, Holds, Owns, Queued
  <2> QED
    BY <1>1, <1>2, <2>2, <2>3, <2>4, OpOnly
<1> QED
  BY <1>3, <1>4

\* acquire on a closed session.
LEMMA AcquireClosedKeeps ==
  ASSUME IInv, NEW o \in Op, AcquireClosed(o)
  PROVE  IInv'
<1>1. op[o].pc = "acquire" /\ UNCHANGED <<session, inst, writer, life>>
  BY DEF AcquireClosed, At
<1>2. ~Holds(op[o]) /\ ~Owns(op[o]) /\ ~Queued(op[o]) /\ op[o].pc \notin Late
  BY <1>1 DEF Holds, Owns, Queued, Late
<1>3. PICK x : x = Returned(o)
  OBVIOUS
<1>4. op' = [op EXCEPT ![o] = x]
  BY <1>3 DEF AcquireClosed, Finish
<1> QED
  BY <1>1, <1>2, <1>3, <1>4, ReturnedIs, OpOnly

\* The grant is taken.
LEMMA TakeKeeps ==
  ASSUME IInv, NEW o \in Op, Take(o)
  PROVE  IInv'
<1>1. /\ op[o] \in OpState /\ op[o].pc = "wait" /\ op[o].grant \in {"inst", "login", "closed"} /\ Fits(op[o])
      /\ UNCHANGED <<session, inst, writer, life>>
  BY DEF IInv, TypeOK, OpInv, Take, At, OpState
<1>2. CASE op[o].grant = "closed"
  <2>1. PICK x : x = Returned(o)
    OBVIOUS
  <2>2. op' = [op EXCEPT ![o] = x]
    BY <1>2, <2>1 DEF Take, Finish
  <2>3. ~Holds(op[o]) /\ ~Owns(op[o]) /\ ~Queued(op[o]) /\ op[o].pc \notin Late
    BY <1>1, <1>2 DEF Holds, Owns, Queued, Late
  <2> QED
    BY <1>1, <2>1, <2>2, <2>3, ReturnedIs, OpOnly
<1>3. ASSUME NEW pc \in {"call", "login"}, op[o].grant = (IF pc = "call" THEN "inst" ELSE "login")
      PROVE  IInv'
  <2>1. PICK x : x = [op[o] EXCEPT !.pc = pc, !.grant = "none"]
    OBVIOUS
  <2>2. op' = [op EXCEPT ![o] = x]
    BY <1>1, <1>3, <2>1 DEF Take
  <2>3. x \in OpState /\ x.pc = pc /\ x.grant = "none" /\ x.inst = op[o].inst
    BY <1>1, <2>1 DEF OpState, OpPC
  <2>4. /\ Fits(x) /\ Holds(x) /\ Holds(op[o]) /\ (Owns(x) <=> Owns(op[o])) /\ ~Queued(op[o]) /\ op[o].pc \notin Late
        /\ OwnStage(x) = OwnStage(op[o])
    BY <1>1, <1>3, <2>3 DEF Fits, Holds, Owns, Queued, Late, OwnStage
  <2> QED
    BY <1>1, <2>2, <2>3, <2>4, OpOnly
<1> QED
  BY <1>1, <1>2, <1>3

\* usable, asked before the session is locked.
LEMMA AskUsableKeeps ==
  ASSUME IInv, NEW o \in Op, AskUsable(o)
  PROVE  IInv'
<1>1. /\ op[o] \in OpState /\ op[o].pc = "release" /\ Fits(op[o]) /\ inst \in [Inst -> InstState]
      /\ UNCHANGED <<session, inst, writer, life>>
  BY DEF IInv, TypeOK, OpInv, AskUsable, At
<1>2. PICK b \in BOOLEAN : b = ~inst[op[o].inst].broken
  OBVIOUS
<1>3. PICK x : x = [op[o] EXCEPT !.pc = "give", !.usable = b]
  OBVIOUS
<1>4. op' = [op EXCEPT ![o] = x]
  BY <1>2, <1>3 DEF AskUsable
<1>5. x \in OpState /\ x.pc = "give" /\ x.grant = op[o].grant /\ x.inst = op[o].inst
  BY <1>1, <1>3 DEF OpState, OpPC
<1>6. /\ Fits(x) /\ Holds(x) /\ Holds(op[o]) /\ Owns(x) /\ Owns(op[o]) /\ ~Queued(op[o]) /\ x.pc \in Late
      /\ OwnStage(x) = OwnStage(op[o])
  BY <1>1, <1>5 DEF Fits, Holds, Owns, Queued, Late, OwnStage
<1> QED
  BY <1>1, <1>4, <1>5, <1>6, OpOnly

\* The next page of a cursor.
LEMMA ReadPageKeeps ==
  ASSUME IInv, NEW o \in Op, ReadPage(o)
  PROVE  IInv'
<1>1. /\ op[o] \in OpState /\ op[o].pc = "cursor" /\ Fits(op[o])
      /\ UNCHANGED <<session, inst, writer, life>>
  BY DEF IInv, TypeOK, OpInv, ReadPage, At
<1>2. PICK x : x = [op[o] EXCEPT !.pc = "call", !.task = "page"]
  OBVIOUS
<1>3. op' = [op EXCEPT ![o] = x]
  BY <1>2 DEF ReadPage
<1>4. x \in OpState /\ x.pc = "call" /\ x.grant = op[o].grant /\ x.inst = op[o].inst
  BY <1>1, <1>2 DEF OpState, OpPC
<1>5. /\ Fits(x) /\ Holds(x) /\ Holds(op[o]) /\ Owns(x) /\ Owns(op[o]) /\ ~Queued(op[o]) /\ op[o].pc \notin Late
      /\ OwnStage(x) = OwnStage(op[o])
  BY <1>1, <1>4 DEF Fits, Holds, Owns, Queued, Late, OwnStage
<1> QED
  BY <1>1, <1>3, <1>4, <1>5, OpOnly

\* A context ends, wherever its operation is.
LEMMA CancelKeeps ==
  ASSUME IInv, NEW o \in Op, Cancel(o)
  PROVE  IInv'
<1>1. op[o] \in OpState /\ Fits(op[o]) /\ UNCHANGED <<session, inst, writer, life>>
  BY DEF IInv, TypeOK, OpInv, Cancel
<1>2. PICK x : x = [op[o] EXCEPT !.ctx = TRUE]
  OBVIOUS
<1>3. op' = [op EXCEPT ![o] = x]
  BY <1>2 DEF Cancel
<1>4. x \in OpState /\ x.pc = op[o].pc /\ x.grant = op[o].grant /\ x.inst = op[o].inst
  BY <1>1, <1>2 DEF OpState
<1>5. /\ Fits(x) /\ (Holds(x) <=> Holds(op[o])) /\ (Owns(x) <=> Owns(op[o])) /\ (Queued(op[o]) => Queued(x))
      /\ OwnStage(x) = OwnStage(op[o])
  BY <1>1, <1>4 DEF Fits, Holds, Owns, Queued, OwnStage
<1> QED
  BY <1>1, <1>3, <1>4, <1>5, OpOnly

\* The operation that has retired its instance returns.
LEMMA ReturnKeeps ==
  ASSUME IInv, NEW o \in Op, Return(o)
  PROVE  IInv'
<1>1. op[o].pc = "retire" /\ UNCHANGED <<session, inst, writer, life>>
  BY DEF Return, At
<1>2. PICK x : x = Returned(o)
  OBVIOUS
<1>3. op' = [op EXCEPT ![o] = x]
  BY <1>2 DEF Return, Finish
<1>4. op[o] \in OpState /\ Fits(op[o])
  BY DEF IInv, TypeOK, OpInv
<1>5. ~Holds(op[o]) /\ ~Owns(op[o]) /\ ~Queued(op[o])
  BY <1>1 DEF Holds, Owns, Queued
<1> QED
  BY <1>1, <1>2, <1>3, <1>5, ReturnedIs, OpOnly

\* A call gets the instance's mu, or fails at once.
LEMMA CallKeeps ==
  ASSUME IInv, NEW o \in Op, Call(o)
  PROVE  IInv'
<1>1. /\ op[o] \in OpState /\ op[o].pc = "call" /\ Fits(op[o]) /\ inst \in [Inst -> InstState]
      /\ UNCHANGED <<session, writer, life>>
  BY DEF IInv, TypeOK, OpInv, Call, At
<1>2. Holds(op[o]) /\ Owns(op[o]) /\ ~Queued(op[o]) /\ op[o].pc \notin Late /\ op[o].inst \in Inst /\ op[o].grant = "none"
  BY <1>1 DEF Fits, Holds, Owns, Queued, Late, OpState
<1>3. CASE inst[op[o].inst].broken \/ op[o].ctx
  <2>1. PICK pc \in {"cursor", "release"} : pc = After(o)
    BY DEF After
  <2>2. PICK r \in {"stale", "err"} : r = IF inst[op[o].inst].broken /\ op[o].task = "first" THEN "stale" ELSE "err"
    OBVIOUS
  <2>3. PICK x : x = [op[o] EXCEPT !.pc = pc, !.result = r]
    OBVIOUS
  <2>4. op' = [op EXCEPT ![o] = x] /\ inst' = inst
    BY <1>3, <2>1, <2>2, <2>3 DEF Call
  <2>5. x \in OpState /\ x.pc = pc /\ x.grant = op[o].grant /\ x.inst = op[o].inst
    BY <1>1, <2>3 DEF OpState, OpPC
  <2>6. Fits(x) /\ Holds(x) /\ Owns(x) /\ OwnStage(x) = OwnStage(op[o])
    BY <1>1, <1>2, <2>5 DEF Fits, Holds, Owns, OwnStage
  <2> QED
    BY <1>1, <1>2, <2>4, <2>5, <2>6, OpOnly
<1>4. CASE ~(inst[op[o].inst].broken \/ op[o].ctx)
  <2>1. PICK x : x = [op[o] EXCEPT !.pc = "run"]
    OBVIOUS
  <2>2. PICK i \in Inst : i = op[o].inst
    BY <1>2
  <2>3. PICK d : d = [inst[i] EXCEPT !.mu = "op"]
    OBVIOUS
  <2>4. op' = [op EXCEPT ![o] = x] /\ inst' = [inst EXCEPT ![i] = d]
    BY <1>4, <2>1, <2>2, <2>3 DEF Call, Goto
  <2>5. x \in OpState /\ x.pc = "run" /\ x.grant = op[o].grant /\ x.inst = op[o].inst
    BY <1>1, <2>1 DEF OpState, OpPC
  <2>6. d \in InstState /\ d.stage = inst[i].stage /\ d.refs = inst[i].refs
    BY <1>1, <2>3 DEF InstState
  <2>7. Fits(x) /\ Holds(x) /\ Owns(x) /\ OwnStage(x) = OwnStage(op[o])
    BY <1>1, <1>2, <2>5 DEF Fits, Holds, Owns, OwnStage
  <2> QED
    BY <1>1, <1>2, <2>4, <2>5, <2>6, <2>7, OpUses
<1> QED
  BY <1>3, <1>4

\* A call that fails, in the driver or in the guest.
LEMMA CallFails ==
  ASSUME IInv, NEW o \in Op, CallRefused(o) \/ CallBreaks(o)
  PROVE  IInv'
<1>1. /\ op[o] \in OpState /\ op[o].pc = "run" /\ Fits(op[o]) /\ inst \in [Inst -> InstState]
      /\ UNCHANGED <<session, writer, life>>
  BY DEF IInv, TypeOK, OpInv, CallRefused, CallBreaks, At
<1>2. Holds(op[o]) /\ Owns(op[o]) /\ ~Queued(op[o]) /\ op[o].pc \notin Late /\ op[o].inst \in Inst /\ op[o].grant = "none"
  BY <1>1 DEF Fits, Holds, Owns, Queued, Late, OpState
<1>3. PICK pc \in {"cursor", "release"} : pc = After(o)
  BY DEF After
<1>4. PICK x : x = [op[o] EXCEPT !.pc = pc, !.result = "err"]
  OBVIOUS
<1>5. PICK i \in Inst : i = op[o].inst
  BY <1>2
<1>6. op' = [op EXCEPT ![o] = x]
  BY <1>3, <1>4 DEF CallRefused, CallBreaks
<1>7. x \in OpState /\ x.pc = pc /\ x.grant = op[o].grant /\ x.inst = op[o].inst
  BY <1>1, <1>4 DEF OpState, OpPC
<1>8. Fits(x) /\ Holds(x) /\ Owns(x) /\ OwnStage(x) = OwnStage(op[o])
  BY <1>1, <1>2, <1>7 DEF Fits, Holds, Owns, OwnStage
<1>9. CASE CallRefused(o)
  <2>1. PICK d : d = [inst[i] EXCEPT !.mu = "free"]
    OBVIOUS
  <2>2. inst' = [inst EXCEPT ![i] = d]
    BY <1>5, <1>9, <2>1 DEF CallRefused
  <2>3. d \in InstState /\ d.stage = inst[i].stage /\ d.refs = inst[i].refs
    BY <1>1, <2>1 DEF InstState
  <2> QED
    BY <1>1, <1>2, <1>6, <1>7, <1>8, <2>2, <2>3, OpUses
<1>10. CASE CallBreaks(o)
  <2>1. PICK d : d = [inst[i] EXCEPT !.mu = "free", !.broken = TRUE]
    OBVIOUS
  <2>2. inst' = [inst EXCEPT ![i] = d]
    BY <1>5, <1>10, <2>1 DEF CallBreaks
  <2>3. d \in InstState /\ d.stage = inst[i].stage /\ d.refs = inst[i].refs
    BY <1>1, <2>1 DEF InstState
  <2> QED
    BY <1>1, <1>2, <1>6, <1>7, <1>8, <2>2, <2>3, OpUses
<1> QED
  BY <1>9, <1>10

\* The cursor is closed or its instance discarded.
LEMMA CloseCursorKeeps ==
  ASSUME IInv, NEW o \in Op, CloseCursor(o)
  PROVE  IInv'
<1>1. /\ op[o] \in OpState /\ op[o].pc = "cursor" /\ Fits(op[o]) /\ inst \in [Inst -> InstState]
      /\ UNCHANGED <<session, writer, life>>
  BY DEF IInv, TypeOK, OpInv, CloseCursor, At
<1>2. Holds(op[o]) /\ Owns(op[o]) /\ ~Queued(op[o]) /\ op[o].pc \notin Late /\ op[o].inst \in Inst /\ op[o].grant = "none"
  BY <1>1 DEF Fits, Holds, Owns, Queued, Late, OpState
<1>3. PICK i \in Inst : i = op[o].inst
  BY <1>2
<1>4. PICK b \in BOOLEAN : b = (inst[i].broken \/ op[o].ctx)
  OBVIOUS
<1>5. PICK d : d = [inst[i] EXCEPT !.broken = b]
  OBVIOUS
<1>6. inst' = [inst EXCEPT ![i] = d]
  BY <1>3, <1>4, <1>5 DEF CloseCursor
<1>7. d \in InstState /\ d.stage = inst[i].stage /\ d.refs = inst[i].refs
  BY <1>1, <1>5 DEF InstState
<1>8. ASSUME NEW pc \in {"release", "call"}, NEW t \in {"first", "page", "end"},
             op' = [op EXCEPT ![o] = [op[o] EXCEPT !.pc = pc, !.task = t]]
      PROVE  IInv'
  <2>1. PICK x : x = [op[o] EXCEPT !.pc = pc, !.task = t]
    OBVIOUS
  <2>2. x \in OpState /\ x.pc = pc /\ x.grant = op[o].grant /\ x.inst = op[o].inst
    BY <1>1, <2>1 DEF OpState, OpPC
  <2>3. Fits(x) /\ Holds(x) /\ Owns(x) /\ OwnStage(x) = OwnStage(op[o])
    BY <1>1, <1>2, <2>2 DEF Fits, Holds, Owns, OwnStage
  <2>4. op' = [op EXCEPT ![o] = x]
    BY <1>8, <2>1
  <2> QED
    BY <1>1, <1>2, <1>6, <1>7, <2>2, <2>3, <2>4, OpUses
<1>9. CASE op[o].ctx \/ inst[op[o].inst].broken
  <2>1. op' = [op EXCEPT ![o] = [op[o] EXCEPT !.pc = "release"]]
    BY <1>9 DEF CloseCursor, Goto
  <2>2. [op[o] EXCEPT !.pc = "release"] = [op[o] EXCEPT !.pc = "release", !.task = op[o].task]
    BY <1>1 DEF OpState
  <2>3. op[o].task \in {"first", "page", "end"}
    BY <1>1 DEF OpState
  <2> QED
    BY <1>8, <2>1, <2>2, <2>3
<1>10. CASE ~(op[o].ctx \/ inst[op[o].inst].broken)
  <2>1. op' = [op EXCEPT ![o] = [op[o] EXCEPT !.pc = "call", !.task = "end"]]
    BY <1>10 DEF CloseCursor
  <2> QED
    BY <1>8, <2>1
<1> QED
  BY <1>9, <1>10

\* The driver has let the instance in.
LEMMA LoggedInKeeps ==
  ASSUME IInv, NEW o \in Op, LoggedIn(o)
  PROVE  IInv'
<1>1. /\ op[o] \in OpState /\ op[o].pc = "opening" /\ Fits(op[o]) /\ inst \in [Inst -> InstState]
      /\ UNCHANGED <<session, writer, life>>
  BY DEF IInv, TypeOK, OpInv, LoggedIn, At
<1>2. Holds(op[o]) /\ Owns(op[o]) /\ ~Queued(op[o]) /\ op[o].pc \notin Late /\ op[o].inst \in Inst /\ op[o].grant = "none"
  BY <1>1 DEF Fits, Holds, Owns, Queued, Late, OpState
<1>3. PICK i \in Inst : i = op[o].inst
  BY <1>2
<1>4. PICK d : d = [inst[i] EXCEPT !.stage = "up", !.mu = "free"]
  OBVIOUS
<1>5. PICK x : x = [op[o] EXCEPT !.pc = "call"]
  OBVIOUS
<1>6. op' = [op EXCEPT ![o] = x] /\ inst' = [inst EXCEPT ![i] = d]
  BY <1>3, <1>4, <1>5 DEF LoggedIn, Goto
<1>7. d \in InstState /\ d.stage = "up" /\ d.refs = inst[i].refs
  BY <1>1, <1>4 DEF InstState
<1>8. x \in OpState /\ x.pc = "call" /\ x.grant = op[o].grant /\ x.inst = op[o].inst
  BY <1>1, <1>5 DEF OpState, OpPC
<1>9. Fits(x) /\ Holds(x) /\ Owns(x) /\ OwnStage(x) = "up"
  BY <1>1, <1>2, <1>8 DEF Fits, Holds, Owns, OwnStage
<1>10. inst' \in [Inst -> InstState] /\ inst'[i] = d /\ \A j \in Inst : j # i => inst'[j] = inst[j]
  BY <1>1, <1>6, <1>7
<1>11. \A j \in Inst : /\ inst'[j].refs = inst[j].refs
                       /\ inst'[j].stage = IF Owns(x) /\ j = x.inst THEN OwnStage(x) ELSE inst[j].stage
  BY <1>3, <1>7, <1>8, <1>9, <1>10
<1> QED
  BY <1>1, <1>2, <1>6, <1>8, <1>9, <1>10, <1>11, OpMoves

\* A writer is added to an instance, or collected.
LEMMA WriterAdds ==
  ASSUME NEW ws, NEW v, NEW o \in Op, NEW i, v[o].inst = i, ws[o].inst # i, \A p \in Op : p # o => v[p].inst = ws[p].inst
  PROVE  Cardinality(WritersOf(v, i)) = Cardinality(WritersOf(ws, i)) + 1
<1>1. PICK W : W = WritersOf(ws, i)
  OBVIOUS
<1>2. IsFiniteSet(W)
  BY <1>1, WritersCount
<1>3. WritersOf(v, i) = W \cup {o} /\ o \notin W
  BY <1>1 DEF WritersOf
<1> QED
  BY <1>1, <1>2, <1>3, FS_AddElement

\* The guest answers.
LEMMA CallReturnsKeeps ==
  ASSUME IInv, NEW o \in Op, CallReturns(o)
  PROVE  IInv'
<1>1. /\ op[o] \in OpState /\ op[o].pc = "run" /\ Fits(op[o]) /\ inst \in [Inst -> InstState]
      /\ writer \in [Op -> WriterState] /\ RefsInv /\ WriterInv /\ OwnInv
      /\ UNCHANGED <<session, life>>
  BY DEF IInv, TypeOK, OpInv, CallReturns, At
<1>2. Holds(op[o]) /\ Owns(op[o]) /\ ~Queued(op[o]) /\ op[o].pc \notin Late /\ op[o].inst \in Inst /\ op[o].grant = "none"
  BY <1>1 DEF Fits, Holds, Owns, Queued, Late, OpState
<1>3. PICK i \in Inst : i = op[o].inst
  BY <1>2
<1>4. inst[i].stage = "up" /\ writer[o].at = "none" /\ writer[o].inst = NoInst
  BY <1>1, <1>2, <1>3 DEF OwnInv, OwnStage, WriterInv
<1>5. ASSUME NEW pc \in {"cursor", "release"}, op' = [op EXCEPT ![o] = [op[o] EXCEPT !.pc = pc]]
      PROVE  \E x \in OpState : /\ op' = [op EXCEPT ![o] = x] /\ x.pc = pc /\ x.inst = i
                                /\ Fits(x) /\ Holds(x) /\ Owns(x) /\ OwnStage(x) = "up"
                                /\ OwnStage(x) = OwnStage(op[o])
  <2>1. PICK x : x = [op[o] EXCEPT !.pc = pc]
    OBVIOUS
  <2>2. x \in OpState /\ x.pc = pc /\ x.grant = op[o].grant /\ x.inst = op[o].inst
    BY <1>1, <2>1 DEF OpState, OpPC
  <2>3. Fits(x) /\ Holds(x) /\ Owns(x) /\ OwnStage(x) = "up" /\ OwnStage(x) = OwnStage(op[o])
    BY <1>1, <1>2, <2>2 DEF Fits, Holds, Owns, OwnStage
  <2> QED
    BY <1>3, <1>5, <2>1, <2>2, <2>3
<1>6. CASE op[o].task = "first" /\ KindOf[o] = "prepare"
  <2>1. /\ op' = [op EXCEPT ![o] = [op[o] EXCEPT !.pc = "release"]]
        /\ inst' = [inst EXCEPT ![i] = [inst[i] EXCEPT !.mu = "free", !.refs = inst[i].refs + 1]]
        /\ writer' = [writer EXCEPT ![o] = [at |-> "held", inst |-> i]]
    BY <1>3, <1>6 DEF CallReturns, After
  <2>2. PICK x \in OpState : /\ op' = [op EXCEPT ![o] = x] /\ x.pc = "release" /\ x.inst = i
                             /\ Fits(x) /\ Holds(x) /\ Owns(x) /\ OwnStage(x) = "up"
    BY <1>5, <2>1
  <2>3. PICK d : d = [inst[i] EXCEPT !.mu = "free", !.refs = inst[i].refs + 1]
    OBVIOUS
  <2>4. d \in InstState /\ d.stage = inst[i].stage /\ d.refs = inst[i].refs + 1
    <3>1. inst[i].refs \in Nat
      BY <1>1 DEF InstState
    <3>2. PICK r \in Nat : r = inst[i].refs + 1
      BY <3>1
    <3>3. d = [inst[i] EXCEPT !.mu = "free", !.refs = r]
      BY <2>3, <3>2
    <3> QED
      BY <1>1, <3>2, <3>3 DEF InstState
  <2>5. inst' \in [Inst -> InstState] /\ inst'[i] = d /\ \A j \in Inst : j # i => inst'[j] = inst[j]
    BY <1>1, <2>1, <2>3, <2>4
  <2>6. PICK w \in WriterState : w = [at |-> "held", inst |-> i]
    BY DEF WriterState
  <2>7. w.at = "held" /\ w.inst = i
    BY <2>6
  <2>8. writer' \in [Op -> WriterState] /\ writer'[o] = w /\ \A p \in Op : p # o => writer'[p] = writer[p]
    BY <1>1, <2>1, <2>6
  <2>9. \A j \in Inst : inst'[j].stage = IF Owns(x) /\ j = x.inst THEN OwnStage(x) ELSE inst[j].stage
    BY <1>4, <2>2, <2>4, <2>5
  <2>10. RefsInv'
    <3>1. ASSUME NEW j \in Inst
          PROVE  /\ inst'[j].refs = Base(inst'[j]) + Cardinality(WritersOf(writer', j))
                 /\ inst'[j].stage = "unused" => WritersOf(writer', j) = {}
      <4>1. CASE j = i
        <5>1. Cardinality(WritersOf(writer', i)) = Cardinality(WritersOf(writer, i)) + 1
          <6>1. writer'[o].inst = i /\ writer[o].inst # i /\ \A p \in Op : p # o => writer'[p].inst = writer[p].inst
            BY <1>4, <2>7, <2>8, SessionConstants
          <6> QED
            BY <6>1, WriterAdds
        <5>2. inst[i].refs = Base(inst[i]) + Cardinality(WritersOf(writer, i)) /\ inst[i].refs \in Nat
          BY <1>1 DEF RefsInv, InstState
        <5>3. Base(d) = 1 /\ Base(inst[i]) = 1 /\ d.stage # "unused"
          BY <1>4, <2>4 DEF Base
        <5>4. Cardinality(WritersOf(writer, i)) \in Nat
          BY WritersCount
        <5> QED
          BY <2>4, <2>5, <4>1, <5>1, <5>2, <5>3, <5>4
      <4>2. CASE j # i
        <5>1. WritersOf(writer', j) = WritersOf(writer, j)
          BY <1>4, <2>7, <2>8, <4>2, SessionConstants DEF WritersOf
        <5> QED
          BY <1>1, <2>5, <4>2, <5>1 DEF RefsInv
      <4> QED
        BY <4>1, <4>2
    <3> QED
      BY <3>1 DEF RefsInv
  <2>11. WriterInv'
    <3>1. op'[o] = x /\ \A p \in Op : p # o => op'[p] = op[p]
      BY <2>2 DEF IInv, TypeOK
    <3>2. w.at # "none" /\ w.inst # NoInst /\ x.pc \in Late
      BY <2>2, <2>7, SessionConstants DEF Late
    <3> QED
      BY <1>1, <2>8, <3>1, <3>2 DEF WriterInv
  <2> QED
    BY <1>1, <1>2, <1>3, <2>2, <2>5, <2>8, <2>9, <2>10, <2>11, OpAndWriterMove
<1>7. CASE ~(op[o].task = "first" /\ KindOf[o] = "prepare")
  <2>1. PICK pc \in {"cursor", "release"} : pc = IF op[o].task = "first" /\ KindOf[o] = "stream" THEN "cursor" ELSE After(o)
    BY DEF After
  <2>2. PICK d : d = [inst[i] EXCEPT !.mu = "free"]
    OBVIOUS
  <2>3. d \in InstState /\ d.stage = inst[i].stage /\ d.refs = inst[i].refs
    BY <1>1, <2>2 DEF InstState
  <2>4. op' = [op EXCEPT ![o] = [op[o] EXCEPT !.pc = pc]] /\ writer' = writer
    BY <1>7, <2>1 DEF CallReturns
  <2>5. inst' = [inst EXCEPT ![i] = d]
    <3>1. inst' = [inst EXCEPT ![i] = [inst[i] EXCEPT !.mu = "free", !.refs = inst[i].refs]]
      BY <1>3, <1>7 DEF CallReturns
    <3>2. [inst[i] EXCEPT !.mu = "free", !.refs = inst[i].refs] = d
      BY <1>1, <2>2 DEF InstState
    <3> QED
      BY <3>1, <3>2
  <2>6. PICK x \in OpState : /\ op' = [op EXCEPT ![o] = x] /\ x.pc = pc /\ x.inst = i
                             /\ Fits(x) /\ Holds(x) /\ Owns(x) /\ OwnStage(x) = OwnStage(op[o])
    BY <1>5, <2>4
  <2> QED
    BY <1>1, <1>2, <1>3, <2>3, <2>4, <2>5, <2>6, OpUses
<1> QED
  BY <1>6, <1>7

-----------------------------------------------------------------------------
(* The actions: instances, writers, the driver *)

\* A timer of an earlier idle spell, or one that finds nothing to reap.
LEMMA TimerRuns ==
  ASSUME IInv, NEW i \in Inst,
         \/ inst' = [inst EXCEPT ![i].timer = FALSE]
         \/ inst' = [inst EXCEPT ![i].late = FALSE],
         UNCHANGED <<session, op, writer, life>>
  PROVE  IInv'
<1>1. inst \in [Inst -> InstState] /\ writer \in [Op -> WriterState] /\ life \in {"on", "removed", "ended"}
  BY DEF IInv, TypeOK
<1>2. CASE inst' = [inst EXCEPT ![i].timer = FALSE]
  <2>1. PICK d : d = [inst[i] EXCEPT !.timer = FALSE]
    OBVIOUS
  <2>2. d \in InstState /\ d.stage = inst[i].stage /\ d.refs = inst[i].refs
    BY <1>1, <2>1 DEF InstState
  <2>3. inst' = [inst EXCEPT ![i] = d] /\ Base(d) = Base(inst[i])
    BY <1>2, <2>1, <2>2 DEF Base
  <2> QED
    BY <1>1, <2>2, <2>3, InstMoves
<1>3. CASE inst' = [inst EXCEPT ![i].late = FALSE]
  <2>1. PICK d : d = [inst[i] EXCEPT !.late = FALSE]
    OBVIOUS
  <2>2. d \in InstState /\ d.stage = inst[i].stage /\ d.refs = inst[i].refs
    BY <1>1, <2>1 DEF InstState
  <2>3. inst' = [inst EXCEPT ![i] = d] /\ Base(d) = Base(inst[i])
    BY <1>3, <2>1, <2>2 DEF Base
  <2> QED
    BY <1>1, <2>2, <2>3, InstMoves
<1> QED
  BY <1>2, <1>3

\* retire.
LEMMA RetireKeeps ==
  ASSUME IInv, NEW i \in Inst, Retire(i)
  PROVE  IInv'
<1>1. /\ inst \in [Inst -> InstState] /\ writer \in [Op -> WriterState] /\ life \in {"on", "removed", "ended"}
      /\ RefsInv /\ UNCHANGED <<session, op, writer, life>>
  BY DEF IInv, TypeOK, Retire, BeginClose, Drop
<1>2. CASE BeginClose(i)
  <2>1. PICK d : d = [inst[i] EXCEPT !.stage = "closing", !.mu = "close"]
    OBVIOUS
  <2>2. d \in InstState /\ d.stage = "closing" /\ d.refs = inst[i].refs
    BY <1>1, <2>1 DEF InstState
  <2>3. inst' = [inst EXCEPT ![i] = d] /\ inst[i].stage = "retire"
    BY <1>2, <2>1 DEF BeginClose
  <2>4. Base(d) = Base(inst[i])
    BY <2>2, <2>3 DEF Base
  <2> QED
    BY <1>1, <2>2, <2>3, <2>4, InstMoves
<1>3. CASE Drop(i)
  <2>1. inst[i].stage \in {"retire", "closing"}
    BY <1>3 DEF Drop
  <2>2. PICK fails \in BOOLEAN : inst' = [inst EXCEPT ![i].stage = "gone", ![i].mu = "free",
                                                      ![i].refs = @ - 1, ![i].broken = @ \/ fails]
    BY <1>3 DEF Drop
  <2>3. PICK b \in BOOLEAN : b = (inst[i].broken \/ fails)
    OBVIOUS
  <2>4. PICK r \in Nat : r = inst[i].refs - 1
    <3>1. PICK c \in Nat : c = Cardinality(WritersOf(writer, i))
      BY WritersCount
    <3>2. inst[i].refs = 1 + c
      BY <1>1, <2>1, <3>1 DEF RefsInv, Base
    <3> QED
      BY <3>2
  <2>5. PICK d : d = [inst[i] EXCEPT !.stage = "gone", !.mu = "free", !.refs = r, !.broken = b]
    OBVIOUS
  <2>6. inst' = [inst EXCEPT ![i] = d]
    BY <2>2, <2>3, <2>4, <2>5
  <2>7. d \in InstState /\ d.stage = "gone" /\ d.refs = inst[i].refs - 1 /\ inst[i].refs \in Nat
    BY <1>1, <2>4, <2>5 DEF InstState
  <2>8. Base(d) = 0 /\ Base(inst[i]) = 1
    BY <2>1, <2>7 DEF Base
  <2>9. d.refs - Base(d) = inst[i].refs - Base(inst[i])
    BY <2>7, <2>8
  <2> QED
    BY <1>1, <2>1, <2>6, <2>7, <2>9, InstMoves
<1> QED
  BY <1>2, <1>3 DEF Retire

\* A row statement writer calls the guest, which answers or breaks.
LEMMA WriterKeeps ==
  ASSUME IInv, NEW o \in Op, WriterCall(o) \/ WriterReturns(o) \/ WriterBreaks(o)
  PROVE  IInv'
<1>1. /\ inst \in [Inst -> InstState] /\ writer \in [Op -> WriterState] /\ life \in {"on", "removed", "ended"}
      /\ WriterInv /\ UNCHANGED <<session, op, life>>
  BY DEF IInv, TypeOK, WriterCall, WriterReturns, WriterBreaks
<1>2. writer[o].at # "none" /\ writer[o].inst \in Inst
  BY <1>1 DEF WriterCall, WriterReturns, WriterBreaks, WriterInv, WriterState
<1>3. PICK i \in Inst : i = writer[o].inst
  BY <1>2
<1>4. PICK at \in {"held", "call"} : writer' = [writer EXCEPT ![o].at = at]
  BY DEF WriterCall, WriterReturns, WriterBreaks
<1>5. /\ writer' \in [Op -> WriterState]
      /\ \A p \in Op : writer'[p].inst = writer[p].inst /\ (writer'[p].at = "none" <=> writer[p].at = "none")
  BY <1>1, <1>2, <1>4 DEF WriterState
<1>6. \E d \in InstState : inst' = [inst EXCEPT ![i] = d] /\ d.stage = inst[i].stage /\ d.refs = inst[i].refs
  <2>1. CASE WriterBreaks(o)
    <3>1. PICK d : d = [inst[i] EXCEPT !.mu = "free", !.broken = TRUE]
      OBVIOUS
    <3>2. d \in InstState /\ d.stage = inst[i].stage /\ d.refs = inst[i].refs
      BY <1>1, <3>1 DEF InstState
    <3>3. inst' = [inst EXCEPT ![i] = d]
      BY <1>3, <2>1, <3>1 DEF WriterBreaks
    <3> QED
      BY <3>2, <3>3
  <2>2. CASE WriterCall(o) \/ WriterReturns(o)
    <3>1. PICK mu \in {"free", "writer"} : inst' = [inst EXCEPT ![i].mu = mu]
      BY <1>3, <2>2 DEF WriterCall, WriterReturns
    <3>2. PICK d : d = [inst[i] EXCEPT !.mu = mu]
      OBVIOUS
    <3>3. d \in InstState /\ d.stage = inst[i].stage /\ d.refs = inst[i].refs
      BY <1>1, <3>2 DEF InstState
    <3>4. inst' = [inst EXCEPT ![i] = d]
      BY <3>1, <3>2
    <3> QED
      BY <3>3, <3>4
  <2> QED
    BY <2>1, <2>2
<1>7. PICK d \in InstState : inst' = [inst EXCEPT ![i] = d] /\ d.stage = inst[i].stage /\ d.refs = inst[i].refs
  BY <1>6
<1>8. Base(d) = Base(inst[i])
  BY <1>7 DEF Base
<1> QED
  BY <1>1, <1>5, <1>7, <1>8, InstMoves

\* A writer is collected.
LEMMA CollectKeeps ==
  ASSUME IInv, NEW o \in Op, Collect(o)
  PROVE  IInv'
<1>1. /\ inst \in [Inst -> InstState] /\ writer \in [Op -> WriterState] /\ op \in [Op -> OpState]
      /\ WriterInv /\ RefsInv /\ OpInv /\ OwnInv
      /\ op' = op /\ UNCHANGED <<session, life>> /\ writer[o].at = "held" /\ op[o].pc = "done"
  BY DEF IInv, TypeOK, Collect, At
<1>2. writer[o].inst \in Inst
  BY <1>1 DEF WriterInv, WriterState
<1>3. PICK i \in Inst : i = writer[o].inst
  BY <1>2
<1>4. writer' = [writer EXCEPT ![o] = NoWriter] /\ NoWriter \in WriterState /\ NoWriter.at = "none" /\ NoWriter.inst = NoInst
  BY DEF Collect, NoWriter, WriterState
<1>5. writer' \in [Op -> WriterState] /\ writer'[o] = NoWriter /\ \A p \in Op : p # o => writer'[p] = writer[p]
  BY <1>1, <1>4
<1>6. Cardinality(WritersOf(writer, i)) = Cardinality(WritersOf(writer', i)) + 1
  <2>1. writer[o].inst = i /\ writer'[o].inst # i /\ \A p \in Op : p # o => writer[p].inst = writer'[p].inst
    BY <1>3, <1>4, <1>5, SessionConstants
  <2> QED
    BY <2>1, WriterAdds
<1>7. PICK c \in Nat : c = Cardinality(WritersOf(writer', i))
  BY WritersCount
<1>8. inst[i].refs = Base(inst[i]) + c + 1 /\ Base(inst[i]) \in Nat
  BY <1>1, <1>6, <1>7 DEF RefsInv, Base
<1>9. PICK r \in Nat : r = inst[i].refs - 1
  BY <1>8
<1>10. PICK d : d = [inst[i] EXCEPT !.refs = r]
  OBVIOUS
<1>11. inst' = [inst EXCEPT ![i] = d]
  BY <1>3, <1>9, <1>10 DEF Collect
<1>12. d \in InstState /\ d.stage = inst[i].stage /\ d.refs = r
  BY <1>1, <1>9, <1>10 DEF InstState
<1>13. inst' \in [Inst -> InstState] /\ inst'[i] = d /\ \A j \in Inst : j # i => inst'[j] = inst[j]
  BY <1>1, <1>11, <1>12
<1>14. RefsInv'
  <2>1. ASSUME NEW j \in Inst
        PROVE  /\ inst'[j].refs = Base(inst'[j]) + Cardinality(WritersOf(writer', j))
               /\ inst'[j].stage = "unused" => WritersOf(writer', j) = {}
    <3>1. CASE j = i
      <4>1. inst[i].stage # "unused"
        BY <1>1, <1>3 DEF RefsInv, WritersOf
      <4>2. Base(d) = Base(inst[i])
        BY <1>12 DEF Base
      <4> QED
        BY <1>7, <1>8, <1>9, <1>12, <1>13, <3>1, <4>1, <4>2
    <3>2. CASE j # i
      <4>1. WritersOf(writer', j) = WritersOf(writer, j)
        BY <1>3, <1>4, <1>5, <3>2, SessionConstants DEF WritersOf
      <4> QED
        BY <1>1, <1>13, <3>2, <4>1 DEF RefsInv
    <3> QED
      BY <3>1, <3>2
  <2> QED
    BY <2>1 DEF RefsInv
<1>15. WriterInv'
  BY <1>1, <1>4, <1>5 DEF WriterInv
<1>16. PICK x \in OpState : x = op[o]
  BY <1>1
<1>17. op' = [op EXCEPT ![o] = x] /\ Fits(x) /\ ~Owns(x)
  BY <1>1, <1>16 DEF OpInv, Owns
<1>18. \A j \in Inst : inst'[j].stage = IF Owns(x) /\ j = x.inst THEN OwnStage(x) ELSE inst[j].stage
  BY <1>12, <1>13, <1>17
<1> QED
  BY <1>1, <1>5, <1>13, <1>14, <1>15, <1>16, <1>17, <1>18, OpAndWriterMove

\* The driver's life ends.
LEMMA LifeKeeps ==
  ASSUME IInv, EndDriver \/ CloseDrivers
  PROVE  IInv'
<1>1. /\ live' = live /\ idle' = idle /\ queue' = queue /\ closed' = closed /\ inst' = inst /\ op' = op
      /\ writer' = writer /\ life' \in {"on", "removed", "ended"}
  BY DEF EndDriver, CloseDrivers, session
<1> QED
  BY <1>1 DEF IInv, TypeOK, OpInv, QueueInv, NobodyWaitsInVain, IdleInv, OwnInv, UpInv, RefsInv, WriterInv, SlotInv

-----------------------------------------------------------------------------
(* The actions: slots *)

\* The operations have the instances they had, but for one operation that may lose
\* its own to its retirement or its end.
LEMMA OwnersKeep ==
  ASSUME IInv, NEW o \in Op, op' \in [Op -> OpState],
         \A p \in Op : Owns(op'[p]) <=> (Owns(op[p]) /\ p # o),
         \A p \in Op : Owns(op'[p]) => op'[p].inst = op[p].inst /\ OwnStage(op'[p]) = OwnStage(op[p]),
         \A p \in Op : op[p].pc \in Late => op'[p].pc \in Late,
         inst' \in [Inst -> InstState],
         \A i \in Inst :
           IF Owns(op[o]) /\ i = op[o].inst
             THEN inst'[i].stage \in {"retire", "gone"} /\ inst'[i].refs - Base(inst'[i]) = inst[i].refs - Base(inst[i])
             ELSE inst'[i].stage = inst[i].stage /\ inst'[i].refs = inst[i].refs,
         idle' = idle, closed' = closed, writer' = writer
  PROVE  IdleInv' /\ OwnInv' /\ UpInv' /\ RefsInv' /\ WriterInv'
<1>1. TypeOK /\ OpInv /\ IdleInv /\ OwnInv /\ UpInv /\ RefsInv /\ WriterInv
  BY DEF IInv
<1>2. IdleInv'
  <2>1. ASSUME NEW n \in 1 .. Len(idle) PROVE inst'[idle[n]].stage = "up"
    <3>1. idle[n] \in Inst /\ inst[idle[n]].stage = "up"
      BY <1>1 DEF IdleInv, TypeOK
    <3>2. ~(Owns(op[o]) /\ idle[n] = op[o].inst)
      BY <1>1 DEF OwnInv
    <3> QED
      BY <3>1, <3>2
  <2> QED
    BY <1>1, <2>1 DEF IdleInv
<1>3. OwnInv'
  <2>1. \A p, q \in Op : Owns(op'[p]) /\ Owns(op'[q]) /\ op'[p].inst = op'[q].inst => p = q
    BY <1>1 DEF OwnInv
  <2>2. ASSUME NEW p \in Op, Owns(op'[p])
        PROVE  /\ inst'[op'[p].inst].stage = OwnStage(op'[p])
               /\ \A n \in 1 .. Len(idle) : idle[n] # op'[p].inst
    <3>1. Owns(op[p]) /\ p # o /\ op'[p].inst = op[p].inst /\ OwnStage(op'[p]) = OwnStage(op[p])
      BY <2>2
    <3>2. op[p].inst \in Inst /\ inst[op[p].inst].stage = OwnStage(op[p])
      BY <1>1, <3>1 DEF OpInv, OwnInv, Fits, TypeOK, OpState
    <3>3. ~(Owns(op[o]) /\ op[p].inst = op[o].inst)
      BY <1>1, <3>1 DEF OwnInv
    <3> QED
      BY <1>1, <3>1, <3>2, <3>3 DEF OwnInv
  <2> QED
    BY <2>1, <2>2 DEF OwnInv
<1>4. UpInv'
  <2>1. ASSUME NEW i \in Inst, inst'[i].stage \in {"opening", "up"}
        PROVE  (\E n \in 1 .. Len(idle) : idle[n] = i) \/ \E p \in Op : Owns(op'[p]) /\ op'[p].inst = i
    <3>1. ~(Owns(op[o]) /\ i = op[o].inst) /\ inst[i].stage \in {"opening", "up"}
      BY <2>1
    <3>2. CASE \E n \in 1 .. Len(idle) : idle[n] = i
      BY <3>2
    <3>3. CASE \E p \in Op : Owns(op[p]) /\ op[p].inst = i
      <4>1. PICK p \in Op : Owns(op[p]) /\ op[p].inst = i
        BY <3>3
      <4>2. p # o
        BY <3>1, <4>1
      <4> QED
        BY <4>1, <4>2
    <3> QED
      BY <1>1, <3>1, <3>2, <3>3 DEF UpInv
  <2> QED
    BY <2>1 DEF UpInv
<1>5. RefsInv'
  <2>1. ASSUME NEW i \in Inst
        PROVE  /\ inst'[i].refs = Base(inst'[i]) + Cardinality(WritersOf(writer, i))
               /\ inst'[i].stage = "unused" => WritersOf(writer, i) = {}
    <3>1. PICK c \in Nat : c = Cardinality(WritersOf(writer, i))
      BY WritersCount
    <3>2. inst[i].refs = Base(inst[i]) + c /\ (inst[i].stage = "unused" => WritersOf(writer, i) = {})
      BY <1>1, <3>1 DEF RefsInv
    <3>3. CASE Owns(op[o]) /\ i = op[o].inst
      <4>1. Base(inst[i]) \in Nat /\ Base(inst'[i]) \in Nat /\ inst'[i].refs \in Nat
        BY DEF Base, InstState
      <4>2. inst'[i].refs - Base(inst'[i]) = inst[i].refs - Base(inst[i]) /\ inst'[i].stage # "unused"
        BY <3>3
      <4> QED
        BY <3>1, <3>2, <4>1, <4>2
    <3>4. CASE ~(Owns(op[o]) /\ i = op[o].inst)
      <4>1. inst'[i].stage = inst[i].stage /\ inst'[i].refs = inst[i].refs
        BY <3>4
      <4>2. Base(inst'[i]) = Base(inst[i])
        BY <4>1 DEF Base
      <4> QED
        BY <3>1, <3>2, <4>1, <4>2
    <3> QED
      BY <3>3, <3>4
  <2> QED
    BY <2>1 DEF RefsInv
<1>6. WriterInv'
  BY <1>1 DEF WriterInv
<1> QED
  BY <1>2, <1>3, <1>4, <1>5, <1>6

\* An operation gives up its slot, and whoever waits first may log in.
LEMMA VacateKeeps ==
  ASSUME IInv, NEW o \in Op, NEW x \in OpState, Vacate([op EXCEPT ![o] = x]),
         Fits(x), ~Holds(x), ~Owns(x), Holds(op[o]), op[o].pc \in Late => x.pc \in Late,
         inst' \in [Inst -> InstState],
         \A i \in Inst :
           IF Owns(op[o]) /\ i = op[o].inst
             THEN inst'[i].stage \in {"retire", "gone"} /\ inst'[i].refs - Base(inst'[i]) = inst[i].refs - Base(inst[i])
             ELSE inst'[i].stage = inst[i].stage /\ inst'[i].refs = inst[i].refs,
         UNCHANGED <<idle, closed, writer, life>>
  PROVE  IInv'
<1>1. /\ TypeOK /\ OpInv /\ QueueInv /\ NobodyWaitsInVain /\ SlotInv
      /\ op \in [Op -> OpState] /\ idle' = idle /\ closed' = closed /\ writer' = writer /\ life' = life
      /\ idle \in Seq(Inst) /\ queue \in Seq(Op)
  BY DEF IInv, TypeOK
<1>2. live \in Nat /\ live >= 1 /\ live <= MaxInst /\ live - 1 \in 0 .. MaxInst /\ MaxInst \in Nat
  BY HolderCounts, SessionConstants
<1>3. PICK f : f = [op EXCEPT ![o] = x]
  OBVIOUS
<1>4. f \in [Op -> OpState] /\ f[o] = x /\ \A p \in Op : p # o => f[p] = op[p]
  BY <1>1, <1>3
<1>5. \A n \in 1 .. Len(queue) : queue[n] \in Op /\ queue[n] # o
  BY <1>1 DEF QueueInv, Queued, Holds
<1>6. PICK k \in Nat : k = Len(idle)
  BY <1>1
<1>7. PICK c \in Nat : c = Cardinality(Holders(op))
  BY HoldersCount
<1>8. live = k + c
  BY <1>1, <1>6, <1>7 DEF SlotInv
<1>9. CASE queue = <<>>
  <2>1. live' = live - 1 /\ queue' = queue /\ op' = f
    BY <1>3, <1>9 DEF Vacate
  <2>2. /\ op' \in [Op -> OpState]
        /\ \A p \in Op : Owns(op'[p]) <=> (Owns(op[p]) /\ p # o)
        /\ \A p \in Op : Owns(op'[p]) => op'[p].inst = op[p].inst /\ OwnStage(op'[p]) = OwnStage(op[p])
        /\ \A p \in Op : op[p].pc \in Late => op'[p].pc \in Late
    BY <1>4, <2>1
  <2>3. IdleInv' /\ OwnInv' /\ UpInv' /\ RefsInv' /\ WriterInv'
    BY <1>1, <2>2, OwnersKeep
  <2>4. TypeOK'
    BY <1>1, <1>2, <2>1, <2>2 DEF TypeOK
  <2>5. OpInv'
    BY <1>1, <1>4, <2>1 DEF OpInv
  <2>6. QueueInv' /\ NobodyWaitsInVain'
    BY <1>1, <1>9, <2>1 DEF QueueInv, NobodyWaitsInVain, Distinct
  <2>7. SlotInv'
    <3>1. Cardinality(Holders(f)) = Cardinality(Holders(op)) - 1
      BY <1>4, OneLess
    <3> QED
      BY <1>1, <1>6, <1>7, <1>8, <2>1, <3>1 DEF SlotInv
  <2> QED
    BY <2>3, <2>4, <2>5, <2>6, <2>7 DEF IInv
<1>10. CASE queue # <<>>
  <2>1. ~closed /\ idle = <<>> /\ live = MaxInst
    BY <1>1, <1>10 DEF NobodyWaitsInVain
  <2>2. PICK h : h = Head(queue)
    OBVIOUS
  <2>3. live' = live /\ queue' = Tail(queue) /\ op' = [f EXCEPT ![h].grant = "login"]
    BY <1>2, <1>3, <1>10, <2>1, <2>2 DEF Vacate
  <2>4. PICK t : t = Tail(queue)
    OBVIOUS
  <2>5. Distinct(queue)
    BY <1>1 DEF QueueInv
  <2>6. /\ h \in Op /\ h = queue[1] /\ 1 \in 1 .. Len(queue)
        /\ t \in Seq(Op) /\ Len(t) = Len(queue) - 1 /\ Distinct(t)
        /\ \A n \in 1 .. Len(t) : t[n] # h /\ n + 1 \in 1 .. Len(queue) /\ t[n] = queue[n + 1]
    <3>1. Popped(Op, queue, h, t)
      BY <1>1, <1>10, <2>2, <2>4, <2>5, TailDistinct
    <3> QED
      BY <3>1 DEF Popped
  <2>7. h # o /\ Queued(op[h]) /\ Fits(op[h])
    BY <1>1, <1>5, <2>6 DEF QueueInv, OpInv
  <2>8. PICK y : y = [op[h] EXCEPT !.grant = "login"]
    OBVIOUS
  <2>9. y \in OpState /\ y.pc = op[h].pc /\ y.grant = "login" /\ y.inst = op[h].inst
    BY <1>1, <2>6, <2>8 DEF OpState
  <2>10. /\ Fits(y) /\ Holds(y) /\ ~Owns(y) /\ ~Holds(op[h]) /\ ~Owns(op[h]) /\ y.pc \notin Late /\ op[h].pc \notin Late
    BY <2>7, <2>9 DEF Fits, Holds, Owns, Queued, Late
  <2>11. op' \in [Op -> OpState] /\ op'[o] = x /\ op'[h] = y /\ \A p \in Op : p # o /\ p # h => op'[p] = op[p]
    BY <1>4, <2>3, <2>6, <2>7, <2>8, <2>9
  <2>12. /\ \A p \in Op : Owns(op'[p]) <=> (Owns(op[p]) /\ p # o)
         /\ \A p \in Op : Owns(op'[p]) => op'[p].inst = op[p].inst /\ OwnStage(op'[p]) = OwnStage(op[p])
         /\ \A p \in Op : op[p].pc \in Late => op'[p].pc \in Late
    BY <2>7, <2>10, <2>11
  <2>13. IdleInv' /\ OwnInv' /\ UpInv' /\ RefsInv' /\ WriterInv'
    BY <1>1, <2>11, <2>12, OwnersKeep
  <2>14. TypeOK'
    BY <1>1, <1>2, <2>3, <2>4, <2>6, <2>11 DEF TypeOK
  <2>15. OpInv'
    BY <1>1, <2>10, <2>11 DEF OpInv
  <2>16. QueueInv'
    <3>1. ASSUME NEW n \in 1 .. Len(t) PROVE Queued(op'[t[n]])
      <4>1. t[n] \in Op /\ t[n] # h /\ t[n] # o /\ Queued(op[t[n]])
        BY <1>1, <1>5, <2>6 DEF QueueInv
      <4> QED
        BY <2>11, <4>1
    <3> QED
      BY <2>3, <2>4, <2>6, <3>1 DEF QueueInv
  <2>17. NobodyWaitsInVain'
    BY <1>1, <2>1, <2>3 DEF NobodyWaitsInVain
  <2>18. SlotInv'
    <3>1. PICK g : g = op'
      OBVIOUS
    <3>2. /\ o # h /\ Holds(op[o]) /\ ~Holds(g[o]) /\ ~Holds(op[h]) /\ Holds(g[h])
          /\ \A p \in Op : p # o /\ p # h => (Holds(g[p]) <=> Holds(op[p]))
      BY <2>6, <2>7, <2>10, <2>11, <3>1
    <3>3. Cardinality(Holders(g)) = Cardinality(Holders(op))
      BY <2>6, <3>2, OneForOne
    <3> QED
      BY <1>1, <2>3, <3>1, <3>3 DEF SlotInv
  <2> QED
    BY <2>13, <2>14, <2>15, <2>16, <2>17, <2>18 DEF IInv
<1> QED
  BY <1>9, <1>10

\* An operation is given leave to log in.
LEMMA AcquireNewKeeps ==
  ASSUME IInv, NEW o \in Op, AcquireNew(o)
  PROVE  IInv'
<1>1. /\ TypeOK /\ OpInv /\ QueueInv /\ SlotInv /\ op \in [Op -> OpState] /\ op[o].pc = "acquire" /\ Fits(op[o])
      /\ queue = <<>> /\ idle = <<>> /\ live < MaxInst /\ live' = live + 1
      /\ idle' = idle /\ queue' = queue /\ closed' = closed /\ inst' = inst /\ writer' = writer /\ life' = life
  BY DEF IInv, TypeOK, OpInv, AcquireNew, At
<1>2. PICK x : x = [op[o] EXCEPT !.pc = "login"]
  OBVIOUS
<1>3. op' = [op EXCEPT ![o] = x]
  BY <1>2 DEF AcquireNew, Goto
<1>4. x \in OpState /\ x.pc = "login" /\ x.grant = op[o].grant /\ x.inst = op[o].inst
  BY <1>1, <1>2 DEF OpState, OpPC
<1>5. /\ ~Holds(op[o]) /\ ~Owns(op[o]) /\ op[o].pc \notin Late
      /\ Fits(x) /\ Holds(x) /\ ~Owns(x)
  BY <1>1, <1>4 DEF Fits, Holds, Owns, Late
<1>6. op' \in [Op -> OpState] /\ op'[o] = x /\ \A p \in Op : p # o => op'[p] = op[p]
  BY <1>1, <1>3, <1>4
<1>7. IdleInv' /\ OwnInv' /\ UpInv' /\ RefsInv' /\ WriterInv'
  <2>1. /\ \A p \in Op : Owns(op'[p]) <=> (Owns(op[p]) /\ p # o)
        /\ \A p \in Op : Owns(op'[p]) => op'[p].inst = op[p].inst /\ OwnStage(op'[p]) = OwnStage(op[p])
        /\ \A p \in Op : op[p].pc \in Late => op'[p].pc \in Late
    BY <1>5, <1>6
  <2>2. inst' \in [Inst -> InstState]
    BY <1>1 DEF TypeOK
  <2>3. \A i \in Inst :
           IF Owns(op[o]) /\ i = op[o].inst
             THEN inst'[i].stage \in {"retire", "gone"} /\ inst'[i].refs - Base(inst'[i]) = inst[i].refs - Base(inst[i])
             ELSE inst'[i].stage = inst[i].stage /\ inst'[i].refs = inst[i].refs
    BY <1>1, <1>5
  <2> QED
    BY <1>1, <1>6, <2>1, <2>2, <2>3, OwnersKeep
<1>8. TypeOK'
  BY <1>1, <1>6, SessionConstants DEF TypeOK
<1>9. OpInv'
  BY <1>1, <1>5, <1>6 DEF OpInv
<1>10. QueueInv' /\ NobodyWaitsInVain'
  BY <1>1 DEF QueueInv, NobodyWaitsInVain, Distinct
<1>11. SlotInv'
  <2>1. PICK g : g = op'
    OBVIOUS
  <2>2. Holds(g[o]) /\ ~Holds(op[o]) /\ \A p \in Op : p # o => (Holds(g[p]) <=> Holds(op[p]))
    BY <1>5, <1>6, <2>1
  <2>3. Cardinality(Holders(g)) = Cardinality(Holders(op)) + 1
    BY <2>2, OneMore
  <2>4. PICK c \in Nat : c = Cardinality(Holders(op))
    BY HoldersCount
  <2> QED
    BY <1>1, <2>1, <2>3, <2>4 DEF SlotInv
<1> QED
  BY <1>7, <1>8, <1>9, <1>10, <1>11 DEF IInv

\* An operation queues.
LEMMA AcquireWaitKeeps ==
  ASSUME IInv, NEW o \in Op, AcquireWait(o)
  PROVE  IInv'
<1>1. /\ TypeOK /\ OpInv /\ QueueInv /\ NobodyWaitsInVain /\ SlotInv
      /\ op \in [Op -> OpState] /\ op[o].pc = "acquire" /\ Fits(op[o]) /\ ~closed
      /\ queue # <<>> \/ (idle = <<>> /\ live >= MaxInst)
      /\ live \in 0 .. MaxInst /\ queue \in Seq(Op)
      /\ live' = live /\ idle' = idle /\ queue' = Append(queue, o) /\ closed' = closed /\ inst' = inst /\ writer' = writer
      /\ life' = life
  BY DEF IInv, TypeOK, OpInv, AcquireWait, At
<1>2. PICK x : x = [op[o] EXCEPT !.pc = "wait"]
  OBVIOUS
<1>3. op' = [op EXCEPT ![o] = x]
  BY <1>2 DEF AcquireWait, Goto
<1>4. x \in OpState /\ x.pc = "wait" /\ x.grant = op[o].grant /\ x.inst = op[o].inst
  BY <1>1, <1>2 DEF OpState, OpPC
<1>5. /\ ~Holds(op[o]) /\ ~Owns(op[o]) /\ ~Queued(op[o]) /\ op[o].pc \notin Late
      /\ Fits(x) /\ ~Holds(x) /\ ~Owns(x) /\ Queued(x)
  BY <1>1, <1>4 DEF Fits, Holds, Owns, Queued, Late
<1>6. op' \in [Op -> OpState] /\ op'[o] = x /\ \A p \in Op : p # o => op'[p] = op[p]
  BY <1>1, <1>3, <1>4
<1>7. IdleInv' /\ OwnInv' /\ UpInv' /\ RefsInv' /\ WriterInv'
  <2>1. /\ \A p \in Op : Owns(op'[p]) <=> (Owns(op[p]) /\ p # o)
        /\ \A p \in Op : Owns(op'[p]) => op'[p].inst = op[p].inst /\ OwnStage(op'[p]) = OwnStage(op[p])
        /\ \A p \in Op : op[p].pc \in Late => op'[p].pc \in Late
    BY <1>5, <1>6
  <2>2. inst' \in [Inst -> InstState]
    BY <1>1 DEF TypeOK
  <2>3. \A i \in Inst :
           IF Owns(op[o]) /\ i = op[o].inst
             THEN inst'[i].stage \in {"retire", "gone"} /\ inst'[i].refs - Base(inst'[i]) = inst[i].refs - Base(inst[i])
             ELSE inst'[i].stage = inst[i].stage /\ inst'[i].refs = inst[i].refs
    BY <1>1, <1>5
  <2> QED
    BY <1>1, <1>6, <2>1, <2>2, <2>3, OwnersKeep
<1>8. PICK t : t = Append(queue, o)
  OBVIOUS
<1>9. Grown(Op, queue, o, t)
  <2>1. Distinct(queue) /\ \A n \in 1 .. Len(queue) : queue[n] # o
    BY <1>1, <1>5 DEF QueueInv
  <2> QED
    BY <1>1, <1>8, <2>1, AppendDistinct
<1>10. queue' = t /\ t \in Seq(Op) /\ Distinct(t)
  BY <1>1, <1>8, <1>9 DEF Grown
<1>11. TypeOK'
  BY <1>1, <1>6, <1>10 DEF TypeOK
<1>12. OpInv'
  BY <1>1, <1>5, <1>6 DEF OpInv
<1>13. QueueInv'
  <2>1. ASSUME NEW n \in 1 .. Len(t) PROVE Queued(op'[t[n]])
    <3>1. CASE n = Len(t)
      BY <1>5, <1>6, <1>9, <3>1 DEF Grown
    <3>2. CASE n \in 1 .. Len(queue)
      <4>1. t[n] = queue[n] /\ queue[n] \in Op /\ Queued(op[queue[n]])
        BY <1>1, <1>9, <3>2 DEF Grown, QueueInv
      <4> QED
        BY <1>5, <1>6, <4>1
    <3> QED
      BY <1>9, <3>1, <3>2 DEF Grown
  <2> QED
    BY <1>10, <2>1 DEF QueueInv
<1>14. NobodyWaitsInVain'
  BY <1>1, SessionConstants DEF NobodyWaitsInVain
<1>15. SlotInv'
  <2>1. Holders(op') = Holders(op)
    BY <1>5, <1>6 DEF Holders
  <2> QED
    BY <1>1, <2>1 DEF SlotInv
<1> QED
  BY <1>7, <1>11, <1>12, <1>13, <1>14, <1>15 DEF IInv

\* A context ends while its operation waits.
LEMMA LeaveKeeps ==
  ASSUME IInv, NEW o \in Op, Leave(o)
  PROVE  IInv'
<1>1. /\ TypeOK /\ OpInv /\ QueueInv /\ NobodyWaitsInVain /\ SlotInv
      /\ op \in [Op -> OpState] /\ op[o].pc = "wait" /\ Fits(op[o])
      /\ queue \in Seq(Op)
      /\ live' = live /\ idle' = idle /\ closed' = closed /\ inst' = inst /\ writer' = writer /\ life' = life
  BY DEF IInv, TypeOK, OpInv, Leave, At
<1>2. CASE \E n \in DOMAIN queue : queue[n] = o
  <2>1. PICK n \in 1 .. Len(queue) : queue[n] = o /\ queue' = RemoveAt(queue, n)
    BY <1>1, <1>2 DEF Leave
  <2>2. PICK t : t = RemoveAt(queue, n)
    OBVIOUS
  <2>3. Shrunk(Op, queue, n, t)
    <3>1. Distinct(queue)
      BY <1>1 DEF QueueInv
    <3> QED
      BY <1>1, <2>1, <2>2, <3>1, RemoveAtDistinct
  <2>4. PICK x : x = Returned(o)
    OBVIOUS
  <2>5. op' = [op EXCEPT ![o] = x]
    BY <1>2, <2>4 DEF Leave, Finish
  <2>6. x \in OpState /\ Fits(x) /\ ~Holds(x) /\ ~Owns(x) /\ x.pc \in Late
    BY <2>4, ReturnedIs
  <2>7. ~Holds(op[o]) /\ ~Owns(op[o])
    BY <1>1, <2>1 DEF QueueInv, Queued, Holds, Owns
  <2>8. op' \in [Op -> OpState] /\ op'[o] = x /\ \A p \in Op : p # o => op'[p] = op[p]
    BY <1>1, <2>5, <2>6
  <2>9. IdleInv' /\ OwnInv' /\ UpInv' /\ RefsInv' /\ WriterInv'
    <3>1. /\ \A p \in Op : Owns(op'[p]) <=> (Owns(op[p]) /\ p # o)
          /\ \A p \in Op : Owns(op'[p]) => op'[p].inst = op[p].inst /\ OwnStage(op'[p]) = OwnStage(op[p])
          /\ \A p \in Op : op[p].pc \in Late => op'[p].pc \in Late
      BY <2>6, <2>7, <2>8
    <3>2. inst' \in [Inst -> InstState]
      BY <1>1 DEF TypeOK
    <3>3. \A i \in Inst :
             IF Owns(op[o]) /\ i = op[o].inst
               THEN inst'[i].stage \in {"retire", "gone"} /\ inst'[i].refs - Base(inst'[i]) = inst[i].refs - Base(inst[i])
               ELSE inst'[i].stage = inst[i].stage /\ inst'[i].refs = inst[i].refs
      BY <1>1, <2>7
    <3> QED
      BY <1>1, <2>8, <3>1, <3>2, <3>3, OwnersKeep
  <2>10. queue' = t /\ t \in Seq(Op) /\ Distinct(t) /\ queue # <<>>
    BY <1>1, <2>1, <2>2, <2>3 DEF Shrunk
  <2>11. TypeOK'
    BY <1>1, <2>8, <2>10 DEF TypeOK
  <2>12. OpInv'
    BY <1>1, <2>6, <2>8 DEF OpInv
  <2>13. QueueInv'
    <3>1. ASSUME NEW k \in 1 .. Len(t) PROVE Queued(op'[t[k]])
      <4>1. PICK m \in 1 .. Len(queue) : t[k] = queue[m]
        BY <2>3 DEF Shrunk
      <4>2. t[k] # o /\ t[k] \in Op /\ Queued(op[t[k]])
        BY <1>1, <2>1, <2>3, <4>1 DEF Shrunk, QueueInv
      <4> QED
        BY <2>8, <4>2
    <3> QED
      BY <2>10, <3>1 DEF QueueInv
  <2>14. NobodyWaitsInVain'
    BY <1>1, <2>10 DEF NobodyWaitsInVain
  <2>15. SlotInv'
    <3>1. Holders(op') = Holders(op)
      BY <2>6, <2>7, <2>8 DEF Holders
    <3> QED
      BY <1>1, <3>1 DEF SlotInv
  <2> QED
    BY <2>9, <2>11, <2>12, <2>13, <2>14, <2>15 DEF IInv
<1>3. CASE ~ \E n \in DOMAIN queue : queue[n] = o
  <2>1. \A n \in 1 .. Len(queue) : queue[n] # o
    BY <1>1, <1>3
  <2>2. PICK x : x = [op[o] EXCEPT !.pc = "forgo"]
    OBVIOUS
  <2>3. op' = [op EXCEPT ![o] = x] /\ queue' = queue
    BY <1>3, <2>2 DEF Leave, Goto
  <2>4. x \in OpState /\ x.pc = "forgo" /\ x.grant = op[o].grant /\ x.inst = op[o].inst
    BY <1>1, <2>2 DEF OpState, OpPC
  <2>5. /\ Fits(x) /\ (Holds(x) <=> Holds(op[o])) /\ (Owns(x) <=> Owns(op[o])) /\ op[o].pc \notin Late
        /\ OwnStage(x) = OwnStage(op[o])
    BY <1>1, <2>4 DEF Fits, Holds, Owns, Late, OwnStage
  <2>6. UNCHANGED <<session, inst, writer, life>>
    BY <1>1, <2>3 DEF session
  <2> QED
    BY <2>1, <2>3, <2>4, <2>5, <2>6, OpOnly
<1> QED
  BY <1>2, <1>3

\* A login that is given up, or that could not get an instance.
LEMMA LoginGivenUp ==
  ASSUME IInv, NEW o \in Op, Vacate([op EXCEPT ![o] = Returned(o)]), Holds(op[o]), ~Owns(op[o]),
         UNCHANGED <<idle, closed, inst, writer, life>>
  PROVE  IInv'
<1>1. PICK x : x = Returned(o)
  OBVIOUS
<1>2. x \in OpState /\ Fits(x) /\ ~Holds(x) /\ ~Owns(x) /\ x.pc \in Late
  BY <1>1, ReturnedIs
<1>3. Vacate([op EXCEPT ![o] = x])
  BY <1>1
<1>4. inst' \in [Inst -> InstState]
  BY DEF IInv, TypeOK
<1>5. \A i \in Inst :
         IF Owns(op[o]) /\ i = op[o].inst
           THEN inst'[i].stage \in {"retire", "gone"} /\ inst'[i].refs - Base(inst'[i]) = inst[i].refs - Base(inst[i])
           ELSE inst'[i].stage = inst[i].stage /\ inst'[i].refs = inst[i].refs
  OBVIOUS
<1> QED
  BY <1>2, <1>3, <1>4, <1>5, VacateKeeps

\* A grant that crossed the end of its context is handed on.
LEMMA ForgoKeeps ==
  ASSUME IInv, NEW o \in Op, Forgo(o)
  PROVE  IInv'
<1>1. /\ op[o] \in OpState /\ op[o].pc = "forgo" /\ op[o].grant \in {"inst", "login", "closed"} /\ Fits(op[o])
      /\ UNCHANGED <<idle, closed, inst, writer, life>>
  BY DEF IInv, TypeOK, OpInv, Forgo, At, OpState
<1>2. CASE op[o].grant = "closed"
  <2>1. PICK x : x = Returned(o)
    OBVIOUS
  <2>2. op' = [op EXCEPT ![o] = x] /\ UNCHANGED session
    BY <1>1, <1>2, <2>1 DEF Forgo, Finish, session
  <2>3. ~Holds(op[o]) /\ ~Owns(op[o]) /\ ~Queued(op[o]) /\ op[o].pc \notin Late
    BY <1>1, <1>2 DEF Holds, Owns, Queued, Late
  <2> QED
    BY <1>1, <2>1, <2>2, <2>3, ReturnedIs, OpOnly
<1>3. CASE op[o].grant = "inst"
  <2>1. PICK x : x = [op[o] EXCEPT !.pc = "release", !.grant = "none"]
    OBVIOUS
  <2>2. op' = [op EXCEPT ![o] = x] /\ UNCHANGED session
    BY <1>1, <1>3, <2>1 DEF Forgo, session
  <2>3. x \in OpState /\ x.pc = "release" /\ x.grant = "none" /\ x.inst = op[o].inst
    BY <1>1, <2>1 DEF OpState, OpPC
  <2>4. /\ Fits(x) /\ Holds(x) /\ Holds(op[o]) /\ Owns(x) /\ Owns(op[o]) /\ ~Queued(op[o]) /\ op[o].pc \notin Late
        /\ OwnStage(x) = OwnStage(op[o])
    BY <1>1, <1>3, <2>3 DEF Fits, Holds, Owns, Queued, Late, OwnStage
  <2> QED
    BY <1>1, <2>2, <2>3, <2>4, OpOnly
<1>4. CASE op[o].grant = "login"
  <2>1. Vacate([op EXCEPT ![o] = Returned(o)])
    BY <1>1, <1>4 DEF Forgo
  <2>2. Holds(op[o]) /\ ~Owns(op[o])
    BY <1>1, <1>4 DEF Holds, Owns
  <2> QED
    BY <1>1, <2>1, <2>2, LoginGivenUp
<1> QED
  BY <1>1, <1>2, <1>3, <1>4

\* No instance could be leased.
LEMMA LeaseFailKeeps ==
  ASSUME IInv, NEW o \in Op, LeaseFail(o)
  PROVE  IInv'
<1>1. op[o] \in OpState /\ op[o].pc = "login" /\ Fits(op[o])
  BY DEF IInv, TypeOK, OpInv, LeaseFail, At
<1>2. Holds(op[o]) /\ ~Owns(op[o])
  BY <1>1 DEF Holds, Owns
<1> QED
  BY <1>2, LoginGivenUp DEF LeaseFail

\* The driver does not let the instance in.
LEMMA LoginFailKeeps ==
  ASSUME IInv, NEW o \in Op, LoginFail(o)
  PROVE  IInv'
<1>1. /\ op[o] \in OpState /\ op[o].pc = "opening" /\ Fits(op[o]) /\ inst \in [Inst -> InstState] /\ RefsInv /\ OwnInv
      /\ UNCHANGED <<idle, closed, writer, life>>
  BY DEF IInv, TypeOK, OpInv, LoginFail, At
<1>2. Holds(op[o]) /\ Owns(op[o]) /\ op[o].pc \notin Late /\ op[o].inst \in Inst
  BY <1>1 DEF Fits, Holds, Owns, Late, OpState
<1>3. PICK i \in Inst : i = op[o].inst
  BY <1>2
<1>4. inst[i].stage = "opening" /\ Base(inst[i]) = 1
  BY <1>1, <1>2, <1>3 DEF OwnInv, OwnStage, Base
<1>5. PICK c \in Nat : c = Cardinality(WritersOf(writer, i))
  BY WritersCount
<1>6. inst[i].refs = 1 + c
  BY <1>1, <1>4, <1>5 DEF RefsInv
<1>7. PICK r \in Nat : r = inst[i].refs - 1
  BY <1>6
<1>8. PICK d : d = [inst[i] EXCEPT !.stage = "gone", !.mu = "free", !.refs = r]
  OBVIOUS
<1>9. inst' = [inst EXCEPT ![i] = d]
  BY <1>3, <1>7, <1>8 DEF LoginFail
<1>10. d \in InstState /\ d.stage = "gone" /\ d.refs = r /\ Base(d) = 0
  BY <1>1, <1>8 DEF InstState, Base
<1>11. inst' \in [Inst -> InstState] /\ inst'[i] = d /\ \A j \in Inst : j # i => inst'[j] = inst[j]
  BY <1>1, <1>9, <1>10
<1>12. inst'[i].stage \in {"retire", "gone"} /\ inst'[i].refs - Base(inst'[i]) = inst[i].refs - Base(inst[i])
  BY <1>4, <1>6, <1>7, <1>10, <1>11
<1>13. \A j \in Inst :
         IF Owns(op[o]) /\ j = op[o].inst
           THEN inst'[j].stage \in {"retire", "gone"} /\ inst'[j].refs - Base(inst'[j]) = inst[j].refs - Base(inst[j])
           ELSE inst'[j].stage = inst[j].stage /\ inst'[j].refs = inst[j].refs
  BY <1>2, <1>3, <1>11, <1>12
<1>14. PICK x : x = Returned(o)
  OBVIOUS
<1>15. x \in OpState /\ Fits(x) /\ ~Holds(x) /\ ~Owns(x)
  BY <1>14, ReturnedIs
<1>16. Vacate([op EXCEPT ![o] = x])
  BY <1>14 DEF LoginFail
<1> QED
  BY <1>1, <1>2, <1>11, <1>13, <1>15, <1>16, VacateKeeps

\* A broken instance, or one of a closed session, is retired.
LEMMA ReleaseBrokenKeeps ==
  ASSUME IInv, NEW o \in Op, ReleaseBroken(o)
  PROVE  IInv'
<1>1. /\ op[o] \in OpState /\ op[o].pc = "give" /\ Fits(op[o]) /\ inst \in [Inst -> InstState] /\ OwnInv
      /\ UNCHANGED <<idle, closed, writer, life>>
  BY DEF IInv, TypeOK, OpInv, ReleaseBroken, At
<1>2. Holds(op[o]) /\ Owns(op[o]) /\ op[o].inst \in Inst /\ op[o].grant = "none"
  BY <1>1 DEF Fits, Holds, Owns, OpState
<1>3. PICK i \in Inst : i = op[o].inst
  BY <1>2
<1>4. inst[i].stage = "up"
  BY <1>1, <1>2, <1>3 DEF OwnInv, OwnStage
<1>5. PICK d : d = [inst[i] EXCEPT !.stage = "retire"]
  OBVIOUS
<1>6. inst' = [inst EXCEPT ![i] = d]
  BY <1>3, <1>5 DEF ReleaseBroken
<1>7. d \in InstState /\ d.stage = "retire" /\ d.refs = inst[i].refs
  BY <1>1, <1>5 DEF InstState
<1>8. Base(d) = Base(inst[i])
  BY <1>4, <1>7 DEF Base
<1>9. inst' \in [Inst -> InstState] /\ inst'[i] = d /\ \A j \in Inst : j # i => inst'[j] = inst[j]
  BY <1>1, <1>6, <1>7
<1>10. \A j \in Inst :
         IF Owns(op[o]) /\ j = op[o].inst
           THEN inst'[j].stage \in {"retire", "gone"} /\ inst'[j].refs - Base(inst'[j]) = inst[j].refs - Base(inst[j])
           ELSE inst'[j].stage = inst[j].stage /\ inst'[j].refs = inst[j].refs
  BY <1>2, <1>3, <1>7, <1>8, <1>9
<1>11. PICK x : x = [op[o] EXCEPT !.pc = "retire"]
  OBVIOUS
<1>12. x \in OpState /\ x.pc = "retire" /\ x.grant = op[o].grant /\ x.inst = op[o].inst
  BY <1>1, <1>11 DEF OpState, OpPC
<1>13. Fits(x) /\ ~Holds(x) /\ ~Owns(x) /\ x.pc \in Late
  BY <1>1, <1>2, <1>12 DEF Fits, Holds, Owns, Late
<1>14. Vacate([op EXCEPT ![o] = x])
  <2>1. Vacate([op EXCEPT ![o].pc = "retire"])
    BY DEF ReleaseBroken
  <2>2. [op EXCEPT ![o].pc = "retire"] = [op EXCEPT ![o] = x]
    BY <1>11
  <2> QED
    BY <2>1, <2>2
<1> QED
  BY <1>1, <1>2, <1>9, <1>10, <1>12, <1>13, <1>14, VacateKeeps

\* The holds on an instance follow the session's own.
LEMMA RefsKeep ==
  ASSUME IInv, inst' \in [Inst -> InstState], writer' = writer,
         \A i \in Inst : /\ inst'[i].refs - Base(inst'[i]) = inst[i].refs - Base(inst[i])
                         /\ inst'[i].stage = "unused" => inst[i].stage = "unused"
  PROVE  RefsInv'
<1>1. RefsInv /\ TypeOK
  BY DEF IInv
<1>2. ASSUME NEW i \in Inst
      PROVE  /\ inst'[i].refs = Base(inst'[i]) + Cardinality(WritersOf(writer, i))
             /\ inst'[i].stage = "unused" => WritersOf(writer, i) = {}
  <2>1. PICK c \in Nat : c = Cardinality(WritersOf(writer, i))
    BY WritersCount
  <2>2. inst[i].refs = Base(inst[i]) + c /\ (inst[i].stage = "unused" => WritersOf(writer, i) = {})
    BY <1>1, <2>1 DEF RefsInv
  <2>3. Base(inst[i]) \in Nat /\ Base(inst'[i]) \in Nat /\ inst'[i].refs \in Nat
    BY DEF Base, InstState
  <2> QED
    BY <2>1, <2>2, <2>3
<1> QED
  BY <1>2 DEF RefsInv

\* An instance is leased and its login begins.
LEMMA LeaseKeeps ==
  ASSUME IInv, NEW o \in Op, Lease(o)
  PROVE  IInv'
<1>1. /\ TypeOK /\ OpInv /\ QueueInv /\ NobodyWaitsInVain /\ IdleInv /\ OwnInv /\ UpInv /\ RefsInv /\ WriterInv /\ SlotInv
      /\ op \in [Op -> OpState] /\ op[o].pc = "login" /\ Fits(op[o]) /\ inst \in [Inst -> InstState]
      /\ idle \in Seq(Inst) /\ queue \in Seq(Op)
      /\ live' = live /\ idle' = idle /\ queue' = queue /\ closed' = closed /\ writer' = writer /\ life' = life
  BY DEF IInv, TypeOK, OpInv, Lease, At, session
<1>2. PICK i \in Inst : /\ inst[i].stage = "unused"
                        /\ inst' = [inst EXCEPT ![i].stage = "opening", ![i].refs = 1, ![i].mu = "op"]
                        /\ op' = [op EXCEPT ![o].pc = "opening", ![o].inst = i]
  BY DEF Lease
<1>3. PICK d : d = [inst[i] EXCEPT !.stage = "opening", !.refs = 1, !.mu = "op"]
  OBVIOUS
<1>4. PICK x : x = [op[o] EXCEPT !.pc = "opening", !.inst = i]
  OBVIOUS
<1>5. d \in InstState /\ d.stage = "opening" /\ d.refs = 1 /\ Base(d) = 1 /\ Base(inst[i]) = 0
  BY <1>1, <1>2, <1>3 DEF InstState, Base
<1>6. x \in OpState /\ x.pc = "opening" /\ x.grant = op[o].grant /\ x.inst = i
  BY <1>1, <1>4 DEF OpState, OpPC
<1>7. inst' \in [Inst -> InstState] /\ inst'[i] = d /\ \A j \in Inst : j # i => inst'[j] = inst[j]
  BY <1>1, <1>2, <1>3, <1>5
<1>8. op' \in [Op -> OpState] /\ op'[o] = x /\ \A p \in Op : p # o => op'[p] = op[p]
  BY <1>1, <1>2, <1>4, <1>6
<1>9. /\ Holds(op[o]) /\ ~Owns(op[o]) /\ ~Queued(op[o]) /\ op[o].pc \notin Late
      /\ Fits(x) /\ Holds(x) /\ Owns(x) /\ OwnStage(x) = "opening"
  BY <1>1, <1>6, SessionConstants DEF Fits, Holds, Owns, Queued, Late, OwnStage
<1>10. \A p \in Op : Owns(op[p]) => op[p].inst \in Inst /\ op[p].inst # i
  <2>1. ASSUME NEW p \in Op, Owns(op[p]) PROVE op[p].inst \in Inst /\ op[p].inst # i
    <3>1. op[p].inst \in Inst /\ inst[op[p].inst].stage \in {"opening", "up"}
      BY <1>1, <2>1 DEF OpInv, Fits, OpState, OwnInv, OwnStage
    <3> QED
      BY <1>2, <3>1
  <2> QED
    BY <2>1
<1>11. \A n \in 1 .. Len(idle) : idle[n] \in Inst /\ idle[n] # i
  <2>1. ASSUME NEW n \in 1 .. Len(idle) PROVE idle[n] \in Inst /\ idle[n] # i
    <3>1. idle[n] \in Inst /\ inst[idle[n]].stage = "up"
      BY <1>1 DEF IdleInv
    <3> QED
      BY <1>2, <3>1
  <2> QED
    BY <2>1
<1>12. TypeOK'
  BY <1>1, <1>7, <1>8 DEF TypeOK
<1>13. OpInv'
  BY <1>1, <1>8, <1>9 DEF OpInv
<1>14. QueueInv'
  <2>1. ASSUME NEW n \in 1 .. Len(queue) PROVE Queued(op'[queue[n]])
    <3>1. queue[n] \in Op /\ Queued(op[queue[n]])
      BY <1>1 DEF QueueInv
    <3> QED
      BY <1>8, <1>9, <3>1
  <2> QED
    BY <1>1, <2>1 DEF QueueInv
<1>15. NobodyWaitsInVain'
  BY <1>1 DEF NobodyWaitsInVain
<1>16. IdleInv'
  BY <1>1, <1>7, <1>11 DEF IdleInv
<1>17. OwnInv'
  <2>1. \A p, q \in Op : Owns(op'[p]) /\ Owns(op'[q]) /\ op'[p].inst = op'[q].inst => p = q
    BY <1>1, <1>6, <1>8, <1>10 DEF OwnInv
  <2>2. ASSUME NEW p \in Op, Owns(op'[p])
        PROVE  /\ inst'[op'[p].inst].stage = OwnStage(op'[p])
               /\ \A n \in 1 .. Len(idle) : idle[n] # op'[p].inst
    <3>1. CASE p = o
      BY <1>5, <1>6, <1>7, <1>8, <1>9, <1>11, <3>1
    <3>2. CASE p # o
      <4>1. op'[p] = op[p] /\ Owns(op[p])
        BY <1>8, <2>2, <3>2
      <4> QED
        BY <1>1, <1>7, <1>10, <4>1 DEF OwnInv
    <3> QED
      BY <3>1, <3>2
  <2> QED
    BY <1>1, <2>1, <2>2 DEF OwnInv
<1>18. UpInv'
  <2>1. ASSUME NEW j \in Inst, inst'[j].stage \in {"opening", "up"}
        PROVE  (\E n \in 1 .. Len(idle) : idle[n] = j) \/ \E p \in Op : Owns(op'[p]) /\ op'[p].inst = j
    <3>1. CASE j = i
      BY <1>6, <1>8, <1>9, <3>1
    <3>2. CASE j # i
      <4>1. (\E n \in 1 .. Len(idle) : idle[n] = j) \/ \E p \in Op : Owns(op[p]) /\ op[p].inst = j
        BY <1>1, <1>7, <2>1, <3>2 DEF UpInv
      <4>2. ASSUME NEW p \in Op, Owns(op[p]) PROVE op'[p] = op[p]
        BY <1>8, <1>9, <4>2
      <4> QED
        BY <4>1, <4>2
    <3> QED
      BY <3>1, <3>2
  <2> QED
    BY <1>1, <2>1 DEF UpInv
<1>19. RefsInv'
  <2>1. inst[i].refs = 0
    <3>1. inst[i].refs = Base(inst[i]) + Cardinality(WritersOf(writer, i)) /\ WritersOf(writer, i) = {}
      BY <1>1, <1>2 DEF RefsInv
    <3> QED
      BY <1>5, <3>1, FS_EmptySet
  <2>2. d.refs - Base(d) = inst[i].refs - Base(inst[i])
    BY <1>5, <2>1
  <2>3. \A j \in Inst : /\ inst'[j].refs - Base(inst'[j]) = inst[j].refs - Base(inst[j])
                        /\ inst'[j].stage = "unused" => inst[j].stage = "unused"
    BY <1>2, <1>7, <2>2
  <2> QED
    BY <1>1, <1>7, <2>3, RefsKeep
<1>20. WriterInv'
  BY <1>1, <1>8, <1>9 DEF WriterInv
<1>21. SlotInv'
  <2>1. Holders(op') = Holders(op)
    BY <1>8, <1>9 DEF Holders
  <2> QED
    BY <1>1, <2>1 DEF SlotInv
<1> QED
  BY <1>12, <1>13, <1>14, <1>15, <1>16, <1>17, <1>18, <1>19, <1>20, <1>21 DEF IInv

\* An instance goes to the operation that has waited longest.
LEMMA ReleaseToWaiterKeeps ==
  ASSUME IInv, NEW o \in Op, ReleaseToWaiter(o)
  PROVE  IInv'
<1>1. /\ TypeOK /\ OpInv /\ QueueInv /\ NobodyWaitsInVain /\ IdleInv /\ OwnInv /\ UpInv /\ RefsInv /\ WriterInv /\ SlotInv
      /\ op \in [Op -> OpState] /\ op[o].pc = "give" /\ Fits(op[o]) /\ inst \in [Inst -> InstState]
      /\ idle \in Seq(Inst) /\ queue \in Seq(Op) /\ queue # <<>> /\ queue' = Tail(queue)
      /\ live' = live /\ idle' = idle /\ closed' = closed /\ inst' = inst /\ writer' = writer /\ life' = life
  BY DEF IInv, TypeOK, OpInv, ReleaseToWaiter, At
<1>2. PICK h : h = Head(queue)
  OBVIOUS
<1>3. PICK t : t = Tail(queue)
  OBVIOUS
<1>4. /\ h \in Op /\ h = queue[1] /\ 1 \in 1 .. Len(queue)
      /\ t \in Seq(Op) /\ Len(t) = Len(queue) - 1 /\ Distinct(t)
      /\ \A n \in 1 .. Len(t) : t[n] # h /\ n + 1 \in 1 .. Len(queue) /\ t[n] = queue[n + 1]
  <2>1. Distinct(queue)
    BY <1>1 DEF QueueInv
  <2>2. Popped(Op, queue, h, t)
    BY <1>1, <1>2, <1>3, <2>1, TailDistinct
  <2> QED
    BY <2>2 DEF Popped
<1>5. Queued(op[h]) /\ h # o /\ Fits(op[h])
  BY <1>1, <1>4 DEF QueueInv, Queued, OpInv
<1>6. PICK x : x = Returned(o)
  OBVIOUS
<1>7. PICK y : y = [op[h] EXCEPT !.grant = "inst", !.inst = op[o].inst]
  OBVIOUS
<1>8. x \in OpState /\ Fits(x) /\ ~Holds(x) /\ ~Owns(x) /\ x.pc \in Late
  BY <1>6, ReturnedIs
<1>9. Holds(op[o]) /\ Owns(op[o]) /\ ~Queued(op[o]) /\ op[o].inst \in Inst /\ op[o].inst # NoInst /\ OwnStage(op[o]) = "up"
  BY <1>1, SessionConstants DEF Fits, Holds, Owns, Queued, OpState, OwnStage
<1>10. y \in OpState /\ y.pc = "wait" /\ y.grant = "inst" /\ y.inst = op[o].inst
  <2>1. op[h] \in OpState /\ op[h].pc = "wait"
    BY <1>1, <1>4, <1>5 DEF Queued
  <2>2. PICK i \in Inst : i = op[o].inst
    BY <1>9
  <2>3. y = [op[h] EXCEPT !.grant = "inst", !.inst = i]
    BY <1>7, <2>2
  <2> QED
    BY <2>1, <2>2, <2>3 DEF OpState
<1>11. /\ Fits(y) /\ Holds(y) /\ Owns(y) /\ OwnStage(y) = "up"
       /\ ~Holds(op[h]) /\ ~Owns(op[h]) /\ op[h].pc \notin Late
  BY <1>5, <1>9, <1>10 DEF Fits, Holds, Owns, OwnStage, Queued, Late
<1>12. op' \in [Op -> OpState] /\ op'[o] = x /\ op'[h] = y /\ \A p \in Op : p # o /\ p # h => op'[p] = op[p]
  <2>1. op' = [op EXCEPT ![o] = Returned(o), ![h].grant = "inst", ![h].inst = op[o].inst]
    BY <1>2 DEF ReleaseToWaiter
  <2> QED
    BY <1>1, <1>4, <1>5, <1>6, <1>7, <1>8, <1>10, <2>1
<1>13. TypeOK'
  BY <1>1, <1>3, <1>4, <1>12 DEF TypeOK
<1>14. OpInv'
  BY <1>1, <1>8, <1>11, <1>12 DEF OpInv
<1>15. QueueInv'
  <2>1. ASSUME NEW n \in 1 .. Len(t) PROVE Queued(op'[t[n]])
    <3>1. t[n] \in Op /\ t[n] # h /\ Queued(op[t[n]])
      BY <1>1, <1>4 DEF QueueInv
    <3> QED
      BY <1>9, <1>12, <3>1
  <2> QED
    BY <1>1, <1>3, <1>4, <2>1 DEF QueueInv
<1>16. NobodyWaitsInVain'
  BY <1>1 DEF NobodyWaitsInVain
<1>17. IdleInv'
  BY <1>1 DEF IdleInv
<1>18. OwnInv'
  <2>1. \A p, q \in Op : Owns(op'[p]) /\ Owns(op'[q]) /\ op'[p].inst = op'[q].inst => p = q
    <3>1. \A p \in Op : Owns(op'[p]) => p = h \/ (p # o /\ p # h /\ Owns(op[p]) /\ op'[p].inst = op[p].inst)
      BY <1>8, <1>12
    <3>2. \A p \in Op : p # o /\ Owns(op[p]) => op[p].inst # op[o].inst
      BY <1>1, <1>9 DEF OwnInv
    <3> QED
      BY <1>1, <1>10, <1>12, <3>1, <3>2 DEF OwnInv
  <2>2. ASSUME NEW p \in Op, Owns(op'[p])
        PROVE  /\ inst[op'[p].inst].stage = OwnStage(op'[p])
               /\ \A n \in 1 .. Len(idle) : idle[n] # op'[p].inst
    <3>1. CASE p = h
      BY <1>1, <1>9, <1>10, <1>11, <1>12, <3>1 DEF OwnInv
    <3>2. CASE p # h
      BY <1>1, <1>8, <1>12, <2>2, <3>2 DEF OwnInv
    <3> QED
      BY <3>1, <3>2
  <2> QED
    BY <1>1, <2>1, <2>2 DEF OwnInv
<1>19. UpInv'
  <2>1. ASSUME NEW j \in Inst, inst[j].stage \in {"opening", "up"}
        PROVE  (\E n \in 1 .. Len(idle) : idle[n] = j) \/ \E p \in Op : Owns(op'[p]) /\ op'[p].inst = j
    <3>1. (\E n \in 1 .. Len(idle) : idle[n] = j) \/ \E p \in Op : Owns(op[p]) /\ op[p].inst = j
      BY <1>1, <2>1 DEF UpInv
    <3>2. ASSUME NEW p \in Op, Owns(op[p]), op[p].inst = j PROVE \E q \in Op : Owns(op'[q]) /\ op'[q].inst = j
      <4>1. CASE p = o
        BY <1>4, <1>10, <1>11, <1>12, <3>2, <4>1
      <4>2. CASE p # o
        BY <1>11, <1>12, <3>2, <4>2
      <4> QED
        BY <4>1, <4>2
    <3> QED
      BY <3>1, <3>2
  <2> QED
    BY <1>1, <2>1 DEF UpInv
<1>20. RefsInv' /\ WriterInv'
  <2>1. WriterInv'
    BY <1>1, <1>8, <1>11, <1>12 DEF WriterInv
  <2> QED
    BY <1>1, <2>1 DEF RefsInv
<1>21. SlotInv'
  <2>1. PICK g : g = op'
    OBVIOUS
  <2>2. /\ o # h /\ Holds(op[o]) /\ ~Holds(g[o]) /\ ~Holds(op[h]) /\ Holds(g[h])
        /\ \A p \in Op : p # o /\ p # h => (Holds(g[p]) <=> Holds(op[p]))
    BY <1>4, <1>5, <1>8, <1>9, <1>11, <1>12, <2>1
  <2>3. Cardinality(Holders(g)) = Cardinality(Holders(op))
    <3>1. h \in Op
      BY <1>4
    <3> QED
      BY <2>2, <3>1, OneForOne
  <2> QED
    BY <1>1, <2>1, <2>3 DEF SlotInv
<1> QED
  BY <1>13, <1>14, <1>15, <1>16, <1>17, <1>18, <1>19, <1>20, <1>21 DEF IInv

\* An instance becomes idle.
LEMMA ReleaseIdleKeeps ==
  ASSUME IInv, NEW o \in Op, ReleaseIdle(o)
  PROVE  IInv'
<1>1. /\ TypeOK /\ OpInv /\ QueueInv /\ NobodyWaitsInVain /\ IdleInv /\ OwnInv /\ UpInv /\ RefsInv /\ WriterInv /\ SlotInv
      /\ op \in [Op -> OpState] /\ op[o].pc = "give" /\ Fits(op[o]) /\ inst \in [Inst -> InstState]
      /\ idle \in Seq(Inst) /\ queue \in Seq(Op) /\ queue = <<>> /\ ~closed /\ live \in 0 .. MaxInst
      /\ live' = live /\ queue' = queue /\ closed' = closed /\ writer' = writer /\ life' = life
  BY DEF IInv, TypeOK, OpInv, ReleaseIdle, At
<1>2. /\ Holds(op[o]) /\ Owns(op[o]) /\ ~Queued(op[o]) /\ op[o].pc \in Late /\ op[o].inst \in Inst
      /\ OwnStage(op[o]) = "up"
  BY <1>1 DEF Fits, Holds, Owns, Queued, Late, OpState, OwnStage
<1>3. PICK i \in Inst : i = op[o].inst
  BY <1>2
<1>4. PICK b \in BOOLEAN : b = (live > 1)
  <2>1. (live > 1) \in BOOLEAN
    BY <1>1, SessionConstants
  <2> QED
    BY <2>1, Zenon
<1>5. PICK d : d = [inst[i] EXCEPT !.timer = b]
  OBVIOUS
<1>6. inst' = [inst EXCEPT ![i] = d]
  BY <1>3, <1>4, <1>5 DEF ReleaseIdle
<1>7. d \in InstState /\ d.stage = inst[i].stage /\ d.refs = inst[i].refs
  BY <1>1, <1>5 DEF InstState
<1>8. inst' \in [Inst -> InstState] /\ \A j \in Inst : inst'[j].stage = inst[j].stage /\ inst'[j].refs = inst[j].refs
  BY <1>1, <1>6, <1>7
<1>9. PICK t : t = Append(idle, i)
  OBVIOUS
<1>10. idle' = t
  BY <1>3, <1>9 DEF ReleaseIdle
<1>11. Grown(Inst, idle, i, t)
  <2>1. Distinct(idle) /\ \A n \in 1 .. Len(idle) : idle[n] # i
    BY <1>1, <1>2, <1>3 DEF IdleInv, OwnInv
  <2> QED
    BY <1>1, <1>9, <2>1, AppendDistinct
<1>12. PICK x : x = Returned(o)
  OBVIOUS
<1>13. x \in OpState /\ Fits(x) /\ ~Holds(x) /\ ~Owns(x) /\ x.pc \in Late
  BY <1>12, ReturnedIs
<1>14. op' = [op EXCEPT ![o] = x]
  BY <1>12 DEF ReleaseIdle, Finish
<1>15. op' \in [Op -> OpState] /\ op'[o] = x /\ \A p \in Op : p # o => op'[p] = op[p]
  BY <1>1, <1>13, <1>14
<1>16. TypeOK'
  BY <1>1, <1>8, <1>10, <1>11, <1>15 DEF TypeOK, Grown
<1>17. OpInv'
  BY <1>1, <1>13, <1>15 DEF OpInv
<1>18. QueueInv' /\ NobodyWaitsInVain'
  BY <1>1 DEF QueueInv, NobodyWaitsInVain, Distinct
<1>19. inst[i].stage = "up"
  BY <1>1, <1>2, <1>3 DEF OwnInv
<1>20. \A n \in 1 .. Len(t) : t[n] = i \/ \E m \in 1 .. Len(idle) : t[n] = idle[m]
  BY <1>11 DEF Grown
<1>21. IdleInv'
  <2>1. \A n \in 1 .. Len(t) : inst'[t[n]].stage = "up"
    <3>1. \A m \in 1 .. Len(idle) : idle[m] \in Inst /\ inst[idle[m]].stage = "up"
      BY <1>1 DEF IdleInv
    <3> QED
      BY <1>8, <1>19, <1>20, <3>1
  <2>2. Distinct(t)
    BY <1>11 DEF Grown
  <2> QED
    BY <1>1, <1>10, <2>1, <2>2 DEF IdleInv
<1>22. OwnInv'
  <2>1. \A p, q \in Op : Owns(op'[p]) /\ Owns(op'[q]) /\ op'[p].inst = op'[q].inst => p = q
    BY <1>1, <1>13, <1>15 DEF OwnInv
  <2>2. ASSUME NEW p \in Op, Owns(op'[p])
        PROVE  /\ inst'[op'[p].inst].stage = OwnStage(op'[p])
               /\ \A n \in 1 .. Len(t) : t[n] # op'[p].inst
    <3>1. p # o /\ op'[p] = op[p] /\ Owns(op[p])
      BY <1>13, <1>15, <2>2
    <3>2. op[p].inst \in Inst /\ op[p].inst # i
      BY <1>1, <1>2, <1>3, <3>1 DEF OwnInv, OpInv, Fits, OpState
    <3>3. inst[op[p].inst].stage = OwnStage(op[p]) /\ \A n \in 1 .. Len(idle) : idle[n] # op[p].inst
      BY <1>1, <3>1 DEF OwnInv
    <3> QED
      BY <1>8, <1>20, <3>1, <3>2, <3>3
  <2> QED
    BY <1>10, <2>1, <2>2 DEF OwnInv
<1>23. UpInv'
  <2>1. ASSUME NEW j \in Inst, inst'[j].stage \in {"opening", "up"}
        PROVE  (\E n \in 1 .. Len(t) : t[n] = j) \/ \E p \in Op : Owns(op'[p]) /\ op'[p].inst = j
    <3>1. (\E n \in 1 .. Len(idle) : idle[n] = j) \/ \E p \in Op : Owns(op[p]) /\ op[p].inst = j
      BY <1>1, <1>8, <2>1 DEF UpInv
    <3>2. CASE \E n \in 1 .. Len(idle) : idle[n] = j
      BY <1>11, <3>2 DEF Grown
    <3>3. ASSUME NEW p \in Op, Owns(op[p]), op[p].inst = j
          PROVE  (\E n \in 1 .. Len(t) : t[n] = j) \/ \E q \in Op : Owns(op'[q]) /\ op'[q].inst = j
      <4>1. CASE p = o
        <5>1. j = i /\ t[Len(t)] = i /\ Len(t) \in 1 .. Len(t)
          BY <1>3, <1>11, <3>3, <4>1 DEF Grown
        <5> QED
          BY <5>1
      <4>2. CASE p # o
        BY <1>15, <3>3, <4>2
      <4> QED
        BY <4>1, <4>2
    <3> QED
      BY <3>1, <3>2, <3>3
  <2> QED
    BY <1>10, <2>1 DEF UpInv
<1>24. RefsInv'
  BY <1>1, <1>8, RefsKeep DEF Base
<1>25. WriterInv'
  BY <1>1, <1>13, <1>15 DEF WriterInv
<1>26. SlotInv'
  <2>1. PICK g : g = op'
    OBVIOUS
  <2>2. ~Holds(g[o]) /\ Holds(op[o]) /\ \A p \in Op : p # o => (Holds(g[p]) <=> Holds(op[p]))
    BY <1>2, <1>13, <1>15, <2>1
  <2>3. Cardinality(Holders(g)) = Cardinality(Holders(op)) - 1
    BY <2>2, OneLess
  <2>4. PICK c \in Nat : c = Cardinality(Holders(op))
    BY HoldersCount
  <2>5. Len(t) = Len(idle) + 1 /\ Len(idle) \in Nat
    BY <1>1, <1>11 DEF Grown
  <2> QED
    BY <1>1, <1>10, <2>1, <2>3, <2>4, <2>5 DEF SlotInv
<1> QED
  BY <1>16, <1>17, <1>18, <1>21, <1>22, <1>23, <1>24, <1>25, <1>26 DEF IInv

\* What waking an idle instance changes of it.
LEMMA WokenIs ==
  ASSUME NEW e \in InstState, NEW stopped \in BOOLEAN, NEW d, d = Woken(e, stopped)
  PROVE  d \in InstState /\ d.stage = e.stage /\ d.refs = e.refs
<1>1. PICK b \in BOOLEAN : b = (e.late \/ (e.timer /\ ~stopped))
  OBVIOUS
<1>2. d = [e EXCEPT !.timer = FALSE, !.late = b]
  BY <1>1 DEF Woken
<1> QED
  BY <1>2 DEF InstState

\* An operation takes the instance used last.
LEMMA AcquireIdleKeeps ==
  ASSUME IInv, NEW o \in Op, AcquireIdle(o)
  PROVE  IInv'
<1>1. /\ TypeOK /\ OpInv /\ QueueInv /\ NobodyWaitsInVain /\ IdleInv /\ OwnInv /\ UpInv /\ RefsInv /\ WriterInv /\ SlotInv
      /\ op \in [Op -> OpState] /\ op[o].pc = "acquire" /\ Fits(op[o]) /\ inst \in [Inst -> InstState]
      /\ idle \in Seq(Inst) /\ queue = <<>> /\ idle # <<>> /\ ~closed /\ live \in 0 .. MaxInst
      /\ live' = live /\ queue' = queue /\ closed' = closed /\ writer' = writer /\ life' = life
  BY DEF IInv, TypeOK, OpInv, AcquireIdle, At
<1>2. PICK i : i = Last(idle)
  OBVIOUS
<1>3. PICK t : t = Front(idle)
  OBVIOUS
<1>4. LastTaken(Inst, idle, i, t)
  <2>1. Distinct(idle)
    BY <1>1 DEF IdleInv
  <2> QED
    BY <1>1, <1>2, <1>3, <2>1, FrontDistinct
<1>5. i \in Inst /\ inst[i].stage = "up" /\ idle' = t
  <2>1. i \in Inst /\ i = idle[Len(idle)] /\ Len(idle) \in 1 .. Len(idle)
    BY <1>4 DEF LastTaken
  <2>2. idle' = t
    BY <1>3 DEF AcquireIdle
  <2> QED
    BY <1>1, <2>1, <2>2 DEF IdleInv
<1>6. PICK stopped \in BOOLEAN : inst' = [inst EXCEPT ![i] = Woken(inst[i], stopped)]
  BY <1>2, <1>5 DEF AcquireIdle
<1>7. PICK d : d = Woken(inst[i], stopped)
  OBVIOUS
<1>8. d \in InstState /\ d.stage = inst[i].stage /\ d.refs = inst[i].refs
  BY <1>1, <1>5, <1>7, WokenIs
<1>9. inst' \in [Inst -> InstState] /\ \A j \in Inst : inst'[j].stage = inst[j].stage /\ inst'[j].refs = inst[j].refs
  BY <1>1, <1>6, <1>7, <1>8
<1>10. PICK x : x = [op[o] EXCEPT !.pc = "call", !.inst = i]
  OBVIOUS
<1>11. x \in OpState /\ x.pc = "call" /\ x.grant = op[o].grant /\ x.inst = i
  BY <1>1, <1>5, <1>10 DEF OpState, OpPC
<1>12. op' = [op EXCEPT ![o] = x]
  BY <1>2, <1>10 DEF AcquireIdle
<1>13. op' \in [Op -> OpState] /\ op'[o] = x /\ \A p \in Op : p # o => op'[p] = op[p]
  BY <1>1, <1>11, <1>12
<1>14. /\ ~Holds(op[o]) /\ ~Owns(op[o]) /\ op[o].pc \notin Late
       /\ Fits(x) /\ Holds(x) /\ Owns(x) /\ OwnStage(x) = "up"
  BY <1>1, <1>5, <1>11, SessionConstants DEF Fits, Holds, Owns, Late, OwnStage
<1>15. \A p \in Op : Owns(op[p]) => op[p].inst \in Inst /\ op[p].inst # i
  <2>1. ASSUME NEW p \in Op, Owns(op[p]) PROVE op[p].inst \in Inst /\ op[p].inst # i
    <3>1. op[p].inst \in Inst
      BY <1>1, <2>1 DEF OpInv, Fits, OpState
    <3>2. \A n \in 1 .. Len(idle) : idle[n] # op[p].inst
      BY <1>1, <2>1 DEF OwnInv
    <3> QED
      BY <1>4, <3>1, <3>2 DEF LastTaken
  <2> QED
    BY <2>1
<1>16. \A n \in 1 .. Len(t) : t[n] # i /\ n \in 1 .. Len(idle) /\ t[n] = idle[n] /\ idle[n] \in Inst
  BY <1>1, <1>4 DEF LastTaken
<1>17. TypeOK'
  BY <1>1, <1>4, <1>5, <1>9, <1>13 DEF TypeOK, LastTaken
<1>18. OpInv'
  BY <1>1, <1>13, <1>14 DEF OpInv
<1>19. QueueInv' /\ NobodyWaitsInVain'
  BY <1>1 DEF QueueInv, NobodyWaitsInVain, Distinct
<1>20. IdleInv'
  <2>1. Distinct(t)
    BY <1>4 DEF LastTaken
  <2>2. \A n \in 1 .. Len(t) : inst'[t[n]].stage = "up"
    BY <1>1, <1>9, <1>16 DEF IdleInv
  <2> QED
    BY <1>1, <1>5, <2>1, <2>2 DEF IdleInv
<1>21. OwnInv'
  <2>1. \A p, q \in Op : Owns(op'[p]) /\ Owns(op'[q]) /\ op'[p].inst = op'[q].inst => p = q
    BY <1>1, <1>11, <1>13, <1>15 DEF OwnInv
  <2>2. ASSUME NEW p \in Op, Owns(op'[p])
        PROVE  /\ inst'[op'[p].inst].stage = OwnStage(op'[p])
               /\ \A n \in 1 .. Len(t) : t[n] # op'[p].inst
    <3>1. CASE p = o
      BY <1>5, <1>9, <1>11, <1>13, <1>14, <1>16, <3>1
    <3>2. CASE p # o
      <4>1. op'[p] = op[p] /\ Owns(op[p])
        BY <1>13, <2>2, <3>2
      <4>2. inst[op[p].inst].stage = OwnStage(op[p]) /\ \A n \in 1 .. Len(idle) : idle[n] # op[p].inst
        BY <1>1, <4>1 DEF OwnInv
      <4> QED
        BY <1>9, <1>15, <1>16, <4>1, <4>2
    <3> QED
      BY <3>1, <3>2
  <2> QED
    BY <1>5, <2>1, <2>2 DEF OwnInv
<1>22. UpInv'
  <2>1. ASSUME NEW j \in Inst, inst'[j].stage \in {"opening", "up"}
        PROVE  (\E n \in 1 .. Len(t) : t[n] = j) \/ \E p \in Op : Owns(op'[p]) /\ op'[p].inst = j
    <3>1. (\E n \in 1 .. Len(idle) : idle[n] = j) \/ \E p \in Op : Owns(op[p]) /\ op[p].inst = j
      BY <1>1, <1>9, <2>1 DEF UpInv
    <3>2. ASSUME NEW n \in 1 .. Len(idle), idle[n] = j
          PROVE  (\E m \in 1 .. Len(t) : t[m] = j) \/ j = i
      <4>1. n \in 1 .. Len(t) \/ n = Len(idle)
        BY <1>1, <1>4 DEF LastTaken
      <4> QED
        BY <1>4, <3>2, <4>1 DEF LastTaken
    <3>3. ASSUME NEW p \in Op, Owns(op[p]), op[p].inst = j PROVE \E q \in Op : Owns(op'[q]) /\ op'[q].inst = j
      BY <1>13, <1>14, <3>3
    <3>4. j = i => Owns(op'[o]) /\ op'[o].inst = j
      BY <1>11, <1>13, <1>14
    <3> QED
      BY <3>1, <3>2, <3>3, <3>4
  <2> QED
    BY <1>5, <2>1 DEF UpInv
<1>23. RefsInv'
  BY <1>1, <1>9, RefsKeep DEF Base
<1>24. WriterInv'
  BY <1>1, <1>13, <1>14 DEF WriterInv
<1>25. SlotInv'
  <2>1. PICK g : g = op'
    OBVIOUS
  <2>2. Holds(g[o]) /\ ~Holds(op[o]) /\ \A p \in Op : p # o => (Holds(g[p]) <=> Holds(op[p]))
    BY <1>13, <1>14, <2>1
  <2>3. Cardinality(Holders(g)) = Cardinality(Holders(op)) + 1
    BY <2>2, OneMore
  <2>4. PICK c \in Nat : c = Cardinality(Holders(op))
    BY HoldersCount
  <2>5. Len(t) = Len(idle) - 1 /\ Len(idle) \in Nat
    BY <1>1, <1>4 DEF LastTaken
  <2> QED
    BY <1>1, <1>5, <2>1, <2>3, <2>4, <2>5 DEF SlotInv
<1> QED
  BY <1>17, <1>18, <1>19, <1>20, <1>21, <1>22, <1>23, <1>24, <1>25 DEF IInv

\* An instance idle for too long is retired.
LEMMA ReapKeeps ==
  ASSUME IInv, NEW i \in Inst, Reap(i)
  PROVE  IInv'
<1>1. /\ TypeOK /\ OpInv /\ QueueInv /\ NobodyWaitsInVain /\ IdleInv /\ OwnInv /\ UpInv /\ RefsInv /\ WriterInv /\ SlotInv
      /\ op \in [Op -> OpState] /\ inst \in [Inst -> InstState] /\ idle \in Seq(Inst) /\ live \in 0 .. MaxInst
      /\ op' = op /\ queue' = queue /\ closed' = closed /\ writer' = writer /\ life' = life
  BY DEF IInv, TypeOK, Reap, session
<1>2. CASE ~(~closed /\ i \in Range(idle) /\ live > 1)
  <2>1. inst' = [inst EXCEPT ![i].timer = FALSE] /\ UNCHANGED <<session, op, writer, life>>
    BY <1>2 DEF Reap
  <2> QED
    BY <2>1, TimerRuns
<1>3. CASE ~closed /\ i \in Range(idle) /\ live > 1
  <2>1. PICK n \in 1 .. Len(idle) : idle[n] = i /\ idle' = RemoveAt(idle, n)
    BY <1>1, <1>3 DEF Reap
  <2>2. PICK t : t = RemoveAt(idle, n)
    OBVIOUS
  <2>3. Shrunk(Inst, idle, n, t)
    <3>1. Distinct(idle)
      BY <1>1 DEF IdleInv
    <3> QED
      BY <1>1, <2>1, <2>2, <3>1, RemoveAtDistinct
  <2>4. inst[i].stage = "up" /\ idle # <<>>
    BY <1>1, <2>1 DEF IdleInv
  <2>5. queue = <<>>
    BY <1>1, <2>4 DEF NobodyWaitsInVain
  <2>6. PICK d : d = [inst[i] EXCEPT !.timer = FALSE, !.stage = "retire"]
    OBVIOUS
  <2>7. inst' = [inst EXCEPT ![i] = d] /\ live' = live - 1
    BY <1>3, <2>6 DEF Reap
  <2>8. d \in InstState /\ d.stage = "retire" /\ d.refs = inst[i].refs
    BY <1>1, <2>6 DEF InstState
  <2>9. inst' \in [Inst -> InstState] /\ inst'[i] = d /\ \A j \in Inst : j # i => inst'[j] = inst[j]
    BY <1>1, <2>7, <2>8
  <2>10. Base(d) = Base(inst[i])
    BY <2>4, <2>8 DEF Base
  <2>11. idle' = t /\ t \in Seq(Inst) /\ Distinct(t) /\ Len(t) = Len(idle) - 1
    BY <2>1, <2>2, <2>3 DEF Shrunk
  <2>12. \A k \in 1 .. Len(t) : t[k] # i /\ \E m \in 1 .. Len(idle) : t[k] = idle[m]
    BY <2>1, <2>3 DEF Shrunk
  <2>13. TypeOK'
    <3>1. live - 1 \in 0 .. MaxInst
      BY <1>1, <1>3, SessionConstants
    <3> QED
      BY <1>1, <2>7, <2>9, <2>11, <3>1 DEF TypeOK
  <2>14. OpInv' /\ WriterInv'
    BY <1>1 DEF OpInv, WriterInv
  <2>15. QueueInv' /\ NobodyWaitsInVain'
    BY <1>1, <2>5 DEF QueueInv, NobodyWaitsInVain, Distinct
  <2>16. IdleInv'
    <3>1. \A k \in 1 .. Len(t) : inst'[t[k]].stage = "up"
      <4>1. \A m \in 1 .. Len(idle) : idle[m] \in Inst /\ inst[idle[m]].stage = "up"
        BY <1>1 DEF IdleInv
      <4> QED
        BY <2>9, <2>12, <4>1
    <3> QED
      BY <1>1, <1>3, <2>11, <3>1 DEF IdleInv
  <2>17. OwnInv'
    <3>1. ASSUME NEW p \in Op, Owns(op[p])
          PROVE  /\ inst'[op[p].inst].stage = OwnStage(op[p])
                 /\ \A k \in 1 .. Len(t) : t[k] # op[p].inst
      <4>1. op[p].inst \in Inst
        BY <1>1, <3>1 DEF OpInv, Fits, OpState
      <4>2. inst[op[p].inst].stage = OwnStage(op[p]) /\ \A m \in 1 .. Len(idle) : idle[m] # op[p].inst
        BY <1>1, <3>1 DEF OwnInv
      <4> QED
        BY <2>1, <2>9, <2>12, <4>1, <4>2
    <3> QED
      BY <1>1, <2>11, <3>1 DEF OwnInv
  <2>18. UpInv'
    <3>1. ASSUME NEW j \in Inst, inst'[j].stage \in {"opening", "up"}
          PROVE  (\E k \in 1 .. Len(t) : t[k] = j) \/ \E p \in Op : Owns(op[p]) /\ op[p].inst = j
      <4>1. j # i /\ inst[j].stage \in {"opening", "up"}
        BY <2>8, <2>9, <3>1
      <4>2. ASSUME NEW m \in 1 .. Len(idle), idle[m] = j PROVE \E k \in 1 .. Len(t) : t[k] = j
        BY <2>1, <2>3, <4>1, <4>2 DEF Shrunk
      <4> QED
        BY <1>1, <4>1, <4>2 DEF UpInv
    <3> QED
      BY <1>1, <2>11, <3>1 DEF UpInv
  <2>19. RefsInv'
    <3>1. \A j \in Inst : /\ inst'[j].refs - Base(inst'[j]) = inst[j].refs - Base(inst[j])
                          /\ inst'[j].stage = "unused" => inst[j].stage = "unused"
      BY <2>8, <2>9, <2>10
    <3> QED
      BY <1>1, <2>9, <3>1, RefsKeep
  <2>20. SlotInv'
    <3>1. PICK c \in Nat : c = Cardinality(Holders(op))
      BY HoldersCount
    <3>2. Len(idle) \in Nat /\ live \in Int
      BY <1>1, SessionConstants
    <3> QED
      BY <1>1, <2>7, <2>11, <3>1, <3>2 DEF SlotInv
  <2> QED
    BY <2>13, <2>14, <2>15, <2>16, <2>17, <2>18, <2>19, <2>20 DEF IInv
<1> QED
  BY <1>2, <1>3

\* The session is closed.
LEMMA CloseKeeps ==
  ASSUME IInv, CloseSession
  PROVE  IInv'
<1>1. /\ TypeOK /\ OpInv /\ QueueInv /\ IdleInv /\ OwnInv /\ UpInv /\ RefsInv /\ WriterInv /\ SlotInv
      /\ op \in [Op -> OpState] /\ inst \in [Inst -> InstState] /\ idle \in Seq(Inst) /\ queue \in Seq(Op)
      /\ live \in 0 .. MaxInst
      /\ closed' = TRUE /\ live' = live - Len(idle) /\ idle' = <<>> /\ queue' = <<>> /\ writer' = writer /\ life' = life
  BY DEF IInv, TypeOK, CloseSession, Close
<1>2. PICK stopped \in BOOLEAN :
        inst' = [i \in Inst |-> IF i \in Range(idle)
                                  THEN [Woken(inst[i], stopped) EXCEPT !.stage = "retire"]
                                  ELSE inst[i]]
  BY DEF CloseSession, Close
<1>3. op' = [o \in Op |-> IF o \in Range(queue) THEN [op[o] EXCEPT !.grant = "closed"] ELSE op[o]]
  BY DEF CloseSession, Close
<1>4. ASSUME NEW i \in Inst
      PROVE  /\ inst'[i] \in InstState /\ inst'[i].refs = inst[i].refs
             /\ IF \E n \in 1 .. Len(idle) : idle[n] = i
                  THEN inst[i].stage = "up" /\ inst'[i].stage = "retire"
                  ELSE inst'[i] = inst[i]
  <2>1. CASE \E n \in 1 .. Len(idle) : idle[n] = i
    <3>1. i \in Range(idle)
      BY <1>1, <2>1 DEF Range
    <3>2. PICK w : w = Woken(inst[i], stopped)
      OBVIOUS
    <3>3. w \in InstState /\ w.stage = inst[i].stage /\ w.refs = inst[i].refs
      BY <1>1, <3>2, WokenIs
    <3>4. inst'[i] = [w EXCEPT !.stage = "retire"]
      BY <1>2, <3>1, <3>2
    <3>5. inst[i].stage = "up"
      BY <1>1, <2>1 DEF IdleInv
    <3> QED
      BY <2>1, <3>3, <3>4, <3>5 DEF InstState
  <2>2. CASE ~ \E n \in 1 .. Len(idle) : idle[n] = i
    <3>1. i \notin Range(idle)
      BY <1>1, <2>2 DEF Range
    <3> QED
      BY <1>1, <1>2, <2>2, <3>1
  <2> QED
    BY <2>1, <2>2
<1>5. inst' \in [Inst -> InstState]
  <2>1. inst' = [i \in Inst |-> inst'[i]]
    BY <1>2
  <2> QED
    BY <1>4, <2>1
<1>6. ASSUME NEW o \in Op
      PROVE  /\ op'[o] \in OpState /\ op'[o].pc = op[o].pc /\ op'[o].inst = op[o].inst
             /\ op'[o].grant = op[o].grant \/ (op[o].pc = "wait" /\ op[o].grant = "none" /\ op'[o].grant = "closed")
  <2>1. CASE o \in Range(queue)
    <3>1. Queued(op[o])
      BY <1>1, <2>1 DEF QueueInv, Range
    <3>2. op'[o] = [op[o] EXCEPT !.grant = "closed"]
      BY <1>3, <2>1
    <3> QED
      BY <1>1, <3>1, <3>2 DEF Queued, OpState
  <2>2. CASE o \notin Range(queue)
    BY <1>1, <1>3, <2>2
  <2> QED
    BY <2>1, <2>2
<1>7. op' \in [Op -> OpState]
  <2>1. op' = [o \in Op |-> op'[o]]
    BY <1>3
  <2> QED
    BY <1>6, <2>1
<1>8. ASSUME NEW o \in Op
      PROVE  /\ Holds(op'[o]) <=> Holds(op[o])
             /\ Owns(op'[o]) <=> Owns(op[o])
             /\ OwnStage(op'[o]) = OwnStage(op[o])
             /\ Fits(op[o]) => Fits(op'[o])
  BY <1>6 DEF Holds, Owns, OwnStage, Fits
<1>9. PICK c \in Nat : c = Cardinality(Holders(op))
  BY HoldersCount
<1>10. PICK k \in Nat : k = Len(idle)
  BY <1>1
<1>11. live = k + c /\ live' = c /\ c \in 0 .. MaxInst
  BY <1>1, <1>9, <1>10, SessionConstants DEF SlotInv
<1>12. TypeOK'
  <2>1. <<>> \in Seq(Inst) /\ <<>> \in Seq(Op)
    OBVIOUS
  <2> QED
    BY <1>1, <1>5, <1>7, <1>11, <2>1 DEF TypeOK
<1>13. OpInv'
  BY <1>1, <1>8 DEF OpInv
<1>14. QueueInv' /\ NobodyWaitsInVain' /\ IdleInv'
  BY <1>1 DEF QueueInv, NobodyWaitsInVain, IdleInv, Distinct
<1>15. OwnInv'
  <2>1. ASSUME NEW o \in Op, Owns(op'[o]) PROVE inst'[op'[o].inst].stage = OwnStage(op'[o])
    <3>1. Owns(op[o]) /\ op'[o].inst = op[o].inst /\ OwnStage(op'[o]) = OwnStage(op[o])
      BY <1>6, <1>8, <2>1
    <3>2. op[o].inst \in Inst
      BY <1>1, <3>1 DEF OpInv, Fits, OpState
    <3>3. inst[op[o].inst].stage = OwnStage(op[o]) /\ \A n \in 1 .. Len(idle) : idle[n] # op[o].inst
      BY <1>1, <3>1 DEF OwnInv
    <3> QED
      BY <1>4, <3>1, <3>2, <3>3
  <2>2. \A o, p \in Op : Owns(op'[o]) /\ Owns(op'[p]) /\ op'[o].inst = op'[p].inst => o = p
    BY <1>1, <1>6, <1>8 DEF OwnInv
  <2>3. \A o \in Op : \A n \in 1 .. Len(idle') : idle'[n] # op'[o].inst
    BY <1>1
  <2> QED
    BY <2>1, <2>2, <2>3 DEF OwnInv
<1>16. UpInv'
  <2>1. ASSUME NEW i \in Inst, inst'[i].stage \in {"opening", "up"}
        PROVE  \E o \in Op : Owns(op'[o]) /\ op'[o].inst = i
    <3>1. inst[i].stage \in {"opening", "up"} /\ ~ \E n \in 1 .. Len(idle) : idle[n] = i
      BY <1>4, <2>1
    <3>2. PICK o \in Op : Owns(op[o]) /\ op[o].inst = i
      BY <1>1, <3>1 DEF UpInv
    <3> QED
      BY <1>6, <1>8, <3>2
  <2> QED
    BY <2>1 DEF UpInv
<1>17. RefsInv'
  <2>1. ASSUME NEW i \in Inst
        PROVE  /\ inst'[i].refs - Base(inst'[i]) = inst[i].refs - Base(inst[i])
               /\ inst'[i].stage = "unused" => inst[i].stage = "unused"
    BY <1>4 DEF Base
  <2> QED
    BY <1>1, <1>5, <2>1, RefsKeep
<1>18. WriterInv'
  BY <1>1, <1>6 DEF WriterInv
<1>19. SlotInv'
  <2>1. Holders(op') = Holders(op)
    BY <1>8 DEF Holders
  <2>2. Len(idle') = 0
    BY <1>1
  <2> QED
    BY <1>9, <1>11, <2>1, <2>2 DEF SlotInv
<1> QED
  BY <1>12, <1>13, <1>14, <1>15, <1>16, <1>17, <1>18, <1>19 DEF IInv

-----------------------------------------------------------------------------
(* The invariant *)

\* One instance up, idle; nobody has anything.
LEMMA InitHolds ==
  ASSUME Init
  PROVE  IInv
<1>1. PICK i \in Inst : /\ idle = <<i>>
                        /\ inst = [j \in Inst |-> IF j = i THEN [Unleased EXCEPT !.stage = "up", !.refs = 1] ELSE Unleased]
  BY DEF Init
<1>2. live = 1 /\ queue = <<>> /\ closed = FALSE /\ op = [o \in Op |-> NewOp] /\ writer = [o \in Op |-> NoWriter] /\ life = "on"
  BY DEF Init
<1>3. PICK d : d = [Unleased EXCEPT !.stage = "up", !.refs = 1]
  OBVIOUS
<1>4. d \in InstState /\ d.stage = "up" /\ d.refs = 1 /\ Base(d) = 1
  BY <1>3 DEF Unleased, InstState, Base
<1>5. Unleased \in InstState /\ Unleased.stage = "unused" /\ Unleased.refs = 0 /\ Base(Unleased) = 0
  BY DEF Unleased, InstState, Base
<1>6. inst \in [Inst -> InstState] /\ inst[i] = d /\ \A j \in Inst : j # i => inst[j] = Unleased
  BY <1>1, <1>3, <1>4, <1>5
<1>7. NewOp \in OpState /\ NewOp.pc = "new" /\ NewOp.grant = "none" /\ NewOp.inst = NoInst
  BY DEF NewOp, OpState, OpPC
<1>8. Fits(NewOp) /\ ~Holds(NewOp) /\ ~Owns(NewOp)
  BY <1>7 DEF Fits, Holds, Owns
<1>9. NoWriter \in WriterState /\ NoWriter.at = "none" /\ NoWriter.inst = NoInst
  BY DEF NoWriter, WriterState
<1>10. idle \in Seq(Inst) /\ Len(idle) = 1 /\ idle[1] = i
  BY <1>1
<1>11. TypeOK
  <2>1. queue \in Seq(Op)
    BY <1>2
  <2>2. live \in 0 .. MaxInst
    BY <1>2, SessionConstants
  <2> QED
    BY <1>2, <1>6, <1>7, <1>9, <1>10, <2>1, <2>2 DEF TypeOK
<1>12. OpInv
  BY <1>2, <1>8 DEF OpInv
<1>13. QueueInv /\ NobodyWaitsInVain
  BY <1>2 DEF QueueInv, NobodyWaitsInVain, Distinct
<1>14. IdleInv
  BY <1>2, <1>4, <1>6, <1>10 DEF IdleInv, Distinct
<1>15. OwnInv
  BY <1>2, <1>8 DEF OwnInv
<1>16. UpInv
  BY <1>5, <1>6, <1>10 DEF UpInv
<1>17. RefsInv
  <2>1. ASSUME NEW j \in Inst
        PROVE  /\ inst[j].refs = Base(inst[j]) + Cardinality(WritersOf(writer, j))
               /\ inst[j].stage = "unused" => WritersOf(writer, j) = {}
    <3>1. WritersOf(writer, j) = {}
      BY <1>2, <1>9, SessionConstants DEF WritersOf
    <3>2. Cardinality(WritersOf(writer, j)) = 0
      BY <3>1, FS_EmptySet
    <3>3. inst[j].refs = Base(inst[j]) /\ Base(inst[j]) \in Nat
      BY <1>4, <1>5, <1>6
    <3> QED
      BY <3>1, <3>2, <3>3
  <2> QED
    BY <2>1 DEF RefsInv
<1>18. WriterInv
  BY <1>2, <1>9 DEF WriterInv
<1>19. SlotInv
  <2>1. Holders(op) = {}
    BY <1>2, <1>8 DEF Holders
  <2>2. Cardinality(Holders(op)) = 0
    BY <2>1, FS_EmptySet
  <2> QED
    BY <1>2, <1>10, <2>2 DEF SlotInv
<1> QED
  BY <1>11, <1>12, <1>13, <1>14, <1>15, <1>16, <1>17, <1>18, <1>19 DEF IInv

\* Whatever an operation does.
LEMMA OpStepKeeps ==
  ASSUME IInv, NEW o \in Op, Acquire(o) \/ Wait(o) \/ Login(o) \/ Run(o) \/ Release(o) \/ Cancel(o) \/ Writer(o)
  PROVE  IInv'
<1>1. CASE Acquire(o)
  BY <1>1, BeginKeeps, AcquireClosedKeeps, AcquireIdleKeeps, AcquireNewKeeps, AcquireWaitKeeps DEF Acquire
<1>2. CASE Wait(o)
  BY <1>2, TakeKeeps, LeaveKeeps, ForgoKeeps DEF Wait
<1>3. CASE Login(o)
  BY <1>3, LeaseKeeps, LeaseFailKeeps, LoggedInKeeps, LoginFailKeeps DEF Login
<1>4. CASE Run(o)
  BY <1>4, CallKeeps, CallReturnsKeeps, CallFails, ReadPageKeeps, CloseCursorKeeps DEF Run
<1>5. CASE Release(o)
  BY <1>5, AskUsableKeeps, ReleaseBrokenKeeps, ReleaseToWaiterKeeps, ReleaseIdleKeeps, ReturnKeeps DEF Release
<1>6. CASE Cancel(o)
  BY <1>6, CancelKeeps
<1>7. CASE Writer(o)
  BY <1>7, WriterKeeps, CollectKeeps DEF Writer
<1> QED
  BY <1>1, <1>2, <1>3, <1>4, <1>5, <1>6, <1>7

\* The session's slots, instances and holds are accounted for after every step of its
\* operations, timers and writers (session.go) and of its removal (dbdriver.go).
THEOREM Invariance == Spec => []IInv
<1>1. Init => IInv
  BY InitHolds
<1>2. IInv /\ [Next]_vars => IInv'
  <2> SUFFICES ASSUME IInv, [Next]_vars PROVE IInv'
    OBVIOUS
  <2>1. ASSUME NEW o \in Op, Acquire(o) \/ Wait(o) \/ Login(o) \/ Run(o) \/ Release(o) \/ Cancel(o) \/ Writer(o)
        PROVE  IInv'
    BY <2>1, OpStepKeeps
  <2>2. ASSUME NEW i \in Inst, Reap(i) \/ ReapLate(i) \/ Retire(i) PROVE IInv'
    <3>1. CASE Reap(i)
      BY <3>1, ReapKeeps
    <3>2. CASE ReapLate(i)
      BY <3>2, TimerRuns DEF ReapLate
    <3>3. CASE Retire(i)
      BY <3>3, RetireKeeps
    <3> QED
      BY <2>2, <3>1, <3>2, <3>3
  <2>3. CASE EndDriver \/ CloseDrivers
    BY <2>3, LifeKeeps
  <2>4. CASE CloseSession
    BY <2>4, CloseKeeps
  <2>5. CASE UNCHANGED vars
    BY <2>5 DEF vars, IInv, TypeOK, OpInv, QueueInv, NobodyWaitsInVain, IdleInv, OwnInv, UpInv, RefsInv, WriterInv, SlotInv
  <2> QED
    BY <2>1, <2>2, <2>3, <2>4, <2>5 DEF Next
<1> QED
  BY <1>1, <1>2, PTL DEF Spec

\* Every variable keeps the shape of the structs of session.go.
THEOREM TypeCorrect == Spec => []TypeOK
<1>1. IInv => TypeOK
  BY DEF IInv
<1> QED
  BY <1>1, Invariance, PTL

\* acquire queues only when the session is full: nobody waits while an instance is idle
\* or one more may be logged in, whatever is forgone, fails, breaks, is reaped or closed.
THEOREM WaitsOnlyWhenFull == Spec => []NobodyWaitsInVain
<1>1. IInv => NobodyWaitsInVain
  BY DEF IInv
<1> QED
  BY <1>1, Invariance, PTL

\* What the operations are said to hold is what they hold.
LEMMA HoldingIs ==
  ASSUME NEW o \in Op
  PROVE  (Holding(o) <=> Holds(op[o])) /\ (Owns(op[o]) => Holding(o))
BY DEF Holding, Holds, Owns

\* At most one thing is in a set.
LEMMA AtMostOne ==
  ASSUME NEW S, IsFiniteSet(S), \A x, y \in S : x = y
  PROVE  Cardinality(S) \in {0, 1} /\ (Cardinality(S) = 1 => S # {})
<1>1. CASE S = {}
  BY <1>1, FS_EmptySet
<1>2. CASE S # {}
  <2>1. PICK x : S = {x}
    BY <1>2
  <2> QED
    BY <2>1, FS_Singleton
<1> QED
  BY <1>1, <1>2

\* An operation that holds a slot and has an instance owns the instance, and nobody else.
LEMMA HolderOwns ==
  ASSUME IInv, NEW i \in Inst, NEW o \in Op, Holding(o), op[o].inst = i
  PROVE  Owns(op[o]) /\ inst[i].stage \in {"opening", "up"} /\ \A n \in 1 .. Len(idle) : idle[n] # i
<1>1. Fits(op[o])
  BY DEF IInv, OpInv
<1>2. op[o].inst # NoInst
  BY SessionConstants
<1>3. Owns(op[o])
  BY <1>1, <1>2 DEF Fits, Holding
<1>4. /\ inst[i].stage = OwnStage(op[o])
      /\ \A n \in 1 .. Len(idle) : idle[n] # i
  BY <1>3 DEF IInv, OwnInv
<1> QED
  BY <1>3, <1>4 DEF OwnStage

\* No two operations that hold a slot have the same instance.
LEMMA HoldersDiffer ==
  ASSUME IInv, NEW i \in Inst, NEW S, S = {o \in Op : Holding(o) /\ op[o].inst = i}
  PROVE  Cardinality(S) \in {0, 1} /\ (Cardinality(S) = 1 => S # {})
<1>1. IsFiniteSet(S)
  BY FS_Subset, SessionConstants
<1>2. ASSUME NEW o \in S, NEW p \in S PROVE o = p
  <2>1. o \in Op /\ p \in Op /\ Holding(o) /\ Holding(p) /\ op[o].inst = i /\ op[p].inst = i
    OBVIOUS
  <2>2. Owns(op[o]) /\ Owns(op[p])
    BY <2>1, HolderOwns
  <2> QED
    BY <2>1, <2>2 DEF IInv, OwnInv
<1> QED
  BY <1>1, <1>2, AtMostOne

\* An instance is idle once at most.
LEMMA IdleOnce ==
  ASSUME IInv, NEW i \in Inst, NEW S, S = {n \in DOMAIN idle : idle[n] = i}
  PROVE  Cardinality(S) \in {0, 1} /\ (Cardinality(S) = 1 => S # {})
<1>1. idle \in Seq(Inst) /\ Distinct(idle)
  BY DEF IInv, TypeOK, IdleInv
<1>2. Len(idle) \in Nat /\ DOMAIN idle = 1 .. Len(idle)
  BY <1>1
<1>3. IsFiniteSet(1 .. Len(idle))
  BY <1>2, FS_Interval
<1>4. IsFiniteSet(S)
  BY <1>2, <1>3, FS_Subset
<1>5. \A m, n \in S : m = n
  BY <1>1, <1>2 DEF Distinct
<1> QED
  BY <1>4, <1>5, AtMostOne

\* s.live is what is idle, held, granted or logging in, never more than the session may
\* run; and an instance is idle, some operation's or being retired, never two of these
\* (acquire, forgo, release, reap and Close of session.go).
THEOREM SlotsExact == Spec => []SlotsAccounted
<1>1. IInv => SlotsAccounted
  <2> SUFFICES ASSUME IInv PROVE SlotsAccounted
    OBVIOUS
  <2>1. TypeOK /\ SlotInv /\ IdleInv
    BY DEF IInv
  <2>2. {o \in Op : Holding(o)} = Holders(op)
    BY HoldingIs DEF Holders
  <2>3. live = Len(idle) + Cardinality({o \in Op : Holding(o)}) /\ live <= MaxInst
    <3>1. live = Len(idle) + Cardinality({o \in Op : Holding(o)})
      BY <2>1, <2>2 DEF SlotInv
    <3>2. live \in 0 .. MaxInst /\ MaxInst \in Nat
      BY <2>1, SessionConstants DEF TypeOK
    <3> QED
      BY <3>1, <3>2
  <2>4. ASSUME NEW i \in Inst
        PROVE  Cardinality({o \in Op : Holding(o) /\ op[o].inst = i})
                 + Cardinality({n \in DOMAIN idle : idle[n] = i})
                 + (IF inst[i].stage \in {"retire", "closing"} THEN 1 ELSE 0) <= 1
    <3>1. PICK A : A = {o \in Op : Holding(o) /\ op[o].inst = i}
      OBVIOUS
    <3>2. PICK B : B = {n \in DOMAIN idle : idle[n] = i}
      OBVIOUS
    <3>3. Cardinality(A) \in {0, 1} /\ (Cardinality(A) = 1 => A # {})
      BY <3>1, HoldersDiffer
    <3>4. Cardinality(B) \in {0, 1} /\ (Cardinality(B) = 1 => B # {})
      BY <3>2, IdleOnce
    <3>5. A # {} => B = {} /\ inst[i].stage \notin {"retire", "closing"}
      <4>1. DOMAIN idle = 1 .. Len(idle)
        BY <2>1 DEF TypeOK
      <4> QED
        BY <3>1, <3>2, <4>1, HolderOwns
    <3>6. B # {} => inst[i].stage \notin {"retire", "closing"}
      <4>1. DOMAIN idle = 1 .. Len(idle)
        BY <2>1 DEF TypeOK
      <4> QED
        BY <2>1, <3>2, <4>1 DEF IdleInv
    <3>7. Cardinality(A) + Cardinality(B) + (IF inst[i].stage \in {"retire", "closing"} THEN 1 ELSE 0) <= 1
      <4>1. CASE A # {}
        <5>1. Cardinality(B) = 0
          BY <3>4, <3>5, <4>1
        <5> QED
          BY <3>3, <3>5, <4>1, <5>1
      <4>2. CASE A = {}
        <5>1. Cardinality(A) = 0
          BY <3>3, <4>2
        <5> QED
          BY <3>4, <3>6, <5>1
      <4> QED
        BY <4>1, <4>2
    <3> QED
      BY <3>1, <3>2, <3>7
  <2> QED
    BY <2>3, <2>4 DEF SlotsAccounted
<1> QED
  BY <1>1, Invariance, PTL

\* An instance's module is open as long as the session or one of its writers uses it, and
\* drop has closed it once nobody does.
THEOREM OpenWhileInUse == Spec => []OpenWhileUsed
<1>1. IInv => OpenWhileUsed
  <2> SUFFICES ASSUME IInv, NEW i \in Inst, inst[i].stage # "unused"
               PROVE  inst[i].refs > 0 <=>
                        \/ i \in Range(idle)
                        \/ \E o \in Op : Holding(o) /\ op[o].inst = i
                        \/ inst[i].stage \in {"retire", "closing"}
                        \/ \E o \in Op : writer[o].inst = i
    BY DEF OpenWhileUsed
  <2>1. /\ inst[i].stage \in {"unused", "opening", "up", "retire", "closing", "gone"}
        /\ DOMAIN idle = 1 .. Len(idle)
    BY DEF IInv, TypeOK, InstState
  <2>2. inst[i].refs = Base(inst[i]) + Cardinality(WritersOf(writer, i))
    BY DEF IInv, RefsInv
  <2>3. IsFiniteSet(WritersOf(writer, i))
    BY FS_Subset, SessionConstants DEF WritersOf
  <2>4. /\ Cardinality(WritersOf(writer, i)) \in Nat
        /\ Cardinality(WritersOf(writer, i)) = 0 <=> WritersOf(writer, i) = {}
    BY <2>3, FS_CardinalityType, FS_EmptySet
  <2>5. (\E o \in Op : writer[o].inst = i) <=> WritersOf(writer, i) # {}
    BY DEF WritersOf
  <2>6. Base(inst[i]) = (IF inst[i].stage # "gone" THEN 1 ELSE 0)
    BY <2>1 DEF Base
  <2>7. inst[i].refs > 0 <=> inst[i].stage # "gone" \/ \E o \in Op : writer[o].inst = i
    BY <2>2, <2>4, <2>5, <2>6
  <2>8. i \in Range(idle) <=> \E n \in 1 .. Len(idle) : idle[n] = i
    BY <2>1 DEF Range
  <2>9. i \in Range(idle) => inst[i].stage = "up"
    BY <2>8 DEF IInv, IdleInv
  <2>10. (\E o \in Op : Holding(o) /\ op[o].inst = i) => inst[i].stage \in {"opening", "up"}
    BY HolderOwns
  <2>11. inst[i].stage \in {"opening", "up"} =>
           i \in Range(idle) \/ \E o \in Op : Holding(o) /\ op[o].inst = i
    BY <2>8, HoldingIs DEF IInv, UpInv
  <2> QED
    BY <2>1, <2>7, <2>9, <2>10, <2>11
<1> QED
  BY <1>1, Invariance, PTL
=============================================================================

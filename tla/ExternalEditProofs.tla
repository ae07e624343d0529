-------------------------- MODULE ExternalEditProofs --------------------------
(***************************************************************************)
(* Proofs about external editing, for any contents and any number of jobs. *)
(***************************************************************************)
EXTENDS ExternalEdit, FiniteSetTheorems, TLAPS

-----------------------------------------------------------------------------
(* The inductive invariant *)

\* The jobs that have the document's runner.
Holding(x) == x.kind \in Calls \cup {"auto"} /\ x.pc \notin {"timer", "fired", "queue", "after"}

\* What kind of job gets where, and what it has read by then.
Fits(x) ==
  /\ x.kind = "none" <=> x.pc = "idle"
  /\ x.kind = "reconcile" => x.pc \in {"timer", "fired", "apply", "plan"}
  /\ x.kind = "check" => x.pc \in {"fired", "look"}
  /\ x.kind = "auto" => x.pc \notin {"apply", "plan"}
  /\ x.kind \in Calls => x.pc \notin {"timer", "fired", "after", "apply", "plan"}
  /\ x.pc \in {"apply", "plan", "type", "final", "look", "write", "mark", "swap", "rebuild"} => x.text \in Text
  /\ x.kind = "auto" /\ x.pc \in {"timer", "fired"} => x.text \in Text
  /\ x.kind \in {"text", "merge"} /\ x.pc \in {"queue", "type", "check", "final"} => x.text \in Text

\* What a job that holds the runner has made sure of still is so, or it is late.
Sound(x) ==
  /\ x.kind \in Saves \ {"merge"} /\ x.pc = "look" => x.base = sess.base
  /\ x.kind \in Plain /\ x.pc = "write" /\ ~x.late => remote \in agreed
  /\ x.kind = "recreate" /\ x.pc = "write" /\ ~x.late => remote \in agreed \cup {Gone}
  /\ x.kind = "merge" /\ x.pc \in {"final", "begin", "look", "write"} /\ ~x.late => remote = x.base

JobInv == \A j \in Job : Fits(job[j]) /\ (Holding(job[j]) => runner = j) /\ Sound(job[j])

\* A timer on a map is of the map's kind; a process that is down has no jobs.
TimerInv ==
  /\ filed # NoJob => job[filed].kind = "auto" /\ job[filed].pc \in {"timer", "fired"}
  /\ settle # NoJob => job[settle].kind = "reconcile"
  /\ life = "down" => \A j \in Job : job[j] = Idle

\* In a restored session nobody uploads or is about to file an upload.
Restored(x) == x.kind # "auto" /\ (x.kind = "reconcile" /\ x.pc = "plan" => ~x.dirty)

RestoredInv == sess.mode = "manual_restored" => \A j \in Job : Restored(job[j])

\* The inductive invariant behind external editing.
IInv == TypeOK /\ CloseWaits /\ JobInv /\ TimerInv /\ RestoredInv /\ sess.base \in agreed

-----------------------------------------------------------------------------
(* Jobs *)

Pc == {"idle", "timer", "fired", "apply", "plan", "queue", "type", "check", "final", "begin", "look",
       "write", "mark", "resume", "fetch", "swap", "rebuild", "after"}

\* A job that has just been made.
LEMMA NewJob ==
  ASSUME NEW kind \in Tracked \cup Calls \cup {"none"}, NEW pc \in Pc,
         NEW text \in Text \cup {None}, NEW base \in Text \cup {None}, NEW x,
         x = [kind |-> kind, pc |-> pc, text |-> text, base |-> base, dirty |-> FALSE, late |-> FALSE]
  PROVE  x \in JobState /\ x.kind = kind /\ x.pc = pc /\ x.text = text /\ x.base = base /\ ~x.late
<1>1. \A b \in BOOLEAN : [kind |-> kind, pc |-> pc, text |-> text, base |-> base, dirty |-> b, late |-> b] \in JobState
  BY DEF JobState, Pc
<1>2. x \in JobState
  BY <1>1, Zenon
<1> QED
  BY <1>2

\* The job that does not exist.
LEMMA IdleIs == Idle \in JobState /\ Idle.kind = "none" /\ Idle.pc = "idle" /\ Fits(Idle) /\ ~Holding(Idle)
<1>1. \A b \in BOOLEAN :
        [kind |-> "none", pc |-> "idle", text |-> None, base |-> None, dirty |-> b, late |-> b] \in JobState
  BY DEF JobState
<1>2. Idle \in JobState
  BY <1>1, Zenon DEF Idle
<1>3. Idle.kind = "none" /\ Idle.pc = "idle"
  BY DEF Idle
<1> QED
  BY <1>2, <1>3 DEF Fits, Holding, Calls, Saves, Plain, Forced

\* A job that goes on changes only its own state, but for the timer it stops.
LEMMA BecomeIs ==
  ASSUME IInv, NEW j \in Job, NEW x \in JobState, NEW t \in {NoJob, filed}, t # j, Become(j, x, t),
         x.kind \in Tracked => job[j].kind \in Tracked
  PROVE  /\ job' \in [Job -> JobState] /\ job'[j] = x
         /\ \A i \in Job \ {j} : i # t => job'[i] = job[i]
         /\ \A i \in Job \ {j} : job'[i] = job[i] \/ job'[i] = Idle
         /\ settle' \in Job \cup {NoJob}
         /\ settle' # NoJob => job'[settle'].kind = "reconcile"
         /\ bg' \in Nat /\ bg' = Cardinality({i \in Job : job'[i].kind \in Tracked})
<1>1. /\ TypeOK /\ NoJob \notin Job /\ IsFiniteSet(Job) /\ t \in Job \cup {NoJob}
      /\ \A i \in Job : job[i] \in JobState /\ Fits(job[i])
      /\ t # NoJob => job[t].kind = "auto"
  BY EditConstants DEF IInv, TypeOK, JobInv, TimerInv
<1>2. PICK b \in BOOLEAN : b <=> (t # NoJob /\ job[t].pc = "timer")
  OBVIOUS
<1>3. PICK f : f = [job EXCEPT ![j] = x]
  OBVIOUS
<1>4. f \in [Job -> JobState] /\ f[j] = x /\ \A i \in Job : i # j => f[i] = job[i]
  BY <1>1, <1>3 DEF TypeOK
<1>5. job' = IF b THEN [f EXCEPT ![t] = Idle] ELSE f
  <2>1. job' = Stopped(f, t)
    BY <1>3 DEF Become
  <2> QED
    BY <1>1, <1>2, <1>4, <2>1 DEF Stopped
<1>6. /\ job' \in [Job -> JobState] /\ job'[j] = x
      /\ \A i \in Job : i # j /\ i # t => job'[i] = job[i]
      /\ b => t \in Job /\ job'[t] = Idle
      /\ ~b => \A i \in Job : i # j => job'[i] = job[i]
  BY <1>1, <1>2, <1>4, <1>5, IdleIs
<1>7. settle' \in Job \cup {NoJob} /\ (settle' # NoJob => job'[settle'].kind = "reconcile")
  <2>1. settle' = IF settle = j /\ x.kind # "reconcile" THEN NoJob ELSE settle
    BY DEF Become
  <2>2. settle \in Job \cup {NoJob} /\ (settle # NoJob => job[settle].kind = "reconcile")
    BY DEF IInv, TypeOK, TimerInv
  <2> QED
    BY <1>1, <1>6, <2>1, <2>2
<1>8. bg' \in Nat /\ bg' = Cardinality({i \in Job : job'[i].kind \in Tracked})
  <2> DEFINE T == {i \in Job : job[i].kind \in Tracked}
             U == {i \in Job : job'[i].kind \in Tracked}
  <2>1. IsFiniteSet(T) /\ bg = Cardinality(T) /\ IsFiniteSet(U)
    BY <1>1, FS_Subset DEF IInv, CloseWaits
  <2>2. PICK d \in BOOLEAN : d <=> (job[j].kind \in Tracked /\ x.kind \notin Tracked)
    OBVIOUS
  <2>3. PICK A : A = IF d THEN T \ {j} ELSE T
    OBVIOUS
  <2>4. IsFiniteSet(A) /\ Cardinality(A) = bg - (IF d THEN 1 ELSE 0)
    <3>1. d => j \in T
      BY <2>2
    <3>2. IsFiniteSet(T \ {j}) /\ (j \in T => Cardinality(T \ {j}) = Cardinality(T) - 1)
      BY <2>1, FS_RemoveElement
    <3> HIDE DEF T
    <3>3. CASE d
      BY <2>1, <2>3, <3>1, <3>2, <3>3
    <3>4. CASE ~d
      <4>1. Cardinality(A) = bg /\ bg \in Nat /\ IsFiniteSet(A)
        BY <1>1, <2>1, <2>3, <3>4 DEF TypeOK
      <4> QED
        BY <3>4, <4>1
    <3> QED
      BY <3>3, <3>4
  <2>5. b => t \in A
    <3>1. b => t \in Job /\ job[t].kind \in Tracked
      BY <1>1, <1>2 DEF Tracked
    <3> QED
      BY <2>3, <3>1
  <2>6. U = IF b THEN A \ {t} ELSE A
    <3>1. \A i \in Job : i # j /\ i # t => (i \in U <=> i \in A)
      BY <1>6, <2>3
    <3>2. j \in U <=> j \in A
      BY <1>6, <2>2, <2>3
    <3>3. b => t \notin U
      BY <1>6, IdleIs DEF Tracked
    <3>4. ~b => \A i \in Job : i # j => (i \in U <=> i \in A)
      BY <1>6, <2>3
    <3>5. A \subseteq Job /\ U \subseteq Job
      BY <2>3
    <3> HIDE DEF U
    <3> QED
      BY <3>1, <3>2, <3>3, <3>4, <3>5
  <2>7. Cardinality(U) = Cardinality(A) - (IF b THEN 1 ELSE 0)
    <3>1. IsFiniteSet(A \ {t}) /\ (t \in A => Cardinality(A \ {t}) = Cardinality(A) - 1)
      BY <2>4, FS_RemoveElement
    <3> HIDE DEF U
    <3>2. Cardinality(A) \in Nat
      BY <2>4, FS_CardinalityType
    <3>3. CASE b
      BY <2>5, <2>6, <3>1, <3>3
    <3>4. CASE ~b
      BY <2>6, <3>2, <3>4
    <3> QED
      BY <3>3, <3>4
  <2>8. bg' = bg - (IF b THEN 1 ELSE 0) - (IF d THEN 1 ELSE 0)
    BY <1>2, <2>2 DEF Become, StopDone
  <2>9. Cardinality(U) \in Nat
    BY <2>1, FS_CardinalityType
  <2> HIDE DEF U
  <2>10. bg' = Cardinality(U)
    <3>1. bg \in Nat
      BY <1>1 DEF TypeOK
    <3> QED
      BY <2>4, <2>7, <2>8, <3>1
  <2> QED
    BY <2>9, <2>10 DEF U
<1> QED
  BY <1>6, <1>7, <1>8

\* Only a job that holds the runner has made sure of anything.
LEMMA FreeIsSound ==
  ASSUME NEW x \in JobState, Fits(x), ~Holding(x)
  PROVE  Sound(x) /\ Sound(x)'
<1>1. x.kind \in Saves => x.pc \notin {"final", "begin", "look", "write"}
  BY DEF Holding, Calls, Saves, Plain, Forced
<1>2. x.kind = "merge" \/ x.kind = "recreate" \/ x.kind \in Plain => x.kind \in Saves
  BY DEF Saves, Plain, Forced
<1> QED
  BY <1>1, <1>2 DEF Sound

\* A step of one job keeps the invariant when the job itself stays in order: the others
\* do not hold the runner, or what they rely on does not change.
LEMMA StepKeeps ==
  ASSUME IInv, NEW j \in Job, NEW x \in JobState, NEW t \in {NoJob, filed}, t # j, Become(j, x, t),
         job[j].kind # "none", x.kind \in Tracked => job[j].kind \in Tracked,
         Fits(x), Holding(x) => runner' = j, Sound(x)',
         runner' = runner \/ (runner \in {j, NoJob} /\ runner' \in Job \cup {NoJob}),
         Holding(job[j]) \/ (remote' = remote /\ agreed' = agreed /\ sess'.base = sess.base),
         remote' \in Text \cup {Gone}, local' \in Text, agreed' \subseteq Text, event' \in BOOLEAN,
         paused' \in BOOLEAN, tried' \in Text \cup {None}, shown' \in Text \cup {None},
         sess' \in Session, sess'.base \in agreed', life' = life,
         sess'.mode = "manual_restored" => sess.mode = "manual_restored" /\ Restored(x),
         \/ filed' = NoJob
         \/ filed' = j /\ x.kind = "auto" /\ x.pc \in {"timer", "fired"}
         \/ filed' = filed /\ t = NoJob /\ ~(job[j].kind = "auto" /\ job[j].pc \in {"timer", "fired"})
         \/ filed' = filed /\ t = NoJob /\ filed # j
  PROVE  IInv'
<1>1. /\ job' \in [Job -> JobState] /\ job'[j] = x
      /\ \A i \in Job \ {j} : i # t => job'[i] = job[i]
      /\ \A i \in Job \ {j} : job'[i] = job[i] \/ job'[i] = Idle
      /\ settle' \in Job \cup {NoJob}
      /\ settle' # NoJob => job'[settle'].kind = "reconcile"
      /\ bg' \in Nat /\ bg' = Cardinality({i \in Job : job'[i].kind \in Tracked})
  BY BecomeIs
<1>2. TypeOK /\ NoJob \notin Job /\ \A i \in Job : job[i] \in JobState /\ Fits(job[i]) /\ (Holding(job[i]) => runner = i)
  BY EditConstants DEF IInv, TypeOK, JobInv
<1>3. filed' \in Job \cup {NoJob} /\ (filed' # NoJob => job'[filed'].kind = "auto" /\ job'[filed'].pc \in {"timer", "fired"})
  <2>1. filed \in Job \cup {NoJob} /\ (filed # NoJob => job[filed].kind = "auto" /\ job[filed].pc \in {"timer", "fired"})
    BY <1>2 DEF IInv, TypeOK, TimerInv
  <2>2. CASE filed' = filed /\ t = NoJob /\ filed # j
    BY <1>1, <1>2, <2>1, <2>2
  <2>3. CASE filed' = NoJob \/ (filed' = j /\ x.kind = "auto" /\ x.pc \in {"timer", "fired"})
    BY <1>1, <2>3
  <2> QED
    BY <2>1, <2>2, <2>3
<1>4. TypeOK'
  BY <1>1, <1>2, <1>3 DEF TypeOK
<1>5. CloseWaits'
  <2>1. life = "closed" => \A i \in Job : job'[i].kind \notin Tracked
    BY <1>1, IdleIs DEF IInv, CloseWaits, Tracked
  <2> QED
    BY <1>1, <2>1 DEF CloseWaits
<1>6. TimerInv'
  <2>1. life # "down"
    BY IdleIs DEF IInv, TimerInv
  <2> QED
    BY <1>1, <1>3, <2>1 DEF TimerInv
<1>7. JobInv'
  <2>1. ASSUME NEW i \in Job, NEW y, y = job'[i], i # j
        PROVE  y \in JobState /\ Fits(y) /\ (Holding(y) => runner' = i) /\ Sound(y)'
    <3>1. CASE ~Holding(y)
      <4>1. y \in JobState /\ Fits(y)
        BY <1>1, <1>2, <2>1, IdleIs
      <4> QED
        BY <3>1, <4>1, FreeIsSound
    <3>2. CASE Holding(y)
      <4>1. y = job[i]
        BY <1>1, <2>1, <3>2, IdleIs
      <4>2. runner = i /\ ~Holding(job[j]) /\ runner' = i
        BY <1>2, <2>1, <3>2, <4>1
      <4>3. Sound(y)
        BY <4>1 DEF IInv, JobInv
      <4>4. remote' = remote /\ agreed' = agreed /\ sess'.base = sess.base
        BY <4>2
      <4>5. Sound(y)'
        BY <4>3, <4>4 DEF Sound
      <4> QED
        BY <1>2, <4>1, <4>2, <4>5
    <3> QED
      BY <3>1, <3>2
  <2>2. ASSUME NEW i \in Job
        PROVE  Fits(job'[i]) /\ (Holding(job'[i]) => runner' = i) /\ Sound(job[i])'
    <3>1. PICK y : y = job'[i]
      OBVIOUS
    <3>2. Fits(y) /\ (Holding(y) => runner' = i) /\ Sound(y)'
      BY <1>1, <2>1, <3>1
    <3> QED
      BY <3>1, <3>2 DEF Sound
  <2> QED
    BY <2>2 DEF JobInv, Fits, Holding
<1>8. RestoredInv'
  <2>1. sess'.mode = "manual_restored" => \A i \in Job : Restored(job'[i])
    <3> SUFFICES ASSUME sess'.mode = "manual_restored", NEW i \in Job
                 PROVE  Restored(job'[i])
      OBVIOUS
    <3>1. Restored(x) /\ Restored(job[i]) /\ Restored(Idle)
      BY IdleIs DEF IInv, RestoredInv, Restored
    <3> QED
      BY <1>1, <3>1
  <2> QED
    BY <2>1 DEF RestoredInv, Restored
<1> QED
  BY <1>4, <1>5, <1>6, <1>7, <1>8 DEF IInv

\* What is known of a job that does something.
LEMMA JobIs ==
  ASSUME IInv, NEW j \in Job
  PROVE  /\ job[j] \in JobState /\ Fits(job[j]) /\ (Holding(job[j]) => runner = j) /\ Sound(job[j]) /\ j # NoJob
         /\ sess.mode = "manual_restored" => Restored(job[j])
         /\ filed = j => job[j].kind = "auto" /\ job[j].pc \in {"timer", "fired"}
         /\ TypeOK /\ sess.base \in agreed
BY EditConstants DEF IInv, TypeOK, JobInv, TimerInv, RestoredInv

\* A session that starts over from a content.
LEMMA RenewedIs ==
  ASSUME NEW text \in Text, NEW editor \in {"external", "built_in"}, NEW e, e = NewSession(text, editor)
  PROVE  /\ e \in Session /\ e.base = text /\ e.mode \in {"manual_explicit", "auto_live"} /\ e.state = "clean"
         /\ \A mode \in {"auto_live", "manual_explicit", "manual_restored"} :
              \A f : f = [e EXCEPT !.mode = mode] => f \in Session /\ f.base = text /\ f.mode = mode /\ f.state = "clean"
<1>1. PICK mode \in {"manual_explicit", "auto_live"} : mode = saveModeForEditor(editor)
  BY DEF saveModeForEditor
<1>2. e = [base |-> text, seen |-> text, dirty |-> FALSE, state |-> "clean", editor |-> editor, mode |-> mode, merge |-> None]
  BY <1>1 DEF NewSession
<1>3. \A b \in BOOLEAN :
        [base |-> text, seen |-> text, dirty |-> b, state |-> "clean", editor |-> editor, mode |-> mode, merge |-> None] \in Session
  BY DEF Session
<1>4. e \in Session
  BY <1>2, <1>3, Zenon
<1>5. e.base = text /\ e.mode = mode /\ e.state = "clean"
  BY <1>2
<1>6. ASSUME NEW m \in {"auto_live", "manual_explicit", "manual_restored"}, NEW f, f = [e EXCEPT !.mode = m]
      PROVE  f \in Session /\ f.base = text /\ f.mode = m /\ f.state = "clean"
  <2>1. f \in Session
    BY <1>4, <1>6 DEF Session
  <2> QED
    BY <1>4, <1>5, <1>6, <2>1 DEF Session
<1> QED
  BY <1>4, <1>5, <1>6

\* A job that ends, or that has an automatic save to pause.
LEMMA LeaveKeeps ==
  ASSUME IInv, NEW j \in Job, job[j].kind # "none", NEW bad \in BOOLEAN, NEW t \in {NoJob, filed},
         Leave(j, t, bad) \/ (Become(j, Idle, t) /\ ~Holding(job[j]) /\ runner' = runner),
         (filed' = NoJob /\ t = NoJob) \/ ~(job[j].kind = "auto" /\ job[j].pc \in {"timer", "fired"}),
         filed' = NoJob \/ (filed' = filed /\ t = NoJob),
         remote' = remote, local' = local, event' = event, life' = life,
         agreed' \subseteq Text, paused' \in BOOLEAN, tried' \in Text \cup {None}, shown' \in Text \cup {None},
         Holding(job[j]) \/ (agreed' = agreed /\ sess'.base = sess.base),
         sess' \in Session, sess'.base \in agreed',
         sess'.mode = "manual_restored" => sess.mode = "manual_restored"
  PROVE  IInv'
<1>1. /\ job[j] \in JobState /\ Fits(job[j]) /\ (Holding(job[j]) => runner = j) /\ j # NoJob
      /\ sess.mode = "manual_restored" => Restored(job[j])
      /\ filed = j => job[j].kind = "auto" /\ job[j].pc \in {"timer", "fired"}
      /\ TypeOK
  BY JobIs
<1>2. PICK x : /\ Become(j, x, t)
               /\ x = Idle \/ (job[j].kind = "auto" /\ x = [Idle EXCEPT !.kind = "auto", !.pc = "after"])
  BY DEF Leave
<1>3. x \in JobState /\ Fits(x) /\ ~Holding(x) /\ (x.kind = "none" \/ (x.kind = "auto" /\ job[j].kind = "auto" /\ x.pc = "after"))
  <2>1. CASE x = Idle
    BY <2>1, IdleIs
  <2>2. CASE job[j].kind = "auto" /\ x = [Idle EXCEPT !.kind = "auto", !.pc = "after"]
    <3>1. "auto" \in Tracked \cup Calls \cup {"none"} /\ "after" \in Pc /\ None \in Text \cup {None}
      BY DEF Tracked, Pc
    <3>2. x = [kind |-> "auto", pc |-> "after", text |-> None, base |-> None, dirty |-> FALSE, late |-> FALSE]
      BY <2>2 DEF Idle
    <3>3. x \in JobState /\ x.kind = "auto" /\ x.pc = "after"
      BY <3>1, <3>2, NewJob
    <3> QED
      BY <2>2, <3>3 DEF Fits, Holding, Calls, Saves, Plain, Forced
  <2> QED
    BY <1>2, <2>1, <2>2
<1>4. Sound(x)'
  BY <1>3, FreeIsSound
<1>5. runner' = runner \/ (runner \in {j, NoJob} /\ runner' \in Job \cup {NoJob})
  BY DEF Leave
<1>6. t # j
  BY <1>1
<1>7. x.kind \in Tracked => job[j].kind \in Tracked
  BY <1>3 DEF Tracked
<1>8. sess'.mode = "manual_restored" => sess.mode = "manual_restored" /\ Restored(x)
  BY <1>1, <1>3 DEF Restored
<1>9. remote' \in Text \cup {Gone} /\ local' \in Text /\ event' \in BOOLEAN
  BY <1>1 DEF TypeOK
<1>10. \/ filed' = NoJob
       \/ filed' = filed /\ t = NoJob /\ ~(job[j].kind = "auto" /\ job[j].pc \in {"timer", "fired"})
  OBVIOUS
<1> QED
  BY <1>2, <1>3, <1>4, <1>5, <1>6, <1>7, <1>8, <1>9, <1>10, StepKeeps

\* A job that goes on and leaves the session and the files alone.
LEMMA MoveKeeps ==
  ASSUME IInv, NEW j \in Job, job[j].kind # "none", NEW x \in JobState, Become(j, x, NoJob), Fits(x), Sound(x)',
         x.kind = job[j].kind, Holding(x) => runner' = j,
         runner' = runner \/ (runner \in {j, NoJob} /\ runner' \in Job \cup {NoJob}),
         \/ filed' = NoJob
         \/ filed' = filed /\ ~(job[j].kind = "auto" /\ job[j].pc \in {"timer", "fired"})
         \/ filed' = filed /\ x.pc = "fired",
         sess.mode = "manual_restored" => Restored(x),
         UNCHANGED <<remote, local, event, agreed, sess, paused, life, shown>>, tried' \in Text \cup {None}
  PROVE  IInv'
<1>1. TypeOK /\ j # NoJob /\ sess.base \in agreed /\ (filed = j => job[j].kind = "auto" /\ job[j].pc \in {"timer", "fired"})
  BY JobIs
<1>2. \/ filed' = NoJob
      \/ filed' = j /\ x.kind = "auto" /\ x.pc \in {"timer", "fired"}
      \/ filed' = filed /\ ~(job[j].kind = "auto" /\ job[j].pc \in {"timer", "fired"})
      \/ filed' = filed /\ filed # j
  BY <1>1
<1>3. /\ remote' \in Text \cup {Gone} /\ local' \in Text /\ agreed' \subseteq Text /\ event' \in BOOLEAN
      /\ paused' \in BOOLEAN /\ shown' \in Text \cup {None} /\ sess' \in Session /\ sess'.base \in agreed'
  BY <1>1 DEF TypeOK
<1> QED
  BY <1>1, <1>2, <1>3, StepKeeps

\* A conflict or a missing file is marked.
LEMMA MarkClashKeeps ==
  ASSUME IInv, NEW j \in Job, job[j].kind # "none", ~(job[j].kind = "auto" /\ job[j].pc \in {"timer", "fired"}),
         NEW state \in Clash, NEW seen \in Text, MarkClash(j, state, seen), UNCHANGED <<files, life, shown>>
  PROVE  IInv'
<1>1. TypeOK /\ sess.base \in agreed
  BY JobIs
<1>2. PICK e : e = sess'
  OBVIOUS
<1>3. TRUE \in BOOLEAN /\ state \in {"clean", "dirty"} \cup Clash /\ sess \in Session
  BY <1>1 DEF TypeOK
<1>4. \A d \in BOOLEAN : [sess EXCEPT !.state = state, !.dirty = d, !.seen = seen] \in Session
  BY <1>3 DEF Session
<1>5. e = [sess EXCEPT !.state = state, !.dirty = TRUE, !.seen = seen]
  BY <1>2 DEF MarkClash
<1>6. e \in Session /\ e.base = sess.base /\ e.mode = sess.mode
  <2>1. e \in Session
    BY <1>3, <1>4, <1>5, Zenon
  <2> QED
    BY <1>3, <1>5, <2>1 DEF Session
<1>7. Leave(j, filed, TRUE) /\ filed' = NoJob /\ tried' = tried /\ paused' = TRUE
  BY DEF MarkClash, Pause
<1>8. /\ tried' \in Text \cup {None} /\ paused' \in BOOLEAN /\ shown' \in Text \cup {None} /\ agreed' \subseteq Text
      /\ agreed' = agreed /\ remote' = remote /\ local' = local /\ event' = event /\ life' = life
  BY <1>1, <1>7 DEF TypeOK, files
<1> QED
  BY <1>1, <1>2, <1>3, <1>6, <1>7, <1>8, LeaveKeeps

\* A job that only moves on.
LEMMA GoesIs ==
  ASSUME NEW y \in JobState, NEW pc \in Pc, NEW x, x = [y EXCEPT !.pc = pc]
  PROVE  /\ x \in JobState /\ x.pc = pc /\ x.kind = y.kind
         /\ x.text = y.text /\ x.base = y.base /\ x.dirty = y.dirty /\ x.late = y.late
<1>1. x \in JobState
  BY DEF JobState, Pc
<1> QED
  BY <1>1 DEF JobState, Pc

-----------------------------------------------------------------------------
(* Timers, the runner and the watcher *)

\* A timer fires.
LEMMA FireKeeps ==
  ASSUME IInv, NEW j \in Job, Fire(j)
  PROVE  IInv'
<1>1. PICK y \in JobState : y = job[j]
  BY JobIs
<1>2. /\ Fits(y) /\ (Holding(y) => runner = j) /\ TypeOK /\ y.pc = "timer"
      /\ sess.mode = "manual_restored" => Restored(y)
  BY <1>1, JobIs DEF Fire
<1>3. PICK x : x = [y EXCEPT !.pc = "fired"]
  OBVIOUS
<1>4. "fired" \in Pc
  BY DEF Pc
<1>5. /\ x \in JobState /\ x.pc = "fired" /\ x.kind = y.kind
      /\ x.text = y.text /\ x.base = y.base /\ x.dirty = y.dirty /\ x.late = y.late
  BY <1>3, <1>4, GoesIs
<1>6. Become(j, x, NoJob) /\ UNCHANGED <<remote, local, event, agreed, sess, paused, tried, filed, runner, life, shown>>
  BY <1>1, <1>3 DEF Fire, Goes, files, auto
<1>7. Fits(x) /\ ~Holding(x) /\ y.kind # "none"
  BY <1>2, <1>5 DEF Fits, Holding
<1>8. Sound(x)'
  BY <1>5, <1>7, FreeIsSound
<1>9. (sess.mode = "manual_restored" => Restored(x)) /\ tried' \in Text \cup {None}
  BY <1>2, <1>5, <1>6 DEF Restored, TypeOK
<1> QED
  BY <1>1, <1>5, <1>6, <1>7, <1>8, <1>9, MoveKeeps

\* withDocumentRunner: whoever gets the runner is the only one.
LEMMA AcquireKeeps ==
  ASSUME IInv, NEW j \in Job, Acquire(j)
  PROVE  IInv'
<1>1. PICK y \in JobState : y = job[j]
  BY JobIs
<1>2. /\ Fits(y) /\ TypeOK /\ y.pc = "queue" /\ runner = NoJob /\ j # NoJob
      /\ sess.mode = "manual_restored" => Restored(y)
  BY <1>1, JobIs DEF Acquire
<1>3. PICK pc \in Pc : pc = IF y.kind = "merge" THEN "check" ELSE IF y.kind = "text" THEN "type" ELSE "begin"
  BY DEF Pc
<1>4. PICK x : x = [y EXCEPT !.pc = pc]
  OBVIOUS
<1>5. /\ x \in JobState /\ x.pc = pc /\ x.kind = y.kind
      /\ x.text = y.text /\ x.base = y.base /\ x.dirty = y.dirty /\ x.late = y.late
  BY <1>4, GoesIs
<1>6. Become(j, x, NoJob) /\ runner' = j
      /\ UNCHANGED <<remote, local, event, agreed, sess, paused, tried, filed, life, shown>>
  BY <1>1, <1>3, <1>4 DEF Acquire, Goes, files, auto
<1>7. Fits(x) /\ y.kind # "none"
  BY <1>2, <1>3, <1>5 DEF Fits, Calls, Saves, Plain, Forced
<1>8. Sound(x)'
  BY <1>3, <1>5 DEF Sound, Plain
<1>9. (sess.mode = "manual_restored" => Restored(x)) /\ tried' \in Text \cup {None}
  BY <1>2, <1>3, <1>5, <1>6 DEF Restored, TypeOK
<1> QED
  BY <1>1, <1>2, <1>5, <1>6, <1>7, <1>8, <1>9, MoveKeeps

\* The timers, the attempt and the pause after a cancellation.
LEMMA CancelIs ==
  ASSUME TypeOK, Cancel
  PROVE  filed' = NoJob /\ paused' \in BOOLEAN /\ tried' \in Text \cup {None}
BY DEF Cancel, TypeOK

\* A reconcile that has nothing to say any more.
LEMMA ReconcileEnds ==
  ASSUME IInv, NEW j \in Job, job[j].kind = "reconcile",
         \/ Cancel /\ Become(j, Idle, filed)
         \/ UNCHANGED auto /\ Become(j, Idle, NoJob)
         \/ filed' = NoJob /\ UNCHANGED <<paused, tried>> /\ Become(j, Idle, filed),
         UNCHANGED <<files, sess, runner, life, shown>>
  PROVE  IInv'
<1>1. TypeOK /\ sess.base \in agreed /\ sess \in Session
  BY JobIs DEF TypeOK
<1>2. PICK t \in {NoJob, filed} : Become(j, Idle, t) /\ (filed' = NoJob \/ (filed' = filed /\ t = NoJob))
  BY <1>1, CancelIs DEF auto
<1>3. paused' \in BOOLEAN /\ tried' \in Text \cup {None}
  BY <1>1, CancelIs DEF auto, TypeOK
<1>4. ~Holding(job[j])
  BY DEF Holding, Calls, Saves, Plain, Forced
<1>5. /\ agreed' \subseteq Text /\ shown' \in Text \cup {None} /\ agreed' = agreed /\ sess' = sess
      /\ remote' = remote /\ local' = local /\ event' = event /\ life' = life /\ runner' = runner
  BY <1>1 DEF TypeOK, files
<1>6. TRUE \in BOOLEAN /\ job[j].kind # "none" /\ job[j].kind # "auto"
  OBVIOUS
<1> QED
  BY <1>1, <1>2, <1>3, <1>4, <1>5, <1>6, LeaveKeeps

\* A reconcile reads the copy.
LEMMA ReconcileReadKeeps ==
  ASSUME IInv, NEW j \in Job, ReconcileRead(j)
  PROVE  IInv'
<1>1. PICK y \in JobState : y = job[j]
  BY JobIs
<1>2. Fits(y) /\ TypeOK /\ y.pc = "fired" /\ y.kind = "reconcile" /\ sess.base \in Text /\ local \in Text
  BY <1>1, JobIs DEF ReconcileRead, At, TypeOK, Session
<1>3. CASE sess.state \in Clash
  BY <1>1, <1>2, <1>3, ReconcileEnds DEF ReconcileRead
<1>4. CASE sess.state \notin Clash
  <2>1. PICK x : x = [y EXCEPT !.pc = "apply", !.text = local, !.base = sess.base]
    OBVIOUS
  <2>2. x \in JobState
    BY <1>2, <2>1 DEF JobState
  <2>3. x.pc = "apply" /\ x.kind = "reconcile" /\ x.text = local
    BY <1>2, <2>1, <2>2 DEF JobState
  <2>4. Become(j, x, NoJob) /\ UNCHANGED <<remote, local, event, agreed, sess, paused, tried, filed, runner, life, shown>>
    BY <1>1, <1>4, <2>1 DEF ReconcileRead, files, auto
  <2>5. Fits(x) /\ ~Holding(x) /\ y.kind # "none" /\ Restored(x)
    BY <1>2, <2>3 DEF Fits, Holding, Restored, Calls, Saves, Plain, Forced
  <2>6. Sound(x)' /\ tried' \in Text \cup {None}
    BY <1>2, <2>2, <2>4, <2>5, FreeIsSound DEF TypeOK
  <2> QED
    BY <1>1, <1>2, <2>2, <2>3, <2>4, <2>5, <2>6, MoveKeeps
<1> QED
  BY <1>3, <1>4

\* ... and applies what it has read.
LEMMA ReconcileApplyKeeps ==
  ASSUME IInv, NEW j \in Job, ReconcileApply(j)
  PROVE  IInv'
<1>1. PICK y \in JobState : y = job[j]
  BY JobIs
<1>2. Fits(y) /\ TypeOK /\ y.pc = "apply" /\ y.kind = "reconcile" /\ y.text \in Text /\ sess \in Session /\ sess.base \in agreed
  BY <1>1, JobIs DEF ReconcileApply, At, TypeOK, Fits
<1>3. PICK dirty \in BOOLEAN : dirty <=> (y.text # y.base)
  OBVIOUS
<1>4. PICK state \in {"dirty", "clean"} : state = IF dirty THEN "dirty" ELSE "clean"
  OBVIOUS
<1>5. PICK next : next = [sess EXCEPT !.seen = y.text, !.dirty = dirty, !.state = state]
  OBVIOUS
<1>6. dirty = (y.text # y.base)
  BY <1>3
<1>7. next = [sess EXCEPT !.seen = y.text, !.dirty = y.text # y.base, !.state = IF y.text # y.base THEN "dirty" ELSE "clean"]
  BY <1>4, <1>5, <1>6
<1>8. next \in Session
  BY <1>2, <1>5 DEF Session
<1>9. next.base = sess.base /\ next.mode = sess.mode
  BY <1>2, <1>5, <1>8 DEF Session
<1>10. CASE sess' = sess /\ ((Cancel /\ Become(j, Idle, filed)) \/ (UNCHANGED auto /\ Become(j, Idle, NoJob)))
  BY <1>1, <1>2, <1>10, ReconcileEnds DEF ReconcileApply, files
<1>11. PICK b \in BOOLEAN : b = ((y.text # y.base) /\ sess.mode = "auto_live")
  OBVIOUS
<1>12. PICK x : x = [y EXCEPT !.pc = "plan", !.base = None, !.dirty = b]
  OBVIOUS
<1>13. CASE sess' = next /\ UNCHANGED auto /\ Become(j, x, NoJob)
  <2>3. x \in JobState
    BY <1>2, <1>12 DEF JobState
  <2>4. x.pc = "plan" /\ x.kind = "reconcile" /\ x.text = y.text /\ x.dirty = b
    BY <1>2, <1>12, <2>3 DEF JobState
  <2>5. Become(j, x, NoJob)
    BY <1>13
  <2>6. UNCHANGED <<remote, local, event, agreed, paused, tried, filed, runner, life, shown>>
    BY <1>13 DEF ReconcileApply, files, auto
  <2>7. Fits(x) /\ ~Holding(x)
    BY <1>2, <2>4 DEF Fits, Holding, Calls, Saves, Plain, Forced
  <2>8. Sound(x)'
    BY <2>3, <2>7, FreeIsSound
  <2>9. sess.mode = "manual_restored" => ~x.dirty
    BY <1>11, <2>4
  <2>10. sess'.mode = "manual_restored" => sess.mode = "manual_restored" /\ Restored(x)
    BY <1>9, <1>13, <2>4, <2>9 DEF Restored
  <2>11. /\ remote' \in Text \cup {Gone} /\ local' \in Text /\ agreed' \subseteq Text /\ event' \in BOOLEAN
         /\ paused' \in BOOLEAN /\ shown' \in Text \cup {None} /\ sess' \in Session /\ sess'.base \in agreed'
         /\ tried' \in Text \cup {None} /\ NoJob # j /\ sess'.base = sess.base
    BY <1>2, <1>8, <1>9, <1>13, <2>6, JobIs DEF TypeOK
  <2>12. x.kind \in Tracked => job[j].kind \in Tracked
    BY <1>1, <1>2, <2>4
  <2> QED
    BY <1>1, <1>2, <2>3, <2>4, <2>5, <2>6, <2>7, <2>8, <2>10, <2>11, <2>12, StepKeeps
<1> DEFINE N == [sess EXCEPT !.seen = job[j].text, !.dirty = job[j].text # job[j].base,
                            !.state = IF job[j].text # job[j].base THEN "dirty" ELSE "clean"]
           X == [job[j] EXCEPT !.pc = "plan", !.base = None,
                               !.dirty = (job[j].text # job[j].base) /\ sess.mode = "auto_live"]
<1>14. \/ Cancel /\ Become(j, Idle, filed) /\ sess' = sess
       \/ Become(j, Idle, NoJob) /\ sess' = sess /\ UNCHANGED auto
       \/ sess' = N /\ UNCHANGED auto /\ Become(j, X, NoJob)
  BY Zenon DEF ReconcileApply
<1>15. N = next
  BY <1>1, <1>7
<1>16. X = x
  BY <1>1, <1>11, <1>12
<1> HIDE DEF N, X
<1> QED
  BY <1>10, <1>13, <1>14, <1>15, <1>16

\* ... and plans an automatic save, which takes over the reconcile's job.
LEMMA ReconcilePlanKeeps ==
  ASSUME IInv, NEW j \in Job, ReconcilePlan(j)
  PROVE  IInv'
<1>1. PICK y \in JobState : y = job[j]
  BY JobIs
<1>2. /\ Fits(y) /\ TypeOK /\ y.pc = "plan" /\ y.kind = "reconcile" /\ y.text \in Text /\ sess \in Session /\ sess.base \in agreed
      /\ (sess.mode = "manual_restored" => Restored(y)) /\ j # NoJob /\ filed # j
  BY <1>1, JobIs DEF ReconcilePlan, At, TypeOK, Fits
<1>3. CASE \/ Cancel /\ Become(j, Idle, filed)
           \/ UNCHANGED auto /\ Become(j, Idle, NoJob)
           \/ filed' = NoJob /\ UNCHANGED <<paused, tried>> /\ Become(j, Idle, filed)
  BY <1>1, <1>2, <1>3, ReconcileEnds DEF ReconcilePlan
<1>4. CASE /\ y.dirty /\ filed' = j /\ UNCHANGED <<paused, tried>>
           /\ Become(j, [Idle EXCEPT !.kind = "auto", !.pc = "timer", !.text = y.text], filed)
  <2>1. PICK x : x = [Idle EXCEPT !.kind = "auto", !.pc = "timer", !.text = y.text]
    OBVIOUS
  <2>2. "auto" \in Tracked \cup Calls \cup {"none"} /\ "timer" \in Pc /\ None \in Text \cup {None} /\ y.text \in Text \cup {None}
    BY <1>2 DEF Tracked, Pc
  <2>3. x = [kind |-> "auto", pc |-> "timer", text |-> y.text, base |-> None, dirty |-> FALSE, late |-> FALSE]
    BY <2>1 DEF Idle
  <2>4. x \in JobState /\ x.kind = "auto" /\ x.pc = "timer" /\ x.text = y.text
    BY <2>2, <2>3, NewJob
  <2>5. Become(j, x, filed)
    BY <1>4, <2>1
  <2>6. UNCHANGED <<remote, local, event, agreed, sess, paused, tried, runner, life, shown>> /\ filed' = j
    BY <1>4 DEF ReconcilePlan, files
  <2>7. Fits(x) /\ ~Holding(x)
    BY <1>2, <2>4 DEF Fits, Holding, Calls, Saves, Plain, Forced
  <2>8. Sound(x)'
    BY <2>4, <2>7, FreeIsSound
  <2>9. sess'.mode # "manual_restored"
    BY <1>2, <1>4, <2>6 DEF Restored
  <2>10. /\ remote' \in Text \cup {Gone} /\ local' \in Text /\ agreed' \subseteq Text /\ event' \in BOOLEAN
         /\ paused' \in BOOLEAN /\ shown' \in Text \cup {None} /\ sess' \in Session /\ sess'.base \in agreed'
         /\ tried' \in Text \cup {None}
    BY <1>2, <2>6 DEF TypeOK
  <2>11. x.kind \in Tracked => job[j].kind \in Tracked
    BY <1>1, <1>2 DEF Tracked
  <2> QED
    BY <1>1, <1>2, <2>4, <2>5, <2>6, <2>7, <2>8, <2>9, <2>10, <2>11, StepKeeps
<1> QED
  BY <1>1, <1>3, <1>4 DEF ReconcilePlan

\* An automatic save begins or has nothing to do.
LEMMA RunAutoSaveKeeps ==
  ASSUME IInv, NEW j \in Job, RunAutoSave(j)
  PROVE  IInv'
<1>1. PICK y \in JobState : y = job[j]
  BY JobIs
<1>2. /\ Fits(y) /\ TypeOK /\ y.pc = "fired" /\ y.kind = "auto" /\ y.text \in Text /\ sess \in Session /\ sess.base \in agreed
      /\ (sess.mode = "manual_restored" => Restored(y)) /\ ~Holding(y)
  BY <1>1, JobIs DEF RunAutoSave, At, TypeOK, Fits, Holding
<1>3. /\ filed' = NoJob /\ UNCHANGED <<remote, local, event, agreed, sess, paused, runner, life, shown>>
  BY DEF RunAutoSave, files
<1>4. CASE Become(j, Idle, NoJob) /\ tried' = tried
  <2>1. /\ paused' \in BOOLEAN /\ tried' \in Text \cup {None} /\ shown' \in Text \cup {None} /\ agreed' \subseteq Text
        /\ TRUE \in BOOLEAN
    BY <1>2, <1>3, <1>4 DEF TypeOK
  <2> QED
    BY <1>1, <1>2, <1>3, <1>4, <2>1, LeaveKeeps
<1>5. CASE Become(j, [y EXCEPT !.pc = "queue", !.text = None], NoJob) /\ tried' = y.text
  <2>1. PICK x : x = [y EXCEPT !.pc = "queue", !.text = None]
    OBVIOUS
  <2>2. x \in JobState
    BY <2>1 DEF JobState
  <2>3. x.pc = "queue" /\ x.kind = "auto"
    BY <1>2, <2>1, <2>2 DEF JobState
  <2>4. Fits(x) /\ ~Holding(x)
    BY <2>3 DEF Fits, Holding, Calls, Saves, Plain, Forced
  <2>5. Sound(x)' /\ (sess.mode = "manual_restored" => Restored(x)) /\ tried' \in Text \cup {None}
    BY <1>2, <1>5, <2>2, <2>3, <2>4, FreeIsSound DEF Restored
  <2> QED
    BY <1>1, <1>2, <1>3, <1>5, <2>1, <2>2, <2>3, <2>4, <2>5, MoveKeeps
<1> QED
  BY <1>1, <1>4, <1>5 DEF RunAutoSave

\* An automatic save that failed or met a conflict pauses the rest.
LEMMA AutoSaveStopsKeeps ==
  ASSUME IInv, NEW j \in Job, AutoSaveStops(j)
  PROVE  IInv'
<1>1. /\ Fits(job[j]) /\ TypeOK /\ job[j].pc = "after" /\ sess \in Session /\ sess.base \in agreed /\ job[j] \in JobState
  BY JobIs DEF AutoSaveStops, TypeOK
<1>2. job[j].kind # "none" /\ ~Holding(job[j])
  BY <1>1 DEF Fits, Holding
<1>3. /\ filed' = NoJob /\ UNCHANGED <<remote, local, event, agreed, sess, tried, runner, life, shown>> /\ paused' = TRUE
      /\ Become(j, Idle, filed)
  BY DEF AutoSaveStops, files, Pause
<1>4. /\ paused' \in BOOLEAN /\ tried' \in Text \cup {None} /\ shown' \in Text \cup {None} /\ agreed' \subseteq Text
      /\ TRUE \in BOOLEAN
  BY <1>1, <1>3 DEF TypeOK
<1> QED
  BY <1>1, <1>2, <1>3, <1>4, LeaveKeeps

-----------------------------------------------------------------------------
(* Saving *)

\* A job that works under the runner holds it.
LEMMA AtWork ==
  ASSUME NEW y \in JobState, Fits(y),
         \/ y.pc \in {"type", "check", "final", "begin", "write", "mark", "resume", "fetch", "swap", "rebuild"}
         \/ y.pc = "look" /\ y.kind # "check"
  PROVE  Holding(y) /\ y.kind # "none"
BY DEF Holding, Fits, JobState, Tracked

\* A job that returns and has changed nothing.
LEMMA ReturnKeeps ==
  ASSUME IInv, NEW j \in Job, job[j].kind # "none", ~(job[j].kind = "auto" /\ job[j].pc \in {"timer", "fired"}),
         NEW bad \in BOOLEAN, Leave(j, NoJob, bad), UNCHANGED <<files, sess, life, shown>>,
         paused' \in BOOLEAN, tried' \in Text \cup {None}, filed' = filed
  PROVE  IInv'
<1>1. TypeOK /\ sess.base \in agreed
  BY JobIs
<1>2. /\ agreed' \subseteq Text /\ shown' \in Text \cup {None} /\ agreed' = agreed /\ sess' = sess /\ sess' \in Session
      /\ remote' = remote /\ local' = local /\ event' = event /\ life' = life
  BY <1>1 DEF TypeOK, files
<1> QED
  BY <1>1, <1>2, LeaveKeeps

\* A save fails.
LEMMA SaveFailsKeeps ==
  ASSUME IInv, NEW j \in Job, SaveFails(j)
  PROVE  IInv'
<1>1. TypeOK /\ job[j].kind # "none" /\ job[j].pc \notin {"timer", "fired"} /\ TRUE \in BOOLEAN
  BY JobIs, AtWork DEF SaveFails, Saves, Plain, Forced
<1>2. /\ Leave(j, NoJob, TRUE) /\ UNCHANGED <<files, sess, life, shown>>
      /\ paused' \in BOOLEAN /\ tried' \in Text \cup {None} /\ filed' = filed
  BY <1>1 DEF SaveFails, TypeOK, auto
<1> QED
  BY <1>1, <1>2, ReturnKeeps

\* A save reads the copy and the base.
LEMMA SaveBeginsKeeps ==
  ASSUME IInv, NEW j \in Job, SaveBegins(j)
  PROVE  IInv'
<1>1. PICK y \in JobState : y = job[j]
  BY JobIs
<1>2. /\ Fits(y) /\ TypeOK /\ y.pc = "begin" /\ y.kind \in Saves /\ (Holding(y) => runner = j) /\ Sound(y)
      /\ sess.mode = "manual_restored" => Restored(y)
  BY <1>1, JobIs DEF SaveBegins, At
<1>3. Holding(y) /\ y.kind # "none" /\ runner = j
  BY <1>2, AtWork
<1>4. sess.dirty \in BOOLEAN /\ sess.base \in Text /\ local \in Text
  BY <1>2 DEF TypeOK, Session
<1>5. PICK base \in Text \cup {None} : base = IF y.kind = "merge" THEN y.base ELSE sess.base
  BY <1>4 DEF JobState
<1>6. PICK d \in BOOLEAN : d = sess.dirty
  BY <1>4
<1>7. PICK x : x = [y EXCEPT !.pc = "look", !.text = local, !.dirty = d, !.base = base]
  OBVIOUS
<1>8. x \in JobState
  BY <1>4, <1>7 DEF JobState
<1>9. x.pc = "look" /\ x.kind = y.kind /\ x.text = local /\ x.base = base /\ x.late = y.late
  BY <1>7, <1>8 DEF JobState
<1>10. Become(j, x, NoJob) /\ UNCHANGED <<remote, local, event, agreed, sess, paused, tried, filed, runner, life, shown>>
  BY <1>1, <1>5, <1>6, <1>7 DEF SaveBegins, files, auto
<1>11. Fits(x)
  BY <1>2, <1>4, <1>9 DEF Fits, Saves, Plain, Forced
<1>12. Sound(x)'
  BY <1>2, <1>5, <1>9, <1>10 DEF Sound
<1>13. (sess.mode = "manual_restored" => Restored(x)) /\ tried' \in Text \cup {None} /\ y.pc \notin {"timer", "fired"}
  BY <1>2, <1>9, <1>10 DEF Restored, TypeOK
<1> QED
  BY <1>1, <1>3, <1>8, <1>9, <1>10, <1>11, <1>12, <1>13, MoveKeeps

\* A save looks at the remote file.
LEMMA SaveLooksKeeps ==
  ASSUME IInv, NEW j \in Job, SaveLooks(j)
  PROVE  IInv'
<1>1. PICK y \in JobState : y = job[j]
  BY JobIs
<1>2. /\ Fits(y) /\ TypeOK /\ y.pc = "look" /\ y.kind \in Saves /\ (Holding(y) => runner = j) /\ Sound(y)
      /\ (sess.mode = "manual_restored" => Restored(y)) /\ sess.base \in agreed
  BY <1>1, JobIs DEF SaveLooks, At
<1>3. y.kind # "check" /\ y.text \in Text /\ y.pc \notin {"timer", "fired"}
  BY <1>2 DEF Saves, Plain, Forced, Fits
<1>4. Holding(y) /\ y.kind # "none" /\ runner = j
  BY <1>2, <1>3, AtWork
<1>5. UNCHANGED <<files, life, shown>>
  BY DEF SaveLooks
<1>6. CASE MarkClash(j, "remote_missing", y.text) \/ MarkClash(j, "conflict", y.text)
  <2>1. "remote_missing" \in Clash /\ "conflict" \in Clash
    BY DEF Clash
  <2> QED
    BY <1>1, <1>3, <1>4, <1>5, <1>6, <2>1, MarkClashKeeps
<1>7. CASE Returns(j) /\ UNCHANGED <<sess, auto>>
  <2>1. /\ Leave(j, NoJob, FALSE) /\ UNCHANGED <<files, sess, life, shown>> /\ FALSE \in BOOLEAN
        /\ paused' \in BOOLEAN /\ tried' \in Text \cup {None} /\ filed' = filed
    BY <1>2, <1>5, <1>7 DEF Returns, TypeOK, auto
  <2> QED
    BY <1>1, <1>3, <1>4, <2>1, ReturnKeeps
<1>8. CASE /\ ~(y.kind # "recreate" /\ remote = Gone)
           /\ ~(y.kind \notin Forced /\ remote # Gone /\ remote # y.base)
           /\ Become(j, [y EXCEPT !.pc = "write", !.dirty = FALSE], NoJob)
           /\ UNCHANGED <<sess, auto, runner>>
  <2>1. PICK d \in BOOLEAN : d = FALSE
    OBVIOUS
  <2>2. PICK x : x = [y EXCEPT !.pc = "write", !.dirty = d]
    OBVIOUS
  <2>3. x \in JobState
    BY <2>2 DEF JobState
  <2>4. x.pc = "write" /\ x.kind = y.kind /\ x.text = y.text /\ x.base = y.base /\ x.late = y.late
    BY <2>2, <2>3 DEF JobState
  <2>5. Become(j, x, NoJob)
    BY <1>8, <2>1, <2>2
  <2>6. UNCHANGED <<remote, local, event, agreed, sess, paused, tried, filed, runner, life, shown>>
    BY <1>5, <1>8 DEF files, auto
  <2>7. Fits(x)
    BY <1>2, <1>3, <2>4 DEF Fits, Saves, Plain, Forced
  <2>8. y.kind \in Plain \cup {"recreate"} => y.kind \notin Forced /\ y.kind \in Saves \ {"merge"}
    BY DEF Plain, Forced, Saves
  <2>9. y.kind \in Plain \cup {"recreate"} => y.base = sess.base
    BY <1>2, <2>8 DEF Sound
  <2>10. y.kind \in Plain => y.kind # "recreate"
    BY DEF Plain
  <2>11. Sound(x)'
    BY <1>2, <1>8, <2>4, <2>6, <2>8, <2>9, <2>10 DEF Sound
  <2>12. (sess.mode = "manual_restored" => Restored(x)) /\ tried' \in Text \cup {None}
    BY <1>2, <2>4, <2>6 DEF Restored, TypeOK
  <2> QED
    BY <1>1, <1>3, <1>4, <2>3, <2>4, <2>5, <2>6, <2>7, <2>11, <2>12, MoveKeeps
<1> QED
  BY <1>1, <1>6, <1>7, <1>8 DEF SaveLooks

\* A save writes the remote file.
LEMMA SaveWritesKeeps ==
  ASSUME IInv, NEW j \in Job, SaveWrites(j)
  PROVE  IInv'
<1>1. PICK y \in JobState : y = job[j]
  BY JobIs
<1>2. /\ Fits(y) /\ TypeOK /\ y.pc = "write" /\ y.kind \in Saves /\ (Holding(y) => runner = j)
      /\ (sess.mode = "manual_restored" => Restored(y)) /\ sess.base \in agreed /\ j # NoJob
  BY <1>1, JobIs DEF SaveWrites, At
<1>3. y.text \in Text /\ y.pc \notin {"timer", "fired"}
  BY <1>2 DEF Fits
<1>4. Holding(y) /\ y.kind # "none" /\ runner = j
  BY <1>2, AtWork
<1>5. PICK b \in BOOLEAN : b = FALSE
  OBVIOUS
<1>6. PICK x : x = [y EXCEPT !.pc = "mark", !.base = None, !.late = b]
  OBVIOUS
<1>7. x \in JobState
  BY <1>6 DEF JobState
<1>8. x.pc = "mark" /\ x.kind = y.kind /\ x.text = y.text
  BY <1>6, <1>7 DEF JobState
<1>9. /\ Become(j, x, NoJob) /\ remote' = y.text /\ agreed' = agreed \cup {y.text}
      /\ UNCHANGED <<local, event, sess, paused, tried, filed, runner, life, shown>>
  BY <1>1, <1>5, <1>6 DEF SaveWrites, auto
<1>10. Fits(x)
  BY <1>2, <1>3, <1>8 DEF Fits, Saves, Plain, Forced
<1>11. Sound(x)'
  BY <1>8 DEF Sound
<1>12. /\ remote' \in Text \cup {Gone} /\ local' \in Text /\ agreed' \subseteq Text /\ event' \in BOOLEAN
       /\ paused' \in BOOLEAN /\ shown' \in Text \cup {None} /\ sess' \in Session /\ sess'.base \in agreed'
       /\ tried' \in Text \cup {None}
  BY <1>2, <1>3, <1>9 DEF TypeOK
<1>13. sess'.mode = "manual_restored" => sess.mode = "manual_restored" /\ Restored(x)
  BY <1>2, <1>8, <1>9 DEF Restored
<1> QED
  BY <1>1, <1>2, <1>3, <1>4, <1>7, <1>8, <1>9, <1>10, <1>11, <1>12, <1>13, StepKeeps

\* The write says that the file is gone.
LEMMA SaveWriteMissingKeeps ==
  ASSUME IInv, NEW j \in Job, SaveWriteMissing(j)
  PROVE  IInv'
<1>1. job[j] \in JobState /\ Fits(job[j]) /\ job[j].pc = "write" /\ "remote_missing" \in Clash
  BY JobIs DEF SaveWriteMissing, At, Clash
<1>2. job[j].text \in Text /\ job[j].kind # "none"
  BY <1>1, AtWork DEF Fits
<1> QED
  BY <1>1, <1>2, MarkClashKeeps DEF SaveWriteMissing

\* markSaved.
LEMMA SaveMarksKeeps ==
  ASSUME IInv, NEW j \in Job, SaveMarks(j)
  PROVE  IInv'
<1>1. PICK y \in JobState : y = job[j]
  BY JobIs
<1>2. /\ Fits(y) /\ TypeOK /\ y.pc = "mark" /\ y.kind \in Saves /\ (Holding(y) => runner = j) /\ sess \in Session
      /\ (sess.mode = "manual_restored" => Restored(y)) /\ j # NoJob
  BY <1>1, JobIs DEF SaveMarks, At, TypeOK
<1>3. y.text \in Text /\ y.pc \notin {"timer", "fired"}
  BY <1>2 DEF Fits
<1>4. Holding(y) /\ y.kind # "none" /\ runner = j
  BY <1>2, AtWork
<1>5. sess.editor \in {"external", "built_in"} /\ sess.mode \in {"auto_live", "manual_explicit", "manual_restored"}
  BY <1>2 DEF Session
<1>6. PICK n : n = NewSession(y.text, sess.editor)
  OBVIOUS
<1>7. PICK e : e = [n EXCEPT !.mode = sess.mode]
  OBVIOUS
<1>8. e \in Session /\ e.base = y.text /\ e.mode = sess.mode
  BY <1>3, <1>5, <1>6, <1>7, RenewedIs
<1>9. PICK x : x = [y EXCEPT !.pc = "resume", !.text = None]
  OBVIOUS
<1>10. x \in JobState
  BY <1>9 DEF JobState
<1>11. x.pc = "resume" /\ x.kind = y.kind
  BY <1>9, <1>10 DEF JobState
<1>12. /\ Become(j, x, NoJob) /\ sess' = e /\ agreed' = {y.text}
       /\ UNCHANGED <<remote, local, event, paused, tried, filed, runner, life, shown>>
  BY <1>1, <1>6, <1>7, <1>9 DEF SaveMarks, auto
<1>13. Fits(x)
  BY <1>2, <1>3, <1>11 DEF Fits, Saves, Plain, Forced
<1>14. Sound(x)'
  BY <1>11 DEF Sound
<1>15. /\ remote' \in Text \cup {Gone} /\ local' \in Text /\ agreed' \subseteq Text /\ event' \in BOOLEAN
       /\ paused' \in BOOLEAN /\ shown' \in Text \cup {None} /\ sess' \in Session /\ sess'.base \in agreed'
       /\ tried' \in Text \cup {None}
  BY <1>2, <1>3, <1>8, <1>12 DEF TypeOK
<1>16. sess'.mode = "manual_restored" => sess.mode = "manual_restored" /\ Restored(x)
  BY <1>2, <1>8, <1>11, <1>12 DEF Restored
<1> QED
  BY <1>1, <1>2, <1>3, <1>4, <1>10, <1>11, <1>12, <1>13, <1>14, <1>15, <1>16, StepKeeps

\* Automatic saving is resumed.
LEMMA ResumesKeeps ==
  ASSUME IInv, NEW j \in Job, Resumes(j)
  PROVE  IInv'
<1>1. job[j] \in JobState /\ Fits(job[j]) /\ job[j].pc = "resume"
  BY JobIs DEF Resumes
<1>2. /\ job[j].kind # "none" /\ Leave(j, NoJob, FALSE) /\ FALSE \in BOOLEAN /\ UNCHANGED <<files, sess, life, shown>>
      /\ paused' \in BOOLEAN /\ tried' \in Text \cup {None} /\ filed' = filed
  BY <1>1, AtWork DEF Resumes, Returns, Resume
<1> QED
  BY <1>1, <1>2, ReturnKeeps

-----------------------------------------------------------------------------
(* The calls of the user *)

\* A job that holds the runner goes on, having written the copy or marked the session.
LEMMA WorkKeeps ==
  ASSUME IInv, NEW j \in Job, Holding(job[j]), NEW x \in JobState, Become(j, x, NoJob), Fits(x), Sound(x)',
         x.kind = job[j].kind, UNCHANGED <<remote, paused, tried, filed, runner, life, shown>>,
         local' \in Text, event' \in BOOLEAN, agreed' \subseteq Text, sess' \in Session, sess'.base \in agreed',
         sess'.mode = "manual_restored" => sess.mode = "manual_restored",
         x.pc # "plan"
  PROVE  IInv'
<1>1. /\ TypeOK /\ j # NoJob /\ runner = j /\ job[j] \in JobState
      /\ sess.mode = "manual_restored" => Restored(job[j])
      /\ filed = j => job[j].kind = "auto" /\ job[j].pc \in {"timer", "fired"}
  BY JobIs
<1>2. job[j].kind # "none" /\ job[j].pc \notin {"timer", "fired"}
  BY DEF Holding, Calls, Saves, Plain, Forced
<1>3. /\ remote' \in Text \cup {Gone} /\ paused' \in BOOLEAN /\ shown' \in Text \cup {None} /\ tried' \in Text \cup {None}
  BY <1>1 DEF TypeOK
<1>4. sess'.mode = "manual_restored" => sess.mode = "manual_restored" /\ Restored(x)
  BY <1>1 DEF Restored
<1> QED
  BY <1>1, <1>2, <1>3, <1>4, StepKeeps

\* What SaveText and ApplyMerge write over the copy.
LEMMA TypingKeeps ==
  ASSUME IInv, NEW j \in Job, TypeText(j) \/ MergeFinal(j)
  PROVE  IInv'
<1>1. PICK y \in JobState : y = job[j]
  BY JobIs
<1>2. /\ Fits(y) /\ TypeOK /\ (Holding(y) => runner = j) /\ Sound(y) /\ sess \in Session /\ sess.base \in agreed
      /\ (y.pc = "type" /\ y.kind = "text") \/ (y.pc = "final" /\ y.kind = "merge")
  BY <1>1, JobIs DEF TypeText, MergeFinal, At, TypeOK
<1>3. y.text \in Text /\ Holding(y)
  BY <1>2, AtWork DEF Fits
<1>4. PICK x : x = [y EXCEPT !.pc = "begin"]
  OBVIOUS
<1>5. "begin" \in Pc
  BY DEF Pc
<1>6. /\ x \in JobState /\ x.pc = "begin" /\ x.kind = y.kind
      /\ x.text = y.text /\ x.base = y.base /\ x.dirty = y.dirty /\ x.late = y.late
  BY <1>4, <1>5, GoesIs
<1>7. PICK e : e = [sess EXCEPT !.state = "dirty", !.dirty = TRUE, !.seen = y.text]
  OBVIOUS
<1>8. e \in Session
  <2>1. \A d \in BOOLEAN : [sess EXCEPT !.state = "dirty", !.dirty = d, !.seen = y.text] \in Session
    BY <1>2, <1>3 DEF Session
  <2>2. TRUE \in BOOLEAN
    OBVIOUS
  <2> QED
    BY <1>7, <2>1, <2>2, Zenon
<1>9. e.base = sess.base /\ e.mode = sess.mode
  BY <1>2, <1>7, <1>8 DEF Session
<1>10. /\ Become(j, x, NoJob) /\ UNCHANGED <<remote, agreed, paused, tried, filed, runner, life, shown>>
       /\ local' = y.text /\ (sess' = sess \/ sess' = e)
  BY <1>1, <1>4, <1>7 DEF TypeText, MergeFinal, Goes, auto
<1>11. event' \in BOOLEAN
  BY DEF TypeText, MergeFinal
<1>12. Fits(x)
  BY <1>2, <1>6 DEF Fits, Calls, Saves, Plain, Forced
<1>13. Sound(x)'
  BY <1>2, <1>6, <1>10 DEF Sound
<1>14. agreed' \subseteq Text /\ sess' \in Session /\ sess'.base \in agreed' /\ sess'.mode = sess.mode
  BY <1>2, <1>8, <1>9, <1>10 DEF TypeOK
<1> QED
  BY <1>1, <1>3, <1>6, <1>10, <1>11, <1>12, <1>13, <1>14, WorkKeeps

\* A call fails.
LEMMA CallFailsKeeps ==
  ASSUME IInv, NEW j \in Job, CallFails(j)
  PROVE  IInv'
<1>1. /\ job[j].kind # "none" /\ job[j].kind # "auto" /\ TypeOK /\ FALSE \in BOOLEAN
  BY JobIs DEF CallFails
<1>2. /\ Leave(j, NoJob, FALSE) /\ UNCHANGED <<files, sess, life, shown>>
      /\ paused' \in BOOLEAN /\ tried' \in Text \cup {None} /\ filed' = filed
  BY <1>1 DEF CallFails, Returns, TypeOK, auto
<1> QED
  BY <1>1, <1>2, ReturnKeeps

\* A call reads the session, and a refresh the copy.
LEMMA CallBeginsKeeps ==
  ASSUME IInv, NEW j \in Job, CallBegins(j)
  PROVE  IInv'
<1>1. PICK y \in JobState : y = job[j]
  BY JobIs
<1>2. Fits(y) /\ TypeOK /\ y.pc = "begin" /\ y.kind \in {"refresh", "reread", "prepare"} /\ sess \in Session /\ sess.base \in agreed
  BY <1>1, JobIs DEF CallBegins, At, TypeOK
<1>3. Holding(y)
  BY <1>2, AtWork
<1>4. sess.base \in Text /\ sess.seen \in Text /\ local \in Text
  BY <1>2 DEF TypeOK, Session
<1>5. UNCHANGED <<remote, local, event, agreed, sess, paused, tried, filed, runner, life, shown>>
  BY DEF CallBegins, files, auto
<1>6. \E x \in JobState : Become(j, x, NoJob) /\ x.kind = y.kind /\ x.pc = "look" /\ x.text \in Text
  <2>1. CASE y.kind = "refresh"
    <3>1. PICK d \in BOOLEAN : d = (sess.dirty \/ local # sess.base)
      OBVIOUS
    <3>2. PICK x : x = [y EXCEPT !.pc = "look", !.text = local, !.base = sess.base, !.dirty = d]
      OBVIOUS
    <3>3. x \in JobState
      BY <1>4, <3>2 DEF JobState
    <3>4. x.kind = y.kind /\ x.pc = "look" /\ x.text = local
      BY <3>2, <3>3 DEF JobState
    <3>5. Become(j, x, NoJob)
      BY <1>1, <2>1, <3>1, <3>2 DEF CallBegins
    <3> QED
      BY <1>4, <3>3, <3>4, <3>5
  <2>2. CASE y.kind # "refresh"
    <3>1. PICK x : x = [y EXCEPT !.pc = "look", !.text = sess.seen]
      OBVIOUS
    <3>2. x \in JobState
      BY <1>4, <3>1 DEF JobState
    <3>3. x.kind = y.kind /\ x.pc = "look" /\ x.text = sess.seen
      BY <3>1, <3>2 DEF JobState
    <3>4. Become(j, x, NoJob)
      BY <1>1, <2>2, <3>1 DEF CallBegins
    <3> QED
      BY <1>4, <3>2, <3>3, <3>4
  <2> QED
    BY <2>1, <2>2
<1>7. PICK x \in JobState : Become(j, x, NoJob) /\ x.kind = y.kind /\ x.pc = "look" /\ x.text \in Text
  BY <1>6
<1>8. Fits(x)
  BY <1>2, <1>7 DEF Fits
<1>9. Sound(x)'
  BY <1>2, <1>7 DEF Sound, Saves, Plain, Forced
<1>10. local' \in Text /\ event' \in BOOLEAN /\ agreed' \subseteq Text /\ sess' \in Session /\ sess'.base \in agreed'
  BY <1>2, <1>5 DEF TypeOK
<1> QED
  BY <1>1, <1>3, <1>5, <1>7, <1>8, <1>9, <1>10, WorkKeeps

\* A refresh compares.
LEMMA RefreshLooksKeeps ==
  ASSUME IInv, NEW j \in Job, RefreshLooks(j)
  PROVE  IInv'
<1>1. PICK y \in JobState : y = job[j]
  BY JobIs
<1>2. Fits(y) /\ TypeOK /\ y.pc = "look" /\ y.kind = "refresh" /\ sess \in Session /\ sess.base \in agreed
  BY <1>1, JobIs DEF RefreshLooks, At, TypeOK
<1>3. Holding(y) /\ y.text \in Text
  BY <1>2, AtWork DEF Fits
<1>4. PICK state \in {"clean", "dirty"} \cup Clash, d \in BOOLEAN :
        sess' = [sess EXCEPT !.state = state, !.dirty = d, !.seen = y.text]
  <2>1. y.dirty \in BOOLEAN /\ TRUE \in BOOLEAN
    BY DEF JobState
  <2>2. "remote_missing" \in Clash /\ "conflict" \in Clash
    BY DEF Clash
  <2>3. CASE sess' = [sess EXCEPT !.state = "remote_missing", !.dirty = y.dirty, !.seen = y.text]
    BY <2>1, <2>2, <2>3, Zenon
  <2>4. CASE sess' = [sess EXCEPT !.state = "conflict", !.dirty = TRUE, !.seen = y.text]
    BY <2>1, <2>2, <2>4, Zenon
  <2>5. CASE sess' = [sess EXCEPT !.state = IF y.dirty THEN "dirty" ELSE "clean", !.dirty = y.dirty, !.seen = y.text]
    <3>1. PICK s \in {"clean", "dirty"} : s = IF y.dirty THEN "dirty" ELSE "clean"
      OBVIOUS
    <3>2. sess' = [sess EXCEPT !.state = s, !.dirty = y.dirty, !.seen = y.text]
      BY <2>5, <3>1
    <3> QED
      BY <2>1, <3>2, Zenon
  <2> QED
    BY <1>1, <2>3, <2>4, <2>5, Zenon DEF RefreshLooks
<1>5. PICK e : e = sess'
  OBVIOUS
<1>6. e \in Session
  BY <1>2, <1>3, <1>4, <1>5 DEF Session
<1>7. e.base = sess.base /\ e.mode = sess.mode
  BY <1>2, <1>4, <1>5, <1>6 DEF Session
<1>8. /\ agreed' = agreed /\ remote' = remote /\ local' = local /\ event' = event /\ life' = life /\ shown' = shown
      /\ agreed' \subseteq Text /\ shown' \in Text \cup {None}
  BY <1>2 DEF RefreshLooks, files, TypeOK
<1>9. CASE Returns(j) /\ UNCHANGED auto
  <2>1. Leave(j, NoJob, FALSE) /\ FALSE \in BOOLEAN /\ filed' = filed /\ paused' \in BOOLEAN /\ tried' \in Text \cup {None}
    BY <1>2, <1>9 DEF Returns, auto, TypeOK
  <2> QED
    BY <1>1, <1>2, <1>5, <1>6, <1>7, <1>8, <2>1, LeaveKeeps
<1>10. CASE Pause /\ Leave(j, filed, FALSE)
  <2>1. FALSE \in BOOLEAN /\ filed' = NoJob /\ paused' \in BOOLEAN /\ tried' \in Text \cup {None}
    BY <1>2, <1>10 DEF Pause, TypeOK
  <2> QED
    BY <1>1, <1>2, <1>5, <1>6, <1>7, <1>8, <1>10, <2>1, LeaveKeeps
<1> QED
  BY <1>9, <1>10 DEF RefreshLooks

\* A reread looks whether the file is there.
LEMMA RereadLooksKeeps ==
  ASSUME IInv, NEW j \in Job, RereadLooks(j)
  PROVE  IInv'
<1>1. PICK y \in JobState : y = job[j]
  BY JobIs
<1>2. Fits(y) /\ TypeOK /\ y.pc = "look" /\ y.kind = "reread" /\ sess \in Session /\ sess.base \in agreed
  BY <1>1, JobIs DEF RereadLooks, At, TypeOK
<1>3. Holding(y) /\ y.text \in Text /\ "remote_missing" \in Clash
  BY <1>2, AtWork DEF Fits, Clash
<1>4. CASE MarkClash(j, "remote_missing", y.text)
  BY <1>1, <1>2, <1>3, <1>4, MarkClashKeeps DEF RereadLooks
<1>5. CASE Goes(j, "fetch") /\ UNCHANGED <<sess, auto, runner>>
  <2>1. PICK x : x = [y EXCEPT !.pc = "fetch"]
    OBVIOUS
  <2>2. "fetch" \in Pc
    BY DEF Pc
  <2>3. x \in JobState /\ x.pc = "fetch" /\ x.kind = y.kind
    BY <2>1, <2>2, GoesIs
  <2>4. Become(j, x, NoJob) /\ UNCHANGED <<remote, local, event, agreed, sess, paused, tried, filed, runner, life, shown>>
    BY <1>1, <1>5, <2>1 DEF RereadLooks, Goes, files, auto
  <2>5. Fits(x) /\ Sound(x)'
    BY <1>2, <2>3 DEF Fits, Sound, Calls, Saves, Plain, Forced
  <2>6. local' \in Text /\ event' \in BOOLEAN /\ agreed' \subseteq Text /\ sess' \in Session /\ sess'.base \in agreed'
    BY <1>2, <2>4 DEF TypeOK
  <2> QED
    BY <1>1, <1>3, <2>3, <2>4, <2>5, <2>6, WorkKeeps
<1> QED
  BY <1>1, <1>4, <1>5 DEF RereadLooks

\* ... reads it again, replaces the copy and gives the session its new base.
LEMMA RebuildKeeps ==
  ASSUME IInv, NEW j \in Job, RebuildFetches(j) \/ RebuildSwaps(j) \/ RebuildEnds(j)
  PROVE  IInv'
<1>1. PICK y \in JobState : y = job[j]
  BY JobIs
<1>2. /\ Fits(y) /\ TypeOK /\ y.pc \in {"fetch", "swap", "rebuild"} /\ y.kind = "reread" /\ sess \in Session
      /\ sess.base \in agreed /\ sess.base \in Text
  BY <1>1, JobIs DEF RebuildFetches, RebuildSwaps, RebuildEnds, At, TypeOK, Session
<1>3. Holding(y) /\ (y.pc # "fetch" => y.text \in Text)
  BY <1>2, AtWork DEF Fits
<1>4. ASSUME NEW x \in JobState, x.kind = "reread", x.pc \in {"swap", "rebuild", "resume"}, x.pc # "resume" => x.text \in Text
      PROVE  Fits(x) /\ Sound(x)'
  BY <1>4 DEF Fits, Sound, Calls, Saves, Plain, Forced
<1>5. CASE RebuildFetches(j)
  <2>1. PICK x : x = [y EXCEPT !.pc = "swap", !.text = remote]
    OBVIOUS
  <2>2. remote \in Text
    BY <1>2, <1>5 DEF RebuildFetches, TypeOK
  <2>3. x \in JobState
    BY <2>1, <2>2 DEF JobState
  <2>4. x.pc = "swap" /\ x.kind = "reread" /\ x.text = remote
    BY <1>2, <2>1, <2>3 DEF JobState
  <2>5. Become(j, x, NoJob) /\ UNCHANGED <<remote, local, event, agreed, sess, paused, tried, filed, runner, life, shown>>
    BY <1>1, <1>5, <2>1 DEF RebuildFetches, files, auto
  <2>6. local' \in Text /\ event' \in BOOLEAN /\ agreed' \subseteq Text /\ sess' \in Session /\ sess'.base \in agreed'
    BY <1>2, <2>5 DEF TypeOK
  <2> QED
    BY <1>1, <1>2, <1>3, <1>4, <2>2, <2>3, <2>4, <2>5, <2>6, WorkKeeps
<1>6. CASE RebuildSwaps(j)
  <2>1. PICK x : x = [y EXCEPT !.pc = "rebuild"]
    OBVIOUS
  <2>2. "rebuild" \in Pc
    BY DEF Pc
  <2>3. x \in JobState /\ x.pc = "rebuild" /\ x.kind = y.kind /\ x.text = y.text
    BY <2>1, <2>2, GoesIs
  <2>4. /\ Become(j, x, NoJob) /\ local' = y.text
        /\ UNCHANGED <<remote, agreed, sess, paused, tried, filed, runner, life, shown>>
    BY <1>1, <1>6, <2>1 DEF RebuildSwaps, Goes, auto
  <2>5. y.text \in Text
    BY <1>1, <1>3, <1>6 DEF RebuildSwaps, At
  <2>6. event' \in BOOLEAN
    BY <1>6 DEF RebuildSwaps
  <2>7. local' \in Text /\ agreed' \subseteq Text /\ sess' \in Session /\ sess'.base \in agreed'
    BY <1>2, <2>4, <2>5 DEF TypeOK
  <2> QED
    BY <1>1, <1>2, <1>3, <1>4, <2>3, <2>4, <2>5, <2>6, <2>7, WorkKeeps
<1>7. CASE RebuildEnds(j)
  <2>1. y.text \in Text /\ sess.editor \in {"external", "built_in"}
    BY <1>1, <1>2, <1>3, <1>7 DEF RebuildEnds, At, Session
  <2>2. PICK e : e = NewSession(y.text, sess.editor)
    OBVIOUS
  <2>3. e \in Session /\ e.base = y.text /\ e.mode # "manual_restored"
    BY <2>1, <2>2, RenewedIs
  <2>4. /\ sess' = e /\ agreed' = {y.text}
        /\ UNCHANGED <<remote, local, event, paused, tried, filed, life, shown>>
    BY <1>1, <1>7, <2>2 DEF RebuildEnds, auto
  <2>5. /\ local' \in Text /\ event' \in BOOLEAN /\ agreed' \subseteq Text /\ sess' \in Session /\ sess'.base \in agreed'
        /\ paused' \in BOOLEAN /\ tried' \in Text \cup {None} /\ shown' \in Text \cup {None}
    BY <1>2, <2>1, <2>3, <2>4 DEF TypeOK
  <2>6. CASE Become(j, [y EXCEPT !.pc = "resume", !.text = None], NoJob) /\ runner' = runner
    <3>1. PICK x : x = [y EXCEPT !.pc = "resume", !.text = None]
      OBVIOUS
    <3>2. x \in JobState
      BY <3>1 DEF JobState
    <3>3. x.pc = "resume" /\ x.kind = "reread"
      BY <1>2, <3>1, <3>2 DEF JobState
    <3> QED
      BY <1>1, <1>2, <1>3, <1>4, <2>3, <2>4, <2>5, <2>6, <3>1, <3>2, <3>3, WorkKeeps
  <2>7. CASE Returns(j)
    <3>1. Leave(j, NoJob, FALSE) /\ FALSE \in BOOLEAN
      BY <2>7 DEF Returns
    <3> QED
      BY <1>1, <1>2, <1>3, <2>3, <2>4, <2>5, <3>1, LeaveKeeps
  <2> QED
    BY <1>1, <1>7, <2>6, <2>7 DEF RebuildEnds
<1> QED
  BY <1>5, <1>6, <1>7

\* PrepareMerge keeps the hash it shows.
LEMMA PrepareLooksKeeps ==
  ASSUME IInv, NEW j \in Job, PrepareLooks(j)
  PROVE  IInv'
<1>1. PICK y \in JobState : y = job[j]
  BY JobIs
<1>2. Fits(y) /\ TypeOK /\ y.pc = "look" /\ y.kind = "prepare" /\ sess \in Session /\ sess.base \in agreed
  BY <1>1, JobIs DEF PrepareLooks, At, TypeOK
<1>3. Holding(y) /\ y.text \in Text /\ "remote_missing" \in Clash
  BY <1>2, AtWork DEF Fits, Clash
<1>4. CASE MarkClash(j, "remote_missing", y.text) /\ UNCHANGED shown
  BY <1>1, <1>2, <1>3, <1>4, MarkClashKeeps DEF PrepareLooks
<1>5. CASE remote # Gone /\ sess' = [sess EXCEPT !.merge = remote] /\ shown' = remote /\ Returns(j) /\ UNCHANGED auto
  <2>1. PICK e : e = sess'
    OBVIOUS
  <2>2. remote \in Text
    BY <1>2, <1>5 DEF TypeOK
  <2>3. e \in Session
    BY <1>2, <1>5, <2>1, <2>2 DEF Session
  <2>4. e.base = sess.base /\ e.mode = sess.mode
    BY <1>2, <1>5, <2>1, <2>3 DEF Session
  <2>5. /\ Leave(j, NoJob, FALSE) /\ FALSE \in BOOLEAN /\ filed' = filed /\ paused' \in BOOLEAN /\ tried' \in Text \cup {None}
        /\ agreed' = agreed /\ remote' = remote /\ local' = local /\ event' = event /\ life' = life
        /\ agreed' \subseteq Text /\ shown' \in Text \cup {None}
    BY <1>2, <1>5, <2>2 DEF PrepareLooks, Returns, files, auto, TypeOK
  <2> QED
    BY <1>1, <1>2, <2>1, <2>3, <2>4, <2>5, LeaveKeeps
<1> QED
  BY <1>1, <1>4, <1>5 DEF PrepareLooks

\* ApplyMerge makes sure of the version it merged.
LEMMA MergeChecksKeeps ==
  ASSUME IInv, NEW j \in Job, MergeChecks(j)
  PROVE  IInv'
<1>1. PICK y \in JobState : y = job[j]
  BY JobIs
<1>2. Fits(y) /\ TypeOK /\ y.pc = "check" /\ y.kind = "merge" /\ sess \in Session /\ sess.base \in agreed
  BY <1>1, JobIs DEF MergeChecks, At, TypeOK
<1>3. Holding(y) /\ y.text \in Text /\ sess.seen \in Text /\ "remote_missing" \in Clash /\ "conflict" \in Clash
  BY <1>2, AtWork DEF Fits, Clash, Session
<1>4. CASE MarkClash(j, "remote_missing", sess.seen) \/ MarkClash(j, "conflict", sess.seen)
  BY <1>1, <1>2, <1>3, <1>4, MarkClashKeeps DEF MergeChecks
<1>5. CASE Returns(j) /\ UNCHANGED <<sess, auto>>
  <2>1. /\ Leave(j, NoJob, FALSE) /\ UNCHANGED <<files, sess, life, shown>> /\ FALSE \in BOOLEAN
        /\ paused' \in BOOLEAN /\ tried' \in Text \cup {None} /\ filed' = filed
    BY <1>2, <1>5 DEF MergeChecks, Returns, TypeOK, auto
  <2> QED
    BY <1>1, <1>2, <2>1, ReturnKeeps
<1>6. CASE remote = y.base /\ Goes(j, "final") /\ UNCHANGED <<sess, auto, runner>>
  <2>1. PICK x : x = [y EXCEPT !.pc = "final"]
    OBVIOUS
  <2>2. "final" \in Pc
    BY DEF Pc
  <2>3. x \in JobState /\ x.pc = "final" /\ x.kind = y.kind /\ x.text = y.text /\ x.base = y.base
    BY <2>1, <2>2, GoesIs
  <2>4. Become(j, x, NoJob) /\ UNCHANGED <<remote, local, event, agreed, sess, paused, tried, filed, runner, life, shown>>
    BY <1>1, <1>6, <2>1 DEF MergeChecks, Goes, files, auto
  <2>5. Fits(x) /\ Sound(x)'
    BY <1>2, <1>3, <1>6, <2>3, <2>4 DEF Fits, Sound, Calls, Saves, Plain, Forced
  <2>6. local' \in Text /\ event' \in BOOLEAN /\ agreed' \subseteq Text /\ sess' \in Session /\ sess'.base \in agreed'
    BY <1>2, <2>4 DEF TypeOK
  <2> QED
    BY <1>1, <1>3, <2>3, <2>4, <2>5, <2>6, WorkKeeps
<1> QED
  BY <1>1, <1>4, <1>5, <1>6 DEF MergeChecks

\* The check after a restart, which does not hold the runner.
LEMMA CheckKeeps ==
  ASSUME IInv, NEW j \in Job, CheckBegins(j) \/ CheckFails(j) \/ CheckLooks(j)
  PROVE  IInv'
<1>1. PICK y \in JobState : y = job[j]
  BY JobIs
<1>2. Fits(y) /\ TypeOK /\ y.kind = "check" /\ sess.base \in Text /\ local \in Text
  BY <1>1, JobIs DEF CheckBegins, CheckFails, CheckLooks, At, TypeOK, Session
<1>3. CASE CheckBegins(j)
  <2>1. PICK x : x = [y EXCEPT !.pc = "look", !.text = local, !.base = sess.base]
    OBVIOUS
  <2>2. x \in JobState
    BY <1>2, <2>1 DEF JobState
  <2>3. x.pc = "look" /\ x.kind = "check" /\ x.text = local
    BY <1>2, <2>1, <2>2 DEF JobState
  <2>4. Become(j, x, NoJob) /\ UNCHANGED <<remote, local, event, agreed, sess, paused, tried, filed, runner, life, shown>>
    BY <1>1, <1>3, <2>1 DEF CheckBegins, files, auto
  <2>5. Fits(x) /\ ~Holding(x) /\ Restored(x)
    BY <1>2, <2>3 DEF Fits, Holding, Restored, Calls, Saves, Plain, Forced
  <2>6. Sound(x)' /\ tried' \in Text \cup {None}
    BY <1>2, <2>2, <2>4, <2>5, FreeIsSound DEF TypeOK
  <2> QED
    BY <1>1, <1>2, <2>2, <2>3, <2>4, <2>5, <2>6, MoveKeeps
<1>4. ASSUME Returns(j), UNCHANGED <<files, sess, auto, life, shown>>
      PROVE  IInv'
  <2>1. /\ Leave(j, NoJob, FALSE) /\ FALSE \in BOOLEAN /\ UNCHANGED <<files, sess, life, shown>>
        /\ paused' \in BOOLEAN /\ tried' \in Text \cup {None} /\ filed' = filed
    BY <1>2, <1>4 DEF Returns, TypeOK, auto
  <2> QED
    BY <1>1, <1>2, <2>1, ReturnKeeps
<1>5. CASE CheckLooks(j)
  <2>1. y.text \in Text /\ "remote_missing" \in Clash /\ "conflict" \in Clash
    BY <1>1, <1>2, <1>5 DEF CheckLooks, At, Fits, Clash
  <2>2. CASE MarkClash(j, "remote_missing", y.text) \/ MarkClash(j, "conflict", y.text)
    BY <1>1, <1>2, <1>5, <2>1, <2>2, MarkClashKeeps DEF CheckLooks
  <2> QED
    BY <1>1, <1>4, <1>5, <2>2 DEF CheckLooks
<1> QED
  BY <1>3, <1>4, <1>5 DEF CheckFails

-----------------------------------------------------------------------------
(* Everybody else, and the life of the process *)

Counted(f) == {i \in Job : f[i].kind \in Tracked}

\* A timer that is stopped is not counted any more.
LEMMA StopCounts ==
  ASSUME NEW f \in [Job -> JobState], NEW t \in Job \cup {NoJob}, t # NoJob => f[t].kind \in Tracked,
         NEW b \in BOOLEAN, b <=> (t # NoJob /\ f[t].pc = "timer"), NEW g, g = Stopped(f, t)
  PROVE  /\ g \in [Job -> JobState]
         /\ \A i \in Job : i # t => g[i] = f[i]
         /\ \A i \in Job : g[i] = f[i] \/ g[i] = Idle
         /\ IsFiniteSet(Counted(f)) /\ IsFiniteSet(Counted(g)) /\ Cardinality(Counted(f)) \in Nat /\ Cardinality(Counted(g)) \in Nat
         /\ Cardinality(Counted(g)) = Cardinality(Counted(f)) - (IF b THEN 1 ELSE 0)
<1>1. IsFiniteSet(Counted(f)) /\ IsFiniteSet(Counted(g)) /\ Cardinality(Counted(f)) \in Nat /\ Cardinality(Counted(g)) \in Nat
  BY EditConstants, FS_Subset, FS_CardinalityType DEF Counted
<1>2. CASE b
  <2>1. g = [f EXCEPT ![t] = Idle] /\ t \in Job
    BY <1>2 DEF Stopped
  <2>2. g \in [Job -> JobState] /\ g[t] = Idle /\ \A i \in Job : i # t => g[i] = f[i]
    BY <2>1, IdleIs
  <2>3. t \in Counted(f) /\ Counted(g) = Counted(f) \ {t}
    BY <1>2, <2>1, <2>2, IdleIs DEF Counted, Tracked
  <2>4. Cardinality(Counted(g)) = Cardinality(Counted(f)) - 1
    BY <1>1, <2>3, FS_RemoveElement
  <2> QED
    BY <1>1, <1>2, <2>2, <2>4
<1>3. CASE ~b
  <2>1. g = f
    BY <1>3 DEF Stopped
  <2> QED
    BY <1>1, <1>3, <2>1
<1> QED
  BY <1>2, <1>3

\* Jobs that are as they were or hold nothing need nothing.
LEMMA AroundKeeps ==
  ASSUME IInv, TypeOK', CloseWaits', TimerInv', sess'.base = sess.base, remote' = remote, agreed' = agreed,
         runner' = runner \/ \A i \in Job : ~Holding(job'[i]),
         \A i \in Job : job'[i] = job[i] \/ (Fits(job'[i]) /\ ~Holding(job'[i])),
         \A i \in Job : sess'.mode = "manual_restored" => Restored(job'[i])
  PROVE  IInv'
<1>1. ASSUME NEW i \in Job, NEW y, y = job'[i]
      PROVE  Fits(y) /\ (Holding(y) => runner' = i) /\ Sound(y)'
  <2>1. y \in JobState
    BY <1>1 DEF TypeOK
  <2>2. CASE Fits(y) /\ ~Holding(y)
    BY <2>1, <2>2, FreeIsSound
  <2>3. CASE y = job[i] /\ Holding(y)
    <3>1. Fits(y) /\ runner = i /\ Sound(y)
      BY <2>3 DEF IInv, JobInv
    <3>2. Sound(y)' /\ runner' = runner
      BY <1>1, <2>3, <3>1 DEF Sound
    <3> QED
      BY <3>1, <3>2
  <2>4. y = job[i] => Fits(y)
    BY DEF IInv, JobInv
  <2> QED
    BY <1>1, <2>2, <2>3, <2>4
<1>2. ASSUME NEW i \in Job
      PROVE  Fits(job'[i]) /\ (Holding(job'[i]) => runner' = i) /\ Sound(job[i])'
  <2>1. PICK y : y = job'[i]
    OBVIOUS
  <2>2. Fits(y) /\ (Holding(y) => runner' = i) /\ Sound(y)'
    BY <1>1, <2>1
  <2> QED
    BY <2>1, <2>2 DEF Sound
<1>3. JobInv'
  BY <1>2 DEF JobInv, Fits, Holding
<1>4. RestoredInv'
  BY DEF RestoredInv, Restored
<1> QED
  BY <1>3, <1>4 DEF IInv

\* The watcher begins a reconcile in place of the one before it.
LEMMA WatchKeeps ==
  ASSUME IInv, NEW k \in Job, Watch(k)
  PROVE  IInv'
<1>1. /\ TypeOK /\ job[k] = Idle /\ settle \in Job \cup {NoJob} /\ (settle # NoJob => job[settle].kind = "reconcile")
      /\ life = "up" /\ NoJob \notin Job /\ job \in [Job -> JobState] /\ bg = Cardinality(Counted(job))
      /\ filed \in Job \cup {NoJob} /\ (filed # NoJob => job[filed].kind = "auto" /\ job[filed].pc \in {"timer", "fired"})
  BY EditConstants DEF IInv, TypeOK, TimerInv, CloseWaits, Counted, Watch
<1>2. PICK b \in BOOLEAN : b <=> (settle # NoJob /\ job[settle].pc = "timer")
  OBVIOUS
<1>3. PICK g : g = Stopped(job, settle)
  OBVIOUS
<1>4. /\ g \in [Job -> JobState]
      /\ \A i \in Job : i # settle => g[i] = job[i]
      /\ \A i \in Job : g[i] = job[i] \/ g[i] = Idle
      /\ IsFiniteSet(Counted(g)) /\ Cardinality(Counted(g)) \in Nat /\ Cardinality(Counted(job)) \in Nat
      /\ Cardinality(Counted(g)) = Cardinality(Counted(job)) - (IF b THEN 1 ELSE 0)
  <2>1. settle # NoJob => job[settle].kind \in Tracked
    BY <1>1 DEF Tracked
  <2> QED
    BY <1>1, <1>2, <1>3, <2>1, StopCounts
<1>5. PICK x : x = [Idle EXCEPT !.kind = "reconcile", !.pc = "timer"]
  OBVIOUS
<1>6. x \in JobState /\ x.kind = "reconcile" /\ x.pc = "timer"
  <2>1. x = [kind |-> "reconcile", pc |-> "timer", text |-> None, base |-> None, dirty |-> FALSE, late |-> FALSE]
    BY <1>5 DEF Idle
  <2>2. "reconcile" \in Tracked \cup Calls \cup {"none"} /\ "timer" \in Pc /\ None \in Text \cup {None}
    BY DEF Tracked, Pc
  <2> QED
    BY <2>1, <2>2, NewJob
<1>7. /\ job' = [g EXCEPT ![k] = x] /\ bg' = bg - (IF b THEN 1 ELSE 0) + 1 /\ settle' = k
      /\ UNCHANGED <<remote, local, agreed, sess, paused, tried, filed, runner, life, shown>>
  BY <1>2, <1>3, <1>5 DEF Watch, StopDone, auto
<1>8. event' \in BOOLEAN
  BY DEF Watch
<1>9. job' \in [Job -> JobState] /\ job'[k] = x /\ \A i \in Job : i # k => job'[i] = g[i]
  BY <1>4, <1>6, <1>7
<1>10. bg' \in Nat /\ bg' = Cardinality(Counted(job'))
  <2>1. k \notin Counted(g)
    BY <1>1, <1>4, IdleIs DEF Counted, Tracked
  <2>2. Counted(job') = Counted(g) \cup {k}
    BY <1>6, <1>9 DEF Counted, Tracked
  <2>3. Cardinality(Counted(job')) = Cardinality(Counted(g)) + 1
    BY <1>4, <2>1, <2>2, FS_AddElement
  <2> QED
    BY <1>1, <1>4, <1>7, <2>3
<1>11. TypeOK'
  BY <1>1, <1>7, <1>8, <1>9, <1>10 DEF TypeOK
<1>12. CloseWaits'
  BY <1>1, <1>7, <1>10 DEF CloseWaits, Counted
<1>13. TimerInv'
  <2>1. filed # NoJob => filed # k /\ filed # settle
    BY <1>1, IdleIs
  <2> QED
    BY <1>1, <1>4, <1>6, <1>7, <1>9, <2>1 DEF TimerInv
<1>14. Fits(x) /\ ~Holding(x) /\ Restored(x) /\ Restored(Idle)
  BY <1>6, IdleIs DEF Fits, Holding, Restored, Calls, Saves, Plain, Forced
<1>15. \A i \in Job : job'[i] = job[i] \/ (Fits(job'[i]) /\ ~Holding(job'[i]))
  BY <1>4, <1>9, <1>14, IdleIs
<1>16. \A i \in Job : sess'.mode = "manual_restored" => Restored(job'[i])
  <2>1. \A i \in Job : sess.mode = "manual_restored" => Restored(job[i])
    BY DEF IInv, RestoredInv
  <2> QED
    BY <1>4, <1>7, <1>9, <1>14, <2>1
<1> QED
  BY <1>7, <1>11, <1>12, <1>13, <1>15, <1>16, AroundKeeps

\* Whoever leaves the jobs alone.
LEMMA OutsideKeeps ==
  ASSUME IInv, UNCHANGED <<remote, agreed, paused, tried, filed, settle, runner, job, bg, shown>>,
         local' \in Text, event' \in BOOLEAN, sess' \in Session, sess'.base = sess.base,
         sess'.mode = "manual_restored" => sess.mode = "manual_restored",
         life' = life \/ (life' = "closed" /\ bg = 0)
  PROVE  IInv'
<1>1. TypeOK'
  BY DEF IInv, TypeOK
<1>2. life' = "closed" => \A j \in Job : job[j].kind \notin Tracked
  <2>1. CASE bg = 0
    <3>1. IsFiniteSet(Counted(job)) /\ Cardinality(Counted(job)) = 0
      BY <2>1, EditConstants, FS_Subset DEF Counted, IInv, CloseWaits
    <3>2. Counted(job) = {}
      BY <3>1, FS_EmptySet
    <3> QED
      BY <3>2 DEF Counted
  <2>2. CASE life' = life
    BY <2>2 DEF IInv, CloseWaits
  <2> QED
    BY <2>1, <2>2
<1>3. CloseWaits'
  BY <1>2 DEF IInv, CloseWaits
<1>4. TimerInv'
  BY DEF IInv, TimerInv, Idle
<1>5. \A i \in Job : sess'.mode = "manual_restored" => Restored(job'[i])
  BY DEF IInv, RestoredInv
<1> QED
  BY <1>1, <1>3, <1>4, <1>5, AroundKeeps

\* A binding is called.
LEMMA AskKeeps ==
  ASSUME IInv, NEW j \in Job, NEW k \in Calls, NEW t \in Text \cup {None}, Ask(j, k, t)
  PROVE  IInv'
<1>1. TypeOK /\ job[j] = Idle /\ job \in [Job -> JobState] /\ shown \in Text \cup {None} /\ life # "down"
      /\ (k \in {"text", "merge"} => t \in Text)
  BY DEF IInv, TypeOK, Ask
<1>2. PICK base \in Text \cup {None} : base = IF k = "merge" THEN shown ELSE None
  BY <1>1
<1>3. PICK x : x = [Idle EXCEPT !.kind = k, !.pc = "queue", !.text = t, !.base = base]
  OBVIOUS
<1>4. x \in JobState /\ x.kind = k /\ x.pc = "queue" /\ x.text = t
  <2>1. x = [kind |-> k, pc |-> "queue", text |-> t, base |-> base, dirty |-> FALSE, late |-> FALSE]
    BY <1>3 DEF Idle
  <2>2. k \in Tracked \cup Calls \cup {"none"} /\ "queue" \in Pc
    BY DEF Pc
  <2> QED
    BY <2>1, <2>2, NewJob
<1>5. /\ job' = [job EXCEPT ![j] = x]
      /\ UNCHANGED <<remote, local, event, agreed, sess, paused, tried, filed, settle, runner, bg, life, shown>>
  BY <1>2, <1>3 DEF Ask, files, auto
<1>6. job' \in [Job -> JobState] /\ job'[j] = x /\ \A i \in Job : i # j => job'[i] = job[i]
  BY <1>1, <1>4, <1>5
<1>7. k \notin Tracked /\ k # "none"
  BY DEF Calls, Saves, Plain, Forced, Tracked
<1>8. TypeOK'
  BY <1>1, <1>5, <1>6 DEF TypeOK
<1>9. \A i \in Job : job'[i].kind \in Tracked <=> job[i].kind \in Tracked
  BY <1>1, <1>4, <1>6, <1>7, IdleIs DEF Tracked
<1>10. {i \in Job : job'[i].kind \in Tracked} = {i \in Job : job[i].kind \in Tracked}
  BY <1>9
<1>11. CloseWaits'
  BY <1>5, <1>9, <1>10 DEF IInv, CloseWaits
<1>12. TimerInv'
  <2>1. filed # j /\ settle # j /\ filed \in Job \cup {NoJob} /\ settle \in Job \cup {NoJob}
    BY <1>1, IdleIs, EditConstants DEF IInv, TimerInv, TypeOK
  <2> QED
    BY <1>1, <1>5, <1>6, <2>1 DEF IInv, TimerInv
<1>13. Fits(x) /\ ~Holding(x) /\ Restored(x)
  BY <1>1, <1>4, <1>7 DEF Fits, Holding, Restored, Tracked
<1>14. \A i \in Job : sess'.mode = "manual_restored" => Restored(job'[i])
  <2>1. \A i \in Job : sess.mode = "manual_restored" => Restored(job[i])
    BY DEF IInv, RestoredInv
  <2> QED
    BY <1>5, <1>6, <1>13, <2>1
<1> QED
  BY <1>5, <1>6, <1>8, <1>11, <1>12, <1>13, <1>14, AroundKeeps

\* Close takes back the timers it finds.
LEMMA CloseKeeps ==
  ASSUME IInv, Close
  PROVE  IInv'
<1>1. /\ TypeOK /\ settle \in Job \cup {NoJob} /\ (settle # NoJob => job[settle].kind = "reconcile")
      /\ NoJob \notin Job /\ job \in [Job -> JobState] /\ bg = Cardinality(Counted(job))
      /\ filed \in Job \cup {NoJob} /\ (filed # NoJob => job[filed].kind = "auto")
  BY EditConstants DEF IInv, TypeOK, TimerInv, CloseWaits, Counted
<1>2. PICK b \in BOOLEAN : b <=> (settle # NoJob /\ job[settle].pc = "timer")
  OBVIOUS
<1>3. PICK d \in BOOLEAN : d <=> (filed # NoJob /\ job[filed].pc = "timer")
  OBVIOUS
<1>4. PICK g : g = Stopped(job, settle)
  OBVIOUS
<1>5. /\ g \in [Job -> JobState]
      /\ \A i \in Job : i # settle => g[i] = job[i]
      /\ \A i \in Job : g[i] = job[i] \/ g[i] = Idle
      /\ Cardinality(Counted(job)) \in Nat
      /\ Cardinality(Counted(g)) = Cardinality(Counted(job)) - (IF b THEN 1 ELSE 0)
  <2>1. settle # NoJob => job[settle].kind \in Tracked
    BY <1>1 DEF Tracked
  <2> QED
    BY <1>1, <1>2, <1>4, <2>1, StopCounts
<1>6. filed # NoJob => g[filed] = job[filed]
  BY <1>1, <1>5
<1>7. PICK h : h = Stopped(g, filed)
  OBVIOUS
<1>8. /\ h \in [Job -> JobState]
      /\ \A i \in Job : h[i] = g[i] \/ h[i] = Idle
      /\ Cardinality(Counted(h)) \in Nat
      /\ Cardinality(Counted(h)) = Cardinality(Counted(g)) - (IF d THEN 1 ELSE 0)
  <2>1. (filed # NoJob => g[filed].kind \in Tracked) /\ (d <=> (filed # NoJob /\ g[filed].pc = "timer"))
    BY <1>1, <1>3, <1>6 DEF Tracked
  <2> QED
    BY <1>1, <1>5, <1>7, <2>1, StopCounts
<1>9. /\ job' = h /\ bg' = bg - (IF b THEN 1 ELSE 0) - (IF d THEN 1 ELSE 0) /\ settle' = NoJob /\ filed' = NoJob
      /\ UNCHANGED <<remote, local, agreed, sess, paused, tried, runner, shown>> /\ life' = "closing"
  BY <1>2, <1>3, <1>4, <1>7 DEF Close, StopDone
<1>10. event' \in BOOLEAN
  BY DEF Close
<1>11. bg' = Cardinality(Counted(job')) /\ bg' \in Nat
  BY <1>1, <1>5, <1>8, <1>9
<1>12. TypeOK'
  BY <1>1, <1>8, <1>9, <1>10, <1>11 DEF TypeOK
<1>13. CloseWaits' /\ TimerInv'
  BY <1>9, <1>11 DEF CloseWaits, Counted, TimerInv
<1>14. \A i \in Job : job'[i] = job[i] \/ job'[i] = Idle
  BY <1>5, <1>8, <1>9
<1>15. \A i \in Job : sess'.mode = "manual_restored" => Restored(job'[i])
  <2>1. \A i \in Job : sess.mode = "manual_restored" => Restored(job[i])
    BY DEF IInv, RestoredInv
  <2>2. Restored(Idle)
    BY IdleIs DEF Restored
  <2> QED
    BY <1>9, <1>14, <2>1, <2>2
<1> QED
  BY <1>9, <1>12, <1>13, <1>14, <1>15, IdleIs, AroundKeeps

\* Somebody else writes the remote file: whoever has looked is late.
LEMMA ForeignKeeps ==
  ASSUME IInv, NEW t \in Text \cup {Gone}, Foreign(t)
  PROVE  IInv'
<1>1. TypeOK /\ job \in [Job -> JobState]
  BY DEF IInv, TypeOK
<1>2. /\ remote' = t /\ UNCHANGED <<local, event, agreed, sess, paused, tried, filed, settle, runner, bg, life, shown>>
      /\ job' = [j \in Job |-> [job[j] EXCEPT !.late = job[j].late \/ Looked(j)]]
  BY DEF Foreign, auto
<1>3. ASSUME NEW j \in Job
      PROVE  /\ job'[j] \in JobState /\ job'[j].kind = job[j].kind /\ job'[j].pc = job[j].pc
             /\ job'[j].text = job[j].text /\ job'[j].base = job[j].base /\ job'[j].dirty = job[j].dirty
             /\ Looked(j) => job'[j].late
             /\ job[j] = Idle => job'[j] = Idle
  <2>1. PICK y \in JobState : y = job[j]
    BY <1>1
  <2>2. PICK b \in BOOLEAN : b = (job[j].late \/ Looked(j))
    OBVIOUS
  <2>3. PICK x : x = [y EXCEPT !.late = b]
    OBVIOUS
  <2>4. x \in JobState
    BY <2>3 DEF JobState
  <2>5. /\ x.kind = y.kind /\ x.pc = y.pc /\ x.text = y.text /\ x.base = y.base /\ x.dirty = y.dirty /\ x.late = b
    BY <2>3, <2>4 DEF JobState
  <2>6. job'[j] = x
    BY <1>2, <2>1, <2>2, <2>3
  <2>7. Looked(j) => b
    BY <2>2
  <2>8. ASSUME job[j] = Idle
        PROVE  x = Idle
    <3>1. y = [kind |-> "none", pc |-> "idle", text |-> None, base |-> None, dirty |-> FALSE, late |-> FALSE]
      BY <2>1, <2>8 DEF Idle
    <3>2. ~Looked(j) /\ ~job[j].late
      BY <2>1, <3>1 DEF Looked
    <3>3. b = FALSE
      BY <2>2, <3>2
    <3> QED
      BY <2>3, <3>1, <3>3 DEF Idle
  <2> QED
    BY <2>1, <2>4, <2>5, <2>6, <2>7, <2>8
<1>4. job' \in [Job -> JobState]
  BY <1>2, <1>3
<1>5. TypeOK'
  BY <1>1, <1>2, <1>4 DEF TypeOK
<1>6. CloseWaits'
  <2>1. {j \in Job : job'[j].kind \in Tracked} = {j \in Job : job[j].kind \in Tracked}
    BY <1>3
  <2> QED
    BY <1>2, <1>3, <2>1 DEF IInv, CloseWaits
<1>7. TimerInv'
  <2>1. filed \in Job \cup {NoJob} /\ settle \in Job \cup {NoJob}
    BY <1>1 DEF TypeOK
  <2>2. life = "down" => \A j \in Job : job'[j] = Idle
    BY <1>3 DEF IInv, TimerInv
  <2>3. filed # NoJob => job'[filed].kind = "auto" /\ job'[filed].pc \in {"timer", "fired"}
    BY <1>3, <2>1 DEF IInv, TimerInv
  <2>4. settle # NoJob => job'[settle].kind = "reconcile"
    BY <1>3, <2>1 DEF IInv, TimerInv
  <2> QED
    BY <1>2, <2>2, <2>3, <2>4 DEF TimerInv
<1>8. JobInv'
  <2>1. ASSUME NEW j \in Job
        PROVE  Fits(job'[j]) /\ (Holding(job'[j]) => runner' = j) /\ Sound(job[j])'
    <3>1. Fits(job[j]) /\ (Holding(job[j]) => runner = j) /\ Sound(job[j])
      BY DEF IInv, JobInv
    <3>2. Fits(job'[j]) /\ (Holding(job'[j]) => runner' = j)
      BY <1>2, <1>3, <3>1 DEF Fits, Holding
    <3>3. \/ job[j].pc = "write"
          \/ job[j].kind = "merge" /\ job[j].pc \in {"final", "begin", "look"}
          => job'[j].late
      BY <1>3 DEF Looked
    <3>4. job'[j].kind \in Saves \ {"merge"} /\ job'[j].pc = "look" => job'[j].base = sess'.base
      BY <1>2, <1>3, <3>1 DEF Sound
    <3>5. job'[j].pc = "write" => job'[j].late
      BY <1>3, <3>3
    <3>6. job'[j].kind = "merge" /\ job'[j].pc \in {"final", "begin", "look", "write"} => job'[j].late
      BY <1>3, <3>3
    <3>7. Sound(job[j])'
      BY <3>4, <3>5, <3>6 DEF Sound
    <3> QED
      BY <3>2, <3>7
  <2> QED
    BY <2>1 DEF JobInv, Fits, Holding
<1>9. RestoredInv'
  BY <1>2, <1>3 DEF IInv, RestoredInv, Restored
<1>10. sess'.base \in agreed'
  BY <1>2 DEF IInv
<1> QED
  BY <1>5, <1>6, <1>7, <1>8, <1>9, <1>10 DEF IInv

\* The process ends.
LEMMA ExitKeeps ==
  ASSUME IInv, Exit
  PROVE  IInv'
<1>1. /\ \A j \in Job : job'[j] = Idle
      /\ job' \in [Job -> JobState] /\ bg' = 0 /\ runner' = NoJob /\ settle' = NoJob /\ filed' = NoJob
      /\ tried' = None /\ shown' = None /\ life' = "down"
      /\ UNCHANGED <<remote, local, agreed, sess>>
  BY IdleIs DEF Exit
<1>2. event' \in BOOLEAN /\ paused' \in BOOLEAN
  BY DEF Exit
<1>3. TypeOK'
  BY <1>1, <1>2 DEF IInv, TypeOK
<1>4. CloseWaits'
  <2>1. {j \in Job : job'[j].kind \in Tracked} = {}
    BY <1>1, IdleIs DEF Tracked
  <2>2. Cardinality({}) = 0
    BY FS_EmptySet
  <2> QED
    BY <1>1, <2>1, <2>2 DEF CloseWaits
<1>5. TimerInv'
  BY <1>1 DEF TimerInv
<1>6. Fits(Idle) /\ ~Holding(Idle) /\ Restored(Idle)
  BY IdleIs DEF Restored
<1> QED
  BY <1>1, <1>3, <1>4, <1>5, <1>6, AroundKeeps

\* The process starts, with a check in the background.
LEMMA StartKeeps ==
  ASSUME IInv, NEW k \in Job, Start(k)
  PROVE  IInv'
<1>1. /\ TypeOK /\ sess \in Session /\ job \in [Job -> JobState] /\ (\A j \in Job : job[j] = Idle) /\ bg = Cardinality(Counted(job))
      /\ life' = "up" /\ UNCHANGED <<remote, local, event, agreed, paused, tried, filed, settle, runner, shown>>
  BY DEF IInv, TypeOK, TimerInv, Start, CloseWaits, Counted, files, auto
<1>2. sess' \in Session /\ sess'.base = sess.base
  <2>1. PICK e : e = [sess EXCEPT !.mode = "manual_restored"]
    OBVIOUS
  <2>2. e \in Session
    BY <1>1, <2>1 DEF Session
  <2>3. e.base = sess.base
    BY <1>1, <2>1, <2>2 DEF Session
  <2> QED
    BY <2>1, <2>2, <2>3 DEF Start
<1>3. Counted(job) = {} /\ bg = 0
  <2>1. Counted(job) = {}
    BY <1>1, IdleIs DEF Counted, Tracked
  <2> QED
    BY <1>1, <2>1, FS_EmptySet
<1>4. PICK x : x = [Idle EXCEPT !.kind = "check", !.pc = "fired"]
  OBVIOUS
<1>5. x \in JobState /\ x.kind = "check" /\ x.pc = "fired"
  <2>1. x = [kind |-> "check", pc |-> "fired", text |-> None, base |-> None, dirty |-> FALSE, late |-> FALSE]
    BY <1>4 DEF Idle
  <2>2. "check" \in Tracked \cup Calls \cup {"none"} /\ "fired" \in Pc /\ None \in Text \cup {None}
    BY DEF Tracked, Pc
  <2> QED
    BY <2>1, <2>2, NewJob
<1>6. (job' = job /\ bg' = bg) \/ (job' = [job EXCEPT ![k] = x] /\ bg' = bg + 1)
  BY <1>4 DEF Start
<1>7. /\ job' \in [Job -> JobState] /\ \A j \in Job : job'[j] = Idle \/ (j = k /\ job'[j] = x)
  BY <1>1, <1>5, <1>6
<1>8. bg' \in Nat /\ bg' = Cardinality(Counted(job'))
  <2>1. CASE job' = job /\ bg' = bg
    BY <1>1, <1>3, <2>1
  <2>2. CASE job' = [job EXCEPT ![k] = x] /\ bg' = bg + 1
    <3>1. job'[k] = x /\ \A j \in Job : j # k => job'[j] = job[j]
      BY <1>1, <2>2
    <3>2. Counted(job') = Counted(job) \cup {k} /\ k \notin Counted(job)
      BY <1>3, <1>5, <3>1 DEF Counted, Tracked
    <3>3. Cardinality(Counted(job')) = Cardinality(Counted(job)) + 1
      <4>1. PICK S : S = Counted(job)
        OBVIOUS
      <4>2. IsFiniteSet(S)
        BY <1>3, <4>1, FS_EmptySet
      <4>3. Cardinality(S \cup {k}) = Cardinality(S) + 1
        BY <3>2, <4>1, <4>2, FS_AddElement
      <4> QED
        BY <3>2, <4>1, <4>3
    <3> QED
      BY <1>1, <1>3, <2>2, <3>3
  <2> QED
    BY <1>6, <2>1, <2>2
<1>9. TypeOK'
  BY <1>1, <1>2, <1>7, <1>8 DEF TypeOK
<1>10. filed = NoJob /\ settle = NoJob
  BY <1>1, IdleIs DEF IInv, TimerInv, TypeOK
<1>11. CloseWaits' /\ TimerInv'
  BY <1>1, <1>8, <1>10 DEF CloseWaits, Counted, TimerInv
<1>12. Fits(Idle) /\ ~Holding(Idle) /\ Restored(Idle) /\ Fits(x) /\ ~Holding(x) /\ Restored(x)
  BY <1>5, IdleIs DEF Fits, Holding, Restored, Calls, Saves, Plain, Forced
<1> QED
  BY <1>1, <1>2, <1>7, <1>9, <1>11, <1>12, AroundKeeps

\* The user opens the file again.
LEMMA OpenReusesKeeps ==
  ASSUME IInv, NEW e \in {"external", "built_in"}, OpenReuses(e)
  PROVE  IInv'
<1>1. TypeOK /\ sess \in Session
  BY DEF IInv, TypeOK
<1>2. PICK mode \in {"manual_explicit", "auto_live"} : mode = saveModeForEditor(e)
  BY DEF saveModeForEditor
<1>3. PICK n : n = [sess EXCEPT !.editor = e, !.mode = mode, !.merge = None]
  OBVIOUS
<1>4. n \in Session
  BY <1>1, <1>3 DEF Session
<1>5. n.base = sess.base /\ n.mode = mode
  BY <1>1, <1>3, <1>4 DEF Session
<1>6. sess' = n /\ UNCHANGED <<remote, local, event, agreed, paused, tried, filed, settle, runner, job, bg, life, shown>>
  BY <1>2, <1>3 DEF OpenReuses, files, auto
<1>7. local' \in Text /\ event' \in BOOLEAN
  BY <1>1, <1>6 DEF TypeOK
<1> QED
  BY <1>4, <1>5, <1>6, <1>7, OutsideKeeps

-----------------------------------------------------------------------------
(* The theorems *)

\* The invariant holds in every initial state.
LEMMA InitHolds == Init => IInv
<1> SUFFICES ASSUME Init
             PROVE  IInv
  OBVIOUS
<1>1. PICK t \in Text : /\ remote = t /\ local = t /\ agreed = {t} /\ sess = NewSession(t, "external")
  BY DEF Init
<1>2. PICK e : e = NewSession(t, "external")
  OBVIOUS
<1>3. e \in Session /\ e.base = t /\ e.mode # "manual_restored"
  BY <1>2, RenewedIs
<1>4. /\ (\A j \in Job : job[j] = Idle) /\ job \in [Job -> JobState] /\ bg = 0 /\ life = "up" /\ shown = None
      /\ tried = None /\ filed = NoJob /\ settle = NoJob /\ runner = NoJob
  BY IdleIs DEF Init
<1>5. event \in BOOLEAN /\ paused \in BOOLEAN
  BY DEF Init
<1>6. TypeOK
  BY <1>1, <1>2, <1>3, <1>4, <1>5 DEF TypeOK
<1>7. CloseWaits
  <2>1. {j \in Job : job[j].kind \in Tracked} = {}
    BY <1>4, IdleIs DEF Tracked
  <2> QED
    BY <1>4, <2>1, FS_EmptySet DEF CloseWaits
<1>8. JobInv
  BY <1>4, IdleIs, FreeIsSound DEF JobInv
<1>9. TimerInv /\ RestoredInv /\ sess.base \in agreed
  BY <1>1, <1>2, <1>3, <1>4 DEF TimerInv, RestoredInv
<1> QED
  BY <1>6, <1>7, <1>8, <1>9 DEF IInv

\* Every step keeps it.
LEMMA NextKeeps == IInv /\ [Next]_vars => IInv'
<1> SUFFICES ASSUME IInv, [Next]_vars
             PROVE  IInv'
  OBVIOUS
<1>0. TypeOK
  BY DEF IInv
<1>1. ASSUME NEW j \in Job, JobStep(j)
      PROVE  IInv'
  <2>1. CASE Fire(j) \/ Acquire(j) \/ ReconcileRead(j) \/ ReconcileApply(j) \/ ReconcilePlan(j) \/ RunAutoSave(j) \/ AutoSaveStops(j)
    BY <2>1, FireKeeps, AcquireKeeps, ReconcileReadKeeps, ReconcileApplyKeeps, ReconcilePlanKeeps, RunAutoSaveKeeps,
       AutoSaveStopsKeeps
  <2>2. CASE SaveFails(j) \/ SaveBegins(j) \/ SaveLooks(j) \/ SaveWrites(j) \/ SaveWriteMissing(j) \/ SaveMarks(j) \/ Resumes(j)
    BY <2>2, SaveFailsKeeps, SaveBeginsKeeps, SaveLooksKeeps, SaveWritesKeeps, SaveWriteMissingKeeps, SaveMarksKeeps,
       ResumesKeeps
  <2>3. CASE \/ TypeText(j) \/ CallFails(j) \/ CallBegins(j) \/ RefreshLooks(j) \/ RereadLooks(j)
             \/ RebuildFetches(j) \/ RebuildSwaps(j) \/ RebuildEnds(j) \/ PrepareLooks(j) \/ MergeChecks(j) \/ MergeFinal(j)
    BY <2>3, TypingKeeps, CallFailsKeeps, CallBeginsKeeps, RefreshLooksKeeps, RereadLooksKeeps, RebuildKeeps,
       PrepareLooksKeeps, MergeChecksKeeps
  <2>4. CASE CheckBegins(j) \/ CheckFails(j) \/ CheckLooks(j)
    BY <2>4, CheckKeeps
  <2> QED
    BY <1>1, <2>1, <2>2, <2>3, <2>4 DEF JobStep
<1>2. ASSUME NEW k \in Job, Watch(k) \/ Start(k)
      PROVE  IInv'
  BY <1>2, WatchKeeps, StartKeeps
<1>3. ASSUME NEW j \in Job, NEW k \in Calls, NEW t \in Text \cup {None}, Ask(j, k, t)
      PROVE  IInv'
  BY <1>3, AskKeeps
<1>4. ASSUME NEW e \in {"external", "built_in"}, OpenReuses(e)
      PROVE  IInv'
  BY <1>4, OpenReusesKeeps
<1>5. ASSUME NEW t \in Text, Edit(t)
      PROVE  IInv'
  <2>1. local' = t /\ UNCHANGED <<remote, agreed, sess, paused, tried, filed, settle, runner, job, bg, life, shown>>
    BY <1>5 DEF Edit, auto
  <2>2. event' \in BOOLEAN
    BY <1>5 DEF Edit
  <2>3. sess' \in Session
    BY <1>0, <2>1 DEF TypeOK
  <2> QED
    BY <2>1, <2>2, <2>3, OutsideKeeps
<1>6. ASSUME NEW t \in Text \cup {Gone}, Foreign(t)
      PROVE  IInv'
  BY <1>6, ForeignKeeps
<1>7. CASE Close \/ Exit
  BY <1>7, CloseKeeps, ExitKeeps
<1>8. CASE CloseReturns \/ UNCHANGED vars
  <2>1. /\ UNCHANGED <<remote, local, event, agreed, sess, paused, tried, filed, settle, runner, job, bg, shown>>
        /\ life' = life \/ (life' = "closed" /\ bg = 0)
    BY <1>8 DEF CloseReturns, vars, files, auto
  <2>2. local' \in Text /\ event' \in BOOLEAN /\ sess' \in Session
    BY <1>0, <2>1 DEF TypeOK
  <2> QED
    BY <2>1, <2>2, OutsideKeeps
<1> QED
  BY <1>1, <1>2, <1>3, <1>4, <1>5, <1>6, <1>7, <1>8 DEF Next

\* The invariant of external editing holds throughout.
THEOREM Invariance == Spec => []IInv
BY InitHolds, NextKeeps, PTL DEF Spec

\* The state keeps the shape of the session, the maps and the files.
THEOREM TypeCorrect == Spec => []TypeOK
<1>1. IInv => TypeOK
  BY DEF IInv
<1> QED
  BY <1>1, Invariance, PTL

\* Close returns exactly when the last timer and goroutine is done, for any number of them.
THEOREM CloseWaitsForAll == Spec => []CloseWaits
<1>1. IInv => CloseWaits
  BY DEF IInv
<1> QED
  BY <1>1, Invariance, PTL

\* A restored draft is not uploaded by itself.
THEOREM RestoredDraftWaits == Spec => []RestoredWaits
<1>1. IInv => RestoredWaits
  BY DEF IInv, RestoredInv, Restored, RestoredWaits
<1> QED
  BY <1>1, Invariance, PTL

\* A save that nobody forced and that looked in time replaces what both ends agreed on.
THEOREM OverwritesOnlySeen == Spec => NoUnseenOverwrite
<1>1. IInv => \A j \in Job : SaveWrites(j) /\ ~job[j].late =>
                /\ job[j].kind \in Plain => remote \in agreed
                /\ job[j].kind = "recreate" => remote \in agreed \cup {Gone}
                /\ job[j].kind = "merge" => remote = job[j].base
  <2> SUFFICES ASSUME IInv, NEW j \in Job, SaveWrites(j), ~job[j].late
               PROVE  /\ job[j].kind \in Plain => remote \in agreed
                      /\ job[j].kind = "recreate" => remote \in agreed \cup {Gone}
                      /\ job[j].kind = "merge" => remote = job[j].base
    OBVIOUS
  <2>1. job[j].pc = "write" /\ Sound(job[j])
    BY JobIs DEF SaveWrites, At
  <2> QED
    BY <2>1 DEF Sound
<1> QED
  BY <1>1, Invariance, PTL DEF NoUnseenOverwrite

\* A step under the runner, by whoever holds it, changes its job.
LEMMA WorkMoves ==
  ASSUME IInv, NEW j \in Job, Holding(job[j]), NEW x \in JobState, x.pc # job[j].pc, Become(j, x, NoJob), x.kind \in {"none", job[j].kind}
  PROVE  runner # NoJob /\ job'[runner] # job[runner]
<1>1. runner = j /\ j # NoJob
  BY JobIs
<1>2. x.kind \in Tracked => job[j].kind \in Tracked
  BY DEF Tracked
<1>3. job'[j] = x
  BY <1>1, <1>2, BecomeIs
<1> QED
  BY <1>1, <1>3

\* What ends a conflict is a step of the job that holds the runner.
LEMMA ClashEnds ==
  ASSUME IInv, Next, sess.state \in Clash, sess'.state \notin Clash
  PROVE  runner # NoJob /\ job'[runner] # job[runner]
<1>0. sess \in Session /\ "remote_missing" \in Clash /\ "conflict" \in Clash
  BY DEF IInv, TypeOK, Clash
<1>1. sess' # sess
  OBVIOUS
<1>2. ASSUME NEW j \in Job, NEW state \in Clash, NEW seen, MarkClash(j, state, seen)
      PROVE  FALSE
  <2>1. sess'.state = state
    BY <1>0, <1>2 DEF MarkClash, Session
  <2> QED
    BY <2>1
<1>3. ASSUME NEW e, OpenReuses(e)
      PROVE  FALSE
  <2>1. sess'.state = sess.state
    BY <1>0, <1>3 DEF OpenReuses, Session
  <2> QED
    BY <2>1
<1>4. ASSUME NEW k \in Job, Watch(k) \/ Start(k)
      PROVE  FALSE
  <2>1. sess'.state = sess.state
    BY <1>0, <1>4 DEF Watch, Start, Session
  <2> QED
    BY <2>1
<1>5. PICK j \in Job : JobStep(j)
  BY <1>1, <1>3, <1>4 DEF Next, Ask, Edit, Foreign, Close, CloseReturns, Exit
<1>6. PICK y \in JobState : y = job[j] /\ Fits(y)
  BY JobIs
<1>7. ~(Fire(j) \/ Acquire(j) \/ ReconcileRead(j) \/ ReconcilePlan(j) \/ RunAutoSave(j) \/ AutoSaveStops(j)
        \/ SaveFails(j) \/ SaveBegins(j) \/ SaveWrites(j) \/ Resumes(j) \/ CallFails(j) \/ CallBegins(j)
        \/ RebuildFetches(j) \/ RebuildSwaps(j) \/ CheckBegins(j) \/ CheckFails(j))
  BY <1>1 DEF Fire, Acquire, ReconcileRead, ReconcilePlan, RunAutoSave, AutoSaveStops, SaveFails, SaveBegins, SaveWrites,
     Resumes, CallFails, CallBegins, RebuildFetches, RebuildSwaps, CheckBegins, CheckFails
<1>8. ~(SaveLooks(j) \/ SaveWriteMissing(j) \/ RereadLooks(j) \/ MergeChecks(j) \/ CheckLooks(j))
  BY <1>0, <1>1, <1>2 DEF SaveLooks, SaveWriteMissing, RereadLooks, MergeChecks, CheckLooks
<1>9. ~PrepareLooks(j)
  <2>1. PrepareLooks(j) => sess'.state = sess.state
    BY <1>0, <1>2 DEF PrepareLooks, Session
  <2> QED
    BY <2>1
<1>10. ~ReconcileApply(j)
  BY <1>1 DEF ReconcileApply
<1>11. CASE TypeText(j) \/ MergeFinal(j)
  <2>1. y.pc \in {"type", "final"} /\ Become(j, [y EXCEPT !.pc = "begin"], NoJob)
    BY <1>6, <1>11 DEF TypeText, MergeFinal, At, Goes
  <2>2. PICK x : x = [y EXCEPT !.pc = "begin"]
    OBVIOUS
  <2>3. "begin" \in Pc
    BY DEF Pc
  <2>4. x \in JobState /\ x.pc = "begin" /\ x.kind = y.kind
    BY <2>2, <2>3, GoesIs
  <2> QED
    BY <1>6, <2>1, <2>2, <2>4, AtWork, WorkMoves
<1>12. CASE SaveMarks(j) \/ RebuildEnds(j)
  <2>1. y.pc \in {"mark", "rebuild"}
    BY <1>6, <1>12 DEF SaveMarks, RebuildEnds, At
  <2>2. Holding(y)
    BY <1>6, <2>1, AtWork
  <2>3. PICK x : (x = [y EXCEPT !.pc = "resume", !.text = None] \/ x = Idle) /\ Become(j, x, NoJob)
    BY <1>6, <1>12 DEF SaveMarks, RebuildEnds, Returns, Leave
  <2>4. x \in JobState /\ x.pc \in {"resume", "idle"} /\ x.kind \in {"none", y.kind}
    <3>1. CASE x = [y EXCEPT !.pc = "resume", !.text = None]
      <4>1. x \in JobState
        BY <3>1 DEF JobState
      <4> QED
        BY <3>1, <4>1 DEF JobState
    <3> QED
      BY <2>3, <3>1, IdleIs
  <2> QED
    BY <1>6, <2>1, <2>2, <2>3, <2>4, WorkMoves
<1>13. CASE RefreshLooks(j)
  <2>1. y.pc = "look" /\ y.kind = "refresh"
    BY <1>6, <1>13 DEF RefreshLooks, At
  <2>2. Holding(y)
    BY <1>6, <2>1, AtWork
  <2>3. ~(\E d : sess' = [sess EXCEPT !.state = "conflict", !.dirty = d, !.seen = y.text])
    BY <1>0 DEF Session
  <2>4. Returns(j)
    BY <1>6, <1>13, <2>3, Zenon DEF RefreshLooks
  <2>5. Become(j, Idle, NoJob)
    BY <2>4 DEF Returns, Leave
  <2> QED
    BY <1>6, <2>1, <2>2, <2>5, IdleIs, WorkMoves
<1> QED
  BY <1>5, <1>7, <1>8, <1>9, <1>10, <1>11, <1>12, <1>13 DEF JobStep

\* A conflict stays until the job that holds the runner ends it.
THEOREM ConflictStays == Spec => ConflictSticks
<1>1. IInv /\ [Next]_vars =>
        [sess.state \in Clash /\ sess'.state \notin Clash => runner # NoJob /\ job'[runner] # job[runner]]_vars
  BY ClashEnds
<1> QED
  BY <1>1, Invariance, PTL DEF Spec, ConflictSticks
=============================================================================

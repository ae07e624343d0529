---------------------------- MODULE ExternalEdit ----------------------------
(***************************************************************************)
(* One remote file edited through a local copy                             *)
(* (internal/service/external_edit_svc).  The service remembers the remote *)
(* content the copy started from (the base), watches the copy, writes it   *)
(* back - by itself when an external editor saves, on request otherwise -  *)
(* and stops at a conflict when somebody else has changed the remote file. *)
(*                                                                         *)
(* Calls of the user, timer callbacks and the check after a restart are    *)
(* jobs.  A job holds the document's runner mutex, or does not, across     *)
(* several reads and writes of the two files; everything in between may    *)
(* change under it.  Contents stand for themselves and for their SHA-256.  *)
(* The document has one session, which Init finds just opened in an        *)
(* external editor.                                                        *)
(***************************************************************************)
EXTENDS Naturals, FiniteSets

CONSTANTS
  Text, Gone, None,   \* contents; a remote file that is not there; no content
  Job, NoJob,
  MaxUser, MaxForeign, MaxStart   \* bounds on edits and calls, foreign writes, restarts

ASSUME EditConstants ==
  /\ Gone \notin Text /\ None \notin Text \cup {Gone}
  /\ IsFiniteSet(Job) /\ NoJob \notin Job
  /\ MaxUser \in Nat /\ MaxForeign \in Nat /\ MaxStart \in Nat

VARIABLES
  remote,    \* the remote file
  local,     \* the local copy
  event,     \* the watcher has seen the copy change
  sess,      \* s.sessions[id], which is also what manifest.json holds
  paused,    \* s.autoSavePaused[documentKey]
  tried,     \* s.autoSaveTried[documentKey], the content of the attempt key
  filed,     \* s.autoSaveTimers[documentKey]
  settle,    \* s.reconcileTimers[id]
  runner,    \* who holds s.documentRunners[documentKey]
  job,       \* calls, timers and goroutines
  bg,        \* the count of s.bg
  life,      \* of the process
  shown,     \* the remote hash the merge window was opened with
  agreed,    \* what both sides last had in common: two contents while a write is unmarked
  count      \* what has been used of the bounds

files == <<remote, local, event, agreed>>
auto == <<paused, tried, filed>>
vars == <<remote, local, event, sess, paused, tried, filed, settle, runner, job, bg, life,
          shown, agreed, count>>

Tracked == {"reconcile", "auto", "check"}
Plain == {"save", "text", "auto"}      \* saveInternal without a resolution
Forced == {"overwrite", "merge"}       \* saveInternal with resolutionOverwrite
Saves == Plain \cup Forced \cup {"recreate"}
Calls == (Saves \ {"auto"}) \cup {"refresh", "reread", "prepare"}
Clash == {"conflict", "remote_missing"}

Idle == [kind |-> "none", pc |-> "idle", text |-> None, base |-> None, dirty |-> FALSE, late |-> FALSE]

\* What a job has read of the copy, and of the base; whether there is something to write;
\* whether the remote file has changed since the job made sure of it.
JobState ==
  [kind: Tracked \cup Calls \cup {"none"},
   pc: {"idle", "timer", "fired", "apply", "plan", "queue", "type", "check", "final", "begin", "look",
        "write", "mark", "resume", "fetch", "swap", "rebuild", "after"},
   text: Text \cup {None}, base: Text \cup {None}, dirty: BOOLEAN, late: BOOLEAN]

Session ==
  [base: Text, seen: Text, dirty: BOOLEAN, state: {"clean", "dirty"} \cup Clash,
   editor: {"external", "built_in"}, mode: {"auto_live", "manual_explicit", "manual_restored"},
   merge: Text \cup {None}]

At(j, k, pc) == job[j].kind \in k /\ job[j].pc = pc

saveModeForEditor(e) == IF e = "built_in" THEN "manual_explicit" ELSE "auto_live"

NewSession(t, e) ==
  [base |-> t, seen |-> t, dirty |-> FALSE, state |-> "clean", editor |-> e,
   mode |-> saveModeForEditor(e), merge |-> None]

Init ==
  \E t \in Text :
    /\ remote = t /\ local = t /\ agreed = {t}
    /\ sess = NewSession(t, "external")
    /\ event = FALSE /\ paused = FALSE /\ tried = None /\ filed = NoJob /\ settle = NoJob
    /\ runner = NoJob /\ job = [j \in Job |-> Idle] /\ bg = 0
    /\ life = "up" /\ shown = None
    /\ count = [user |-> 0, foreign |-> 0, start |-> 0]

-----------------------------------------------------------------------------
(* Jobs and timers *)

\* stopTrackedTimer: a timer that has not run is taken back together with its Add.
Stopped(f, t) == IF t # NoJob /\ f[t].pc = "timer" THEN [f EXCEPT ![t] = Idle] ELSE f
\* Mutant: the timer's Add is not taken back.
StoppedUncounted(t) == 0
StopDone(t) == IF t # NoJob /\ job[t].pc = "timer" THEN 1 ELSE 0

\* Job j goes on as x, or ends when x is Idle, and the timer t is stopped.
Become(j, x, t) ==
  /\ job' = Stopped([job EXCEPT ![j] = x], t)
  /\ bg' = bg - StopDone(t)
              - (IF job[j].kind \in Tracked /\ x.kind \notin Tracked THEN 1 ELSE 0)
  /\ settle' = IF settle = j /\ x.kind # "reconcile" THEN NoJob ELSE settle

Goes(j, pc) == Become(j, [job[j] EXCEPT !.pc = pc], NoJob)

\* The body under withDocumentRunner returns; runAutoSave goes on if it has to pause.
Leave(j, t, bad) ==
  /\ runner' = IF runner = j THEN NoJob ELSE runner
  /\ Become(j, IF bad /\ job[j].kind = "auto" THEN [Idle EXCEPT !.kind = "auto", !.pc = "after"]
               ELSE Idle, t)

Returns(j) == Leave(j, NoJob, FALSE)

\* pauseAutoSaveForDocument, resumeAutoSaveForDocument, cancelAutoSaveForDocument,
\* without the stopping of the timer.
Pause == paused' = TRUE /\ filed' = NoJob /\ UNCHANGED tried
Resume == paused' = FALSE /\ tried' = None /\ UNCHANGED filed
Cancel == filed' = NoJob /\ tried' = (IF paused THEN tried ELSE None) /\ UNCHANGED paused

Fire(j) ==
  /\ job[j].pc = "timer"
  /\ Goes(j, "fired")
  /\ UNCHANGED <<files, sess, auto, runner, life, shown, count>>

\* withDocumentRunner.
Acquire(j) ==
  /\ job[j].pc = "queue" /\ runner = NoJob
  /\ runner' = j
  /\ Goes(j, IF job[j].kind = "merge" THEN "check" ELSE IF job[j].kind = "text" THEN "type" ELSE "begin")
  /\ UNCHANGED <<files, sess, auto, life, shown, count>>

-----------------------------------------------------------------------------
(* The watcher *)

\* scheduleReconcile, called by watchLoop.
Watch(k) ==
  /\ event /\ life = "up" /\ job[k] = Idle
  /\ event' = FALSE
  /\ job' = [Stopped(job, settle) EXCEPT ![k] = [Idle EXCEPT !.kind = "reconcile", !.pc = "timer"]]
  /\ bg' = bg - StopDone(settle) + 1
  /\ settle' = k
  /\ UNCHANGED <<remote, local, agreed, sess, auto, runner, life, shown, count>>

\* reconcileLocalCopy looks at the session and then reads the copy.
ReconcileRead(j) ==
  /\ At(j, {"reconcile"}, "fired")
  /\ \/ /\ sess.state \in Clash
        /\ Cancel /\ Become(j, Idle, filed)
     \/ /\ sess.state \notin Clash
        /\ Become(j, [job[j] EXCEPT !.pc = "apply", !.text = local, !.base = sess.base], NoJob)
        /\ UNCHANGED auto
  /\ UNCHANGED <<files, sess, runner, life, shown, count>>

\* Mutant: a conflict marked meanwhile is not looked for.
ReconcileSettles(j) ==
  /\ At(j, {"reconcile"}, "apply")
  /\ sess' = [sess EXCEPT !.seen = job[j].text, !.dirty = job[j].text # job[j].base,
                          !.state = IF job[j].text # job[j].base THEN "dirty" ELSE "clean"]
  /\ Become(j, [job[j] EXCEPT !.pc = "plan", !.base = None, !.dirty = FALSE], NoJob)
  /\ UNCHANGED <<files, auto, runner, life, shown, count>>

\* Mutant: only explicit saving keeps a change from being uploaded.
ReconcileRestored(j) ==
  /\ At(j, {"reconcile"}, "apply") /\ sess.state \notin Clash
  /\ sess' = [sess EXCEPT !.seen = job[j].text, !.dirty = TRUE, !.state = "dirty"]
  /\ Become(j, [job[j] EXCEPT !.pc = "plan", !.base = None,
                              !.dirty = sess.mode # "manual_explicit"], NoJob)
  /\ UNCHANGED <<files, auto, runner, life, shown, count>>

\* ... and applies what it has read under s.mu.
ReconcileApply(j) ==
  LET dirty == job[j].text # job[j].base
      next == [sess EXCEPT !.seen = job[j].text, !.dirty = dirty,
                           !.state = IF dirty THEN "dirty" ELSE "clean"]
  IN
  /\ At(j, {"reconcile"}, "apply")
  /\ \/ /\ sess.state \in Clash
        /\ Cancel /\ Become(j, Idle, filed) /\ UNCHANGED sess
     \/ /\ sess.state \notin Clash /\ next = sess
        /\ Become(j, Idle, NoJob) /\ UNCHANGED <<sess, auto>>
     \/ /\ sess.state \notin Clash /\ next # sess
        /\ sess' = next
        /\ Become(j, [job[j] EXCEPT !.pc = "plan", !.base = None,
                                    !.dirty = dirty /\ sess.mode = "auto_live"], NoJob)
        /\ UNCHANGED auto
  /\ UNCHANGED <<files, runner, life, shown, count>>

\* scheduleAutoSave, or cancelAutoSaveForDocument: another critical section.
ReconcilePlan(j) ==
  /\ At(j, {"reconcile"}, "plan")
  /\ \/ /\ ~job[j].dirty
        /\ Cancel /\ Become(j, Idle, filed)
     \/ /\ job[j].dirty /\ (paused \/ tried = job[j].text)
        /\ Become(j, Idle, NoJob) /\ UNCHANGED auto
     \/ /\ job[j].dirty /\ ~paused /\ tried # job[j].text
        /\ \/ /\ life = "up"
              /\ Become(j, [Idle EXCEPT !.kind = "auto", !.pc = "timer", !.text = job[j].text], filed)
              /\ filed' = j
           \/ /\ life # "up"
              /\ Become(j, Idle, filed)
              /\ filed' = NoJob
        /\ UNCHANGED <<paused, tried>>
  /\ UNCHANGED <<files, sess, runner, life, shown, count>>

\* runAutoSave up to its save: it takes whichever timer is filed off the map, its own or
\* a newer one.
RunAutoSave(j) ==
  /\ At(j, {"auto"}, "fired")
  /\ filed' = NoJob
  /\ IF paused \/ tried = job[j].text
       THEN Become(j, Idle, NoJob) /\ UNCHANGED tried
       ELSE Become(j, [job[j] EXCEPT !.pc = "queue", !.text = None], NoJob) /\ tried' = job[j].text
  /\ UNCHANGED <<files, sess, paused, runner, life, shown, count>>

\* runAutoSave after a save that failed or met a conflict; the runner is free by now.
AutoSaveStops(j) ==
  /\ job[j].pc = "after"
  /\ Pause /\ Become(j, Idle, filed)
  /\ UNCHANGED <<files, sess, runner, life, shown, count>>

-----------------------------------------------------------------------------
(* saveInternal *)

\* markSessionState with a conflict or a missing file, then pauseAutoSaveForDocument.
MarkClash(j, state, seen) ==
  /\ sess' = [sess EXCEPT !.state = state, !.dirty = TRUE, !.seen = seen]
  /\ Pause /\ Leave(j, filed, TRUE)

\* Any of the errors saveInternal returns.
SaveFails(j) ==
  /\ job[j].kind \in Saves /\ job[j].pc \in {"begin", "look", "write"}
  /\ Leave(j, NoJob, TRUE)
  /\ UNCHANGED <<files, sess, auto, life, shown, count>>

\* The transport is resolved and bound and the copy read.  The base of a merge is the hash
\* its window was opened with.
SaveBegins(j) ==
  /\ At(j, Saves, "begin")
  /\ Become(j, [job[j] EXCEPT !.pc = "look", !.text = local, !.dirty = sess.dirty,
                              !.base = IF job[j].kind = "merge" THEN @ ELSE sess.base], NoJob)
  /\ UNCHANGED <<files, sess, auto, runner, life, shown, count>>

\* Mutant: only explicit saves compare the remote file with the base.
SaveTrusts(j) ==
  /\ At(j, Saves, "look")
  /\ IF job[j].kind # "auto" /\ job[j].kind \notin Forced /\ remote \notin {Gone, job[j].base}
       THEN MarkClash(j, "conflict", job[j].text)
       ELSE /\ Become(j, [job[j] EXCEPT !.pc = "write", !.dirty = FALSE], NoJob)
            /\ UNCHANGED <<sess, auto, runner>>
  /\ UNCHANGED <<files, life, shown, count>>

\* Stat and ReadFile of the remote file, and what follows from them.
SaveLooks(j) ==
  LET k == job[j].kind
      drifted == k \notin Forced /\ remote # Gone /\ remote # job[j].base
      missing == k # "recreate" /\ remote = Gone
      noop == k \in Plain /\ job[j].text = job[j].base /\ ~job[j].dirty
  IN
  /\ At(j, Saves, "look")
  /\ \/ missing /\ MarkClash(j, "remote_missing", job[j].text)
     \/ drifted /\ MarkClash(j, "conflict", job[j].text)
     \/ ~missing /\ ~drifted /\ noop /\ Returns(j) /\ UNCHANGED <<sess, auto>>
     \/ /\ ~missing /\ ~drifted /\ ~noop
        /\ Become(j, [job[j] EXCEPT !.pc = "write", !.dirty = FALSE], NoJob)
        /\ UNCHANGED <<sess, auto, runner>>
  /\ UNCHANGED <<files, life, shown, count>>

\* WriteFile: there is no compare-and-swap, so the file may have changed since the look.
SaveWrites(j) ==
  /\ At(j, Saves, "write")
  /\ remote' = job[j].text /\ agreed' = agreed \cup {job[j].text}
  /\ Become(j, [job[j] EXCEPT !.pc = "mark", !.base = None, !.late = FALSE], NoJob)
  /\ UNCHANGED <<local, event, sess, auto, runner, life, shown, count>>

\* WriteFile says that the path is gone: markRemoteMissingConflict.
SaveWriteMissing(j) ==
  /\ At(j, Saves, "write") /\ remote = Gone
  /\ MarkClash(j, "remote_missing", job[j].text)
  /\ UNCHANGED <<files, life, shown, count>>

\* markSaved: the base is the content that was read at the beginning and written.
SaveMarks(j) ==
  /\ At(j, Saves, "mark")
  /\ sess' = [NewSession(job[j].text, sess.editor) EXCEPT !.mode = sess.mode]
  /\ agreed' = {job[j].text}
  /\ Become(j, [job[j] EXCEPT !.pc = "resume", !.text = None], NoJob)
  /\ UNCHANGED <<remote, local, event, auto, runner, life, shown, count>>

\* resumeAutoSaveForDocument, at the end of a save and of a reread.
Resumes(j) ==
  /\ job[j].pc = "resume"
  /\ Resume /\ Returns(j)
  /\ UNCHANGED <<files, sess, life, shown, count>>

-----------------------------------------------------------------------------
(* What the user calls *)

\* A binding is called.  Two calls at once would wait for each other at the runner.
Ask(j, k, t) ==
  /\ life \in {"up", "closing"} /\ job[j] = Idle
  /\ count.user < MaxUser /\ \A i \in Job : job[i].kind \notin Calls
  /\ k \in Calls /\ (k \in {"text", "merge"} <=> t # None) /\ (k = "merge" => shown # None)
  /\ job' = [job EXCEPT ![j] = [Idle EXCEPT !.kind = k, !.pc = "queue", !.text = t,
                                            !.base = IF k = "merge" THEN shown ELSE None]]
  /\ count' = [count EXCEPT !.user = @ + 1]
  /\ UNCHANGED <<files, sess, auto, settle, runner, bg, life, shown>>

\* saveSessionTextInternal writes the copy before it saves it.
TypeText(j) ==
  /\ At(j, {"text"}, "type")
  /\ local' = job[j].text /\ event' = (life = "up")
  /\ sess' = IF job[j].text = sess.base THEN sess
             ELSE [sess EXCEPT !.state = "dirty", !.dirty = TRUE, !.seen = job[j].text]
  /\ Goes(j, "begin")
  /\ UNCHANGED <<remote, agreed, auto, runner, life, shown, count>>

\* The calls that return an error and record nothing.
CallFails(j) ==
  /\ job[j].kind \in {"refresh", "reread", "prepare"} /\ job[j].pc \in {"begin", "look", "fetch"}
  /\ Returns(j)
  /\ UNCHANGED <<files, sess, auto, life, shown, count>>

\* refreshInternal, rereadRemoteSession, prepareMergeInternal: bind, and read the copy.
CallBegins(j) ==
  /\ At(j, {"refresh", "reread", "prepare"}, "begin")
  /\ job[j].kind = "prepare" => sess.state = "conflict"
  /\ Become(j, IF job[j].kind = "refresh"
                 THEN [job[j] EXCEPT !.pc = "look", !.text = local, !.base = sess.base,
                                     !.dirty = sess.dirty \/ local # sess.base]
                 ELSE [job[j] EXCEPT !.pc = "look", !.text = sess.seen], NoJob)
  /\ UNCHANGED <<files, sess, auto, runner, life, shown, count>>

\* refreshInternal compares the remote file with the base.
RefreshLooks(j) ==
  LET marked(state, dirty) ==
        [sess EXCEPT !.state = state, !.dirty = dirty, !.seen = job[j].text]
  IN
  /\ At(j, {"refresh"}, "look")
  /\ \/ /\ remote = Gone
        /\ sess' = marked("remote_missing", job[j].dirty)
        /\ Returns(j) /\ UNCHANGED auto
     \/ /\ remote \notin {Gone, job[j].base}
        /\ sess' = marked("conflict", TRUE)
        /\ Pause /\ Leave(j, filed, FALSE)
     \/ /\ remote = job[j].base
        /\ sess' = marked(IF job[j].dirty THEN "dirty" ELSE "clean", job[j].dirty)
        /\ Returns(j) /\ UNCHANGED auto
  /\ UNCHANGED <<files, life, shown, count>>

\* rereadRemoteSession reads the remote file to see whether it is there, and
\* rebuildDocumentSessionFromRemote reads it again.
RereadLooks(j) ==
  /\ At(j, {"reread"}, "look")
  /\ \/ remote = Gone /\ MarkClash(j, "remote_missing", job[j].text)
     \/ remote # Gone /\ Goes(j, "fetch") /\ UNCHANGED <<sess, auto, runner>>
  /\ UNCHANGED <<files, life, shown, count>>

RebuildFetches(j) ==
  /\ At(j, {"reread"}, "fetch") /\ remote # Gone
  /\ Become(j, [job[j] EXCEPT !.pc = "swap", !.text = remote], NoJob)
  /\ UNCHANGED <<files, sess, auto, runner, life, shown, count>>

\* The old copy goes to bakeup and the new one is written.
RebuildSwaps(j) ==
  /\ At(j, {"reread"}, "swap")
  /\ local' = job[j].text /\ event' = (life = "up")
  /\ Goes(j, "rebuild")
  /\ UNCHANGED <<remote, agreed, sess, auto, runner, life, shown, count>>

\* The session gets the new base; the editor may then fail to start.
RebuildEnds(j) ==
  /\ At(j, {"reread"}, "rebuild")
  /\ sess' = NewSession(job[j].text, sess.editor)
  /\ agreed' = {job[j].text}
  /\ \/ Become(j, [job[j] EXCEPT !.pc = "resume", !.text = None], NoJob) /\ UNCHANGED runner
     \/ sess.editor = "external" /\ Returns(j)
  /\ UNCHANGED <<remote, local, event, auto, life, shown, count>>

\* prepareMergeInternal keeps the hash of the remote file it shows.
PrepareLooks(j) ==
  /\ At(j, {"prepare"}, "look")
  /\ \/ remote = Gone /\ MarkClash(j, "remote_missing", job[j].text) /\ UNCHANGED shown
     \/ /\ remote # Gone
        /\ sess' = [sess EXCEPT !.merge = remote] /\ shown' = remote
        /\ Returns(j) /\ UNCHANGED auto
  /\ UNCHANGED <<files, life, count>>

\* applyMergeInternal compares the remote file with the one that was merged, unless it
\* returns an error: with no conflict, with another hash than PrepareMerge left, with a
\* text it rejects or a remote end it cannot read.
MergeChecks(j) ==
  LET valid == sess.state = "conflict" /\ sess.merge \in {None, job[j].base}
  IN
  /\ At(j, {"merge"}, "check")
  /\ \/ Returns(j) /\ UNCHANGED <<sess, auto>>
     \/ valid /\ remote = Gone /\ MarkClash(j, "remote_missing", sess.seen)
     \/ valid /\ remote \notin {Gone, job[j].base} /\ MarkClash(j, "conflict", sess.seen)
     \/ valid /\ remote = job[j].base /\ Goes(j, "final") /\ UNCHANGED <<sess, auto, runner>>
  /\ UNCHANGED <<files, life, shown, count>>

\* ... writes the final text over the copy and saves it with resolutionOverwrite.
MergeFinal(j) ==
  /\ At(j, {"merge"}, "final")
  /\ local' = job[j].text /\ event' = (life = "up")
  /\ sess' = [sess EXCEPT !.state = "dirty", !.dirty = TRUE, !.seen = job[j].text]
  /\ Goes(j, "begin")
  /\ UNCHANGED <<remote, agreed, auto, runner, life, shown, count>>

\* Open finds the session.  Stat gives no hash, so the file is not read again.
OpenReuses(e) ==
  /\ life = "up" /\ count.user < MaxUser /\ remote # Gone
  /\ sess' = [sess EXCEPT !.editor = e, !.mode = saveModeForEditor(e), !.merge = None]
  /\ count' = [count EXCEPT !.user = @ + 1]
  /\ UNCHANGED <<files, auto, settle, runner, job, bg, life, shown>>

-----------------------------------------------------------------------------
(* Everybody else, and the life of the process *)

\* The external editor saves the copy, also while the application is down.
Edit(t) ==
  /\ count.user < MaxUser /\ t # local
  /\ local' = t /\ event' = (life = "up")
  /\ count' = [count EXCEPT !.user = @ + 1]
  /\ UNCHANGED <<remote, agreed, sess, auto, settle, runner, job, bg, life, shown>>

\* The job has made sure of the remote file and has yet to write it.
Looked(j) ==
  \/ job[j].pc = "write"
  \/ job[j].kind = "merge" /\ job[j].pc \in {"final", "begin", "look"}

\* Somebody else writes or deletes the remote file.  A save that has looked is too late.
Foreign(t) ==
  /\ count.foreign < MaxForeign /\ t # remote
  /\ remote' = t
  /\ job' = [j \in Job |-> [job[j] EXCEPT !.late = @ \/ Looked(j)]]
  /\ count' = [count EXCEPT !.foreign = @ + 1]
  /\ UNCHANGED <<local, event, agreed, sess, auto, settle, runner, bg, life, shown>>

\* Close stops the timers it finds and waits for the rest.
Close ==
  /\ life = "up"
  /\ life' = "closing"
  /\ job' = Stopped(Stopped(job, settle), filed)
  /\ bg' = bg - StopDone(settle) - StopDone(filed)
  /\ settle' = NoJob /\ filed' = NoJob /\ event' = FALSE
  /\ UNCHANGED <<remote, local, agreed, sess, paused, tried, runner, shown, count>>

CloseReturns ==
  /\ life = "closing" /\ bg = 0
  /\ life' = "closed"
  /\ UNCHANGED <<files, sess, auto, settle, runner, job, bg, shown, count>>

\* The process ends: after Close, or at any moment.
Exit ==
  /\ life \in {"up", "closing", "closed"} /\ count.start < MaxStart
  /\ life' = "down"
  /\ job' = [j \in Job |-> Idle] /\ bg' = 0 /\ runner' = NoJob /\ settle' = NoJob /\ event' = FALSE
  /\ paused' = FALSE /\ tried' = None /\ filed' = NoJob /\ shown' = None
  /\ UNCHANGED <<remote, local, agreed, sess, count>>

\* Start: loadManifest and restoreSessions, which begins a check in the background.
Start(k) ==
  /\ life = "down"
  /\ life' = "up"
  /\ sess' = [sess EXCEPT !.mode = "manual_restored"]
  /\ IF sess.state \in Clash
       THEN UNCHANGED <<job, bg>>
       ELSE /\ job' = [job EXCEPT ![k] = [Idle EXCEPT !.kind = "check", !.pc = "fired"]]
            /\ bg' = bg + 1
  /\ count' = [count EXCEPT !.start = @ + 1]
  /\ UNCHANGED <<files, auto, settle, runner, shown>>

\* checkRemoteConflictAfterRestore, which does not take the runner.
CheckBegins(j) ==
  /\ At(j, {"check"}, "fired")
  /\ Become(j, [job[j] EXCEPT !.pc = "look", !.text = local, !.base = sess.base], NoJob)
  /\ UNCHANGED <<files, sess, auto, runner, life, shown, count>>

CheckFails(j) ==
  /\ job[j].kind = "check"
  /\ Returns(j)
  /\ UNCHANGED <<files, sess, auto, life, shown, count>>

CheckLooks(j) ==
  /\ At(j, {"check"}, "look")
  /\ \/ remote = Gone /\ MarkClash(j, "remote_missing", job[j].text)
     \/ remote \notin {Gone, job[j].base} /\ MarkClash(j, "conflict", job[j].text)
     \/ remote = job[j].base /\ Returns(j) /\ UNCHANGED <<sess, auto>>
  /\ UNCHANGED <<files, life, shown, count>>

-----------------------------------------------------------------------------
JobStep(j) ==
  \/ Fire(j) \/ Acquire(j)
  \/ ReconcileRead(j) \/ ReconcileApply(j) \/ ReconcilePlan(j) \/ RunAutoSave(j) \/ AutoSaveStops(j)
  \/ SaveFails(j) \/ SaveBegins(j) \/ SaveLooks(j) \/ SaveWrites(j) \/ SaveWriteMissing(j)
  \/ SaveMarks(j) \/ Resumes(j)
  \/ TypeText(j) \/ CallFails(j) \/ CallBegins(j) \/ RefreshLooks(j)
  \/ RereadLooks(j) \/ RebuildFetches(j) \/ RebuildSwaps(j) \/ RebuildEnds(j)
  \/ PrepareLooks(j) \/ MergeChecks(j) \/ MergeFinal(j)
  \/ CheckBegins(j) \/ CheckFails(j) \/ CheckLooks(j)

Next ==
  \/ \E j \in Job : JobStep(j)
  \/ \E k \in Job : Watch(k) \/ Start(k)
  \/ \E j \in Job, k \in Calls, t \in Text \cup {None} : Ask(j, k, t)
  \/ \E e \in {"external", "built_in"} : OpenReuses(e)
  \/ \E t \in Text : Edit(t)
  \/ \E t \in Text \cup {Gone} : Foreign(t)
  \/ Close \/ CloseReturns \/ Exit

Spec == Init /\ [][Next]_vars
-----------------------------------------------------------------------------
(* Properties *)

\* The state has the shape of the session, the maps and the files it stands for.
TypeOK ==
  /\ remote \in Text \cup {Gone} /\ local \in Text /\ agreed \subseteq Text
  /\ sess \in Session /\ job \in [Job -> JobState]
  /\ event \in BOOLEAN /\ paused \in BOOLEAN /\ tried \in Text \cup {None}
  /\ filed \in Job \cup {NoJob} /\ settle \in Job \cup {NoJob} /\ runner \in Job \cup {NoJob}
  /\ life \in {"up", "closing", "closed", "down"}
  /\ shown \in Text \cup {None} /\ bg \in Nat

\* A save that nobody forced replaces what the session last agreed on with the remote
\* end, whatever saves, rereads, merges and crashes lie in between: not a version somebody
\* else wrote, unless that came after the save had looked (the window saveInternal admits).
\* A merge replaces the version it was made with.
NoUnseenOverwrite ==
  [][\A j \in Job : SaveWrites(j) /\ ~job[j].late =>
       /\ job[j].kind \in Plain => remote \in agreed
       /\ job[j].kind = "recreate" => remote \in agreed \cup {Gone}
       /\ job[j].kind = "merge" => remote = job[j].base]_vars

\* A restored draft is not uploaded by itself: nothing is written to the remote file after
\* a restart until the user saves, resolves, merges, rereads or opens the file again.
RestoredWaits ==
  sess.mode = "manual_restored" => \A j \in Job : job[j].kind # "auto"

\* The WaitGroup counts every timer and goroutine, those included that have been stopped,
\* replaced or taken off the map by another's callback: Close returns exactly when the
\* last of them is done, and none of them touches the copy, the manifest or the remote
\* file afterwards.
CloseWaits ==
  /\ bg = Cardinality({j \in Job : job[j].kind \in Tracked})
  /\ life = "closed" => \A j \in Job : job[j].kind \notin Tracked

\* A conflict stays until a save goes through or a call of the user ends it: noticing a
\* change of the copy, begun before or after, does not.
ConflictSticks ==
  [][sess.state \in Clash /\ sess'.state \notin Clash => runner # NoJob /\ job'[runner] # job[runner]]_vars
=============================================================================

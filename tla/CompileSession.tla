--------------------------- MODULE CompileSession ---------------------------
(***************************************************************************)
(* One window's compile store (src/store/compile.ts) with its two          *)
(* producers, the compile button's attempt and the tagged-PDF lane         *)
(* (src/features/latex-engine.ts), the successes other windows announce    *)
(* (src/lib/compile-sync.ts) and the preview pane that shows the result.   *)
(*                                                                         *)
(* An attempt is a chain of awaits.  What runs between two awaits is one   *)
(* action here, and everything else (typing, autosave, tab and project     *)
(* switches, another attempt) may happen while it waits.  `pc` names the   *)
(* await an attempt is in.  Two attempts of the compile button are alive   *)
(* at once after a reset, which forgets the first without stopping it.     *)
(*                                                                         *)
(* Left out: phases, logs and error lists; the syntax check is always on;  *)
(* bytes are identified by the run that wrote them, which is what the      *)
(* fingerprint is for.                                                     *)
(***************************************************************************)
EXTENDS Integers, FiniteSets

CONSTANTS
  Project, Home,  \* projects, and the one open at first
  File, RootOf,   \* source files, and the main document each compiles to
  StoredMain,     \* the project's stored main document, and first tab
  Attempt,        \* bounds the attempts alive at once
  Budgets,        \* bounds what users and other windows do, in a behaviour
  RemoteRevs,     \* project revisions another window may have
  None

ASSUME RootAssumption == RootOf \in [File -> File] /\ StoredMain \in File
ASSUME HomeAssumption == Home \in Project
ASSUME RevsAssumption == RemoteRevs \subseteq Nat

VARIABLES
  disk,      \* the files as they are on disk, by project
  editor,    \* the file store and the project index, as far as used here
  store,     \* the compile store and its module variables
  attempts,  \* the attempts in flight
  output,    \* the PDF in the build directory of each project
  runs,      \* outputs written so far; the last one's output_revision
  remote,    \* successes other windows announced, and how far each is
  pane,      \* what the preview pane shows, and what it looked at last
  left       \* what is left of the budget

vars == <<disk, editor, store, attempts, output, runs, remote, pane, left>>

Text == {0, 1}      \* an edit, and its undo
Ck == [project : Project, doc : File, rev : Nat, gen : Nat, out : Nat]
Bytes == [project : Project, doc : File, built : [File -> Text], run : Nat]
ASSUME NoneAssumption == None \notin Nat \cup Ck \cup Bytes

Idle == [pc |-> "idle"]
Spend(what) == left[what] > 0 /\ left' = [left EXCEPT ![what] = @ - 1]
-----------------------------------------------------------------------------
(* resolveEffectiveMainDoc: the active tab decides.                        *)
EffectiveMain == RootOf[editor.active]

(* hasCompileCheckpointAdvanced, isNewerCompileCheckpoint                  *)
IsNewer(candidate, current) == current = None \/ candidate.out > current.out
Advanced(atStart, current) == current # None /\ IsNewer(current, atStart)

(* canApplyLocalCompileOutcome                                             *)
CanApply(candidate, current, atStart) ==
  IF candidate # None THEN IsNewer(candidate, current)
  ELSE ~Advanced(atStart, current)

(* isCompileOutputStillWanted, isCompileRequestIdentityCurrent             *)
Wanted(s, t) ==
  /\ editor.project = t.project
  /\ EffectiveMain = t.doc
  /\ s.gen = t.intent
IdentityCurrent(s, t) == Wanted(s, t) /\ editor.rev = t.rev

(* A variant, not the code: a result whose sources changed meanwhile is    *)
(* stale.                                                                  *)
StaleByRevision(s, t) == s.seq # t.seq \/ ~IdentityCurrent(s, t)

(* matchesProjectAndMain and identityStale of an attempt                   *)
Matches(s, t) ==
  /\ s.active = t.intent
  /\ editor.project = t.project
  /\ EffectiveMain = t.doc
Stale(s, t) == s.seq # t.seq \/ ~Wanted(s, t)
GoOn(s, t) == Matches(s, t) /\ ~Advanced(t.start, s.ck)

(* isCompileCheckpointCurrent: by revision, or because the sources are     *)
(* again those the shown output was compiled from.                         *)
Current(ck) ==
  /\ ck # None
  /\ editor.project = ck.project
  /\ EffectiveMain = ck.doc
  /\ \/ editor.rev = ck.rev
     \/ /\ store.ck # None /\ store.ck.out = ck.out
        /\ store.sources # None
        /\ store.sources.epoch = editor.epoch
        /\ store.sources.text = editor.text
-----------------------------------------------------------------------------
(* releaseIntent and abortIntent                                           *)
Release(s, t) == IF s.active = t.intent THEN [s EXCEPT !.active = None] ELSE s

(* A variant, not the code: the indicator is left to the next attempt.     *)
AbortLeavesStatus(s, t) ==
  IF s.active # t.intent THEN s ELSE [s EXCEPT !.active = None, !.rerun = FALSE]

(* A variant, not the code: a queued rerun survives the attempt.           *)
AbortKeepsRerun(s, t) ==
  IF s.active # t.intent THEN s
  ELSE [s EXCEPT
         !.active = None,
         !.status = IF @ = "compiling" /\ s.by.gen = t.intent
                    THEN "idle" ELSE @]

Abort(s, t) ==
  IF s.active # t.intent THEN s
  ELSE [s EXCEPT
         !.active = None,
         !.rerun = FALSE,
         !.status = IF @ = "compiling" /\ s.by.gen = t.intent
                    THEN "idle" ELSE @]

Show(s, status, t) ==
  [s EXCEPT !.status = status,
            !.by = [gen |-> t.intent, lane |-> t.lane]]

Put(a, t) == attempts' = [attempts EXCEPT ![a] = t]
GiveUp(a, s) == store' = s /\ Put(a, Idle)

Request(s, lane) ==
  [pc |-> "preparing", lane |-> lane, intent |-> s.gen + 1,
   project |-> editor.project, doc |-> EffectiveMain, start |-> s.ck,
   rev |-> editor.rev, seq |-> 0, file |-> None, saved |-> None,
   sources |-> None, reply |-> None]

(* saveActive: the write of the active buffer, when it is dirty.           *)
Saving(t) ==
  [t EXCEPT !.pc = "saving", !.file = editor.active,
            !.saved = IF editor.active \in editor.dirty
                      THEN editor.text[editor.active] ELSE None]

(* recompile() up to its first await.  While another attempt is active it  *)
(* only asks for a rerun.                                                  *)
Begin(s, a) ==
  LET t == Request(s, "main")
      s1 == [s EXCEPT !.gen = t.intent, !.active = t.intent] IN
  IF s.active # None \/ s.status = "compiling"
  THEN GiveUp(a, [s EXCEPT !.rerun = TRUE])
  ELSE \/ GiveUp(a, Abort(Show(s1, "unavailable", t), t))
       \/ store' = s1 /\ Put(a, t)
       \/ store' = Show(s1, "compiling", t) /\ Put(a, Saving(t))

(* A variant, not the code: only an attempt that is still current clears   *)
(* the indicator.                                                          *)
FinishClearsCurrent(s, t) ==
  /\ s.active = t.intent
  /\ ~Stale(s, t)
  /\ s.status = "compiling"
  /\ s.by.gen = t.intent
  /\ ~Advanced(t.start, s.ck)

(* The finally block of an attempt that reached the compiler.              *)
FinishClears(s, t) ==
  /\ s.active = t.intent
  /\ Stale(s, t)
  /\ s.status = "compiling"
  /\ s.by.gen = t.intent
  /\ ~Advanced(t.start, s.ck)

Finish(s, a) ==
  LET t == attempts[a]
      s1 == Release(IF FinishClears(s, t) THEN [s EXCEPT !.status = "idle"]
                    ELSE s, t) IN
  IF s.active # t.intent \/ ~s.rerun THEN GiveUp(a, s1)
  ELSE IF Stale(s, t) THEN GiveUp(a, [s1 EXCEPT !.rerun = FALSE])
  ELSE Begin([s1 EXCEPT !.rerun = FALSE], a)

(* reset(): the open project changed, or its engine or main document.      *)
ResetStore(s) ==
  [s EXCEPT !.status = "idle", !.by = None, !.ck = None, !.pdf = None,
            !.sources = None, !.gen = @ + 1, !.seq = @ + 1,
            !.active = None, !.rerun = FALSE]
-----------------------------------------------------------------------------
Init ==
  /\ disk = [p \in Project |-> [f \in File |-> 0]]
  /\ editor = [project |-> Home, active |-> StoredMain,
               text |-> [f \in File |-> 0], dirty |-> {}, rev |-> 0,
               epoch |-> 0, resetDue |-> FALSE]
  /\ store = [status |-> "idle", by |-> None, ck |-> None, pdf |-> None,
              sources |-> None, gen |-> 0, seq |-> 0, active |-> None,
              rerun |-> FALSE]
  /\ attempts = [a \in Attempt |-> Idle]
  /\ output = [p \in Project |-> None]
  /\ runs = 0
  /\ remote = {}
  /\ pane = [doc |-> None, seen |-> <<None, None>>]
  /\ left \in Budgets

(* ------------------------------- the user ------------------------------ *)
Edit ==
  /\ Spend("edit")
  /\ editor' = [editor EXCEPT
                 !.text[editor.active] = 1 - @,
                 !.dirty = @ \cup {editor.active},
                 !.rev = @ + 1]
  /\ UNCHANGED <<disk, store, attempts, output, runs, remote, pane>>

(* The debounced save of one file; writes of a path are done in order.     *)
Autosave(f) ==
  /\ f \in editor.dirty
  /\ \A a \in Attempt :
       /\ attempts[a] # Idle /\ attempts[a].pc = "saving"
       => attempts[a].file # f \/ attempts[a].saved = None
  /\ disk' = [disk EXCEPT ![editor.project][f] = editor.text[f]]
  /\ editor' = [editor EXCEPT !.dirty = @ \ {f}]
  /\ UNCHANGED <<store, attempts, output, runs, remote, pane, left>>

(* A tab whose main document differs also invalidates the index.           *)
SwitchTab(f) ==
  /\ f # editor.active
  /\ Spend("tab")
  /\ editor' = IF RootOf[f] = EffectiveMain
               THEN [editor EXCEPT !.active = f]
               ELSE [editor EXCEPT !.active = f, !.rev = @ + 1,
                                   !.epoch = @ + 1]
  /\ UNCHANGED <<disk, store, attempts, output, runs, remote, pane>>

(* Dirty buffers are flushed before another project is loaded.  The        *)
(* effects that reset the stores run after the window has rendered.        *)
SwitchProject(p) ==
  /\ p # editor.project
  /\ ~editor.resetDue
  /\ Spend("project")
  /\ disk' = [disk EXCEPT ![editor.project] = editor.text]
  /\ editor' = [project |-> p, active |-> StoredMain, text |-> disk[p],
                dirty |-> {}, rev |-> 0, epoch |-> 0, resetDue |-> TRUE]
  /\ UNCHANGED <<store, attempts, output, runs, remote, pane>>

ProjectEffects ==
  /\ editor.resetDue
  /\ editor' = [editor EXCEPT !.resetDue = FALSE]
  /\ store' = ResetStore(store)
  /\ pane' = [doc |-> None, seen |-> <<None, None>>]
  /\ UNCHANGED <<disk, attempts, output, runs, remote, left>>

(* A new engine, main document or project state resets the store too.      *)
ProjectStateReset ==
  /\ Spend("reset")
  /\ store' = ResetStore(store)
  /\ UNCHANGED <<disk, editor, attempts, output, runs, remote, pane>>

Recompile(a) ==
  /\ attempts[a] = Idle
  /\ ~editor.resetDue
  /\ Spend("press")
  /\ Begin(store, a)
  /\ UNCHANGED <<disk, editor, output, runs, remote, pane>>

(* stopCompile: the queued rerun goes at once, the running compiler is     *)
(* told to stop.                                                           *)
StopCompile ==
  /\ Spend("stop")
  /\ store' = [store EXCEPT !.rerun = FALSE]
  /\ \/ UNCHANGED attempts
     \/ \E a \in Attempt :
          /\ attempts[a].pc = "building"
          /\ attempts[a].lane = "main"
          /\ Put(a, [attempts[a] EXCEPT !.pc = "replied",
                                        !.reply = [kind |-> "stopped"]])
  /\ UNCHANGED <<disk, editor, output, runs, remote, pane>>

(* ---------------------------- the two lanes ---------------------------- *)
StillGoing(s, t) ==
  IF t.lane = "main" THEN GoOn(s, t)
  ELSE Wanted(s, t) /\ ~Advanced(t.start, s.ck)
Stop(s, t) == IF t.lane = "main" THEN Abort(s, t) ELSE s

(* captureCompileSourceSnapshot: clean buffers at once, the others from    *)
(* disk when the read returns.                                             *)
Capturing(t) ==
  [t EXCEPT !.pc = "capturing", !.rev = editor.rev,
            !.sources = [epoch |-> editor.epoch,
                         text |-> [f \in File |->
                                     IF f \in editor.dirty THEN None
                                     ELSE editor.text[f]]]]

Captured(t) ==
  IF editor.project # t.project \/ editor.epoch # t.sources.epoch THEN None
  ELSE [t.sources EXCEPT !.text =
          [f \in File |-> IF @[f] = None THEN disk[t.project][f] ELSE @[f]]]

(* The prerequisites of the engine are there, or are not.                  *)
Prepared(a) ==
  LET t == attempts[a] IN
  /\ t.pc = "preparing"
  /\ \/ GiveUp(a, Abort(Show(store, "unavailable", t), t))
     \/ IF GoOn(store, t)
        THEN store' = Show(store, "compiling", t) /\ Put(a, Saving(t))
        ELSE GiveUp(a, Abort(store, t))
  /\ UNCHANGED <<disk, editor, output, runs, remote, pane, left>>

(* The buffer is on disk; it is clean unless it was edited meanwhile.      *)
Saved(a) ==
  LET t == attempts[a] IN
  /\ t.pc = "saving"
  /\ IF t.saved = None THEN UNCHANGED <<disk, editor>>
     ELSE /\ disk' = [disk EXCEPT ![t.project][t.file] = t.saved]
          /\ editor' = IF /\ editor.project = t.project
                          /\ editor.text[t.file] = t.saved
                       THEN [editor EXCEPT !.dirty = @ \ {t.file}]
                       ELSE editor
  /\ IF ~StillGoing(store, t) THEN GiveUp(a, Stop(store, t))
     ELSE /\ Put(a, IF t.lane = "main" THEN [t EXCEPT !.pc = "checking"]
                    ELSE [Capturing(t) EXCEPT !.rev = t.rev])
          /\ UNCHANGED store
  /\ UNCHANGED <<output, runs, remote, pane, left>>

SaveFails(a) ==
  LET t == attempts[a] IN
  /\ t.pc = "saving" /\ t.saved # None
  /\ GiveUp(a, IF t.lane = "main" THEN Abort(Show(store, "error", t), t)
               ELSE IF Wanted(store, t) THEN Show(store, "error", t)
               ELSE store)
  /\ UNCHANGED <<disk, editor, output, runs, remote, pane, left>>

(* The syntax check found errors, or nothing; the build directory may be   *)
(* asked to be cleared first.                                              *)
StartCapture(a, t) ==
  IF Wanted(store, t) THEN Put(a, Capturing(t)) /\ UNCHANGED store
  ELSE GiveUp(a, Abort(store, t))

Checked(a) ==
  LET t == attempts[a] IN
  /\ t.pc = "checking"
  /\ IF ~GoOn(store, t) THEN GiveUp(a, Abort(store, t))
     ELSE \/ GiveUp(a, Abort(Show(store, "error", t), t))
          \/ Put(a, [t EXCEPT !.pc = "clearing"]) /\ UNCHANGED store
          \/ StartCapture(a, t)
  /\ UNCHANGED <<disk, editor, output, runs, remote, pane, left>>

Cleared(a) ==
  LET t == attempts[a] IN
  /\ t.pc = "clearing"
  /\ \/ GiveUp(a, Abort(store, t))
     \/ GoOn(store, t) /\ StartCapture(a, t)
  /\ UNCHANGED <<disk, editor, output, runs, remote, pane, left>>

(* The request is sent once the log listener is there.  An attempt becomes *)
(* stale for the compile button as soon as a later one gets this far.      *)
MainCaptured(a) ==
  LET t == [attempts[a] EXCEPT !.sources = Captured(attempts[a]),
                               !.seq = store.seq + 1, !.pc = "listening"]
      s == [store EXCEPT !.seq = @ + 1] IN
  /\ attempts[a].pc = "capturing"
  /\ t.lane = "main"
  /\ IF ~IdentityCurrent(store, t) THEN GiveUp(a, Abort(store, t))
     ELSE IF Advanced(t.start, store.ck) THEN GiveUp(a, Abort(s, t))
     ELSE store' = Show(s, "compiling", t) /\ Put(a, t)
  /\ UNCHANGED <<disk, editor, output, runs, remote, pane, left>>

Listening(a) ==
  LET t == attempts[a] IN
  /\ t.pc = "listening"
  /\ IF Stale(store, t) \/ Advanced(t.start, store.ck) THEN Finish(store, a)
     ELSE Put(a, [t EXCEPT !.pc = "building"]) /\ UNCHANGED store
  /\ UNCHANGED <<disk, editor, output, runs, remote, pane, left>>

TaggedCaptured(a) ==
  LET t == [attempts[a] EXCEPT !.sources = Captured(attempts[a]),
                               !.pc = "building"] IN
  /\ attempts[a].pc = "capturing"
  /\ t.lane = "tagged"
  /\ IF ~StillGoing(store, t) THEN GiveUp(a, store)
     ELSE store' = Show(store, "compiling", t) /\ Put(a, t)
  /\ UNCHANGED <<disk, editor, output, runs, remote, pane, left>>

(* compileTaggedAndVerify up to its first await                            *)
CompileTagged(a) ==
  LET t == [Saving(Request(store, "tagged")) EXCEPT !.seq = store.seq] IN
  /\ attempts[a] = Idle
  /\ ~editor.resetDue
  /\ Spend("tagged")
  /\ store' = [store EXCEPT !.gen = t.intent]
  /\ Put(a, t)
  /\ UNCHANGED <<disk, editor, output, runs, remote, pane>>

(* ----------------------------- the compiler ---------------------------- *)
(* compile_project holds the compile lock; it reads the files as they are  *)
(* on disk and writes the one PDF of the project.  A failed run may leave  *)
(* a best-effort PDF; only a successful one is given a revision.           *)
Pdf(project, doc) ==
  [project |-> project, doc |-> doc, built |-> disk[project], run |-> runs + 1]

Compiles(a) ==
  LET t == attempts[a]
      Reply(r) == Put(a, [t EXCEPT !.pc = "replied", !.reply = r]) IN
  /\ t.pc = "building"
  /\ \/ /\ Reply([kind |-> "rejected"])
        /\ UNCHANGED <<output, runs>>
     \/ /\ Reply([kind |-> "done", ok |-> FALSE, run |-> None])
        /\ UNCHANGED <<output, runs>>
     \/ \E ok \in BOOLEAN :
          /\ Reply([kind |-> "done", ok |-> ok, run |-> runs + 1])
          /\ output' = [output EXCEPT ![t.project] = Pdf(t.project, t.doc)]
          /\ runs' = runs + 1
  /\ UNCHANGED <<disk, editor, store, remote, pane, left>>

(* ------------------------------ the result ----------------------------- *)
Checkpoint(t, run) ==
  [project |-> t.project, doc |-> t.doc, rev |-> t.rev, gen |-> t.intent,
   out |-> run]

(* What the result does to the store: `bytes` are the PDF's when it was    *)
(* read and is the one the reply names.                                    *)
Applied(s, t, bytes) ==
  LET ck == IF t.reply.ok /\ bytes # None THEN Checkpoint(t, bytes.run)
            ELSE None
      shown == IF t.lane = "main" THEN s.by
               ELSE [gen |-> t.intent, lane |-> t.lane] IN
  IF ~CanApply(ck, s.ck, t.start) THEN s
  ELSE [s EXCEPT
         !.status = IF ck # None THEN "success" ELSE "error",
         !.pdf = IF bytes # None THEN bytes ELSE @,
         !.by = shown,
         !.ck = IF ck # None THEN ck ELSE @,
         !.sources = IF ck # None THEN t.sources ELSE @]

(* The result came too late to matter, before its PDF is even read.        *)
TooLate(s, t) ==
  \/ IF t.lane = "main" THEN Stale(s, t) ELSE ~Wanted(s, t)
  \/ /\ Advanced(t.start, s.ck)
     /\ ~t.reply.ok \/ t.reply.run <= s.ck.out

MainReplied(a) ==
  LET t == attempts[a]
      failed == IF Stale(store, t) \/ Advanced(t.start, store.ck) THEN store
                ELSE [store EXCEPT !.status = "error"]
      stopped == IF Stale(store, t) THEN [store EXCEPT !.rerun = FALSE]
                 ELSE [store EXCEPT
                        !.rerun = FALSE,
                        !.status = IF store.ck # None THEN "success"
                                   ELSE "idle"] IN
  /\ t.pc = "replied" /\ t.lane = "main"
  /\ CASE t.reply.kind = "rejected" -> Finish(failed, a)
       [] t.reply.kind = "stopped" -> Finish(stopped, a)
       [] OTHER ->
            IF TooLate(store, t) THEN Finish(store, a)
            ELSE IF t.reply.run = None
                 THEN Finish(Applied(store, t, None), a)
                 ELSE Put(a, [t EXCEPT !.pc = "reading"]) /\ UNCHANGED store
  /\ UNCHANGED <<disk, editor, output, runs, remote, pane, left>>

TaggedReplied(a) ==
  LET t == attempts[a] IN
  /\ t.pc = "replied" /\ t.lane = "tagged"
  /\ IF t.reply.kind = "rejected"
     THEN GiveUp(a, IF Wanted(store, t) THEN Show(store, "error", t)
                    ELSE store)
     ELSE IF TooLate(store, t) THEN GiveUp(a, store)
     ELSE IF t.reply.run = None THEN GiveUp(a, Applied(store, t, None))
     ELSE Put(a, [t EXCEPT !.pc = "reading"]) /\ UNCHANGED store
  /\ UNCHANGED <<disk, editor, output, runs, remote, pane, left>>

(* readCompiledPdf returned what is in the build directory now.            *)
PdfRead(a) ==
  LET t == attempts[a]
      bytes == IF output[t.project].run = t.reply.run THEN output[t.project]
               ELSE None IN
  /\ t.pc = "reading"
  /\ IF t.lane = "tagged"
     THEN GiveUp(a, IF Wanted(store, t) THEN Applied(store, t, bytes)
                    ELSE store)
     ELSE Finish(IF Stale(store, t) THEN store ELSE Applied(store, t, bytes),
                 a)
  /\ UNCHANGED <<disk, editor, output, runs, remote, pane, left>>

(* ---------------------------- other windows ---------------------------- *)
RemoteCompiles(p) ==
  /\ Spend("remote")
  /\ output' = [output EXCEPT ![p] = Pdf(p, StoredMain)]
  /\ runs' = runs + 1
  /\ \E r \in RemoteRevs :
       remote' = remote \cup
         {[ck |-> [project |-> p, doc |-> StoredMain, rev |-> r, gen |-> 1,
                   out |-> runs + 1],
           pc |-> "sent"]}
  /\ UNCHANGED <<disk, editor, store, attempts, pane>>

(* A variant, not the code: the project is not compared.                   *)
RemoteWantedAnyProject(ck) == StoredMain = ck.doc /\ editor.rev = ck.rev

(* applyRemoteCompileSuccess, before and after its read                    *)
RemoteWanted(ck) ==
  /\ editor.project = ck.project
  /\ StoredMain = ck.doc
  /\ editor.rev = ck.rev

RemoteArrives(e) ==
  /\ e.pc = "sent"
  /\ remote' = (remote \ {e}) \cup
       (IF RemoteWanted(e.ck) /\ IsNewer(e.ck, store.ck)
        THEN {[e EXCEPT !.pc = "reading"]} ELSE {})
  /\ UNCHANGED <<disk, editor, store, attempts, output, runs, pane, left>>

(* A variant, not the code: nothing is compared again after the read.      *)
RemoteReadUnchecked(e) ==
  /\ e.pc = "reading"
  /\ remote' = remote \ {e}
  /\ store' = [store EXCEPT !.status = "success", !.ck = e.ck,
                            !.pdf = output[e.ck.project], !.sources = None,
                            !.by = [gen |-> e.ck.gen, lane |-> "remote"]]
  /\ UNCHANGED <<disk, editor, attempts, output, runs, pane, left>>

RemoteRead(e) ==
  LET bytes == output[e.ck.project] IN
  /\ e.pc = "reading"
  /\ remote' = remote \ {e}
  /\ store' = IF /\ RemoteWanted(e.ck)
                 /\ bytes.run = e.ck.out
                 /\ IsNewer(e.ck, store.ck)
              THEN [store EXCEPT !.status = "success", !.pdf = bytes,
                                 !.ck = e.ck, !.sources = None,
                                 !.by = [gen |-> e.ck.gen, lane |-> "remote"]]
              ELSE store
  /\ UNCHANGED <<disk, editor, attempts, output, runs, pane, left>>

(* ------------------------------- the pane ------------------------------ *)
(* PreviewPane's effect on the checkpoint and the bytes; a document that   *)
(* was once displayed stays when there are no bytes.                       *)
PaneLooks ==
  /\ pane.seen # <<store.ck, store.pdf>>
  /\ ~editor.resetDue
  /\ pane' = [doc |-> IF store.pdf # None /\ Current(store.ck)
                      THEN [bytes |-> store.pdf, ck |-> store.ck]
                      ELSE pane.doc,
              seen |-> <<store.ck, store.pdf>>]
  /\ UNCHANGED <<disk, editor, store, attempts, output, runs, remote, left>>
-----------------------------------------------------------------------------
Progress(a) ==
  \/ Prepared(a) \/ Saved(a) \/ SaveFails(a) \/ Checked(a) \/ Cleared(a)
  \/ MainCaptured(a) \/ TaggedCaptured(a) \/ Listening(a) \/ Compiles(a)
  \/ MainReplied(a) \/ TaggedReplied(a) \/ PdfRead(a)

Next ==
  \/ Edit
  \/ \E f \in File : Autosave(f) \/ SwitchTab(f)
  \/ \E p \in Project : SwitchProject(p) \/ RemoteCompiles(p)
  \/ ProjectEffects \/ ProjectStateReset \/ StopCompile \/ PaneLooks
  \/ \E a \in Attempt : Recompile(a) \/ CompileTagged(a) \/ Progress(a)
  \/ \E e \in remote : RemoteArrives(e) \/ RemoteRead(e)

Spec == Init /\ [][Next]_vars

(* Every await returns: the IPC calls do, and the supervised compiler has  *)
(* a time limit.  The effects of a rendered window run.                    *)
Fairness ==
  /\ \A a \in Attempt : WF_vars(Progress(a))
  /\ WF_vars(ProjectEffects)
FairSpec == Spec /\ Fairness
-----------------------------------------------------------------------------
TypeOK ==
  /\ disk \in [Project -> [File -> Text]]
  /\ editor \in [project : Project, active : File, text : [File -> Text],
                dirty : SUBSET File, rev : Nat, epoch : Nat,
                resetDue : BOOLEAN]
  /\ store.status \in {"idle", "compiling", "success", "error", "unavailable"}
  /\ store.ck \in Ck \cup {None}
  /\ store.pdf \in Bytes \cup {None}
  /\ store.active \in Nat \cup {None}
  /\ \A p \in Project : output[p] \in Bytes \cup {None}
  /\ \A e \in remote : e.ck \in Ck

(* The accepted output of a window only ever moves to a newer one, however *)
(* late a result, a read or an announcement comes; it goes away only with  *)
(* a reset.                                                                *)
OutputsAdvance ==
  [][store'.ck # store.ck =>
       \/ IF store'.ck = None THEN store'.gen > store.gen
          ELSE IsNewer(store'.ck, store.ck)]_vars

(* Once the effects of a project switch have run, neither the store nor    *)
(* the pane shows a PDF of another project, whatever was still under way.  *)
NoForeignPdf ==
  ~editor.resetDue =>
    /\ store.pdf # None => store.pdf.project = editor.project
    /\ pane.doc # None => pane.doc.bytes.project = editor.project

(* "compiling" that the compile button put there always has its attempt:   *)
(* someone who will take it away, so that the button works again.          *)
IndicatorHasAttempt ==
  store.status = "compiling" /\ store.by.lane = "main" =>
    \E a \in Attempt :
      /\ attempts[a] # Idle
      /\ attempts[a].lane = "main"
      /\ attempts[a].intent = store.by.gen
      /\ store.active = store.by.gen

(* A compile that the user typed through is not thrown away: when its PDF  *)
(* is read and only buffers changed since it was asked for, the store      *)
(* accepts it (or has something newer).                                    *)
TypingKeepsTheBuild ==
  [][\A a \in Attempt :
       LET t == attempts[a] IN
       /\ PdfRead(a)
       /\ t.lane = "main" /\ t.reply.ok
       /\ output[t.project].run = t.reply.run
       /\ editor.project = t.project /\ EffectiveMain = t.doc
       /\ store.gen = t.intent
       => store'.ck # None /\ store'.ck.out >= t.reply.run]_vars

(* When the compile button's attempt ends, in whatever way, a rerun asked  *)
(* for while it ran is started or withdrawn.  It is not left behind for    *)
(* the end of an unrelated attempt, unless the tagged lane shows that it   *)
(* is compiling at that moment.  A stop or a stale end of the attempt may  *)
(* withdraw it without a word.                                             *)
RerunIsSettled ==
  [][store.active # None /\ store'.active # store.active =>
       \/ ~store'.rerun
       \/ store'.status = "compiling" /\ store'.by.lane = "tagged"]_vars

(* The compile button's indicator goes away by itself.                     *)
CompilingEnds ==
  (store.status = "compiling" /\ store.by.lane = "main") ~>
    ~(store.status = "compiling" /\ store.by.lane = "main")
-----------------------------------------------------------------------------
(* What the pane calls current was compiled from what the buffers hold.    *)
CurrentIsFresh ==
  pane.doc # None /\ Current(pane.doc.ck) =>
    pane.doc.bytes.built = editor.text

(* The pane's document is the output its checkpoint names.                 *)
PaneShowsItsCheckpoint ==
  pane.doc # None => pane.doc.bytes.run = pane.doc.ck.out

(* Every output the store accepted is displayed, as stale if need be.      *)
AcceptedOutputIsShown ==
  /\ store.ck # None /\ store.pdf # None /\ store.pdf.run = store.ck.out
  /\ pane.seen = <<store.ck, store.pdf>>
  => pane.doc # None /\ pane.doc.ck = store.ck

(* "compiling" always ends.                                                *)
IndicatorEnds ==
  store.status = "compiling" ~> store.status # "compiling"
=============================================================================

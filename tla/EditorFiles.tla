----------------------------- MODULE EditorFiles -----------------------------
(***************************************************************************)
(* The buffers of one window and how they reach the disk                   *)
(* (src/store/files.ts): the debounced autosave, the per-path queues of    *)
(* writes, the transitions that flush first, and what the window does when *)
(* it hears that somebody else changed the files.                          *)
(*                                                                         *)
(* Text is a number: every edit and every change by others is a new one.   *)
(* The backend admits a write unless the path was changed after the        *)
(* generation the caller names (MutationAdmission models how it decides).  *)
(* Left out: tabs, the tree, the engine and the main document; renames,    *)
(* copies and imports; a second project (a project is closed for good).    *)
(***************************************************************************)
EXTENDS Integers, Sequences

CONSTANTS
  Path,       \* the files that may be open
  Scenarios,  \* what is open, and being preloaded, when it all begins; the
              \* files that others change; bounds of what happens
  None

ASSUME ScenarioAssumption ==
  \A s \in Scenarios : s.open \cup s.preload \cup s.shared \subseteq Path
ASSUME NoneAssumption == None \notin [text : Nat, dirty : BOOLEAN]

VARIABLES
  disk,       \* the text of each file; None where there is none
  gen,        \* the project's mutation generation
  changed,    \* the generation each path was last changed by
  win,        \* the window's file store and its module variables
  task,       \* the project transition under way
  loads,      \* reads of files that are being opened or preloaded
  reloads,    \* reloads after a change of the project's state
  events,     \* what others announced and the window has not heard yet
  clock,      \* texts so far
  landed,     \* the window's own texts that were on disk
  faults,     \* writes that failed for a reason of their own
  left        \* what is left of the budget

vars == <<disk, gen, changed, win, task, loads, reloads, events, clock,
          landed, faults, left>>

backend == <<disk, gen, changed, landed, faults>>
Spend(what) == left[what] > 0 /\ left' = [left EXCEPT ![what] = @ - 1]
Newer(a, b) == IF a > b THEN a ELSE b
Forget(fn, S) == [p \in DOMAIN fn \ S |-> fn[p]]
Put(fn, p, buffer) ==
  [q \in DOMAIN fn \cup {p} |-> IF q = p THEN buffer ELSE fn[q]]
Buffer(text, dirty) == [text |-> text, dirty |-> dirty]
Dirty(w) == {p \in DOMAIN w.files : w.files[p].dirty}
Clean(w, p) == [w EXCEPT !.files = Put(@, p, Buffer(@[p].text, FALSE))]
Holds(w, p, text) == p \in DOMAIN w.files /\ w.files[p].text = text
-----------------------------------------------------------------------------
(* scheduleAutosave                                                        *)
Later(w) == [w EXCEPT !.timer = w.pending # {}]
Pend(w, p) == [w EXCEPT !.pending = @ \cup {p}]

(* enqueueWrite: a write waits for the one before it on the same path, and *)
(* then names the generation that one ended with.                          *)
Enqueue(w, p, text, by) ==
  [w EXCEPT !.queue[p] =
     Append(@, [text |-> text, by |-> by, reload |-> w.reload,
                expected |-> w.known, result |-> "waiting"])]

(* saveFile up to its first await, for some of the buffers                 *)
Save(w, S, by) ==
  [w EXCEPT !.queue =
     [p \in Path |->
        IF p \in S \cap Dirty(w)
        THEN Enqueue(w, p, w.files[p].text, by).queue[p] ELSE @[p]]]

(* rememberMutationGeneration                                              *)
Remember(w, g) == [w EXCEPT !.known = Newer(@, g)]

(* A variant, not the code: whatever the buffer holds by now is saved.     *)
AfterSaveAnyText(w, p, h) ==
  IF p \in DOMAIN w.files
  THEN [Clean(w, p) EXCEPT !.pending = @ \ {p}] ELSE w

(* What a write's success does, by who asked for it.  A buffer stays dirty *)
(* when it has other text by now, or was reloaded meanwhile.               *)
AfterSave(w, p, h) ==
  LET y == IF Holds(w, p, h.text) /\ w.reload = h.reload THEN Clean(w, p)
           ELSE w IN
  IF p \in Dirty(y) THEN Later(Pend(y, p))
  ELSE [y EXCEPT !.pending = @ \ {p}]

AfterPreserve(w, p, h) ==
  Later(IF Holds(w, p, h.text)
        THEN [Clean(w, p) EXCEPT !.pending = @ \ {p}] ELSE w)

Written(w, p, h) ==
  CASE h.by \in {"autosave", "flush", "rescue"} -> AfterSave(w, p, h)
    [] h.by \in {"local", "restore"} -> AfterPreserve(w, p, h)
    [] OTHER -> w

(* What a write's failure does.  Only a conflict is tried again by itself. *)
Again(w, p) ==
  Later(Pend([w EXCEPT !.files = Put(@, p, Buffer(@[p].text, TRUE))], p))

(* A variant, not the code: a conflict waits for the next edit, too.       *)
NotWrittenUntilEdited(w, p, h) ==
  IF p \in Dirty(w) THEN Pend(w, p) ELSE w

(* A variant, not the code: a save that failed is not remembered.          *)
NotWrittenForgotten(w, p, h) == w

NotWritten(w, p, h) ==
  CASE h.by \in {"autosave", "flush", "rescue"} ->
         LET y == IF p \in Dirty(w) THEN Pend(w, p) ELSE w IN
         IF h.by = "rescue" \/ (p \in Dirty(w) /\ h.result = "conflict")
         THEN Later(y) ELSE y
    [] h.by = "local" -> IF p \in DOMAIN w.files THEN Again(w, p) ELSE w
    [] h.by = "follow" -> IF Holds(w, p, h.text) THEN Again(w, p) ELSE w
    [] OTHER -> IF p \in DOMAIN w.files THEN Later(Pend(w, p)) ELSE w
-----------------------------------------------------------------------------
NoTask == [op |-> "none", pc |-> "none", path |-> None, failed |-> FALSE,
           waits |-> 0, expected |-> 0]

Init ==
  /\ disk = [p \in Path |-> 0]
  /\ gen = 0
  /\ changed = [p \in Path |-> 0]
  /\ \E s \in Scenarios :
       /\ left = s
       /\ win = [open |-> TRUE, files |-> [p \in s.open |-> Buffer(0, FALSE)],
                 pending |-> {}, timer |-> FALSE, known |-> 0, reload |-> 0,
                 rev |-> 0, epoch |-> 0, refreshing |-> FALSE,
                 queue |-> [p \in Path |-> <<>>]]
       /\ loads = {[path |-> p, by |-> "preload", at |-> 0, text |-> None] :
                     p \in s.preload}
  /\ task = NoTask
  /\ reloads = {}
  /\ events = <<>>
  /\ clock = 0
  /\ landed = {}
  /\ faults = 0

(* setContent                                                              *)
Edit(p) ==
  /\ p \in DOMAIN win.files
  /\ Spend("edit")
  /\ clock' = clock + 1
  /\ win' = [win EXCEPT !.files = Put(@, p, Buffer(clock', TRUE)),
                        !.pending = @ \cup {p}, !.timer = TRUE]
  /\ UNCHANGED <<backend, task, loads, reloads, events>>

(* The debounce timer saves every file that was edited.                    *)
AutosaveFires ==
  /\ win.timer
  /\ win' = [Save(win, win.pending, "autosave") EXCEPT
              !.timer = FALSE, !.pending = {}]
  /\ UNCHANGED <<backend, task, loads, reloads, events, clock, left>>

(* The backend admits the oldest write of a path, refuses it, or fails.    *)
BackendWrites(p) ==
  LET h == win.queue[p][1]
      Result(r, g) == win' = [win EXCEPT !.queue[p][1].result = r,
                                         !.queue[p][1].expected = g] IN
  /\ win.queue[p] # <<>>
  /\ h.result = "waiting"
  /\ \/ /\ changed[p] > h.expected
        /\ Result("conflict", h.expected)
        /\ UNCHANGED <<backend, left>>
     \/ /\ changed[p] <= h.expected
        /\ disk' = [disk EXCEPT ![p] = h.text]
        /\ gen' = gen + 1
        /\ changed' = [changed EXCEPT ![p] = gen + 1]
        /\ landed' = IF h.by = "follow" THEN landed ELSE landed \cup {h.text}
        /\ Result("done", gen + 1)
        /\ UNCHANGED <<faults, left>>
     \/ /\ Spend("fault")
        /\ faults' = faults + 1
        /\ Result("failed", h.expected)
        /\ UNCHANGED <<disk, gen, changed, landed>>
  /\ UNCHANGED <<task, loads, reloads, events, clock>>

(* A variant, not the code: it waits for the writes to succeed.            *)
SettledIfDone(p, h) ==
  IF task.path = p /\ task.waits > 0 /\ h.result = "done"
  THEN task.waits - 1 ELSE task.waits

(* What a deletion waits for has come.                                     *)
Settled(p, h) ==
  IF task.path = p /\ task.waits > 0 THEN task.waits - 1 ELSE task.waits

(* The answer arrives.  A write that fails takes the ones that wait for it *)
(* along: they never reach the backend.                                    *)
Answered(p) ==
  LET h == win.queue[p][1]
      rest == Tail(win.queue[p])
      y == Remember(win, IF h.result = "done" THEN h.expected ELSE gen)
      next == IF rest = <<>> THEN rest
              ELSE IF h.result = "done"
              THEN [rest EXCEPT ![1].expected = y.known]
              ELSE [n \in DOMAIN rest |-> [rest[n] EXCEPT !.result = h.result]]
      z == [y EXCEPT !.queue[p] = next] IN
  /\ win.queue[p] # <<>>
  /\ h.result # "waiting"
  /\ win' = IF h.result = "done" THEN Written(z, p, h) ELSE NotWritten(z, p, h)
  /\ task' = [task EXCEPT
               !.waits = Settled(p, h),
               !.failed = @ \/ (h.by = "flush" /\ h.result # "done")]
  /\ UNCHANGED <<backend, loads, reloads, events, clock, left>>
-----------------------------------------------------------------------------
(* Transitions are queued: one at a time.                                  *)
Start(op, p) == task' = [NoTask EXCEPT !.op = op, !.pc = "flush", !.path = p]

StartFlushing(op) ==
  /\ task.op = "none" /\ win.open
  /\ Spend(op)
  /\ Start(op, None)
  /\ win' = [win EXCEPT !.timer = FALSE]
  /\ UNCHANGED <<backend, loads, reloads, events, clock>>

(* flushDirtyBuffers: another round while there is a dirty buffer.         *)
Flushing ==
  /\ task.pc = "flush"
  /\ \A p \in Path : \A n \in DOMAIN win.queue[p] :
       win.queue[p][n].by # "flush"

FlushRound ==
  /\ Flushing
  /\ ~task.failed /\ Dirty(win) # {}
  /\ win' = [Save(win, Dirty(win), "flush") EXCEPT !.pending = @ \ Dirty(win)]
  /\ UNCHANGED <<backend, task, loads, reloads, events, clock, left>>

FlushFails ==
  /\ Flushing
  /\ task.failed
  /\ win' = [win EXCEPT !.pending = @ \cup Dirty(win)]
  /\ task' = NoTask
  /\ UNCHANGED <<backend, loads, reloads, events, clock, left>>

(* closeProject after its flush: the timer is stopped, the backend told,   *)
(* and then the store is emptied.                                          *)
FlushedForClose ==
  /\ Flushing /\ task.op = "close"
  /\ ~task.failed /\ Dirty(win) = {}
  /\ win' = [win EXCEPT !.epoch = @ + 1, !.timer = FALSE, !.pending = {}]
  /\ task' = [task EXCEPT !.pc = "closing"]
  /\ UNCHANGED <<backend, loads, reloads, events, clock, left>>

CloseEnds ==
  /\ task.pc = "closing"
  /\ win' = [win EXCEPT !.open = FALSE, !.files = <<>>]
  /\ task' = NoTask
  /\ UNCHANGED <<backend, loads, reloads, events, clock, left>>

(* prepareExternalMutation: flushed, and every queue is empty              *)
FlushedForRestore ==
  /\ Flushing /\ task.op = "restore"
  /\ ~task.failed /\ Dirty(win) = {}
  /\ \A p \in Path : win.queue[p] = <<>>
  /\ win' = Remember([win EXCEPT !.pending = {}], gen)
  /\ task' = [task EXCEPT !.pc = "restoring", !.expected = gen]
  /\ UNCHANGED <<backend, loads, reloads, events, clock, left>>

(* A change of the whole project: new texts, or files that are gone.       *)
ProjectChanges ==
  \E gone \in SUBSET left.shared :
    /\ disk' = [p \in Path |-> IF p \in gone THEN None ELSE clock + 1]
    /\ clock' = clock + 1
    /\ gen' = gen + 1
    /\ changed' = [p \in Path |-> gen + 1]
    /\ UNCHANGED <<landed, faults>>

(* applyProjectStateChanged before and after its reads                     *)
StateChanged(w, e) ==
  IF e.rev <= w.rev THEN w
  ELSE [Remember(w, e.gen) EXCEPT !.rev = e.rev, !.epoch = @ + 1,
                                  !.reload = @ + 1]
StartReload(e) ==
  IF ~win.open \/ e.rev <= win.rev THEN UNCHANGED reloads
  ELSE reloads' = reloads \cup
                    {[rev |-> e.rev, files |-> win.files, seen |-> None]}

BackendRestores ==
  /\ task.pc = "restoring"
  /\ IF \E p \in Path : changed[p] > task.expected
     THEN /\ task' = NoTask
          /\ UNCHANGED <<backend, win, reloads, clock>>
     ELSE /\ ProjectChanges
          /\ win' = StateChanged(win, [rev |-> gen', gen |-> gen'])
          /\ StartReload([rev |-> gen'])
          /\ task' = [task EXCEPT !.pc = "reloading"]
  /\ UNCHANGED <<loads, events, left>>

RestoreEnds ==
  /\ task.pc = "reloading"
  /\ reloads = {}
  /\ task' = NoTask
  /\ UNCHANGED <<backend, win, loads, reloads, events, clock, left>>

(* reconcileProjectFile: a buffer that is dirty, or has changed since the  *)
(* reload began, is kept.                                                  *)
Reconciled(r, p) ==
  LET now == win.files[p] IN
  CASE r.seen[p] = None -> IF now.dirty THEN now ELSE None
    [] r.seen[p] # None /\ \/ p \notin DOMAIN r.files
                           \/ now.dirty
                           \/ now.text # r.files[p].text
                           \/ r.files[p].dirty -> now
    [] OTHER -> Buffer(r.seen[p], FALSE)

ReloadReads(r) ==
  /\ r.seen = None
  /\ reloads' = (reloads \ {r}) \cup {[r EXCEPT !.seen = disk]}
  /\ UNCHANGED <<backend, win, task, loads, events, clock, left>>

Reloaded(r) ==
  LET kept == {p \in DOMAIN win.files : Reconciled(r, p) # None}
      rescued == {p \in Dirty(win) : r.seen[p] = None}
      y == [win EXCEPT !.files = [p \in kept |-> Reconciled(r, p)]] IN
  /\ r.seen # None
  /\ reloads' = reloads \ {r}
  /\ win' = IF ~win.open \/ win.rev # r.rev THEN win
            ELSE Later([Save(y, rescued, "rescue") EXCEPT
                         !.pending = @ \cup rescued])
  /\ UNCHANGED <<backend, task, loads, events, clock, left>>
-----------------------------------------------------------------------------
(* deleteEntry: refused for a dirty buffer; queued saves of the file are   *)
(* dropped and the running ones settle before the backend is asked.        *)
StartDelete(p) ==
  /\ task.op = "none" /\ win.open
  /\ p \in DOMAIN win.files /\ p \notin Dirty(win)
  /\ Spend("delete")
  /\ win' = Later([win EXCEPT !.pending = @ \ {p}])
  /\ task' = [NoTask EXCEPT !.op = "delete", !.pc = "settling", !.path = p,
                            !.waits = Len(win.queue[p])]
  /\ UNCHANGED <<backend, loads, reloads, events, clock>>

DeleteAsks ==
  /\ task.pc = "settling" /\ task.waits = 0
  /\ win' = Remember(win, gen)
  /\ task' = [task EXCEPT !.pc = "deleting", !.expected = Newer(win.known, gen)]
  /\ UNCHANGED <<backend, loads, reloads, events, clock, left>>

BackendDeletes ==
  /\ task.pc = "deleting"
  /\ IF changed[task.path] > task.expected \/ disk[task.path] = None
     THEN /\ task' = [task EXCEPT !.pc = "refused"]
          /\ UNCHANGED backend
     ELSE /\ disk' = [disk EXCEPT ![task.path] = None]
          /\ gen' = gen + 1
          /\ changed' = [changed EXCEPT ![task.path] = gen + 1]
          /\ task' = [task EXCEPT !.pc = "deleted", !.expected = gen + 1]
          /\ UNCHANGED <<landed, faults>>
  /\ UNCHANGED <<win, loads, reloads, events, clock, left>>

DeleteEnds ==
  /\ task.pc \in {"deleted", "refused"}
  /\ win' = Later(IF task.pc = "deleted"
                  THEN [Remember(win, task.expected) EXCEPT
                         !.files = Forget(@, {task.path})]
                  ELSE win)
  /\ task' = NoTask
  /\ UNCHANGED <<backend, loads, reloads, events, clock, left>>
-----------------------------------------------------------------------------
(* openFile: only the newest request for a path counts, and none that an   *)
(* external change overtook.  The texts of bibliographies are preloaded    *)
(* when a project opens.                                                   *)
OpenFile(p) ==
  /\ win.open /\ p \notin DOMAIN win.files
  /\ Spend("load")
  /\ loads' = {l \in loads : l.by = "preload" \/ l.path # p}
              \cup {[path |-> p, by |-> "open", at |-> win.epoch, text |-> None]}
  /\ UNCHANGED <<backend, win, task, reloads, events, clock>>

BackendReads(l) ==
  /\ l \in loads /\ l.text = None
  /\ loads' = (loads \ {l}) \cup
       (IF disk[l.path] = None THEN {} ELSE {[l EXCEPT !.text = disk[l.path]]})
  /\ UNCHANGED <<backend, win, task, reloads, events, clock, left>>

LoadReturns(l) ==
  /\ l \in loads /\ l.text # None
  /\ loads' = loads \ {l}
  /\ win' = IF win.open /\ l.at = (IF l.by = "open" THEN win.epoch ELSE win.rev)
            THEN [win EXCEPT !.files = Put(@, l.path, Buffer(l.text, FALSE))]
            ELSE win
  /\ UNCHANGED <<backend, task, reloads, events, clock, left>>
-----------------------------------------------------------------------------
(* Somebody else (another window, the agent) changes a file and says so.   *)
OtherWrites(p) ==
  /\ p \in left.shared
  /\ Spend("other")
  /\ disk' = [disk EXCEPT ![p] = clock + 1]
  /\ clock' = clock + 1
  /\ gen' = gen + 1
  /\ changed' = [changed EXCEPT ![p] = gen + 1]
  /\ events' = Append(events, [kind |-> "write", path |-> p,
                               text |-> clock + 1])
  /\ UNCHANGED <<win, task, loads, reloads, landed, faults>>

OtherDeletes(p) ==
  /\ p \in left.shared /\ disk[p] # None
  /\ Spend("other")
  /\ disk' = [disk EXCEPT ![p] = None]
  /\ gen' = gen + 1
  /\ changed' = [changed EXCEPT ![p] = gen + 1]
  /\ events' = Append(events, [kind |-> "delete", path |-> p])
  /\ UNCHANGED <<win, task, loads, reloads, clock, landed, faults>>

OtherRestores ==
  /\ Spend("other")
  /\ ProjectChanges
  /\ events' = Append(events, [kind |-> "state", rev |-> gen', gen |-> gen'])
  /\ UNCHANGED <<win, task, loads, reloads>>

(* applyExternalWrite: unsaved edits are kept and written again, a clean   *)
(* buffer takes the text that was announced.                               *)
ExternalWrite(w, p, text) ==
  LET y == [w EXCEPT !.pending = @ \ {p}, !.refreshing = TRUE]
      clean == [y EXCEPT !.files = Put(@, p, Buffer(text, FALSE))] IN
  IF p \in Dirty(w) THEN Enqueue(y, p, w.files[p].text, "local")
  ELSE IF w.queue[p] = <<>> THEN clean
  ELSE Enqueue(clean, p, text, "follow")

(* applyExternalDelete: the same for a file that is gone.                  *)
ExternalDelete(w, p) ==
  LET y == [w EXCEPT !.pending = @ \ {p}, !.refreshing = TRUE,
                     !.epoch = @ + 1] IN
  IF p \in Dirty(w) THEN Enqueue(y, p, w.files[p].text, "restore")
  ELSE [y EXCEPT !.files = Forget(@, {p})]

Hear ==
  /\ events # <<>>
  /\ events' = Tail(events)
  /\ LET e == Head(events) IN
     IF ~win.open THEN UNCHANGED <<win, reloads>>
     ELSE CASE e.kind = "write" ->
                 win' = ExternalWrite(win, e.path, e.text) /\ UNCHANGED reloads
            [] e.kind = "delete" ->
                 win' = ExternalDelete(win, e.path) /\ UNCHANGED reloads
            [] OTHER -> win' = StateChanged(win, e) /\ StartReload(e)
  /\ UNCHANGED <<backend, task, loads, clock, left>>

(* refreshMutationGeneration of an external change                         *)
RefreshReturns ==
  /\ win.refreshing
  /\ win' = [Remember(win, gen) EXCEPT !.refreshing = FALSE]
  /\ UNCHANGED <<backend, task, loads, reloads, events, clock, left>>
-----------------------------------------------------------------------------
Transition ==
  \/ FlushRound \/ FlushFails \/ FlushedForClose \/ CloseEnds
  \/ FlushedForRestore \/ BackendRestores \/ RestoreEnds
  \/ DeleteAsks \/ BackendDeletes \/ DeleteEnds
Loading == \E l \in loads : BackendReads(l) \/ LoadReturns(l)
Reloading == \E r \in reloads : ReloadReads(r) \/ Reloaded(r)
Writing(p) == BackendWrites(p) \/ Answered(p)

Next ==
  \/ AutosaveFires \/ Transition \/ Loading \/ Reloading
  \/ Hear \/ RefreshReturns
  \/ StartFlushing("close") \/ StartFlushing("restore")
  \/ \E p \in Path : \/ Writing(p) \/ Edit(p) \/ StartDelete(p)
                     \/ OpenFile(p) \/ OtherWrites(p) \/ OtherDeletes(p)
  \/ OtherRestores

Spec == Init /\ [][Next]_vars
FairSpec ==
  /\ Spec
  /\ WF_vars(AutosaveFires) /\ WF_vars(Transition)
  /\ WF_vars(Loading) /\ WF_vars(Reloading)
  /\ WF_vars(Hear) /\ WF_vars(RefreshReturns)
  /\ \A p \in Path : WF_vars(Writing(p))
-----------------------------------------------------------------------------
TypeOK ==
  /\ disk \in [Path -> Nat \cup {None}]
  /\ changed \in [Path -> 0 .. gen]
  /\ DOMAIN win.files \subseteq Path /\ win.pending \subseteq Path
  /\ \A p \in DOMAIN win.files : win.files[p].text \in Nat
  /\ win.known \in 0 .. gen
  /\ task.op \in {"none", "close", "restore", "delete"}
  /\ \A l \in loads : l.path \in Path

(* Unsaved text is kept until it was on disk or the user typed something   *)
(* newer, whatever is saved, reloaded or announced meanwhile.  It is not   *)
(* kept when the project is closed or the file deleted, nor when the read  *)
(* of a file returns which a citation was put into in the meantime.        *)
EditsSurvive ==
  [][\A p \in Dirty(win) :
       \/ win.files[p].text \in landed
       \/ /\ p \in Dirty(win')
          /\ win'.files[p].text >= win.files[p].text
       \/ CloseEnds \/ DeleteEnds \/ Loading]_vars

(* Nobody forgets a dirty buffer: it waits for the timer's next turn or a  *)
(* write of its path is on its way.                                        *)
DirtyIsPending ==
  \A p \in Dirty(win) : p \in win.pending \/ win.queue[p] # <<>>

(* An edit reaches the disk by itself, through conflicts and reloads,      *)
(* unless a write failed or the project was closed; provided that the      *)
(* writes of its file are all answered now and then: the timer, 1.5 s      *)
(* away, does not again and again find one of them still on its way.       *)
DirtyIsSaved ==
  \A p \in Path :
    []<>(win.queue[p] = <<>>) =>
      (p \in Dirty(win) ~> p \notin Dirty(win) \/ faults > 0)

(* A transition ends, although the writes it waits for may fail, or        *)
(* conflict and be tried again.  That the user and others make finitely    *)
(* many changes is an assumption: flushDirtyBuffers loops while any buffer *)
(* is dirty, and a user who never stops typing would keep a closing or a   *)
(* restore waiting.                                                        *)
TransitionsEnd == task.op # "none" ~> task.op = "none"

(* A project is emptied only when none of its buffers is dirty: what was   *)
(* typed while closeProject flushed, or while it told the backend, is not  *)
(* thrown away.                                                            *)
CloseKeepsEdits == task.pc = "closing" => Dirty(win) = {}
=============================================================================

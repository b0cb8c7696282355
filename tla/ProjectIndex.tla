---------------------------- MODULE ProjectIndex ----------------------------
(***************************************************************************)
(* The project index (src/store/project-index.ts): the source graph that   *)
(* completion, navigation and the AI read.  IndexKeeper drives it from the *)
(* file store; a worker (lib/project-intelligence/) keeps one analysis per *)
(* source file and answers requests in the order they were posted.         *)
(*                                                                         *)
(* Three things are asynchronous and may be overtaken by anything else: a  *)
(* timer (the debounced rebuild, the debounced request), the read of a     *)
(* rebuild, and the worker.                                                *)
(*                                                                         *)
(* Left out: files that are not sources; what an analysis contains beyond  *)
(* the text it was made from; size limits; deleteFile, renameFile,         *)
(* retryIntelligence and dispose, which nothing calls.                     *)
(***************************************************************************)
EXTENDS Integers, Sequences

CONSTANTS
  Project,
  Path, RootOf,   \* source files, and the main document each belongs to
  StoredMain,     \* the stored main document, opened first
  Budgets,        \* bounds what happens around the index, in a behaviour
  None

ASSUME PathAssumption == StoredMain \in Path /\ RootOf \in [Path -> Path]

Id == [project : Project \cup {None}, rev : Nat, gen : Nat]
ASSUME NoneAssumption == None \notin Project \cup Path \cup Id

VARIABLES
  disk,    \* the files of each project; None where there is none
  files,   \* the file store, as far as the index reads it
  ix,      \* the index store and its module variables
  reads,   \* the rebuilds whose read has not returned
  posted,  \* requests posted to the worker, oldest first, with its answers
  worker,  \* what the worker remembers
  merges,  \* contributions of the language service on their way
  left     \* what is left of the budget

vars == <<disk, files, ix, reads, posted, worker, merges, left>>

Text == {0, 1}
Nothing == <<>>     \* texts, buffers and requests are about some of the files
Only(fn, S) == [f \in S \cap DOMAIN fn |-> fn[f]]
Without(fn, S) == Only(fn, DOMAIN fn \ S)
Over(fn, base) ==
  [f \in DOMAIN fn \cup DOMAIN base |->
     IF f \in DOMAIN fn THEN fn[f] ELSE base[f]]
Spend(what) == left[what] > 0 /\ left' = [left EXCEPT ![what] = @ - 1]
-----------------------------------------------------------------------------
FreshRuntime(x, project) ==
  [x EXCEPT !.project = project, !.rev = 0, !.gen = 0, !.needsReset = TRUE,
            !.known = {}, !.signature = {}, !.unreadable = {},
            !.srcRev = [f \in Path |-> 0], !.ext = None, !.sched = None]

EnsureProject(x, p) == IF x.project = p THEN x ELSE FreshRuntime(x, p)

(* reset(): the open project changed.                                      *)
NotRun == [status |-> "not_run", id |-> None, data |-> None, stale |-> FALSE]
Reset(x) ==
  [FreshRuntime(x, None) EXCEPT
    !.wproject = None, !.seq = @ + 1, !.texts = Nothing,
    !.building = FALSE, !.state = NotRun]

(* A variant, not the code: what was painted stays as it is meanwhile.     *)
RunningKeepsStatus(state, id) ==
  IF state.data # None THEN [state EXCEPT !.id = id] ELSE
  [status |-> "running", id |-> id, data |-> None, stale |-> FALSE]

Running(state, id) ==
  [status |-> "running", id |-> id, data |-> state.data,
   stale |-> state.data # None]

Identity(x) == [project |-> x.project, rev |-> x.rev, gen |-> x.gen]

(* invalidateFilesystem: the painted graph stops being current at once.    *)
(* Stopping the timer drops the request that was waiting for it.           *)
Invalidate(x, p) ==
  LET e == EnsureProject(x, p)
      y == [e EXCEPT !.seq = @ + 1, !.sched = None, !.rev = @ + 1,
                     !.gen = @ + 1, !.ext = None, !.building = TRUE] IN
  [y EXCEPT !.state = Running(@, Identity(y))]

(* scheduleAnalysis: a request that still waits is combined with the new   *)
(* one.  A source revision is allocated when a file has none.              *)
Allocated(x, S) ==
  [x EXCEPT !.srcRev =
     [f \in Path |-> IF f \in S /\ @[f] = 0 THEN 1 ELSE @[f]]]
Tagged(x, texts) ==
  [f \in DOMAIN texts |-> [text |-> texts[f], rev |-> x.srcRev[f]]]

Schedule(x, p, known, send, removals, unread, texts) ==
  LET e == EnsureProject(x, p)
      prior == IF x.sched # None /\ x.sched.id.project = p THEN x.sched
               ELSE [reset |-> FALSE, upserts |-> Nothing, removals |-> {},
                     unread |-> Nothing]
      reset == e.needsReset \/ e.wproject # p
      chosen == Only(texts, IF reset THEN known ELSE send)
      y == Allocated([e EXCEPT !.gen = @ + 1, !.needsReset = FALSE,
                               !.wproject = p, !.known = known,
                               !.texts = texts, !.building = TRUE],
                     DOMAIN chosen \cup unread)
      upserts == Over(Tagged(y, chosen), prior.upserts)
      gone == (prior.removals \cup removals) \ DOMAIN upserts
      failed == Over(Tagged(y, [f \in unread |-> None]), prior.unread) IN
  [y EXCEPT
    !.state = Running(@, Identity(y)),
    !.sched = [id |-> Identity(y),
               reset |-> reset \/ prior.reset,
               known |-> known,
               upserts |-> Without(upserts, unread),
               removals |-> IF reset THEN {} ELSE gone,
               unread |-> Without(failed, gone)]]

(* updateFile: the text of the active buffer.                              *)
Update(x, p, tree, f, text) ==
  LET e == EnsureProject(x, p)
      texts == Over([g \in {f} |-> text], e.texts)
      known == tree \cup DOMAIN texts
      y == [e EXCEPT !.seq = @ + 1, !.srcRev[f] = @ + 1, !.rev = @ + 1,
                     !.ext = None, !.unreadable = @ \ {f}] IN
  IF f \in DOMAIN e.texts /\ e.texts[f] = text THEN e
  ELSE Schedule(y, p, known, {f}, y.known \ known, y.unreadable \cap known,
                texts)
-----------------------------------------------------------------------------
(* IndexKeeper: what follows a change of the file store.  The layout       *)
(* effects come first, then the reset, then the rebuild timer.             *)
MainOf(fs) == IF fs.active = None THEN StoredMain ELSE RootOf[fs.active]
Content(fs) == fs.buffer[fs.active]

Keep(x, old, new, refreshed) ==
  LET moved == refreshed \/ new.project # old.project
                 \/ MainOf(new) # MainOf(old)
      typed == /\ new.active # None
               /\ \/ new.active # old.active
                  \/ Content(new) # Content(old)
      x1 == IF moved /\ new.project # None THEN Invalidate(x, new.project)
            ELSE x
      x2 == IF typed
            THEN Update(x1, new.project, new.tree, new.active, Content(new))
            ELSE x1
      x3 == IF new.project # old.project THEN Reset(x2) ELSE x2 IN
  IF moved \/ new.loading # old.loading
  THEN [x3 EXCEPT !.due = new.project # None /\ ~new.loading]
  ELSE x3

Changes(new, refreshed) ==
  files' = new /\ ix' = Keep(ix, files, new, refreshed)

NoProject == [project |-> None, loading |-> FALSE, tree |-> {},
              active |-> None, buffer |-> Nothing, opening |-> 0]
NewWorker == [project |-> None, rev |-> 0, gen |-> 0, cache |-> Nothing]

Init ==
  /\ disk = [p \in Project |-> [f \in Path |-> 0]]
  /\ files = NoProject
  /\ ix = [project |-> None, rev |-> 0, gen |-> 0, needsReset |-> TRUE,
           wproject |-> None, known |-> {}, signature |-> {},
           unreadable |-> {}, srcRev |-> [f \in Path |-> 0], ext |-> None,
           sched |-> None, seq |-> 0, texts |-> Nothing, building |-> FALSE,
           due |-> FALSE, state |-> NotRun]
  /\ reads = {}
  /\ posted = <<>>
  /\ worker = NewWorker
  /\ merges = {}
  /\ left \in Budgets

(* Dirty buffers are on disk before another project is shown.              *)
Flushed ==
  IF files.project = None THEN disk
  ELSE [disk EXCEPT ![files.project] = Over(files.buffer, @)]

OpenProject(p) ==
  /\ Spend("open")
  /\ disk' = Flushed
  /\ Changes([NoProject EXCEPT !.project = p, !.loading = TRUE,
                               !.opening = files.opening + 1], TRUE)
  /\ UNCHANGED <<reads, posted, worker, merges>>

CloseProject ==
  /\ files.project # None
  /\ Spend("open")
  /\ disk' = Flushed
  /\ Changes([NoProject EXCEPT !.opening = files.opening], TRUE)
  /\ UNCHANGED <<reads, posted, worker, merges>>

TreeLoads ==
  /\ files.loading
  /\ files.tree = {}
  /\ Changes([files EXCEPT !.tree = DOMAIN disk[files.project]], TRUE)
  /\ UNCHANGED <<disk, reads, posted, worker, merges, left>>

MainOpens ==
  /\ files.loading
  /\ files.tree # {}
  /\ Changes([files EXCEPT
               !.active = StoredMain, !.loading = FALSE,
               !.buffer = Only(disk[files.project], {StoredMain})], FALSE)
  /\ UNCHANGED <<disk, reads, posted, worker, merges, left>>

Edit ==
  /\ files.active # None
  /\ Spend("edit")
  /\ Changes([files EXCEPT !.buffer[files.active] = 1 - @], FALSE)
  /\ UNCHANGED <<disk, reads, posted, worker, merges>>

SwitchTab(f) ==
  /\ files.active \notin {None, f}
  /\ f \in files.tree \cap DOMAIN disk[files.project]
  /\ Spend("tab")
  /\ Changes([files EXCEPT
               !.active = f,
               !.buffer = Over(@, Only(disk[files.project], {f}))], FALSE)
  /\ UNCHANGED <<disk, reads, posted, worker, merges>>

(* Another actor creates, changes or removes a file that is not open; the  *)
(* tree is read again.                                                     *)
TreeChanges(f) ==
  /\ files.active # None
  /\ f \notin DOMAIN files.buffer
  /\ Spend("tree")
  /\ LET there == disk[files.project] IN
     \E now \in {Without(there, {f})} \cup
                {Over([g \in {f} |-> t], there) : t \in Text} :
       /\ now # there
       /\ disk' = [disk EXCEPT ![files.project] = now]
       /\ Changes([files EXCEPT !.tree = DOMAIN now], TRUE)
  /\ UNCHANGED <<reads, posted, worker, merges>>
-----------------------------------------------------------------------------
(* rebuildFromDisk up to its read: open buffers are taken at once.         *)
StartRebuild ==
  LET e == EnsureProject([ix EXCEPT !.seq = @ + 1], files.project)
      tree == files.tree IN
  /\ ix.due
  /\ reads' = reads \cup
       {[seq |-> e.seq, project |-> files.project, known |-> tree,
         before |-> e.state, buffer |-> Only(files.buffer, tree)]}
  /\ ix' = [e EXCEPT !.due = FALSE, !.building = TRUE,
                     !.state = Running(@, @.id)]
  /\ UNCHANGED <<disk, files, posted, worker, merges, left>>

(* A variant, not the code: only the project and its tree are compared.    *)
AbandonedByTree(r) == files.project # r.project \/ files.tree # r.known

Abandoned(r) ==
  \/ r.seq # ix.seq
  \/ files.project # r.project
  \/ files.tree # r.known

(* What the read found is compared with what the index holds.              *)
Loaded(r, bad) ==
  LET texts == Only(Over(r.buffer, disk[r.project]), r.known \ bad)
      changed == {f \in DOMAIN texts :
                    \/ f \notin DOMAIN ix.texts
                    \/ texts[f] # ix.texts[f]
                    \/ ix.srcRev[f] = 0}
      removed == DOMAIN ix.texts \ DOMAIN texts
      unread == r.known \ DOMAIN texts
      isNew == \/ ix.rev = 0
               \/ changed \cup removed # {}
               \/ unread # ix.unreadable
               \/ r.known # ix.signature
      x == [ix EXCEPT
             !.srcRev =
               [f \in Path |->
                  @[f] + (IF f \in changed THEN 1 ELSE 0)
                       + (IF f \in unread \ ix.unreadable THEN 1 ELSE 0)
                       + (IF f \in removed THEN 1 ELSE 0)],
             !.unreadable = unread, !.signature = r.known]
      y == IF isNew THEN [x EXCEPT !.rev = @ + 1, !.ext = None] ELSE x
      send == IF x.needsReset \/ x.wproject # r.project THEN DOMAIN texts
              ELSE changed IN
  IF /\ ~isNew
     /\ r.before.status = "success" /\ ~r.before.stale
     /\ ~ix.needsReset
  THEN [x EXCEPT !.texts = texts, !.building = FALSE, !.state = r.before]
  ELSE Schedule(y, r.project, r.known, send, y.known \ r.known, unread, texts)

(* The request of a rebuild is posted at once.                             *)
Post(x) ==
  /\ ix' = [x EXCEPT !.sched = None]
  /\ posted' = Append(posted, [request |-> x.sched, answer |-> None,
                               opening |-> files.opening])

Unreadable(r) == {{}} \cup {{f} : f \in r.known \ DOMAIN r.buffer}

RebuildReads(r, bad) ==
  /\ reads' = reads \ {r}
  /\ IF bad = {} THEN UNCHANGED left ELSE Spend("bad")
  /\ IF Abandoned(r) THEN UNCHANGED <<ix, posted>>
     ELSE LET x == Loaded(r, bad) IN
          IF x.gen = ix.gen THEN ix' = x /\ UNCHANGED posted
          ELSE Post(x)
  /\ UNCHANGED <<disk, files, worker, merges>>

(* The debounced request is posted when its timer fires.                   *)
Dispatch ==
  /\ ix.sched # None
  /\ Post(ix)
  /\ UNCHANGED <<disk, files, reads, worker, merges, left>>
-----------------------------------------------------------------------------
(* analyze() of the worker: revisions only advance, and a source revision  *)
(* stands for one text.                                                    *)
Cleared(req) ==
  IF req.reset \/ worker.project # req.id.project
  THEN [NewWorker EXCEPT !.project = req.id.project]
  ELSE worker

Backwards(w, req) ==
  w.gen > 0 /\ (req.id.rev < w.rev \/ req.id.gen <= w.gen)

Conflicts(cache, req) ==
  {f \in DOMAIN req.upserts \cap DOMAIN cache :
     \/ req.upserts[f].rev < cache[f].rev
     \/ /\ req.upserts[f].rev = cache[f].rev
        /\ req.upserts[f].text # cache[f].text}

(* Known files the worker was never sent are remembered as not loaded.     *)
Unloaded(files_) == [f \in files_ |-> [text |-> None, rev |-> 0]]

FirstOpen(n) ==
  /\ n \in DOMAIN posted
  /\ posted[n].answer = None
  /\ \A m \in 1 .. (n - 1) : posted[m].answer # None

Refused == [ok |-> FALSE]

WorkerAnalyzes(n) ==
  LET req == posted[n].request
      w == Cleared(req)
      kept == Over(req.unread, Without(w.cache, req.removals))
      bad == Conflicts(kept, req)
      cache == Over(Only(Over(req.upserts, kept), req.known),
                    Unloaded(req.known))
      Answer(a) == posted' = [posted EXCEPT ![n].answer = a] IN
  /\ FirstOpen(n)
  /\ IF Backwards(w, req) THEN worker' = w /\ Answer(Refused)
     ELSE IF bad # {}
     THEN /\ \E S \in SUBSET (DOMAIN req.upserts \ bad) :
               worker' = [w EXCEPT !.cache = Over(Only(req.upserts, S), kept)]
          /\ Answer(Refused)
     ELSE /\ worker' = [w EXCEPT !.cache = cache, !.rev = req.id.rev,
                                 !.gen = req.id.gen]
          /\ Answer([ok |-> TRUE,
                     texts |-> [f \in req.known |-> cache[f].text]])
  /\ UNCHANGED <<disk, files, ix, reads, merges, left>>

(* The handler of an answer, in runScheduledAnalysis.                      *)
Asked(x, id) == x.state.id = id /\ files.project = id.project

(* A variant, not the code: the indicator is left on after a failure.      *)
FailedBuilding(x, id) ==
  LET y == [x EXCEPT !.needsReset = TRUE] IN
  IF Asked(x, id)
  THEN [y EXCEPT !.state.status = "error",
                 !.state.stale = x.state.data # None]
  ELSE y

Failed(x, id) ==
  LET y == [x EXCEPT !.needsReset = TRUE] IN
  IF Asked(x, id)
  THEN [y EXCEPT !.building = FALSE, !.state.status = "error",
                 !.state.stale = x.state.data # None]
  ELSE y

(* A variant, not the code: whatever contribution waits is merged.         *)
PaintedWithAny(x, answer, id, opening) ==
  IF Asked(x, id)
  THEN [x EXCEPT
         !.building = FALSE,
         !.state = [status |-> "success", id |-> id, stale |-> FALSE,
                    data |-> [id |-> id, texts |-> answer,
                              opening |-> opening, ext |-> x.ext]]]
  ELSE x

Painted(x, answer, id, opening) ==
  IF Asked(x, id)
  THEN [x EXCEPT
         !.building = FALSE,
         !.state = [status |-> "success", id |-> id, stale |-> FALSE,
                    data |-> [id |-> id, texts |-> answer,
                              opening |-> opening,
                              ext |-> IF x.ext = id THEN x.ext ELSE None]]]
  ELSE x

AnswerArrives ==
  /\ posted # <<>>
  /\ posted[1].answer # None
  /\ posted' = Tail(posted)
  /\ LET id == posted[1].request.id IN
     ix' = IF ~posted[1].answer.ok THEN Failed(ix, id)
           ELSE Painted(ix, posted[1].answer.texts, id, posted[1].opening)
  /\ UNCHANGED <<disk, files, reads, worker, merges, left>>

(* A request takes longer than its limit, or the worker fails: every       *)
(* request fails and the next one starts another worker.                   *)
WorkerFails ==
  /\ posted # <<>>
  /\ Spend("fail")
  /\ posted' = <<>>
  /\ worker' = NewWorker
  /\ LET ids == {posted[n].request.id : n \in DOMAIN posted} IN
     ix' = IF ix.state.id \in ids THEN Failed(ix, ix.state.id)
           ELSE [ix EXCEPT !.needsReset = TRUE]
  /\ UNCHANGED <<disk, files, reads, merges>>

(* The language service contributes to the identity it was asked about.    *)
Contribute ==
  /\ ix.state.id # None
  /\ Spend("merge")
  /\ merges' = merges \cup {ix.state.id}
  /\ UNCHANGED <<disk, files, ix, reads, posted, worker>>

MergeLanguageService(id) ==
  LET s == ix.state
      x == [ix EXCEPT !.ext = id] IN
  /\ merges' = merges \ {id}
  /\ ix' = IF s.id # id THEN ix
           ELSE IF s.data = None \/ s.stale THEN x
           ELSE IF s.data.id # id THEN x
           ELSE [x EXCEPT !.state.data.ext = id]
  /\ UNCHANGED <<disk, files, reads, posted, worker, left>>
-----------------------------------------------------------------------------
Progress ==
  \/ TreeLoads \/ MainOpens \/ StartRebuild \/ Dispatch \/ AnswerArrives
  \/ \E r \in reads : \E bad \in Unreadable(r) : RebuildReads(r, bad)
  \/ \E n \in DOMAIN posted : WorkerAnalyzes(n)

Next ==
  \/ Progress
  \/ \E p \in Project : OpenProject(p)
  \/ CloseProject \/ Edit \/ WorkerFails \/ Contribute
  \/ \E f \in Path : SwitchTab(f) \/ TreeChanges(f)
  \/ \E id \in merges : MergeLanguageService(id)

Spec == Init /\ [][Next]_vars

(* Weak fairness of Progress: something that is on its way gets further.   *)
(* Busy is ENABLED Progress, written out because TLC is slow to find it.   *)
Busy ==
  files.loading \/ ix.due \/ ix.sched # None \/ reads # {} \/ posted # <<>>
FairSpec == Spec /\ ([]<>~Busy \/ []<><<Progress>>_vars)
-----------------------------------------------------------------------------
TypeOK ==
  /\ files.project \in Project \cup {None}
  /\ files.tree \subseteq Path
  /\ \A f \in DOMAIN files.buffer : files.buffer[f] \in Text
  /\ ix.rev \in Nat /\ ix.gen \in Nat /\ ix.seq \in Nat
  /\ \A f \in DOMAIN ix.texts : ix.texts[f] \in Text
  /\ ix.state.status \in {"not_run", "running", "success", "error"}
  /\ ix.state.id \in Id \cup {None}
  /\ ix.sched # None => ix.sched.id \in Id
  /\ \A n \in DOMAIN posted : posted[n].request.id \in Id

(* A graph painted as current is the one of the last revision and the last *)
(* request, however many answers, reads and timers of older ones are under *)
(* way, and also where a rebuild puts back what was there before it.       *)
PaintedIsCurrent ==
  ix.state.status = "success" =>
    /\ ~ix.state.stale
    /\ ix.state.data.id = ix.state.id
    /\ ix.state.id = Identity(ix)

(* The index has the text of the active buffer at every moment: a rebuild  *)
(* that took the buffers before an edit never puts the older text back.    *)
(* The exception is a file opened while a rebuild reads the tree, when     *)
(* that read of it fails: the rebuild drops the text until the next edit.  *)
BufferIsIndexed ==
  files.active \notin {None} \cup ix.unreadable =>
    /\ files.active \in DOMAIN ix.texts
    /\ ix.texts[files.active] = Content(files)

(* As long as a project was opened once, the worker never refuses a        *)
(* request: its revisions advance and a source revision stands for one     *)
(* text, through combined and dropped requests, abandoned rebuilds and     *)
(* workers that were replaced.                                             *)
WorkerAccepts ==
  files.opening = 1 => \A n \in DOMAIN posted : posted[n].answer # Refused

(* A contribution of the language service is only ever painted on the      *)
(* graph of the revision and request it was made for, never on a retained  *)
(* one, in whichever order it and the worker's answer come.                *)
ContributionMatches ==
  ix.state.data # None =>
    ix.state.data.ext \in {None, ix.state.data.id}

(* Every open project ends up with a graph or an error: "building" never   *)
(* stays, whatever was abandoned, dropped or failed on the way.            *)
IndexSettles ==
  <>[](files.project # None /\ ~files.loading =>
         ix.state.status \in {"success", "error"} /\ ~ix.building)
-----------------------------------------------------------------------------
(* A contribution for the last request is in the painted graph, whether it *)
(* came before the worker's answer or after it.                            *)
ContributionIsKept ==
  ix.state.status = "success" /\ ix.ext = ix.state.id =>
    ix.state.data.ext = ix.ext

(* Once everything is quiet, the graph was made from the texts the index   *)
(* says are in its requests.                                               *)
GraphCatchesUp ==
  <>[](ix.state.status = "success" =>
         Only(ix.state.data.texts, DOMAIN ix.texts) = ix.texts)

(* Once everything is quiet, the index has every file of the tree that can *)
(* be read.                                                                *)
KnownFilesAreLoaded ==
  <>[](ix.state.status = "success" =>
         files.tree \subseteq DOMAIN ix.texts \cup ix.unreadable)
=============================================================================

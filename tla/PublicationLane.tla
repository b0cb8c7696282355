-------------------------- MODULE PublicationLane --------------------------
(***************************************************************************)
(* Publishing the checkpoints of one project in the background of its      *)
(* compiles (src-tauri/src/checkpoint_publication.rs).  Every successful   *)
(* compile schedules a request.  The project's lane runs one at a time: a  *)
(* newer one stops the one that runs and waits as its only successor.  A   *)
(* publication compiles the live files (discovery), seals them into a      *)
(* candidate, compiles the sealed copy (replay), and commits it if both    *)
(* produced the same document.                                             *)
(*                                                                         *)
(* Beside it run the commands that change the project's files or delete    *)
(* its checkpoints.  They first stop the lane, and share four locks with   *)
(* it: compile_lock, the per-project operation lock (which the lane only   *)
(* polls), and the worktree lock, shared or exclusive (which blocks).  The *)
(* lanes mutex and a token's mutex are held for one action at most.        *)
(*                                                                         *)
(* A compiler is one pass; its process may end at any time.  The request   *)
(* itself names the process.  The compiler cache lock, preflight checks    *)
(* and toolchain identity, which can only skip a publication, are          *)
(* abstracted to SkipPublication.                                          *)
(***************************************************************************)
EXTENDS Integers, FiniteSets, Sequences, SequencesExt

CONSTANTS
  Request,      \* publications that compiles may schedule
  Version,      \* contents of the project's files
  Torn,         \* their content while some of them are being changed
  Command,      \* commands a user gives once each
  Scripts,      \* what the commands may be, together
  Passes,       \* how many compiler passes a probe may take
  None

Kinds == {"save", "restore", "recycle", "delete", "reset", "cleanup"}
ASSUME ScriptAssumption == Scripts \subseteq [Command -> Kinds]
ASSUME PassesAssumption == Passes \in Nat \ {0}

VARIABLES
  sources,      \* what the project's files contain
  exists,       \* the project has not been recycled
  history,      \* the visible checkpoints, and the request that made each
  inFlight,     \* the lane's request, None if there is no lane
  successor,    \* the lane's successor, or None
  token,        \* the stop token of each request
  task,         \* where each publication is and what it has found
  child,        \* the publications with a running compiler process
  killers,      \* processes a stop is on its way to
  compiling,    \* who holds compile_lock
  operating,    \* who holds the project's operation lock
  readers,      \* who holds the worktree lock shared
  writer,       \* who holds it exclusively
  command,      \* what each command is, and what it does next
  stopped,      \* requests that were stopped before they were published
  erased        \* requests that were scheduled before history was deleted

world    == <<sources, exists, history>>
lane     == <<inFlight, successor>>
process  == <<child, killers>>
locks    == <<compiling, operating, readers, writer>>
recorded == <<stopped, erased>>
vars == <<world, lane, token, task, process, locks, command, recorded>>

Cancel == INSTANCE CompileCancel WITH Pid <- Request, NoPid <- None

-----------------------------------------------------------------------------
Stages ==
  {"new", "waiting", "delay", "begin", "operation", "compare", "probe",
   "compile", "spawn", "attach", "running", "open", "stage", "seal", "prove",
   "commit", "leave", "finish", "published", "unchanged", "skipped", "dropped"}
Settled == {"published", "unchanged", "skipped", "dropped"}
Running == Stages \ (Settled \cup {"new", "waiting"})

ASSUME NoneAssumption ==
  /\ None \notin Request \cup Version \cup Command \cup Settled
  /\ Torn \notin Version

NewTask ==
  [at |-> "new", probe |-> "discovery", pass |-> 0, read |-> {},
   found |-> None, sealed |-> None, outcome |-> None]

IsStopped(r) == Cancel!IsRequested(token[r])
Roots == {history[i].root : i \in DOMAIN history}
Newest == IF history = <<>> THEN None ELSE Last(history).root

At(r, stage) == task[r].at = stage
To(r, stage) == task' = [task EXCEPT ![r].at = stage]
(* publish_after_successful_compile returns with an outcome.               *)
Return(r, outcome) ==
  task' = [task EXCEPT ![r].at = "leave", ![r].outcome = outcome]
Update(r, new) == token' = [token EXCEPT ![r] = new]

Init ==
  /\ sources \in Version /\ exists = TRUE /\ history = <<>>
  /\ inFlight = None /\ successor = None
  /\ token = [r \in Request |-> Cancel!Fresh]
  /\ task = [r \in Request |-> NewTask]
  /\ child = {} /\ killers = {}
  /\ compiling = None /\ operating = None /\ readers = {} /\ writer = None
  /\ \E kind \in Scripts :
       command = [c \in Command |-> [kind |-> kind[c], step |-> "idle"]]
  /\ stopped = {} /\ erased = {}

-----------------------------------------------------------------------------
(* The lane.                                                               *)

(* request_publication_cancel: the successor is dropped and the running    *)
(* publication told to stop; a process it names is terminated later.       *)
StopLane ==
  /\ successor' = None
  /\ IF inFlight = None THEN UNCHANGED <<token, killers>>
     ELSE /\ Update(inFlight, Cancel!RequestStop(token[inFlight]))
          /\ killers' = killers \cup Cancel!Target(token[inFlight])
  /\ stopped' = stopped \cup
       {r \in {inFlight, successor} \ {None} : task[r].outcome # "published"}
  /\ task' = [r \in Request |->
                IF r = successor THEN [task[r] EXCEPT !.at = "dropped"]
                ELSE task[r]]

(* A variant, not the code: a second one starts at once.                   *)
AdmitBeside(r) ==
  /\ task[r].at = "new" /\ exists /\ compiling = None
  /\ inFlight' = r
  /\ Update(r, Cancel!Begin(Cancel!Fresh))
  /\ To(r, "delay")
  /\ UNCHANGED <<world, successor, process, locks, command, recorded>>

(* A compile, holding compile_lock, succeeded and schedules a publication. *)
Admit(r) ==
  /\ task[r].at = "new" /\ exists /\ compiling = None
  /\ IF inFlight = None
       THEN /\ inFlight' = r
            /\ Update(r, Cancel!Begin(Cancel!Fresh))
            /\ To(r, "delay")
            /\ UNCHANGED <<successor, killers, stopped>>
       ELSE /\ successor' = r
            /\ Update(inFlight, Cancel!RequestStop(token[inFlight]))
            /\ killers' = killers \cup Cancel!Target(token[inFlight])
            /\ stopped' = stopped \cup
                 {q \in {inFlight, successor} \ {None} :
                    task[q].outcome # "published"}
            /\ task' = [q \in Request |->
                          IF q = r THEN [task[q] EXCEPT !.at = "waiting"]
                          ELSE IF q = successor
                            THEN [task[q] EXCEPT !.at = "dropped"]
                          ELSE task[q]]
            /\ UNCHANGED inFlight
  /\ UNCHANGED <<world, child, locks, command, erased>>

(* A variant, not the code: the successor is not started.                  *)
FinishAlone(r) ==
  /\ At(r, "finish")
  /\ inFlight' = None
  /\ Update(r, Cancel!Detach(token[r]))
  /\ To(r, task[r].outcome)
  /\ UNCHANGED <<world, successor, process, locks, command, recorded>>

(* The publication is over: its successor starts, or the lane is removed.  *)
Finish(r) ==
  /\ At(r, "finish")
  /\ inFlight' = successor /\ successor' = None
  /\ token' = [q \in Request |->
       CASE q = r -> Cancel!Detach(token[r])
         [] q = successor -> Cancel!Begin(Cancel!Fresh)
         [] OTHER -> token[q]]
  /\ task' = [q \in Request |->
       CASE q = r -> [task[q] EXCEPT !.at = task[r].outcome]
         [] q = successor -> [task[q] EXCEPT !.at = "delay"]
         [] OTHER -> task[q]]
  /\ UNCHANGED <<world, process, locks, command, recorded>>

-----------------------------------------------------------------------------
(* One publication.  It looks for a stop before everything it does.        *)

StopSeen(r) ==
  /\ task[r].at \in {"operation", "probe", "open", "stage", "prove", "commit"}
  /\ IsStopped(r)
  /\ Return(r, "skipped")
  /\ UNCHANGED <<world, lane, token, process, locks, command, recorded>>

Start(r) ==
  /\ At(r, "delay")
  /\ IF IsStopped(r)
       THEN task' = [task EXCEPT ![r].at = "finish", ![r].outcome = "skipped"]
       ELSE To(r, "begin")
  /\ UNCHANGED <<world, lane, token, process, locks, command, recorded>>

(* A stop may come between the check and the scope; the scope keeps it.    *)
BeginPublication(r) ==
  /\ At(r, "begin")
  /\ Update(r, Cancel!Begin(token[r]))
  /\ To(r, "operation")
  /\ UNCHANGED <<world, lane, process, locks, command, recorded>>

TakeOperation(r) ==
  /\ At(r, "operation") /\ ~IsStopped(r) /\ operating = None
  /\ operating' = r
  /\ To(r, "compare")
  /\ UNCHANGED <<world, lane, token, process, compiling, readers, writer,
                 command, recorded>>

(* publication_would_be_unchanged, under the shared worktree lock.         *)
Compare(r) ==
  /\ At(r, "compare") /\ writer = None
  /\ IF Newest = sources /\ exists /\ ~IsStopped(r)
       THEN Return(r, "unchanged") ELSE To(r, "probe")
  /\ UNCHANGED <<world, lane, token, process, locks, command, recorded>>

(* run_probe: a nested scope, then the compiler, pass by pass.             *)
BeginProbe(r) ==
  /\ At(r, "probe") /\ ~IsStopped(r)
  /\ task' = [task EXCEPT ![r].at = "compile", ![r].pass = 0, ![r].read = {}]
  /\ UNCHANGED <<world, lane, token, process, locks, command, recorded>>

BeginCompile(r) ==
  /\ At(r, "compile")
  /\ Update(r, Cancel!Begin(token[r]))
  /\ To(r, "spawn")
  /\ UNCHANGED <<world, lane, process, locks, command, recorded>>

Spawn(r) ==
  /\ At(r, "spawn")
  /\ child' = child \cup {r}
  /\ task' = [task EXCEPT ![r].at = "attach", ![r].pass = @ + 1,
       ![r].read = @ \cup
          {IF task[r].probe = "replay" THEN task[r].sealed ELSE sources}]
  /\ UNCHANGED <<world, lane, token, killers, locks, command, recorded>>

(* A variant, not the code: a process that came too late is kept.          *)
AttachUnasked(r) ==
  /\ At(r, "attach")
  /\ Update(r, Cancel!Attach(token[r], r))
  /\ To(r, "running")
  /\ UNCHANGED <<world, lane, process, locks, command, recorded>>

AttachChild(r) ==
  /\ At(r, "attach")
  /\ Update(r, Cancel!Attach(token[r], r))
  /\ child' = IF Cancel!MayRun(token[r]) THEN child ELSE child \ {r}
  /\ To(r, "running")
  /\ UNCHANGED <<world, lane, killers, locks, command, recorded>>

(* The compiler ends by itself or by its timeout, or it is terminated.     *)
ChildEnds(r) ==
  /\ At(r, "running") /\ r \in child
  /\ child' = child \ {r}
  /\ UNCHANGED <<world, lane, token, task, killers, locks, command, recorded>>

Terminate(r) ==
  /\ r \in killers
  /\ killers' = killers \ {r} /\ child' = child \ {r}
  /\ UNCHANGED <<world, lane, token, task, locks, command, recorded>>

(* What a compile can produce that read its files at several moments.      *)
Produced(read) == IF Cardinality(read) = 1 THEN read ELSE read \cup {Torn}

NextPass(r) ==
  /\ At(r, "running") /\ r \notin child /\ task[r].pass < Passes
  /\ Update(r, Cancel!Unregister(token[r], r))
  /\ To(r, "spawn")
  /\ UNCHANGED <<world, lane, process, locks, command, recorded>>

EndProbe(r) ==
  /\ At(r, "running") /\ r \notin child
  /\ Update(r, Cancel!Detach(token[r]))
  /\ \/ Return(r, "skipped")
     \/ /\ ~IsStopped(r) /\ task[r].probe = "discovery"
        /\ \E found \in Produced(task[r].read) :
             task' = [task EXCEPT ![r].at = "open", ![r].found = found]
     \/ /\ ~IsStopped(r) /\ task[r].probe = "replay"
        /\ To(r, "prove")
  /\ UNCHANGED <<world, lane, process, locks, command, recorded>>

(* The store is opened, unless another process publishes to it.            *)
OpenStore(r) ==
  /\ At(r, "open") /\ ~IsStopped(r)
  /\ To(r, "stage") \/ Return(r, "skipped")
  /\ UNCHANGED <<world, lane, token, process, locks, command, recorded>>

BeginStaging(r) ==
  /\ At(r, "stage") /\ ~IsStopped(r)
  /\ To(r, "seal")
  /\ UNCHANGED <<world, lane, token, process, locks, command, recorded>>

(* The candidate is captured under the shared worktree lock, and its root  *)
(* looked up.                                                              *)
SealUnlocked(r) ==
  /\ At(r, "seal")
  /\ IF IsStopped(r) \/ ~exists THEN Return(r, "skipped")
     ELSE IF sources \in Roots THEN Return(r, "unchanged")
     ELSE task' = [task EXCEPT ![r].at = "probe", ![r].probe = "replay",
                               ![r].sealed = sources]
  /\ UNCHANGED <<world, lane, token, process, locks, command, recorded>>
Seal(r) == writer = None /\ SealUnlocked(r)

(* prove_replay: both compiles produced the same document.                 *)
Prove(r) ==
  /\ At(r, "prove") /\ ~IsStopped(r)
  /\ IF task[r].found = task[r].sealed
       THEN To(r, "commit") ELSE Return(r, "skipped")
  /\ UNCHANGED <<world, lane, token, process, locks, command, recorded>>

(* publish_controlled: the token's mutex is held across the commit.        *)
CommitAnyway(r) ==
  /\ At(r, "commit")
  /\ history' = Append(history, [root |-> task[r].sealed, by |-> r])
  /\ Update(r, Cancel!Committed(token[r]))
  /\ Return(r, "published")
  /\ UNCHANGED <<sources, exists, lane, process, locks, command, recorded>>
Commit(r) ==
  /\ Cancel!MayCommit(token[r]) /\ task[r].sealed \notin Roots
  /\ CommitAnyway(r)

(* Another process published the same root meanwhile, or the store's own   *)
(* limits or a failing call refuse it.                                     *)
CommitRefused(r) ==
  /\ At(r, "commit")
  /\ Return(r, "skipped") \/ Return(r, "unchanged")
  /\ UNCHANGED <<world, lane, token, process, locks, command, recorded>>

(* The operation lock and the publication's scope are dropped.             *)
Leave(r) ==
  /\ At(r, "leave")
  /\ operating' = IF operating = r THEN None ELSE operating
  /\ Update(r, Cancel!Detach(token[r]))
  /\ To(r, "finish")
  /\ UNCHANGED <<world, lane, process, compiling, readers, writer, command,
                 recorded>>

-----------------------------------------------------------------------------
(* The commands.                                                           *)
Cancels == {"restore", "recycle", "delete", "reset"}   \* and compile_lock
Operates == {"delete", "reset"}                        \* the operation lock
Reads == {"delete", "reset"}                           \* the shared lock

Kind(c) == command[c].kind
Doing(c, step) == command[c].step = step
Then(c, step) == command' = [command EXCEPT ![c].step = step]

CancelPublications(c) ==
  /\ Doing(c, "idle") /\ Kind(c) \in Cancels /\ exists
  /\ StopLane
  /\ Then(c, "compile")
  /\ UNCHANGED <<world, inFlight, child, locks, erased>>

TakeCompile(c) ==
  /\ Doing(c, "compile") /\ compiling = None
  /\ compiling' = c
  /\ Then(c, IF Kind(c) \in Operates THEN "operation" ELSE "worktree")
  /\ UNCHANGED <<world, lane, token, task, process, operating, readers, writer,
                 recorded>>

TakeOperationLock(c) ==
  /\ Doing(c, "operation") /\ operating = None
  /\ operating' = c
  /\ Then(c, "worktree")
  /\ UNCHANGED <<world, lane, token, task, process, compiling, readers, writer,
                 recorded>>

EnterWorktree(c) ==
  /\ writer = None
  /\ IF Kind(c) \in Reads
       THEN readers' = readers \cup {c} /\ UNCHANGED writer
       ELSE readers = {} /\ writer' = c /\ UNCHANGED readers
  /\ Then(c, IF Kind(c) = "cleanup" \/ (Kind(c) = "reset" /\ exists)
               THEN "drain" ELSE "work")
  /\ UNCHANGED <<world, lane, token, task, process, compiling, operating,
                 recorded>>

TakeWorktree(c) == Doing(c, "worktree") /\ EnterWorktree(c)

(* A save needs only the worktree, and so does the cleanup of a recycled   *)
(* project, which the application retries whenever it starts.              *)
BeginInWorktree(c) ==
  /\ Doing(c, "idle")
  /\ (Kind(c) = "save" /\ exists) \/ (Kind(c) = "cleanup" /\ ~exists)
  /\ EnterWorktree(c)

(* A discovery compile that is running sees the change.                    *)
Change(content) ==
  /\ sources' = content
  /\ task' = [r \in Request |->
       IF r \in child /\ task[r].probe = "discovery"
         THEN [task[r] EXCEPT !.read = @ \cup {content}] ELSE task[r]]
  /\ UNCHANGED <<exists, history>>

BeginChange(c) ==
  /\ Doing(c, "work") /\ Kind(c) \in {"save", "restore"} /\ exists
  /\ Change(Torn)
  /\ Then(c, "change")
  /\ UNCHANGED <<lane, token, process, locks, recorded>>
EndChange(c) ==
  /\ Doing(c, "change")
  /\ \E content \in Version : Change(content)
  /\ Then(c, "done")
  /\ UNCHANGED <<lane, token, process, locks, recorded>>
ProjectGone(c) ==
  /\ Doing(c, "work") /\ ~exists
  /\ Then(c, "done")
  /\ UNCHANGED <<world, lane, token, task, process, locks, recorded>>

Recycle(c) ==
  /\ Doing(c, "work") /\ Kind(c) = "recycle" /\ exists
  /\ exists' = FALSE
  /\ Then(c, "done")
  /\ UNCHANGED <<sources, history, lane, token, task, process, locks, recorded>>

DeleteNewest(c) ==
  /\ Doing(c, "work") /\ Kind(c) = "delete" /\ exists
  /\ history' = IF history = <<>> THEN <<>> ELSE Front(history)
  /\ Then(c, "done")
  /\ UNCHANGED <<sources, exists, lane, token, task, process, locks, recorded>>

(* cancel_project_publications_and_wait stops the lane at every wake-up,   *)
(* until it is gone or the time is over.                                   *)
DrainedUnasked(c) ==
  /\ Doing(c, "drain")
  /\ Then(c, "destroy")
  /\ UNCHANGED <<world, lane, token, task, process, locks, recorded>>
Drained(c) == inFlight = None /\ DrainedUnasked(c)

DrainAgain(c) ==
  /\ Doing(c, "drain") /\ inFlight # None
  /\ StopLane
  /\ UNCHANGED <<world, inFlight, child, locks, command, erased>>
DrainTimeout(c) ==
  /\ Doing(c, "drain") /\ inFlight # None
  /\ StopLane
  /\ Then(c, "destroy")
  /\ UNCHANGED <<world, inFlight, child, locks, erased>>

(* Store::destroy.                                                         *)
Destroy(c) ==
  /\ Doing(c, "destroy")
  /\ history' = <<>>
  /\ erased' = erased \cup {r \in Request : task[r].at # "new"}
  /\ Then(c, "done")
  /\ UNCHANGED <<sources, exists, lane, token, task, process, locks, stopped>>

Release(c) ==
  /\ Doing(c, "done")
  /\ c \in {compiling, operating, writer} \cup readers
  /\ compiling' = IF compiling = c THEN None ELSE compiling
  /\ operating' = IF operating = c THEN None ELSE operating
  /\ writer' = IF writer = c THEN None ELSE writer
  /\ readers' = readers \ {c}
  /\ UNCHANGED <<world, lane, token, task, process, command, recorded>>
-----------------------------------------------------------------------------
Advance(r) ==
  \/ Start(r) \/ BeginPublication(r) \/ TakeOperation(r) \/ Compare(r)
  \/ StopSeen(r) \/ BeginProbe(r) \/ BeginCompile(r) \/ Spawn(r)
  \/ AttachChild(r) \/ ChildEnds(r) \/ NextPass(r) \/ EndProbe(r)
  \/ OpenStore(r) \/ BeginStaging(r) \/ Seal(r) \/ Prove(r)
  \/ Commit(r) \/ CommitRefused(r) \/ Leave(r) \/ Finish(r)

Perform(c) ==
  \/ TakeCompile(c) \/ TakeOperationLock(c) \/ TakeWorktree(c)
  \/ BeginChange(c) \/ EndChange(c) \/ ProjectGone(c) \/ Recycle(c)
  \/ DeleteNewest(c) \/ Drained(c) \/ DrainAgain(c) \/ DrainTimeout(c)
  \/ Destroy(c) \/ Release(c)

Next ==
  \/ \E r \in Request : Admit(r) \/ Advance(r) \/ Terminate(r)
  \/ \E c \in Command :
       CancelPublications(c) \/ BeginInWorktree(c) \/ Perform(c)

Spec == Init /\ [][Next]_vars

(* Tasks, commands and terminations that have begun go on.  A compiler     *)
(* ends at its timeout at the latest, and a drain at its deadline.         *)
Fairness ==
  /\ \A r \in Request : WF_vars(Advance(r)) /\ WF_vars(Terminate(r))
  /\ \A c \in Command : WF_vars(Perform(c))
FairSpec == Spec /\ Fairness

-----------------------------------------------------------------------------
Holder == Request \cup Command \cup {None}

TypeOK ==
  /\ sources \in Version \cup {Torn} /\ exists \in BOOLEAN
  /\ history \in Seq([root : Version \cup {Torn}, by : Request])
  /\ {inFlight, successor} \subseteq Request \cup {None}
  /\ token \in [Request -> Cancel!Tokens]
  /\ task \in
       [Request ->
         [at : Stages, probe : {"discovery", "replay"}, pass : 0..Passes,
          read : SUBSET (Version \cup {Torn}),
          found : Version \cup {Torn, None},
          sealed : Version \cup {Torn, None}, outcome : Settled \cup {None}]]
  /\ child \subseteq Request /\ killers \subseteq Request
  /\ {compiling, operating, writer} \subseteq Holder
  /\ readers \subseteq Command
  /\ command \in
       [Command ->
         [kind : Kinds,
          step : {"idle", "compile", "operation", "worktree", "work", "change",
                  "drain", "destroy", "done"}]]
  /\ stopped \subseteq Request /\ erased \subseteq Request

(* "At most one publication runs per project": the lane's own.  There is   *)
(* one successor, which waits, and no lane that nobody runs.               *)
OneAtATime ==
  \A r \in Request :
    /\ task[r].at \in Running <=> r = inFlight
    /\ task[r].at = "waiting" <=> r = successor

(* A publication that was told to stop before it was committed never shows *)
(* up among the checkpoints, wherever the stop found it.                   *)
StoppedStaysInvisible == \A r \in stopped : task[r].outcome # "published"

(* Once the history was deleted, no publication of a compile from before   *)
(* adds to the new one.                                                    *)
ErasedStaysErased == \A i \in DOMAIN history : history[i].by \notin erased

(* Every checkpoint is what the whole project contained at some moment     *)
(* between two changes, never half of a change.                            *)
WholeProjects == Torn \notin Roots

(* A stop is never lost on a compiler process that is just being started:  *)
(* whoever waits for a process that may run on has not been stopped, or    *)
(* the process is about to be terminated.                                  *)
StopReachesCompiler ==
  \A r \in child : At(r, "running") /\ IsStopped(r) => r \in killers

(* Every scheduled publication comes to an end, and every command that     *)
(* began, although they wait for each other's locks.                       *)
PublicationsEnd ==
  \A r \in Request : task[r].at # "new" ~> task[r].at \in Settled
CommandsEnd ==
  \A c \in Command : ~Doing(c, "idle") ~>
    Doing(c, "done") /\ c \notin {compiling, operating, writer} \cup readers
=============================================================================

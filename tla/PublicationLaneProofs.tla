------------------------ MODULE PublicationLaneProofs ------------------------
(***************************************************************************)
(* The safety properties of PublicationLane, proved for any number of      *)
(* requests and commands, any contents of a project, any scripts and any   *)
(* number of compiler passes.                                              *)
(*                                                                         *)
(* What makes them inductive: where a publication is tells how deep its    *)
(* token's scopes are nested (Scopes), so that a stop always finds a token *)
(* it can mark until the cutoff; whoever was stopped is marked or over     *)
(* (Stops); and from the moment a command goes to destroy the history to   *)
(* its doing so, the lane has no successor, can take no new request, and   *)
(* what still runs in it is stopped or already published (Destroying).     *)
(***************************************************************************)
EXTENDS PublicationLane, TLAPS

Idle == {"new", "waiting"} \cup Settled
Depth(stage) ==
  CASE stage \in Idle -> 0
    [] stage \in {"delay", "begin", "finish"} -> 1
    [] stage \in {"spawn", "attach", "running"} -> 3
    [] OTHER -> 2

Lane ==
  /\ OneAtATime
  /\ inFlight = None => successor = None

Scopes == \A r \in Request : token[r].scopes = Depth(task[r].at)

Outcomes ==
  \A r \in Request :
    /\ task[r].at \in Running =>
         (token[r].cutoff <=> task[r].outcome = "published")
    /\ task[r].at \notin {"leave", "finish"} \cup Settled =>
         task[r].outcome = None
    /\ task[r].at \in {"leave", "finish"} =>
         task[r].outcome \in Settled \ {"dropped"}

(* What a probe compiles, and that a pass which begins is one too few.     *)
Probes ==
  \A r \in Request :
    /\ task[r].probe = "replay" => task[r].sealed \in Version
    /\ task[r].at \in {"prove", "commit"} => task[r].probe = "replay"
    /\ task[r].at \in {"compile", "spawn"} => task[r].pass < Passes

(* A compiler that may run on is the one a stop would be aimed at.         *)
Compilers ==
  \A r \in child :
    At(r, "running") =>
      token[r].pid = r /\ (token[r].requested => r \in killers)

Stops ==
  \A r \in stopped :
    /\ task[r].outcome # "published"
    /\ \/ task[r].at \in Settled
       \/ task[r].at \in Running /\ token[r].requested

Erasures ==
  \A r \in erased :
    task[r].at \in {"leave", "finish"} \cup Settled \/ r \in stopped

Holds(c) ==
  /\ command[c].step \in {"compile", "operation", "worktree"} =>
       Kind(c) \in Cancels
  /\ Kind(c) \in Cancels /\ command[c].step \notin {"idle", "compile", "done"}
       => compiling = c
  /\ Kind(c) = "cleanup" /\ ~Doing(c, "idle") => ~exists
  /\ command[c].step \in {"drain", "destroy"} =>
       Kind(c) \in {"cleanup", "reset"}
  /\ Doing(c, "change") => writer = c
  /\ Doing(c, "work") /\ Kind(c) \in {"save", "restore"} => writer = c

Changing == sources = Torn => \E c \in Command : Doing(c, "change")

Destroying ==
  (\E c \in Command : Doing(c, "destroy")) =>
    /\ successor = None
    /\ inFlight # None =>
         inFlight \in stopped \/ task[inFlight].outcome = "published"

Tasks ==
  [at : Stages, probe : {"discovery", "replay"}, pass : 0..Passes,
   read : SUBSET (Version \cup {Torn}),
   found : Version \cup {Torn, None},
   sealed : Version \cup {Torn, None}, outcome : Settled \cup {None}]

LaneTypes ==
  /\ {inFlight, successor} \subseteq Request \cup {None}
  /\ token \in [Request -> Cancel!Tokens]
  /\ task \in [Request -> Tasks]
  /\ child \subseteq Request /\ killers \subseteq Request
  /\ stopped \subseteq Request /\ erased \subseteq Request

WorldTypes ==
  /\ sources \in Version \cup {Torn} /\ exists \in BOOLEAN
  /\ {compiling, operating, writer} \subseteq Holder
  /\ readers \subseteq Command
  /\ command \in
       [Command ->
         [kind : Kinds,
          step : {"idle", "compile", "operation", "worktree", "work", "change",
                  "drain", "destroy", "done"}]]

(* What the lane and its publications maintain, and what the commands do.  *)
LaneInv ==
  LaneTypes /\ Lane /\ Scopes /\ Outcomes /\ Probes /\ Compilers /\ Stops
HistoryInv ==
  /\ history \in Seq([root : Version \cup {Torn}, by : Request])
  /\ ErasedStaysErased /\ WholeProjects
CommandInv == WorldTypes /\ (\A c \in Command : Holds(c)) /\ Changing

IInv == LaneInv /\ Erasures /\ HistoryInv /\ CommandInv /\ Destroying

LEMMA Types == IInv => TypeOK
BY DEF IInv, LaneInv, CommandInv, HistoryInv, TypeOK, LaneTypes, WorldTypes,
       Tasks

-----------------------------------------------------------------------------
(* The operators on a token.                                               *)
LEMMA FreshBegins ==
  /\ Cancel!Fresh \in Cancel!Tokens /\ Cancel!Fresh.scopes = 0
  /\ Cancel!Fresh.cutoff = FALSE
BY DEF Cancel!Tokens, Cancel!Fresh

LEMMA BeginKeeps ==
  ASSUME NEW k \in Cancel!Tokens
  PROVE  /\ Cancel!Begin(k) \in Cancel!Tokens
         /\ Cancel!Begin(k).scopes = k.scopes + 1
         /\ k.scopes > 0 =>
              /\ Cancel!Begin(k).requested = k.requested
              /\ Cancel!Begin(k).cutoff = k.cutoff
         /\ k.scopes = 0 => Cancel!Begin(k).cutoff = FALSE
<1>1. CASE k.scopes = 0
  <2>1. Cancel!Begin(k) =
          [Cancel!Fresh EXCEPT !.scopes = Cancel!Fresh.scopes + 1]
    BY <1>1 DEF Cancel!Begin
  <2> QED BY <1>1, <2>1, FreshBegins DEF Cancel!Tokens
<1>2. CASE k.scopes # 0
  <2>1. Cancel!Begin(k) = [k EXCEPT !.scopes = k.scopes + 1]
    BY <1>2 DEF Cancel!Begin
  <2> QED BY <1>2, <2>1 DEF Cancel!Tokens
<1> QED BY <1>1, <1>2

LEMMA FirstScope ==
  /\ Cancel!Begin(Cancel!Fresh) \in Cancel!Tokens
  /\ Cancel!Begin(Cancel!Fresh).scopes = 1
  /\ Cancel!Begin(Cancel!Fresh).cutoff = FALSE
<1>1. Cancel!Fresh \in Cancel!Tokens /\ Cancel!Fresh.scopes = 0
  BY FreshBegins
<1>2. /\ Cancel!Begin(Cancel!Fresh) \in Cancel!Tokens
      /\ Cancel!Begin(Cancel!Fresh).scopes = Cancel!Fresh.scopes + 1
      /\ Cancel!Begin(Cancel!Fresh).cutoff = FALSE
  BY <1>1, BeginKeeps
<1> QED BY <1>1, <1>2

LEMMA RequestStopMarks ==
  ASSUME NEW k \in Cancel!Tokens
  PROVE  /\ Cancel!RequestStop(k) \in Cancel!Tokens
         /\ Cancel!RequestStop(k).scopes = k.scopes
         /\ Cancel!RequestStop(k).cutoff = k.cutoff
         /\ Cancel!RequestStop(k).pid = k.pid
         /\ k.requested => Cancel!RequestStop(k).requested
         /\ k.scopes > 0 /\ ~k.cutoff => Cancel!RequestStop(k).requested
         /\ Cancel!RequestStop(k).requested /\ ~k.requested /\ k.pid # None =>
              Cancel!Target(k) = {k.pid}
         /\ Cancel!Target(k) \subseteq Request
BY DEF Cancel!Tokens, Cancel!RequestStop, Cancel!Target, Cancel!Stoppable

LEMMA DetachLeaves ==
  ASSUME NEW k \in Cancel!Tokens
  PROVE  /\ Cancel!Detach(k) \in Cancel!Tokens
         /\ k.scopes > 1 =>
              /\ Cancel!Detach(k).scopes = k.scopes - 1
              /\ Cancel!Detach(k).requested = k.requested
              /\ Cancel!Detach(k).cutoff = k.cutoff
         /\ k.scopes = 1 => Cancel!Detach(k).scopes = 0
<1> k.scopes \in Nat /\ k.requested \in BOOLEAN /\ k.cutoff \in BOOLEAN
  BY DEF Cancel!Tokens
<1>1. CASE k.scopes <= 1
  <2>1. Cancel!Detach(k) = Cancel!Fresh
    BY <1>1 DEF Cancel!Detach
  <2> QED BY <1>1, <2>1, FreshBegins
<1>2. CASE k.scopes > 1
  <2>1. Cancel!Detach(k) = [k EXCEPT !.pid = None, !.scopes = k.scopes - 1]
    BY <1>2 DEF Cancel!Detach
  <2>2. Cancel!Detach(k) =
          [scopes |-> k.scopes - 1, requested |-> k.requested,
           pid |-> None, cutoff |-> k.cutoff]
    BY <2>1 DEF Cancel!Tokens
  <2>3. k.scopes - 1 \in Nat
    BY <1>2
  <2> QED BY <1>2, <2>2, <2>3 DEF Cancel!Tokens
<1> QED BY <1>1, <1>2

LEMMA AttachNames ==
  ASSUME NEW k \in Cancel!Tokens, NEW r \in Request
  PROVE  /\ Cancel!Attach(k, r) \in Cancel!Tokens
         /\ Cancel!Attach(k, r).scopes = k.scopes
         /\ Cancel!Attach(k, r).requested = k.requested
         /\ Cancel!Attach(k, r).cutoff = k.cutoff
         /\ Cancel!MayRun(k) => Cancel!Attach(k, r).pid = r /\ ~k.requested
BY DEF Cancel!Tokens, Cancel!Attach, Cancel!Stoppable, Cancel!MayRun

LEMMA UnregisterKeeps ==
  ASSUME NEW k \in Cancel!Tokens, NEW r \in Request
  PROVE  /\ Cancel!Unregister(k, r) \in Cancel!Tokens
         /\ Cancel!Unregister(k, r).scopes = k.scopes
         /\ Cancel!Unregister(k, r).requested = k.requested
         /\ Cancel!Unregister(k, r).cutoff = k.cutoff
BY DEF Cancel!Tokens, Cancel!Unregister

LEMMA CommittedKeeps ==
  ASSUME NEW k \in Cancel!Tokens
  PROVE  /\ Cancel!Committed(k) \in Cancel!Tokens
         /\ Cancel!Committed(k).scopes = k.scopes
         /\ Cancel!Committed(k).requested = k.requested
         /\ Cancel!Committed(k).cutoff = TRUE
BY DEF Cancel!Tokens, Cancel!Committed

-----------------------------------------------------------------------------
(* One step of a running publication.                                      *)

(* What the invariant says of the lane's own publication.                  *)
Fits(t, k) ==
  /\ t \in Tasks /\ k \in Cancel!Tokens
  /\ t.at \in Running
  /\ k.scopes = Depth(t.at)
  /\ k.cutoff <=> t.outcome = "published"
  /\ t.at \notin {"leave", "finish"} => t.outcome = None
  /\ t.at \in {"leave", "finish"} => t.outcome \in Settled \ {"dropped"}
  /\ t.probe = "replay" => t.sealed \in Version
  /\ t.at \in {"prove", "commit"} => t.probe = "replay"
  /\ t.at \in {"compile", "spawn"} => t.pass < Passes

LEMMA RunningFits ==
  ASSUME LaneInv, NEW r \in Request, task[r].at \in Running
  PROVE  Fits(task[r], token[r]) /\ r = inFlight
BY DEF LaneInv, LaneTypes, Lane, OneAtATime, Scopes, Outcomes, Probes, Fits,
       Running

(* The task and the token of a publication become others that fit, a stop  *)
(* stays, and whoever was stopped is not published.                        *)
Moves(r, t, k) ==
  /\ task[r].at \in Running
  /\ task' = [task EXCEPT ![r] = t] /\ token' = [token EXCEPT ![r] = k]
  /\ Fits(t, k)
  /\ token[r].requested => k.requested
  /\ r \in stopped => t.outcome # "published"
  /\ task[r].outcome = "published" => t.outcome = "published"
  /\ task[r].at \in {"leave", "finish"} => t.at \in {"leave", "finish"}
  /\ child' \subseteq child \cup {r} /\ UNCHANGED killers
  /\ r \in child' /\ t.at = "running" =>
       k.pid = r /\ (k.requested => r \in killers)
  /\ UNCHANGED <<lane, recorded>>

LEMMA MoveKeepsLane ==
  ASSUME LaneInv, Erasures, NEW r \in Request, NEW t, NEW k, Moves(r, t, k)
  PROVE  LaneInv' /\ Erasures'
<1> r = inFlight
  BY RunningFits DEF Moves
<1>1. /\ task'[r] = t /\ token'[r] = k
      /\ \A q \in Request : q # r => task'[q] = task[q] /\ token'[q] = token[q]
  BY DEF Moves, LaneInv, LaneTypes
<1>2. LaneTypes'
  BY DEF Moves, Fits, LaneInv, LaneTypes, lane, recorded
<1>3. Lane'
  <2>1. t.at \notin {"waiting"} /\ t.at \in Running
    BY DEF Moves, Fits, Running
  <2> QED
    BY <1>1, <2>1 DEF Moves, LaneInv, LaneTypes, Lane, OneAtATime, lane, Running
<1>4. Scopes'
  BY <1>1 DEF Moves, Fits, LaneInv, Scopes
<1>5. Outcomes'
  <2>1. t.at \notin Settled
    BY DEF Moves, Fits, Running
  <2> QED BY <1>1, <2>1 DEF Moves, Fits, LaneInv, Outcomes
<1>6. Probes'
  BY <1>1 DEF Moves, Fits, LaneInv, Probes
<1>7. Compilers'
  BY <1>1 DEF Moves, LaneInv, LaneTypes, Compilers, At
<1>8. Stops'
  <2> SUFFICES ASSUME NEW q \in stopped
               PROVE  /\ task'[q].outcome # "published"
                      /\ \/ task'[q].at \in Settled
                         \/ task'[q].at \in Running /\ token'[q].requested
    BY DEF Stops, Moves, recorded
  <2>1. CASE q = r
    <3>1. token[r].requested
      BY <2>1 DEF LaneInv, Stops, Moves, Running
    <3> QED BY <1>1, <2>1, <3>1 DEF Moves, Fits
  <2>2. CASE q # r
    BY <1>1, <2>2 DEF LaneInv, LaneTypes, Stops
  <2> QED BY <2>1, <2>2
<1>9. Erasures'
  <2> SUFFICES ASSUME NEW q \in erased
               PROVE  \/ task'[q].at \in {"leave", "finish"} \cup Settled
                      \/ q \in stopped
    BY DEF Erasures, Moves, recorded
  <2>1. CASE q = r
    BY <1>1, <2>1 DEF Moves, Running, Erasures
  <2>2. CASE q # r
    BY <1>1, <2>2 DEF LaneInv, LaneTypes, Erasures
  <2> QED BY <2>1, <2>2
<1> QED BY <1>2, <1>3, <1>4, <1>5, <1>6, <1>7, <1>8, <1>9 DEF LaneInv

(* What the commands keep track of does not change with it.                *)
LEMMA MoveKeepsCommands ==
  ASSUME IInv, NEW r \in Request, NEW t, NEW k, Moves(r, t, k),
         UNCHANGED <<sources, exists, compiling, readers, writer, command>>,
         operating' \in {operating, r, None}
  PROVE  CommandInv' /\ Destroying'
<1>1. WorldTypes'
  BY DEF IInv, CommandInv, WorldTypes, Holder
<1>2. (\A c \in Command : Holds(c))' /\ Changing'
  BY DEF IInv, CommandInv, Holds, Changing, Doing, Kind
<1>3. Destroying'
  <2>1. r = inFlight /\ task'[r] = t
    BY RunningFits DEF IInv, Moves, LaneInv, LaneTypes
  <2> QED
    BY <2>1 DEF IInv, Destroying, Moves, Doing, lane, recorded
<1> QED BY <1>1, <1>2, <1>3 DEF CommandInv

LEMMA HistoryStays ==
  ASSUME HistoryInv, UNCHANGED <<history, erased>>
  PROVE  HistoryInv'
BY DEF HistoryInv, ErasedStaysErased, WholeProjects, Roots

(* A step that makes no history.                                           *)
LEMMA QuietMove ==
  ASSUME IInv, NEW r \in Request, NEW t, NEW k, Moves(r, t, k),
         UNCHANGED <<world, compiling, readers, writer, command>>,
         operating' \in {operating, r, None}
  PROVE  IInv'
BY MoveKeepsLane, MoveKeepsCommands, HistoryStays
DEF IInv, world, Moves, recorded

(* What each step of a publication does to its task and its token.         *)
LEMMA StageMoves ==
  ASSUME IInv, NEW r \in Request, NEW stage \in Running,
         task[r].at \in Running \ {"leave", "finish"},
         stage \notin {"leave", "finish", "running"},
         Depth(stage) = Depth(task[r].at),
         stage \in {"prove", "commit"} => task[r].probe = "replay",
         stage \in {"compile", "spawn"} => task[r].pass < Passes,
         To(r, stage), UNCHANGED <<lane, token, process, recorded>>
  PROVE  Moves(r, [task[r] EXCEPT !.at = stage], token[r])
<1>1. Fits(task[r], token[r])
  BY RunningFits DEF IInv
<1>2. Fits([task[r] EXCEPT !.at = stage], token[r])
  BY <1>1 DEF Fits, Tasks, Running
<1> QED
  BY <1>1, <1>2 DEF Moves, To, IInv, LaneInv, LaneTypes, Stops, Fits, process,
     Tasks

LEMMA ReturnMoves ==
  ASSUME IInv, NEW r \in Request,
         task[r].at \in Running \ {"leave", "finish"},
         NEW k \in Cancel!Tokens, k.scopes = 2,
         NEW outcome \in {"unchanged", "skipped"},
         k.requested = token[r].requested, k.cutoff = token[r].cutoff,
         token' = [token EXCEPT ![r] = k],
         Return(r, outcome), UNCHANGED <<lane, process, recorded>>
  PROVE  Moves(r, [task[r] EXCEPT !.at = "leave", !.outcome = outcome], k)
<1> DEFINE t == [task[r] EXCEPT !.at = "leave", !.outcome = outcome]
<1>1. Fits(task[r], token[r])
  BY RunningFits DEF IInv
<1>2. Depth("leave") = 2
  BY DEF Depth, Idle, Settled
<1>3. t \in Tasks /\ t.at = "leave" /\ t.outcome = outcome
      /\ t.probe = task[r].probe /\ t.sealed = task[r].sealed
  BY <1>1 DEF Fits, Tasks, Stages, Settled
<1>4. Fits(t, k)
  BY <1>1, <1>2, <1>3, NoneAssumption DEF Fits, Running, Stages, Settled
<1>5. task' = [task EXCEPT ![r] = t]
  BY DEF Return
<1> QED
  BY <1>1, <1>3, <1>4, <1>5 DEF Moves, Fits, process, Settled
Depths ==
  /\ Depth("delay") = 1 /\ Depth("begin") = 1 /\ Depth("finish") = 1
  /\ \A stage \in {"operation", "compare", "probe", "compile", "open", "stage",
                   "seal", "prove", "commit", "leave"} : Depth(stage) = 2
  /\ \A stage \in {"spawn", "attach", "running"} : Depth(stage) = 3

LEMMA DepthOfStages == Depths
BY DEF Depths, Depth, Idle, Settled

Quiet(r) ==
  /\ UNCHANGED <<world, compiling, readers, writer, command>>
  /\ operating' \in {operating, r, None}

Unmoved == UNCHANGED <<world, lane, process, locks, command, recorded>>

LEMMA StartMoves ==
  ASSUME IInv, NEW r \in Request, Start(r)
  PROVE  IInv'
<1>1. At(r, "delay") /\ token' = token /\ Unmoved
  BY DEF Start, Unmoved
<1>2. Fits(task[r], token[r])
  BY <1>1, RunningFits DEF IInv, At, Running, Stages, Settled
<1>3. CASE IsStopped(r)
  <2> DEFINE t == [task[r] EXCEPT !.at = "finish", !.outcome = "skipped"]
  <2>1. task' = [task EXCEPT ![r] = t]
    BY <1>3 DEF Start
  <2>2. t \in Tasks /\ t.at = "finish" /\ t.outcome = "skipped"
        /\ t.probe = task[r].probe /\ t.sealed = task[r].sealed
    BY <1>2 DEF Fits, Tasks, Stages, Settled
  <2>3. Fits(t, token[r])
    BY <1>1, <1>2, <2>2, DepthOfStages, NoneAssumption
    DEF Fits, Depths, Running, Stages, Settled, At
  <2>4. Moves(r, t, token[r])
    BY <1>1, <1>2, <2>1, <2>2, <2>3, NoneAssumption
    DEF Moves, Unmoved, Fits, At, Running, Stages, Settled, process, lane,
        recorded, IInv, LaneInv, LaneTypes
  <2> QED BY <1>1, <2>4, QuietMove DEF Unmoved, locks
<1>4. CASE ~IsStopped(r)
  <2>1. To(r, "begin")
    BY <1>4 DEF Start
  <2>2. Moves(r, [task[r] EXCEPT !.at = "begin"], token[r])
    BY <1>1, <2>1, StageMoves, DepthOfStages
    DEF At, Running, Stages, Settled, Unmoved, Depths, process, lane, recorded
  <2> QED BY <1>1, <2>2, QuietMove DEF Unmoved, locks
<1> QED BY <1>3, <1>4

(* The scopes of a publication and of its probes.                          *)
LEMMA ScopeMoves ==
  ASSUME IInv, NEW r \in Request,
         NEW stage \in {"operation", "spawn"},
         stage = "operation" => At(r, "begin"),
         stage = "spawn" => At(r, "compile"),
         Update(r, Cancel!Begin(token[r])), To(r, stage), Unmoved
  PROVE  IInv'
<1> DEFINE t == [task[r] EXCEPT !.at = stage]
           k == Cancel!Begin(token[r])
<1>1. task[r].at \in Running \ {"leave", "finish"}
  BY DEF At, Running, Stages, Settled
<1>2. Fits(task[r], token[r])
  BY <1>1, RunningFits DEF IInv
<1>3. /\ k \in Cancel!Tokens /\ k.scopes = Depth(stage)
      /\ k.requested = token[r].requested /\ k.cutoff = token[r].cutoff
  <2>1. Depth(task[r].at) > 0 /\ Depth(stage) = Depth(task[r].at) + 1
    BY DepthOfStages DEF Depths, At
  <2>2. token[r] \in Cancel!Tokens /\ token[r].scopes = Depth(task[r].at)
    BY <1>2 DEF Fits
  <2> QED BY <2>1, <2>2, BeginKeeps
<1>4. t \in Tasks /\ t.at = stage /\ t.outcome = task[r].outcome
      /\ t.probe = task[r].probe /\ t.sealed = task[r].sealed
      /\ t.pass = task[r].pass
  BY <1>2 DEF Fits, Tasks, Stages, Settled
<1> HIDE DEF k, t
<1>5. Fits(t, k)
  BY <1>1, <1>2, <1>3, <1>4, NoneAssumption
  DEF Fits, Running, Stages, Settled, At
<1>6. task' = [task EXCEPT ![r] = t] /\ token' = [token EXCEPT ![r] = k]
  BY DEF To, Update, t, k
<1>7. Moves(r, t, k)
  BY <1>1, <1>2, <1>3, <1>4, <1>5, <1>6, NoneAssumption
  DEF Moves, Unmoved, Fits, Settled, process, lane, recorded, IInv, LaneInv,
      LaneTypes
<1> QED BY <1>7, QuietMove DEF Unmoved, locks

(* A step to another stage of the same depth.                              *)
LEMMA ToStage ==
  ASSUME IInv, NEW r \in Request, NEW stage \in Running,
         task[r].at \in Running \ {"leave", "finish"},
         stage \notin {"leave", "finish", "running"},
         Depth(stage) = Depth(task[r].at),
         stage \in {"prove", "commit"} => task[r].probe = "replay",
         stage \in {"compile", "spawn"} => task[r].pass < Passes,
         To(r, stage), UNCHANGED <<lane, token, process, recorded>>, Quiet(r)
  PROVE  IInv'
BY StageMoves, QuietMove DEF Quiet

LEMMA Returned ==
  ASSUME IInv, NEW r \in Request, task[r].at \in Running \ {"leave", "finish"},
         Depth(task[r].at) = 2,
         NEW outcome \in {"unchanged", "skipped"}, Return(r, outcome),
         UNCHANGED token, Unmoved
  PROVE  IInv'
<1>1. Fits(task[r], token[r])
  BY RunningFits DEF IInv
<1>2. token' = [token EXCEPT ![r] = token[r]]
  BY DEF IInv, LaneInv, LaneTypes
<1> QED
  BY <1>1, <1>2, ReturnMoves, QuietMove
  DEF Fits, Unmoved, locks, process, lane, recorded
LEMMA ProbeSteps ==
  ASSUME IInv, NEW r \in Request,
         BeginProbe(r) \/ Spawn(r) \/ AttachChild(r) \/ ChildEnds(r)
           \/ NextPass(r)
  PROVE  IInv'
<1> DEFINE old == task[r]
<1>1. old.at \in {"probe", "spawn", "attach", "running"}
  BY DEF BeginProbe, Spawn, AttachChild, ChildEnds, NextPass, At
<1>2. Fits(old, token[r])
  BY <1>1, RunningFits DEF IInv, Running, Stages, Settled
<1>3. /\ token \in [Request -> Cancel!Tokens] /\ task \in [Request -> Tasks]
      /\ old.outcome = None /\ None # "published"
      /\ r \in stopped => token[r].requested
  BY <1>1, <1>2, NoneAssumption
  DEF IInv, LaneInv, LaneTypes, Stops, Fits, Settled
<1> USE DEF Running, Stages, Settled
<1> HIDE DEF old
<1>4. CASE BeginProbe(r)
  <2> DEFINE t == [old EXCEPT !.at = "compile", !.pass = 0, !.read = {}]
  <2>1. task' = [task EXCEPT ![r] = t] /\ old.at = "probe" /\ Unmoved
        /\ token' = token
    BY <1>4 DEF BeginProbe, At, old, Unmoved
  <2>2. t \in Tasks /\ t.at = "compile" /\ t.outcome = None /\ t.pass = 0
        /\ t.probe = old.probe /\ t.sealed = old.sealed
    <3>1. old \in Tasks /\ 0 \in 0..Passes
      BY <1>2, PassesAssumption DEF Fits
    <3> QED BY <1>3, <3>1 DEF Tasks
  <2> HIDE DEF t
  <2>3. Fits(t, token[r])
    BY <1>2, <1>3, <2>1, <2>2, DepthOfStages, PassesAssumption
    DEF Fits, Depths
  <2>4. Moves(r, t, token[r])
    BY <1>1, <1>3, <2>1, <2>2, <2>3
    DEF Moves, Unmoved, process, lane, recorded, old
  <2> QED BY <2>1, <2>4, QuietMove DEF Unmoved, locks
<1>5. CASE Spawn(r)
  <2> DEFINE t == [old EXCEPT !.at = "attach", !.pass = @ + 1,
                    !.read = @ \cup
                       {IF old.probe = "replay" THEN old.sealed ELSE sources}]
  <2>1. /\ task' = [task EXCEPT ![r] = t] /\ old.at = "spawn"
        /\ child' = child \cup {r} /\ UNCHANGED <<token, killers>>
        /\ UNCHANGED <<world, lane, locks, command, recorded>>
    BY <1>5 DEF Spawn, At, old
  <2>2. t \in Tasks /\ t.at = "attach" /\ t.outcome = None
        /\ t.probe = old.probe /\ t.sealed = old.sealed
    <3>1. old.pass + 1 \in 0..Passes
      BY <1>2, <2>1, PassesAssumption DEF Fits, Tasks
    <3>2. (IF old.probe = "replay" THEN old.sealed ELSE sources)
            \in Version \cup {Torn}
      BY <1>2 DEF Fits, IInv, CommandInv, WorldTypes
    <3> QED BY <1>2, <1>3, <3>1, <3>2 DEF Fits, Tasks
  <2> HIDE DEF t
  <2>3. Fits(t, token[r])
    BY <1>2, <1>3, <2>1, <2>2, DepthOfStages DEF Fits, Depths
  <2>4. Moves(r, t, token[r])
    BY <1>1, <1>3, <2>1, <2>2, <2>3
    DEF Moves, lane, recorded, old
  <2> QED BY <2>1, <2>4, QuietMove DEF locks
<1>6. CASE AttachChild(r)
  <2> DEFINE t == [old EXCEPT !.at = "running"]
             k == Cancel!Attach(token[r], r)
  <2>1. /\ task' = [task EXCEPT ![r] = t] /\ old.at = "attach"
        /\ token' = [token EXCEPT ![r] = k]
        /\ child' = IF Cancel!MayRun(token[r]) THEN child ELSE child \ {r}
        /\ UNCHANGED killers
        /\ UNCHANGED <<world, lane, locks, command, recorded>>
    BY <1>6 DEF AttachChild, At, old, To, Update
  <2>2. t \in Tasks /\ t.at = "running" /\ t.outcome = None
        /\ t.probe = old.probe /\ t.sealed = old.sealed
    BY <1>2, <1>3 DEF Fits, Tasks
  <2>3. /\ k \in Cancel!Tokens /\ k.scopes = token[r].scopes
        /\ k.requested = token[r].requested /\ k.cutoff = token[r].cutoff
        /\ Cancel!MayRun(token[r]) => k.pid = r /\ ~k.requested
    BY <1>3, AttachNames
  <2> HIDE DEF t, k
  <2>4. Fits(t, k)
    BY <1>2, <1>3, <2>1, <2>2, <2>3, DepthOfStages DEF Fits, Depths
  <2>5. r \in child' => Cancel!MayRun(token[r])
    BY <2>1
  <2>6. Moves(r, t, k)
    BY <1>1, <1>3, <2>1, <2>2, <2>3, <2>4, <2>5
    DEF Moves, lane, recorded, old
  <2> QED BY <2>1, <2>6, QuietMove DEF locks
<1>7. CASE ChildEnds(r)
  <2>1. /\ old.at = "running" /\ child' = child \ {r}
        /\ UNCHANGED <<world, lane, token, task, killers, locks, command,
                       recorded>>
    BY <1>7 DEF ChildEnds, At, old
  <2>2. Moves(r, old, token[r])
    BY <1>1, <1>2, <1>3, <2>1 DEF Moves, lane, recorded, old
  <2> QED BY <2>1, <2>2, QuietMove DEF locks
<1>8. CASE NextPass(r)
  <2> DEFINE t == [old EXCEPT !.at = "spawn"]
             k == Cancel!Unregister(token[r], r)
  <2>1. /\ task' = [task EXCEPT ![r] = t] /\ old.at = "running"
        /\ token' = [token EXCEPT ![r] = k]
        /\ old.pass < Passes /\ Unmoved
    BY <1>8 DEF NextPass, At, old, To, Update, Unmoved
  <2>2. t \in Tasks /\ t.at = "spawn" /\ t.outcome = None
        /\ t.probe = old.probe /\ t.sealed = old.sealed /\ t.pass = old.pass
    BY <1>2, <1>3 DEF Fits, Tasks
  <2>3. /\ k \in Cancel!Tokens /\ k.scopes = token[r].scopes
        /\ k.requested = token[r].requested /\ k.cutoff = token[r].cutoff
    BY <1>3, UnregisterKeeps
  <2> HIDE DEF t, k
  <2>4. Fits(t, k)
    BY <1>2, <1>3, <2>1, <2>2, <2>3, DepthOfStages DEF Fits, Depths
  <2>5. Moves(r, t, k)
    BY <1>1, <1>3, <2>1, <2>2, <2>3, <2>4
    DEF Moves, Unmoved, process, lane, recorded, old
  <2> QED BY <2>1, <2>5, QuietMove DEF Unmoved, locks
<1> QED BY <1>4, <1>5, <1>6, <1>7, <1>8

(* What a probe found is what the files contained at some moment of it.    *)
LEMMA ProducedType ==
  ASSUME NEW read \in SUBSET (Version \cup {Torn})
  PROVE  Produced(read) \subseteq Version \cup {Torn}
BY DEF Produced

LEMMA EndProbeStep ==
  ASSUME IInv, NEW r \in Request, EndProbe(r)
  PROVE  IInv'
<1> DEFINE old == task[r]
           k == Cancel!Detach(token[r])
<1>1. /\ old.at = "running" /\ token' = [token EXCEPT ![r] = k] /\ Unmoved
      /\ r \notin child
  BY DEF EndProbe, At, Update, Unmoved
<1> USE DEF Running, Stages, Settled
<1>2. Fits(old, token[r])
  BY <1>1, RunningFits DEF IInv
<1>3. /\ token \in [Request -> Cancel!Tokens] /\ task \in [Request -> Tasks]
      /\ old.outcome = None /\ None # "published"
      /\ r \in stopped => token[r].requested
      /\ Depth("open") = 2 /\ Depth("prove") = 2 /\ token[r].scopes = 3
  BY <1>1, <1>2, NoneAssumption, DepthOfStages
  DEF IInv, LaneInv, LaneTypes, Stops, Fits, Depths
<1>4. /\ k \in Cancel!Tokens /\ k.scopes = 2
      /\ k.requested = token[r].requested /\ k.cutoff = token[r].cutoff
  BY <1>3, DetachLeaves
<1> HIDE DEF k
<1>5. CASE Return(r, "skipped")
  <2>1. Moves(r, [task[r] EXCEPT !.at = "leave", !.outcome = "skipped"], k)
    BY <1>1, <1>4, <1>5, ReturnMoves DEF Unmoved, process, lane, recorded
  <2> QED BY <1>1, <2>1, QuietMove DEF Unmoved, locks
<1>6. ASSUME NEW t \in Tasks, task' = [task EXCEPT ![r] = t],
             t.at \in {"open", "prove"}, t.outcome = None,
             t.probe = old.probe, t.sealed = old.sealed,
             t.at = "prove" => old.probe = "replay"
      PROVE  IInv'
  <2>1. Fits(t, k)
    BY <1>1, <1>2, <1>3, <1>4, <1>6 DEF Fits
  <2>2. Moves(r, t, k)
    BY <1>1, <1>3, <1>4, <1>6, <2>1
    DEF Moves, Unmoved, process, lane, recorded
  <2> QED BY <1>1, <2>2, QuietMove DEF Unmoved, locks
<1>7. ASSUME NEW found \in Produced(old.read),
             task' = [task EXCEPT ![r].at = "open", ![r].found = found]
      PROVE  IInv'
  <2> DEFINE t == [old EXCEPT !.at = "open", !.found = found]
  <2>1. found \in Version \cup {Torn}
    BY <1>3, ProducedType DEF Tasks
  <2>2. /\ t \in Tasks /\ t.at = "open" /\ t.outcome = None
        /\ t.probe = old.probe /\ t.sealed = old.sealed
    <3>1. old \in Tasks
      BY <1>2 DEF Fits
    <3> HIDE DEF old
    <3> QED BY <1>3, <2>1, <3>1 DEF Tasks
  <2>3. task' = [task EXCEPT ![r] = t]
    BY <1>7
  <2> HIDE DEF t, old
  <2> QED BY <1>6, <2>2, <2>3
<1>8. ASSUME old.probe = "replay", To(r, "prove") PROVE IInv'
  <2> DEFINE t == [old EXCEPT !.at = "prove"]
  <2>1. /\ t \in Tasks /\ t.at = "prove" /\ t.outcome = None
        /\ t.probe = old.probe /\ t.sealed = old.sealed
    BY <1>3 DEF Tasks
  <2>2. task' = [task EXCEPT ![r] = t]
    BY <1>8 DEF To
  <2> HIDE DEF t, old
  <2> QED BY <1>6, <1>8, <2>1, <2>2
<1> QED BY <1>5, <1>7, <1>8 DEF EndProbe
LEMMA PlainSteps ==
  ASSUME IInv, NEW r \in Request,
         BeginPublication(r) \/ TakeOperation(r) \/ Compare(r) \/ StopSeen(r)
           \/ BeginCompile(r) \/ OpenStore(r) \/ BeginStaging(r) \/ Prove(r)
           \/ CommitRefused(r)
  PROVE  IInv'
<1> USE DepthOfStages DEF Depths, Unmoved, Running, Stages, Settled
<1>1. CASE BeginPublication(r)
  BY <1>1, ScopeMoves DEF BeginPublication
<1>2. CASE BeginCompile(r)
  BY <1>2, ScopeMoves DEF BeginCompile
<1>3. CASE TakeOperation(r)
  <2>1. /\ task[r].at = "operation" /\ To(r, "compare") /\ operating' = r
        /\ UNCHANGED <<lane, token, process, recorded>> /\ Quiet(r)
    BY <1>3 DEF TakeOperation, At, Quiet
  <2> QED BY <2>1, ToStage
<1>4. CASE Compare(r)
  <2>1. task[r].at = "compare" /\ Unmoved /\ UNCHANGED token
    BY <1>4 DEF Compare, At
  <2>2. ASSUME Return(r, "unchanged") PROVE IInv'
    BY <2>1, <2>2, Returned
  <2>3. ASSUME To(r, "probe") PROVE IInv'
    BY <2>1, <2>3, ToStage DEF Quiet, locks
  <2> QED BY <1>4, <2>2, <2>3 DEF Compare
<1>5. CASE StopSeen(r)
  <2>1. /\ task[r].at \in {"operation", "probe", "open", "stage", "prove",
                           "commit"}
        /\ Return(r, "skipped") /\ Unmoved /\ UNCHANGED token
    BY <1>5 DEF StopSeen
  <2> QED BY <2>1, Returned
<1>6. CASE OpenStore(r)
  <2>1. task[r].at = "open" /\ Unmoved /\ UNCHANGED token
    BY <1>6 DEF OpenStore, At
  <2>2. ASSUME Return(r, "skipped") PROVE IInv'
    BY <2>1, <2>2, Returned
  <2>3. ASSUME To(r, "stage") PROVE IInv'
    BY <2>1, <2>3, ToStage DEF Quiet, locks
  <2> QED BY <1>6, <2>2, <2>3 DEF OpenStore
<1>7. CASE BeginStaging(r)
  <2>1. task[r].at = "stage" /\ Unmoved /\ UNCHANGED token /\ To(r, "seal")
    BY <1>7 DEF BeginStaging, At
  <2> QED BY <2>1, ToStage DEF Quiet, locks
<1>8. CASE Prove(r)
  <2>1. task[r].at = "prove" /\ Unmoved /\ UNCHANGED token
    BY <1>8 DEF Prove, At
  <2>2. ASSUME Return(r, "skipped") PROVE IInv'
    BY <2>1, <2>2, Returned
  <2>3. ASSUME To(r, "commit") PROVE IInv'
    <3>1. task[r].probe = "replay"
      BY <2>1 DEF IInv, LaneInv, Probes
    <3> QED BY <2>1, <2>3, <3>1, ToStage DEF Quiet, locks
  <2> QED BY <1>8, <2>2, <2>3 DEF Prove
<1>9. CASE CommitRefused(r)
  <2>1. task[r].at = "commit" /\ Unmoved /\ UNCHANGED token
        /\ \E outcome \in {"unchanged", "skipped"} : Return(r, outcome)
    BY <1>9 DEF CommitRefused, At
  <2> QED BY <2>1, Returned
<1> QED
  BY <1>1, <1>2, <1>3, <1>4, <1>5, <1>6, <1>7, <1>8, <1>9

(* Nobody changes the project while the shared lock can be taken.          *)
LEMMA Untorn ==
  ASSUME IInv, writer = None
  PROVE  sources \in Version
BY NoneAssumption DEF IInv, CommandInv, WorldTypes, Changing, Holds

LEMMA SealStep ==
  ASSUME IInv, NEW r \in Request, Seal(r)
  PROVE  IInv'
<1> DEFINE old == task[r]
           t == [old EXCEPT !.at = "probe", !.probe = "replay",
                            !.sealed = sources]
<1> USE DepthOfStages DEF Depths, Running, Stages, Settled
<1>1. old.at = "seal" /\ Unmoved /\ UNCHANGED token
  BY DEF Seal, SealUnlocked, At, Unmoved
<1>2. sources \in Version
  BY Untorn DEF Seal
<1>3. Fits(old, token[r])
  BY <1>1, RunningFits DEF IInv
<1>4. ASSUME NEW outcome \in {"unchanged", "skipped"}, Return(r, outcome)
      PROVE  IInv'
  BY <1>1, <1>4, Returned
<1>5. ASSUME task' = [task EXCEPT ![r] = t] PROVE IInv'
  <2>1. old \in Tasks
    BY <1>3 DEF Fits
  <2>2. /\ t \in Tasks /\ t.at = "probe" /\ t.outcome = old.outcome
        /\ t.probe = "replay" /\ t.sealed = sources
    <3> HIDE DEF old
    <3> QED BY <1>2, <2>1 DEF Tasks
  <2>3. old.outcome = None /\ None # "published"
    BY <1>1, <1>3, NoneAssumption DEF Fits
  <2> HIDE DEF t
  <2>4. Fits(t, token[r])
    BY <1>1, <1>2, <1>3, <2>2, <2>3 DEF Fits
  <2>5. Moves(r, t, token[r])
    BY <1>1, <1>5, <2>2, <2>3, <2>4
    DEF Moves, Unmoved, process, lane, recorded, IInv, LaneInv, LaneTypes
  <2> QED BY <1>1, <2>5, QuietMove DEF Unmoved, locks
<1>6. ASSUME task' = [task EXCEPT ![r].at = "probe", ![r].probe = "replay",
                                  ![r].sealed = sources]
      PROVE  IInv'
  BY <1>5, <1>6
<1> QED BY <1>4, <1>6 DEF Seal, SealUnlocked

LEMMA LeaveStep ==
  ASSUME IInv, NEW r \in Request, Leave(r)
  PROVE  IInv'
<1> DEFINE old == task[r]
           t == [old EXCEPT !.at = "finish"]
           k == Cancel!Detach(token[r])
<1> USE DepthOfStages DEF Depths, Running, Stages, Settled
<1>1. /\ old.at = "leave" /\ Update(r, k) /\ To(r, "finish")
      /\ operating' \in {operating, None}
      /\ UNCHANGED <<world, lane, process, compiling, readers, writer, command,
                     recorded>>
  BY DEF Leave, At
<1>2. Fits(old, token[r])
  BY <1>1, RunningFits DEF IInv
<1>3. token[r] \in Cancel!Tokens /\ token[r].scopes = 2
  BY <1>1, <1>2 DEF Fits
<1>4. /\ k \in Cancel!Tokens /\ k.scopes = 1
      /\ k.requested = token[r].requested /\ k.cutoff = token[r].cutoff
  BY <1>3, DetachLeaves
<1>5. old \in Tasks
  BY <1>2 DEF Fits
<1>6. /\ t \in Tasks /\ t.at = "finish" /\ t.outcome = old.outcome
      /\ t.probe = old.probe /\ t.sealed = old.sealed
  <2> HIDE DEF old
  <2> QED BY <1>5 DEF Tasks
<1>7. task' = [task EXCEPT ![r] = t] /\ token' = [token EXCEPT ![r] = k]
  BY <1>1 DEF To, Update
<1> HIDE DEF t, k
<1>8. Fits(t, k)
  BY <1>1, <1>2, <1>4, <1>6 DEF Fits
<1>9. Moves(r, t, k)
  BY <1>1, <1>4, <1>6, <1>7, <1>8
  DEF Moves, process, lane, recorded, IInv, LaneInv, LaneTypes, Stops
<1> QED BY <1>1, <1>9, QuietMove
(* A commit: its request was not stopped, so the history it adds to was    *)
(* not deleted since it was scheduled, and what it sealed is whole.        *)
LEMMA CommitStep ==
  ASSUME IInv, NEW r \in Request, Commit(r)
  PROVE  IInv'
<1> DEFINE old == task[r]
           t == [old EXCEPT !.at = "leave", !.outcome = "published"]
           k == Cancel!Committed(token[r])
           entry == [root |-> old.sealed, by |-> r]
<1> USE DepthOfStages DEF Depths, Running, Stages, Settled
<1>1. /\ old.at = "commit" /\ Update(r, k) /\ Return(r, "published")
      /\ Cancel!MayCommit(token[r]) /\ history' = Append(history, entry)
      /\ UNCHANGED <<sources, exists, lane, process, locks, command, recorded>>
  BY DEF Commit, CommitAnyway, At
<1>2. Fits(old, token[r])
  BY <1>1, RunningFits DEF IInv
<1>3. /\ token[r] \in Cancel!Tokens /\ token[r].scopes = 2 /\ old \in Tasks
      /\ ~token[r].requested /\ old.sealed \in Version
  BY <1>1, <1>2 DEF Fits, Cancel!MayCommit
<1>4. r \notin stopped /\ r \notin erased
  BY <1>1, <1>3 DEF IInv, LaneInv, Stops, Erasures
<1>5. /\ k \in Cancel!Tokens /\ k.scopes = 2
      /\ k.requested = token[r].requested /\ k.cutoff
  BY <1>3, CommittedKeeps
<1>6. /\ t \in Tasks /\ t.at = "leave" /\ t.outcome = "published"
      /\ t.probe = old.probe /\ t.sealed = old.sealed
  <2> HIDE DEF old
  <2> QED BY <1>3 DEF Tasks
<1>7. task' = [task EXCEPT ![r] = t] /\ token' = [token EXCEPT ![r] = k]
  BY <1>1 DEF Return, Update
<1> HIDE DEF t, k
<1>8. Fits(t, k)
  BY <1>1, <1>2, <1>5, <1>6 DEF Fits
<1>9. Moves(r, t, k)
  BY <1>1, <1>3, <1>4, <1>5, <1>6, <1>7, <1>8
  DEF Moves, process, lane, recorded, IInv, LaneInv, LaneTypes
<1>10. LaneInv' /\ Erasures' /\ CommandInv' /\ Destroying'
  BY <1>1, <1>9, MoveKeepsLane, MoveKeepsCommands DEF IInv, locks
<1>11. HistoryInv'
  <2>1. /\ entry \in [root : Version \cup {Torn}, by : Request]
        /\ entry.root # Torn /\ entry.by \notin erased
    BY <1>3, <1>4, NoneAssumption
  <2>2. history \in Seq([root : Version \cup {Torn}, by : Request])
    BY DEF IInv, HistoryInv
  <2> HIDE DEF entry
  <2>3. /\ history' \in Seq([root : Version \cup {Torn}, by : Request])
        /\ \A i \in DOMAIN history' :
             history'[i] = entry \/ \E j \in DOMAIN history : history'[i] = history[j]
    BY <1>1, <2>1, <2>2
  <2> QED
    BY <1>1, <2>1, <2>3
    DEF IInv, HistoryInv, ErasedStaysErased, WholeProjects, Roots, recorded
<1> QED BY <1>10, <1>11 DEF IInv

-----------------------------------------------------------------------------
(* The lane: its requests come, are stopped and go.                        *)

(* Nobody who waits, or was not scheduled yet, is stopped or erased.       *)
LEMMA WaitingIsClean ==
  ASSUME LaneInv, Erasures, NEW r \in Request,
         task[r].at \in {"new", "waiting"}
  PROVE  r \notin stopped /\ r \notin erased
BY DEF LaneInv, Stops, Erasures, Running, Stages, Settled

LEMMA Interrupted ==
  ASSUME LaneInv, Erasures, inFlight # None,
         NEW next \in Request \cup {None},
         next # None => task[next].at = "new",
         inFlight' = inFlight, successor' = next,
         token' =
           [token EXCEPT ![inFlight] = Cancel!RequestStop(token[inFlight])],
         killers' = killers \cup Cancel!Target(token[inFlight]),
         stopped' = stopped \cup {q \in {inFlight, successor} \ {None} :
                                    task[q].outcome # "published"},
         task' = [q \in Request |->
                    IF q = next THEN [task[q] EXCEPT !.at = "waiting"]
                    ELSE IF q = successor
                      THEN [task[q] EXCEPT !.at = "dropped"]
                    ELSE task[q]],
         UNCHANGED <<child, erased>>
  PROVE  /\ LaneInv' /\ Erasures'
         /\ inFlight' \in stopped' \/ task'[inFlight'].outcome = "published"
<1> USE DEF Running, Stages, Settled
<1> DEFINE now == token[inFlight]
<1>1. /\ inFlight \in Request /\ now \in Cancel!Tokens
      /\ task[inFlight].at \in Running
      /\ None \notin Request /\ None # "published"
      /\ inFlight # successor /\ inFlight # next
  BY NoneAssumption DEF LaneInv, LaneTypes, Lane, OneAtATime
<1>2. /\ Fits(task[inFlight], now)
      /\ now.scopes > 0
  BY <1>1, RunningFits, DepthOfStages DEF Fits, Depths
<1>3. /\ token'[inFlight] \in Cancel!Tokens
      /\ token'[inFlight].scopes = now.scopes
      /\ token'[inFlight].cutoff = now.cutoff
      /\ token'[inFlight].pid = now.pid
      /\ now.requested => token'[inFlight].requested
      /\ ~now.cutoff => token'[inFlight].requested
      /\ token'[inFlight].requested /\ ~now.requested /\ now.pid # None =>
           now.pid \in killers'
      /\ killers \subseteq killers' /\ killers' \subseteq Request
  BY <1>1, <1>2, RequestStopMarks DEF LaneInv, LaneTypes
<1>4. \A q \in Request : q # inFlight => token'[q] = token[q]
  BY <1>1 DEF LaneInv, LaneTypes
<1>5. \A q \in Request :
        /\ task[q] \in Tasks /\ task'[q] \in Tasks
        /\ task'[q].at =
             IF q = next THEN "waiting"
             ELSE IF q = successor THEN "dropped" ELSE task[q].at
        /\ task'[q].outcome = task[q].outcome
        /\ task'[q].probe = task[q].probe /\ task'[q].sealed = task[q].sealed
        /\ task'[q].pass = task[q].pass
  BY DEF LaneInv, LaneTypes, Tasks
<1>6. /\ successor # None => task[successor].at = "waiting"
      /\ \A q \in Request : q = successor => successor # None
  BY <1>1 DEF LaneInv, LaneTypes, Lane, OneAtATime
<1>7. LaneTypes'
  <2>1. token' \in [Request -> Cancel!Tokens]
    BY <1>1, <1>3, <1>4 DEF LaneInv, LaneTypes
  <2>2. task' \in [Request -> Tasks]
    BY <1>5
  <2> QED BY <1>1, <1>3, <2>1, <2>2 DEF LaneInv, LaneTypes
<1>8. Lane'
  BY <1>1, <1>5, <1>6 DEF LaneInv, LaneTypes, Lane, OneAtATime
<1>9. Scopes'
  <2>1. Depth("waiting") = 0 /\ Depth("dropped") = 0 /\ Depth("new") = 0
    BY DEF Depth, Idle
  <2> QED BY <1>1, <1>3, <1>4, <1>5, <1>6, <2>1 DEF LaneInv, Scopes
<1>10. Outcomes'
  BY <1>1, <1>3, <1>4, <1>5, <1>6 DEF LaneInv, Outcomes
<1>11. Probes'
  BY <1>5, <1>6 DEF LaneInv, Probes
<1>12. Compilers'
  BY <1>1, <1>3, <1>4, <1>5, <1>6
  DEF LaneInv, LaneTypes, Compilers, At, Lane, OneAtATime
<1>13. Stops' /\ (inFlight \in stopped' \/ task'[inFlight].outcome = "published")
  <2>1. ASSUME NEW q \in stopped'
        PROVE  /\ task'[q].outcome # "published"
               /\ \/ task'[q].at \in Settled
                  \/ task'[q].at \in Running /\ token'[q].requested
    <3>1. CASE q \in stopped
      BY <1>1, <1>3, <1>4, <1>5, <1>6, <3>1 DEF LaneInv, LaneTypes, Stops
    <3>2. CASE q = inFlight /\ task[q].outcome # "published"
      BY <1>1, <1>2, <1>3, <1>5, <3>2 DEF Fits
    <3>3. CASE q = successor /\ q # None /\ q # inFlight
      <4>1. q \in Request /\ q # next /\ task[q].outcome = None
        BY <1>1, <1>6, <3>3 DEF LaneInv, LaneTypes, Outcomes
      <4> QED BY <1>1, <1>5, <3>3, <4>1
    <3> QED BY <3>1, <3>2, <3>3
  <2>2. inFlight \in stopped' \/ task[inFlight].outcome = "published"
    BY <1>1
  <2> QED BY <1>1, <1>5, <2>1, <2>2 DEF Stops
<1>14. Erasures'
  <2> SUFFICES ASSUME NEW q \in erased
               PROVE  \/ task'[q].at \in {"leave", "finish"} \cup Settled
                      \/ q \in stopped'
    BY DEF Erasures
  <2>1. q \in Request /\ q # next
    BY <1>1, WaitingIsClean DEF LaneInv, LaneTypes
  <2> QED BY <1>5, <2>1 DEF Erasures
<1> QED
  BY <1>7, <1>8, <1>9, <1>10, <1>11, <1>12, <1>13, <1>14 DEF LaneInv

LEMMA StopLaneKeeps ==
  ASSUME LaneInv, Erasures, StopLane, UNCHANGED <<inFlight, child, erased>>
  PROVE  /\ LaneInv' /\ Erasures' /\ successor' = None
         /\ inFlight' # None =>
              inFlight' \in stopped' \/ task'[inFlight'].outcome = "published"
<1>1. CASE inFlight = None
  <2>1. successor = None /\ None \notin Request
    BY <1>1, NoneAssumption DEF LaneInv, Lane
  <2>2. task' = task /\ stopped' = stopped
    BY <1>1, <2>1 DEF StopLane, LaneInv, LaneTypes
  <2>3. UNCHANGED <<lane, token, task, process, recorded>>
    BY <1>1, <2>1, <2>2 DEF StopLane, lane, process, recorded
  <2> QED
    BY <1>1, <2>3
    DEF StopLane, LaneInv, LaneTypes, Lane, OneAtATime, Scopes, Outcomes,
        Probes,
        Compilers, At, Stops, Erasures, lane, process, recorded
<1>2. CASE inFlight # None
  <2>1. None \notin Request
    BY NoneAssumption
  <2>2. task' = [q \in Request |->
                   IF q = None THEN [task[q] EXCEPT !.at = "waiting"]
                   ELSE IF q = successor
                     THEN [task[q] EXCEPT !.at = "dropped"]
                   ELSE task[q]]
    BY <2>1 DEF StopLane
  <2> QED BY <1>2, <2>2, Interrupted DEF StopLane, Update
<1> QED BY <1>1, <1>2
(* A publication that begins, as a new lane's or as a successor.           *)
LEMMA BegunFits ==
  ASSUME LaneInv, NEW r \in Request, task[r].at \in {"new", "waiting"}
  PROVE  Fits([task[r] EXCEPT !.at = "delay"], Cancel!Begin(Cancel!Fresh))
<1> DEFINE old == task[r]
           t == [old EXCEPT !.at = "delay"]
<1> USE DepthOfStages DEF Depths, Running, Stages, Settled
<1>1. old \in Tasks
  BY DEF LaneInv, LaneTypes
<1>2. /\ t \in Tasks /\ t.at = "delay" /\ t.outcome = old.outcome
      /\ t.probe = old.probe /\ t.sealed = old.sealed
  <2> HIDE DEF old
  <2> QED BY <1>1 DEF Tasks
<1>3. old.outcome = None /\ None # "published"
  BY NoneAssumption DEF LaneInv, Outcomes
<1>4. /\ Cancel!Begin(Cancel!Fresh) \in Cancel!Tokens
      /\ Cancel!Begin(Cancel!Fresh).scopes = 1
      /\ Cancel!Begin(Cancel!Fresh).cutoff = FALSE
  BY FirstScope
<1> HIDE DEF t
<1>5. Fits(t, Cancel!Begin(Cancel!Fresh))
  BY <1>2, <1>3, <1>4 DEF Fits, LaneInv, Probes
<1> QED BY <1>5 DEF t

(* While the history is being destroyed nothing can be scheduled.          *)
LEMMA NoAdmission ==
  ASSUME IInv, exists, compiling = None, NEW c \in Command
  PROVE  ~Doing(c, "destroy")
BY NoneAssumption
DEF IInv, CommandInv, Holds, Cancels, Doing, Kind

LEMMA AdmitStep ==
  ASSUME IInv, NEW r \in Request, Admit(r)
  PROVE  IInv'
<1> USE DEF Running, Stages, Settled
<1>1. /\ task[r].at = "new" /\ exists /\ compiling = None
      /\ UNCHANGED <<world, child, locks, command, erased>>
  BY DEF Admit
<1>2. /\ LaneInv /\ Erasures /\ None \notin Request
      /\ token \in [Request -> Cancel!Tokens] /\ task \in [Request -> Tasks]
  BY NoneAssumption DEF IInv, LaneInv, LaneTypes
<1>3. CommandInv' /\ HistoryInv' /\ Destroying'
  <2>1. CommandInv'
    BY <1>1 DEF IInv, CommandInv, WorldTypes, Holds, Changing, Doing, Kind,
            world, locks
  <2>2. HistoryInv'
    BY <1>1, HistoryStays DEF IInv, world
  <2>3. Destroying'
    BY <1>1, NoAdmission DEF Destroying, Doing
  <2> QED BY <2>1, <2>2, <2>3
<1>4. CASE inFlight # None
  <2>1. task' = [q \in Request |->
                   IF q = r THEN [task[q] EXCEPT !.at = "waiting"]
                   ELSE IF q = successor
                     THEN [task[q] EXCEPT !.at = "dropped"]
                   ELSE task[q]]
    BY <1>4 DEF Admit
  <2>2. LaneInv' /\ Erasures'
    BY <1>1, <1>2, <1>4, <2>1, Interrupted DEF Admit, Update
  <2> QED BY <1>3, <2>2 DEF IInv
<1>5. CASE inFlight = None
  <2> DEFINE t == [task[r] EXCEPT !.at = "delay"]
             k == Cancel!Begin(Cancel!Fresh)
  <2>1. /\ inFlight' = r /\ token' = [token EXCEPT ![r] = k]
        /\ task' = [task EXCEPT ![r] = t]
        /\ UNCHANGED <<successor, child, killers, stopped, erased>>
    BY <1>1, <1>5 DEF Admit, Update, To
  <2>2. Fits(t, k) /\ t.at = "delay"
    <3>1. t.at = "delay"
      BY <1>2 DEF Tasks
    <3> QED BY <1>1, <1>2, <3>1, BegunFits
  <2>3. successor = None /\ r \notin stopped /\ r \notin erased
    BY <1>1, <1>2, <1>5, WaitingIsClean DEF LaneInv, Lane
  <2> HIDE DEF t, k
  <2>4. /\ task'[r] = t /\ token'[r] = k
        /\ \A q \in Request : q # r =>
              task'[q] = task[q] /\ token'[q] = token[q]
    BY <1>2, <2>1
  <2>5. LaneTypes'
    BY <1>2, <2>1, <2>2 DEF LaneInv, LaneTypes, Fits
  <2>6. Lane'
    BY <1>2, <1>5, <2>1, <2>2, <2>3, <2>4 DEF LaneInv, Lane, OneAtATime
  <2>7. Scopes' /\ Outcomes' /\ Probes'
    BY <1>2, <2>2, <2>4 DEF LaneInv, Scopes, Outcomes, Probes, Fits
  <2>8. Compilers'
    BY <1>2, <2>1, <2>2, <2>4 DEF LaneInv, LaneTypes, Compilers, At
  <2>9. Stops' /\ Erasures'
    BY <1>2, <2>1, <2>3, <2>4 DEF LaneInv, LaneTypes, Stops, Erasures
  <2> QED
    BY <1>3, <2>5, <2>6, <2>7, <2>8, <2>9 DEF IInv, LaneInv
<1> QED BY <1>4, <1>5

LEMMA FinishStep ==
  ASSUME IInv, NEW r \in Request, Finish(r)
  PROVE  IInv'
<1> DEFINE next == successor
           t == [task[next] EXCEPT !.at = "delay"]
           k == Cancel!Begin(Cancel!Fresh)
           over == [task[r] EXCEPT !.at = task[r].outcome]
<1> USE DEF Running, Stages, Settled
<1>1. /\ task[r].at = "finish" /\ inFlight' = next /\ successor' = None
      /\ UNCHANGED <<world, process, locks, command, recorded>>
  BY DEF Finish, At
<1>2. /\ LaneInv /\ Erasures /\ None \notin Request
      /\ token \in [Request -> Cancel!Tokens] /\ task \in [Request -> Tasks]
      /\ next \in Request \cup {None}
  BY NoneAssumption DEF IInv, LaneInv, LaneTypes
<1>3. r = inFlight /\ Fits(task[r], token[r])
  BY <1>1, <1>2, RunningFits
<1>4. next # r /\ (next # None => task[next].at = "waiting")
  BY <1>1, <1>2 DEF LaneInv, Lane, OneAtATime
<1>5. /\ task[r].outcome \in {"published", "unchanged", "skipped"}
      /\ token[r].scopes = 1
  BY <1>1, <1>3, DepthOfStages DEF Fits, Depths
<1>6. /\ over \in Tasks /\ over.at = task[r].outcome
      /\ over.outcome = task[r].outcome /\ over.probe = task[r].probe
      /\ over.sealed = task[r].sealed
  BY <1>2, <1>5 DEF Tasks
<1>7. Cancel!Detach(token[r]) \in Cancel!Tokens
      /\ Cancel!Detach(token[r]).scopes = 0
  BY <1>3, <1>5, DetachLeaves DEF Fits
<1>8. next # None => Fits(t, k) /\ t.at = "delay"
                      /\ next \notin stopped /\ next \notin erased
  BY <1>2, <1>4, BegunFits, WaitingIsClean DEF Tasks
<1> HIDE DEF t, k, over
<1>9. /\ task'[r] = over /\ token'[r] = Cancel!Detach(token[r])
      /\ next # None => task'[next] = t /\ token'[next] = k
      /\ \A q \in Request \ {r, next} :
           task'[q] = task[q] /\ token'[q] = token[q]
      /\ DOMAIN task' = Request /\ DOMAIN token' = Request
  <2>1. token' = [q \in Request |->
                    CASE q = r -> Cancel!Detach(token[r])
                      [] q = next -> k
                      [] OTHER -> token[q]]
    BY DEF Finish, k
  <2>2. task' = [q \in Request |->
                   CASE q = r -> over
                     [] q = next -> [task[q] EXCEPT !.at = "delay"]
                     [] OTHER -> task[q]]
    BY DEF Finish, over
  <2> QED BY <1>2, <1>4, <2>1, <2>2 DEF t
<1>10. LaneTypes'
  <2>1. \A q \in Request : task'[q] \in Tasks /\ token'[q] \in Cancel!Tokens
    BY <1>2, <1>6, <1>7, <1>8, <1>9 DEF Fits
  <2>2. task' \in [Request -> Tasks] /\ token' \in [Request -> Cancel!Tokens]
    <3>1. /\ task' = [q \in Request |-> task'[q]]
          /\ token' = [q \in Request |-> token'[q]]
      BY DEF Finish
    <3> QED BY <2>1, <3>1
  <2> QED
    BY <1>1, <1>2, <2>2 DEF LaneInv, LaneTypes, process, recorded
<1>11. Lane'
  BY <1>1, <1>2, <1>3, <1>4, <1>5, <1>6, <1>8, <1>9
  DEF LaneInv, Lane, OneAtATime
<1>12. Scopes'
  <2>1. Depth("published") = 0 /\ Depth("unchanged") = 0 /\ Depth("skipped") = 0
    BY DEF Depth, Idle
  <2> QED
    BY <1>2, <1>5, <1>6, <1>7, <1>8, <1>9, <2>1 DEF LaneInv, Scopes, Fits
<1>13. Outcomes' /\ Probes'
  BY <1>2, <1>3, <1>5, <1>6, <1>8, <1>9 DEF LaneInv, Outcomes, Probes, Fits
<1>14. Compilers'
  BY <1>1, <1>2, <1>5, <1>6, <1>8, <1>9
  DEF LaneInv, LaneTypes, Compilers, At, process
<1>15. Stops' /\ Erasures'
  BY <1>1, <1>2, <1>5, <1>6, <1>8, <1>9
  DEF LaneInv, LaneTypes, Stops, Erasures, recorded
<1>16. CommandInv'
  BY <1>1 DEF IInv, CommandInv, WorldTypes, Holds, Changing, Doing, Kind,
          world, locks
<1>17. HistoryInv'
  BY <1>1, HistoryStays DEF IInv, world, recorded
<1>18. Destroying'
  BY <1>1 DEF IInv, Destroying, Doing
<1> QED
  BY <1>10, <1>11, <1>12, <1>13, <1>14, <1>15, <1>16, <1>17, <1>18
  DEF IInv, LaneInv

LEMMA TerminateStep ==
  ASSUME IInv, NEW r \in Request, Terminate(r)
  PROVE  IInv'
<1>1. /\ killers' = killers \ {r} /\ child' = child \ {r}
      /\ UNCHANGED <<world, lane, token, task, locks, command, recorded>>
  BY DEF Terminate
<1>2. LaneInv' /\ Erasures'
  BY <1>1
  DEF IInv, LaneInv, LaneTypes, Lane, OneAtATime, Scopes, Outcomes, Probes,
      Compilers, At, Stops, Erasures, lane, recorded
<1>3. CommandInv' /\ Destroying'
  BY <1>1 DEF IInv, CommandInv, WorldTypes, Holds, Changing, Destroying, Doing,
          Kind, world, locks, lane, recorded
<1>4. HistoryInv'
  BY <1>1, HistoryStays DEF IInv, world, recorded
<1> QED BY <1>2, <1>3, <1>4 DEF IInv
-----------------------------------------------------------------------------
(* The commands.                                                           *)

LEMMA LaneStays ==
  ASSUME LaneInv, Erasures, UNCHANGED <<lane, token, task, process, recorded>>
  PROVE  LaneInv' /\ Erasures'
BY DEF LaneInv, LaneTypes, Lane, OneAtATime, Scopes, Outcomes, Probes,
       Compilers, At, Stops, Erasures, lane, process, recorded

(* What a step of one command leaves of the others.                        *)
LEMMA ThenShape ==
  ASSUME WorldTypes, NEW c \in Command,
         NEW step \in {"idle", "compile", "operation", "worktree", "work",
                       "change", "drain", "destroy", "done"},
         Then(c, step)
  PROVE  /\ command' \in
              [Command ->
                [kind : Kinds,
                 step : {"idle", "compile", "operation", "worktree", "work",
                         "change", "drain", "destroy", "done"}]]
         /\ \A d \in Command : command'[d].kind = command[d].kind
         /\ command'[c].step = step
         /\ \A d \in Command \ {c} : command'[d].step = command[d].step
BY DEF WorldTypes, Then

LEMMA DestroyingStays ==
  ASSUME Destroying, WorldTypes, NEW c \in Command,
         NEW step \in {"idle", "compile", "operation", "worktree", "work",
                       "change", "drain", "done"},
         Then(c, step), UNCHANGED <<inFlight, successor, stopped>>,
         \A r \in Request : task'[r].outcome = task[r].outcome,
         inFlight \in Request \cup {None}
  PROVE  Destroying'
<1>1. \A d \in Command : Doing(d, "destroy")' => Doing(d, "destroy")
  BY ThenShape DEF Doing
<1> QED BY <1>1 DEF Destroying

CommandSteps(c) ==
  \/ TakeCompile(c) \/ TakeOperationLock(c) \/ ProjectGone(c) \/ Recycle(c)
  \/ Release(c)

LEMMA LockSteps ==
  ASSUME IInv, NEW c \in Command, CommandSteps(c)
  PROVE  IInv'
<1> USE DEF Operates, Cancels, Reads
<1>1. UNCHANGED <<sources, history, lane, token, task, process, recorded>>
  BY DEF CommandSteps, TakeCompile, TakeOperationLock, ProjectGone, Recycle,
         Release, world
<1>2. LaneInv' /\ Erasures' /\ HistoryInv'
  BY <1>1, LaneStays, HistoryStays DEF IInv, recorded
<1>3. CommandInv /\ WorldTypes /\ None \notin Command
      /\ inFlight \in Request \cup {None}
  BY NoneAssumption DEF IInv, CommandInv, LaneInv, LaneTypes
<1>4. CASE TakeCompile(c)
  <2> DEFINE step == IF Kind(c) \in Operates THEN "operation" ELSE "worktree"
  <2>1. /\ Doing(c, "compile") /\ compiling = None /\ compiling' = c
        /\ Then(c, step)
        /\ UNCHANGED <<world, operating, readers, writer>>
    BY <1>4 DEF TakeCompile
  <2>2. Destroying'
    BY <1>1, <1>3, <2>1, DestroyingStays DEF IInv, lane, recorded
  <2>3. WorldTypes' /\ (\A d \in Command : Holds(d))' /\ Changing'
    BY <1>3, <2>1, ThenShape
    DEF CommandInv, WorldTypes, Holds, Changing, Doing, Kind, world, Holder
  <2> QED BY <1>2, <2>2, <2>3 DEF IInv, CommandInv
<1>5. CASE TakeOperationLock(c)
  <2>1. /\ Doing(c, "operation") /\ operating' = c /\ Then(c, "worktree")
        /\ UNCHANGED <<world, compiling, readers, writer>>
    BY <1>5 DEF TakeOperationLock
  <2>2. Destroying'
    BY <1>1, <1>3, <2>1, DestroyingStays DEF IInv, lane, recorded
  <2>3. WorldTypes' /\ (\A d \in Command : Holds(d))' /\ Changing'
    BY <1>3, <2>1, ThenShape
    DEF CommandInv, WorldTypes, Holds, Changing, Doing, Kind, world, Holder
  <2> QED BY <1>2, <2>2, <2>3 DEF IInv, CommandInv
<1>6. CASE ProjectGone(c) \/ Recycle(c)
  <2>1. /\ Doing(c, "work") /\ Then(c, "done")
        /\ exists' \in BOOLEAN /\ (exists' => exists)
        /\ UNCHANGED locks
    <3>1. exists \in BOOLEAN
      BY <1>3 DEF WorldTypes
    <3>2. CASE ProjectGone(c)
      BY <3>1, <3>2 DEF ProjectGone, world
    <3>3. CASE Recycle(c)
      BY <3>1, <3>3 DEF Recycle
    <3> QED BY <1>6, <3>2, <3>3
  <2>2. Destroying'
    BY <1>1, <1>3, <2>1, DestroyingStays DEF IInv, lane, recorded
  <2>3. WorldTypes' /\ Changing'
    BY <1>1, <1>3, <2>1, ThenShape
    DEF CommandInv, WorldTypes, Changing, Doing, locks
  <2>4. (\A d \in Command : Holds(d))'
    BY <1>1, <1>3, <2>1, ThenShape DEF CommandInv, Holds, Doing, Kind, locks
  <2> QED BY <1>2, <2>2, <2>3, <2>4 DEF IInv, CommandInv
<1>7. CASE Release(c)
  <2>1. /\ Doing(c, "done") /\ UNCHANGED <<world, command>>
        /\ compiling' = IF compiling = c THEN None ELSE compiling
        /\ operating' = IF operating = c THEN None ELSE operating
        /\ writer' = IF writer = c THEN None ELSE writer
        /\ readers' = readers \ {c}
    BY <1>7 DEF Release
  <2>2. Destroying'
    BY <1>1, <2>1 DEF IInv, Destroying, Doing, lane, recorded
  <2>3. WorldTypes' /\ (\A d \in Command : Holds(d))' /\ Changing'
    BY <1>3, <2>1
    DEF CommandInv, WorldTypes, Holds, Changing, Doing, Kind, world, Holder
  <2> QED BY <1>2, <2>2, <2>3 DEF IInv, CommandInv
<1> QED BY <1>4, <1>5, <1>6, <1>7 DEF CommandSteps

(* The worktree lock is entered by who may change the files, alone.        *)
LEMMA EnterStep ==
  ASSUME IInv, NEW c \in Command, TakeWorktree(c) \/ BeginInWorktree(c)
  PROVE  IInv'
<1> DEFINE step ==
             IF Kind(c) = "cleanup" \/ (Kind(c) = "reset" /\ exists)
               THEN "drain" ELSE "work"
<1> USE DEF Cancels, Reads
<1>1. /\ \/ Doing(c, "worktree")
         \/ Doing(c, "idle") /\ Kind(c) = "save"
         \/ Doing(c, "idle") /\ Kind(c) = "cleanup" /\ ~exists
      /\ writer = None /\ Then(c, step)
      /\ IF Kind(c) \in {"delete", "reset"}
           THEN readers' = readers \cup {c} /\ writer' = writer
           ELSE writer' = c /\ readers' = readers
      /\ UNCHANGED <<world, lane, token, task, process, compiling, operating,
                     recorded>>
  BY DEF TakeWorktree, BeginInWorktree, EnterWorktree
<1>2. LaneInv' /\ Erasures' /\ HistoryInv'
  BY <1>1, LaneStays, HistoryStays DEF IInv, recorded, world
<1>3. CommandInv /\ WorldTypes /\ None \notin Command
      /\ inFlight \in Request \cup {None}
  BY NoneAssumption DEF IInv, CommandInv, LaneInv, LaneTypes
<1>4. Destroying'
  BY <1>1, <1>3, DestroyingStays DEF IInv, lane, recorded
<1>5. WorldTypes'
  BY <1>1, <1>3, ThenShape DEF WorldTypes, world, Holder
<1>6. (\A d \in Command : Holds(d))'
  BY <1>1, <1>3, ThenShape DEF CommandInv, Holds, Doing, Kind, world
<1>7. Changing'
  BY <1>1, <1>3, ThenShape DEF CommandInv, Changing, Doing, world
<1> QED BY <1>2, <1>4, <1>5, <1>6, <1>7 DEF IInv, CommandInv

(* The files change; a compiler that runs on them reads the change.        *)
LEMMA ChangeKeepsLane ==
  ASSUME IInv, NEW content \in Version \cup {Torn}, Change(content),
         UNCHANGED <<lane, token, process, recorded>>
  PROVE  /\ LaneInv' /\ Erasures'
         /\ \A r \in Request : task'[r].outcome = task[r].outcome
<1>1. \A r \in Request :
        /\ task'[r] \in Tasks
        /\ task'[r].at = task[r].at /\ task'[r].probe = task[r].probe
        /\ task'[r].pass = task[r].pass /\ task'[r].sealed = task[r].sealed
        /\ task'[r].outcome = task[r].outcome
  BY DEF IInv, LaneInv, LaneTypes, Change, Tasks
<1>2. task' \in [Request -> Tasks]
  BY <1>1 DEF Change
<1> QED
  BY <1>1, <1>2
  DEF IInv, LaneInv, LaneTypes, Lane, OneAtATime, Scopes, Outcomes, Probes,
      Compilers, At, Stops, Erasures, lane, process, recorded

LEMMA ChangeSteps ==
  ASSUME IInv, NEW c \in Command, BeginChange(c) \/ EndChange(c)
  PROVE  IInv'
<1>1. PICK content \in Version \cup {Torn}, step \in {"change", "done"} :
        /\ step = "done" => content \in Version /\ Doing(c, "change")
        /\ step = "change" =>
             Doing(c, "work") /\ Kind(c) \in {"save", "restore"}
        /\ Change(content) /\ Then(c, step)
        /\ UNCHANGED <<lane, token, process, locks, recorded>>
  BY DEF BeginChange, EndChange
<1>2. /\ LaneInv' /\ Erasures' /\ HistoryInv'
      /\ \A r \in Request : task'[r].outcome = task[r].outcome
  BY <1>1, ChangeKeepsLane, HistoryStays DEF IInv, Change, recorded
<1>3. CommandInv /\ WorldTypes /\ writer = c
      /\ inFlight \in Request \cup {None} /\ Torn \notin Version
  BY <1>1, NoneAssumption DEF IInv, CommandInv, LaneInv, LaneTypes, Holds
<1>4. Destroying'
  BY <1>1, <1>2, <1>3, DestroyingStays DEF IInv, lane, recorded
<1>5. WorldTypes'
  BY <1>1, <1>3, ThenShape DEF WorldTypes, Change, locks
<1>6. (\A d \in Command : Holds(d))'
  BY <1>1, <1>3, ThenShape DEF CommandInv, Holds, Doing, Kind, Change, locks
<1>7. Changing'
  BY <1>1, <1>3, ThenShape DEF Changing, Doing, Change
<1> QED BY <1>2, <1>4, <1>5, <1>6, <1>7 DEF IInv, CommandInv

(* The newest checkpoint goes.                                             *)
LEMMA FrontKeeps ==
  ASSUME NEW S, NEW list \in Seq(S), list # <<>>
  PROVE  /\ Front(list) \in Seq(S)
         /\ \A i \in DOMAIN Front(list) :
              i \in DOMAIN list /\ Front(list)[i] = list[i]
BY DEF Front

LEMMA DeleteStep ==
  ASSUME IInv, NEW c \in Command, DeleteNewest(c)
  PROVE  IInv'
<1>1. /\ Doing(c, "work") /\ Then(c, "done")
      /\ history' = IF history = <<>> THEN <<>> ELSE Front(history)
      /\ UNCHANGED <<sources, exists, lane, token, task, process, locks,
                     recorded>>
  BY DEF DeleteNewest
<1>2. LaneInv' /\ Erasures'
  BY <1>1, LaneStays DEF IInv
<1>3. CommandInv /\ WorldTypes /\ inFlight \in Request \cup {None}
  BY DEF IInv, CommandInv, LaneInv, LaneTypes
<1>4. Destroying'
  BY <1>1, <1>3, DestroyingStays DEF IInv, lane, recorded
<1>5. CommandInv'
  BY <1>1, <1>3, ThenShape
  DEF CommandInv, WorldTypes, Holds, Changing, Doing, Kind, locks
<1>6. /\ history' \in Seq([root : Version \cup {Torn}, by : Request])
      /\ \A i \in DOMAIN history' :
           i \in DOMAIN history /\ history'[i] = history[i]
  BY <1>1, FrontKeeps DEF IInv, HistoryInv
<1>7. HistoryInv'
  BY <1>1, <1>6
  DEF IInv, HistoryInv, ErasedStaysErased, WholeProjects, Roots, recorded
<1> QED BY <1>2, <1>4, <1>5, <1>7 DEF IInv

(* Stopping the lane, and waiting for it to be gone.                       *)
LEMMA StoppingSteps ==
  ASSUME IInv, NEW c \in Command,
         CancelPublications(c) \/ DrainAgain(c) \/ DrainTimeout(c)
  PROVE  IInv'
<1>1. /\ StopLane
      /\ UNCHANGED <<world, inFlight, child, locks, erased>>
      /\ \/ Doing(c, "idle") /\ Kind(c) \in Cancels /\ Then(c, "compile")
         \/ command' = command
         \/ Doing(c, "drain") /\ Then(c, "destroy")
  BY DEF CancelPublications, DrainAgain, DrainTimeout
<1>2. LaneInv' /\ Erasures' /\ HistoryInv' /\ Destroying'
  BY <1>1, StopLaneKeeps, HistoryStays DEF IInv, world, Destroying
<1>3. CommandInv /\ WorldTypes
  BY DEF IInv, CommandInv
<1>4. CASE command' = command
  BY <1>1, <1>2, <1>3, <1>4
  DEF IInv, CommandInv, WorldTypes, Holds, Changing, Doing, Kind, world, locks
<1>5. CASE Doing(c, "idle") /\ Kind(c) \in Cancels /\ Then(c, "compile")
  <2>1. WorldTypes' /\ (\A d \in Command : Holds(d))' /\ Changing'
    BY <1>1, <1>3, <1>5, ThenShape
    DEF CommandInv, WorldTypes, Holds, Changing, Doing, Kind, world, locks,
        Cancels
  <2> QED BY <1>2, <2>1 DEF IInv, CommandInv
<1>6. CASE Doing(c, "drain") /\ Then(c, "destroy")
  <2>1. WorldTypes' /\ (\A d \in Command : Holds(d))' /\ Changing'
    BY <1>1, <1>3, <1>6, ThenShape
    DEF CommandInv, WorldTypes, Holds, Changing, Doing, Kind, world, locks
  <2> QED BY <1>2, <2>1 DEF IInv, CommandInv
<1> QED BY <1>1, <1>4, <1>5, <1>6

LEMMA DestroySteps ==
  ASSUME IInv, NEW c \in Command, Drained(c) \/ Destroy(c)
  PROVE  IInv'
<1>1. CommandInv /\ WorldTypes
  BY DEF IInv, CommandInv
<1>2. CASE Drained(c)
  <2>1. /\ Doing(c, "drain") /\ Then(c, "destroy") /\ inFlight = None
        /\ UNCHANGED <<world, lane, token, task, process, locks, recorded>>
    BY <1>2 DEF Drained, DrainedUnasked
  <2>2. LaneInv' /\ Erasures' /\ HistoryInv'
    BY <2>1, LaneStays, HistoryStays DEF IInv, world, recorded
  <2>3. Destroying'
    BY <2>1 DEF IInv, LaneInv, Lane, Destroying, lane
  <2>4. WorldTypes' /\ (\A d \in Command : Holds(d))' /\ Changing'
    BY <1>1, <2>1, ThenShape
    DEF CommandInv, WorldTypes, Holds, Changing, Doing, Kind, world, locks
  <2> QED BY <2>2, <2>3, <2>4 DEF IInv, CommandInv
<1>3. CASE Destroy(c)
  <2>1. /\ Doing(c, "destroy") /\ Then(c, "done") /\ history' = <<>>
        /\ erased' = erased \cup {r \in Request : task[r].at # "new"}
        /\ UNCHANGED <<sources, exists, lane, token, task, process, locks,
                       stopped>>
    BY <1>3 DEF Destroy
  <2>2. LaneInv'
    BY <2>1
    DEF IInv, LaneInv, LaneTypes, Lane, OneAtATime, Scopes, Outcomes, Probes,
        Compilers, At, Stops, lane, process
  <2>3. Erasures'
    <3> SUFFICES ASSUME NEW r \in Request, task[r].at # "new"
                 PROVE  \/ task[r].at \in {"leave", "finish"} \cup Settled
                        \/ r \in stopped
      BY <2>1 DEF Erasures, IInv
    <3>1. CASE task[r].at \in Settled
      BY <3>1
    <3>2. CASE task[r].at = "waiting"
      BY <2>1, <3>2, NoneAssumption
      DEF IInv, LaneInv, Lane, OneAtATime, Destroying
    <3>3. CASE task[r].at \in Running
      <4>1. r = inFlight /\ Fits(task[r], token[r])
        BY <3>3, RunningFits DEF IInv
      <4>2. r \in stopped \/ task[r].outcome = "published"
        BY <2>1, <4>1, NoneAssumption DEF IInv, Destroying
      <4> QED BY <4>1, <4>2, NoneAssumption DEF Fits, Settled
    <3>4. task[r].at \in Stages
      BY DEF IInv, LaneInv, LaneTypes, Tasks
    <3> QED BY <3>1, <3>2, <3>3, <3>4 DEF Running
  <2>4. HistoryInv'
    BY <2>1 DEF HistoryInv, ErasedStaysErased, WholeProjects, Roots
  <2>5. Destroying'
    BY <2>1, <1>1, DestroyingStays DEF IInv, LaneInv, LaneTypes, lane
  <2>6. WorldTypes' /\ (\A d \in Command : Holds(d))' /\ Changing'
    BY <1>1, <2>1, ThenShape
    DEF CommandInv, WorldTypes, Holds, Changing, Doing, Kind, locks
  <2> QED BY <2>2, <2>3, <2>4, <2>5, <2>6 DEF IInv, CommandInv
<1> QED BY <1>2, <1>3

-----------------------------------------------------------------------------
LEMMA InitHolds == Init => IInv
<1> SUFFICES ASSUME Init PROVE IInv
  OBVIOUS
<1> USE DEF Init, NewTask
<1>1. /\ NewTask \in Tasks
      /\ Cancel!Fresh \in Cancel!Tokens /\ Cancel!Fresh.scopes = 0
      /\ Depth("new") = 0 /\ None \notin Request
  BY FreshBegins, PassesAssumption, NoneAssumption
  DEF Tasks, Stages, Settled, Depth, Idle
<1>2. LaneInv
  BY <1>1
  DEF LaneInv, LaneTypes, Lane, OneAtATime, Running, Settled, Scopes, Outcomes,
      Probes, Compilers, Stops
<1>3. Erasures /\ HistoryInv
  BY DEF Erasures, HistoryInv, ErasedStaysErased, WholeProjects, Roots
<1>4. PICK kind \in Scripts :
        command = [c \in Command |-> [kind |-> kind[c], step |-> "idle"]]
  OBVIOUS
<1>5. kind \in [Command -> Kinds]
  BY ScriptAssumption
<1>6. CommandInv /\ Destroying
  BY <1>4, <1>5, NoneAssumption
  DEF CommandInv, WorldTypes, Holder, Holds, Doing, Changing, Destroying
<1> QED BY <1>2, <1>3, <1>6 DEF IInv

LEMMA Inductive == IInv /\ [Next]_vars => IInv'
<1> SUFFICES ASSUME IInv, [Next]_vars PROVE IInv'
  OBVIOUS
<1>1. ASSUME NEW r \in Request, Advance(r) PROVE IInv'
  BY <1>1, StartMoves, ProbeSteps, EndProbeStep, PlainSteps, SealStep,
     CommitStep, LeaveStep, FinishStep DEF Advance
<1>2. ASSUME NEW r \in Request, Admit(r) \/ Terminate(r) PROVE IInv'
  BY <1>2, AdmitStep, TerminateStep
<1>3. ASSUME NEW c \in Command,
             CancelPublications(c) \/ BeginInWorktree(c) \/ Perform(c)
      PROVE  IInv'
  BY <1>3, LockSteps, EnterStep, ChangeSteps, DeleteStep, StoppingSteps,
     DestroySteps DEF Perform, CommandSteps
<1>4. CASE UNCHANGED vars
  <2>1. LaneInv' /\ Erasures' /\ HistoryInv'
    BY <1>4, LaneStays, HistoryStays DEF IInv, vars, world, recorded
  <2>2. CommandInv' /\ Destroying'
    BY <1>4
    DEF IInv, vars, CommandInv, WorldTypes, Holds, Changing, Destroying, Doing,
        Kind, world, locks, lane, recorded
  <2> QED BY <2>1, <2>2 DEF IInv
<1> QED BY <1>1, <1>2, <1>3, <1>4 DEF Next

THEOREM Invariance == Spec => []IInv
BY InitHolds, Inductive, PTL DEF Spec

(* The variables have the types the code gives them.                       *)
THEOREM TypeCorrectness == Spec => []TypeOK
BY Invariance, Types, PTL

(* "At most one publication runs per project", and one waits, whatever     *)
(* compiles, stops and commands come together.                             *)
THEOREM OnePublication == Spec => []OneAtATime
<1>1. IInv => OneAtATime
  BY DEF IInv, LaneInv, Lane
<1> QED BY <1>1, Invariance, PTL

(* A publication that was stopped before its commit never becomes visible. *)
THEOREM StoppedAreInvisible == Spec => []StoppedStaysInvisible
<1>1. IInv => StoppedStaysInvisible
  BY DEF IInv, LaneInv, Stops, StoppedStaysInvisible
<1> QED BY <1>1, Invariance, PTL

(* Deleted history stays deleted, also when the drain ran out of time.     *)
THEOREM ErasedAreGone == Spec => []ErasedStaysErased
<1>1. IInv => ErasedStaysErased
  BY DEF IInv, HistoryInv
<1> QED BY <1>1, Invariance, PTL

(* No checkpoint holds half of a change.                                   *)
THEOREM CheckpointsAreWhole == Spec => []WholeProjects
<1>1. IInv => WholeProjects
  BY DEF IInv, HistoryInv
<1> QED BY <1>1, Invariance, PTL

(* A stop reaches the compiler it is meant for, however it falls between   *)
(* the start of the process and its registration.                          *)
THEOREM StopsReachCompilers == Spec => []StopReachesCompiler
<1>1. IInv => StopReachesCompiler
  BY DEF IInv, LaneInv, Compilers, StopReachesCompiler, IsStopped,
         Cancel!IsRequested
<1> QED BY <1>1, Invariance, PTL
=============================================================================

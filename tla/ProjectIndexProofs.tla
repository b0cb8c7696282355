-------------------------- MODULE ProjectIndexProofs --------------------------
(***************************************************************************)
(* Safety of ProjectIndex for any projects, files and budgets: an          *)
(* inductive invariant, and the properties that follow from it.            *)
(***************************************************************************)
EXTENDS ProjectIndex, TLAPS

IxFields ==
  {"project", "rev", "gen", "needsReset", "wproject", "known", "signature",
   "unreadable", "srcRev", "ext", "sched", "seq", "texts", "building", "due",
   "state"}
FilesFields == {"project", "loading", "tree", "active", "buffer", "opening"}
StateFields == {"status", "id", "data", "stale"}
DataFields == {"id", "texts", "opening", "ext"}
Statuses == {"not_run", "running", "success", "error"}

(* A painted state, and the rest of the index.                             *)
StateOK(s) ==
  /\ DOMAIN s = StateFields
  /\ s.status \in Statuses
  /\ s.data # None =>
       DOMAIN s.data = DataFields /\ s.data.ext \in {None, s.data.id}

IxShape(x) ==
  /\ DOMAIN x = IxFields
  /\ x.project \in Project \cup {None}
  /\ x.rev \in Nat /\ x.gen \in Nat /\ x.seq \in Nat
  /\ \A f \in DOMAIN x.texts : x.texts[f] \in Text
  /\ x.sched # None => x.sched.id \in Id
  /\ StateOK(x.state)

IxOK(x) == IxShape(x) /\ x.unreadable \cap DOMAIN x.texts = {}

(* What is painted as current is so at revision and request i, and what is *)
(* painted at all was asked for.                                           *)
Current(s, i) ==
  s.status = "success" => ~s.stale /\ s.data.id = s.id /\ s.id = i
AskedFor(s, i) == s.id \in {None, i}

Disks ==
  /\ disk \in [Project -> UNION {[S -> Text] : S \in SUBSET Path}]
  /\ \A p \in Project : StoredMain \in DOMAIN disk[p]

Window ==
  /\ DOMAIN files = FilesFields
  /\ files.project \in Project \cup {None}
  /\ files.project = None =>
       files.tree = {} /\ files.active = None /\ ~files.loading
  /\ files.tree # {} => files.tree = DOMAIN disk[files.project]
  /\ files.active = None => DOMAIN files.buffer = {}
  /\ files.loading => files.active = None
  /\ files.active # None =>
       /\ files.active \in DOMAIN files.buffer
       /\ StoredMain \in DOMAIN files.buffer
       /\ files.tree = DOMAIN disk[files.project]
  /\ \A f \in DOMAIN files.buffer :
       files.buffer[f] \in Text /\ f \in DOMAIN disk[files.project]

(* Between the change of a project and the first look at its tree, the     *)
(* index belongs to no project.                                            *)
Owned ==
  /\ ix.project \in {None, files.project}
  /\ ix.project = None => ix.state.id = None /\ ix.state.status # "success"
  /\ files.tree # {} => ix.project = files.project
  /\ ix.due => files.project # None

(* A read that is not abandoned finds the index as it left it, and the     *)
(* buffers too, but for files opened since, which are as they are on disk. *)
StillValid(r) ==
  /\ r.project = ix.project /\ r.project # None
  /\ Current(r.before, Identity(ix))
  /\ \A f \in DOMAIN r.buffer :
       f \in DOMAIN files.buffer /\ r.buffer[f] = files.buffer[f]
  /\ \A f \in DOMAIN files.buffer \cap r.known :
       f \in DOMAIN r.buffer \/ files.buffer[f] = disk[files.project][f]

ReadOK(r) ==
  /\ r.seq \in Nat /\ r.seq <= ix.seq
  /\ StateOK(r.before)
  /\ r.seq = ix.seq => StillValid(r)

Reads ==
  /\ \A r \in reads : ReadOK(r)
  /\ \A r, q \in reads : r.seq = ix.seq /\ q.seq = ix.seq => r = q

Entry(e) == "request" \in DOMAIN e /\ e.request.id \in Id
PostedOK(q) == \E S : q \in Seq(S) /\ \A e \in S : Entry(e)

IInv ==
  /\ Disks /\ Window /\ IxOK(ix) /\ Owned /\ Reads /\ PostedOK(posted)
  /\ Current(ix.state, Identity(ix)) /\ AskedFor(ix.state, Identity(ix))
  /\ BufferIsIndexed

-----------------------------------------------------------------------------
(* The operations on the index, one lemma each.                            *)
Started(y, x) == y.state = Running(x.state, Identity(y))

LEMMA RunningOK ==
  ASSUME NEW s, NEW i, StateOK(s)
  PROVE  /\ StateOK(Running(s, i))
         /\ Running(s, i).status = "running" /\ Running(s, i).id = i
         /\ Running(s, i).data = s.data
BY DEF StateOK, Running, StateFields, Statuses

LEMMA IdentityOK ==
  ASSUME NEW x, IxOK(x)
  PROVE  Identity(x) \in Id /\ Identity(x) # None
BY NoneAssumption DEF IxOK, IxShape, Identity, Id

LEMMA EnsureOK ==
  ASSUME NEW x, IxOK(x), NEW p \in Project, NEW y, y = EnsureProject(x, p)
  PROVE  /\ IxOK(y) /\ y.project = p /\ y.seq = x.seq /\ y.state = x.state
         /\ y.texts = x.texts /\ y.due = x.due
         /\ x.project = p => y = x
<1>1. CASE x.project = p
  BY <1>1 DEF EnsureProject
<1>2. CASE x.project # p
  <2>1. y = FreshRuntime(x, p)
    BY <1>2 DEF EnsureProject
  <2>2. DOMAIN x = IxFields
    BY DEF IxOK, IxShape
  <2>3. /\ DOMAIN y = IxFields /\ y.project = p /\ y.rev = 0 /\ y.gen = 0
        /\ y.seq = x.seq /\ y.texts = x.texts /\ y.unreadable = {}
        /\ y.sched = None /\ y.state = x.state /\ y.due = x.due
    BY <2>1, <2>2 DEF FreshRuntime, IxFields
  <2> QED BY <1>2, <2>3 DEF IxOK, IxShape
<1> QED BY <1>1, <1>2

LEMMA InvalidateOK ==
  ASSUME NEW x, IxOK(x), NEW p \in Project, NEW y, y = Invalidate(x, p)
  PROVE  /\ IxOK(y) /\ y.project = p /\ y.seq = x.seq + 1 /\ Started(y, x)
         /\ y.texts = x.texts /\ y.due = x.due
         /\ x.project = p => y.unreadable = x.unreadable
<1> PICK e : e = EnsureProject(x, p)
  OBVIOUS
<1>1. /\ IxOK(e) /\ e.project = p /\ e.seq = x.seq /\ e.state = x.state
      /\ e.texts = x.texts /\ e.due = x.due
      /\ x.project = p => e = x
  BY EnsureOK
<1> PICK z : z = [e EXCEPT !.seq = @ + 1, !.sched = None, !.rev = @ + 1,
                           !.gen = @ + 1, !.ext = None, !.building = TRUE]
  OBVIOUS
<1>2. y = [z EXCEPT !.state = Running(@, Identity(z))]
  BY DEF Invalidate
<1>3. DOMAIN z = IxFields /\ DOMAIN y = IxFields
  BY <1>1, <1>2 DEF IxOK, IxShape
<1>4. /\ z.project = p /\ z.seq = x.seq + 1 /\ z.texts = x.texts
      /\ z.due = x.due /\ z.rev \in Nat /\ z.gen \in Nat /\ z.seq \in Nat
      /\ z.sched = None /\ z.unreadable = e.unreadable /\ z.state = x.state
  BY <1>1 DEF IxOK, IxShape, IxFields
<1>5. /\ y.project = z.project /\ y.seq = z.seq /\ y.texts = z.texts
      /\ y.due = z.due /\ y.rev = z.rev /\ y.gen = z.gen
      /\ y.sched = z.sched /\ y.unreadable = z.unreadable
      /\ y.state = Running(z.state, Identity(z))
  BY <1>2, <1>3 DEF IxFields
<1>6. Identity(y) = Identity(z)
  BY <1>5 DEF Identity
<1>7. StateOK(y.state)
  BY <1>1, <1>4, <1>5, RunningOK DEF IxOK, IxShape
<1> QED BY <1>1, <1>3, <1>4, <1>5, <1>6, <1>7 DEF IxOK, IxShape, Started

(* A request is put together from x, which is of project p already.        *)
LEMMA ScheduleOK ==
  ASSUME NEW x, IxShape(x), NEW p \in Project, x.project = p,
         NEW known, NEW send, NEW removals, NEW unread, NEW texts,
         \A f \in DOMAIN texts : texts[f] \in Text,
         x.unreadable \cap DOMAIN texts = {},
         NEW y, y = Schedule(x, p, known, send, removals, unread, texts)
  PROVE  /\ IxOK(y) /\ y.project = p /\ y.seq = x.seq /\ Started(y, x)
         /\ y.rev = x.rev /\ y.gen = x.gen + 1
         /\ y.texts = texts /\ y.unreadable = x.unreadable /\ y.due = x.due
         /\ y.sched.id \in Id
<1> DEFINE own == x.sched # None /\ x.sched.id.project = p
           prior == IF own THEN x.sched
                    ELSE [reset |-> FALSE, upserts |-> Nothing,
                          removals |-> {}, unread |-> Nothing]
           reset == x.needsReset \/ x.wproject # p
           chosen == Only(texts, IF reset THEN known ELSE send)
           S == DOMAIN chosen \cup unread
           w == [x EXCEPT !.gen = @ + 1, !.needsReset = FALSE,
                          !.wproject = p, !.known = known,
                          !.texts = texts, !.building = TRUE]
           z == Allocated(w, S)
           upserts == Over(Tagged(z, chosen), prior.upserts)
           gone == (prior.removals \cup removals) \ DOMAIN upserts
           failed == Over(Tagged(z, [f \in unread |-> None]), prior.unread)
           request == [id |-> Identity(z), reset |-> reset \/ prior.reset,
                       known |-> known, upserts |-> Without(upserts, unread),
                       removals |-> IF reset THEN {} ELSE gone,
                       unread |-> Without(failed, gone)]
<1>1. EnsureProject(x, p) = x
  BY DEF EnsureProject
<1>2. y = [z EXCEPT !.state = Running(@, Identity(z)), !.sched = request]
  BY <1>1 DEF Schedule
<1>3. /\ DOMAIN w = IxFields /\ w.project = p /\ w.seq = x.seq
      /\ w.rev = x.rev /\ w.gen = x.gen + 1 /\ w.texts = texts
      /\ w.unreadable = x.unreadable /\ w.due = x.due /\ w.state = x.state
  BY DEF IxOK, IxShape, IxFields
<1> HIDE DEF w, S
<1>4. /\ DOMAIN z = IxFields /\ z.project = p /\ z.seq = x.seq
      /\ z.rev = x.rev /\ z.gen = x.gen + 1 /\ z.texts = texts
      /\ z.unreadable = x.unreadable /\ z.due = x.due /\ z.state = x.state
  BY <1>3 DEF Allocated, IxFields
<1>5. request.id = Identity(z)
  OBVIOUS
<1> HIDE DEF z, request
<1>6. /\ DOMAIN y = IxFields /\ y.project = p /\ y.seq = x.seq
      /\ y.rev = x.rev /\ y.gen = x.gen + 1 /\ y.texts = texts
      /\ y.unreadable = x.unreadable /\ y.due = x.due
      /\ y.state = Running(x.state, Identity(z)) /\ y.sched = request
  BY <1>2, <1>4 DEF IxFields
<1>7. Identity(y) = Identity(z)
  BY <1>4, <1>6 DEF Identity
<1>8. y.rev \in Nat /\ y.gen \in Nat /\ y.seq \in Nat
  BY <1>6 DEF IxOK, IxShape
<1>9. Identity(y) \in Id
  BY <1>6, <1>8 DEF Identity, Id
<1>10. StateOK(y.state)
  BY <1>6, RunningOK DEF IxOK, IxShape
<1> QED BY <1>5, <1>6, <1>7, <1>8, <1>9, <1>10 DEF IxOK, IxShape, Started

(* Either the text is indexed already, or a request for it is made.        *)
LEMMA UpdateOK ==
  ASSUME NEW x, IxOK(x), NEW p \in Project, NEW tree, NEW f, NEW text \in Text,
         NEW y, y = Update(x, p, tree, f, text)
  PROVE  \/ /\ f \in DOMAIN x.texts /\ x.texts[f] = text
            /\ y = EnsureProject(x, p)
         \/ /\ IxOK(y) /\ y.project = p /\ y.seq = x.seq + 1 /\ Started(y, x)
            /\ f \in DOMAIN y.texts /\ y.texts[f] = text /\ y.due = x.due
<1> DEFINE e == EnsureProject(x, p)
           texts == Over([g \in {f} |-> text], e.texts)
           known == tree \cup DOMAIN texts
           z == [e EXCEPT !.seq = @ + 1, !.srcRev[f] = @ + 1, !.rev = @ + 1,
                          !.ext = None, !.unreadable = @ \ {f}]
<1>1. /\ IxOK(e) /\ e.project = p /\ e.seq = x.seq /\ e.state = x.state
      /\ e.texts = x.texts /\ e.due = x.due
  BY EnsureOK
<1> HIDE DEF e
<1>2. CASE f \in DOMAIN e.texts /\ e.texts[f] = text
  BY <1>1, <1>2 DEF Update, e
<1>3. CASE ~(f \in DOMAIN e.texts /\ e.texts[f] = text)
  <2>1. y = Schedule(z, p, known, {f}, z.known \ known,
                     z.unreadable \cap known, texts)
    BY <1>3 DEF Update, e
  <2>2. /\ DOMAIN z = IxFields /\ z.project = p /\ z.seq = x.seq + 1
        /\ z.rev = e.rev + 1 /\ z.gen = e.gen /\ z.texts = e.texts
        /\ z.unreadable = e.unreadable \ {f} /\ z.due = x.due
        /\ z.state = x.state /\ z.sched = e.sched
    BY <1>1 DEF IxOK, IxShape, IxFields
  <2> HIDE DEF z
  <2>3. IxShape(z)
    BY <1>1, <2>2 DEF IxOK, IxShape
  <2>4. /\ DOMAIN texts = {f} \cup DOMAIN e.texts
        /\ \A g \in DOMAIN texts :
             texts[g] = IF g = f THEN text ELSE e.texts[g]
    BY DEF Over
  <2> HIDE DEF texts
  <2>5. \A g \in DOMAIN texts : texts[g] \in Text
    BY <1>1, <2>4 DEF IxOK, IxShape
  <2>6. z.unreadable \cap DOMAIN texts = {}
    BY <1>1, <2>2, <2>4 DEF IxOK, IxShape
  <2>7. /\ IxOK(y) /\ y.project = p /\ y.seq = z.seq /\ Started(y, z)
        /\ y.texts = texts /\ y.due = z.due
    BY <2>1, <2>2, <2>3, <2>5, <2>6, ScheduleOK
  <2> QED BY <2>2, <2>4, <2>7 DEF Started
<1> QED BY <1>2, <1>3

-----------------------------------------------------------------------------
(* IndexKeeper, when another project or none is shown, and otherwise.      *)
LEMMA KeepElsewhere ==
  ASSUME NEW x, IxOK(x), NEW old, NEW new, NEW refreshed \in BOOLEAN,
         new.project \in Project \cup {None}, new.project # old.project,
         new.active = None, NEW y, y = Keep(x, old, new, refreshed)
  PROVE  /\ IxOK(y) /\ y.project = None /\ y.seq > x.seq
         /\ y.state = NotRun
         /\ y.due => new.project # None
<1> DEFINE x1 == IF new.project # None THEN Invalidate(x, new.project) ELSE x
           x3 == Reset(x1)
<1>1. y = [x3 EXCEPT !.due = new.project # None /\ ~new.loading]
  BY DEF Keep
<1>2. IxOK(x1) /\ x1.seq >= x.seq
  <2>1. CASE new.project = None
    BY <2>1 DEF IxOK, IxShape
  <2>2. CASE new.project # None
    <3>1. new.project \in Project
      BY <2>2
    <3>2. IxOK(x1) /\ x1.seq = x.seq + 1
      BY <2>2, <3>1, InvalidateOK
    <3> QED BY <3>2 DEF IxOK, IxShape
  <2> QED BY <2>1, <2>2
<1> HIDE DEF x1
<1> PICK w : w = FreshRuntime(x1, None)
  OBVIOUS
<1>3. /\ DOMAIN w = IxFields /\ w.project = None /\ w.rev = 0 /\ w.gen = 0
      /\ w.seq = x1.seq /\ w.unreadable = {} /\ w.sched = None
  BY <1>2 DEF FreshRuntime, IxOK, IxShape, IxFields
<1>4. x3 = [w EXCEPT !.wproject = None, !.seq = @ + 1, !.texts = Nothing,
                     !.building = FALSE, !.state = NotRun]
  BY DEF Reset
<1> HIDE DEF x3
<1>5. /\ DOMAIN x3 = IxFields /\ x3.project = None /\ x3.rev = 0
      /\ x3.gen = 0 /\ x3.seq = x1.seq + 1 /\ x3.unreadable = {}
      /\ x3.sched = None /\ x3.texts = Nothing /\ x3.state = NotRun
  BY <1>3, <1>4 DEF IxFields
<1>6. /\ DOMAIN y = IxFields /\ y.project = None /\ y.rev = 0
      /\ y.gen = 0 /\ y.seq = x1.seq + 1 /\ y.unreadable = {}
      /\ y.sched = None /\ y.texts = Nothing /\ y.state = NotRun
      /\ y.due = (new.project # None /\ ~new.loading)
  BY <1>1, <1>5 DEF IxFields
<1>7. StateOK(NotRun)
  BY DEF StateOK, NotRun, StateFields, Statuses
<1>8. DOMAIN Nothing = {}
  BY DEF Nothing
<1>9. y.seq \in Nat /\ y.seq > x.seq
  BY <1>2, <1>6 DEF IxOK, IxShape
<1>10. y.due => new.project # None
  BY <1>6, Zenon
<1>11. IxOK(y)
  BY <1>6, <1>7, <1>8, <1>9 DEF IxOK, IxShape
<1> QED BY <1>6, <1>9, <1>10, <1>11

(* How the index y follows from x when the window of project p becomes new.*)
Untouched(y, x) ==
  /\ y.seq = x.seq /\ y.rev = x.rev /\ y.gen = x.gen
  /\ y.project = x.project /\ y.state = x.state
Restarted(y, x, p) ==
  y.seq > x.seq /\ y.project = p /\ Started(y, x)
Indexes(y, new) ==
  /\ new.active \in DOMAIN y.texts
  /\ y.texts[new.active] = Content(new)

Moved(old, new, refreshed) ==
  refreshed \/ new.project # old.project \/ MainOf(new) # MainOf(old)
Typed(old, new) ==
  /\ new.active # None
  /\ \/ new.active # old.active
     \/ Content(new) # Content(old)

LEMMA KeepHere ==
  ASSUME NEW x, IxOK(x), NEW old, NEW new, NEW refreshed \in BOOLEAN,
         NEW p \in Project, new.project = p, old.project = p,
         new.active # None => x.project = p /\ Content(new) \in Text,
         NEW y, y = Keep(x, old, new, refreshed)
  PROVE  /\ IxOK(y)
         /\ Untouched(y, x) \/ Restarted(y, x, p)
         /\ Moved(old, new, refreshed) => Restarted(y, x, p)
         /\ Typed(old, new) => Indexes(y, new)
         /\ Typed(old, new) /\ ~Indexes(x, new) => Restarted(y, x, p)
         /\ ~Typed(old, new) => /\ y.texts = x.texts
                                /\ x.project = p => y.unreadable = x.unreadable
<1> DEFINE x1 == IF Moved(old, new, refreshed) THEN Invalidate(x, p) ELSE x
           x2 == IF Typed(old, new)
                 THEN Update(x1, p, new.tree, new.active, Content(new))
                 ELSE x1
<1>1. y = IF Moved(old, new, refreshed) \/ new.loading # old.loading
          THEN [x2 EXCEPT !.due = new.project # None /\ ~new.loading]
          ELSE x2
  BY NoneAssumption DEF Keep, Moved, Typed
<1>2. /\ IxOK(x1) /\ x1.texts = x.texts
      /\ ~Moved(old, new, refreshed) => x1 = x
      /\ Moved(old, new, refreshed) => Restarted(x1, x, p)
      /\ x.project = p => x1.project = p /\ x1.unreadable = x.unreadable
  <2>1. CASE ~Moved(old, new, refreshed)
    BY <2>1
  <2>2. CASE Moved(old, new, refreshed)
    <3>1. x1 = Invalidate(x, p)
      BY <2>2
    <3>2. /\ IxOK(x1) /\ x1.project = p /\ x1.seq = x.seq + 1
          /\ Started(x1, x) /\ x1.texts = x.texts
          /\ x.project = p => x1.unreadable = x.unreadable
      BY <3>1, InvalidateOK
    <3> QED BY <2>2, <3>2 DEF IxOK, IxShape, Restarted
  <2> QED BY <2>1, <2>2
<1>3. x1.seq \in Nat /\ x.seq \in Nat /\ x1.seq >= x.seq
  BY <1>2 DEF IxOK, IxShape, Restarted
<1> HIDE DEF x1
<1>4. /\ IxOK(x2)
      /\ x2 = x1 \/ Restarted(x2, x1, p)
      /\ Typed(old, new) => Indexes(x2, new)
      /\ Typed(old, new) /\ ~Indexes(x, new) => Restarted(x2, x1, p)
      /\ ~Typed(old, new) => x2 = x1
  <2>1. CASE ~Typed(old, new)
    BY <1>2, <2>1
  <2>2. CASE Typed(old, new)
    <3>1. x2 = Update(x1, p, new.tree, new.active, Content(new))
      BY <2>2
    <3>2. x1.project = p /\ Content(new) \in Text
      BY <1>2, <2>2 DEF Typed
    <3>3. EnsureProject(x1, p) = x1
      BY <3>2 DEF EnsureProject
    <3> HIDE DEF x2
    <3>4. CASE /\ new.active \in DOMAIN x1.texts
               /\ x1.texts[new.active] = Content(new)
               /\ x2 = EnsureProject(x1, p)
      BY <1>2, <2>2, <3>3, <3>4 DEF Indexes
    <3>5. CASE /\ IxOK(x2) /\ x2.project = p /\ x2.seq = x1.seq + 1
               /\ Started(x2, x1) /\ new.active \in DOMAIN x2.texts
               /\ x2.texts[new.active] = Content(new)
      BY <1>3, <2>2, <3>5 DEF Indexes, Restarted
    <3> QED BY <1>2, <3>1, <3>2, <3>4, <3>5, UpdateOK
  <2> QED BY <2>1, <2>2
<1> HIDE DEF x2
<1>5. /\ y.seq = x2.seq /\ y.rev = x2.rev /\ y.gen = x2.gen
      /\ y.project = x2.project /\ y.state = x2.state /\ y.texts = x2.texts
      /\ y.unreadable = x2.unreadable /\ y.sched = x2.sched
      /\ DOMAIN y = IxFields
  BY <1>1, <1>4 DEF IxOK, IxShape, IxFields
<1>6. IxOK(y)
  BY <1>4, <1>5 DEF IxOK, IxShape
<1>7. Identity(y) = Identity(x2)
  BY <1>5 DEF Identity
<1>8. Restarted(x2, x1, p) => Restarted(y, x, p)
  <2> SUFFICES ASSUME Restarted(x2, x1, p) PROVE Restarted(y, x, p)
    OBVIOUS
  <2>1. y.seq > x.seq /\ y.project = p
    BY <1>3, <1>4, <1>5 DEF Restarted, IxOK, IxShape
  <2>2. Started(y, x)
    <3>1. y.state = Running(x1.state, Identity(y))
      BY <1>5, <1>7 DEF Restarted, Started
    <3>2. CASE x1 = x
      BY <3>1, <3>2 DEF Started
    <3>3. CASE Restarted(x1, x, p)
      <4>1. x1.state = Running(x.state, Identity(x1))
        BY <3>3 DEF Restarted, Started
      <4>2. Running(x1.state, Identity(y)) = Running(x.state, Identity(y))
        BY <4>1 DEF Running
      <4> QED BY <3>1, <4>2 DEF Started
    <3> QED BY <1>2, <3>2, <3>3
  <2> QED BY <2>1, <2>2 DEF Restarted
<1>9. x2 = x1 /\ Restarted(x1, x, p) => Restarted(y, x, p)
  BY <1>5, <1>7 DEF Restarted, Started
<1>10. Untouched(y, x) \/ Restarted(y, x, p)
  BY <1>2, <1>4, <1>5, <1>8, <1>9 DEF Untouched
<1>11. Moved(old, new, refreshed) => Restarted(y, x, p)
  BY <1>2, <1>4, <1>8, <1>9
<1>12. Typed(old, new) => Indexes(y, new)
  BY <1>4, <1>5 DEF Indexes
<1>13. ~Typed(old, new) => /\ y.texts = x.texts
                           /\ x.project = p => y.unreadable = x.unreadable
  BY <1>2, <1>4, <1>5
<1> QED BY <1>4, <1>6, <1>8, <1>10, <1>11, <1>12, <1>13

-----------------------------------------------------------------------------
(* Reads when what they rely on changes with their number, or not at all.  *)
SameProject(y, x) ==
  y.seq = x.seq /\ y.rev = x.rev /\ y.gen = x.gen /\ y.project = x.project

LEMMA OlderReads ==
  ASSUME Reads, reads' = reads, IxOK(ix), IxOK(ix)', ix'.seq > ix.seq
  PROVE  Reads'
<1>1. ASSUME NEW r \in reads PROVE ReadOK(r)' /\ r.seq # ix'.seq
  BY <1>1 DEF Reads, ReadOK, IxOK, IxShape
<1> QED BY <1>1 DEF Reads

LEMMA ReadsStay ==
  ASSUME Reads, reads' \subseteq reads, SameProject(ix', ix),
         files' = files, disk' = disk
  PROVE  Reads'
<1>1. Identity(ix') = Identity(ix)
  BY DEF SameProject, Identity
<1>2. ASSUME NEW r \in reads PROVE ReadOK(r)'
  BY <1>1, <1>2 DEF Reads, ReadOK, StillValid, SameProject
<1> QED BY <1>2 DEF Reads, SameProject

Own(x) == Current(x.state, Identity(x)) /\ AskedFor(x.state, Identity(x))

LEMMA OwnKept ==
  ASSUME NEW x, NEW y, NEW p, IxOK(x), Own(x),
         Untouched(y, x) \/ Restarted(y, x, p)
  PROVE  Own(y)
<1>1. CASE Untouched(y, x)
  <2>1. Identity(y) = Identity(x)
    BY <1>1 DEF Untouched, Identity
  <2> QED BY <1>1, <2>1 DEF Untouched, Own
<1>2. CASE Restarted(y, x, p)
  <2>1. y.state.status = "running" /\ y.state.id = Identity(y)
    BY <1>2, RunningOK DEF Restarted, Started, IxOK, IxShape
  <2> QED BY <2>1 DEF Own, Current, AskedFor
<1> QED BY <1>1, <1>2

(* A change of the window that stays with its project.                     *)
LEMMA HereStep ==
  ASSUME IInv, NEW refreshed \in BOOLEAN,
         files.project \in Project, files'.project = files.project,
         Changes(files', refreshed),
         files'.active # None => /\ ix.project = files.project
                                 /\ Content(files') \in Text,
         \/ ix.project = files.project \/ files'.tree = {}
         \/ Moved(files, files', refreshed),
         posted' = posted
  PROVE  /\ IxOK(ix)' /\ Owned' /\ BufferIsIndexed' /\ PostedOK(posted)'
         /\ Own(ix)'
         /\ Untouched(ix', ix) \/ ix'.seq > ix.seq
         /\ Moved(files, files', refreshed) => ix'.seq > ix.seq
         /\ Typed(files, files') /\ ~Indexes(ix, files') => ix'.seq > ix.seq
<1> DEFINE p == files.project
<1>1. ix' = Keep(ix, files, files', refreshed) /\ IxOK(ix)
  BY DEF Changes, IInv
<1>2. /\ IxOK(ix')
      /\ Untouched(ix', ix) \/ Restarted(ix', ix, p)
      /\ Moved(files, files', refreshed) => Restarted(ix', ix, p)
      /\ Typed(files, files') => Indexes(ix', files')
      /\ Typed(files, files') /\ ~Indexes(ix, files') => Restarted(ix', ix, p)
      /\ ~Typed(files, files') =>
           /\ ix'.texts = ix.texts
           /\ ix.project = p => ix'.unreadable = ix.unreadable
  BY <1>1, KeepHere
<1>3. Own(ix')
  BY <1>1, <1>2, OwnKept DEF IInv, Own
<1>4. Owned'
  <2>1. ix'.project \in {None, p}
    BY <1>2 DEF IInv, Owned, Untouched, Restarted
  <2>2. ix'.project = None =>
          ix'.state.id = None /\ ix'.state.status # "success"
    BY <1>2, NoneAssumption DEF IInv, Owned, Untouched, Restarted
  <2>3. files'.tree # {} => ix'.project = p
    BY <1>2 DEF Untouched, Restarted
  <2>4. files'.project # None
    BY NoneAssumption
  <2> QED BY <2>1, <2>2, <2>3, <2>4 DEF Owned
<1>5. BufferIsIndexed'
  <2> SUFFICES ASSUME files'.active \notin {None} \cup ix'.unreadable
               PROVE  Indexes(ix', files')
    BY DEF BufferIsIndexed, Indexes
  <2>1. CASE Typed(files, files')
    BY <1>2, <2>1
  <2>2. CASE ~Typed(files, files')
    <3>1. /\ files'.active = files.active
          /\ Content(files') = Content(files)
      BY <2>2 DEF Typed
    <3>2. ix'.texts = ix.texts /\ ix'.unreadable = ix.unreadable
      BY <1>2, <2>2
    <3>3. Indexes(ix, files)
      BY <3>1, <3>2 DEF IInv, BufferIsIndexed, Indexes
    <3> QED BY <3>1, <3>2, <3>3 DEF Indexes
  <2> QED BY <2>1, <2>2
<1>6. PostedOK(posted)'
  BY DEF IInv
<1> QED BY <1>2, <1>3, <1>4, <1>5, <1>6 DEF Restarted

-----------------------------------------------------------------------------
(* The steps that change the window.                                       *)
LEMMA DisksOK ==
  ASSUME Disks, NEW p \in Project
  PROVE  /\ disk[p] \in [DOMAIN disk[p] -> Text]
         /\ DOMAIN disk[p] \subseteq Path
         /\ StoredMain \in DOMAIN disk[p]
<1>1. PICK S \in SUBSET Path : disk[p] \in [S -> Text]
  BY DEF Disks
<1> QED BY <1>1 DEF Disks

LEMMA DiskChanged ==
  ASSUME Disks, NEW p \in Project, NEW there,
         there \in [DOMAIN there -> Text], DOMAIN there \subseteq Path,
         StoredMain \in DOMAIN there, disk' = [disk EXCEPT ![p] = there]
  PROVE  Disks'
<1>1. there \in UNION {[S -> Text] : S \in SUBSET Path}
  OBVIOUS
<1> QED BY <1>1 DEF Disks

LEMMA FlushedOK ==
  ASSUME Disks, Window, disk' = Flushed
  PROVE  Disks'
<1>1. CASE files.project = None
  BY <1>1 DEF Flushed, Disks
<1>2. CASE files.project # None
  <2> DEFINE p == files.project
             there == Over(files.buffer, disk[p])
  <2>1. p \in Project
    BY <1>2 DEF Window
  <2>2. disk' = [disk EXCEPT ![p] = there]
    BY <1>2 DEF Flushed
  <2>3. /\ disk[p] \in [DOMAIN disk[p] -> Text]
        /\ DOMAIN disk[p] \subseteq Path
        /\ StoredMain \in DOMAIN disk[p]
    BY <2>1, DisksOK
  <2>4. \A f \in DOMAIN files.buffer :
          files.buffer[f] \in Text /\ f \in DOMAIN disk[p]
    BY DEF Window
  <2>5. DOMAIN there = DOMAIN disk[p] /\ there \in [DOMAIN there -> Text]
    BY <2>3, <2>4 DEF Over
  <2> HIDE DEF there
  <2> QED BY <2>1, <2>2, <2>3, <2>5, DiskChanged
<1> QED BY <1>1, <1>2

(* Another project, or none, is shown.                                     *)
LEMMA ElsewhereStep ==
  ASSUME IInv, NEW refreshed \in BOOLEAN, Changes(files', refreshed),
         files'.project # files.project,
         files'.project \in Project \cup {None}, files'.active = None,
         files'.tree = {}, Disks', Window', reads' = reads, posted' = posted
  PROVE  IInv'
<1>1. ix' = Keep(ix, files, files', refreshed) /\ IxOK(ix)
  BY DEF Changes, IInv
<1>2. /\ IxOK(ix') /\ ix'.project = None /\ ix'.seq > ix.seq
      /\ ix'.state = NotRun
      /\ ix'.due => files'.project # None
  BY <1>1, KeepElsewhere
<1>3. Owned' /\ Own(ix')
  <2>1. ix'.state.id = None /\ ix'.state.status = "not_run"
    BY <1>2 DEF NotRun
  <2>2. Own(ix')
    BY <2>1 DEF Own, Current, AskedFor
  <2>3. ix'.due => files'.project # None
    BY <1>2
  <2> QED BY <1>2, <2>1, <2>2, <2>3 DEF Owned
<1>4. BufferIsIndexed'
  BY DEF BufferIsIndexed
<1>5. Reads'
  BY <1>1, <1>2, OlderReads DEF IInv
<1>6. PostedOK(posted)'
  BY DEF IInv
<1> QED BY <1>2, <1>3, <1>4, <1>5, <1>6 DEF IInv, Own

LEMMA OpenProjectStep ==
  ASSUME IInv, NEW p \in Project, OpenProject(p)
  PROVE  IInv'
<1>1. /\ disk' = Flushed /\ Changes(files', TRUE)
      /\ files' = [NoProject EXCEPT !.project = p, !.loading = TRUE,
                                    !.opening = files.opening + 1]
      /\ reads' = reads /\ posted' = posted
  BY DEF OpenProject, Changes
<1>2. /\ DOMAIN files' = FilesFields /\ files'.project = p
      /\ files'.tree = {} /\ files'.active = None
      /\ DOMAIN files'.buffer = {}
  BY <1>1 DEF NoProject, FilesFields, Nothing
<1>3. Disks'
  BY <1>1, FlushedOK DEF IInv
<1>4. Window'
  BY <1>2, NoneAssumption DEF Window
<1>5. CASE p # files.project
  BY <1>1, <1>2, <1>3, <1>4, <1>5, ElsewhereStep
<1>6. CASE p = files.project
  <2>1. Moved(files, files', TRUE)
    BY DEF Moved
  <2>2. /\ IxOK(ix)' /\ Owned' /\ BufferIsIndexed' /\ PostedOK(posted)'
        /\ Own(ix)' /\ ix'.seq > ix.seq
    BY <1>1, <1>2, <1>6, <2>1, HereStep
  <2>3. Reads'
    BY <1>1, <2>2, OlderReads DEF IInv
  <2> QED BY <1>3, <1>4, <2>2, <2>3 DEF IInv, Own
<1> QED BY <1>5, <1>6

LEMMA CloseProjectStep ==
  ASSUME IInv, CloseProject
  PROVE  IInv'
<1>1. /\ disk' = Flushed /\ Changes(files', TRUE)
      /\ files' = [NoProject EXCEPT !.opening = files.opening]
      /\ reads' = reads /\ posted' = posted /\ files.project # None
  BY DEF CloseProject, Changes
<1>2. /\ DOMAIN files' = FilesFields /\ files'.project = None
      /\ files'.tree = {} /\ files'.active = None /\ files'.loading = FALSE
      /\ DOMAIN files'.buffer = {}
  BY <1>1 DEF NoProject, FilesFields, Nothing
<1>3. Disks'
  BY <1>1, FlushedOK DEF IInv
<1>4. Window'
  BY <1>2 DEF Window
<1> QED BY <1>1, <1>2, <1>3, <1>4, ElsewhereStep

LEMMA TreeLoadsStep ==
  ASSUME IInv, TreeLoads
  PROVE  IInv'
<1>1. /\ Changes(files', TRUE) /\ files.loading
      /\ files' = [files EXCEPT !.tree = DOMAIN disk[files.project]]
      /\ disk' = disk /\ reads' = reads /\ posted' = posted
  BY DEF TreeLoads, Changes
<1>2. files.project \in Project /\ files.active = None
  BY <1>1 DEF IInv, Window
<1>3. /\ DOMAIN files' = FilesFields /\ files'.project = files.project
      /\ files'.tree = DOMAIN disk[files.project] /\ files'.active = None
      /\ files'.loading = files.loading /\ files'.buffer = files.buffer
  BY <1>1, <1>2 DEF IInv, Window, FilesFields
<1>4. Disks'
  BY <1>1 DEF IInv, Disks
<1>5. Window'
  BY <1>1, <1>2, <1>3, NoneAssumption DEF IInv, Window
<1>6. Moved(files, files', TRUE)
  BY DEF Moved
<1>7. /\ IxOK(ix)' /\ Owned' /\ BufferIsIndexed' /\ PostedOK(posted)'
      /\ Own(ix)' /\ ix'.seq > ix.seq
  BY <1>1, <1>2, <1>3, <1>6, HereStep
<1>8. Reads'
  BY <1>1, <1>7, OlderReads DEF IInv
<1> QED BY <1>4, <1>5, <1>7, <1>8 DEF IInv, Own

(* A read stays valid when a file is opened as it is on disk.              *)
LEMMA ReadsFollow ==
  ASSUME IInv, reads' = reads, IxOK(ix)',
         \/ ix'.seq > ix.seq
         \/ /\ Untouched(ix', ix)
            /\ files'.project = files.project /\ disk' = disk
            /\ \A f \in DOMAIN files.buffer :
                 /\ f \in DOMAIN files'.buffer
                 /\ files'.buffer[f] = files.buffer[f]
            /\ \A f \in DOMAIN files'.buffer :
                 \/ f \in DOMAIN files.buffer
                 \/ files'.buffer[f] = disk[files.project][f]
  PROVE  Reads'
<1>1. CASE ix'.seq > ix.seq
  BY <1>1, OlderReads DEF IInv
<1>2. CASE ~(ix'.seq > ix.seq)
  <2>1. Identity(ix') = Identity(ix)
    BY <1>2 DEF Untouched, Identity
  <2>2. ASSUME NEW r \in reads, r.seq = ix.seq PROVE StillValid(r)'
    <3>1. StillValid(r)
      BY <2>2 DEF IInv, Reads, ReadOK
    <3> QED BY <1>2, <2>1, <3>1 DEF StillValid, Untouched
  <2>3. ASSUME NEW r \in reads PROVE ReadOK(r)'
    BY <1>2, <2>2, <2>3 DEF IInv, Reads, ReadOK, Untouched
  <2> QED BY <1>2, <2>3 DEF IInv, Reads, Untouched
<1> QED BY <1>1, <1>2

(* What the steps below have in common: a file is shown, and the index     *)
(* follows.                                                                *)
LEMMA ShowStep ==
  ASSUME IInv, NEW refreshed \in BOOLEAN,
         files.tree # {}, files.project # None,
         files'.project = files.project,
         files'.active # None, Content(files') \in Text,
         Changes(files', refreshed), posted' = posted
  PROVE  /\ IxOK(ix)' /\ Owned' /\ BufferIsIndexed' /\ PostedOK(posted)'
         /\ Own(ix)'
         /\ Untouched(ix', ix) \/ ix'.seq > ix.seq
         /\ Moved(files, files', refreshed) => ix'.seq > ix.seq
         /\ Typed(files, files') /\ ~Indexes(ix, files') => ix'.seq > ix.seq
<1>1. files.project \in Project /\ ix.project = files.project
  BY DEF IInv, Window, Owned
<1> QED BY <1>1, HereStep

LEMMA MainOpensStep ==
  ASSUME IInv, MainOpens
  PROVE  IInv'
<1>1. /\ Changes(files', FALSE) /\ files.loading /\ files.tree # {}
      /\ files' = [files EXCEPT
                    !.active = StoredMain, !.loading = FALSE,
                    !.buffer = Only(disk[files.project], {StoredMain})]
      /\ disk' = disk /\ reads' = reads /\ posted' = posted
  BY DEF MainOpens, Changes
<1>2. /\ files.project \in Project /\ files.active = None
      /\ DOMAIN files.buffer = {} /\ files.tree = DOMAIN disk[files.project]
  BY <1>1 DEF IInv, Window
<1>3. /\ disk[files.project] \in [DOMAIN disk[files.project] -> Text]
      /\ StoredMain \in DOMAIN disk[files.project]
  BY <1>2, DisksOK DEF IInv
<1>4. /\ DOMAIN files' = FilesFields /\ files'.project = files.project
      /\ files'.tree = files.tree /\ files'.active = StoredMain
      /\ files'.loading = FALSE
      /\ files'.buffer = Only(disk[files.project], {StoredMain})
  BY <1>1 DEF IInv, Window, FilesFields
<1>5. /\ DOMAIN files'.buffer = {StoredMain}
      /\ files'.buffer[StoredMain] = disk[files.project][StoredMain]
  BY <1>3, <1>4 DEF Only
<1>6. StoredMain # None /\ files.project # None
  BY <1>2, PathAssumption, NoneAssumption
<1>7. Disks'
  BY <1>1 DEF IInv, Disks
<1>8. Window'
  BY <1>1, <1>2, <1>3, <1>4, <1>5, <1>6 DEF IInv, Window
<1>9. Content(files') \in Text
  BY <1>3, <1>4, <1>5 DEF Content
<1>10. /\ IxOK(ix)' /\ Owned' /\ BufferIsIndexed' /\ PostedOK(posted)'
       /\ Own(ix)'
       /\ Untouched(ix', ix) \/ ix'.seq > ix.seq
  BY <1>1, <1>4, <1>6, <1>9, ShowStep
<1>11. Reads'
  BY <1>1, <1>2, <1>4, <1>5, <1>10, ReadsFollow
<1> QED BY <1>7, <1>8, <1>10, <1>11 DEF IInv, Own

LEMMA EditStep ==
  ASSUME IInv, Edit
  PROVE  IInv'
<1>1. /\ Changes(files', FALSE) /\ files.active # None
      /\ files' = [files EXCEPT !.buffer[files.active] = 1 - @]
      /\ disk' = disk /\ reads' = reads /\ posted' = posted
  BY DEF Edit, Changes
<1>2. /\ files.project \in Project /\ files.project # None
      /\ files.active \in DOMAIN files.buffer
      /\ files.tree = DOMAIN disk[files.project]
  BY <1>1 DEF IInv, Window
<1>3. files.tree # {}
  BY <1>2, DisksOK DEF IInv
<1>4. /\ DOMAIN files' = FilesFields /\ files'.project = files.project
      /\ files'.tree = files.tree /\ files'.active = files.active
      /\ files'.loading = files.loading
      /\ files'.buffer =
           [files.buffer EXCEPT
              ![files.active] = 1 - files.buffer[files.active]]
  BY <1>1 DEF IInv, Window, FilesFields
<1>5. /\ DOMAIN files'.buffer = DOMAIN files.buffer
      /\ \A f \in DOMAIN files.buffer : f # files.active =>
           files'.buffer[f] = files.buffer[f]
      /\ files'.buffer[files.active] = 1 - files.buffer[files.active]
  BY <1>2, <1>4
<1>6. files.buffer[files.active] \in Text
  BY <1>2 DEF IInv, Window
<1>7. Content(files') \in Text /\ Content(files') # Content(files)
  BY <1>4, <1>5, <1>6 DEF Content, Text
<1>8. Disks'
  BY <1>1 DEF IInv, Disks
<1>9. \A f \in DOMAIN files'.buffer :
        files'.buffer[f] \in Text /\ f \in DOMAIN disk[files.project]
  BY <1>4, <1>5, <1>7 DEF IInv, Window, Content
<1>10. Window'
  BY <1>1, <1>4, <1>5, <1>9 DEF IInv, Window
<1>11. Typed(files, files')
  BY <1>1, <1>4, <1>7 DEF Typed
<1>12. ~Indexes(ix, files')
  BY <1>1, <1>4, <1>7 DEF IInv, IxOK, IxShape, BufferIsIndexed, Indexes
<1>13. /\ IxOK(ix)' /\ Owned' /\ BufferIsIndexed' /\ PostedOK(posted)'
       /\ Own(ix)' /\ ix'.seq > ix.seq
  BY <1>1, <1>2, <1>3, <1>4, <1>7, <1>11, <1>12, ShowStep
<1>14. Reads'
  BY <1>1, <1>13, ReadsFollow
<1> QED BY <1>8, <1>10, <1>13, <1>14 DEF IInv, Own

LEMMA SwitchTabStep ==
  ASSUME IInv, NEW f \in Path, SwitchTab(f)
  PROVE  IInv'
<1>1. /\ Changes(files', FALSE) /\ files.active # None
      /\ f \in DOMAIN disk[files.project]
      /\ files' = [files EXCEPT
                    !.active = f,
                    !.buffer = Over(@, Only(disk[files.project], {f}))]
      /\ disk' = disk /\ reads' = reads /\ posted' = posted
  BY DEF SwitchTab, Changes
<1>2. /\ files.project \in Project /\ files.project # None
      /\ files.tree = DOMAIN disk[files.project]
      /\ StoredMain \in DOMAIN files.buffer
  BY <1>1 DEF IInv, Window
<1>3. disk[files.project] \in [DOMAIN disk[files.project] -> Text]
  BY <1>2, DisksOK DEF IInv
<1>4. /\ DOMAIN files' = FilesFields /\ files'.project = files.project
      /\ files'.tree = files.tree /\ files'.active = f
      /\ files'.loading = files.loading
      /\ files'.buffer = Over(files.buffer, Only(disk[files.project], {f}))
  BY <1>1 DEF IInv, Window, FilesFields
<1>5. /\ DOMAIN files'.buffer = DOMAIN files.buffer \cup {f}
      /\ \A g \in DOMAIN files.buffer : files'.buffer[g] = files.buffer[g]
      /\ f \in DOMAIN files.buffer \/ files'.buffer[f] = disk[files.project][f]
  BY <1>1, <1>4 DEF Over, Only
<1>6. \A g \in DOMAIN files'.buffer :
        files'.buffer[g] \in Text /\ g \in DOMAIN disk[files.project]
  BY <1>1, <1>3, <1>5 DEF IInv, Window
<1>7. f # None /\ files.tree # {}
  BY <1>1, <1>2, NoneAssumption
<1>8. Disks'
  BY <1>1 DEF IInv, Disks
<1>9. Window'
  BY <1>1, <1>2, <1>4, <1>5, <1>6, <1>7 DEF IInv, Window
<1>10. Content(files') \in Text
  BY <1>4, <1>5, <1>6 DEF Content
<1>11. /\ IxOK(ix)' /\ Owned' /\ BufferIsIndexed' /\ PostedOK(posted)'
       /\ Own(ix)'
       /\ Untouched(ix', ix) \/ ix'.seq > ix.seq
  BY <1>1, <1>2, <1>4, <1>7, <1>10, ShowStep
<1>12. Reads'
  BY <1>1, <1>4, <1>5, <1>11, ReadsFollow
<1> QED BY <1>8, <1>9, <1>11, <1>12 DEF IInv, Own

LEMMA TreeChangesStep ==
  ASSUME IInv, NEW f \in Path, TreeChanges(f)
  PROVE  IInv'
<1> DEFINE there == disk[files.project]
<1>1. PICK now \in {Without(there, {f})} \cup
                   {Over([g \in {f} |-> t], there) : t \in Text} :
        /\ disk' = [disk EXCEPT ![files.project] = now]
        /\ Changes([files EXCEPT !.tree = DOMAIN now], TRUE)
  BY DEF TreeChanges
<1>2. /\ files.active # None /\ f \notin DOMAIN files.buffer
      /\ Changes(files', TRUE)
      /\ files' = [files EXCEPT !.tree = DOMAIN now]
      /\ reads' = reads /\ posted' = posted
  BY <1>1 DEF TreeChanges, Changes
<1>3. /\ files.project \in Project /\ files.project # None
      /\ files.tree = DOMAIN there /\ files.active \in DOMAIN files.buffer
      /\ StoredMain \in DOMAIN files.buffer
      /\ \A g \in DOMAIN files.buffer :
           files.buffer[g] \in Text /\ g \in DOMAIN there
  BY <1>2 DEF IInv, Window
<1>4. there \in [DOMAIN there -> Text] /\ DOMAIN there \subseteq Path
  BY <1>3, DisksOK DEF IInv
<1> HIDE DEF there
<1>5. /\ now \in [DOMAIN now -> Text] /\ DOMAIN now \subseteq Path
      /\ DOMAIN there \ {f} \subseteq DOMAIN now
  <2>1. CASE now = Without(there, {f})
    BY <1>4, <2>1 DEF Without, Only
  <2>2. ASSUME NEW t \in Text, now = Over([g \in {f} |-> t], there)
        PROVE  /\ now \in [DOMAIN now -> Text] /\ DOMAIN now \subseteq Path
               /\ DOMAIN there \ {f} \subseteq DOMAIN now
    BY <1>4, <2>2 DEF Over
  <2> QED BY <1>1, <2>1, <2>2
<1>6. DOMAIN files.buffer \subseteq DOMAIN now /\ StoredMain \in DOMAIN now
  BY <1>2, <1>3, <1>5
<1>7. Disks'
  BY <1>1, <1>3, <1>5, <1>6, DiskChanged DEF IInv
<1>8. disk'[files.project] = now
  BY <1>1, <1>3 DEF IInv, Disks
<1>9. /\ DOMAIN files' = FilesFields /\ files'.project = files.project
      /\ files'.tree = DOMAIN now /\ files'.active = files.active
      /\ files'.loading = files.loading /\ files'.buffer = files.buffer
  BY <1>2 DEF IInv, Window, FilesFields
<1>10. Window'
  BY <1>2, <1>3, <1>6, <1>8, <1>9 DEF IInv, Window
<1>11. Content(files') \in Text /\ files.tree # {}
  BY <1>3, <1>9 DEF Content
<1>12. Moved(files, files', TRUE)
  BY DEF Moved
<1>13. /\ IxOK(ix)' /\ Owned' /\ BufferIsIndexed' /\ PostedOK(posted)'
       /\ Own(ix)' /\ ix'.seq > ix.seq
  BY <1>2, <1>3, <1>9, <1>11, <1>12, ShowStep
<1>14. Reads'
  BY <1>2, <1>13, ReadsFollow
<1> QED BY <1>7, <1>10, <1>13, <1>14 DEF IInv, Own

-----------------------------------------------------------------------------
(* The steps of the index and of the worker leave the window alone.        *)
LEMMA WindowStays ==
  ASSUME IInv, files' = files, disk' = disk
  PROVE  Disks' /\ Window'
<1>1. Disks'
  BY DEF IInv, Disks
<1>2. Window'
  BY DEF IInv, Window
<1> QED BY <1>1, <1>2

(* Such a step that is not a rebuild either.                               *)
LEMMA IndexStep ==
  ASSUME IInv, files' = files, disk' = disk, reads' = reads, IxOK(ix'),
         SameProject(ix', ix), ix'.texts = ix.texts,
         ix'.unreadable = ix.unreadable, ix'.due = ix.due,
         ix'.state.id = ix.state.id, Current(ix'.state, Identity(ix)),
         PostedOK(posted')
  PROVE  IInv'
<1>1. Disks' /\ Window'
  BY WindowStays
<1>2. Reads'
  BY ReadsStay DEF IInv
<1>3. Identity(ix') = Identity(ix)
  BY DEF SameProject, Identity
<1>4. Own(ix')
  BY <1>3 DEF IInv, Own, AskedFor
<1>5. BufferIsIndexed'
  BY DEF IInv, BufferIsIndexed, Content
<1>6. Owned'
  <2>1. ix'.project = None => ix'.state.status # "success"
    <3> SUFFICES ASSUME ix'.project = None, ix'.state.status = "success"
                 PROVE  FALSE
      OBVIOUS
    <3>1. ix'.state.id = None
      BY DEF IInv, Owned, SameProject
    <3>2. ix'.state.id = Identity(ix)
      BY DEF Current
    <3> QED BY <3>1, <3>2, IdentityOK DEF IInv
  <2> QED BY <2>1 DEF IInv, Owned, SameProject
<1> QED BY <1>1, <1>2, <1>4, <1>5, <1>6 DEF IInv, Own

LEMMA StartRebuildStep ==
  ASSUME IInv, StartRebuild
  PROVE  IInv'
<1> DEFINE p == files.project
           w == [ix EXCEPT !.seq = @ + 1]
           e == EnsureProject(w, p)
<1> PICK r :
      r = [seq |-> e.seq, project |-> p, known |-> files.tree,
           before |-> e.state, buffer |-> Only(files.buffer, files.tree)]
  OBVIOUS
<1>1. /\ ix.due /\ reads' = reads \cup {r}
      /\ ix' = [e EXCEPT !.due = FALSE, !.building = TRUE,
                         !.state = Running(@, @.id)]
      /\ files' = files /\ disk' = disk /\ posted' = posted
  BY DEF StartRebuild
<1>2. p \in Project /\ p # None
  BY <1>1 DEF IInv, Owned, Window
<1>3. /\ DOMAIN w = IxFields /\ w.seq = ix.seq + 1 /\ w.rev = ix.rev
      /\ w.gen = ix.gen /\ w.project = ix.project /\ w.texts = ix.texts
      /\ w.unreadable = ix.unreadable /\ w.sched = ix.sched
      /\ w.state = ix.state
  BY DEF IInv, IxOK, IxShape, IxFields
<1>4. IxOK(w)
  BY <1>3 DEF IInv, IxOK, IxShape
<1> HIDE DEF w
<1>5. /\ IxOK(e) /\ e.project = p /\ e.seq = ix.seq + 1
      /\ e.state = ix.state /\ e.texts = ix.texts
      /\ ix.project = p => e = w
  BY <1>2, <1>3, <1>4, EnsureOK
<1> HIDE DEF e
<1>6. /\ DOMAIN ix' = IxFields /\ ix'.project = p /\ ix'.seq = ix.seq + 1
      /\ ix'.rev = e.rev /\ ix'.gen = e.gen /\ ix'.texts = ix.texts
      /\ ix'.unreadable = e.unreadable /\ ix'.sched = e.sched
      /\ ix'.state = Running(ix.state, ix.state.id) /\ ix'.due = FALSE
  BY <1>1, <1>5 DEF IxOK, IxShape, IxFields
<1>7. /\ StateOK(ix'.state) /\ ix'.state.status = "running"
      /\ ix'.state.id = ix.state.id
  BY <1>6, RunningOK DEF IInv, IxOK, IxShape
<1>8. IxOK(ix')
  BY <1>5, <1>6, <1>7 DEF IxOK, IxShape
<1>9. ix.project = p => Identity(ix') = Identity(ix)
  BY <1>3, <1>5, <1>6 DEF Identity
<1>10. ix.project # p => ix.state.id = None /\ ix.state.status # "success"
  BY DEF IInv, Owned
<1>11. Own(ix')
  BY <1>7, <1>9, <1>10 DEF IInv, Own, Current, AskedFor
<1>12. Owned'
  <2>1. ix'.project # None /\ files'.project = p
    BY <1>1, <1>2, <1>6
  <2>2. ~ix'.due
    BY <1>6
  <2> QED BY <1>6, <2>1, <2>2 DEF Owned
<1>13. BufferIsIndexed'
  <2> SUFFICES ASSUME files.active # None, files.active \notin ix'.unreadable
               PROVE  Indexes(ix', files)
    BY <1>1 DEF BufferIsIndexed, Indexes, Content
  <2>1. files.tree # {}
    BY <1>2, DisksOK DEF IInv, Window
  <2>2. ix'.unreadable = ix.unreadable
    BY <1>3, <1>5, <1>6, <2>1 DEF IInv, Owned
  <2> QED BY <1>6, <2>2 DEF IInv, BufferIsIndexed, Indexes
<1>14. ReadOK(r)'
  <2>1. /\ r.seq = ix.seq + 1 /\ r.project = p /\ r.known = files.tree
        /\ r.before = ix.state
        /\ r.buffer = Only(files.buffer, files.tree)
    BY <1>5
  <2>2. /\ DOMAIN r.buffer = files.tree \cap DOMAIN files.buffer
        /\ \A f \in DOMAIN r.buffer : r.buffer[f] = files.buffer[f]
    BY <2>1 DEF Only
  <2>3. Current(r.before, Identity(ix'))
    BY <1>9, <1>10, <2>1 DEF IInv, Current
  <2>4. StillValid(r)'
    BY <1>1, <1>2, <1>6, <2>1, <2>2, <2>3 DEF StillValid
  <2>5. StateOK(r.before) /\ r.seq \in Nat
    BY <2>1 DEF IInv, IxOK, IxShape
  <2> QED BY <1>6, <2>1, <2>4, <2>5 DEF ReadOK
<1>15. Reads'
  <2>1. r.seq = ix.seq + 1
    BY <1>5
  <2>2. ASSUME NEW q \in reads PROVE ReadOK(q)' /\ q.seq # ix'.seq
    BY <1>6, <2>2 DEF IInv, Reads, ReadOK, IxOK, IxShape
  <2> QED BY <1>1, <1>14, <2>2 DEF Reads
<1>16. PostedOK(posted')
  BY <1>1 DEF IInv
<1> QED BY <1>1, <1>8, <1>11, <1>12, <1>13, <1>15, <1>16, WindowStays
        DEF IInv, Own

(* The sequence of posted requests.                                        *)
LEMMA EmptyOK == PostedOK(<<>>)
<1> PICK id : id = [project |-> None, rev |-> 0, gen |-> 0]
  OBVIOUS
<1> PICK e : e = [request |-> [id |-> id]]
  OBVIOUS
<1>1. Entry(e)
  BY DEF Entry, Id
<1>2. PICK q : q = <<>>
  OBVIOUS
<1>3. PICK S : q \in Seq(S) /\ \A x \in S : Entry(x)
  <2>1. q \in Seq({e}) /\ \A x \in {e} : Entry(x)
    BY <1>1, <1>2
  <2> QED BY <2>1
<1>4. PostedOK(q)
  BY <1>3 DEF PostedOK
<1> QED BY <1>2, <1>4

LEMMA AppendOK ==
  ASSUME NEW q, PostedOK(q), NEW e, Entry(e)
  PROVE  PostedOK(Append(q, e))
<1>1. PICK S : q \in Seq(S) /\ \A x \in S : Entry(x)
  BY DEF PostedOK
<1>2. Append(q, e) \in Seq(S \cup {e})
  BY <1>1
<1> QED BY <1>1, <1>2 DEF PostedOK

LEMMA TailOK ==
  ASSUME NEW q, PostedOK(q), q # <<>>
  PROVE  PostedOK(Tail(q)) /\ q[1].request.id \in Id
<1>1. PICK S : q \in Seq(S) /\ \A x \in S : Entry(x)
  BY DEF PostedOK
<1>2. Tail(q) \in Seq(S) /\ q[1] \in S
  BY <1>1
<1> QED BY <1>1, <1>2 DEF PostedOK, Entry

LEMMA AnswerOK ==
  ASSUME NEW q, PostedOK(q), NEW n \in DOMAIN q, NEW a
  PROVE  PostedOK([q EXCEPT ![n].answer = a])
<1>1. PICK S : q \in Seq(S) /\ \A x \in S : Entry(x)
  BY DEF PostedOK
<1> DEFINE e == [q[n] EXCEPT !.answer = a]
<1>2. Entry(q[n])
  BY <1>1
<1>3. Entry(e)
  BY <1>2 DEF Entry
<1>4. [q EXCEPT ![n].answer = a] \in Seq(S \cup {e})
  BY <1>1
<1> QED BY <1>1, <1>2, <1>3, <1>4 DEF PostedOK

-----------------------------------------------------------------------------
(* What a read brings that is still valid.                                 *)
Brought(r, bad) == Only(Over(r.buffer, disk[r.project]), r.known \ bad)

LEMMA BroughtOK ==
  ASSUME IInv, NEW r \in reads, r.seq = ix.seq, files.project = r.project,
         files.tree = r.known, NEW bad \in Unreadable(r),
         NEW texts, texts = Brought(r, bad)
  PROVE  /\ \A f \in DOMAIN texts : texts[f] \in Text
         /\ files.active \notin {None} \cup (r.known \ DOMAIN texts) =>
              /\ files.active \in DOMAIN texts
              /\ texts[files.active] = Content(files)
<1> DEFINE p == files.project
<1>1. StillValid(r)
  BY DEF IInv, Reads, ReadOK
<1>2. p \in Project
  BY <1>1 DEF IInv, Window, StillValid
<1>3. disk[p] \in [DOMAIN disk[p] -> Text]
  BY <1>2, DisksOK DEF IInv
<1>4. /\ DOMAIN texts =
           (r.known \ bad) \cap (DOMAIN r.buffer \cup DOMAIN disk[p])
      /\ \A f \in DOMAIN texts :
           texts[f] = IF f \in DOMAIN r.buffer THEN r.buffer[f] ELSE disk[p][f]
  BY DEF Brought, Only, Over
<1>5. \A f \in DOMAIN texts : texts[f] \in Text
  <2> SUFFICES ASSUME NEW f \in DOMAIN texts PROVE texts[f] \in Text
    OBVIOUS
  <2>1. CASE f \in DOMAIN r.buffer
    <3>1. f \in DOMAIN files.buffer /\ texts[f] = files.buffer[f]
      BY <1>1, <1>4, <2>1 DEF StillValid
    <3> QED BY <3>1 DEF IInv, Window
  <2>2. CASE f \notin DOMAIN r.buffer
    BY <1>3, <1>4, <2>2
  <2> QED BY <2>1, <2>2
<1>6. ASSUME files.active # None, files.active \notin r.known \ DOMAIN texts
      PROVE  /\ files.active \in DOMAIN texts
             /\ texts[files.active] = Content(files)
  <2>1. /\ files.active \in DOMAIN files.buffer
        /\ files.active \in DOMAIN disk[p] /\ files.tree = DOMAIN disk[p]
    BY <1>6 DEF IInv, Window
  <2>2. files.active \in DOMAIN texts
    BY <1>6, <2>1
  <2>3. texts[files.active] = files.buffer[files.active]
    BY <1>1, <1>4, <2>1, <2>2 DEF StillValid
  <2> QED BY <2>2, <2>3 DEF Content
<1> QED BY <1>5, <1>6

(* The index after such a read, whose request, if any, is still to be      *)
(* posted.                                                                 *)
LEMMA LoadedOK ==
  ASSUME IInv, NEW r \in reads, r.seq = ix.seq, files.project = r.project,
         files.tree = r.known, NEW bad \in Unreadable(r),
         NEW x, x = Loaded(r, bad)
  PROVE  /\ IxOK(x) /\ x.project = ix.project /\ x.seq = ix.seq
         /\ x.due = ix.due /\ Own(x)
         /\ x.texts = Brought(r, bad)
         /\ x.unreadable = r.known \ DOMAIN Brought(r, bad)
         /\ x.gen # ix.gen => x.sched.id \in Id
<1> PICK texts : texts = Brought(r, bad)
  OBVIOUS
<1> DEFINE changed == {f \in DOMAIN texts :
                         \/ f \notin DOMAIN ix.texts
                         \/ texts[f] # ix.texts[f]
                         \/ ix.srcRev[f] = 0}
           removed == DOMAIN ix.texts \ DOMAIN texts
           unread == r.known \ DOMAIN texts
           isNew == \/ ix.rev = 0
                    \/ changed \cup removed # {}
                    \/ unread # ix.unreadable
                    \/ r.known # ix.signature
           z == [ix EXCEPT
                  !.srcRev =
                    [f \in Path |->
                       @[f] + (IF f \in changed THEN 1 ELSE 0)
                            + (IF f \in unread \ ix.unreadable THEN 1 ELSE 0)
                            + (IF f \in removed THEN 1 ELSE 0)],
                  !.unreadable = unread, !.signature = r.known]
           y == IF isNew THEN [z EXCEPT !.rev = @ + 1, !.ext = None] ELSE z
           send == IF z.needsReset \/ z.wproject # r.project THEN DOMAIN texts
                   ELSE changed
           restored == /\ ~isNew
                       /\ r.before.status = "success" /\ ~r.before.stale
                       /\ ~ix.needsReset
<1>1. x = IF restored
          THEN [z EXCEPT !.texts = texts, !.building = FALSE,
                         !.state = r.before]
          ELSE Schedule(y, r.project, r.known, send, y.known \ r.known,
                        unread, texts)
  BY DEF Loaded, Brought
<1>2. /\ StillValid(r) /\ StateOK(r.before) /\ r.project \in Project
      /\ IxOK(ix)
  BY DEF IInv, Reads, ReadOK, Window, StillValid
<1>3. \A f \in DOMAIN texts : texts[f] \in Text
  BY BroughtOK
<1>4. unread \cap DOMAIN texts = {}
  OBVIOUS
<1> HIDE DEF changed, removed, unread, send
<1>5. /\ DOMAIN z = IxFields /\ z.project = ix.project /\ z.rev = ix.rev
      /\ z.gen = ix.gen /\ z.seq = ix.seq /\ z.texts = ix.texts
      /\ z.unreadable = unread /\ z.sched = ix.sched /\ z.due = ix.due
      /\ z.state = ix.state
  BY <1>2 DEF IxOK, IxShape, IxFields
<1> HIDE DEF z
<1>6. CASE restored
  <2>1. x = [z EXCEPT !.texts = texts, !.building = FALSE, !.state = r.before]
    BY <1>1, <1>6
  <2>2. /\ DOMAIN x = IxFields /\ x.project = ix.project /\ x.rev = ix.rev
        /\ x.gen = ix.gen /\ x.seq = ix.seq /\ x.texts = texts
        /\ x.unreadable = unread /\ x.sched = ix.sched /\ x.due = ix.due
        /\ x.state = r.before
    BY <1>5, <2>1 DEF IxFields
  <2>3. Identity(x) = Identity(ix)
    BY <2>2 DEF Identity
  <2>4. Own(x)
    BY <1>2, <1>6, <2>2, <2>3 DEF StillValid, Own, Current, AskedFor
  <2>5. IxOK(x)
    BY <1>2, <1>3, <1>4, <2>2 DEF IxOK, IxShape
  <2> QED BY <2>2, <2>4, <2>5 DEF unread
<1>7. CASE ~restored
  <2>1. x = Schedule(y, r.project, r.known, send, y.known \ r.known, unread,
                     texts)
    BY <1>1, <1>7
  <2> HIDE DEF isNew, restored
  <2>2. /\ DOMAIN y = IxFields /\ y.project = ix.project /\ y.rev \in Nat
        /\ y.gen = ix.gen /\ y.seq = ix.seq /\ y.texts = ix.texts
        /\ y.unreadable = unread /\ y.sched = ix.sched /\ y.due = ix.due
        /\ y.state = ix.state
    <3>1. CASE isNew
      BY <1>2, <1>5, <3>1 DEF IxOK, IxShape, IxFields
    <3>2. CASE ~isNew
      BY <1>2, <1>5, <3>2 DEF IxOK, IxShape
    <3> QED BY <3>1, <3>2
  <2> HIDE DEF y
  <2>3. IxShape(y) /\ y.project = r.project
    BY <1>2, <2>2 DEF IxOK, IxShape, StillValid
  <2>4. /\ IxOK(x) /\ x.project = r.project /\ x.seq = y.seq /\ Started(x, y)
        /\ x.rev = y.rev /\ x.gen = y.gen + 1
        /\ x.texts = texts /\ x.unreadable = y.unreadable /\ x.due = y.due
        /\ x.sched.id \in Id
    BY <1>2, <1>3, <1>4, <2>1, <2>2, <2>3, ScheduleOK
  <2>5. x.state.status = "running" /\ x.state.id = Identity(x)
    BY <2>3, <2>4, RunningOK DEF Started, IxShape
  <2>6. Own(x)
    BY <2>5 DEF Own, Current, AskedFor
  <2> QED BY <1>2, <2>2, <2>4, <2>6 DEF unread, StillValid
<1> QED BY <1>6, <1>7

LEMMA RebuildReadsStep ==
  ASSUME IInv, NEW r \in reads, NEW bad \in Unreadable(r), RebuildReads(r, bad)
  PROVE  IInv'
<1>1. /\ reads' = reads \ {r} /\ files' = files /\ disk' = disk
  BY DEF RebuildReads
<1>2. Disks' /\ Window'
  BY <1>1, WindowStays
<1>3. CASE Abandoned(r)
  <2>1. ix' = ix /\ posted' = posted
    BY <1>3 DEF RebuildReads
  <2>2. Reads'
    BY <1>1, <2>1, ReadsStay DEF IInv, SameProject
  <2> QED BY <1>1, <1>2, <2>1, <2>2
          DEF IInv, Owned, BufferIsIndexed, Content
<1>4. CASE ~Abandoned(r)
  <2>1. /\ r.seq = ix.seq /\ files.project = r.project
        /\ files.tree = r.known
    BY <1>4 DEF Abandoned
  <2> PICK x : x = Loaded(r, bad)
    OBVIOUS
  <2>2. IF x.gen = ix.gen THEN ix' = x /\ posted' = posted
        ELSE Post(x)
    BY <1>4 DEF RebuildReads
  <2>3. /\ IxOK(x) /\ x.project = ix.project /\ x.seq = ix.seq
        /\ x.due = ix.due /\ Own(x)
        /\ x.texts = Brought(r, bad)
        /\ x.unreadable = r.known \ DOMAIN Brought(r, bad)
        /\ x.gen # ix.gen => x.sched.id \in Id
    BY <2>1, LoadedOK
  <2>4. /\ IxOK(ix') /\ ix'.project = ix.project /\ ix'.seq = ix.seq
        /\ ix'.due = ix.due /\ Own(ix')
        /\ ix'.texts = x.texts /\ ix'.unreadable = x.unreadable
        /\ PostedOK(posted')
    <3>1. CASE x.gen = ix.gen
      BY <2>2, <2>3, <3>1 DEF IInv
    <3>2. CASE x.gen # ix.gen
      <4> PICK e : e = [request |-> x.sched, answer |-> None,
                        opening |-> files.opening]
        OBVIOUS
      <4>1. ix' = [x EXCEPT !.sched = None] /\ posted' = Append(posted, e)
        BY <2>2, <3>2 DEF Post
      <4>2. Entry(e)
        BY <2>3, <3>2 DEF Entry
      <4>3. PostedOK(posted')
        BY <4>1, <4>2, AppendOK DEF IInv
      <4>4. /\ DOMAIN ix' = IxFields /\ ix'.project = x.project
            /\ ix'.rev = x.rev /\ ix'.gen = x.gen /\ ix'.seq = x.seq
            /\ ix'.texts = x.texts /\ ix'.unreadable = x.unreadable
            /\ ix'.sched = None /\ ix'.due = x.due /\ ix'.state = x.state
        BY <2>3, <4>1 DEF IxOK, IxShape, IxFields
      <4>5. IxOK(ix') /\ Own(ix')
        BY <2>3, <4>4 DEF IxOK, IxShape, Own, Identity
      <4> QED BY <2>3, <4>3, <4>4, <4>5
    <3> QED BY <3>1, <3>2
  <2>5. ix.project # None
    BY <2>1 DEF IInv, Reads, ReadOK, StillValid
  <2>6. Owned'
    BY <1>1, <2>4, <2>5 DEF IInv, Owned
  <2>7. BufferIsIndexed'
    BY <1>1, <2>1, <2>3, <2>4, BroughtOK DEF BufferIsIndexed, Content
  <2>8. Reads'
    <3>1. ASSUME NEW q \in reads' PROVE ReadOK(q)' /\ q.seq # ix'.seq
      BY <1>1, <2>1, <2>4, <3>1 DEF IInv, Reads, ReadOK
    <3> QED BY <3>1 DEF Reads
  <2> QED BY <1>2, <2>4, <2>6, <2>7, <2>8 DEF IInv, Own
<1> QED BY <1>3, <1>4

-----------------------------------------------------------------------------
(* Requests, answers and contributions.                                    *)
LEMMA DispatchStep ==
  ASSUME IInv, Dispatch
  PROVE  IInv'
<1> PICK e : e = [request |-> ix.sched, answer |-> None,
                  opening |-> files.opening]
  OBVIOUS
<1>1. /\ ix' = [ix EXCEPT !.sched = None] /\ posted' = Append(posted, e)
      /\ ix.sched # None
      /\ files' = files /\ disk' = disk /\ reads' = reads
  BY DEF Dispatch, Post
<1>2. Entry(e)
  BY <1>1 DEF IInv, IxOK, IxShape, Entry
<1>3. PostedOK(posted')
  BY <1>1, <1>2, AppendOK DEF IInv
<1>4. /\ DOMAIN ix' = IxFields /\ SameProject(ix', ix)
      /\ ix'.texts = ix.texts /\ ix'.unreadable = ix.unreadable
      /\ ix'.sched = None /\ ix'.due = ix.due /\ ix'.state = ix.state
  BY <1>1 DEF IInv, IxOK, IxShape, IxFields, SameProject
<1>5. IxOK(ix')
  BY <1>4 DEF IInv, IxOK, IxShape, SameProject
<1>6. ix'.state.id = ix.state.id /\ Current(ix'.state, Identity(ix))
  BY <1>4 DEF IInv
<1> QED BY <1>1, <1>3, <1>4, <1>5, <1>6, IndexStep

LEMMA WorkerAnalyzesStep ==
  ASSUME IInv, NEW n \in DOMAIN posted, WorkerAnalyzes(n)
  PROVE  IInv'
<1>1. PICK a : posted' = [posted EXCEPT ![n].answer = a]
  BY DEF WorkerAnalyzes
<1>2. /\ ix' = ix /\ files' = files /\ disk' = disk /\ reads' = reads
  BY DEF WorkerAnalyzes
<1>3. PostedOK(posted')
  BY <1>1, AnswerOK DEF IInv
<1>4. IxOK(ix') /\ SameProject(ix', ix) /\ Current(ix'.state, Identity(ix))
  BY <1>2 DEF IInv, SameProject
<1> QED BY <1>2, <1>3, <1>4, IndexStep

(* An answer, or a failure, changes what is painted only if it was the one *)
(* asked for last.                                                         *)
OnlyPaints(y, x) ==
  /\ IxOK(y) /\ SameProject(y, x) /\ y.texts = x.texts
  /\ y.unreadable = x.unreadable /\ y.due = x.due
  /\ y.state.id = x.state.id /\ Current(y.state, Identity(x))

LEMMA FailedOK ==
  ASSUME IInv, NEW id
  PROVE  OnlyPaints(Failed(ix, id), ix)
<1> PICK z : z = [ix EXCEPT !.needsReset = TRUE]
  OBVIOUS
<1> PICK y : y = Failed(ix, id)
  OBVIOUS
<1>1. /\ DOMAIN z = IxFields /\ SameProject(z, ix)
      /\ z.texts = ix.texts /\ z.unreadable = ix.unreadable
      /\ z.sched = ix.sched /\ z.due = ix.due /\ z.state = ix.state
  BY DEF IInv, IxOK, IxShape, IxFields, SameProject
<1>2. IxOK(z)
  BY <1>1 DEF IInv, IxOK, IxShape, SameProject
<1>3. CASE ~Asked(ix, id)
  <2>1. y = z
    BY <1>3 DEF Failed
  <2> QED BY <1>1, <1>2, <2>1 DEF IInv, OnlyPaints
<1>4. CASE Asked(ix, id)
  <2>1. y = [z EXCEPT !.building = FALSE, !.state.status = "error",
                      !.state.stale = ix.state.data # None]
    BY <1>4 DEF Failed
  <2>2. /\ DOMAIN y = IxFields /\ SameProject(y, z)
        /\ y.texts = z.texts /\ y.unreadable = z.unreadable
        /\ y.sched = z.sched /\ y.due = z.due
    BY <1>1, <2>1 DEF IxFields, SameProject
  <2>3. y.state = [ix.state EXCEPT !.status = "error",
                                   !.stale = ix.state.data # None]
    BY <1>1, <2>1 DEF IxFields
  <2>4. /\ DOMAIN y.state = StateFields /\ y.state.status = "error"
        /\ y.state.id = ix.state.id /\ y.state.data = ix.state.data
    BY <2>3 DEF IInv, IxOK, IxShape, StateOK, StateFields
  <2>5. StateOK(y.state)
    BY <2>4 DEF IInv, IxOK, IxShape, StateOK, Statuses
  <2>6. IxOK(y)
    BY <1>2, <2>2, <2>5 DEF IxOK, IxShape, SameProject
  <2> QED BY <1>1, <2>2, <2>4, <2>6 DEF OnlyPaints, SameProject, Current
<1> QED BY <1>3, <1>4

LEMMA PaintedOK ==
  ASSUME IInv, NEW answer, NEW id \in Id, NEW opening
  PROVE  OnlyPaints(Painted(ix, answer, id, opening), ix)
<1> PICK y : y = Painted(ix, answer, id, opening)
  OBVIOUS
<1>1. CASE ~Asked(ix, id)
  <2>1. y = ix
    BY <1>1 DEF Painted
  <2> QED BY <2>1 DEF IInv, OnlyPaints, SameProject
<1>2. CASE Asked(ix, id)
  <2> PICK data :
        data = [id |-> id, texts |-> answer, opening |-> opening,
                ext |-> IF ix.ext = id THEN ix.ext ELSE None]
    OBVIOUS
  <2> PICK state :
        state = [status |-> "success", id |-> id, stale |-> FALSE,
                 data |-> data]
    OBVIOUS
  <2>1. y = [ix EXCEPT !.building = FALSE, !.state = state]
    BY <1>2 DEF Painted
  <2>2. /\ DOMAIN y = IxFields /\ SameProject(y, ix)
        /\ y.texts = ix.texts /\ y.unreadable = ix.unreadable
        /\ y.sched = ix.sched /\ y.due = ix.due /\ y.state = state
    BY <2>1 DEF IInv, IxOK, IxShape, IxFields, SameProject
  <2>3. id = Identity(ix) /\ ix.state.id = id
    BY <1>2, NoneAssumption DEF IInv, AskedFor, Asked
  <2>4. DOMAIN data = DataFields /\ data.id = id /\ data.ext \in {None, id}
    BY DEF DataFields
  <2>5. /\ DOMAIN state = StateFields /\ state.status = "success"
        /\ state.id = id /\ state.stale = FALSE /\ state.data = data
    BY DEF StateFields
  <2>6. StateOK(state) /\ Current(state, Identity(ix))
    BY <2>3, <2>4, <2>5 DEF StateOK, Statuses, Current
  <2>7. IxOK(y)
    BY <2>2, <2>6 DEF IInv, IxOK, IxShape, SameProject
  <2> QED BY <2>2, <2>3, <2>5, <2>6, <2>7 DEF OnlyPaints
<1> QED BY <1>1, <1>2

LEMMA AnswerArrivesStep ==
  ASSUME IInv, AnswerArrives
  PROVE  IInv'
<1>1. /\ posted # <<>> /\ posted' = Tail(posted)
      /\ files' = files /\ disk' = disk /\ reads' = reads
  BY DEF AnswerArrives
<1> PICK id : id = posted[1].request.id
  OBVIOUS
<1>2. PostedOK(posted') /\ id \in Id
  BY <1>1, TailOK DEF IInv
<1>3. \/ ix' = Failed(ix, id)
      \/ ix' = Painted(ix, posted[1].answer.texts, id, posted[1].opening)
  BY DEF AnswerArrives
<1>4. OnlyPaints(ix', ix)
  BY <1>2, <1>3, FailedOK, PaintedOK
<1> QED BY <1>1, <1>2, <1>4, IndexStep DEF OnlyPaints

LEMMA WorkerFailsStep ==
  ASSUME IInv, WorkerFails
  PROVE  IInv'
<1>1. /\ posted' = <<>> /\ files' = files /\ disk' = disk /\ reads' = reads
  BY DEF WorkerFails
<1>2. PostedOK(posted')
  BY <1>1, EmptyOK
<1>3. \/ ix' = Failed(ix, ix.state.id)
      \/ ix' = [ix EXCEPT !.needsReset = TRUE]
  BY DEF WorkerFails
<1>4. OnlyPaints(ix', ix)
  <2>1. CASE ix' = Failed(ix, ix.state.id)
    BY <2>1, FailedOK
  <2>2. CASE ix' = [ix EXCEPT !.needsReset = TRUE]
    <3>1. /\ DOMAIN ix' = IxFields /\ SameProject(ix', ix)
          /\ ix'.texts = ix.texts /\ ix'.unreadable = ix.unreadable
          /\ ix'.sched = ix.sched /\ ix'.due = ix.due /\ ix'.state = ix.state
      BY <2>2 DEF IInv, IxOK, IxShape, IxFields, SameProject
    <3>2. IxOK(ix')
      BY <3>1 DEF IInv, IxOK, IxShape, SameProject
    <3> QED BY <3>1, <3>2 DEF IInv, OnlyPaints
  <2> QED BY <1>3, <2>1, <2>2
<1> QED BY <1>1, <1>2, <1>4, IndexStep DEF OnlyPaints

LEMMA ContributeStep ==
  ASSUME IInv, Contribute
  PROVE  IInv'
<1>1. /\ ix' = ix /\ files' = files /\ disk' = disk /\ reads' = reads
      /\ posted' = posted
  BY DEF Contribute
<1>2. /\ IxOK(ix') /\ SameProject(ix', ix) /\ Current(ix'.state, Identity(ix))
      /\ PostedOK(posted')
  BY <1>1 DEF IInv, SameProject
<1> QED BY <1>1, <1>2, IndexStep

LEMMA MergeStep ==
  ASSUME IInv, NEW id \in merges, MergeLanguageService(id)
  PROVE  IInv'
<1> PICK x : x = [ix EXCEPT !.ext = id]
  OBVIOUS
<1>1. /\ files' = files /\ disk' = disk /\ reads' = reads
      /\ posted' = posted
      /\ \/ ix' = ix
         \/ ix' = x
         \/ /\ ix.state.data # None /\ ix.state.data.id = id
            /\ ix' = [x EXCEPT !.state.data.ext = id]
  BY DEF MergeLanguageService
<1>2. /\ DOMAIN x = IxFields /\ SameProject(x, ix)
      /\ x.texts = ix.texts /\ x.unreadable = ix.unreadable
      /\ x.sched = ix.sched /\ x.due = ix.due /\ x.state = ix.state
  BY DEF IInv, IxOK, IxShape, IxFields, SameProject
<1>3. IxOK(x)
  BY <1>2 DEF IInv, IxOK, IxShape, SameProject
<1>4. OnlyPaints(ix', ix)
  <2>1. CASE ix' = ix
    BY <2>1 DEF IInv, OnlyPaints, SameProject
  <2>2. CASE ix' = x
    BY <1>2, <1>3, <2>2 DEF IInv, OnlyPaints
  <2>3. CASE /\ ix.state.data # None /\ ix.state.data.id = id
             /\ ix' = [x EXCEPT !.state.data.ext = id]
    <3> PICK data : data = [ix.state.data EXCEPT !.ext = id]
      OBVIOUS
    <3>1. /\ DOMAIN data = DataFields /\ data.id = id /\ data.ext = id
      BY <2>3 DEF IInv, IxOK, IxShape, StateOK, DataFields
    <3>2. /\ DOMAIN ix' = IxFields /\ SameProject(ix', x)
          /\ ix'.texts = x.texts /\ ix'.unreadable = x.unreadable
          /\ ix'.sched = x.sched /\ ix'.due = x.due
      BY <1>2, <2>3 DEF IxFields, SameProject
    <3>3. ix'.state = [ix.state EXCEPT !.data = data]
      BY <1>2, <2>3 DEF IxFields
    <3>4. /\ DOMAIN ix'.state = StateFields
          /\ ix'.state.status = ix.state.status
          /\ ix'.state.id = ix.state.id
          /\ ix'.state.stale = ix.state.stale /\ ix'.state.data = data
      BY <3>3 DEF IInv, IxOK, IxShape, StateOK, StateFields
    <3>5. StateOK(ix'.state)
      BY <3>1, <3>4 DEF IInv, IxOK, IxShape, StateOK
    <3>6. Current(ix'.state, Identity(ix))
      BY <2>3, <3>1, <3>4 DEF IInv, Current
    <3>7. IxOK(ix')
      BY <1>3, <3>2, <3>5 DEF IxOK, IxShape, SameProject
    <3> QED BY <1>2, <3>2, <3>4, <3>6, <3>7 DEF OnlyPaints, SameProject
  <2> QED BY <1>1, <2>1, <2>2, <2>3
<1> QED BY <1>1, <1>4, IndexStep DEF IInv, OnlyPaints

-----------------------------------------------------------------------------
LEMMA InitOK ==
  ASSUME Init
  PROVE  IInv
<1>1. Disks
  <2>1. [f \in Path |-> 0] \in UNION {[S -> Text] : S \in SUBSET Path}
    BY DEF Text
  <2> QED BY <2>1, PathAssumption DEF Init, Disks
<1>2. DOMAIN Nothing = {}
  BY DEF Nothing
<1>3. Window
  BY <1>2 DEF Init, Window, NoProject, FilesFields
<1>4. /\ DOMAIN ix = IxFields /\ ix.project = None /\ ix.rev = 0 /\ ix.gen = 0
      /\ ix.seq = 0 /\ ix.texts = Nothing /\ ix.unreadable = {}
      /\ ix.sched = None /\ ix.due = FALSE /\ ix.state = NotRun
  BY DEF Init, IxFields
<1>5. StateOK(NotRun) /\ NotRun.id = None /\ NotRun.status = "not_run"
  BY DEF StateOK, NotRun, StateFields, Statuses
<1>6. IxOK(ix)
  BY <1>2, <1>4, <1>5 DEF IxOK, IxShape
<1>7. Own(ix)
  BY <1>4, <1>5 DEF Own, Current, AskedFor
<1>8. files.project = None /\ files.tree = {} /\ files.active = None
  BY DEF Init, NoProject
<1>9. Owned /\ BufferIsIndexed
  BY <1>4, <1>5, <1>8 DEF Owned, BufferIsIndexed
<1>10. Reads
  BY DEF Init, Reads
<1>11. PostedOK(posted)
  BY EmptyOK DEF Init
<1> QED BY <1>1, <1>3, <1>6, <1>7, <1>9, <1>10, <1>11
        DEF IInv, Own

LEMMA Inductive == IInv /\ [Next]_vars => IInv'
<1> SUFFICES ASSUME IInv, [Next]_vars PROVE IInv'
  OBVIOUS
<1>1. CASE UNCHANGED vars
  BY <1>1 DEF vars, IInv, Disks, Window, Owned, Reads, ReadOK, StillValid,
              BufferIsIndexed, Content
<1>2. CASE Progress
  <2>1. CASE TreeLoads \/ MainOpens
    BY <2>1, TreeLoadsStep, MainOpensStep
  <2>2. CASE StartRebuild \/ Dispatch \/ AnswerArrives
    BY <2>2, StartRebuildStep, DispatchStep, AnswerArrivesStep
  <2>3. CASE \E r \in reads : \E bad \in Unreadable(r) : RebuildReads(r, bad)
    BY <2>3, RebuildReadsStep
  <2>4. CASE \E n \in DOMAIN posted : WorkerAnalyzes(n)
    BY <2>4, WorkerAnalyzesStep
  <2> QED BY <1>2, <2>1, <2>2, <2>3, <2>4 DEF Progress
<1>3. CASE \E p \in Project : OpenProject(p)
  BY <1>3, OpenProjectStep
<1>4. CASE CloseProject \/ Edit \/ WorkerFails \/ Contribute
  BY <1>4, CloseProjectStep, EditStep, WorkerFailsStep, ContributeStep
<1>5. CASE \E f \in Path : SwitchTab(f) \/ TreeChanges(f)
  BY <1>5, SwitchTabStep, TreeChangesStep
<1>6. CASE \E id \in merges : MergeLanguageService(id)
  BY <1>6, MergeStep
<1> QED BY <1>1, <1>2, <1>3, <1>4, <1>5, <1>6 DEF Next

(* What every reachable state of the index satisfies, however reads,       *)
(* timers, answers, failures and contributions meet edits, tabs, trees and *)
(* projects.                                                               *)
THEOREM Invariance == Spec => []IInv
BY InitOK, Inductive, PTL DEF Spec

(* The index and the window it follows stay well typed.                    *)
THEOREM TypeCorrectness == Spec => []TypeOK
<1>1. IInv => TypeOK
  <2> SUFFICES ASSUME IInv PROVE TypeOK
    OBVIOUS
  <2>1. /\ files.project \in Project \cup {None}
        /\ \A f \in DOMAIN files.buffer : files.buffer[f] \in Text
    BY DEF IInv, Window
  <2>2. files.tree \subseteq Path
    <3>1. CASE files.tree = {}
      BY <3>1
    <3>2. CASE files.tree # {}
      <4>1. /\ files.project \in Project
            /\ files.tree = DOMAIN disk[files.project]
        BY <3>2 DEF IInv, Window
      <4> QED BY <4>1, DisksOK DEF IInv
    <3> QED BY <3>1, <3>2
  <2>3. /\ ix.rev \in Nat /\ ix.gen \in Nat /\ ix.seq \in Nat
        /\ \A f \in DOMAIN ix.texts : ix.texts[f] \in Text
        /\ ix.state.status \in Statuses
        /\ ix.sched # None => ix.sched.id \in Id
    BY DEF IInv, IxOK, IxShape, StateOK
  <2>4. ix.state.id \in Id \cup {None}
    BY IdentityOK DEF IInv, AskedFor
  <2>5. \A n \in DOMAIN posted : posted[n].request.id \in Id
    <3>1. PICK S : posted \in Seq(S) /\ \A x \in S : Entry(x)
      BY DEF IInv, PostedOK
    <3> QED BY <3>1 DEF Entry
  <2> QED BY <2>1, <2>2, <2>3, <2>4, <2>5 DEF TypeOK, Statuses
<1> QED BY <1>1, Invariance, PTL

(* A graph painted as current is the one of the last revision and the last *)
(* request, also where a rebuild puts back the one it found.               *)
THEOREM CurrentGraphs == Spec => []PaintedIsCurrent
<1>1. IInv => PaintedIsCurrent
  BY DEF IInv, Current, PaintedIsCurrent
<1> QED BY <1>1, Invariance, PTL

(* The index has the text of the active buffer, unless its own read of it  *)
(* failed.                                                                 *)
THEOREM BuffersAreIndexed == Spec => []BufferIsIndexed
<1>1. IInv => BufferIsIndexed
  BY DEF IInv
<1> QED BY <1>1, Invariance, PTL

(* A contribution of the language service is painted only on the graph it  *)
(* was made for.                                                           *)
THEOREM ContributionsMatch == Spec => []ContributionMatches
<1>1. IInv => ContributionMatches
  BY DEF IInv, IxOK, IxShape, StateOK, ContributionMatches
<1> QED BY <1>1, Invariance, PTL
=============================================================================

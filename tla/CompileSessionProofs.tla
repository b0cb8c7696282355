------------------------- MODULE CompileSessionProofs -------------------------
(***************************************************************************)
(* Safety of CompileSession for any projects, files, attempts and budgets: *)
(* an inductive invariant, and the properties that follow from it.         *)
(***************************************************************************)
EXTENDS CompileSession, TLAPS

Lanes == {"main", "tagged"}
StoreFields ==
  {"status", "by", "ck", "pdf", "sources", "gen", "seq", "active", "rerun"}
EditorFields ==
  {"project", "active", "text", "dirty", "rev", "epoch", "resetDue"}
AttemptFields ==
  {"pc", "lane", "intent", "project", "doc", "start", "rev", "seq", "file",
   "saved", "sources", "reply"}

(* Where an attempt is: before its sources are known, and after.           *)
Early == {"preparing", "saving", "checking", "clearing", "capturing"}
Answered == {"replied", "reading"}
Late == {"listening", "building"} \cup Answered

-----------------------------------------------------------------------------
(* The parts of the invariant are about a store s and an attempt t, when   *)
(* intents up to g were given out, r outputs written and out are the PDFs. *)
KnownBy(ck, r) == ck = None \/ (ck \in Ck /\ ck.out <= r)

StoreOK(s, r) ==
  /\ DOMAIN s = StoreFields
  /\ s.gen \in Nat /\ s.seq \in Nat
  /\ s.active \in Nat \cup {None}
  /\ KnownBy(s.ck, r)

EditorShape ==
  /\ DOMAIN editor = EditorFields
  /\ editor.project \in Project /\ editor.active \in File
  /\ editor.rev \in Nat /\ editor.text \in [File -> Text]

(* The run that is answered is newer than what was accepted at the start,  *)
(* and the project has a PDF since.                                        *)
ReplyOK(t, r, out) ==
  \/ t.reply.kind = "stopped" /\ t.lane = "main"
  \/ t.reply.kind = "rejected"
  \/ /\ t.reply.kind = "done"
     /\ t.reply.ok => t.reply.run # None
     /\ t.reply.run # None =>
          /\ t.reply.run \in Nat /\ t.reply.run <= r
          /\ t.start # None => t.reply.run > t.start.out
          /\ out[t.project] # None

(* An attempt in flight has an intent that was given out.                  *)
FlightOK(t, g, r, out) ==
  /\ DOMAIN t = AttemptFields
  /\ t.pc \in Early \cup Late
  /\ t.lane \in Lanes
  /\ t.intent \in Nat /\ t.intent <= g
  /\ t.project \in Project /\ t.doc \in File /\ t.rev \in Nat
  /\ t.saved \in Text \cup {None}
  /\ t.pc = "saving" => t.file \in File
  /\ KnownBy(t.start, r)
  /\ t.pc \in Answered => ReplyOK(t, r, out)
  /\ t.pc = "reading" => t.reply.kind = "done" /\ t.reply.run # None

AttemptShape ==
  /\ DOMAIN attempts = Attempt
  /\ \A a \in Attempt :
       attempts[a] = Idle \/ FlightOK(attempts[a], store.gen, runs, output)

Flies(t) == t.pc # "idle"
OwnIntents ==
  \A a, b \in Attempt :
    /\ Flies(attempts[a]) /\ Flies(attempts[b])
    /\ attempts[a].intent = attempts[b].intent
    => a = b

FileShape ==
  /\ disk \in [Project -> [File -> Text]]
  /\ output \in [Project -> Bytes \cup {None}]
  /\ \A p \in Project : output[p] # None => output[p].project = p
  /\ runs \in Nat
  /\ \A e \in remote :
       /\ DOMAIN e = {"ck", "pc"} /\ e.ck \in Ck /\ e.ck.out <= runs

(* The attempt whose indicator is shown owns the button, and no newer      *)
(* output was accepted since it began.                                     *)
Shows(s, t) ==
  /\ Flies(t) /\ t.pc # "preparing" /\ t.lane = "main"
  /\ t.intent = s.by.gen
  /\ s.active = s.by.gen
  /\ ~Advanced(t.start, s.ck)
Indicator(s, att) ==
  s.status = "compiling" =>
    s.by.lane = "tagged" \/ \E a \in Attempt : Shows(s, att[a])

(* The last attempt that took a compile sequence still has the last one.   *)
LastSequence ==
  \A a \in Attempt :
    /\ attempts[a].pc \in Late /\ attempts[a].lane = "main"
    /\ attempts[a].intent = store.gen
    => attempts[a].seq = store.seq

(* The last intent that was given out, when it is an attempt of the        *)
(* button, owns it.                                                        *)
LastOwns(s, att) ==
  \A a \in Attempt :
    Flies(att[a]) /\ att[a].lane = "main" /\ att[a].intent = s.gen
    => s.active = s.gen

IInv ==
  /\ StoreOK(store, runs) /\ EditorShape /\ FileShape
  /\ AttemptShape /\ OwnIntents
  /\ NoForeignPdf /\ Indicator(store, attempts)
  /\ LastSequence /\ LastOwns(store, attempts)

(* Only the store and the attempts change.                                 *)
Within == UNCHANGED <<disk, editor, output, runs, remote, pane>>

(* What a step does besides keeping the invariant.                         *)
OutputStep ==
  store'.ck # store.ck =>
    IF store'.ck = None THEN store'.gen > store.gen
    ELSE IsNewer(store'.ck, store.ck)
RerunStep ==
  store.active # None /\ store'.active # store.active =>
    \/ ~store'.rerun
    \/ store'.status = "compiling" /\ store'.by.lane = "tagged"
Sound == IInv' /\ OutputStep /\ RerunStep

Others(a) ==
  /\ DOMAIN attempts' = Attempt
  /\ \A b \in Attempt \ {a} : attempts'[b] = attempts[b]

-----------------------------------------------------------------------------
(* What the operators on the store and on an attempt leave alone.          *)
LEMMA AbortFacts ==
  ASSUME NEW s, NEW t, DOMAIN s = StoreFields,
         NEW r, r = Abort(s, t)
  PROVE  /\ DOMAIN r = StoreFields
         /\ r.ck = s.ck /\ r.pdf = s.pdf /\ r.gen = s.gen /\ r.seq = s.seq
         /\ r.by = s.by
         /\ s.active # t.intent => r = s
         /\ s.active = t.intent =>
              /\ r.active = None /\ ~r.rerun
              /\ r.status = IF s.status = "compiling" /\ s.by.gen = t.intent
                            THEN "idle" ELSE s.status
BY DEF Abort, StoreFields

LEMMA ShowFacts ==
  ASSUME NEW s, NEW t, NEW status, DOMAIN s = StoreFields,
         NEW r, r = Show(s, status, t)
  PROVE  /\ DOMAIN r = StoreFields
         /\ r.ck = s.ck /\ r.pdf = s.pdf /\ r.gen = s.gen /\ r.seq = s.seq
         /\ r.active = s.active /\ r.rerun = s.rerun
         /\ r.status = status /\ r.by.gen = t.intent /\ r.by.lane = t.lane
BY DEF Show, StoreFields

LEMMA ReleaseFacts ==
  ASSUME NEW s, NEW t, DOMAIN s = StoreFields,
         NEW r, r = Release(s, t)
  PROVE  /\ DOMAIN r = StoreFields
         /\ r.ck = s.ck /\ r.pdf = s.pdf /\ r.gen = s.gen /\ r.seq = s.seq
         /\ r.by = s.by /\ r.status = s.status /\ r.rerun = s.rerun
         /\ r.active = IF s.active = t.intent THEN None ELSE s.active
         /\ s.active # t.intent => r = s
BY DEF Release, StoreFields

LEMMA PutFacts ==
  ASSUME NEW a \in Attempt, NEW t, AttemptShape, Put(a, t)
  PROVE  Others(a) /\ attempts'[a] = t
BY DEF Put, Others, AttemptShape

(* A new request: its intent is the next one.                              *)
LEMMA RequestFacts ==
  ASSUME NEW s, NEW lane, EditorShape
  PROVE  LET t == Request(s, lane) IN
         /\ DOMAIN t = AttemptFields
         /\ t.pc = "preparing" /\ t.lane = lane /\ t.intent = s.gen + 1
         /\ t.project \in Project /\ t.doc \in File /\ t.rev \in Nat
         /\ t.start = s.ck /\ t.saved = None
<1>1. EffectiveMain \in File
  BY RootAssumption DEF EditorShape, EffectiveMain
<1> QED BY <1>1 DEF Request, AttemptFields, EditorShape

LEMMA SavingFacts ==
  ASSUME NEW t, DOMAIN t = AttemptFields, EditorShape
  PROVE  LET u == Saving(t) IN
         /\ DOMAIN u = AttemptFields
         /\ u.pc = "saving" /\ u.file \in File
         /\ u.saved \in Text \cup {None}
         /\ u.lane = t.lane /\ u.intent = t.intent /\ u.project = t.project
         /\ u.doc = t.doc /\ u.rev = t.rev /\ u.start = t.start
BY DEF Saving, AttemptFields, EditorShape

LEMMA CapturingFacts ==
  ASSUME NEW t, DOMAIN t = AttemptFields, EditorShape
  PROVE  LET u == Capturing(t) IN
         /\ DOMAIN u = AttemptFields
         /\ u.pc = "capturing" /\ u.rev \in Nat
         /\ u.lane = t.lane /\ u.intent = t.intent /\ u.project = t.project
         /\ u.doc = t.doc /\ u.start = t.start /\ u.saved = t.saved
BY DEF Capturing, AttemptFields, EditorShape

(* A result is either ignored, because something newer is there, or it is  *)
(* shown, and accepted if it is a success that could be read.              *)
LEMMA AppliedFacts ==
  ASSUME NEW s, NEW t, NEW bytes, DOMAIN s = StoreFields
  PROVE  LET r == Applied(s, t, bytes)
             ck == IF t.reply.ok /\ bytes # None
                   THEN Checkpoint(t, bytes.run) ELSE None
         IN
         /\ DOMAIN r = StoreFields
         /\ r.gen = s.gen /\ r.seq = s.seq /\ r.active = s.active
         /\ r.rerun = s.rerun
         /\ \/ r = s /\ ~CanApply(ck, s.ck, t.start)
            \/ /\ CanApply(ck, s.ck, t.start)
               /\ r.ck = (IF ck # None THEN ck ELSE s.ck)
               /\ r.pdf = (IF bytes # None THEN bytes ELSE s.pdf)
               /\ r.status \in {"success", "error"}
BY DEF Applied, StoreFields

LEMMA CheckpointFacts ==
  ASSUME NEW t, NEW run \in Nat, t.project \in Project, t.doc \in File,
         t.rev \in Nat, t.intent \in Nat
  PROVE  Checkpoint(t, run) \in Ck /\ Checkpoint(t, run).out = run
BY DEF Checkpoint, Ck

LEMMA NoneFacts ==
  /\ \A n \in Nat : n # None
  /\ \A c \in Ck : c # None
  /\ \A b \in Bytes : b # None
BY NoneAssumption
-----------------------------------------------------------------------------
(* What a step leaves alone stays as the invariant says.                   *)
LEMMA FlightKept ==
  ASSUME NEW t, NEW g \in Nat, NEW h \in Nat, g <= h,
         NEW r \in Nat, NEW q \in Nat, r <= q, NEW out, NEW new,
         \A p \in Project : out[p] # None => new[p] # None,
         FlightOK(t, g, r, out)
  PROVE  FlightOK(t, h, q, new)
BY DEF FlightOK, ReplyOK, KnownBy, Ck

(* The attempt a of a step has ended, goes on, or has the next intent.     *)
LEMMA AttemptsKept ==
  ASSUME IInv, NEW a \in Attempt, Others(a),
         store'.gen \in Nat, store.gen <= store'.gen,
         runs' \in Nat, runs <= runs',
         \A p \in Project : output[p] # None => output'[p] # None,
         \/ attempts'[a] = Idle
         \/ /\ FlightOK(attempts'[a], store'.gen, runs', output')
            /\ \/ attempts'[a].intent > store.gen
               \/ /\ Flies(attempts[a])
                  /\ attempts'[a].intent = attempts[a].intent
  PROVE  AttemptShape' /\ OwnIntents'
<1>1. /\ store.gen \in Nat /\ runs \in Nat
      /\ AttemptShape /\ OwnIntents
  BY DEF IInv, StoreOK, FileShape
<1>2. ASSUME NEW b \in Attempt \ {a}, attempts[b] # Idle
      PROVE  /\ FlightOK(attempts'[b], store'.gen, runs', output')
             /\ attempts[b].intent <= store.gen /\ attempts[b].intent \in Nat
  <2>1. FlightOK(attempts[b], store.gen, runs, output)
    BY <1>1, <1>2 DEF AttemptShape
  <2>2. FlightOK(attempts[b], store'.gen, runs', output')
    BY <1>1, <2>1, FlightKept
  <2>3. attempts'[b] = attempts[b]
    BY DEF Others
  <2> QED BY <2>1, <2>2, <2>3 DEF FlightOK
<1>3. AttemptShape'
  BY <1>2 DEF AttemptShape, Others
<1>4. ASSUME NEW b \in Attempt, NEW c \in Attempt,
             Flies(attempts'[b]), Flies(attempts'[c]),
             attempts'[b].intent = attempts'[c].intent
      PROVE  b = c
  <2>1. \A d \in Attempt \ {a} :
          Flies(attempts'[d]) =>
            /\ Flies(attempts[d]) /\ attempts[d] # Idle
            /\ attempts'[d].intent = attempts[d].intent
    BY DEF Others, Flies, Idle
  <2>2. Flies(attempts'[a]) => attempts'[a] # Idle
    BY DEF Flies, Idle
  <2>3. CASE b # a /\ c # a
    BY <1>1, <1>4, <2>1, <2>3 DEF OwnIntents
  <2>4. CASE b = a /\ c # a
    BY <1>1, <1>2, <1>4, <2>1, <2>2, <2>4 DEF OwnIntents
  <2>5. CASE b # a /\ c = a
    BY <1>1, <1>2, <1>4, <2>1, <2>2, <2>5 DEF OwnIntents
  <2> QED BY <2>3, <2>4, <2>5
<1> QED BY <1>3, <1>4 DEF OwnIntents

LEMMA SequenceKept ==
  ASSUME IInv, NEW a \in Attempt, Others(a),
         store'.gen \in Nat, store.gen <= store'.gen,
         \/ store'.seq = store.seq
         \/ Flies(attempts[a]) /\ attempts[a].intent = store.gen,
         /\ attempts'[a].pc \in Late /\ attempts'[a].lane = "main"
         /\ attempts'[a].intent = store'.gen
         => attempts'[a].seq = store'.seq
  PROVE  LastSequence'
<1>1. store.gen \in Nat /\ AttemptShape /\ OwnIntents /\ LastSequence
  BY DEF IInv, StoreOK
<1>2. ASSUME NEW b \in Attempt \ {a}, attempts'[b].pc \in Late,
             attempts'[b].lane = "main", attempts'[b].intent = store'.gen
      PROVE  attempts'[b].seq = store'.seq
  <2>1. attempts'[b] = attempts[b]
    BY DEF Others
  <2>2. attempts[b] # Idle /\ Flies(attempts[b])
    BY <1>2, <2>1 DEF Idle, Late, Answered, Flies
  <2>3. attempts[b].intent \in Nat /\ attempts[b].intent <= store.gen
    BY <1>1, <2>2 DEF AttemptShape, FlightOK
  <2>4. store'.gen = store.gen
    BY <1>1, <1>2, <2>1, <2>3
  <2> QED
    BY <1>1, <1>2, <2>1, <2>2, <2>4 DEF LastSequence, OwnIntents
<1> QED BY <1>2 DEF LastSequence
LEMMA OwnsKept ==
  ASSUME IInv, NEW a \in Attempt, Others(a),
         store'.gen \in Nat, store.gen <= store'.gen,
         store'.gen = store.gen =>
           \/ store'.active = store.active \/ store.active = None
           \/ Flies(attempts[a]) /\ store.active = attempts[a].intent,
         Flies(attempts'[a]) /\ attempts'[a].lane = "main"
         /\ attempts'[a].intent = store'.gen => store'.active = store'.gen
  PROVE  LastOwns(store', attempts')
<1>1. /\ store.gen \in Nat /\ AttemptShape /\ OwnIntents
      /\ LastOwns(store, attempts)
  BY DEF IInv, StoreOK
<1>2. ASSUME NEW b \in Attempt \ {a}, Flies(attempts'[b]),
             attempts'[b].lane = "main", attempts'[b].intent = store'.gen
      PROVE  store'.active = store'.gen
  <2>1. attempts'[b] = attempts[b] /\ Flies(attempts[b])
    BY <1>2 DEF Others
  <2>2. attempts[b].intent \in Nat /\ attempts[b].intent <= store.gen
    BY <1>1, <2>1 DEF AttemptShape, FlightOK, Idle, Flies
  <2>3. store'.gen = store.gen
    BY <1>1, <1>2, <2>1, <2>2
  <2>4. store.active = store.gen
    BY <1>1, <1>2, <2>1, <2>3 DEF LastOwns
  <2>5. ~(Flies(attempts[a]) /\ store.active = attempts[a].intent)
    BY <1>1, <1>2, <2>1, <2>3, <2>4 DEF OwnIntents
  <2> QED BY <1>1, <2>3, <2>4, <2>5, NoneAssumption
<1> QED BY <1>2 DEF LastOwns

-----------------------------------------------------------------------------
(* How the attempt a of a step ends: with what the store s became before,  *)
(* and possibly with its successor under way.                              *)
Ended(a, s) ==
  /\ DOMAIN store' = StoreFields
  /\ store'.ck = s.ck /\ store'.pdf = s.pdf /\ store'.seq = s.seq
  /\ store'.gen \in Nat /\ s.gen <= store'.gen
  /\ store'.active \in Nat \cup {None}
  /\ Indicator(store', attempts') /\ LastOwns(store', attempts')
  /\ RerunStep /\ Others(a)
  /\ \/ attempts'[a] = Idle
     \/ /\ FlightOK(attempts'[a], store'.gen, runs, output)
        /\ attempts'[a].intent > store.gen
        /\ attempts'[a].pc \in Early

(* recompile() either queues a rerun, is refused, or starts.               *)
LEMMA BeginFacts ==
  ASSUME IInv, NEW a \in Attempt, NEW s, DOMAIN s = StoreFields,
         s.gen \in Nat, Begin(s, a)
  PROVE  /\ DOMAIN store' = StoreFields
         /\ store'.ck = s.ck /\ store'.pdf = s.pdf /\ store'.seq = s.seq
         /\ Others(a)
         /\ \/ /\ s.active # None \/ s.status = "compiling"
               /\ store'.gen = s.gen /\ store'.active = s.active
               /\ store'.status = s.status /\ store'.by = s.by
               /\ attempts'[a] = Idle
            \/ /\ s.active = None /\ s.status # "compiling"
               /\ store'.gen = s.gen + 1
               /\ \/ /\ store'.active = None /\ store'.status = "unavailable"
                     /\ ~store'.rerun
                     /\ attempts'[a] = Idle
                  \/ /\ store'.active = s.gen + 1 /\ store'.rerun = s.rerun
                     /\ store'.status = s.status /\ store'.by = s.by
                     /\ attempts'[a] = Request(s, "main")
                  \/ /\ store'.active = s.gen + 1 /\ store'.rerun = s.rerun
                     /\ store'.by.gen = s.gen + 1
                     /\ attempts'[a] = Saving(Request(s, "main"))
<1> DEFINE t == Request(s, "main")
           s1 == [s EXCEPT !.gen = t.intent, !.active = t.intent]
           shown == Show(s1, "unavailable", t)
<1>1. AttemptShape /\ EditorShape
  BY DEF IInv
<1>2. t.intent = s.gen + 1
  BY <1>1, RequestFacts
<1>3. /\ DOMAIN s1 = StoreFields
      /\ s1.ck = s.ck /\ s1.pdf = s.pdf /\ s1.seq = s.seq
      /\ s1.gen = s.gen + 1 /\ s1.active = s.gen + 1
      /\ s1.status = s.status /\ s1.by = s.by /\ s1.rerun = s.rerun
  BY <1>2 DEF StoreFields
<1> HIDE DEF t, s1
<1>4. CASE s.active # None \/ s.status = "compiling"
  <2>1. GiveUp(a, [s EXCEPT !.rerun = TRUE])
    BY <1>4 DEF Begin
  <2> QED BY <1>1, <1>4, <2>1, PutFacts DEF GiveUp, StoreFields
<1>5. CASE ~(s.active # None \/ s.status = "compiling")
  <2>1. \/ GiveUp(a, Abort(shown, t))
        \/ store' = s1 /\ Put(a, t)
        \/ store' = Show(s1, "compiling", t) /\ Put(a, Saving(t))
    BY <1>5 DEF Begin, t, s1
  <2>2. CASE GiveUp(a, Abort(shown, t))
    <3>1. store' = Abort(shown, t) /\ Others(a) /\ attempts'[a] = Idle
      BY <1>1, <2>2, PutFacts DEF GiveUp
    <3>2. /\ DOMAIN shown = StoreFields
          /\ shown.ck = s.ck /\ shown.pdf = s.pdf /\ shown.seq = s.seq
          /\ shown.gen = s.gen + 1 /\ shown.active = t.intent
          /\ shown.status = "unavailable"
      BY <1>2, <1>3, ShowFacts
    <3> HIDE DEF shown
    <3> QED BY <1>5, <3>1, <3>2, AbortFacts
  <2>3. CASE store' = s1 /\ Put(a, t)
    BY <1>1, <1>3, <1>5, <2>3, PutFacts DEF t
  <2>4. CASE store' = Show(s1, "compiling", t) /\ Put(a, Saving(t))
    BY <1>1, <1>2, <1>3, <1>5, <2>4, PutFacts, ShowFacts DEF t
  <2> QED BY <2>1, <2>2, <2>3, <2>4
<1> QED BY <1>4, <1>5

(* What starts is in flight, and shows its indicator.                      *)
LEMMA Started ==
  ASSUME IInv, NEW s, NEW lane \in Lanes, s.gen \in Nat,
         KnownBy(s.ck, runs), NEW t,
         t \in {Request(s, lane), Saving(Request(s, lane))}
  PROVE  /\ FlightOK(t, s.gen + 1, runs, output)
         /\ t.intent = s.gen + 1 /\ t.pc \in {"preparing", "saving"}
         /\ t.lane = lane /\ t.start = s.ck
<1>1. EditorShape
  BY DEF IInv
<1> QED
  BY <1>1, RequestFacts, SavingFacts
  DEF FlightOK, Early, Late, Answered

(* recompile() when no attempt owns the button.                            *)
LEMMA BeginEnds ==
  ASSUME IInv, NEW a \in Attempt, NEW s, StoreOK(s, runs),
         s.gen = store.gen, s.active = None,
         s.status = "compiling" => s.by.lane = "tagged",
         \/ store.active = None
         \/ /\ Flies(attempts[a]) /\ store.active = attempts[a].intent
            /\ ~s.rerun,
         Begin(s, a)
  PROVE  Ended(a, s)
<1>1. DOMAIN s = StoreFields /\ s.gen \in Nat /\ KnownBy(s.ck, runs)
  BY DEF StoreOK
<1>2. /\ DOMAIN store' = StoreFields
      /\ store'.ck = s.ck /\ store'.pdf = s.pdf /\ store'.seq = s.seq
      /\ Others(a)
      /\ \/ /\ s.status = "compiling"
            /\ store'.gen = s.gen /\ store'.active = None
            /\ store'.status = s.status /\ store'.by = s.by
            /\ attempts'[a] = Idle
         \/ /\ s.status # "compiling"
            /\ store'.gen = s.gen + 1
            /\ \/ /\ store'.active = None /\ store'.status = "unavailable"
                  /\ ~store'.rerun
                  /\ attempts'[a] = Idle
               \/ /\ store'.active = s.gen + 1 /\ store'.rerun = s.rerun
                  /\ store'.status = s.status /\ store'.by = s.by
                  /\ attempts'[a] = Request(s, "main")
               \/ /\ store'.active = s.gen + 1 /\ store'.rerun = s.rerun
                  /\ store'.by.gen = s.gen + 1
                  /\ attempts'[a] = Saving(Request(s, "main"))
  BY <1>1, BeginFacts
<1>3. \A u \in {Request(s, "main"), Saving(Request(s, "main"))} :
        /\ FlightOK(u, s.gen + 1, runs, output)
        /\ u.intent = s.gen + 1 /\ u.pc \in {"preparing", "saving"}
        /\ u.lane = "main" /\ u.start = s.ck
  BY <1>1, Started DEF Lanes
<1>4. Saving(Request(s, "main")).pc = "saving"
  BY RequestFacts, SavingFacts DEF IInv
<1>5. ~Advanced(s.ck, s.ck)
  BY <1>1 DEF Advanced, IsNewer, KnownBy, Ck
<1>6. Indicator(store', attempts')
  BY <1>2, <1>3, <1>4, <1>5 DEF Indicator, Shows, Flies
<1>7. RerunStep
  BY <1>2 DEF RerunStep
<1>8. LastOwns(store', attempts')
  BY <1>1, <1>2, <1>3, OwnsKept DEF Flies, Idle
<1> QED
  BY <1>1, <1>2, <1>3, <1>6, <1>7, <1>8, NoneFacts DEF Ended, Early

(* A finished or given up attempt takes its indicator with it.             *)
LEMMA AbortEnds ==
  ASSUME IInv, NEW a \in Attempt, attempts[a] # Idle,
         NEW s, DOMAIN s = StoreFields,
         s.active = store.active, s.gen = store.gen, Indicator(s, attempts),
         GiveUp(a, Abort(s, attempts[a]))
  PROVE  Ended(a, s)
<1> DEFINE t == attempts[a]
<1>1. /\ store' = Abort(s, t) /\ Others(a) /\ attempts'[a] = Idle
  BY PutFacts DEF GiveUp, IInv
<1>2. /\ store.gen \in Nat /\ store.active \in Nat \cup {None}
      /\ Flies(t)
  BY DEF IInv, StoreOK, AttemptShape, FlightOK, Flies, Early, Late, Answered
<1>3. /\ DOMAIN store' = StoreFields
      /\ store'.ck = s.ck /\ store'.pdf = s.pdf /\ store'.seq = s.seq
      /\ store'.gen = s.gen /\ store'.by = s.by
      /\ s.active # t.intent => store' = s
      /\ s.active = t.intent =>
           /\ store'.active = None /\ ~store'.rerun
           /\ store'.status = IF s.status = "compiling"
                                 /\ s.by.gen = t.intent
                              THEN "idle" ELSE s.status
  BY <1>1, AbortFacts
<1>4. RerunStep
  BY <1>3 DEF RerunStep
<1>5. Indicator(store', attempts')
  BY <1>1, <1>3 DEF Indicator, Shows, Others
<1>6. LastOwns(store', attempts')
  BY <1>1, <1>2, <1>3, OwnsKept DEF Flies, Idle
<1> QED BY <1>1, <1>2, <1>3, <1>4, <1>5, <1>6 DEF Ended

(* The end of an attempt that reached the compiler.  If its own indicator  *)
(* is still shown, the attempt is stale, so that the indicator goes.       *)
LEMMA FinishEnds ==
  ASSUME IInv, NEW a \in Attempt, attempts[a] # Idle,
         NEW s, StoreOK(s, runs),
         s.active = store.active, s.gen = store.gen, Indicator(s, attempts),
         /\ s.active = attempts[a].intent
         /\ s.status = "compiling" /\ s.by.lane # "tagged"
         /\ ~Advanced(attempts[a].start, s.ck)
         => Stale(s, attempts[a]),
         Finish(s, a)
  PROVE  Ended(a, s)
<1> DEFINE t == attempts[a]
           clear == IF FinishClears(s, t) THEN [s EXCEPT !.status = "idle"]
                    ELSE s
           s1 == Release(clear, t)
           s2 == [s1 EXCEPT !.rerun = FALSE]
<1>1. /\ AttemptShape /\ OwnIntents
      /\ DOMAIN s = StoreFields /\ s.gen \in Nat
      /\ s.active \in Nat \cup {None} /\ KnownBy(s.ck, runs)
  BY DEF IInv, StoreOK
<1>2. FlightOK(t, store.gen, runs, output) /\ Flies(t)
  BY <1>1 DEF AttemptShape, FlightOK, Flies, Early, Late, Answered
<1>3. /\ DOMAIN clear = StoreFields
      /\ clear.ck = s.ck /\ clear.pdf = s.pdf /\ clear.gen = s.gen
      /\ clear.seq = s.seq /\ clear.by = s.by /\ clear.rerun = s.rerun
      /\ clear.active = s.active
      /\ FinishClears(s, t) => clear.status = "idle"
      /\ ~FinishClears(s, t) => clear = s
  BY <1>1 DEF StoreFields
<1> HIDE DEF clear
<1>4. /\ DOMAIN s1 = StoreFields
      /\ s1.ck = s.ck /\ s1.pdf = s.pdf /\ s1.gen = s.gen
      /\ s1.seq = s.seq /\ s1.by = s.by /\ s1.rerun = s.rerun
      /\ s1.status = clear.status
      /\ s1.active = IF s.active = t.intent THEN None ELSE s.active
      /\ s.active # t.intent => s1 = clear
  BY <1>3, ReleaseFacts
<1> HIDE DEF s1
<1>5. /\ DOMAIN s2 = StoreFields
      /\ s2.ck = s.ck /\ s2.pdf = s.pdf /\ s2.gen = s.gen
      /\ s2.seq = s.seq /\ s2.by = s.by /\ ~s2.rerun
      /\ s2.status = s1.status /\ s2.active = s1.active
  BY <1>4 DEF StoreFields
<1> HIDE DEF s2
<1>6. ASSUME s.active = t.intent, s1.status = "compiling"
      PROVE  s1.by.lane = "tagged"
  <2>1. ~FinishClears(s, t) /\ s.status = "compiling"
    BY <1>3, <1>4, <1>6
  <2>2. SUFFICES ASSUME s.by.lane # "tagged" PROVE FALSE
    BY <1>4
  <2>3. PICK b \in Attempt : Shows(s, attempts[b])
    BY <2>1, <2>2 DEF Indicator
  <2>4. b = a
    BY <1>1, <1>2, <1>6, <2>3 DEF OwnIntents, Shows
  <2> QED
    BY <1>6, <2>1, <2>2, <2>3, <2>4 DEF FinishClears, Shows
<1>7. CASE s.active # t.intent
  <2>1. store' = s /\ Others(a) /\ attempts'[a] = Idle
    BY <1>1, <1>3, <1>4, <1>7, PutFacts
    DEF Finish, GiveUp, FinishClears, s1, clear
  <2>2. Indicator(store', attempts')
    BY <1>7, <2>1 DEF Indicator, Shows, Others
  <2>3. LastOwns(store', attempts')
    BY <1>1, <2>1, OwnsKept DEF Flies, Idle
  <2> QED
    BY <1>1, <2>1, <2>2, <2>3 DEF Ended, RerunStep
<1>8. ASSUME s.active = t.intent, NEW r, r \in {s1, s2}, ~r.rerun,
             GiveUp(a, r)
      PROVE  Ended(a, s)
  <2>1. store' = r /\ Others(a) /\ attempts'[a] = Idle
    BY <1>1, <1>8, PutFacts DEF GiveUp
  <2>2. Indicator(store', attempts')
    BY <1>4, <1>5, <1>6, <1>8, <2>1 DEF Indicator
  <2>3. LastOwns(store', attempts')
    BY <1>1, <1>2, <1>4, <1>5, <1>8, <2>1, OwnsKept DEF Flies, Idle
  <2> QED
    BY <1>1, <1>4, <1>5, <1>8, <2>1, <2>2, <2>3 DEF Ended, RerunStep
<1>9. ASSUME s.active = t.intent, Begin(s2, a)
      PROVE  Ended(a, s)
  <2>1. StoreOK(s2, runs)
    BY <1>1, <1>4, <1>5, <1>9 DEF StoreOK
  <2>2. Ended(a, s2)
    BY <1>2, <1>4, <1>5, <1>6, <1>9, <2>1, BeginEnds
  <2> QED BY <1>5, <2>2 DEF Ended
<1> QED
  BY <1>4, <1>5, <1>7, <1>8, <1>9 DEF Finish, s2, s1, clear
(* The end of an attempt keeps the invariant if what the store became is   *)
(* what it was, or has a newer output of this project.                     *)
LEMMA EndStep ==
  ASSUME IInv, NEW a \in Attempt, NEW s, Ended(a, s),
         s.gen = store.gen, s.seq \in Nat, KnownBy(s.ck, runs),
         s.ck # store.ck => s.ck # None /\ IsNewer(s.ck, store.ck),
         \/ s.pdf = store.pdf
         \/ s.pdf # None => s.pdf.project = editor.project,
         \/ s.seq = store.seq
         \/ Flies(attempts[a]) /\ attempts[a].intent = store.gen,
         EditorShape', FileShape', editor'.project = editor.project,
         editor'.resetDue = editor.resetDue,
         UNCHANGED <<output, runs, pane>>
  PROVE  Sound
<1>1. StoreOK(store, runs)'
  BY DEF Ended, StoreOK, IInv
<1>2. store.gen \in Nat /\ runs \in Nat
  BY DEF IInv, StoreOK, FileShape
<1>3. AttemptShape' /\ OwnIntents'
  <2>1. store.gen <= store'.gen /\ store'.gen \in Nat /\ Others(a)
    BY DEF Ended
  <2>2. \/ attempts'[a] = Idle
        \/ /\ FlightOK(attempts'[a], store'.gen, runs', output')
           /\ attempts'[a].intent > store.gen
    BY DEF Ended
  <2> QED BY <1>2, <2>1, <2>2, AttemptsKept
<1>4. LastSequence'
  BY SequenceKept DEF Ended, Idle, Early, Late, Answered
<1>5. NoForeignPdf'
  BY DEF Ended, IInv, NoForeignPdf
<1>6. OutputStep
  BY DEF Ended, OutputStep
<1> QED
  BY <1>1, <1>3, <1>4, <1>5, <1>6 DEF Ended, Sound, IInv

(* The step of an attempt that goes on, with its indicator or without.     *)
LEMMA ContinueStep ==
  ASSUME IInv, NEW a \in Attempt, attempts[a] # Idle, Others(a),
         FlightOK(attempts'[a], store'.gen, runs', output'),
         attempts'[a].intent = attempts[a].intent,
         attempts'[a].pc # "preparing", attempts'[a].lane = attempts[a].lane,
         attempts'[a].start = attempts[a].start,
         DOMAIN store' = StoreFields,
         store'.gen = store.gen, store'.active = store.active,
         store'.ck = store.ck, store'.pdf = store.pdf, store'.seq \in Nat,
         \/ store'.seq = store.seq
         \/ attempts[a].intent = store.gen,
         /\ attempts'[a].pc \in Late /\ attempts'[a].lane = "main"
         /\ attempts'[a].intent = store'.gen
         => attempts'[a].seq = store'.seq,
         \/ store'.status = store.status /\ store'.by = store.by
         \/ /\ store'.by.lane = attempts[a].lane
            /\ store'.by.gen = attempts[a].intent
            /\ attempts[a].lane = "main" =>
                 /\ store.active = attempts[a].intent
                 /\ ~Advanced(attempts[a].start, store.ck),
         EditorShape', FileShape', runs' \in Nat, runs <= runs',
         \A p \in Project : output[p] # None => output'[p] # None,
         editor'.project = editor.project,
         editor'.resetDue = editor.resetDue, UNCHANGED pane
  PROVE  Sound
<1>1. /\ AttemptShape /\ StoreOK(store, runs) /\ Indicator(store, attempts)
      /\ runs \in Nat
  BY DEF IInv, FileShape
<1>2. Flies(attempts[a]) /\ attempts[a].lane \in Lanes
      /\ attempts[a].intent \in Nat
  BY <1>1 DEF AttemptShape, FlightOK, Flies, Early, Late, Answered
<1>3. StoreOK(store, runs)'
  BY <1>1 DEF StoreOK, KnownBy, Ck
<1>4. AttemptShape' /\ OwnIntents'
  BY <1>1, <1>2, AttemptsKept DEF StoreOK
<1>5. LastSequence'
  BY <1>1, <1>2, SequenceKept DEF StoreOK
<1>6. NoForeignPdf'
  BY DEF IInv, NoForeignPdf
<1>7. Flies(attempts'[a])
  BY DEF FlightOK, Flies, Early, Late, Answered
<1>8. Indicator(store', attempts')
  <2>1. CASE store'.status = store.status /\ store'.by = store.by
    <3>1. SUFFICES ASSUME NEW b \in Attempt, Shows(store, attempts[b])
                   PROVE  Shows(store', attempts'[b])
      BY <1>1, <2>1 DEF Indicator
    <3>2. CASE b = a
      BY <1>7, <2>1, <3>1, <3>2 DEF Shows
    <3>3. CASE b # a
      BY <2>1, <3>1, <3>3 DEF Shows, Others
    <3> QED BY <3>2, <3>3
  <2>2. CASE /\ store'.by.lane = attempts[a].lane
             /\ store'.by.gen = attempts[a].intent
             /\ attempts[a].lane = "main" =>
                  /\ store.active = attempts[a].intent
                  /\ ~Advanced(attempts[a].start, store.ck)
    BY <1>2, <1>7, <2>2 DEF Indicator, Shows, Lanes
  <2> QED BY <2>1, <2>2
<1>9. LastOwns(store', attempts')
  <2>1. /\ Flies(attempts[a]) /\ attempts[a].lane = "main"
        /\ attempts[a].intent = store.gen
        => store.active = store.gen
    BY DEF IInv, LastOwns
  <2> QED BY <1>1, <1>2, <2>1, OwnsKept DEF StoreOK
<1> QED
  BY <1>3, <1>4, <1>5, <1>6, <1>8, <1>9
  DEF Sound, IInv, OutputStep, RerunStep
(* The tagged lane ends without touching the button.                       *)
LEMMA TaggedEnds ==
  ASSUME IInv, NEW a \in Attempt, attempts[a] # Idle,
         attempts[a].lane = "tagged",
         NEW s, DOMAIN s = StoreFields,
         s.active = store.active, s.gen = store.gen, Indicator(s, attempts),
         GiveUp(a, s)
  PROVE  Ended(a, s)
<1>1. store' = s /\ Others(a) /\ attempts'[a] = Idle
  BY PutFacts DEF GiveUp, IInv
<1>2. Indicator(store', attempts')
  BY <1>1 DEF Indicator, Shows, Others
<1>3. LastOwns(store', attempts')
  BY <1>1, OwnsKept DEF Flies, Idle, IInv, StoreOK
<1> QED BY <1>1, <1>2, <1>3 DEF Ended, RerunStep, IInv, StoreOK

-----------------------------------------------------------------------------
LEMMA InFlight ==
  ASSUME IInv, NEW a \in Attempt, attempts[a].pc # "idle"
  PROVE  /\ attempts[a] # Idle /\ Flies(attempts[a])
         /\ FlightOK(attempts[a], store.gen, runs, output)
BY DEF IInv, AttemptShape, Idle, Flies

LEMMA StoreFacts ==
  ASSUME IInv
  PROVE  /\ StoreOK(store, runs) /\ DOMAIN store = StoreFields
         /\ store.gen \in Nat /\ store.seq \in Nat /\ KnownBy(store.ck, runs)
         /\ Indicator(store, attempts) /\ runs \in Nat
         /\ AttemptShape /\ EditorShape /\ FileShape
BY DEF IInv, StoreOK, FileShape

LEMMA WithinShapes ==
  ASSUME IInv, Within
  PROVE  /\ EditorShape' /\ FileShape'
         /\ editor'.project = editor.project
         /\ editor'.resetDue = editor.resetDue
         /\ UNCHANGED <<output, runs, pane>> /\ runs' \in Nat /\ runs <= runs'
         /\ \A p \in Project : output[p] # None => output'[p] # None
BY DEF Within, IInv, EditorShape, FileShape

(* The ways most attempts are given up.                                    *)
LEMMA Aborted ==
  ASSUME IInv, NEW a \in Attempt, attempts[a].pc # "idle",
         NEW s, DOMAIN s = StoreFields, s.active = store.active,
         s.gen = store.gen, s.ck = store.ck, s.pdf = store.pdf,
         s.seq = store.seq,
         \/ s = store
         \/ s.status # "compiling",
         \/ GiveUp(a, Abort(s, attempts[a]))
         \/ attempts[a].lane = "tagged" /\ GiveUp(a, s),
         EditorShape', FileShape', editor'.project = editor.project,
         editor'.resetDue = editor.resetDue,
         UNCHANGED <<output, runs, pane>>
  PROVE  Sound
<1>1. Indicator(s, attempts)
  BY StoreFacts DEF Indicator
<1>2. Ended(a, s)
  BY <1>1, InFlight, AbortEnds, TaggedEnds
<1> QED BY <1>2, StoreFacts, EndStep

LEMMA Stopped ==
  ASSUME IInv, NEW a \in Attempt, attempts[a].pc # "idle",
         GiveUp(a, Stop(store, attempts[a])),
         EditorShape', FileShape', editor'.project = editor.project,
         editor'.resetDue = editor.resetDue,
         UNCHANGED <<output, runs, pane>>
  PROVE  Sound
BY InFlight, StoreFacts, Aborted DEF Stop, FlightOK, Lanes

LEMMA ShownAndStopped ==
  ASSUME IInv, NEW a \in Attempt, attempts[a].pc # "idle",
         NEW status, status # "compiling",
         LET s == Show(store, status, attempts[a]) IN
           \/ GiveUp(a, Abort(s, attempts[a]))
           \/ attempts[a].lane = "tagged" /\ GiveUp(a, s),
         Within
  PROVE  Sound
<1> DEFINE s == Show(store, status, attempts[a])
<1>1. /\ DOMAIN s = StoreFields /\ s.active = store.active
      /\ s.gen = store.gen /\ s.ck = store.ck /\ s.pdf = store.pdf
      /\ s.seq = store.seq /\ s.status = status
  BY StoreFacts, ShowFacts
<1> HIDE DEF s
<1> QED BY <1>1, WithinShapes, Aborted DEF s

(* An attempt goes on to its next await, and the store stays as it is.     *)
LEMMA GoesOn ==
  ASSUME IInv, NEW a \in Attempt, attempts[a].pc # "idle",
         NEW t, Put(a, t), UNCHANGED store,
         t.pc # "preparing", t.lane = attempts[a].lane,
         t.intent = attempts[a].intent, t.start = attempts[a].start,
         t.pc \in Late =>
           attempts[a].pc \in Late /\ t.seq = attempts[a].seq,
         EditorShape', FileShape', runs' \in Nat, runs <= runs',
         \A p \in Project : output[p] # None => output'[p] # None,
         FlightOK(t, store.gen, runs', output'),
         editor'.project = editor.project,
         editor'.resetDue = editor.resetDue, UNCHANGED pane
  PROVE  Sound
<1>1. Others(a) /\ attempts'[a] = t
  BY StoreFacts, PutFacts
<1>2. t.pc \in Late /\ t.lane = "main" /\ t.intent = store.gen
      => t.seq = store.seq
  BY DEF IInv, LastSequence
<1> QED BY <1>1, <1>2, InFlight, StoreFacts, ContinueStep

-----------------------------------------------------------------------------
(* One lemma per action of an attempt.                                     *)
LEMMA RecompileStep ==
  ASSUME IInv, NEW a \in Attempt, Recompile(a)
  PROVE  Sound
<1>1. Begin(store, a) /\ attempts[a] = Idle /\ Within
  BY DEF Recompile, Within
<1>2. Ended(a, store)
  <2>1. CASE store.active = None
    <3>1. store.status = "compiling" => store.by.lane = "tagged"
      <4>1. \A b \in Attempt : ~Shows(store, attempts[b])
        BY <2>1, InFlight, NoneFacts DEF Shows, Flies, FlightOK
      <4> QED BY <4>1, StoreFacts DEF Indicator
    <3> QED BY <1>1, <2>1, <3>1, StoreFacts, BeginEnds
  <2>2. CASE store.active # None
    <3>1. store' = [store EXCEPT !.rerun = TRUE] /\ Put(a, Idle)
      BY <1>1, <2>2 DEF Begin, GiveUp
    <3>2. /\ DOMAIN store' = StoreFields
          /\ store'.ck = store.ck /\ store'.pdf = store.pdf
          /\ store'.seq = store.seq /\ store'.gen = store.gen
          /\ store'.active = store.active /\ store'.status = store.status
          /\ store'.by = store.by
      BY <3>1, StoreFacts DEF StoreFields
    <3>3. Others(a) /\ attempts'[a] = Idle
      BY <3>1, StoreFacts, PutFacts
    <3>4. Indicator(store', attempts')
      BY <1>1, <3>2, <3>3, StoreFacts DEF Indicator, Shows, Others
    <3>5. LastOwns(store', attempts')
      BY <3>2, <3>3, StoreFacts, OwnsKept DEF Flies, Idle
    <3> QED
      BY <3>2, <3>3, <3>4, <3>5, StoreFacts DEF Ended, RerunStep, StoreOK
  <2> QED BY <2>1, <2>2
<1> QED BY <1>1, <1>2, StoreFacts, WithinShapes, EndStep

LEMMA PreparedStep ==
  ASSUME IInv, NEW a \in Attempt, Prepared(a)
  PROVE  Sound
<1> DEFINE t == attempts[a]
<1>1. /\ t.pc = "preparing" /\ Within
      /\ \/ GiveUp(a, Abort(Show(store, "unavailable", t), t))
         \/ GiveUp(a, Abort(store, t))
         \/ /\ GoOn(store, t) /\ store' = Show(store, "compiling", t)
            /\ Put(a, Saving(t))
  BY DEF Prepared, Within
<1>2. CASE \/ GiveUp(a, Abort(Show(store, "unavailable", t), t))
           \/ GiveUp(a, Abort(store, t))
  BY <1>1, <1>2, StoreFacts, WithinShapes, Aborted, ShownAndStopped
<1>3. CASE /\ GoOn(store, t) /\ store' = Show(store, "compiling", t)
           /\ Put(a, Saving(t))
  <2>1. /\ DOMAIN store' = StoreFields
        /\ store'.ck = store.ck /\ store'.pdf = store.pdf
        /\ store'.gen = store.gen /\ store'.seq = store.seq
        /\ store'.active = store.active
        /\ store'.by.gen = t.intent /\ store'.by.lane = t.lane
    BY <1>3, StoreFacts, ShowFacts
  <2>2. Others(a) /\ attempts'[a] = Saving(t)
    BY <1>3, StoreFacts, PutFacts
  <2>3. /\ FlightOK(attempts'[a], store'.gen, runs', output')
        /\ attempts'[a].pc = "saving" /\ attempts'[a].intent = t.intent
        /\ attempts'[a].lane = t.lane /\ attempts'[a].start = t.start
    BY <1>1, <2>1, <2>2, InFlight, StoreFacts, WithinShapes, SavingFacts
    DEF FlightOK, Early, Late, Answered
  <2>4. store.active = t.intent /\ ~Advanced(t.start, store.ck)
    BY <1>3 DEF GoOn, Matches
  <2> QED
    BY <1>1, <2>1, <2>2, <2>3, <2>4, InFlight, StoreFacts, WithinShapes,
       ContinueStep
    DEF Late, Answered
<1> QED BY <1>1, <1>2, <1>3
LEMMA SavedStep ==
  ASSUME IInv, NEW a \in Attempt, Saved(a)
  PROVE  Sound
<1> DEFINE t == attempts[a]
<1>1. /\ t.pc = "saving" /\ UNCHANGED <<output, runs, remote, pane>>
      /\ IF t.saved = None THEN UNCHANGED <<disk, editor>>
         ELSE /\ disk' = [disk EXCEPT ![t.project][t.file] = t.saved]
              /\ \/ editor' = [editor EXCEPT !.dirty = @ \ {t.file}]
                 \/ editor' = editor
  BY DEF Saved
<1>2. FlightOK(t, store.gen, runs, output)
  BY <1>1, InFlight
<1>3. /\ EditorShape' /\ editor'.project = editor.project
      /\ editor'.resetDue = editor.resetDue
  BY <1>1, StoreFacts DEF EditorShape, EditorFields
<1>4. disk' \in [Project -> [File -> Text]]
  <2>1. disk \in [Project -> [File -> Text]]
    BY StoreFacts DEF FileShape
  <2>2. /\ t.project \in Project /\ t.file \in File
        /\ t.saved # None => t.saved \in Text
    BY <1>1, <1>2 DEF FlightOK
  <2>3. CASE t.saved = None
    BY <1>1, <2>1, <2>3
  <2>4. CASE t.saved # None
    <3>1. [disk[t.project] EXCEPT ![t.file] = t.saved] \in [File -> Text]
      BY <2>1, <2>2, <2>4
    <3> QED BY <1>1, <2>1, <2>2, <2>4, <3>1
  <2> QED BY <2>3, <2>4
<1>5. FileShape'
  BY <1>1, <1>4, StoreFacts DEF FileShape
<1>6. CASE ~StillGoing(store, t)
  BY <1>1, <1>3, <1>5, <1>6, Stopped DEF Saved
<1>7. CASE StillGoing(store, t)
  <2> DEFINE u == IF t.lane = "main" THEN [t EXCEPT !.pc = "checking"]
                  ELSE [Capturing(t) EXCEPT !.rev = t.rev]
  <2>1. Put(a, u) /\ UNCHANGED store
    BY <1>7 DEF Saved
  <2>2. /\ FlightOK(u, store.gen, runs, output)
        /\ u.pc \in {"checking", "capturing"} /\ u.lane = t.lane
        /\ u.intent = t.intent /\ u.start = t.start
    BY <1>2, StoreFacts, CapturingFacts
    DEF FlightOK, AttemptFields, Early, Late, Answered
  <2> HIDE DEF u
  <2> QED
    BY <1>1, <1>3, <1>5, <2>1, <2>2, StoreFacts, GoesOn DEF Late, Answered
<1> QED BY <1>6, <1>7

LEMMA SaveFailsStep ==
  ASSUME IInv, NEW a \in Attempt, SaveFails(a)
  PROVE  Sound
<1> DEFINE t == attempts[a]
           s == Show(store, "error", t)
<1>1. /\ t.pc = "saving" /\ Within
      /\ GiveUp(a, IF t.lane = "main" THEN Abort(s, t)
                   ELSE IF Wanted(store, t) THEN s ELSE store)
  BY DEF SaveFails, Within
<1>2. t.lane \in Lanes
  BY <1>1, InFlight DEF FlightOK
<1>3. \/ GiveUp(a, Abort(s, t))
      \/ t.lane = "tagged" /\ GiveUp(a, s)
      \/ t.lane = "tagged" /\ GiveUp(a, store)
  BY <1>1, <1>2 DEF Lanes
<1> HIDE DEF s
<1>4. CASE t.lane = "tagged" /\ GiveUp(a, store)
  BY <1>1, <1>4, StoreFacts, WithinShapes, Aborted
<1>5. CASE \/ GiveUp(a, Abort(s, t))
           \/ t.lane = "tagged" /\ GiveUp(a, s)
  BY <1>1, <1>5, ShownAndStopped DEF s
<1> QED BY <1>3, <1>4, <1>5

(* The capture begins, or the compile is no longer wanted.                 *)
LEMMA CaptureStep ==
  ASSUME IInv, NEW a \in Attempt, attempts[a].pc # "idle",
         StartCapture(a, attempts[a]), Within
  PROVE  Sound
<1> DEFINE t == attempts[a]
<1>1. CASE GiveUp(a, Abort(store, t))
  BY <1>1, StoreFacts, WithinShapes, Aborted
<1>2. CASE Put(a, Capturing(t)) /\ UNCHANGED store
  <2>1. FlightOK(Capturing(t), store.gen, runs, output)
    BY InFlight, StoreFacts, CapturingFacts
    DEF FlightOK, Early, Late, Answered
  <2>2. DOMAIN t = AttemptFields
    BY InFlight DEF FlightOK
  <2> QED
    BY <1>2, <2>1, <2>2, StoreFacts, WithinShapes, CapturingFacts, GoesOn
    DEF Late, Answered, Within
<1> QED BY <1>1, <1>2 DEF StartCapture

LEMMA CheckedStep ==
  ASSUME IInv, NEW a \in Attempt, Checked(a)
  PROVE  Sound
<1> DEFINE t == attempts[a]
           u == [t EXCEPT !.pc = "clearing"]
<1>1. t.pc = "checking" /\ Within
  BY DEF Checked, Within
<1>2. \/ GiveUp(a, Abort(store, t))
      \/ GiveUp(a, Abort(Show(store, "error", t), t))
      \/ Put(a, u) /\ UNCHANGED store
      \/ StartCapture(a, t)
  BY DEF Checked
<1>3. /\ FlightOK(u, store.gen, runs, output)
      /\ u.pc = "clearing" /\ u.lane = t.lane
      /\ u.intent = t.intent /\ u.start = t.start
  BY <1>1, InFlight
  DEF FlightOK, AttemptFields, Early, Late, Answered
<1> HIDE DEF u
<1>4. CASE Put(a, u) /\ UNCHANGED store
  BY <1>1, <1>3, <1>4, StoreFacts, WithinShapes, GoesOn
  DEF Late, Answered, Within
<1>5. CASE \/ GiveUp(a, Abort(store, t))
           \/ GiveUp(a, Abort(Show(store, "error", t), t))
  BY <1>1, <1>5, StoreFacts, WithinShapes, Aborted, ShownAndStopped
<1> QED BY <1>1, <1>2, <1>4, <1>5, CaptureStep

LEMMA ClearedStep ==
  ASSUME IInv, NEW a \in Attempt, Cleared(a)
  PROVE  Sound
<1>1. /\ attempts[a].pc = "clearing" /\ Within
      /\ \/ GiveUp(a, Abort(store, attempts[a]))
         \/ StartCapture(a, attempts[a])
  BY DEF Cleared, Within
<1> QED BY <1>1, StoreFacts, WithinShapes, Aborted, CaptureStep
(* The request is sent, if nothing changed since the intent was given out. *)
LEMMA MainCapturedStep ==
  ASSUME IInv, NEW a \in Attempt, MainCaptured(a)
  PROVE  Sound
<1> DEFINE t == attempts[a]
           u == [t EXCEPT !.sources = Captured(t), !.seq = store.seq + 1,
                          !.pc = "listening"]
           s == [store EXCEPT !.seq = @ + 1]
<1>1. /\ t.pc = "capturing" /\ t.lane = "main" /\ Within
      /\ IF ~IdentityCurrent(store, u) THEN GiveUp(a, Abort(store, u))
         ELSE IF Advanced(u.start, store.ck) THEN GiveUp(a, Abort(s, u))
         ELSE store' = Show(s, "compiling", u) /\ Put(a, u)
  BY DEF MainCaptured, Within
<1>2. /\ FlightOK(t, store.gen, runs, output) /\ t # Idle /\ Flies(t)
  BY <1>1, InFlight
<1>3. /\ FlightOK(u, store.gen, runs, output)
      /\ u.pc = "listening" /\ u.seq = store.seq + 1
      /\ u.lane = t.lane /\ u.intent = t.intent /\ u.start = t.start
  BY <1>2 DEF FlightOK, AttemptFields, Early, Late, Answered
<1>4. /\ DOMAIN s = StoreFields
      /\ s.ck = store.ck /\ s.pdf = store.pdf /\ s.gen = store.gen
      /\ s.seq = store.seq + 1 /\ s.active = store.active
      /\ s.status = store.status /\ s.by = store.by
  BY StoreFacts DEF StoreFields
<1> HIDE DEF u, s
<1>5. \A r : Abort(r, u) = Abort(r, t)
  BY <1>3 DEF Abort
<1>6. IdentityCurrent(store, u) => t.intent = store.gen
  BY <1>3 DEF IdentityCurrent, Wanted
<1>7. CASE ~IdentityCurrent(store, u)
  BY <1>1, <1>5, <1>7, StoreFacts, WithinShapes, Aborted
<1>8. CASE IdentityCurrent(store, u) /\ Advanced(u.start, store.ck)
  <2>1. GiveUp(a, Abort(s, t))
    BY <1>1, <1>5, <1>8
  <2>2. Indicator(s, attempts)
    BY <1>4, StoreFacts DEF Indicator, Shows
  <2>3. Ended(a, s)
    BY <1>2, <1>4, <2>1, <2>2, AbortEnds
  <2> QED
    BY <1>1, <1>2, <1>4, <1>6, <1>8, <2>3, StoreFacts, WithinShapes, EndStep
<1>9. CASE IdentityCurrent(store, u) /\ ~Advanced(u.start, store.ck)
  <2>1. store' = Show(s, "compiling", u) /\ Put(a, u)
    BY <1>1, <1>9
  <2>2. /\ DOMAIN store' = StoreFields
        /\ store'.ck = store.ck /\ store'.pdf = store.pdf
        /\ store'.gen = store.gen /\ store'.seq = store.seq + 1
        /\ store'.active = store.active
        /\ store'.by.gen = t.intent /\ store'.by.lane = t.lane
    BY <1>3, <1>4, <2>1, ShowFacts
  <2>3. Others(a) /\ attempts'[a] = u
    BY <2>1, StoreFacts, PutFacts
  <2>4. store.active = t.intent /\ ~Advanced(t.start, store.ck)
    BY <1>1, <1>2, <1>3, <1>6, <1>9 DEF IInv, LastOwns
  <2>5. store'.seq \in Nat
    BY <2>2, StoreFacts
  <2>6. FlightOK(attempts'[a], store'.gen, runs', output')
    BY <1>1, <1>3, <2>2, <2>3, WithinShapes
  <2> QED
    BY <1>1, <1>2, <1>3, <1>6, <1>9, <2>2, <2>3, <2>4, <2>5, <2>6,
       StoreFacts, WithinShapes, ContinueStep
    DEF Within
<1> QED BY <1>7, <1>8, <1>9

LEMMA ListeningStep ==
  ASSUME IInv, NEW a \in Attempt, Listening(a)
  PROVE  Sound
<1> DEFINE t == attempts[a]
           u == [t EXCEPT !.pc = "building"]
<1>1. /\ t.pc = "listening" /\ Within
      /\ \/ /\ Stale(store, t) \/ Advanced(t.start, store.ck)
            /\ Finish(store, a)
         \/ Put(a, u) /\ UNCHANGED store
  BY DEF Listening, Within
<1>2. CASE /\ Stale(store, t) \/ Advanced(t.start, store.ck)
           /\ Finish(store, a)
  <2>1. Ended(a, store)
    BY <1>1, <1>2, InFlight, StoreFacts, FinishEnds
  <2> QED BY <2>1, <1>1, StoreFacts, WithinShapes, EndStep
<1>3. CASE Put(a, u) /\ UNCHANGED store
  <2>1. /\ FlightOK(u, store.gen, runs, output) /\ u.seq = t.seq
        /\ u.pc = "building" /\ u.lane = t.lane
        /\ u.intent = t.intent /\ u.start = t.start
    BY <1>1, InFlight
    DEF FlightOK, AttemptFields, Early, Late, Answered
  <2> HIDE DEF u
  <2> QED
    BY <1>1, <1>3, <2>1, StoreFacts, WithinShapes, GoesOn
    DEF Late, Answered, Within
<1> QED BY <1>1, <1>2, <1>3

LEMMA TaggedCapturedStep ==
  ASSUME IInv, NEW a \in Attempt, TaggedCaptured(a)
  PROVE  Sound
<1> DEFINE t == attempts[a]
           u == [t EXCEPT !.sources = Captured(t), !.pc = "building"]
<1>1. /\ t.pc = "capturing" /\ t.lane = "tagged" /\ Within
      /\ \/ GiveUp(a, store)
         \/ store' = Show(store, "compiling", u) /\ Put(a, u)
  BY DEF TaggedCaptured, Within
<1>2. CASE GiveUp(a, store)
  BY <1>1, <1>2, StoreFacts, WithinShapes, Aborted
<1>3. CASE store' = Show(store, "compiling", u) /\ Put(a, u)
  <2>1. /\ FlightOK(u, store.gen, runs, output)
        /\ u.pc = "building" /\ u.lane = t.lane
        /\ u.intent = t.intent /\ u.start = t.start
    BY <1>1, InFlight
    DEF FlightOK, AttemptFields, Early, Late, Answered
  <2> HIDE DEF u
  <2>2. /\ DOMAIN store' = StoreFields
        /\ store'.ck = store.ck /\ store'.pdf = store.pdf
        /\ store'.gen = store.gen /\ store'.seq = store.seq
        /\ store'.active = store.active
        /\ store'.by.gen = t.intent /\ store'.by.lane = t.lane
    BY <1>3, <2>1, StoreFacts, ShowFacts
  <2>3. Others(a) /\ attempts'[a] = u
    BY <1>3, StoreFacts, PutFacts
  <2>4. FlightOK(attempts'[a], store'.gen, runs', output')
    BY <2>1, <2>2, <2>3, <1>1, WithinShapes
  <2> QED
    BY <1>1, <2>1, <2>2, <2>3, <2>4, InFlight, StoreFacts, WithinShapes,
       ContinueStep
    DEF Within
<1> QED BY <1>1, <1>2, <1>3

LEMMA CompileTaggedStep ==
  ASSUME IInv, NEW a \in Attempt, CompileTagged(a)
  PROVE  Sound
<1> DEFINE q == Request(store, "tagged")
           t == [Saving(q) EXCEPT !.seq = store.seq]
<1>1. /\ attempts[a] = Idle /\ Within
      /\ store' = [store EXCEPT !.gen = t.intent] /\ Put(a, t)
  BY DEF CompileTagged, Within
<1>2. /\ FlightOK(Saving(q), store.gen + 1, runs, output)
      /\ Saving(q).intent = store.gen + 1 /\ Saving(q).lane = "tagged"
      /\ Saving(q).pc = "saving"
  BY StoreFacts, Started, RequestFacts, SavingFacts DEF Lanes
<1>3. /\ FlightOK(t, store.gen + 1, runs, output)
      /\ t.intent = store.gen + 1 /\ t.lane = "tagged" /\ t.pc = "saving"
  BY <1>2 DEF FlightOK, AttemptFields, Early, Late, Answered
<1> HIDE DEF t
<1>4. /\ DOMAIN store' = StoreFields
      /\ store'.ck = store.ck /\ store'.pdf = store.pdf
      /\ store'.seq = store.seq /\ store'.gen = store.gen + 1
      /\ store'.active = store.active /\ store'.status = store.status
      /\ store'.by = store.by
  BY <1>1, <1>3, StoreFacts DEF StoreFields
<1>5. Others(a) /\ attempts'[a] = t
  BY <1>1, StoreFacts, PutFacts
<1>6. Indicator(store', attempts')
  BY <1>1, <1>4, <1>5, StoreFacts
  DEF Indicator, Shows, Others, Flies, Idle
<1>7. LastOwns(store', attempts')
  BY <1>3, <1>4, <1>5, StoreFacts, OwnsKept
<1>8. Ended(a, store)
  BY <1>3, <1>4, <1>5, <1>6, <1>7, StoreFacts
  DEF Ended, RerunStep, StoreOK, Early
<1> QED BY <1>1, <1>8, StoreFacts, WithinShapes, EndStep
(* The compiler answers, with a newer output of the project or without.    *)
LEMMA CompilesStep ==
  ASSUME IInv, NEW a \in Attempt, Compiles(a)
  PROVE  Sound
<1> DEFINE t == attempts[a]
           Replied(r) == [t EXCEPT !.pc = "replied", !.reply = r]
<1>1. t.pc = "building" /\ UNCHANGED <<disk, editor, store, remote, pane>>
  BY DEF Compiles
<1>2. FlightOK(t, store.gen, runs, output)
  BY <1>1, InFlight
<1>3. EditorShape'
  BY <1>1, StoreFacts DEF EditorShape
<1>4. ASSUME NEW r, Put(a, Replied(r)), FileShape', runs' \in Nat,
             runs <= runs',
             \A p \in Project : output[p] # None => output'[p] # None,
             ReplyOK(Replied(r), runs', output')
      PROVE  Sound
  <2> DEFINE u == Replied(r)
  <2>1. FlightOK(t, store.gen, runs', output')
    BY <1>2, <1>4, StoreFacts, FlightKept
  <2>2. /\ FlightOK(u, store.gen, runs', output') /\ u.seq = t.seq
        /\ u.pc = "replied" /\ u.lane = t.lane
        /\ u.intent = t.intent /\ u.start = t.start
    BY <1>4, <2>1
    DEF FlightOK, AttemptFields, Early, Late, Answered
  <2> HIDE DEF u
  <2>3. Put(a, u)
    BY <1>4 DEF u
  <2> QED
    BY <1>1, <1>3, <1>4, <2>2, <2>3, GoesOn DEF Late, Answered
<1>5. CASE /\ \/ Put(a, Replied([kind |-> "rejected"]))
              \/ Put(a, Replied([kind |-> "done", ok |-> FALSE,
                                 run |-> None]))
           /\ UNCHANGED <<output, runs>>
  <2>1. FileShape' /\ runs' \in Nat /\ runs <= runs'
    BY <1>1, <1>5, StoreFacts DEF FileShape
  <2>2. /\ ReplyOK(Replied([kind |-> "rejected"]), runs', output')
        /\ ReplyOK(Replied([kind |-> "done", ok |-> FALSE, run |-> None]),
                   runs', output')
    BY <1>2 DEF ReplyOK, FlightOK, AttemptFields
  <2> HIDE DEF Replied
  <2> QED BY <1>4, <1>5, <2>1, <2>2
<1>6. ASSUME NEW ok \in BOOLEAN,
             Put(a, Replied([kind |-> "done", ok |-> ok, run |-> runs + 1])),
             output' = [output EXCEPT ![t.project] = Pdf(t.project, t.doc)],
             runs' = runs + 1
      PROVE  Sound
  <2>1. t.project \in Project /\ t.doc \in File /\ KnownBy(t.start, runs)
    BY <1>2 DEF FlightOK
  <2>2. /\ Pdf(t.project, t.doc) \in Bytes
        /\ Pdf(t.project, t.doc).project = t.project
    BY <2>1, StoreFacts DEF Pdf, Bytes, FileShape
  <2>3. FileShape'
    BY <1>1, <1>6, <2>1, <2>2, StoreFacts DEF FileShape, Ck
  <2>4. /\ \A p \in Project : output[p] # None => output'[p] # None
        /\ output'[t.project] # None
    BY <1>6, <2>1, <2>2, StoreFacts, NoneFacts DEF FileShape
  <2>5. ReplyOK(Replied([kind |-> "done", ok |-> ok, run |-> runs + 1]),
                runs', output')
    BY <1>2, <1>6, <2>1, <2>4, StoreFacts, NoneFacts
    DEF ReplyOK, FlightOK, AttemptFields, KnownBy, Ck
  <2>6. runs' \in Nat /\ runs <= runs'
    BY <1>6, StoreFacts
  <2> HIDE DEF Replied
  <2> QED BY <1>4, <1>6, <2>3, <2>4, <2>5, <2>6
<1> HIDE DEF Replied
<1>7. \/ /\ \/ Put(a, Replied([kind |-> "rejected"]))
            \/ Put(a, Replied([kind |-> "done", ok |-> FALSE,
                               run |-> None]))
         /\ UNCHANGED <<output, runs>>
      \/ \E ok \in BOOLEAN :
           /\ Put(a, Replied([kind |-> "done", ok |-> ok, run |-> runs + 1]))
           /\ output' = [output EXCEPT ![t.project] = Pdf(t.project, t.doc)]
           /\ runs' = runs + 1
  BY DEF Compiles, Replied
<1> QED BY <1>5, <1>6, <1>7

(* What a result does to the store fits the end of its attempt, and the    *)
(* result is accepted unless there is something newer.                     *)
LEMMA AppliedEnds ==
  ASSUME IInv, NEW a \in Attempt, attempts[a].pc \in Answered,
         attempts[a].reply.kind = "done", NEW bytes,
         \/ bytes = None /\ (attempts[a].reply.ok => FALSE)
         \/ bytes = None /\ attempts[a].pc = "reading"
         \/ /\ bytes \in Bytes /\ bytes.project = editor.project
            /\ attempts[a].pc = "reading"
            /\ bytes.run = attempts[a].reply.run,
         Within,
         LET s == Applied(store, attempts[a], bytes) IN
           \/ Finish(s, a)
           \/ attempts[a].lane = "tagged" /\ GiveUp(a, s)
  PROVE  /\ Sound
         /\ attempts[a].reply.ok /\ bytes # None =>
              store'.ck # None /\ store'.ck.out >= attempts[a].reply.run
<1> DEFINE t == attempts[a]
           s == Applied(store, t, bytes)
           ck == IF t.reply.ok /\ bytes # None
                 THEN Checkpoint(t, bytes.run) ELSE None
<1>1. /\ FlightOK(t, store.gen, runs, output) /\ t # Idle
      /\ ReplyOK(t, runs, output)
  BY InFlight DEF Answered, FlightOK
<1>2. ck # None => /\ ck \in Ck /\ ck.out = t.reply.run /\ ck.out <= runs
                   /\ t.start # None => ck.out > t.start.out
  <2>1. SUFFICES ASSUME ck # None
                 PROVE  /\ ck \in Ck /\ ck.out = t.reply.run /\ ck.out <= runs
                        /\ t.start # None => ck.out > t.start.out
    OBVIOUS
  <2>2. /\ ck = Checkpoint(t, bytes.run) /\ bytes.run = t.reply.run
        /\ t.reply.run # None
    BY <1>1, <2>1 DEF FlightOK
  <2>3. /\ t.reply.run \in Nat /\ t.reply.run <= runs
        /\ t.start # None => t.reply.run > t.start.out
    BY <1>1, <2>2 DEF ReplyOK
  <2> HIDE DEF ck
  <2> QED BY <1>1, <2>2, <2>3, CheckpointFacts DEF FlightOK
<1>3. /\ DOMAIN s = StoreFields
      /\ s.gen = store.gen /\ s.seq = store.seq /\ s.active = store.active
      /\ \/ s = store /\ ~CanApply(ck, store.ck, t.start)
         \/ /\ CanApply(ck, store.ck, t.start)
            /\ s.ck = (IF ck # None THEN ck ELSE store.ck)
            /\ s.pdf = (IF bytes # None THEN bytes ELSE store.pdf)
            /\ s.status \in {"success", "error"}
  BY StoreFacts, AppliedFacts
<1> HIDE DEF s, ck
<1>4. Indicator(s, attempts)
  BY <1>3, StoreFacts DEF Indicator
<1>5. KnownBy(s.ck, runs)
  BY <1>2, <1>3, StoreFacts DEF KnownBy
<1>6. s.ck # store.ck => s.ck # None /\ IsNewer(s.ck, store.ck)
  BY <1>3 DEF CanApply
(* Nothing newer was accepted, so this is newer.                           *)
<1>7. s = store => Advanced(t.start, store.ck)
                   \/ s.status # "compiling"
  <2>1. SUFFICES ASSUME ~CanApply(ck, store.ck, t.start),
                        ~Advanced(t.start, store.ck)
                 PROVE  FALSE
    BY <1>3
  <2>2. ck # None /\ store.ck # None /\ ck.out <= store.ck.out
    BY <1>2, <2>1, StoreFacts DEF CanApply, IsNewer, KnownBy, Ck
  <2>3. t.start # None /\ store.ck.out <= t.start.out
    BY <1>1, <2>1, <2>2, StoreFacts
    DEF Advanced, IsNewer, KnownBy, FlightOK, Ck
  <2> QED
    BY <1>1, <1>2, <2>2, <2>3, StoreFacts DEF KnownBy, FlightOK, Ck
<1>8. Ended(a, s)
  <2>1. CASE Finish(s, a)
    <3>1. StoreOK(s, runs)
      BY <1>3, <1>5, StoreFacts DEF StoreOK
    <3>2. s.status = "compiling" => Advanced(t.start, s.ck)
      BY <1>3, <1>7
    <3> QED BY <1>1, <1>3, <1>4, <2>1, <3>1, <3>2, FinishEnds
  <2>2. CASE t.lane = "tagged" /\ GiveUp(a, s)
    BY <1>1, <1>3, <1>4, <2>2, TaggedEnds
  <2> QED BY <2>1, <2>2 DEF s
<1>9. \/ s.pdf = store.pdf
      \/ s.pdf # None => s.pdf.project = editor.project
  BY <1>3
<1>10. Sound
  BY <1>3, <1>5, <1>6, <1>8, <1>9, StoreFacts, WithinShapes, EndStep
<1>11. ASSUME t.reply.ok, bytes # None
       PROVE  store'.ck # None /\ store'.ck.out >= t.reply.run
  <2>1. store'.ck = s.ck
    BY <1>8 DEF Ended
  <2>2. ck # None
    BY <1>1, <1>11, CheckpointFacts, NoneFacts
    DEF ck, ReplyOK, FlightOK, Bytes
  <2>3. CASE s.ck = ck
    BY <1>2, <2>1, <2>2, <2>3 DEF Ck
  <2>4. CASE s = store /\ ~CanApply(ck, store.ck, t.start)
    BY <1>2, <2>1, <2>2, <2>4, StoreFacts
    DEF CanApply, IsNewer, KnownBy, Ck
  <2> QED BY <1>3, <2>2, <2>3, <2>4
<1> QED BY <1>10, <1>11

LEMMA RepliedStep ==
  ASSUME IInv, NEW a \in Attempt, MainReplied(a) \/ TaggedReplied(a)
  PROVE  Sound
<1> DEFINE t == attempts[a]
           u == [t EXCEPT !.pc = "reading"]
<1>1. /\ t.pc = "replied" /\ Within
      /\ FlightOK(t, store.gen, runs, output) /\ t # Idle
      /\ ReplyOK(t, runs, output)
  BY InFlight DEF MainReplied, TaggedReplied, Within, FlightOK, Answered
<1>2. ASSUME t.reply.kind = "done", t.reply.run # None,
             Put(a, u), UNCHANGED store
      PROVE  Sound
  <2>1. /\ FlightOK(u, store.gen, runs, output) /\ u.seq = t.seq
        /\ u.pc = "reading" /\ u.lane = t.lane
        /\ u.intent = t.intent /\ u.start = t.start
    BY <1>1, <1>2
    DEF FlightOK, ReplyOK, AttemptFields, Early, Late, Answered
  <2> HIDE DEF u
  <2> QED
    BY <1>1, <1>2, <2>1, StoreFacts, WithinShapes, GoesOn
    DEF Late, Answered, Within
<1>3. ASSUME t.reply.kind = "done", t.reply.run = None,
             LET s == Applied(store, t, None) IN
               Finish(s, a) \/ (t.lane = "tagged" /\ GiveUp(a, s))
      PROVE  Sound
  <2>1. ~t.reply.ok
    BY <1>1, <1>3 DEF ReplyOK
  <2> QED BY <1>1, <1>3, <2>1, AppliedEnds DEF Answered
<1>4. ASSUME NEW s, Finish(s, a),
             s = [store EXCEPT !.status = "error"]
             \/ (s = store /\ (Stale(store, t)
                               \/ Advanced(t.start, store.ck)))
             \/ (s = [store EXCEPT !.rerun = FALSE] /\ Stale(store, t))
             \/ s = [store EXCEPT !.rerun = FALSE,
                                  !.status = IF store.ck # None
                                             THEN "success" ELSE "idle"]
      PROVE  Sound
  <2>1. /\ DOMAIN s = StoreFields
        /\ s.ck = store.ck /\ s.pdf = store.pdf /\ s.gen = store.gen
        /\ s.seq = store.seq /\ s.active = store.active /\ s.by = store.by
        /\ \/ s.status # "compiling"
           \/ /\ s.status = store.status
              /\ Stale(store, t) \/ Advanced(t.start, store.ck)
    BY <1>4, StoreFacts DEF StoreFields
  <2>2. Indicator(s, attempts) /\ StoreOK(s, runs)
    BY <2>1, StoreFacts DEF Indicator, Shows, StoreOK
  <2>3. Stale(s, t) <=> Stale(store, t)
    BY <2>1 DEF Stale, Wanted
  <2>4. Ended(a, s)
    BY <1>1, <1>4, <2>1, <2>2, <2>3, FinishEnds
  <2> QED BY <1>1, <2>1, <2>4, StoreFacts, WithinShapes, EndStep
<1>5. CASE MainReplied(a)
  <2>1. t.reply.kind \in {"stopped", "rejected", "done"}
    BY <1>1 DEF ReplyOK
  <2>2. CASE t.reply.kind = "rejected"
    <3>1. Finish(IF Stale(store, t) \/ Advanced(t.start, store.ck) THEN store
                 ELSE [store EXCEPT !.status = "error"], a)
      BY <1>5, <2>2 DEF MainReplied
    <3> QED BY <1>4, <3>1
  <2>3. CASE t.reply.kind = "stopped"
    <3>1. Finish(IF Stale(store, t) THEN [store EXCEPT !.rerun = FALSE]
                 ELSE [store EXCEPT
                        !.rerun = FALSE,
                        !.status = IF store.ck # None THEN "success"
                                   ELSE "idle"], a)
      BY <1>5, <2>3 DEF MainReplied
    <3> QED BY <1>4, <3>1
  <2>4. CASE t.reply.kind = "done"
    <3>1. IF TooLate(store, t) THEN Finish(store, a)
          ELSE IF t.reply.run = None THEN Finish(Applied(store, t, None), a)
          ELSE Put(a, u) /\ UNCHANGED store
      BY <1>5, <2>4 DEF MainReplied
    <3>2. TooLate(store, t) =>
            Stale(store, t) \/ Advanced(t.start, store.ck)
      BY <1>5 DEF TooLate, MainReplied
    <3> QED BY <1>2, <1>3, <1>4, <2>4, <3>1, <3>2
  <2> QED BY <2>1, <2>2, <2>3, <2>4
<1>6. CASE TaggedReplied(a)
  <2>1. t.lane = "tagged"
    BY <1>6 DEF TaggedReplied
  <2>2. \/ GiveUp(a, Show(store, "error", t))
        \/ GiveUp(a, store)
        \/ /\ t.reply.kind # "rejected" /\ ~TooLate(store, t)
           /\ \/ t.reply.run = None /\ GiveUp(a, Applied(store, t, None))
              \/ t.reply.run # None /\ Put(a, u) /\ UNCHANGED store
    BY <1>6 DEF TaggedReplied
  <2>3. t.reply.kind \in {"rejected", "done"}
    BY <1>1, <2>1 DEF ReplyOK
  <2>4. CASE GiveUp(a, Show(store, "error", t)) \/ GiveUp(a, store)
    BY <1>1, <2>1, <2>4, StoreFacts, WithinShapes, Aborted, ShownAndStopped
  <2> QED BY <1>2, <1>3, <2>1, <2>2, <2>3, <2>4
<1> QED BY <1>5, <1>6
LEMMA PdfReadStep ==
  ASSUME IInv, NEW a \in Attempt, PdfRead(a)
  PROVE  Sound
<1> DEFINE t == attempts[a]
           bytes == IF output[t.project].run = t.reply.run
                    THEN output[t.project] ELSE None
<1>1. /\ t.pc = "reading" /\ Within
      /\ FlightOK(t, store.gen, runs, output) /\ t # Idle
      /\ ReplyOK(t, runs, output) /\ t.reply.kind = "done"
  BY InFlight DEF PdfRead, Within, FlightOK, Answered
<1>2. /\ output[t.project] \in Bytes
      /\ output[t.project].project = t.project
  BY <1>1, StoreFacts DEF ReplyOK, FlightOK, FileShape
<1>3. ASSUME Wanted(store, t),
             LET s == Applied(store, t, bytes) IN
               Finish(s, a) \/ (t.lane = "tagged" /\ GiveUp(a, s))
      PROVE  Sound
  <2>1. t.project = editor.project
    BY <1>3 DEF Wanted
  <2>2. \/ bytes = None
        \/ /\ bytes \in Bytes /\ bytes.project = editor.project
           /\ bytes.run = t.reply.run
    BY <1>2, <2>1
  <2> HIDE DEF bytes
  <2> QED BY <1>1, <1>3, <2>2, AppliedEnds DEF Answered
<1>4. CASE t.lane = "tagged"
  <2>1. CASE GiveUp(a, store)
    BY <1>1, <1>4, <2>1, StoreFacts, WithinShapes, Aborted
  <2>2. CASE Wanted(store, t) /\ GiveUp(a, Applied(store, t, bytes))
    BY <1>3, <1>4, <2>2
  <2> QED BY <1>4, <2>1, <2>2 DEF PdfRead
<1>5. CASE t.lane = "main"
  <2>1. CASE Stale(store, t) /\ Finish(store, a)
    <3>1. Ended(a, store)
      BY <1>1, <2>1, StoreFacts, FinishEnds
    <3> QED BY <1>1, <3>1, StoreFacts, WithinShapes, EndStep
  <2>2. CASE ~Stale(store, t) /\ Finish(Applied(store, t, bytes), a)
    BY <1>3, <2>2 DEF Stale
  <2> QED BY <1>5, <2>1, <2>2 DEF PdfRead
<1> QED BY <1>1, <1>4, <1>5 DEF FlightOK, Lanes

LEMMA ProgressStep ==
  ASSUME IInv, NEW a \in Attempt, Progress(a)
  PROVE  Sound
BY PreparedStep, SavedStep, SaveFailsStep, CheckedStep, ClearedStep,
   MainCapturedStep, TaggedCapturedStep, ListeningStep, CompilesStep,
   RepliedStep, PdfReadStep
DEF Progress

-----------------------------------------------------------------------------
(* The other actions, which leave the attempts as they are.                *)
LEMMA AttemptsStay ==
  ASSUME IInv, UNCHANGED attempts,
         store'.gen \in Nat, store.gen <= store'.gen,
         \/ store'.gen > store.gen
         \/ store'.seq = store.seq /\ store'.active = store.active,
         runs' \in Nat, runs <= runs',
         \A p \in Project : output[p] # None => output'[p] # None
  PROVE  AttemptShape' /\ OwnIntents' /\ LastSequence'
         /\ LastOwns(store', attempts')
<1>1. /\ store.gen \in Nat /\ runs \in Nat /\ AttemptShape /\ OwnIntents
      /\ LastSequence /\ LastOwns(store, attempts)
  BY DEF IInv, StoreOK, FileShape
<1>2. AttemptShape'
  BY <1>1, FlightKept DEF AttemptShape
<1>3. OwnIntents'
  BY <1>1 DEF OwnIntents
<1>4. \A a \in Attempt : Flies(attempts[a]) =>
        attempts[a].intent \in Nat /\ attempts[a].intent <= store.gen
  BY <1>1 DEF AttemptShape, FlightOK, Flies, Idle
<1>5. LastSequence'
  BY <1>1, <1>4 DEF LastSequence, Flies, Late, Answered
<1>6. LastOwns(store', attempts')
  BY <1>1, <1>4 DEF LastOwns
<1> QED BY <1>2, <1>3, <1>5, <1>6

(* The store keeps what the invariant is about.                            *)
LEMMA QuietStep ==
  ASSUME IInv, UNCHANGED attempts, DOMAIN store' = StoreFields,
         store'.ck = store.ck, store'.gen = store.gen,
         store'.seq = store.seq, store'.active = store.active,
         store'.status = store.status, store'.by = store.by,
         EditorShape', FileShape', runs <= runs',
         \A p \in Project : output[p] # None => output'[p] # None,
         NoForeignPdf'
  PROVE  Sound
<1>1. runs' \in Nat /\ StoreOK(store, runs)'
  BY StoreFacts DEF FileShape, StoreOK, KnownBy, Ck
<1>2. Indicator(store', attempts')
  BY StoreFacts DEF Indicator, Shows
<1>3. AttemptShape' /\ OwnIntents' /\ LastSequence'
      /\ LastOwns(store', attempts')
  BY <1>1, StoreFacts, AttemptsStay
<1> QED
  BY <1>1, <1>2, <1>3 DEF Sound, IInv, OutputStep, RerunStep

LEMMA ResetStep ==
  ASSUME IInv, UNCHANGED <<disk, attempts, output, runs, remote>>,
         store' = ResetStore(store), EditorShape', NoForeignPdf'
  PROVE  Sound
<1>1. /\ DOMAIN store' = StoreFields
      /\ store'.ck = None /\ store'.gen = store.gen + 1
      /\ store'.seq = store.seq + 1 /\ store'.active = None
      /\ store'.status = "idle" /\ ~store'.rerun
  BY StoreFacts DEF ResetStore, StoreFields
<1>2. FileShape' /\ StoreOK(store, runs)'
  BY <1>1, StoreFacts DEF FileShape, StoreOK, KnownBy
<1>3. AttemptShape' /\ OwnIntents' /\ LastSequence'
      /\ LastOwns(store', attempts')
  BY <1>1, StoreFacts, AttemptsStay
<1> QED
  BY <1>1, <1>2, <1>3, StoreFacts
  DEF Sound, IInv, OutputStep, RerunStep, Indicator
LEMMA EditorSteps ==
  ASSUME IInv,
         \/ Edit
         \/ \E f \in File : Autosave(f) \/ SwitchTab(f)
         \/ \E p \in Project : SwitchProject(p)
  PROVE  Sound
<1>1. UNCHANGED <<store, attempts, output, runs, remote, pane>>
  BY DEF Edit, Autosave, SwitchTab, SwitchProject
<1>2. /\ disk \in [Project -> [File -> Text]]
      /\ editor.text \in [File -> Text] /\ editor.project \in Project
  BY StoreFacts DEF FileShape, EditorShape
<1> DEFINE Kept == /\ EditorShape' /\ disk' \in [Project -> [File -> Text]]
                   /\ ~editor'.resetDue =>
                        /\ ~editor.resetDue
                        /\ editor'.project = editor.project
<1>3. Kept
  <2>1. CASE Edit
    <3> DEFINE new == [editor.text EXCEPT ![editor.active] = 1 - @]
    <3>1. new \in [File -> Text]
      <4>1. editor.active \in File
        BY StoreFacts DEF EditorShape
      <4>2. 1 - editor.text[editor.active] \in Text
        BY <1>2, <4>1 DEF Text
      <4> QED BY <1>2, <4>2
    <3>2. /\ DOMAIN editor' = EditorFields /\ editor'.text = new
          /\ editor'.project = editor.project /\ editor'.rev \in Nat
          /\ editor'.active = editor.active
          /\ editor'.resetDue = editor.resetDue
      BY <2>1, StoreFacts DEF Edit, EditorShape, EditorFields
    <3> HIDE DEF new
    <3> QED
      BY <1>2, <2>1, <3>1, <3>2, StoreFacts DEF Edit, EditorShape
  <2>2. ASSUME NEW f \in File, Autosave(f)
        PROVE  Kept
    <3>1. editor' = [editor EXCEPT !.dirty = @ \ {f}]
          /\ disk' = [disk EXCEPT ![editor.project][f] = editor.text[f]]
      BY <2>2 DEF Autosave
    <3>2. [disk[editor.project] EXCEPT ![f] = editor.text[f]]
            \in [File -> Text]
      BY <1>2
    <3>3. disk' \in [Project -> [File -> Text]]
      BY <1>2, <3>1, <3>2
    <3> QED BY <3>1, <3>3, StoreFacts DEF EditorShape, EditorFields
  <2>3. ASSUME NEW f \in File, SwitchTab(f)
        PROVE  Kept
    <3>1. /\ DOMAIN editor' = EditorFields /\ editor'.text = editor.text
          /\ editor'.project = editor.project /\ editor'.rev \in Nat
          /\ editor'.active = f /\ editor'.resetDue = editor.resetDue
      <4>1. \/ editor' = [editor EXCEPT !.active = f]
            \/ editor' = [editor EXCEPT !.active = f, !.rev = @ + 1,
                                        !.epoch = @ + 1]
        BY <2>3 DEF SwitchTab
      <4>2. DOMAIN editor = EditorFields /\ editor.rev \in Nat
        BY StoreFacts DEF EditorShape
      <4>3. CASE editor' = [editor EXCEPT !.active = f]
        BY <4>2, <4>3 DEF EditorFields
      <4>4. CASE editor' = [editor EXCEPT !.active = f, !.rev = @ + 1,
                                          !.epoch = @ + 1]
        BY <4>2, <4>4 DEF EditorFields
      <4> QED BY <4>1, <4>3, <4>4
    <3> QED BY <1>2, <2>3, <3>1 DEF SwitchTab, EditorShape
  <2>4. ASSUME NEW p \in Project, SwitchProject(p)
        PROVE  Kept
    BY <1>2, <2>4, StoreFacts, RootAssumption
    DEF SwitchProject, EditorShape, EditorFields
  <2> QED BY <2>1, <2>2, <2>3, <2>4
<1>4. FileShape' /\ NoForeignPdf'
  BY <1>1, <1>3, StoreFacts DEF FileShape, IInv, NoForeignPdf
<1> QED BY <1>1, <1>3, <1>4, StoreFacts, QuietStep DEF FileShape

(* A stop answers for the compiler, at most.                               *)
LEMMA StopCompileStep ==
  ASSUME IInv, StopCompile
  PROVE  Sound
<1>1. /\ Within /\ store' = [store EXCEPT !.rerun = FALSE]
      /\ \/ UNCHANGED attempts
         \/ \E a \in Attempt :
              /\ attempts[a].pc = "building" /\ attempts[a].lane = "main"
              /\ Put(a, [attempts[a] EXCEPT !.pc = "replied",
                                            !.reply = [kind |-> "stopped"]])
  BY DEF StopCompile, Within
<1>2. /\ DOMAIN store' = StoreFields
      /\ store'.ck = store.ck /\ store'.pdf = store.pdf
      /\ store'.gen = store.gen /\ store'.seq = store.seq
      /\ store'.active = store.active /\ store'.status = store.status
      /\ store'.by = store.by
  BY <1>1, StoreFacts DEF StoreFields
<1>3. CASE UNCHANGED attempts
  BY <1>1, <1>2, <1>3, StoreFacts, WithinShapes, QuietStep
  DEF IInv, NoForeignPdf, Within
<1>4. ASSUME NEW a \in Attempt, attempts[a].pc = "building",
             attempts[a].lane = "main",
             Put(a, [attempts[a] EXCEPT !.pc = "replied",
                                        !.reply = [kind |-> "stopped"]])
      PROVE  Sound
  <2> DEFINE u == [attempts[a] EXCEPT !.pc = "replied",
                                      !.reply = [kind |-> "stopped"]]
  <2>1. /\ FlightOK(u, store.gen, runs, output) /\ u.seq = attempts[a].seq
        /\ u.pc = "replied" /\ u.lane = attempts[a].lane
        /\ u.intent = attempts[a].intent /\ u.start = attempts[a].start
    BY <1>4, InFlight
    DEF FlightOK, ReplyOK, AttemptFields, Early, Late, Answered
  <2>2. Others(a) /\ attempts'[a] = u
    BY <1>4, StoreFacts, PutFacts
  <2> HIDE DEF u
  <2>3. FlightOK(attempts'[a], store'.gen, runs', output')
    BY <1>1, <1>2, <2>1, <2>2, WithinShapes
  <2>4. attempts[a].intent = store.gen => u.seq = store.seq
    BY <1>4, <2>1 DEF IInv, LastSequence, Late, Answered
  <2> QED
    BY <1>1, <1>2, <1>4, <2>1, <2>2, <2>3, <2>4, InFlight, StoreFacts,
       WithinShapes, ContinueStep
    DEF Within
<1> QED BY <1>1, <1>3, <1>4

LEMMA RemoteSteps ==
  ASSUME IInv,
         \/ \E p \in Project : RemoteCompiles(p)
         \/ \E e \in remote : RemoteArrives(e)
  PROVE  Sound
<1>1. UNCHANGED <<editor, store, attempts, disk, pane>>
  BY DEF RemoteCompiles, RemoteArrives
<1> DEFINE Kept ==
      /\ FileShape' /\ runs <= runs'
      /\ \A p \in Project : output[p] # None => output'[p] # None
<1>2. Kept
  <2>1. ASSUME NEW p \in Project, RemoteCompiles(p)
        PROVE  Kept
    <3>1. Pdf(p, StoredMain) \in Bytes /\ Pdf(p, StoredMain).project = p
      BY StoreFacts, RootAssumption DEF Pdf, Bytes, FileShape
    <3>2. /\ output' = [output EXCEPT ![p] = Pdf(p, StoredMain)]
          /\ runs' = runs + 1
      BY <2>1 DEF RemoteCompiles
    <3>3. PICK r \in RemoteRevs :
            remote' = remote \cup
              {[ck |-> [project |-> p, doc |-> StoredMain, rev |-> r,
                        gen |-> 1, out |-> runs + 1],
                pc |-> "sent"]}
      BY <2>1 DEF RemoteCompiles
    <3>4. \A e \in remote' :
            DOMAIN e = {"ck", "pc"} /\ e.ck \in Ck /\ e.ck.out <= runs'
      BY <3>2, <3>3, StoreFacts, RootAssumption, RevsAssumption
      DEF FileShape, Ck
    <3> QED
      BY <1>1, <3>1, <3>2, <3>4, StoreFacts, NoneFacts DEF FileShape
  <2>2. ASSUME NEW e \in remote, RemoteArrives(e)
        PROVE  Kept
    <3>1. /\ UNCHANGED <<output, runs>>
          /\ remote' \subseteq remote \cup {[e EXCEPT !.pc = "reading"]}
      BY <2>2 DEF RemoteArrives
    <3>2. [e EXCEPT !.pc = "reading"].ck = e.ck
          /\ DOMAIN [e EXCEPT !.pc = "reading"] = DOMAIN e
      BY StoreFacts DEF FileShape
    <3> QED BY <1>1, <3>1, <3>2, StoreFacts DEF FileShape
  <2> QED BY <2>1, <2>2
<1>3. EditorShape' /\ NoForeignPdf'
  BY <1>1, StoreFacts DEF EditorShape, IInv, NoForeignPdf
<1> QED BY <1>1, <1>2, <1>3, StoreFacts, QuietStep

(* Another window's success is accepted only if it is newer.               *)
LEMMA RemoteReadStep ==
  ASSUME IInv, NEW e \in remote, RemoteRead(e)
  PROVE  Sound
<1> DEFINE bytes == output[e.ck.project]
<1>1. /\ remote' \subseteq remote
      /\ UNCHANGED <<disk, editor, attempts, output, runs, pane>>
      /\ \/ UNCHANGED store
         \/ /\ RemoteWanted(e.ck) /\ IsNewer(e.ck, store.ck)
            /\ store' = [store EXCEPT
                          !.status = "success", !.pdf = bytes,
                          !.ck = e.ck, !.sources = None,
                          !.by = [gen |-> e.ck.gen, lane |-> "remote"]]
  BY DEF RemoteRead
<1>2. EditorShape' /\ FileShape'
  BY <1>1, StoreFacts DEF EditorShape, FileShape
<1>3. CASE UNCHANGED store
  BY <1>1, <1>2, <1>3, StoreFacts, QuietStep
  DEF FileShape, IInv, NoForeignPdf
<1>4. CASE /\ RemoteWanted(e.ck) /\ IsNewer(e.ck, store.ck)
           /\ store' = [store EXCEPT
                         !.status = "success", !.pdf = bytes,
                         !.ck = e.ck, !.sources = None,
                         !.by = [gen |-> e.ck.gen, lane |-> "remote"]]
  <2>1. e.ck \in Ck /\ e.ck.out <= runs /\ e.ck # None
    BY StoreFacts, NoneFacts DEF FileShape
  <2>2. bytes # None => bytes.project = editor.project
    BY <1>4, StoreFacts DEF RemoteWanted, FileShape, EditorShape
  <2> HIDE DEF bytes
  <2>3. /\ DOMAIN store' = StoreFields
        /\ store'.ck = e.ck /\ store'.pdf = bytes
        /\ store'.gen = store.gen /\ store'.seq = store.seq
        /\ store'.active = store.active /\ store'.status = "success"
    BY <1>4, StoreFacts DEF StoreFields
  <2>4. StoreOK(store, runs)' /\ Indicator(store', attempts')
    BY <1>1, <2>1, <2>3, StoreFacts DEF StoreOK, KnownBy, Indicator
  <2>5. AttemptShape' /\ OwnIntents' /\ LastSequence'
        /\ LastOwns(store', attempts')
    BY <1>1, <2>3, StoreFacts, AttemptsStay
  <2>6. NoForeignPdf'
    BY <1>1, <2>2, <2>3 DEF IInv, NoForeignPdf
  <2> QED
    BY <1>2, <1>4, <2>1, <2>3, <2>4, <2>5, <2>6
    DEF Sound, IInv, OutputStep, RerunStep
<1> QED BY <1>1, <1>3, <1>4

LEMMA EffectSteps ==
  ASSUME IInv, ProjectEffects \/ ProjectStateReset \/ PaneLooks
  PROVE  Sound
<1>1. CASE ProjectEffects
  <2>1. EditorShape'
    BY <1>1, StoreFacts DEF ProjectEffects, EditorShape, EditorFields
  <2>2. NoForeignPdf'
    BY <1>1, StoreFacts
    DEF ProjectEffects, NoForeignPdf, ResetStore, StoreFields
  <2> QED BY <1>1, <2>1, <2>2, ResetStep DEF ProjectEffects
<1>2. CASE ProjectStateReset
  <2>1. EditorShape'
    BY <1>2, StoreFacts DEF ProjectStateReset, EditorShape
  <2>2. NoForeignPdf'
    BY <1>2, StoreFacts
    DEF ProjectStateReset, IInv, NoForeignPdf, ResetStore, StoreFields
  <2> QED BY <1>2, <2>1, <2>2, ResetStep DEF ProjectStateReset
<1>3. CASE PaneLooks
  <2>1. NoForeignPdf'
    BY <1>3 DEF PaneLooks, IInv, NoForeignPdf
  <2>2. EditorShape' /\ FileShape'
    BY <1>3, StoreFacts DEF PaneLooks, EditorShape, FileShape
  <2> QED
    BY <1>3, <2>1, <2>2, StoreFacts, QuietStep DEF PaneLooks
<1> QED BY <1>1, <1>2, <1>3
-----------------------------------------------------------------------------
LEMMA InitInvariant == Init => IInv
<1> SUFFICES ASSUME Init PROVE IInv
  OBVIOUS
<1>1. StoreOK(store, runs) /\ Indicator(store, attempts)
  BY DEF Init, StoreOK, StoreFields, KnownBy, Indicator
<1>2. EditorShape
  BY RootAssumption, HomeAssumption
  DEF Init, EditorShape, EditorFields, Text
<1>3. FileShape
  BY DEF Init, FileShape, Text
<1>4. /\ AttemptShape /\ OwnIntents /\ LastSequence
      /\ LastOwns(store, attempts)
  BY DEF Init, AttemptShape, OwnIntents, LastSequence, LastOwns, Flies,
         Idle, Late, Answered
<1>5. NoForeignPdf
  BY DEF Init, NoForeignPdf
<1> QED BY <1>1, <1>2, <1>3, <1>4, <1>5 DEF IInv

LEMMA Inductive == IInv /\ [Next]_vars => Sound
<1> SUFFICES ASSUME IInv, [Next]_vars PROVE Sound
  OBVIOUS
<1>1. CASE UNCHANGED vars
  BY <1>1, StoreFacts, QuietStep
  DEF vars, EditorShape, FileShape, IInv, NoForeignPdf
<1>2. ASSUME NEW a \in Attempt, Recompile(a) \/ CompileTagged(a) \/ Progress(a)
      PROVE  Sound
  BY <1>2, RecompileStep, CompileTaggedStep, ProgressStep
<1>3. CASE \/ Edit
           \/ \E f \in File : Autosave(f) \/ SwitchTab(f)
           \/ \E p \in Project : SwitchProject(p)
  BY <1>3, EditorSteps
<1>4. CASE \/ \E p \in Project : RemoteCompiles(p)
           \/ \E e \in remote : RemoteArrives(e)
  BY <1>4, RemoteSteps
<1>5. CASE \/ ProjectEffects \/ ProjectStateReset \/ PaneLooks \/ StopCompile
           \/ \E e \in remote : RemoteRead(e)
  BY <1>5, EffectSteps, StopCompileStep, RemoteReadStep
<1> QED BY <1>1, <1>2, <1>3, <1>4, <1>5 DEF Next

(* What every reachable state of a window's compile store satisfies,       *)
(* whatever was pressed, typed, switched, reset or announced.              *)
THEOREM Invariance == Spec => []IInv
BY InitInvariant, Inductive, PTL DEF Spec, Sound

(* After a project switch neither the store nor the pane shows a PDF of    *)
(* another project.                                                        *)
THEOREM NoForeignOutput == Spec => []NoForeignPdf
<1>1. IInv => NoForeignPdf
  BY DEF IInv
<1> QED BY <1>1, Invariance, PTL

(* The button's "compiling" always has its attempt, which owns the button. *)
THEOREM IndicatorIsOwned == Spec => []IndicatorHasAttempt
<1>1. IInv => IndicatorHasAttempt
  BY DEF IInv, Indicator, Shows, IndicatorHasAttempt, Flies, Idle
<1> QED BY <1>1, Invariance, PTL

(* The accepted output moves to a newer one or goes with a reset.          *)
THEOREM OutputsOnlyAdvance == Spec => OutputsAdvance
<1>1. IInv /\ [Next]_vars =>
        [store'.ck # store.ck =>
           \/ IF store'.ck = None THEN store'.gen > store.gen
              ELSE IsNewer(store'.ck, store.ck)]_vars
  BY Inductive DEF Sound, OutputStep
<1> QED BY <1>1, Invariance, PTL DEF Spec, OutputsAdvance

(* A rerun asked for during an attempt of the button is started or         *)
(* withdrawn when that attempt ends.                                       *)
THEOREM RerunsAreSettled == Spec => RerunIsSettled
<1>1. IInv /\ [Next]_vars =>
        [store.active # None /\ store'.active # store.active =>
           \/ ~store'.rerun
           \/ store'.status = "compiling" /\ store'.by.lane = "tagged"]_vars
  BY Inductive DEF Sound, RerunStep
<1> QED BY <1>1, Invariance, PTL DEF Spec, RerunIsSettled
(* A compile that the user typed through is accepted when its PDF is read, *)
(* or something newer has been.                                            *)
THEOREM TypingIsHarmless == Spec => TypingKeepsTheBuild
<1>1. ASSUME IInv, NEW a \in Attempt, PdfRead(a), attempts[a].lane = "main",
             attempts[a].reply.ok,
             output[attempts[a].project].run = attempts[a].reply.run,
             Wanted(store, attempts[a])
      PROVE  store'.ck # None /\ store'.ck.out >= attempts[a].reply.run
  <2> DEFINE t == attempts[a]
             bytes == output[t.project]
  <2>1. /\ t.pc = "reading" /\ Within
        /\ FlightOK(t, store.gen, runs, output)
        /\ ReplyOK(t, runs, output) /\ t.reply.kind = "done"
    BY <1>1, InFlight DEF PdfRead, Within, FlightOK, Answered
  <2>2. t.seq = store.seq
    BY <1>1, <2>1 DEF IInv, LastSequence, Late, Answered, Wanted
  <2>3. Finish(Applied(store, t, bytes), a)
    BY <1>1, <2>2 DEF PdfRead, Stale
  <2>4. /\ bytes \in Bytes /\ bytes.project = editor.project
        /\ bytes # None
    BY <1>1, <2>1, StoreFacts, NoneFacts
    DEF ReplyOK, FlightOK, FileShape, Wanted
  <2> HIDE DEF bytes
  <2>5. bytes.run = t.reply.run
    BY <1>1 DEF bytes
  <2> QED
    BY <1>1, <2>1, <2>3, <2>4, <2>5, AppliedEnds DEF Answered
<1>2. IInv /\ [Next]_vars =>
        [\A a \in Attempt :
           LET t == attempts[a] IN
           /\ PdfRead(a)
           /\ t.lane = "main" /\ t.reply.ok
           /\ output[t.project].run = t.reply.run
           /\ editor.project = t.project /\ EffectiveMain = t.doc
           /\ store.gen = t.intent
           => store'.ck # None /\ store'.ck.out >= t.reply.run]_vars
  BY <1>1 DEF Wanted
<1> QED BY <1>2, Invariance, PTL DEF Spec, TypingKeepsTheBuild
=============================================================================

--------------------------- MODULE EditorFilesProofs ---------------------------
(***************************************************************************)
(* Safety of EditorFiles for any files and scenarios: types, what the      *)
(* queues of writes hold of the buffers that are not saved yet, and that   *)
(* what the user typed is kept until it is on disk.                        *)
(***************************************************************************)
EXTENDS EditorFiles, TLAPS

WinFields ==
  {"open", "files", "pending", "timer", "known", "reload", "rev", "epoch",
   "refreshing", "queue"}
TaskFields == {"op", "pc", "path", "failed", "waits", "expected"}
Saving == {"autosave", "flush", "rescue"}
Keeping == {"local", "restore"}
Writes ==
  [text : Nat, by : Saving \cup Keeping \cup {"follow"}, reload : Nat,
   expected : Nat, result : {"waiting", "done", "conflict", "failed"}]

(* A window is well formed when the texts so far are c, the generation is  *)
(* g and the texts of its own that were on disk are L.                     *)
BufferOK(b, c) == b \in [text : 0 .. c, dirty : BOOLEAN]

WriteOK(h, c, g, L) ==
  /\ h.text <= c /\ h.expected <= g
  /\ h.result = "done" /\ h.by # "follow" => h.text \in L

QueueOK(q, c, g, L) ==
  q \in Seq(Writes) /\ \A n \in 1 .. Len(q) : WriteOK(q[n], c, g, L)

WinOK(w, c, g, L) ==
  /\ DOMAIN w = WinFields
  /\ DOMAIN w.files \subseteq Path /\ w.pending \subseteq Path
  /\ \A p \in DOMAIN w.files : BufferOK(w.files[p], c)
  /\ w.known \in 0 .. g /\ w.reload \in Nat
  /\ DOMAIN w.queue = Path
  /\ \A p \in Path : QueueOK(w.queue[p], c, g, L)

(* The last write of a path will save its dirty buffer, or remember it     *)
(* again; one that only keeps the buffer's text is of the text it has.     *)
Covers(h, b) == h.by \in Saving \/ (h.by \in Keeping /\ h.text = b.text)
Waits(w, p) ==
  w.queue[p] # <<>> /\ Covers(w.queue[p][Len(w.queue[p])], w.files[p])
Covered(w) == \A p \in Dirty(w) : p \in w.pending \/ Waits(w, p)

Disks ==
  /\ clock \in Nat /\ gen \in Nat
  /\ disk \in [Path -> 0 .. clock \cup {None}]
  /\ changed \in [Path -> 0 .. gen]

Tasks ==
  /\ DOMAIN task = TaskFields
  /\ task.op \in {"none", "close", "restore", "delete"}
  /\ task.expected \in 0 .. gen

LoadOK(l, c) ==
  /\ DOMAIN l = {"path", "by", "at", "text"}
  /\ l.path \in Path /\ l.text \in 0 .. c \cup {None}
Loads == \A l \in loads : LoadOK(l, clock)

ReloadOK(r, c) ==
  /\ DOMAIN r = {"rev", "files", "seen"}
  /\ r.seen # None => \A p \in Path : r.seen[p] \in 0 .. c \cup {None}
Reloads == \A r \in reloads : ReloadOK(r, clock)

EventOK(e, c, g) ==
  \/ e.kind = "write" /\ e.path \in Path /\ e.text \in 0 .. c
  \/ e.kind = "delete" /\ e.path \in Path
  \/ e.kind = "state" /\ e.gen \in 0 .. g
EventsOK(q, c, g) == \E S : q \in Seq(S) /\ \A e \in S : EventOK(e, c, g)

IInv ==
  /\ Disks /\ Tasks /\ Loads /\ Reloads /\ EventsOK(events, clock, gen)
  /\ WinOK(win, clock, gen, landed) /\ Covered(win)

-----------------------------------------------------------------------------
(* Time only adds: what is well formed stays so.                           *)
LEMMA WinLater ==
  ASSUME NEW w, NEW c \in Nat, NEW g \in Nat, NEW L, WinOK(w, c, g, L),
         NEW d \in Nat, NEW h \in Nat, NEW M, c <= d, g <= h, L \subseteq M
  PROVE  WinOK(w, d, h, M)
<1>1. ASSUME NEW p \in DOMAIN w.files PROVE BufferOK(w.files[p], d)
  <2>1. BufferOK(w.files[p], c)
    BY DEF WinOK
  <2> QED BY <2>1 DEF BufferOK
<1>2. ASSUME NEW p \in Path PROVE QueueOK(w.queue[p], d, h, M)
  <2>1. ASSUME NEW n \in 1 .. Len(w.queue[p])
        PROVE  WriteOK(w.queue[p][n], d, h, M)
    <3>1. w.queue[p][n] \in Writes /\ WriteOK(w.queue[p][n], c, g, L)
      BY DEF WinOK, QueueOK
    <3> QED BY <3>1 DEF WriteOK, Writes
  <2> QED BY <2>1 DEF WinOK, QueueOK
<1> QED BY <1>1, <1>2 DEF WinOK

(* The operations on the window, one lemma each.                           *)
LEMMA LaterOK ==
  ASSUME NEW w, NEW c, NEW g, NEW L, WinOK(w, c, g, L)
  PROVE  /\ WinOK(Later(w), c, g, L)
         /\ Later(w).files = w.files /\ Later(w).pending = w.pending
         /\ Later(w).queue = w.queue
<1> DEFINE y == Later(w)
<1>1. /\ DOMAIN y = WinFields /\ y.files = w.files /\ y.pending = w.pending
      /\ y.queue = w.queue /\ y.known = w.known /\ y.reload = w.reload
  BY DEF Later, WinOK, WinFields
<1> HIDE DEF y
<1>2. WinOK(y, c, g, L)
  BY <1>1 DEF WinOK
<1> QED BY <1>1, <1>2 DEF y

LEMMA PendOK ==
  ASSUME NEW w, NEW c, NEW g, NEW L, WinOK(w, c, g, L), NEW p \in Path
  PROVE  /\ WinOK(Pend(w, p), c, g, L)
         /\ Pend(w, p).files = w.files
         /\ Pend(w, p).pending = w.pending \cup {p}
         /\ Pend(w, p).queue = w.queue
<1> DEFINE y == Pend(w, p)
<1>1. /\ DOMAIN y = WinFields /\ y.files = w.files
      /\ y.pending = w.pending \cup {p}
      /\ y.queue = w.queue /\ y.known = w.known /\ y.reload = w.reload
  BY DEF Pend, WinOK, WinFields
<1> HIDE DEF y
<1>2. WinOK(y, c, g, L)
  BY <1>1 DEF WinOK
<1> QED BY <1>1, <1>2 DEF y

(* One buffer is put into the window w, which becomes y.                   *)
Filled(w, y, p, b) ==
  /\ DOMAIN y = WinFields /\ y.files = Put(w.files, p, b)
  /\ y.known = w.known /\ y.reload = w.reload /\ y.queue = w.queue

LEMMA FilledOK ==
  ASSUME NEW w, NEW c, NEW g, NEW L, WinOK(w, c, g, L), NEW p \in Path,
         NEW b, BufferOK(b, c),
         NEW y, Filled(w, y, p, b), y.pending \subseteq Path
  PROVE  /\ WinOK(y, c, g, L)
         /\ DOMAIN y.files = DOMAIN w.files \cup {p} /\ y.files[p] = b
         /\ \A q \in DOMAIN w.files \ {p} : y.files[q] = w.files[q]
<1>1. /\ DOMAIN y.files = DOMAIN w.files \cup {p} /\ y.files[p] = b
      /\ \A q \in DOMAIN w.files \ {p} : y.files[q] = w.files[q]
  BY DEF Filled, Put
<1>2. \A q \in DOMAIN y.files : BufferOK(y.files[q], c)
  BY <1>1 DEF WinOK
<1> QED BY <1>1, <1>2 DEF WinOK, Filled

LEMMA BufferIs ==
  ASSUME NEW c, NEW text \in 0 .. c
  PROVE  /\ BufferOK(Buffer(text, TRUE), c) /\ BufferOK(Buffer(text, FALSE), c)
         /\ Buffer(text, TRUE).text = text /\ Buffer(text, TRUE).dirty
         /\ Buffer(text, FALSE).text = text /\ ~Buffer(text, FALSE).dirty
BY DEF BufferOK, Buffer

LEMMA CleanOK ==
  ASSUME NEW w, NEW c, NEW g, NEW L, WinOK(w, c, g, L), NEW p \in DOMAIN w.files
  PROVE  LET y == Clean(w, p) IN
         /\ WinOK(y, c, g, L) /\ DOMAIN y.files = DOMAIN w.files
         /\ y.files[p].text = w.files[p].text /\ ~y.files[p].dirty
         /\ \A q \in DOMAIN w.files \ {p} : y.files[q] = w.files[q]
         /\ y.pending = w.pending /\ y.queue = w.queue
<1> DEFINE y == Clean(w, p)
           b == Buffer(w.files[p].text, FALSE)
<1>1. p \in Path /\ w.files[p].text \in 0 .. c
  BY DEF WinOK, BufferOK
<1>2. Filled(w, y, p, b) /\ y.pending = w.pending
  BY DEF Clean, WinOK, WinFields, Filled
<1>3. BufferOK(b, c) /\ b.text = w.files[p].text /\ ~b.dirty
  BY <1>1, BufferIs
<1> HIDE DEF y, b
<1>4. y.pending \subseteq Path
  BY <1>2 DEF WinOK
<1>5. /\ WinOK(y, c, g, L)
      /\ DOMAIN y.files = DOMAIN w.files \cup {p} /\ y.files[p] = b
      /\ \A q \in DOMAIN w.files \ {p} : y.files[q] = w.files[q]
  BY <1>1, <1>2, <1>3, <1>4, FilledOK
<1> QED BY <1>2, <1>3, <1>5 DEF Filled, y

LEMMA AgainOK ==
  ASSUME NEW w, NEW c, NEW g, NEW L, WinOK(w, c, g, L), NEW p \in DOMAIN w.files
  PROVE  LET y == Again(w, p) IN
         /\ WinOK(y, c, g, L) /\ DOMAIN y.files = DOMAIN w.files
         /\ y.files[p].text = w.files[p].text /\ y.files[p].dirty
         /\ \A q \in DOMAIN w.files \ {p} : y.files[q] = w.files[q]
         /\ y.pending = w.pending \cup {p} /\ y.queue = w.queue
<1> DEFINE z == [w EXCEPT !.files = Put(@, p, Buffer(@[p].text, TRUE))]
           y == Later(Pend(z, p))
           b == Buffer(w.files[p].text, TRUE)
<1>1. p \in Path /\ w.files[p].text \in 0 .. c
  BY DEF WinOK, BufferOK
<1>2. Filled(w, z, p, b) /\ z.pending = w.pending
  BY DEF WinOK, WinFields, Filled
<1>3. y = Again(w, p)
  BY DEF Again
<1>4. BufferOK(b, c) /\ b.text = w.files[p].text /\ b.dirty
  BY <1>1, BufferIs
<1> HIDE DEF z, b
<1>5. z.pending \subseteq Path
  BY <1>2 DEF WinOK
<1>6. /\ WinOK(z, c, g, L)
      /\ DOMAIN z.files = DOMAIN w.files \cup {p} /\ z.files[p] = b
      /\ \A q \in DOMAIN w.files \ {p} : z.files[q] = w.files[q]
  BY <1>1, <1>2, <1>4, <1>5, FilledOK
<1>7. /\ WinOK(y, c, g, L) /\ y.files = z.files
      /\ y.pending = z.pending \cup {p} /\ y.queue = z.queue
  <2> DEFINE v == Pend(z, p)
  <2>1. /\ WinOK(v, c, g, L) /\ v.files = z.files
        /\ v.pending = z.pending \cup {p} /\ v.queue = z.queue
    BY <1>1, <1>6, PendOK
  <2> HIDE DEF v
  <2>2. /\ WinOK(Later(v), c, g, L) /\ Later(v).files = v.files
        /\ Later(v).pending = v.pending /\ Later(v).queue = v.queue
    BY <2>1, LaterOK
  <2> QED BY <2>1, <2>2 DEF v
<1> HIDE DEF y
<1> QED BY <1>2, <1>3, <1>4, <1>6, <1>7 DEF Filled

LEMMA RememberOK ==
  ASSUME NEW w, NEW c, NEW g \in Nat, NEW L, WinOK(w, c, g, L), NEW n \in 0 .. g
  PROVE  LET y == Remember(w, n) IN
         /\ WinOK(y, c, g, L)
         /\ y.files = w.files /\ y.pending = w.pending /\ y.queue = w.queue
<1> DEFINE y == Remember(w, n)
<1>1. Newer(w.known, n) \in 0 .. g
  BY DEF WinOK, Newer
<1>2. /\ DOMAIN y = WinFields /\ y.files = w.files /\ y.pending = w.pending
      /\ y.queue = w.queue /\ y.known \in 0 .. g /\ y.reload = w.reload
  BY <1>1 DEF Remember, WinOK, WinFields
<1> HIDE DEF y
<1>3. WinOK(y, c, g, L)
  BY <1>2 DEF WinOK
<1> QED BY <1>2, <1>3 DEF y

(* A write joins the queue of its path.                                    *)
LEMMA QueuedOK ==
  ASSUME NEW q, NEW c, NEW g, NEW L, QueueOK(q, c, g, L),
         NEW h \in Writes, WriteOK(h, c, g, L)
  PROVE  /\ QueueOK(Append(q, h), c, g, L) /\ Append(q, h) # <<>>
         /\ Append(q, h)[Len(Append(q, h))] = h
<1> DEFINE r == Append(q, h)
<1>1. /\ q \in Seq(Writes) /\ r \in Seq(Writes) /\ Len(r) = Len(q) + 1
      /\ Len(q) \in Nat
      /\ r[Len(r)] = h /\ \A n \in 1 .. Len(q) : r[n] = q[n]
  BY DEF QueueOK
<1> HIDE DEF r
<1>2. \A n \in 1 .. Len(r) : WriteOK(r[n], c, g, L)
  BY <1>1 DEF QueueOK
<1> QED BY <1>1, <1>2 DEF QueueOK, r

Joins(w, p, text, by, c, g, L) ==
  /\ c \in Nat /\ g \in Nat /\ WinOK(w, c, g, L)
  /\ p \in Path /\ text \in 0 .. c
  /\ by \in Saving \cup Keeping \cup {"follow"}

LEMMA EnqueueOK ==
  ASSUME NEW w, NEW p, NEW text, NEW by, NEW c, NEW g, NEW L,
         Joins(w, p, text, by, c, g, L)
  PROVE  LET y == Enqueue(w, p, text, by) IN
         /\ WinOK(y, c, g, L)
         /\ y.files = w.files /\ y.pending = w.pending
         /\ \A q \in Path \ {p} : y.queue[q] = w.queue[q]
         /\ y.queue[p] # <<>>
         /\ y.queue[p][Len(y.queue[p])].by = by
         /\ y.queue[p][Len(y.queue[p])].text = text
<1> DEFINE h == [text |-> text, by |-> by, reload |-> w.reload,
                 expected |-> w.known, result |-> "waiting"]
           y == Enqueue(w, p, text, by)
<1>0. /\ c \in Nat /\ g \in Nat /\ WinOK(w, c, g, L)
      /\ p \in Path /\ text \in 0 .. c
      /\ by \in Saving \cup Keeping \cup {"follow"}
  BY DEF Joins
<1>1. /\ h \in Writes /\ WriteOK(h, c, g, L) /\ h.text = text /\ h.by = by
  BY <1>0 DEF Writes, WriteOK, WinOK
<1>2. y = [w EXCEPT !.queue = [w.queue EXCEPT ![p] = Append(w.queue[p], h)]]
  BY <1>0 DEF Enqueue, WinOK, WinFields
<1> HIDE DEF h, y
<1>3. /\ DOMAIN y = WinFields /\ y.files = w.files /\ y.pending = w.pending
      /\ y.known = w.known /\ y.reload = w.reload
      /\ y.queue = [w.queue EXCEPT ![p] = Append(w.queue[p], h)]
  BY <1>0, <1>2 DEF WinOK, WinFields
<1>4. /\ DOMAIN y.queue = Path /\ y.queue[p] = Append(w.queue[p], h)
      /\ \A q \in Path \ {p} : y.queue[q] = w.queue[q]
  BY <1>0, <1>3 DEF WinOK
<1>5. QueueOK(w.queue[p], c, g, L)
  BY <1>0 DEF WinOK
<1>6. /\ QueueOK(y.queue[p], c, g, L) /\ y.queue[p] # <<>>
      /\ y.queue[p][Len(y.queue[p])] = h
  BY <1>1, <1>4, <1>5, QueuedOK
<1>7. \A q \in Path : QueueOK(y.queue[q], c, g, L)
  BY <1>0, <1>4, <1>6 DEF WinOK
<1>8. WinOK(y, c, g, L)
  BY <1>0, <1>3, <1>4, <1>7 DEF WinOK
<1> QED BY <1>1, <1>3, <1>4, <1>6, <1>8 DEF y

LEMMA SaveOK ==
  ASSUME NEW w, NEW c \in Nat, NEW g \in Nat, NEW L, WinOK(w, c, g, L),
         NEW S, NEW by \in Saving
  PROVE  LET y == Save(w, S, by) IN
         /\ WinOK(y, c, g, L)
         /\ y.files = w.files /\ y.pending = w.pending
         /\ \A p \in S \cap Dirty(w) : Waits(y, p)
         /\ \A p \in Dirty(w) : Waits(w, p) => Waits(y, p)
<1> DEFINE saved(p) == Enqueue(w, p, w.files[p].text, by)
           y == Save(w, S, by)
<1>1. /\ DOMAIN y = WinFields /\ y.files = w.files /\ y.pending = w.pending
      /\ y.known = w.known /\ y.reload = w.reload
      /\ y.queue = [p \in Path |-> IF p \in S \cap Dirty(w)
                                   THEN saved(p).queue[p] ELSE w.queue[p]]
  BY DEF Save, WinOK, WinFields
<1> HIDE DEF y
<1>2. ASSUME NEW p \in S \cap Dirty(w)
      PROVE  QueueOK(y.queue[p], c, g, L) /\ Waits(y, p)
  <2>1. p \in Path /\ w.files[p].text \in 0 .. c
    BY DEF Dirty, WinOK, BufferOK
  <2>2. by \in Saving \cup Keeping \cup {"follow"}
    OBVIOUS
  <2>3. /\ WinOK(saved(p), c, g, L) /\ saved(p).queue[p] # <<>>
        /\ saved(p).queue[p][Len(saved(p).queue[p])].by = by
    <3> DEFINE t == w.files[p].text
               e == Enqueue(w, p, t, by)
    <3>0. Joins(w, p, t, by, c, g, L)
      BY <2>1, <2>2 DEF Joins
    <3> HIDE DEF t
    <3>1. WinOK(e, c, g, L) /\ e.queue[p] # <<>>
          /\ e.queue[p][Len(e.queue[p])].by = by
      BY <3>0, EnqueueOK
    <3> QED BY <3>1 DEF t
  <2> HIDE DEF saved
  <2>4. y.queue[p] = saved(p).queue[p]
    BY <1>1, <2>1
  <2> QED BY <2>1, <2>3, <2>4 DEF WinOK, Waits, Covers
<1>3. ASSUME NEW p \in Path, p \notin S \cap Dirty(w)
      PROVE  y.queue[p] = w.queue[p]
  BY <1>1, <1>3
<1> HIDE DEF saved
<1>4. \A p \in Path : QueueOK(y.queue[p], c, g, L)
  BY <1>2, <1>3 DEF WinOK
<1>5. DOMAIN y.queue = Path
  BY <1>1
<1>6. ASSUME NEW p \in Dirty(w), Waits(w, p) PROVE Waits(y, p)
  <2>1. p \in Path
    BY DEF Dirty, WinOK
  <2> QED BY <1>1, <1>2, <1>3, <1>6, <2>1 DEF Waits
<1>7. WinOK(y, c, g, L)
  BY <1>1, <1>4, <1>5 DEF WinOK
<1> QED BY <1>1, <1>2, <1>6, <1>7 DEF y

-----------------------------------------------------------------------------
(* The end of a write changes the buffer of its path alone, and no text.   *)
(* If the buffer is dirty then, it waits for the timer, unless the write   *)
(* was none that has to see to that.                                       *)
Ends(w, y, p, h, c, g, L) ==
  /\ WinOK(y, c, g, L) /\ DOMAIN y.files = DOMAIN w.files /\ y.queue = w.queue
  /\ \A q \in DOMAIN w.files : y.files[q].text = w.files[q].text
  /\ \A q \in DOMAIN w.files \ {p} : y.files[q] = w.files[q]
  /\ w.pending \ {p} \subseteq y.pending
  /\ p \in Dirty(y) =>
       \/ p \in y.pending
       \/ /\ p \in Dirty(w) /\ y.pending = w.pending
          /\ ~Covers(h, w.files[p])
  /\ p \in Dirty(w) => p \in Dirty(y) \/ w.files[p].text \in L

LEMMA PendEnds ==
  ASSUME NEW w, NEW c, NEW g, NEW L, WinOK(w, c, g, L), NEW p \in Path, NEW h
  PROVE  /\ Ends(w, Pend(w, p), p, h, c, g, L)
         /\ Ends(w, Later(Pend(w, p)), p, h, c, g, L)
<1> DEFINE y == Pend(w, p)
<1>1. /\ WinOK(y, c, g, L) /\ y.files = w.files
      /\ y.pending = w.pending \cup {p} /\ y.queue = w.queue
  BY PendOK
<1> HIDE DEF y
<1>2. /\ WinOK(Later(y), c, g, L) /\ Later(y).files = y.files
      /\ Later(y).pending = y.pending /\ Later(y).queue = y.queue
  BY <1>1, LaterOK
<1>3. Ends(w, y, p, h, c, g, L) /\ Ends(w, Later(y), p, h, c, g, L)
  BY <1>1, <1>2 DEF Ends, Dirty
<1> QED BY <1>3 DEF y

LEMMA AgainEnds ==
  ASSUME NEW w, NEW c, NEW g, NEW L, WinOK(w, c, g, L),
         NEW p \in DOMAIN w.files, NEW h
  PROVE  Ends(w, Again(w, p), p, h, c, g, L)
<1> DEFINE y == Again(w, p)
<1>1. /\ WinOK(y, c, g, L) /\ DOMAIN y.files = DOMAIN w.files
      /\ y.files[p].text = w.files[p].text /\ y.files[p].dirty
      /\ \A q \in DOMAIN w.files \ {p} : y.files[q] = w.files[q]
      /\ y.pending = w.pending \cup {p} /\ y.queue = w.queue
  BY AgainOK
<1> HIDE DEF y
<1>2. Ends(w, y, p, h, c, g, L)
  BY <1>1 DEF Ends, Dirty
<1> QED BY <1>2 DEF y

LEMMA SettledPending ==
  ASSUME NEW w, NEW c, NEW g, NEW L, WinOK(w, c, g, L), NEW p
  PROVE  LET y == [w EXCEPT !.pending = @ \ {p}] IN
         /\ WinOK(y, c, g, L) /\ y.files = w.files /\ y.queue = w.queue
         /\ y.pending = w.pending \ {p}
<1> DEFINE y == [w EXCEPT !.pending = @ \ {p}]
<1>1. /\ DOMAIN y = WinFields /\ y.files = w.files /\ y.queue = w.queue
      /\ y.pending = w.pending \ {p} /\ y.known = w.known
      /\ y.reload = w.reload
  BY DEF WinOK, WinFields
<1> HIDE DEF y
<1>2. WinOK(y, c, g, L)
  BY <1>1 DEF WinOK
<1> QED BY <1>1, <1>2 DEF y

LEMMA CleanEnds ==
  ASSUME NEW w, NEW c, NEW g, NEW L, WinOK(w, c, g, L),
         NEW p \in DOMAIN w.files, NEW h, w.files[p].text \in L
  PROVE  LET y == [Clean(w, p) EXCEPT !.pending = @ \ {p}] IN
         /\ Ends(w, y, p, h, c, g, L) /\ Ends(w, Later(y), p, h, c, g, L)
<1> DEFINE x == Clean(w, p)
           y == [x EXCEPT !.pending = @ \ {p}]
<1>1. /\ WinOK(x, c, g, L) /\ DOMAIN x.files = DOMAIN w.files
      /\ x.files[p].text = w.files[p].text /\ ~x.files[p].dirty
      /\ \A q \in DOMAIN w.files \ {p} : x.files[q] = w.files[q]
      /\ x.pending = w.pending /\ x.queue = w.queue
  BY CleanOK
<1> HIDE DEF x
<1>2. /\ WinOK(y, c, g, L) /\ y.files = x.files /\ y.queue = x.queue
      /\ y.pending = x.pending \ {p}
  BY <1>1, SettledPending
<1> HIDE DEF y
<1>3. /\ WinOK(Later(y), c, g, L) /\ Later(y).files = y.files
      /\ Later(y).pending = y.pending /\ Later(y).queue = y.queue
  BY <1>2, LaterOK
<1>4. Ends(w, y, p, h, c, g, L) /\ Ends(w, Later(y), p, h, c, g, L)
  BY <1>1, <1>2, <1>3 DEF Ends, Dirty
<1> QED BY <1>4 DEF y, x

LEMMA SameEnds ==
  ASSUME NEW w, NEW c, NEW g, NEW L, WinOK(w, c, g, L), NEW p, NEW h,
         p \in Dirty(w) => ~Covers(h, w.files[p]) \/ p \in w.pending
  PROVE  Ends(w, w, p, h, c, g, L) /\ Ends(w, Later(w), p, h, c, g, L)
<1> DEFINE y == Later(w)
<1>1. /\ WinOK(y, c, g, L) /\ y.files = w.files
      /\ y.pending = w.pending /\ y.queue = w.queue
  BY LaterOK
<1> HIDE DEF y
<1>2. Ends(w, w, p, h, c, g, L) /\ Ends(w, y, p, h, c, g, L)
  BY <1>1 DEF Ends, Dirty
<1> QED BY <1>2 DEF y

LEMMA WrittenEnds ==
  ASSUME NEW w, NEW c, NEW g, NEW L, WinOK(w, c, g, L), NEW p \in Path,
         NEW h \in Writes, WriteOK(h, c, g, L), h.result = "done"
  PROVE  Ends(w, Written(w, p, h), p, h, c, g, L)
<1>1. CASE h.by \in Saving
  <2>1. Written(w, p, h) = AfterSave(w, p, h) /\ h.text \in L
    BY <1>1 DEF Written, Saving, WriteOK
  <2>2. CASE Holds(w, p, h.text) /\ w.reload = h.reload
    <3>1. p \in DOMAIN w.files /\ w.files[p].text \in L
      BY <2>1, <2>2 DEF Holds
    <3>2. p \notin Dirty(Clean(w, p))
      BY <3>1, CleanOK DEF Dirty
    <3>3. AfterSave(w, p, h) = [Clean(w, p) EXCEPT !.pending = @ \ {p}]
      BY <2>2, <3>2 DEF AfterSave
    <3> QED BY <2>1, <3>1, <3>3, CleanEnds
  <2>3. CASE ~(Holds(w, p, h.text) /\ w.reload = h.reload)
    <3>1. CASE p \in Dirty(w)
      BY <2>1, <2>3, <3>1, PendEnds DEF AfterSave
    <3>2. CASE p \notin Dirty(w)
      <4> DEFINE y == [w EXCEPT !.pending = @ \ {p}]
      <4>1. AfterSave(w, p, h) = y
        BY <2>3, <3>2 DEF AfterSave
      <4>2. /\ WinOK(y, c, g, L) /\ y.files = w.files /\ y.queue = w.queue
            /\ y.pending = w.pending \ {p}
        BY SettledPending
      <4> HIDE DEF y
      <4> QED BY <2>1, <3>2, <4>1, <4>2 DEF Ends, Dirty
    <3> QED BY <3>1, <3>2
  <2> QED BY <2>2, <2>3
<1>2. CASE h.by \in Keeping
  <2>1. Written(w, p, h) = AfterPreserve(w, p, h) /\ h.text \in L
    BY <1>2 DEF Written, Saving, Keeping, WriteOK
  <2>2. CASE Holds(w, p, h.text)
    <3>1. p \in DOMAIN w.files /\ w.files[p].text \in L
      BY <2>1, <2>2 DEF Holds
    <3>2. AfterPreserve(w, p, h) =
            Later([Clean(w, p) EXCEPT !.pending = @ \ {p}])
      BY <2>2 DEF AfterPreserve
    <3> QED BY <2>1, <3>1, <3>2, CleanEnds
  <2>3. CASE ~Holds(w, p, h.text)
    <3>1. p \in Dirty(w) => ~Covers(h, w.files[p])
      BY <1>2, <2>3 DEF Holds, Dirty, Covers, Saving, Keeping
    <3>2. AfterPreserve(w, p, h) = Later(w)
      BY <2>3 DEF AfterPreserve
    <3> QED BY <2>1, <3>1, <3>2, SameEnds
  <2> QED BY <2>2, <2>3
<1>3. CASE h.by = "follow"
  BY <1>3, SameEnds DEF Written, Covers, Saving, Keeping
<1> QED BY <1>1, <1>2, <1>3 DEF Writes

LEMMA NotWrittenEnds ==
  ASSUME NEW w, NEW c, NEW g, NEW L, WinOK(w, c, g, L), NEW p \in Path,
         NEW h \in Writes
  PROVE  Ends(w, NotWritten(w, p, h), p, h, c, g, L)
<1>1. CASE h.by \in Saving
  <2>1. CASE p \in Dirty(w)
    <3>1. NotWritten(w, p, h) \in {Pend(w, p), Later(Pend(w, p))}
      BY <1>1, <2>1 DEF NotWritten, Saving
    <3> QED BY <3>1, PendEnds
  <2>2. CASE p \notin Dirty(w)
    <3>1. NotWritten(w, p, h) \in {w, Later(w)}
      BY <1>1, <2>2 DEF NotWritten, Saving
    <3> QED BY <2>2, <3>1, SameEnds
  <2> QED BY <2>1, <2>2
<1>2. CASE h.by = "local"
  <2>1. p \notin DOMAIN w.files => p \notin Dirty(w)
    BY DEF Dirty
  <2> QED BY <1>2, <2>1, AgainEnds, SameEnds DEF NotWritten
<1>3. CASE h.by = "follow"
  <2>1. ~Covers(h, w.files[p])
    BY <1>3 DEF Covers, Saving, Keeping
  <2> QED BY <1>3, <2>1, AgainEnds, SameEnds DEF NotWritten, Holds
<1>4. CASE h.by = "restore"
  <2>1. p \notin DOMAIN w.files => p \notin Dirty(w)
    BY DEF Dirty
  <2> QED BY <1>4, <2>1, PendEnds, SameEnds DEF NotWritten
<1> QED BY <1>1, <1>2, <1>3, <1>4 DEF Writes, Keeping

(* What the end of a write leaves is covered, if the rest of the queue     *)
(* covers what it does not, and no text that was not on disk is lost.      *)
Survives(w, y, L) ==
  \A p \in Dirty(w) :
    \/ w.files[p].text \in L
    \/ p \in Dirty(y) /\ y.files[p].text >= w.files[p].text

LEMMA EndsSurvives ==
  ASSUME NEW w, NEW y, NEW p, NEW h, NEW c \in Nat, NEW g, NEW L,
         WinOK(w, c, g, L), Ends(w, y, p, h, c, g, L)
  PROVE  Survives(w, y, L)
<1> SUFFICES ASSUME NEW q \in Dirty(w), w.files[q].text \notin L
             PROVE  q \in Dirty(y) /\ y.files[q].text >= w.files[q].text
  BY DEF Survives
<1>1. q \in DOMAIN w.files /\ w.files[q].text \in 0 .. c /\ w.files[q].dirty
  BY DEF Dirty, WinOK, BufferOK
<1>2. q \in Dirty(y)
  BY <1>1 DEF Ends, Dirty
<1> QED BY <1>1, <1>2 DEF Ends

-----------------------------------------------------------------------------
(* What the window does, one action at a time.                             *)
Alike(w, y) ==
  /\ DOMAIN y = WinFields /\ y.files = w.files /\ y.queue = w.queue
  /\ y.known = w.known /\ y.reload = w.reload

LEMMA AlikeOK ==
  ASSUME NEW w, NEW c, NEW g, NEW L, WinOK(w, c, g, L),
         NEW y, Alike(w, y), y.pending \subseteq Path
  PROVE  WinOK(y, c, g, L)
BY DEF WinOK, Alike

(* A dirty buffer of y is still as covered as it was in w, or covered anew. *)
StillCovered(w, y, p) ==
  /\ p \in Dirty(w) /\ y.files[p] = w.files[p] /\ y.queue[p] = w.queue[p]
  /\ p \in w.pending => p \in y.pending

LEMMA CoveredStill ==
  ASSUME NEW w, NEW y, Covered(w),
         \A p \in Dirty(y) :
           StillCovered(w, y, p) \/ p \in y.pending \/ Waits(y, p)
  PROVE  Covered(y)
BY DEF Covered, StillCovered, Waits

LEMMA SameSurvives ==
  ASSUME NEW w, NEW y, NEW c \in Nat, NEW g, NEW L, WinOK(w, c, g, L),
         \A p \in Dirty(w) : p \in DOMAIN y.files /\ y.files[p] = w.files[p]
  PROVE  Survives(w, y, L)
<1>1. \A p \in Dirty(w) : w.files[p].text \in 0 .. c
  BY DEF Dirty, WinOK, BufferOK
<1> QED BY <1>1 DEF Survives, Dirty

(* Well formed, every dirty buffer covered, and no text lost.              *)
Fine(w, y, c, g, L) == WinOK(y, c, g, L) /\ Covered(y) /\ Survives(w, y, L)

LEMMA AlikeFine ==
  ASSUME NEW w, NEW c \in Nat, NEW g, NEW L, WinOK(w, c, g, L), Covered(w),
         NEW y, Alike(w, y), y.pending \subseteq Path,
         \A p \in Dirty(w) : p \in w.pending => p \in y.pending
  PROVE  Fine(w, y, c, g, L)
<1>1. WinOK(y, c, g, L)
  BY AlikeOK
<1>2. Dirty(y) = Dirty(w)
  BY DEF Alike, Dirty
<1>3. Covered(y)
  BY <1>2, CoveredStill DEF Alike, StillCovered
<1>4. Survives(w, y, L)
  BY <1>2, SameSurvives DEF Alike, Dirty
<1> QED BY <1>1, <1>3, <1>4 DEF Fine

LEMMA LaterFine ==
  ASSUME NEW v, NEW w, NEW c, NEW g, NEW L, Fine(v, w, c, g, L)
  PROVE  Fine(v, Later(w), c, g, L)
<1> DEFINE y == Later(w)
<1>1. /\ WinOK(y, c, g, L) /\ y.files = w.files /\ y.pending = w.pending
      /\ y.queue = w.queue
  BY LaterOK DEF Fine
<1> HIDE DEF y
<1>2. Fine(v, y, c, g, L)
  BY <1>1 DEF Fine, Covered, Survives, Waits, Dirty
<1> QED BY <1>2 DEF y

LEMMA RememberFine ==
  ASSUME NEW v, NEW w, NEW c, NEW g \in Nat, NEW L, Fine(v, w, c, g, L),
         NEW n \in 0 .. g
  PROVE  Fine(v, Remember(w, n), c, g, L)
<1> DEFINE y == Remember(w, n)
<1>1. /\ WinOK(y, c, g, L) /\ y.files = w.files /\ y.pending = w.pending
      /\ y.queue = w.queue
  BY RememberOK DEF Fine
<1> HIDE DEF y
<1>2. Fine(v, y, c, g, L)
  BY <1>1 DEF Fine, Covered, Survives, Waits, Dirty
<1> QED BY <1>2 DEF y

LEMMA SelfFine ==
  ASSUME NEW w, NEW c \in Nat, NEW g, NEW L, WinOK(w, c, g, L), Covered(w)
  PROVE  Fine(w, w, c, g, L)
BY SameSurvives DEF Fine, Dirty

LEMMA EditFine ==
  ASSUME IInv, NEW p \in Path, Edit(p)
  PROVE  Fine(win, win', clock', gen, landed)
<1> DEFINE b == Buffer(clock', TRUE)
<1>1. /\ clock \in Nat /\ gen \in Nat /\ clock' = clock + 1
      /\ WinOK(win, clock, gen, landed) /\ Covered(win)
  BY DEF IInv, Disks, Edit
<1>2. WinOK(win, clock', gen, landed)
  BY <1>1, WinLater
<1>3. BufferOK(b, clock') /\ b.text = clock + 1 /\ b.dirty
  BY <1>1 DEF BufferOK, Buffer
<1>4. /\ Filled(win, win', p, b)
      /\ win'.pending = win.pending \cup {p}
  BY <1>1 DEF Edit, WinOK, WinFields, Filled
<1> HIDE DEF b
<1>5. /\ WinOK(win', clock', gen, landed)
      /\ DOMAIN win'.files = DOMAIN win.files \cup {p} /\ win'.files[p] = b
      /\ \A q \in DOMAIN win.files \ {p} : win'.files[q] = win.files[q]
  <2>1. win'.pending \subseteq Path
    BY <1>1, <1>4 DEF WinOK
  <2> QED BY <1>2, <1>3, <1>4, <2>1, FilledOK
<1>6. Covered(win')
  BY <1>1, <1>4, <1>5, CoveredStill DEF Filled, StillCovered, Dirty
<1>7. Survives(win, win', landed)
  <2>1. \A q \in Dirty(win) : win.files[q].text \in 0 .. clock
    BY <1>1 DEF Dirty, WinOK, BufferOK
  <2> QED BY <1>1, <1>3, <1>5, <2>1 DEF Survives, Dirty
<1> QED BY <1>5, <1>6, <1>7 DEF Fine

(* Those of the dirty buffers that are taken from the waiting ones are in  *)
(* the queues now.                                                         *)
LEMMA SavedFine ==
  ASSUME NEW w, NEW c \in Nat, NEW g \in Nat, NEW L, WinOK(w, c, g, L),
         Covered(w), NEW S, NEW by \in Saving,
         NEW y, Alike(Save(w, S, by), y), y.pending \subseteq Path,
         \A p \in Dirty(w) : p \in w.pending => p \in S \/ p \in y.pending
  PROVE  Fine(w, y, c, g, L)
<1> DEFINE x == Save(w, S, by)
<1>1. /\ WinOK(x, c, g, L) /\ x.files = w.files /\ x.pending = w.pending
      /\ \A p \in S \cap Dirty(w) : Waits(x, p)
      /\ \A p \in Dirty(w) : Waits(w, p) => Waits(x, p)
  BY SaveOK
<1>2. Alike(x, y)
  OBVIOUS
<1> HIDE DEF x
<1>3. WinOK(y, c, g, L)
  BY <1>1, <1>2, AlikeOK
<1>4. Dirty(y) = Dirty(w) /\ y.files = w.files
  BY <1>1, <1>2 DEF Alike, Dirty
<1>5. \A p : Waits(x, p) => Waits(y, p)
  BY <1>2 DEF Alike, Waits
<1>6. Covered(y)
  BY <1>1, <1>4, <1>5 DEF Covered
<1>7. Survives(w, y, L)
  BY <1>4, SameSurvives DEF Dirty
<1> QED BY <1>3, <1>6, <1>7 DEF Fine

LEMMA AutosaveFine ==
  ASSUME IInv, AutosaveFires PROVE Fine(win, win', clock, gen, landed)
<1> DEFINE x == Save(win, win.pending, "autosave")
<1>1. /\ clock \in Nat /\ gen \in Nat
      /\ WinOK(win, clock, gen, landed) /\ Covered(win)
  BY DEF IInv, Disks
<1>2. "autosave" \in Saving
  BY DEF Saving
<1>3. DOMAIN x = WinFields
  BY <1>1, <1>2, SaveOK DEF WinOK
<1>4. win' = [x EXCEPT !.timer = FALSE, !.pending = {}]
  BY DEF AutosaveFires
<1> HIDE DEF x
<1>5. Alike(x, win') /\ win'.pending = {}
  BY <1>3, <1>4 DEF Alike, WinFields
<1> QED BY <1>1, <1>2, <1>5, SavedFine DEF x

LEMMA FlushRoundFine ==
  ASSUME IInv, FlushRound PROVE Fine(win, win', clock, gen, landed)
<1> DEFINE x == Save(win, Dirty(win), "flush")
<1>1. /\ clock \in Nat /\ gen \in Nat
      /\ WinOK(win, clock, gen, landed) /\ Covered(win)
  BY DEF IInv, Disks
<1>2. "flush" \in Saving
  BY DEF Saving
<1>3. DOMAIN x = WinFields /\ x.pending = win.pending
  BY <1>1, <1>2, SaveOK DEF WinOK
<1>4. win' = [x EXCEPT !.pending = @ \ Dirty(win)]
  BY DEF FlushRound
<1> HIDE DEF x
<1>5. Alike(x, win') /\ win'.pending \subseteq Path
  BY <1>1, <1>3, <1>4 DEF Alike, WinFields, WinOK
<1> QED BY <1>1, <1>2, <1>5, SavedFine DEF x

(* The writes are answered by the backend, and the answers arrive.         *)
LEMMA ResultOK ==
  ASSUME NEW q, NEW c, NEW g, NEW L, QueueOK(q, c, g, L), q # <<>>,
         NEW h, h = q[1], NEW k, k \in Writes, k.text = h.text, k.by = h.by,
         WriteOK(k, c, g, L)
  PROVE  LET r == [q EXCEPT ![1] = k] IN
         /\ QueueOK(r, c, g, L) /\ Len(r) = Len(q) /\ r # <<>>
         /\ \A n \in 1 .. Len(q) : r[n].text = q[n].text /\ r[n].by = q[n].by
<1> DEFINE r == [q EXCEPT ![1] = k]
<1>1. /\ q \in Seq(Writes) /\ Len(q) \in Nat /\ 1 \in 1 .. Len(q)
      /\ DOMAIN q = 1 .. Len(q)
  BY DEF QueueOK
<1>2. r \in Seq(Writes) /\ Len(r) = Len(q)
  BY <1>1
<1>3. \A n \in 1 .. Len(q) : r[n] = IF n = 1 THEN k ELSE q[n]
  BY <1>1
<1> HIDE DEF r
<1>4. \A n \in 1 .. Len(r) : WriteOK(r[n], c, g, L)
  BY <1>2, <1>3 DEF QueueOK
<1>5. r # <<>>
  BY <1>1, <1>2
<1> QED BY <1>2, <1>3, <1>4, <1>5 DEF QueueOK, r


Judged(h, r, e) == [h EXCEPT !.result = r, !.expected = e]
Resulted(w, p, r, e) ==
  [w EXCEPT !.queue[p][1].result = r, !.queue[p][1].expected = e]

LEMMA JudgedOK ==
  ASSUME NEW h \in Writes, NEW c, NEW g \in Nat, NEW L, WriteOK(h, c, g, L),
         NEW r \in {"done", "conflict", "failed"}, NEW e \in 0 .. g,
         r = "done" /\ h.by # "follow" => h.text \in L
  PROVE  LET k == Judged(h, r, e) IN
         k \in Writes /\ k.text = h.text /\ k.by = h.by /\ WriteOK(k, c, g, L)
<1> DEFINE k == Judged(h, r, e)
<1>1. /\ k \in Writes /\ k.text = h.text /\ k.by = h.by
      /\ k.result = r /\ k.expected = e
  <2>1. /\ DOMAIN h = {"text", "by", "reload", "expected", "result"}
        /\ h.text \in Nat /\ h.reload \in Nat
        /\ h.by \in Saving \cup Keeping \cup {"follow"}
    BY DEF Writes
  <2>2. /\ DOMAIN k = DOMAIN h /\ k = [x \in DOMAIN k |-> k[x]]
        /\ k.text = h.text /\ k.by = h.by /\ k.reload = h.reload
        /\ k.expected = e /\ k.result = r
    BY <2>1 DEF Judged
  <2> HIDE DEF k
  <2>3. k = [text |-> h.text, by |-> h.by, reload |-> h.reload,
             expected |-> e, result |-> r]
    BY <2>1, <2>2
  <2> QED BY <2>1, <2>3 DEF Writes
<1> HIDE DEF k
<1>2. WriteOK(k, c, g, L)
  BY <1>1 DEF WriteOK
<1> QED BY <1>1, <1>2 DEF k

LEMMA ResultIs ==
  ASSUME NEW w, DOMAIN w = WinFields, DOMAIN w.queue = Path, NEW p \in Path,
         w.queue[p] \in Seq(Writes), w.queue[p] # <<>>, NEW r, NEW e
  PROVE  LET y == Resulted(w, p, r, e) IN
         /\ DOMAIN y = WinFields /\ y.files = w.files /\ y.pending = w.pending
         /\ y.known = w.known /\ y.reload = w.reload
         /\ DOMAIN y.queue = Path
         /\ y.queue[p] = [w.queue[p] EXCEPT ![1] = Judged(w.queue[p][1], r, e)]
         /\ \A q \in Path \ {p} : y.queue[q] = w.queue[q]
<1> DEFINE x == [w EXCEPT !.queue[p][1].result = r]
           y == [x EXCEPT !.queue[p][1].expected = e]
           h == w.queue[p][1]
           i == [h EXCEPT !.result = r]
           k == Judged(h, r, e)
           s == [w.queue[p] EXCEPT ![1] = i]
           t == [w.queue[p] EXCEPT ![1] = k]
           u == [x.queue[p] EXCEPT
                  ![1] = [x.queue[p][1] EXCEPT !.expected = e]]
<1>1. /\ DOMAIN x = WinFields /\ x.files = w.files /\ x.pending = w.pending
      /\ x.known = w.known /\ x.reload = w.reload
      /\ x.queue = [w.queue EXCEPT ![p] = s]
  BY DEF WinFields
<1>2. y = Resulted(w, p, r, e)
  BY DEF Resulted
<1>3. 1 \in DOMAIN w.queue[p]
  OBVIOUS
<1>4. s[1] = i /\ t = [s EXCEPT ![1] = k] /\ k = [i EXCEPT !.expected = e]
  BY <1>3 DEF Judged
<1> HIDE DEF x, s, i, k
<1>5. /\ DOMAIN x.queue = Path /\ x.queue[p] = s
      /\ \A q \in Path \ {p} : x.queue[q] = w.queue[q]
  BY <1>1
<1>6. /\ DOMAIN y = WinFields /\ y.files = x.files /\ y.pending = x.pending
      /\ y.known = x.known /\ y.reload = x.reload
      /\ y.queue = [x.queue EXCEPT ![p] = u]
  BY <1>1 DEF WinFields
<1>8. u = t
  BY <1>4, <1>5
<1> HIDE DEF y, u
<1>7. /\ DOMAIN y.queue = Path /\ y.queue[p] = t
      /\ \A q \in Path \ {p} : y.queue[q] = w.queue[q]
  BY <1>5, <1>6, <1>8
<1> QED BY <1>1, <1>2, <1>6, <1>7 DEF k

LEMMA ResultFine ==
  ASSUME NEW w, NEW c \in Nat, NEW g \in Nat, NEW L, WinOK(w, c, g, L),
         Covered(w), NEW p \in Path, w.queue[p] # <<>>,
         NEW r \in {"done", "conflict", "failed"}, NEW e \in 0 .. g,
         r = "done" /\ w.queue[p][1].by # "follow" => w.queue[p][1].text \in L
  PROVE  /\ Fine(w, Resulted(w, p, r, e), c, g, L)
         /\ Resulted(w, p, r, e).files = w.files
<1> DEFINE h == w.queue[p][1]
           k == Judged(h, r, e)
           y == Resulted(w, p, r, e)
<1>1. /\ DOMAIN w = WinFields /\ DOMAIN w.queue = Path
      /\ w.queue[p] \in Seq(Writes) /\ QueueOK(w.queue[p], c, g, L)
  BY DEF WinOK, QueueOK
<1>2. /\ DOMAIN y = WinFields /\ y.files = w.files /\ y.pending = w.pending
      /\ y.known = w.known /\ y.reload = w.reload
      /\ DOMAIN y.queue = Path
      /\ y.queue[p] = [w.queue[p] EXCEPT ![1] = k]
      /\ \A q \in Path \ {p} : y.queue[q] = w.queue[q]
  BY <1>1, ResultIs
<1>3. h \in Writes /\ WriteOK(h, c, g, L)
  <2>1. 1 \in 1 .. Len(w.queue[p])
    BY <1>1
  <2> QED BY <1>1, <2>1 DEF QueueOK
<1>4. k \in Writes /\ k.text = h.text /\ k.by = h.by /\ WriteOK(k, c, g, L)
  <2>1. r = "done" /\ h.by # "follow" => h.text \in L
    OBVIOUS
  <2>2. \A i \in Writes : i = h => Judged(i, r, e) = k
    OBVIOUS
  <2> HIDE DEF h, k
  <2>4. Judged(h, r, e) = k
    BY <1>3, <2>2
  <2>5. h \in Writes /\ WriteOK(h, c, g, L)
    BY <1>3
  <2>6. WriteOK(Judged(h, r, e), c, g, L)
    BY <2>1, <2>5, JudgedOK
  <2>7. Judged(h, r, e) \in Writes
    BY <2>1, <2>5, JudgedOK
  <2>8. Judged(h, r, e).text = h.text /\ Judged(h, r, e).by = h.by
    BY <2>5 DEF Judged, Writes
  <2> QED BY <2>4, <2>6, <2>7, <2>8
<1> HIDE DEF y, k
<1>6. /\ QueueOK(y.queue[p], c, g, L) /\ Len(y.queue[p]) = Len(w.queue[p])
      /\ y.queue[p] # <<>>
      /\ \A n \in 1 .. Len(w.queue[p]) :
           /\ y.queue[p][n].text = w.queue[p][n].text
           /\ y.queue[p][n].by = w.queue[p][n].by
  BY <1>1, <1>2, <1>4, ResultOK
<1>7. WinOK(y, c, g, L)
  <2>1. \A q \in Path : QueueOK(y.queue[q], c, g, L)
    BY <1>2, <1>6 DEF WinOK
  <2> QED BY <1>2, <2>1 DEF WinOK
<1>8. Dirty(y) = Dirty(w) /\ Dirty(w) \subseteq Path
  BY <1>2 DEF Dirty, WinOK
<1>9. ASSUME NEW q \in Dirty(w), Waits(w, q) PROVE Waits(y, q)
  <2>1. CASE q = p
    <3>1. Len(w.queue[p]) \in 1 .. Len(w.queue[p])
      BY <1>1
    <3> QED BY <1>2, <1>6, <1>9, <2>1, <3>1 DEF Waits, Covers
  <2>2. CASE q # p
    BY <1>2, <1>8, <1>9, <2>2 DEF Waits
  <2> QED BY <2>1, <2>2
<1>10. Covered(y)
  BY <1>2, <1>8, <1>9 DEF Covered
<1>11. Survives(w, y, L)
  BY <1>2, SameSurvives DEF Dirty
<1> QED BY <1>2, <1>7, <1>10, <1>11 DEF Fine, y

LEMMA BackendWritesFine ==
  ASSUME IInv, NEW p \in Path, BackendWrites(p)
  PROVE  /\ Fine(win, win', clock', gen', landed') /\ landed \subseteq landed'
         /\ Disks' /\ gen <= gen' /\ win'.files = win.files
<1> DEFINE h == win.queue[p][1]
<1>1. /\ clock \in Nat /\ gen \in Nat /\ clock' = clock
      /\ WinOK(win, clock, gen, landed) /\ Covered(win)
      /\ win.queue[p] # <<>>
  BY DEF IInv, Disks, BackendWrites
<1>2. h \in Writes /\ WriteOK(h, clock, gen, landed)
  <2>1. QueueOK(win.queue[p], clock, gen, landed)
    BY <1>1 DEF WinOK
  <2>2. 1 \in 1 .. Len(win.queue[p])
    BY <1>1, <2>1 DEF QueueOK
  <2> QED BY <2>1, <2>2 DEF QueueOK
<1>3. h.text \in 0 .. clock /\ h.expected \in 0 .. gen
  BY <1>2 DEF Writes, WriteOK
<1>4. ASSUME NEW r \in {"conflict", "failed"},
             win' = Resulted(win, p, r, h.expected),
             UNCHANGED <<disk, gen, changed, landed>>
      PROVE  /\ Fine(win, win', clock', gen', landed')
             /\ landed \subseteq landed'
             /\ Disks' /\ gen <= gen' /\ win'.files = win.files
  <2>1. Fine(win, win', clock, gen, landed) /\ win'.files = win.files
    BY <1>1, <1>3, <1>4, ResultFine
  <2> QED BY <1>1, <1>4, <2>1 DEF IInv, Disks
<1>5. ASSUME disk' = [disk EXCEPT ![p] = h.text], gen' = gen + 1,
             changed' = [changed EXCEPT ![p] = gen + 1],
             landed' = IF h.by = "follow" THEN landed
                       ELSE landed \cup {h.text},
             win' = Resulted(win, p, "done", gen + 1)
      PROVE  /\ Fine(win, win', clock', gen', landed')
             /\ landed \subseteq landed'
             /\ Disks' /\ gen <= gen' /\ win'.files = win.files
  <2>1. gen' \in Nat /\ gen + 1 \in 0 .. gen' /\ gen <= gen'
    BY <1>1, <1>5
  <2>2. landed \subseteq landed' /\ (h.by # "follow" => h.text \in landed')
    BY <1>5
  <2>3. WinOK(win, clock, gen', landed')
    BY <1>1, <2>1, <2>2, WinLater
  <2>4. Fine(win, win', clock, gen', landed') /\ win'.files = win.files
    BY <1>1, <1>5, <2>1, <2>2, <2>3, ResultFine
  <2>5. Disks'
    <3>1. disk' \in [Path -> 0 .. clock \cup {None}]
      BY <1>3, <1>5 DEF IInv, Disks
    <3>2. changed' \in [Path -> 0 .. gen + 1]
      BY <1>1, <1>5 DEF IInv, Disks
    <3> QED BY <1>1, <1>5, <2>1, <3>1, <3>2 DEF Disks
  <2> QED BY <1>1, <2>1, <2>2, <2>4, <2>5
<1>6. \/ /\ UNCHANGED <<disk, gen, changed, landed>>
         /\ \E r \in {"conflict", "failed"} :
              win' = Resulted(win, p, r, h.expected)
      \/ /\ disk' = [disk EXCEPT ![p] = h.text] /\ gen' = gen + 1
         /\ changed' = [changed EXCEPT ![p] = gen + 1]
         /\ landed' = IF h.by = "follow" THEN landed
                      ELSE landed \cup {h.text}
         /\ win' = Resulted(win, p, "done", gen + 1)
  BY DEF BackendWrites, backend, Resulted
<1> HIDE DEF h
<1> QED BY <1>4, <1>5, <1>6

(* What is left of a queue when its first write h is answered: the next    *)
(* one starts from generation e, or all of them fail with h.               *)
Handed(q, h, e) ==
  LET rest == Tail(q) IN
  IF rest = <<>> THEN rest
  ELSE IF h.result = "done" THEN [rest EXCEPT ![1].expected = e]
  ELSE [n \in DOMAIN rest |-> [rest[n] EXCEPT !.result = h.result]]

LEMMA ChangedWrite ==
  ASSUME NEW h \in Writes, NEW c, NEW g \in Nat, NEW L, WriteOK(h, c, g, L)
  PROVE  /\ \A e \in 0 .. g :
              LET k == [h EXCEPT !.expected = e] IN
              k \in Writes /\ k.text = h.text /\ k.by = h.by
              /\ WriteOK(k, c, g, L)
         /\ \A r \in {"conflict", "failed"} :
              LET k == [h EXCEPT !.result = r] IN
              k \in Writes /\ k.text = h.text /\ k.by = h.by
              /\ WriteOK(k, c, g, L)
<1>1. ASSUME NEW e \in 0 .. g
      PROVE  LET k == [h EXCEPT !.expected = e] IN
             k \in Writes /\ k.text = h.text /\ k.by = h.by
             /\ WriteOK(k, c, g, L)
  BY DEF Writes, WriteOK
<1>2. ASSUME NEW r \in {"conflict", "failed"}
      PROVE  LET k == [h EXCEPT !.result = r] IN
             k \in Writes /\ k.text = h.text /\ k.by = h.by
             /\ WriteOK(k, c, g, L)
  BY DEF Writes, WriteOK
<1> QED BY <1>1, <1>2

LEMMA HandedOK ==
  ASSUME NEW q, NEW c, NEW g \in Nat, NEW L, QueueOK(q, c, g, L), q # <<>>,
         q[1].result # "waiting", NEW e \in 0 .. g
  PROVE  LET r == Handed(q, q[1], e) IN
         /\ QueueOK(r, c, g, L) /\ Len(r) = Len(q) - 1
         /\ \A n \in 1 .. Len(r) :
              r[n].text = q[n + 1].text /\ r[n].by = q[n + 1].by
<1> DEFINE rest == Tail(q)
           h == q[1]
           r == Handed(q, h, e)
<1>1. /\ q \in Seq(Writes) /\ Len(q) \in Nat /\ Len(q) >= 1
      /\ h \in Writes
      /\ rest \in Seq(Writes) /\ Len(rest) = Len(q) - 1
      /\ DOMAIN rest = 1 .. Len(rest)
      /\ \A n \in 1 .. Len(rest) : rest[n] = q[n + 1] /\ rest[n] \in Writes
  BY DEF QueueOK
<1>2. \A n \in 1 .. Len(rest) : n + 1 \in 1 .. Len(q)
  BY <1>1
<1>3. \A n \in 1 .. Len(rest) : WriteOK(rest[n], c, g, L)
  BY <1>1, <1>2 DEF QueueOK
<1>4. /\ r = IF rest = <<>> THEN rest
             ELSE IF h.result = "done" THEN [rest EXCEPT ![1].expected = e]
             ELSE [n \in DOMAIN rest |-> [rest[n] EXCEPT !.result = h.result]]
      /\ h.result \in {"done", "conflict", "failed"}
  BY <1>1 DEF Handed, Writes
<1> HIDE DEF rest, h, r
<1>5. CASE rest = <<>>
  BY <1>1, <1>3, <1>4, <1>5 DEF QueueOK, r, h
<1>6. CASE rest # <<>> /\ h.result = "done"
  <2> DEFINE k == [rest[1] EXCEPT !.expected = e]
  <2>1. 1 \in 1 .. Len(rest)
    BY <1>1, <1>6
  <2>2. rest[1] \in Writes /\ WriteOK(rest[1], c, g, L)
    BY <1>1, <1>3, <2>1
  <2>3. /\ k \in Writes /\ k.text = rest[1].text /\ k.by = rest[1].by
        /\ WriteOK(k, c, g, L)
    BY <2>2, ChangedWrite
  <2>4. r = [rest EXCEPT ![1] = k]
    BY <1>4, <1>6
  <2> HIDE DEF k
  <2>5. r \in Seq(Writes) /\ Len(r) = Len(rest)
    BY <1>1, <2>1, <2>3, <2>4
  <2>6. \A n \in 1 .. Len(rest) : r[n] = IF n = 1 THEN k ELSE rest[n]
    BY <1>1, <2>1, <2>4
  <2>7. QueueOK(r, c, g, L)
    BY <1>3, <2>3, <2>5, <2>6 DEF QueueOK
  <2>8. \A n \in 1 .. Len(r) :
          r[n].text = q[n + 1].text /\ r[n].by = q[n + 1].by
    BY <1>1, <2>3, <2>5, <2>6
  <2> QED BY <1>1, <2>5, <2>7, <2>8 DEF r, h
<1>7. CASE rest # <<>> /\ h.result # "done"
  <2> DEFINE k(n) == [rest[n] EXCEPT !.result = h.result]
  <2>1. ASSUME NEW n \in 1 .. Len(rest)
        PROVE  /\ k(n) \in Writes /\ k(n).text = rest[n].text
               /\ k(n).by = rest[n].by /\ WriteOK(k(n), c, g, L)
    <3>1. rest[n] \in Writes /\ WriteOK(rest[n], c, g, L)
      BY <1>1, <1>3
    <3>2. h.result \in {"conflict", "failed"}
      BY <1>4, <1>7
    <3> QED BY <3>1, <3>2, ChangedWrite
  <2>2. r = [n \in 1 .. Len(rest) |-> k(n)]
    BY <1>1, <1>4, <1>7
  <2> HIDE DEF k
  <2>3. r \in Seq(Writes) /\ Len(r) = Len(rest)
    <3>1. \A n \in 1 .. Len(rest) : k(n) \in Writes
      BY <2>1
    <3>2. r \in [1 .. Len(rest) -> Writes]
      BY <2>2, <3>1
    <3> QED BY <1>1, <3>2
  <2>4. \A n \in 1 .. Len(rest) : r[n] = k(n)
    BY <2>2
  <2>5. QueueOK(r, c, g, L)
    BY <2>1, <2>3, <2>4 DEF QueueOK
  <2>6. \A n \in 1 .. Len(r) :
          r[n].text = q[n + 1].text /\ r[n].by = q[n + 1].by
    BY <1>1, <2>1, <2>3, <2>4
  <2> QED BY <1>1, <2>3, <2>5, <2>6 DEF r, h
<1> QED BY <1>5, <1>6, <1>7

LEMMA AnsweredFine ==
  ASSUME IInv, NEW p \in Path, Answered(p)
  PROVE  Fine(win, win', clock, gen, landed)
<1> DEFINE q == win.queue[p]
           h == q[1]
           told == IF h.result = "done" THEN h.expected ELSE gen
           y == Remember(win, told)
           z == [y EXCEPT !.queue[p] = Handed(q, h, y.known)]
           x == IF h.result = "done" THEN Written(z, p, h)
                ELSE NotWritten(z, p, h)
<1>1. /\ clock \in Nat /\ gen \in Nat
      /\ WinOK(win, clock, gen, landed) /\ Covered(win)
  BY DEF IInv, Disks
<1>2. QueueOK(q, clock, gen, landed) /\ q # <<>> /\ h.result # "waiting"
  BY <1>1 DEF WinOK, Answered
<1>3. q \in Seq(Writes) /\ h \in Writes /\ WriteOK(h, clock, gen, landed)
  <2>1. 1 \in 1 .. Len(q)
    BY <1>2 DEF QueueOK
  <2> QED BY <1>2, <2>1 DEF QueueOK
<1>4. win' = x
  BY DEF Answered, Handed
<1>5. told \in 0 .. gen
  BY <1>1, <1>3 DEF WriteOK, Writes
<1> HIDE DEF told
<1>6. /\ WinOK(y, clock, gen, landed) /\ y.files = win.files
      /\ y.pending = win.pending /\ y.queue = win.queue
  BY <1>1, <1>5, RememberOK
<1>7. y.known \in 0 .. gen
  BY <1>6 DEF WinOK
<1> DEFINE r == Handed(q, h, y.known)
<1>8. /\ QueueOK(r, clock, gen, landed) /\ Len(r) = Len(q) - 1
      /\ \A n \in 1 .. Len(r) :
           r[n].text = q[n + 1].text /\ r[n].by = q[n + 1].by
  BY <1>1, <1>2, <1>7, HandedOK
<1> HIDE DEF q, h, y, r
<1>9. /\ DOMAIN z = WinFields /\ z.files = win.files
      /\ z.pending = win.pending /\ z.known = y.known
      /\ z.reload = y.reload /\ z.queue = [win.queue EXCEPT ![p] = r]
  BY <1>6 DEF WinOK, WinFields, r
<1> HIDE DEF z
<1>10. /\ DOMAIN z.queue = Path /\ z.queue[p] = r
       /\ \A o \in Path \ {p} : z.queue[o] = win.queue[o]
  BY <1>1, <1>9 DEF WinOK
<1>11. WinOK(z, clock, gen, landed)
  <2>1. \A o \in Path : QueueOK(z.queue[o], clock, gen, landed)
    BY <1>1, <1>8, <1>10 DEF WinOK
  <2> QED BY <1>6, <1>9, <1>10, <2>1 DEF WinOK
<1>12. Ends(z, x, p, h, clock, gen, landed)
  <2>1. CASE h.result = "done"
    BY <1>3, <1>11, <2>1, WrittenEnds
  <2>2. CASE h.result # "done"
    BY <1>3, <1>11, <2>2, NotWrittenEnds
  <2> QED BY <2>1, <2>2
<1> HIDE DEF x
<1>13. Covered(x)
  <2> SUFFICES ASSUME NEW o \in Dirty(x) PROVE o \in x.pending \/ Waits(x, o)
    BY DEF Covered
  <2>1. /\ o \in DOMAIN win.files /\ x.files[o].text = win.files[o].text
        /\ x.queue = z.queue /\ o \in Path
    BY <1>1, <1>9, <1>12 DEF Ends, Dirty, WinOK
  <2>2. CASE o # p
    <3>1. o \in Dirty(win)
      BY <1>9, <1>12, <2>1, <2>2 DEF Ends, Dirty
    <3>2. CASE o \in win.pending
      BY <1>9, <1>12, <2>2, <3>2 DEF Ends
    <3>3. CASE Waits(win, o)
      BY <1>10, <2>1, <2>2, <3>3 DEF Waits, Covers
    <3> QED BY <1>1, <3>1, <3>2, <3>3 DEF Covered
  <2>3. CASE o = p /\ o \notin x.pending
    <3>1. /\ p \in Dirty(win) /\ p \notin win.pending
          /\ ~Covers(h, win.files[p])
      BY <1>9, <1>12, <2>3 DEF Ends, Dirty
    <3>2. Waits(win, p)
      BY <1>1, <3>1 DEF Covered
    <3>3. Covers(q[Len(q)], win.files[p])
      BY <3>2 DEF Waits, q
    <3>4. Len(q) \in Nat /\ Len(q) # 0 /\ Len(q) # 1
      BY <1>2, <1>3, <3>1, <3>3 DEF h
    <3>5. r # <<>> /\ Len(r) \in 1 .. Len(r) /\ Len(r) + 1 = Len(q)
      BY <1>8, <3>4 DEF QueueOK
    <3>6. Covers(r[Len(r)], win.files[p])
      BY <1>8, <3>3, <3>5 DEF Covers
    <3> QED BY <1>10, <2>1, <2>3, <3>5, <3>6 DEF Waits, Covers
  <2> QED BY <2>2, <2>3
<1>14. Survives(win, x, landed)
  <2>1. Survives(z, x, landed)
    BY <1>1, <1>11, <1>12, EndsSurvives
  <2> QED BY <1>9, <2>1 DEF Survives, Dirty
<1>15. WinOK(x, clock, gen, landed)
  BY <1>12 DEF Ends
<1> QED BY <1>4, <1>13, <1>14, <1>15 DEF Fine

(* Transitions: they flush, close, restore and delete.                     *)
LEMMA StartFlushingFine ==
  ASSUME IInv, NEW op, StartFlushing(op)
  PROVE  Fine(win, win', clock, gen, landed)
<1>1. /\ clock \in Nat /\ WinOK(win, clock, gen, landed) /\ Covered(win)
      /\ win' = [win EXCEPT !.timer = FALSE]
  BY DEF IInv, Disks, StartFlushing
<1>2. Alike(win, win') /\ win'.pending = win.pending
  BY <1>1 DEF Alike, WinOK, WinFields
<1>3. win'.pending \subseteq Path
  BY <1>1, <1>2 DEF WinOK
<1> QED BY <1>1, <1>2, <1>3, AlikeFine

LEMMA FlushFailsFine ==
  ASSUME IInv, FlushFails PROVE Fine(win, win', clock, gen, landed)
<1>1. /\ clock \in Nat /\ WinOK(win, clock, gen, landed) /\ Covered(win)
      /\ win' = [win EXCEPT !.pending = @ \cup Dirty(win)]
  BY DEF IInv, Disks, FlushFails
<1>2. Alike(win, win') /\ win'.pending = win.pending \cup Dirty(win)
  BY <1>1 DEF Alike, WinOK, WinFields
<1>3. win'.pending \subseteq Path
  BY <1>1, <1>2 DEF WinOK, Dirty
<1> QED BY <1>1, <1>2, <1>3, AlikeFine

LEMMA FlushedForCloseFine ==
  ASSUME IInv, FlushedForClose PROVE Fine(win, win', clock, gen, landed)
<1>1. /\ clock \in Nat /\ WinOK(win, clock, gen, landed) /\ Covered(win)
      /\ win' = [win EXCEPT !.epoch = @ + 1, !.timer = FALSE, !.pending = {}]
      /\ Dirty(win) = {}
  BY DEF IInv, Disks, FlushedForClose
<1>2. Alike(win, win') /\ win'.pending = {}
  BY <1>1 DEF Alike, WinOK, WinFields
<1> QED BY <1>1, <1>2, AlikeFine

LEMMA CloseEndsOK ==
  ASSUME IInv, CloseEnds
  PROVE  WinOK(win', clock, gen, landed) /\ Covered(win')
<1>1. /\ WinOK(win, clock, gen, landed)
      /\ win' = [win EXCEPT !.open = FALSE, !.files = <<>>]
  BY DEF IInv, CloseEnds
<1>2. /\ DOMAIN win' = WinFields /\ DOMAIN win'.files = {}
      /\ win'.pending = win.pending /\ win'.known = win.known
      /\ win'.reload = win.reload /\ win'.queue = win.queue
  BY <1>1 DEF WinOK, WinFields
<1>3. WinOK(win', clock, gen, landed)
  BY <1>1, <1>2 DEF WinOK
<1> QED BY <1>2, <1>3 DEF Covered, Dirty

LEMMA FlushedForRestoreFine ==
  ASSUME IInv, FlushedForRestore PROVE Fine(win, win', clock, gen, landed)
<1> DEFINE y == [win EXCEPT !.pending = {}]
<1>1. /\ clock \in Nat /\ gen \in Nat /\ WinOK(win, clock, gen, landed)
      /\ Covered(win) /\ win' = Remember(y, gen) /\ Dirty(win) = {}
  BY DEF IInv, Disks, FlushedForRestore
<1>2. Alike(win, y) /\ y.pending = {}
  BY <1>1 DEF Alike, WinOK, WinFields
<1> HIDE DEF y
<1>3. Fine(win, y, clock, gen, landed)
  BY <1>1, <1>2, AlikeFine
<1>4. gen \in 0 .. gen
  BY <1>1
<1> QED BY <1>1, <1>3, <1>4, RememberFine

(* Not one buffer is touched when the window hears of another state of the *)
(* project; the reload does that.                                          *)
LEMMA StateChangedFine ==
  ASSUME NEW w, NEW c \in Nat, NEW g \in Nat, NEW L, WinOK(w, c, g, L),
         Covered(w), NEW e, e.gen \in 0 .. g
  PROVE  Fine(w, StateChanged(w, e), c, g, L)
<1>1. CASE e.rev <= w.rev
  BY <1>1, SelfFine DEF StateChanged
<1>2. CASE ~(e.rev <= w.rev)
  <2> DEFINE v == Remember(w, e.gen)
             y == [v EXCEPT !.rev = e.rev, !.epoch = @ + 1, !.reload = @ + 1]
  <2>1. StateChanged(w, e) = y
    BY <1>2 DEF StateChanged
  <2>2. Fine(w, v, c, g, L)
    BY SelfFine, RememberFine
  <2> HIDE DEF v
  <2>3. /\ DOMAIN y = WinFields /\ y.files = v.files /\ y.queue = v.queue
        /\ y.pending = v.pending /\ y.known = v.known /\ y.reload \in Nat
    BY <2>2 DEF Fine, WinOK, WinFields
  <2> HIDE DEF y
  <2>4. WinOK(y, c, g, L)
    BY <2>2, <2>3 DEF Fine, WinOK
  <2>5. Covered(y) /\ Survives(w, y, L)
    BY <2>2, <2>3 DEF Fine, Covered, Survives, Waits, Dirty
  <2> QED BY <2>1, <2>4, <2>5 DEF Fine
<1> QED BY <1>1, <1>2

LEMMA BackendRestoresFine ==
  ASSUME IInv, BackendRestores
  PROVE  /\ Fine(win, win', clock', gen', landed') /\ Disks'
         /\ clock <= clock' /\ gen <= gen' /\ landed' = landed
<1>1. /\ clock \in Nat /\ gen \in Nat
      /\ WinOK(win, clock, gen, landed) /\ Covered(win)
  BY DEF IInv, Disks
<1>2. CASE UNCHANGED <<backend, win, clock>>
  BY <1>1, <1>2, SelfFine DEF backend, IInv, Disks
<1>3. CASE ProjectChanges
           /\ win' = StateChanged(win, [rev |-> gen', gen |-> gen'])
  <2> DEFINE e == [rev |-> gen', gen |-> gen']
  <2>1. /\ clock' = clock + 1 /\ gen' = gen + 1 /\ landed' = landed
        /\ clock' \in Nat /\ gen' \in Nat
    BY <1>1, <1>3 DEF ProjectChanges
  <2>2. WinOK(win, clock', gen', landed')
    BY <1>1, <2>1, WinLater
  <2>3. e.gen \in 0 .. gen' /\ win' = StateChanged(win, e)
    BY <1>3, <2>1
  <2> HIDE DEF e
  <2>4. Fine(win, win', clock', gen', landed')
    BY <1>1, <2>1, <2>2, <2>3, StateChangedFine
  <2>5. Disks'
    <3>1. disk' \in [Path -> 0 .. clock' \cup {None}]
      BY <1>1, <1>3, <2>1 DEF ProjectChanges
    <3>2. changed' \in [Path -> 0 .. gen']
      BY <1>1, <1>3, <2>1 DEF ProjectChanges
    <3> QED BY <2>1, <3>1, <3>2 DEF Disks
  <2> QED BY <1>1, <2>1, <2>4, <2>5
<1> QED BY <1>2, <1>3 DEF BackendRestores

LEMMA StartDeleteFine ==
  ASSUME IInv, NEW p \in Path, StartDelete(p)
  PROVE  Fine(win, win', clock, gen, landed)
<1> DEFINE y == [win EXCEPT !.pending = @ \ {p}]
<1>1. /\ clock \in Nat /\ WinOK(win, clock, gen, landed) /\ Covered(win)
      /\ win' = Later(y) /\ p \notin Dirty(win)
  BY DEF IInv, Disks, StartDelete
<1>2. Alike(win, y) /\ y.pending = win.pending \ {p}
  BY <1>1 DEF Alike, WinOK, WinFields
<1> HIDE DEF y
<1>3. y.pending \subseteq Path
  BY <1>1, <1>2 DEF WinOK
<1>4. Fine(win, y, clock, gen, landed)
  BY <1>1, <1>2, <1>3, AlikeFine
<1> QED BY <1>1, <1>4, LaterFine

LEMMA DeleteAsksFine ==
  ASSUME IInv, DeleteAsks PROVE Fine(win, win', clock, gen, landed)
<1>1. /\ clock \in Nat /\ gen \in Nat /\ WinOK(win, clock, gen, landed)
      /\ Covered(win) /\ win' = Remember(win, gen) /\ gen \in 0 .. gen
  BY DEF IInv, Disks, DeleteAsks
<1> QED BY <1>1, SelfFine, RememberFine

LEMMA RefreshReturnsFine ==
  ASSUME IInv, RefreshReturns PROVE Fine(win, win', clock, gen, landed)
<1> DEFINE y == Remember(win, gen)
<1>1. /\ clock \in Nat /\ gen \in Nat /\ WinOK(win, clock, gen, landed)
      /\ Covered(win) /\ win' = [y EXCEPT !.refreshing = FALSE]
      /\ gen \in 0 .. gen
  BY DEF IInv, Disks, RefreshReturns
<1>2. Fine(win, y, clock, gen, landed)
  BY <1>1, SelfFine, RememberFine
<1> HIDE DEF y
<1>3. Alike(y, win') /\ win'.pending = y.pending
  BY <1>1, <1>2 DEF Alike, Fine, WinOK, WinFields
<1>4. win'.pending \subseteq Path
  BY <1>2, <1>3 DEF Fine, WinOK
<1>5. Fine(y, win', clock, gen, landed)
  BY <1>1, <1>2, <1>3, <1>4, AlikeFine DEF Fine
<1>6. Survives(win, win', landed)
  BY <1>2, <1>3 DEF Fine, Survives, Alike, Dirty
<1> QED BY <1>5, <1>6 DEF Fine

(* A file is closed, or gone.                                              *)
LEMMA ForgetOK ==
  ASSUME NEW w, NEW c \in Nat, NEW g, NEW L, WinOK(w, c, g, L), Covered(w),
         NEW p
  PROVE  LET y == [w EXCEPT !.files = Forget(@, {p})] IN
         /\ WinOK(y, c, g, L) /\ Covered(y)
         /\ p \notin Dirty(w) => Survives(w, y, L)
<1> DEFINE y == [w EXCEPT !.files = Forget(@, {p})]
<1>1. /\ DOMAIN y = WinFields /\ y.files = Forget(w.files, {p})
      /\ y.pending = w.pending /\ y.known = w.known
      /\ y.reload = w.reload /\ y.queue = w.queue
  BY DEF WinOK, WinFields
<1> HIDE DEF y
<1>2. /\ DOMAIN y.files = DOMAIN w.files \ {p}
      /\ \A q \in DOMAIN y.files : y.files[q] = w.files[q]
  BY <1>1 DEF Forget
<1>3. WinOK(y, c, g, L)
  BY <1>1, <1>2 DEF WinOK
<1>4. Covered(y)
  BY <1>1, <1>2, CoveredStill DEF StillCovered, Dirty
<1>5. p \notin Dirty(w) => Survives(w, y, L)
  <2>1. \A q \in Dirty(w) : q # p =>
           q \in DOMAIN y.files /\ y.files[q] = w.files[q]
    BY <1>2 DEF Dirty
  <2> QED BY <2>1, SameSurvives
<1> QED BY <1>3, <1>4, <1>5 DEF y

LEMMA DeleteEndsOK ==
  ASSUME IInv, DeleteEnds
  PROVE  WinOK(win', clock, gen, landed) /\ Covered(win')
<1> DEFINE v == Remember(win, task.expected)
           y == [v EXCEPT !.files = Forget(@, {task.path})]
<1>1. /\ clock \in Nat /\ gen \in Nat /\ WinOK(win, clock, gen, landed)
      /\ Covered(win) /\ task.expected \in 0 .. gen
  BY DEF IInv, Disks, Tasks
<1>2. win' = Later(y) \/ win' = Later(win)
  BY DEF DeleteEnds
<1>3. Fine(win, win, clock, gen, landed)
  BY <1>1, SelfFine
<1>4. Fine(win, v, clock, gen, landed)
  BY <1>1, <1>3, RememberFine
<1> HIDE DEF v
<1>5. WinOK(y, clock, gen, landed) /\ Covered(y)
  BY <1>1, <1>4, ForgetOK DEF Fine
<1> HIDE DEF y
<1>6. Fine(y, y, clock, gen, landed)
  BY <1>1, <1>5, SelfFine
<1>7. /\ Fine(y, Later(y), clock, gen, landed)
      /\ Fine(win, Later(win), clock, gen, landed)
  BY <1>3, <1>6, LaterFine
<1> QED BY <1>2, <1>7 DEF Fine

(* A clean buffer is put in place.                                         *)
LEMMA PutCleanOK ==
  ASSUME NEW w, NEW c \in Nat, NEW g, NEW L, WinOK(w, c, g, L), Covered(w),
         NEW p \in Path, NEW b, BufferOK(b, c), ~b.dirty
  PROVE  LET y == [w EXCEPT !.files = Put(@, p, b)] IN
         /\ WinOK(y, c, g, L) /\ Covered(y)
         /\ y.pending = w.pending /\ y.queue = w.queue
         /\ p \notin Dirty(y)
         /\ \A q \in DOMAIN w.files \ {p} :
              q \in DOMAIN y.files /\ y.files[q] = w.files[q]
<1> DEFINE y == [w EXCEPT !.files = Put(@, p, b)]
<1>2. Filled(w, y, p, b) /\ y.pending = w.pending
  BY DEF Filled, WinOK, WinFields
<1> HIDE DEF y
<1>3. y.pending \subseteq Path
  BY <1>2 DEF WinOK
<1>4. /\ WinOK(y, c, g, L)
      /\ DOMAIN y.files = DOMAIN w.files \cup {p} /\ y.files[p] = b
      /\ \A q \in DOMAIN w.files \ {p} : y.files[q] = w.files[q]
  BY <1>2, <1>3, FilledOK
<1>5. p \notin Dirty(y)
  BY <1>4 DEF Dirty
<1>6. Covered(y)
  BY <1>2, <1>4, <1>5, CoveredStill DEF Filled, StillCovered, Dirty
<1> QED BY <1>2, <1>4, <1>5, <1>6 DEF Filled, y

LEMMA LoadReturnsOK ==
  ASSUME IInv, NEW l \in loads, LoadReturns(l)
  PROVE  WinOK(win', clock, gen, landed) /\ Covered(win')
<1>1. /\ clock \in Nat /\ WinOK(win, clock, gen, landed) /\ Covered(win)
      /\ l.path \in Path /\ l.text \in 0 .. clock
  BY DEF IInv, Disks, Loads, LoadOK, LoadReturns
<1> DEFINE b == Buffer(l.text, FALSE)
           y == [win EXCEPT !.files = Put(@, l.path, b)]
<1>2. BufferOK(b, clock) /\ ~b.dirty
  BY <1>1, BufferIs
<1>3. win' = win \/ win' = y
  BY DEF LoadReturns
<1> HIDE DEF b
<1>4. WinOK(y, clock, gen, landed) /\ Covered(y)
  BY <1>1, <1>2, PutCleanOK
<1> HIDE DEF y
<1> QED BY <1>1, <1>3, <1>4

(* What others did is announced.                                           *)
LEMMA EnqueueFine ==
  ASSUME NEW w, NEW c \in Nat, NEW g \in Nat, NEW L, WinOK(w, c, g, L),
         NEW p \in Path, NEW text, text \in 0 .. c,
         NEW by \in Keeping \cup {"follow"},
         \A q \in Dirty(w) \ {p} : q \in w.pending \/ Waits(w, q),
         p \in Dirty(w) => by \in Keeping /\ text = w.files[p].text
  PROVE  LET y == Enqueue(w, p, text, by) IN
         WinOK(y, c, g, L) /\ Covered(y) /\ y.files = w.files
<1> DEFINE y == Enqueue(w, p, text, by)
<1>1. Joins(w, p, text, by, c, g, L)
  BY DEF Joins
<1>2. /\ WinOK(y, c, g, L)
      /\ y.files = w.files /\ y.pending = w.pending
      /\ \A q \in Path \ {p} : y.queue[q] = w.queue[q]
      /\ y.queue[p] # <<>>
      /\ y.queue[p][Len(y.queue[p])].by = by
      /\ y.queue[p][Len(y.queue[p])].text = text
  BY <1>1, EnqueueOK
<1> HIDE DEF y
<1>3. Dirty(y) = Dirty(w) /\ Dirty(w) \subseteq Path
  BY <1>2 DEF Dirty, WinOK
<1>4. p \in Dirty(w) => Waits(y, p)
  BY <1>2 DEF Waits, Covers
<1>5. \A q \in Dirty(w) \ {p} : q \in y.pending \/ Waits(y, q)
  BY <1>2, <1>3 DEF Waits
<1>6. Covered(y)
  BY <1>3, <1>4, <1>5 DEF Covered
<1> QED BY <1>2, <1>6 DEF y

(* The window hears of a change of the file p.                             *)
LEMMA HeardOK ==
  ASSUME NEW w, NEW c, NEW g, NEW L, WinOK(w, c, g, L), Covered(w), NEW p,
         NEW y, Alike(w, y), y.pending = w.pending \ {p}
  PROVE  /\ WinOK(y, c, g, L) /\ Dirty(y) = Dirty(w)
         /\ \A q \in Dirty(y) \ {p} : q \in y.pending \/ Waits(y, q)
         /\ p \notin Dirty(w) => Covered(y)
<1>1. y.pending \subseteq Path
  BY DEF WinOK
<1>2. WinOK(y, c, g, L)
  BY <1>1, AlikeOK
<1>3. Dirty(y) = Dirty(w)
  BY DEF Alike, Dirty
<1>4. \A q \in Dirty(y) \ {p} : q \in y.pending \/ Waits(y, q)
  BY <1>3 DEF Covered, Waits, Alike
<1> QED BY <1>2, <1>3, <1>4 DEF Covered

LEMMA ExternalWriteFine ==
  ASSUME NEW w, NEW c \in Nat, NEW g \in Nat, NEW L, WinOK(w, c, g, L),
         Covered(w), NEW p \in Path, NEW text, text \in 0 .. c
  PROVE  Fine(w, ExternalWrite(w, p, text), c, g, L)
<1> DEFINE y == [w EXCEPT !.pending = @ \ {p}, !.refreshing = TRUE]
           b == Buffer(text, FALSE)
           x == [y EXCEPT !.files = Put(@, p, b)]
<1>1. Alike(w, y) /\ y.pending = w.pending \ {p}
  BY DEF Alike, WinOK, WinFields
<1>2. ExternalWrite(w, p, text) =
        IF p \in Dirty(w) THEN Enqueue(y, p, w.files[p].text, "local")
        ELSE IF w.queue[p] = <<>> THEN x ELSE Enqueue(x, p, text, "follow")
  BY DEF ExternalWrite
<1>6. BufferOK(b, c) /\ b.text = text /\ ~b.dirty
  BY BufferIs
<1> HIDE DEF y, b
<1>3. /\ WinOK(y, c, g, L) /\ Dirty(y) = Dirty(w) /\ y.files = w.files
      /\ \A q \in Dirty(y) \ {p} : q \in y.pending \/ Waits(y, q)
      /\ p \notin Dirty(w) => Covered(y)
  BY <1>1, HeardOK DEF Alike
<1>4. CASE p \in Dirty(w)
  <2>1. PICK d : d = w.files[p] /\ d.text \in 0 .. c
    BY <1>4 DEF Dirty, WinOK, BufferOK
  <2> DEFINE z == Enqueue(y, p, d.text, "local")
  <2>2. "local" \in Keeping \cup {"follow"} /\ "local" \in Keeping
    BY DEF Keeping
  <2>3. WinOK(z, c, g, L) /\ Covered(z) /\ z.files = y.files
    BY <1>3, <2>1, <2>2, EnqueueFine
  <2>4. ExternalWrite(w, p, text) = z
    BY <1>2, <1>4, <2>1
  <2> HIDE DEF z
  <2>5. Survives(w, z, L)
    BY <1>3, <2>3, SameSurvives DEF Dirty
  <2> QED BY <2>3, <2>4, <2>5 DEF Fine
<1>5. CASE p \notin Dirty(w)
  <2>0. WinOK(y, c, g, L) /\ Covered(y)
    BY <1>3, <1>5
  <2>1. /\ WinOK(x, c, g, L) /\ Covered(x) /\ p \notin Dirty(x)
        /\ \A q \in DOMAIN y.files \ {p} :
             q \in DOMAIN x.files /\ x.files[q] = y.files[q]
    BY <1>6, <2>0, PutCleanOK
  <2> HIDE DEF x
  <2>2. \A q \in Dirty(w) : q \in DOMAIN x.files /\ x.files[q] = w.files[q]
    BY <1>3, <1>5, <2>1 DEF Dirty
  <2>3. Survives(w, x, L)
    BY <2>2, SameSurvives
  <2>4. CASE w.queue[p] = <<>>
    BY <1>2, <1>5, <2>1, <2>3, <2>4 DEF Fine
  <2>5. CASE w.queue[p] # <<>>
    <3> DEFINE z == Enqueue(x, p, b.text, "follow")
    <3>1. "follow" \in Keeping \cup {"follow"}
      OBVIOUS
    <3>2. \A q \in Dirty(x) \ {p} : q \in x.pending \/ Waits(x, q)
      BY <2>1 DEF Covered
    <3>6. b.text \in 0 .. c
      BY <1>6
    <3>3. WinOK(z, c, g, L) /\ Covered(z) /\ z.files = x.files
      BY <1>6, <2>1, <3>1, <3>2, <3>6, EnqueueFine
    <3>4. ExternalWrite(w, p, text) = z
      BY <1>2, <1>5, <1>6, <2>5
    <3> HIDE DEF z
    <3>5. Survives(w, z, L)
      BY <2>3, <3>3 DEF Survives, Dirty
    <3> QED BY <3>3, <3>4, <3>5 DEF Fine
  <2> QED BY <2>4, <2>5
<1> QED BY <1>4, <1>5

LEMMA ExternalDeleteFine ==
  ASSUME NEW w, NEW c \in Nat, NEW g \in Nat, NEW L, WinOK(w, c, g, L),
         Covered(w), NEW p \in Path
  PROVE  Fine(w, ExternalDelete(w, p), c, g, L)
<1> DEFINE y == [w EXCEPT !.pending = @ \ {p}, !.refreshing = TRUE,
                          !.epoch = @ + 1]
           x == [y EXCEPT !.files = Forget(@, {p})]
<1>1. Alike(w, y) /\ y.pending = w.pending \ {p}
  BY DEF Alike, WinOK, WinFields
<1>2. ExternalDelete(w, p) =
        IF p \in Dirty(w) THEN Enqueue(y, p, w.files[p].text, "restore")
        ELSE x
  BY DEF ExternalDelete
<1> HIDE DEF y
<1>3. /\ WinOK(y, c, g, L) /\ Dirty(y) = Dirty(w) /\ y.files = w.files
      /\ \A q \in Dirty(y) \ {p} : q \in y.pending \/ Waits(y, q)
      /\ p \notin Dirty(w) => Covered(y)
  BY <1>1, HeardOK DEF Alike
<1>4. CASE p \in Dirty(w)
  <2>1. PICK b : b = w.files[p] /\ b.text \in 0 .. c
    BY <1>4 DEF Dirty, WinOK, BufferOK
  <2> DEFINE z == Enqueue(y, p, b.text, "restore")
  <2>2. "restore" \in Keeping \cup {"follow"} /\ "restore" \in Keeping
    BY DEF Keeping
  <2>3. WinOK(z, c, g, L) /\ Covered(z) /\ z.files = y.files
    BY <1>3, <2>1, <2>2, EnqueueFine
  <2>4. ExternalDelete(w, p) = z
    BY <1>2, <1>4, <2>1
  <2> HIDE DEF z
  <2>5. Survives(w, z, L)
    BY <1>3, <2>3, SameSurvives DEF Dirty
  <2> QED BY <2>3, <2>4, <2>5 DEF Fine
<1>5. CASE p \notin Dirty(w)
  <2>1. WinOK(x, c, g, L) /\ Covered(x) /\ Survives(y, x, L)
    BY <1>3, <1>5, ForgetOK
  <2>2. ExternalDelete(w, p) = x
    BY <1>2, <1>5
  <2> HIDE DEF x
  <2> QED BY <1>3, <2>1, <2>2 DEF Fine, Survives
<1> QED BY <1>4, <1>5

LEMMA HearFine ==
  ASSUME IInv, Hear PROVE Fine(win, win', clock, gen, landed)
<1>1. /\ clock \in Nat /\ gen \in Nat
      /\ WinOK(win, clock, gen, landed) /\ Covered(win) /\ events # <<>>
  BY DEF IInv, Disks, Hear
<1>2. PICK e : e = Head(events)
  OBVIOUS
<1>3. EventOK(e, clock, gen)
  <2>1. PICK S : /\ events \in Seq(S)
                 /\ \A d \in S : EventOK(d, clock, gen)
    BY DEF IInv, EventsOK
  <2>2. e \in S
    BY <1>1, <1>2, <2>1
  <2> QED BY <2>1, <2>2
<1>4. CASE ~win.open
  <2>1. win' = win
    BY <1>4 DEF Hear
  <2> QED BY <1>1, <2>1, SelfFine
<1>5. CASE win.open /\ e.kind = "write"
  <2>1. win' = ExternalWrite(win, e.path, e.text)
    BY <1>2, <1>5 DEF Hear
  <2>2. e.path \in Path /\ e.text \in 0 .. clock
    BY <1>3, <1>5 DEF EventOK
  <2> QED BY <1>1, <2>1, <2>2, ExternalWriteFine
<1>6. CASE win.open /\ e.kind = "delete"
  <2>1. win' = ExternalDelete(win, e.path)
    BY <1>2, <1>6 DEF Hear
  <2>2. e.path \in Path
    BY <1>3, <1>6 DEF EventOK
  <2> QED BY <1>1, <2>1, <2>2, ExternalDeleteFine
<1>7. CASE win.open /\ e.kind = "state"
  <2>1. win' = StateChanged(win, e)
    BY <1>2, <1>7 DEF Hear
  <2>2. e.gen \in 0 .. gen
    BY <1>3, <1>7 DEF EventOK
  <2> QED BY <1>1, <2>1, <2>2, StateChangedFine
<1> QED BY <1>3, <1>4, <1>5, <1>6, <1>7 DEF EventOK

(* A reload ends: no dirty buffer changes, and those whose file is gone    *)
(* are saved again.                                                        *)
LEMMA ReloadedFine ==
  ASSUME IInv, NEW r \in reloads, Reloaded(r)
  PROVE  Fine(win, win', clock, gen, landed)
<1> DEFINE kept == {p \in DOMAIN win.files : Reconciled(r, p) # None}
           rescued == {p \in Dirty(win) : r.seen[p] = None}
           y == [win EXCEPT !.files = [p \in kept |-> Reconciled(r, p)]]
           x == Save(y, rescued, "rescue")
           z == [x EXCEPT !.pending = @ \cup rescued]
<1>1. /\ clock \in Nat /\ gen \in Nat
      /\ WinOK(win, clock, gen, landed) /\ Covered(win)
      /\ \A p \in Path : r.seen[p] \in 0 .. clock \cup {None}
  BY DEF IInv, Disks, Reloads, ReloadOK, Reloaded
<1>2. win' = win \/ win' = Later(z)
  BY DEF Reloaded
<1>3. /\ DOMAIN y = WinFields /\ y.pending = win.pending
      /\ y.files = [p \in kept |-> Reconciled(r, p)]
      /\ y.known = win.known /\ y.reload = win.reload /\ y.queue = win.queue
  BY <1>1 DEF WinOK, WinFields
<1> HIDE DEF y
<1>4. ASSUME NEW p \in DOMAIN win.files
      PROVE  /\ p \in Path /\ BufferOK(win.files[p], clock)
             /\ win.files[p] # None
             /\ win.files[p].dirty => Reconciled(r, p) = win.files[p]
             /\ Reconciled(r, p) # None =>
                  /\ BufferOK(Reconciled(r, p), clock)
                  /\ Reconciled(r, p).dirty => win.files[p].dirty
  <2>1. p \in Path /\ BufferOK(win.files[p], clock)
    BY <1>1 DEF WinOK
  <2>2. win.files[p] # None
    BY <1>1, <2>1, NoneAssumption DEF BufferOK
  <2>3. \/ Reconciled(r, p) = win.files[p]
        \/ Reconciled(r, p) = None /\ ~win.files[p].dirty
        \/ /\ Reconciled(r, p) = Buffer(r.seen[p], FALSE)
           /\ ~win.files[p].dirty /\ r.seen[p] # None
    BY DEF Reconciled
  <2>4. r.seen[p] # None => /\ BufferOK(Buffer(r.seen[p], FALSE), clock)
                            /\ ~Buffer(r.seen[p], FALSE).dirty
    BY <1>1, <2>1, BufferIs
  <2> QED BY <2>1, <2>2, <2>3, <2>4
<1>5. Dirty(y) = Dirty(win)
      /\ \A p \in Dirty(win) : p \in DOMAIN y.files /\ y.files[p] = win.files[p]
  BY <1>3, <1>4 DEF Dirty
<1>6. WinOK(y, clock, gen, landed)
  <2>1. \A p \in DOMAIN y.files : p \in Path /\ BufferOK(y.files[p], clock)
    BY <1>3, <1>4
  <2> QED BY <1>1, <1>3, <2>1 DEF WinOK
<1>7. Covered(y)
  BY <1>1, <1>3, <1>5, CoveredStill DEF StillCovered
<1>8. "rescue" \in Saving
  BY DEF Saving
<1> HIDE DEF rescued
<1>9. DOMAIN x = WinFields /\ x.pending = y.pending
  BY <1>1, <1>6, <1>8, SaveOK DEF WinOK
<1> HIDE DEF x
<1>10. Alike(x, z) /\ z.pending = y.pending \cup rescued
  BY <1>9 DEF Alike, WinFields
<1> HIDE DEF z
<1>11. z.pending \subseteq Path
  BY <1>4, <1>6, <1>10 DEF WinOK, rescued, Dirty
<1>12. Fine(y, z, clock, gen, landed)
  BY <1>1, <1>6, <1>7, <1>8, <1>10, <1>11, SavedFine DEF x
<1>13. Survives(win, z, landed)
  BY <1>5, <1>12 DEF Fine, Survives
<1>14. Fine(win, Later(z), clock, gen, landed)
  BY <1>12, <1>13, LaterFine DEF Fine
<1>15. Fine(win, win, clock, gen, landed)
  BY <1>1, SelfFine
<1> QED BY <1>2, <1>14, <1>15

(* What changes the disk, the generation or the number of texts.           *)
Elsewhere ==
  \/ BackendDeletes \/ OtherRestores
  \/ \E p \in Path : OtherWrites(p) \/ OtherDeletes(p)
Calm == UNCHANGED <<disk, gen, changed, clock, landed>>

LEMMA ProjectChangesOK ==
  ASSUME Disks, ProjectChanges
  PROVE  Disks' /\ clock' = clock + 1 /\ gen' = gen + 1
<1>1. /\ clock' = clock + 1 /\ gen' = gen + 1
      /\ clock' \in Nat /\ gen' \in Nat
  BY DEF Disks, ProjectChanges
<1>2. disk' \in [Path -> 0 .. clock' \cup {None}]
  BY <1>1 DEF ProjectChanges, Disks
<1>3. changed' \in [Path -> 0 .. gen']
  BY <1>1 DEF ProjectChanges, Disks
<1> QED BY <1>1, <1>2, <1>3 DEF Disks

LEMMA ElsewhereOK ==
  ASSUME IInv, Elsewhere
  PROVE  /\ Disks' /\ clock <= clock' /\ gen <= gen'
         /\ Fine(win, win', clock', gen', landed) /\ win' = win
         /\ landed' = landed
<1>1. /\ clock \in Nat /\ gen \in Nat /\ Disks
      /\ WinOK(win, clock, gen, landed) /\ Covered(win)
  BY DEF IInv, Disks
<1>2. win' = win /\ landed' = landed
  BY DEF Elsewhere, BackendDeletes, OtherRestores, OtherWrites, OtherDeletes,
         ProjectChanges, backend
<1>3. Disks' /\ clock <= clock' /\ gen <= gen'
  <2>1. CASE BackendDeletes
    <3>1. CASE UNCHANGED backend
      BY <1>1, <2>1, <3>1 DEF BackendDeletes, backend, Disks
    <3>2. CASE ~UNCHANGED backend
      <4>1. /\ gen' = gen + 1 /\ clock' = clock
            /\ disk' = [disk EXCEPT ![task.path] = None]
            /\ changed' = [changed EXCEPT ![task.path] = gen + 1]
        BY <2>1, <3>2 DEF BackendDeletes
      <4>2. changed' \in [Path -> 0 .. gen + 1]
        <5>1. changed \in [Path -> 0 .. gen + 1] /\ gen + 1 \in 0 .. gen + 1
          BY <1>1 DEF Disks
        <5> QED BY <4>1, <5>1
      <4> QED BY <1>1, <4>1, <4>2 DEF Disks
    <3> QED BY <3>1, <3>2
  <2>2. CASE OtherRestores
    BY <1>1, <2>2, ProjectChangesOK DEF OtherRestores
  <2>3. ASSUME NEW p \in Path, OtherWrites(p)
        PROVE  Disks' /\ clock <= clock' /\ gen <= gen'
    <3>1. /\ gen' = gen + 1 /\ clock' = clock + 1
          /\ disk' = [disk EXCEPT ![p] = clock + 1]
          /\ changed' = [changed EXCEPT ![p] = gen + 1]
      BY <2>3 DEF OtherWrites
    <3>2. changed' \in [Path -> 0 .. gen + 1]
      BY <1>1, <3>1 DEF Disks
    <3>3. disk' \in [Path -> 0 .. clock + 1 \cup {None}]
      BY <1>1, <3>1 DEF Disks
    <3> QED BY <1>1, <3>1, <3>2, <3>3 DEF Disks
  <2>4. ASSUME NEW p \in Path, OtherDeletes(p)
        PROVE  Disks' /\ clock <= clock' /\ gen <= gen'
    <3>1. /\ gen' = gen + 1 /\ clock' = clock
          /\ disk' = [disk EXCEPT ![p] = None]
          /\ changed' = [changed EXCEPT ![p] = gen + 1]
      BY <2>4 DEF OtherDeletes
    <3>2. changed' \in [Path -> 0 .. gen + 1]
      BY <1>1, <3>1 DEF Disks
    <3> QED BY <1>1, <3>1, <3>2 DEF Disks
  <2> QED BY <2>1, <2>2, <2>3, <2>4 DEF Elsewhere
<1>4. clock' \in Nat /\ gen' \in Nat
  BY <1>3 DEF Disks
<1>5. WinOK(win, clock', gen', landed)
  BY <1>1, <1>3, <1>4, WinLater
<1>6. Fine(win, win, clock', gen', landed)
  BY <1>1, <1>4, <1>5, SelfFine
<1> QED BY <1>2, <1>3, <1>6
-----------------------------------------------------------------------------
(* No step loses a text that was not on disk, but for the three that the   *)
(* user or the answer of a read brings about.                              *)
Kept ==
  Survives(win, win', landed) \/ CloseEnds \/ DeleteEnds \/ Loading

Grown ==
  /\ Disks' /\ clock <= clock' /\ gen <= gen'
  /\ WinOK(win', clock', gen', landed') /\ Covered(win') /\ Kept

LEMMA CalmGrown ==
  ASSUME IInv, UNCHANGED backend, clock' = clock,
         WinOK(win', clock, gen, landed), Covered(win'), Kept
  PROVE  Grown
BY DEF IInv, Disks, backend, Grown

LEMMA FineGrown ==
  ASSUME IInv, UNCHANGED backend, clock' = clock,
         Fine(win, win', clock, gen, landed)
  PROVE  Grown
BY CalmGrown DEF Fine, Kept

LEMMA IdleGrown ==
  ASSUME IInv, UNCHANGED backend, clock' = clock, win' = win
  PROVE  Grown
<1>1. clock \in Nat /\ WinOK(win, clock, gen, landed) /\ Covered(win)
  BY DEF IInv, Disks
<1> QED BY <1>1, SelfFine, FineGrown

LEMMA TransitionGrows ==
  ASSUME IInv, Transition PROVE Grown
<1>1. CASE FlushRound
  BY <1>1, FlushRoundFine, FineGrown DEF FlushRound
<1>2. CASE FlushFails
  BY <1>2, FlushFailsFine, FineGrown DEF FlushFails
<1>3. CASE FlushedForClose
  BY <1>3, FlushedForCloseFine, FineGrown DEF FlushedForClose
<1>4. CASE CloseEnds
  <2>1. UNCHANGED backend /\ clock' = clock
    BY <1>4 DEF CloseEnds
  <2> QED BY <1>4, <2>1, CloseEndsOK, CalmGrown DEF Kept
<1>5. CASE FlushedForRestore
  BY <1>5, FlushedForRestoreFine, FineGrown DEF FlushedForRestore
<1>6. CASE BackendRestores
  BY <1>6, BackendRestoresFine DEF Grown, Fine, Kept
<1>7. CASE RestoreEnds
  BY <1>7, IdleGrown DEF RestoreEnds
<1>8. CASE DeleteAsks
  BY <1>8, DeleteAsksFine, FineGrown DEF DeleteAsks
<1>9. CASE BackendDeletes
  BY <1>9, ElsewhereOK DEF Elsewhere, Grown, Fine, Kept
<1>10. CASE DeleteEnds
  <2>1. UNCHANGED backend /\ clock' = clock
    BY <1>10 DEF DeleteEnds
  <2> QED BY <1>10, <2>1, DeleteEndsOK, CalmGrown DEF Kept
<1> QED BY <1>1, <1>2, <1>3, <1>4, <1>5, <1>6, <1>7, <1>8, <1>9, <1>10
    DEF Transition

LEMMA PathGrows ==
  ASSUME IInv, NEW p \in Path,
         \/ Writing(p) \/ Edit(p) \/ StartDelete(p)
         \/ OpenFile(p) \/ OtherWrites(p) \/ OtherDeletes(p)
  PROVE  Grown
<1>1. CASE BackendWrites(p)
  <2>1. /\ Fine(win, win', clock', gen', landed') /\ Disks' /\ gen <= gen'
        /\ win'.files = win.files
    BY <1>1, BackendWritesFine
  <2>2. clock \in Nat /\ clock' = clock /\ WinOK(win, clock, gen, landed)
    BY <1>1 DEF IInv, Disks, BackendWrites
  <2>3. Survives(win, win', landed)
    BY <2>1, <2>2, SameSurvives DEF Dirty
  <2> QED BY <2>1, <2>2, <2>3 DEF Grown, Fine, Kept
<1>2. CASE Answered(p)
  BY <1>2, AnsweredFine, FineGrown DEF Answered
<1>3. CASE Edit(p)
  <2>1. Fine(win, win', clock', gen, landed)
    BY <1>3, EditFine
  <2>2. /\ clock \in Nat /\ clock' = clock + 1 /\ gen \in Nat
        /\ UNCHANGED <<disk, gen, changed, landed>>
    BY <1>3 DEF IInv, Disks, Edit, backend
  <2>3. Disks'
    BY <2>2 DEF IInv, Disks
  <2> QED BY <2>1, <2>2, <2>3 DEF Grown, Fine, Kept
<1>4. CASE StartDelete(p)
  BY <1>4, StartDeleteFine, FineGrown DEF StartDelete
<1>5. CASE OpenFile(p)
  BY <1>5, IdleGrown DEF OpenFile
<1>6. CASE OtherWrites(p) \/ OtherDeletes(p)
  BY <1>6, ElsewhereOK DEF Elsewhere, Grown, Fine, Kept
<1> QED BY <1>1, <1>2, <1>3, <1>4, <1>5, <1>6 DEF Writing

LEMMA StepGrows ==
  ASSUME IInv, Next PROVE Grown
<1>1. CASE AutosaveFires
  BY <1>1, AutosaveFine, FineGrown DEF AutosaveFires
<1>2. CASE Transition
  BY <1>2, TransitionGrows
<1>3. ASSUME NEW l \in loads, BackendReads(l) PROVE Grown
  BY <1>3, IdleGrown DEF BackendReads
<1>4. ASSUME NEW l \in loads, LoadReturns(l) PROVE Grown
  <2>1. UNCHANGED backend /\ clock' = clock /\ Loading
    BY <1>4 DEF LoadReturns, Loading
  <2> QED BY <1>4, <2>1, LoadReturnsOK, CalmGrown DEF Kept
<1>5. ASSUME NEW r \in reloads, ReloadReads(r) PROVE Grown
  BY <1>5, IdleGrown DEF ReloadReads
<1>6. ASSUME NEW r \in reloads, Reloaded(r) PROVE Grown
  <2>1. UNCHANGED backend /\ clock' = clock
    BY <1>6 DEF Reloaded
  <2> QED BY <1>6, <2>1, ReloadedFine, FineGrown
<1>7. CASE Hear
  <2>1. UNCHANGED backend /\ clock' = clock
    BY <1>7 DEF Hear
  <2> QED BY <1>7, <2>1, HearFine, FineGrown
<1>8. CASE RefreshReturns
  BY <1>8, RefreshReturnsFine, FineGrown DEF RefreshReturns
<1>9. ASSUME NEW op, StartFlushing(op) PROVE Grown
  BY <1>9, StartFlushingFine, FineGrown DEF StartFlushing
<1>10. CASE OtherRestores
  BY <1>10, ElsewhereOK DEF Elsewhere, Grown, Fine, Kept
<1>11. CASE Loading \/ Reloading
  BY <1>3, <1>4, <1>5, <1>6, <1>11 DEF Loading, Reloading
<1>12. CASE StartFlushing("close") \/ StartFlushing("restore")
  BY <1>9, <1>12
<1> QED BY <1>1, <1>2, <1>7, <1>8, <1>10, <1>11, <1>12, PathGrows DEF Next

(* The rest of the state: what transitions, reads and events carry.        *)
LEMMA TasksStay ==
  ASSUME IInv, Next, Grown PROVE Tasks'
<1>1. /\ Tasks /\ gen \in Nat /\ gen' \in Nat /\ gen <= gen'
      /\ win.known \in 0 .. gen
  BY DEF IInv, Disks, Grown, WinOK
<1>2. CASE task' = task
  BY <1>1, <1>2 DEF Tasks
<1>3. CASE task' = NoTask
  BY <1>1, <1>3 DEF Tasks, NoTask, TaskFields
<1>4. ASSUME NEW op \in {"close", "restore"}, StartFlushing(op)
      PROVE  Tasks'
  BY <1>1, <1>4 DEF StartFlushing, Start, Tasks, NoTask, TaskFields
<1>5. CASE FlushedForClose
  BY <1>1, <1>5 DEF FlushedForClose, Tasks, TaskFields
<1>6. CASE FlushedForRestore
  BY <1>1, <1>6 DEF FlushedForRestore, Tasks, TaskFields
<1>7. CASE BackendRestores
  BY <1>1, <1>3, <1>7 DEF BackendRestores, Tasks, TaskFields
<1>8. ASSUME NEW p \in Path, StartDelete(p) PROVE Tasks'
  BY <1>1, <1>8 DEF StartDelete, Tasks, NoTask, TaskFields
<1>9. CASE DeleteAsks
  <2>1. Newer(win.known, gen) \in 0 .. gen'
    BY <1>1 DEF Newer
  <2>2. task' = [task EXCEPT !.pc = "deleting",
                             !.expected = Newer(win.known, gen)]
    BY <1>9 DEF DeleteAsks
  <2> QED BY <1>1, <2>1, <2>2 DEF Tasks, TaskFields
<1>10. CASE BackendDeletes
  <2>1. CASE task' = [task EXCEPT !.pc = "refused"]
    BY <1>1, <2>1 DEF Tasks, TaskFields
  <2>2. CASE gen' = gen + 1 /\ task' = [task EXCEPT !.pc = "deleted",
                                                    !.expected = gen + 1]
    BY <1>1, <2>2 DEF Tasks, TaskFields
  <2> QED BY <1>10, <2>1, <2>2 DEF BackendDeletes
<1>11. ASSUME NEW p \in Path, Answered(p) PROVE Tasks'
  <2>1. PICK n, f : task' = [task EXCEPT !.waits = n, !.failed = f]
    BY <1>11 DEF Answered
  <2> QED BY <1>1, <2>1 DEF Tasks, TaskFields
<1>12. \/ task' = task \/ task' = NoTask
       \/ \E op \in {"close", "restore"} : StartFlushing(op)
       \/ FlushedForClose \/ FlushedForRestore \/ BackendRestores
       \/ DeleteAsks \/ BackendDeletes
       \/ \E p \in Path : StartDelete(p) \/ Answered(p)
  BY DEF Next, Transition, Loading, Reloading, Writing,
    AutosaveFires, FlushRound, FlushFails, CloseEnds, RestoreEnds, DeleteEnds,
    BackendReads, LoadReturns, ReloadReads, Reloaded, Hear, RefreshReturns,
    BackendWrites, Edit, OpenFile, OtherWrites, OtherDeletes, OtherRestores
<1> QED BY <1>2, <1>3, <1>4, <1>5, <1>6, <1>7, <1>8, <1>9, <1>10, <1>11, <1>12

LEMMA LoadsStay ==
  ASSUME IInv, Next, Grown PROVE Loads'
<1>1. /\ Loads /\ Disks /\ clock \in Nat /\ clock' \in Nat /\ clock <= clock'
  BY DEF IInv, Disks, Grown
<1>2. \A l : LoadOK(l, clock) => LoadOK(l, clock')
  BY <1>1 DEF LoadOK
<1>3. CASE loads' \subseteq loads
  BY <1>1, <1>2, <1>3 DEF Loads
<1>4. ASSUME NEW p \in Path, OpenFile(p) PROVE Loads'
  <2> DEFINE l == [path |-> p, by |-> "open", at |-> win.epoch, text |-> None]
  <2>1. LoadOK(l, clock')
    BY DEF LoadOK
  <2>2. loads' \subseteq loads \cup {l}
    BY <1>4 DEF OpenFile
  <2> HIDE DEF l
  <2> QED BY <1>1, <1>2, <2>1, <2>2 DEF Loads
<1>5. ASSUME NEW l \in loads, BackendReads(l) PROVE Loads'
  <2> DEFINE k == [l EXCEPT !.text = disk[l.path]]
  <2>1. LoadOK(k, clock)
    BY <1>1 DEF Loads, LoadOK, Disks
  <2>2. loads' \subseteq loads \cup {k}
    BY <1>5 DEF BackendReads
  <2> HIDE DEF k
  <2> QED BY <1>1, <1>2, <2>1, <2>2 DEF Loads
<1>6. \/ loads' \subseteq loads
      \/ \E p \in Path : OpenFile(p)
      \/ \E l \in loads : BackendReads(l)
  BY DEF Next, Transition, Loading, Reloading, Writing,
    AutosaveFires, FlushRound, FlushFails, FlushedForClose, CloseEnds,
    FlushedForRestore, BackendRestores, RestoreEnds, DeleteAsks,
    BackendDeletes, DeleteEnds, LoadReturns, ReloadReads, Reloaded, Hear,
    RefreshReturns, StartFlushing, BackendWrites, Answered, Edit, StartDelete,
    OtherWrites, OtherDeletes, OtherRestores
<1> QED BY <1>3, <1>4, <1>5, <1>6

LEMMA ReloadsStay ==
  ASSUME IInv, Next, Grown PROVE Reloads'
<1>1. /\ Reloads /\ Disks /\ clock \in Nat /\ clock' \in Nat /\ clock <= clock'
  BY DEF IInv, Disks, Grown
<1>2. \A r : ReloadOK(r, clock) => ReloadOK(r, clock')
  BY <1>1 DEF ReloadOK
<1>3. CASE reloads' \subseteq reloads
  BY <1>1, <1>2, <1>3 DEF Reloads
<1>4. ASSUME NEW e, StartReload(e) PROVE Reloads'
  <2> DEFINE r == [rev |-> e.rev, files |-> win.files, seen |-> None]
  <2>1. ReloadOK(r, clock')
    BY DEF ReloadOK
  <2>2. reloads' \subseteq reloads \cup {r}
    BY <1>4 DEF StartReload
  <2> HIDE DEF r
  <2> QED BY <1>1, <1>2, <2>1, <2>2 DEF Reloads
<1>5. ASSUME NEW r \in reloads, ReloadReads(r) PROVE Reloads'
  <2> DEFINE k == [r EXCEPT !.seen = disk]
  <2>1. ReloadOK(k, clock)
    BY <1>1 DEF Reloads, ReloadOK, Disks
  <2>2. reloads' \subseteq reloads \cup {k}
    BY <1>5 DEF ReloadReads
  <2> HIDE DEF k
  <2> QED BY <1>1, <1>2, <2>1, <2>2 DEF Reloads
<1>6. CASE BackendRestores
  BY <1>3, <1>4, <1>6 DEF BackendRestores
<1>7. CASE Hear
  <2>1. reloads' = reloads \/ StartReload(Head(events))
    BY <1>7 DEF Hear
  <2> QED BY <1>3, <1>4, <2>1
<1>8. \/ reloads' \subseteq reloads \/ BackendRestores \/ Hear
      \/ \E r \in reloads : ReloadReads(r)
  BY DEF Next, Transition, Loading, Reloading, Writing,
    AutosaveFires, FlushRound, FlushFails, FlushedForClose, CloseEnds,
    FlushedForRestore, RestoreEnds, DeleteAsks, BackendDeletes, DeleteEnds,
    BackendReads, LoadReturns, Reloaded, RefreshReturns, StartFlushing,
    BackendWrites, Answered, Edit, StartDelete, OpenFile,
    OtherWrites, OtherDeletes, OtherRestores
<1> QED BY <1>3, <1>5, <1>6, <1>7, <1>8

(* A queue of events whose elements are all fine stays one.                *)
LEMMA EventsLater ==
  ASSUME NEW q, NEW c \in Nat, NEW g \in Nat, EventsOK(q, c, g),
         NEW d \in Nat, NEW h \in Nat, c <= d, g <= h
  PROVE  /\ EventsOK(q, d, h)
         /\ q # <<>> => EventsOK(Tail(q), d, h)
         /\ \A e : EventOK(e, d, h) => EventsOK(Append(q, e), d, h)
<1>1. PICK S : q \in Seq(S) /\ \A e \in S : EventOK(e, c, g)
  BY DEF EventsOK
<1>2. \A e : EventOK(e, c, g) => EventOK(e, d, h)
  BY DEF EventOK
<1>3. EventsOK(q, d, h) /\ (q # <<>> => EventsOK(Tail(q), d, h))
  BY <1>1, <1>2 DEF EventsOK
<1>4. ASSUME NEW e, EventOK(e, d, h) PROVE EventsOK(Append(q, e), d, h)
  <2> DEFINE T == S \cup {e}
  <2>1. Append(q, e) \in Seq(T)
    <3>1. q \in Seq(T) /\ e \in T
      BY <1>1
    <3> QED BY <3>1
  <2>2. \A f \in T : EventOK(f, d, h)
    BY <1>1, <1>2, <1>4
  <2> HIDE DEF T
  <2> QED BY <2>1, <2>2 DEF EventsOK
<1> QED BY <1>3, <1>4

LEMMA EventsStay ==
  ASSUME IInv, Next, Grown PROVE EventsOK(events, clock, gen)'
<1>1. /\ EventsOK(events, clock, gen) /\ clock \in Nat /\ gen \in Nat
      /\ clock' \in Nat /\ gen' \in Nat /\ clock <= clock' /\ gen <= gen'
  BY DEF IInv, Disks, Grown
<1>2. CASE events' = events
  BY <1>1, <1>2, EventsLater
<1>3. CASE Hear
  BY <1>1, <1>3, EventsLater DEF Hear
<1>4. ASSUME NEW e, EventOK(e, clock', gen'), events' = Append(events, e)
      PROVE  EventsOK(events', clock', gen')
  BY <1>1, <1>4, EventsLater
<1>5. ASSUME NEW p \in Path, OtherWrites(p)
      PROVE  EventsOK(events', clock', gen')
  <2> DEFINE e == [kind |-> "write", path |-> p, text |-> clock + 1]
  <2>1. events' = Append(events, e) /\ clock' = clock + 1
    BY <1>5 DEF OtherWrites
  <2>2. EventOK(e, clock', gen')
    BY <1>1, <2>1 DEF EventOK
  <2> HIDE DEF e
  <2> QED BY <1>4, <2>1, <2>2
<1>6. ASSUME NEW p \in Path, OtherDeletes(p)
      PROVE  EventsOK(events', clock', gen')
  <2> DEFINE e == [kind |-> "delete", path |-> p]
  <2>1. events' = Append(events, e)
    BY <1>6 DEF OtherDeletes
  <2>2. EventOK(e, clock', gen')
    BY DEF EventOK
  <2> HIDE DEF e
  <2> QED BY <1>4, <2>1, <2>2
<1>7. CASE OtherRestores
  <2> DEFINE e == [kind |-> "state", rev |-> gen', gen |-> gen']
  <2>1. events' = Append(events, e)
    BY <1>7 DEF OtherRestores
  <2>2. EventOK(e, clock', gen')
    BY <1>1 DEF EventOK
  <2> HIDE DEF e
  <2> QED BY <1>4, <2>1, <2>2
<1>8. \/ events' = events \/ Hear \/ OtherRestores
      \/ \E p \in Path : OtherWrites(p) \/ OtherDeletes(p)
  BY DEF Next, Transition, Loading, Reloading, Writing,
    AutosaveFires, FlushRound, FlushFails, FlushedForClose, CloseEnds,
    FlushedForRestore, BackendRestores, RestoreEnds, DeleteAsks,
    BackendDeletes, DeleteEnds, BackendReads, LoadReturns, ReloadReads,
    Reloaded, RefreshReturns, StartFlushing, BackendWrites, Answered, Edit,
    StartDelete, OpenFile
<1> QED BY <1>2, <1>3, <1>5, <1>6, <1>7, <1>8
-----------------------------------------------------------------------------
LEMMA InitIsFine ==
  ASSUME Init PROVE IInv
<1>1. PICK s \in Scenarios :
        /\ win = [open |-> TRUE, files |-> [p \in s.open |-> Buffer(0, FALSE)],
                  pending |-> {}, timer |-> FALSE, known |-> 0, reload |-> 0,
                  rev |-> 0, epoch |-> 0, refreshing |-> FALSE,
                  queue |-> [p \in Path |-> <<>>]]
        /\ loads = {[path |-> p, by |-> "preload", at |-> 0, text |-> None] :
                      p \in s.preload}
  BY DEF Init
<1>2. s.open \subseteq Path /\ s.preload \subseteq Path
  BY ScenarioAssumption
<1>3. Disks
  BY DEF Init, Disks
<1>4. Tasks
  BY DEF Init, Tasks, NoTask, TaskFields
<1>5. Loads
  BY <1>1, <1>2 DEF Loads, LoadOK
<1>6. Reloads
  BY DEF Init, Reloads
<1>7. EventsOK(events, clock, gen)
  <2>1. events \in Seq({})
    BY DEF Init
  <2> QED BY <2>1 DEF EventsOK
<1>8. BufferOK(Buffer(0, FALSE), clock) /\ ~Buffer(0, FALSE).dirty
  BY DEF Init, BufferOK, Buffer
<1>9. /\ DOMAIN win = WinFields /\ DOMAIN win.files = s.open
      /\ win.pending = {} /\ win.known = 0 /\ win.reload = 0
      /\ win.queue = [p \in Path |-> <<>>]
      /\ \A p \in s.open : win.files[p] = Buffer(0, FALSE)
  BY <1>1 DEF WinFields
<1>10. \A p \in Path : QueueOK(win.queue[p], clock, gen, landed)
  <2>1. QueueOK(<<>>, clock, gen, landed)
    BY DEF QueueOK
  <2> QED BY <1>9, <2>1
<1>11. WinOK(win, clock, gen, landed)
  <2>1. \A p \in DOMAIN win.files : BufferOK(win.files[p], clock)
    BY <1>8, <1>9
  <2>2. win.known \in 0 .. gen /\ win.reload \in Nat
    BY <1>9 DEF Init
  <2>3. DOMAIN win.queue = Path
    BY <1>9
  <2> QED BY <1>2, <1>9, <1>10, <2>1, <2>2, <2>3 DEF WinOK
<1>12. Covered(win)
  BY <1>8, <1>9 DEF Covered, Dirty
<1> QED BY <1>3, <1>4, <1>5, <1>6, <1>7, <1>11, <1>12 DEF IInv

LEMMA StepStays ==
  ASSUME IInv, [Next]_vars PROVE IInv'
<1>1. CASE Next
  <2>1. Grown
    BY <1>1, StepGrows
  <2>2. Disks' /\ WinOK(win, clock, gen, landed)' /\ Covered(win)'
    BY <2>1 DEF Grown
  <2> QED BY <1>1, <2>1, <2>2, TasksStay, LoadsStay, ReloadsStay, EventsStay
          DEF IInv
<1>2. CASE UNCHANGED vars
  <2>1. /\ UNCHANGED <<disk, gen, changed, win, task, loads>>
        /\ UNCHANGED <<reloads, events, clock, landed>>
    BY <1>2 DEF vars
  <2>2. Disks' /\ Tasks' /\ Loads' /\ Reloads'
    BY <2>1 DEF IInv, Disks, Tasks, Loads, Reloads
  <2>3. /\ EventsOK(events, clock, gen)' /\ WinOK(win, clock, gen, landed)'
        /\ Covered(win)'
    BY <2>1 DEF IInv
  <2> QED BY <2>2, <2>3 DEF IInv
<1> QED BY <1>1, <1>2

(* The queues of writes always hold what the unsaved buffers need: whoever *)
(* saves, fails, reloads, closes or hears of others, the last write queued *)
(* for a dirty buffer that is not pending will save it or keep its text.   *)
THEOREM Invariance == Spec => []IInv
<1>1. Init => IInv
  BY InitIsFine
<1>2. IInv /\ [Next]_vars => IInv'
  BY StepStays
<1> QED BY <1>1, <1>2, PTL DEF Spec

(* The buffers of a window, its pending paths and its generation are what  *)
(* files.ts takes them for, and no path was changed after the newest       *)
(* generation.                                                             *)
THEOREM TypeCorrectness == Spec => []TypeOK
<1>1. IInv => TypeOK
  <2> SUFFICES ASSUME IInv PROVE TypeOK
    OBVIOUS
  <2>1. clock \in Nat /\ gen \in Nat /\ changed \in [Path -> 0 .. gen]
    BY DEF IInv, Disks
  <2>2. disk \in [Path -> Nat \cup {None}]
    BY <2>1 DEF IInv, Disks
  <2>3. /\ DOMAIN win.files \subseteq Path /\ win.pending \subseteq Path
        /\ win.known \in 0 .. gen
    BY DEF IInv, WinOK
  <2>4. \A p \in DOMAIN win.files : win.files[p].text \in Nat
    <3>1. \A p \in DOMAIN win.files : BufferOK(win.files[p], clock)
      BY DEF IInv, WinOK
    <3>2. \A b : BufferOK(b, clock) => b.text \in Nat
      BY <2>1 DEF BufferOK
    <3> QED BY <3>1, <3>2
  <2>5. /\ task.op \in {"none", "close", "restore", "delete"}
        /\ \A l \in loads : l.path \in Path
    BY DEF IInv, Tasks, Loads, LoadOK
  <2> QED BY <2>1, <2>2, <2>3, <2>4, <2>5 DEF TypeOK
<1> QED BY <1>1, Invariance, PTL

(* A dirty buffer is always in pendingAutosavePaths, or has a write on its *)
(* way whose end will put it back there: no path through saves, conflicts, *)
(* failures, reloads and external changes forgets it.                      *)
THEOREM NobodyForgets == Spec => []DirtyIsPending
<1>1. IInv => DirtyIsPending
  BY DEF IInv, Covered, Waits, DirtyIsPending
<1> QED BY <1>1, Invariance, PTL

(* What the user typed and was never on disk stays in its buffer, dirty,   *)
(* through every step but the closing of the project, the deletion of the  *)
(* file and the return of a read of it; no save marks a buffer clean whose *)
(* own text did not reach the disk.                                        *)
THEOREM EditsAreKept == Spec => EditsSurvive
<1> DEFINE Step ==
      \A p \in Dirty(win) :
        \/ win.files[p].text \in landed
        \/ /\ p \in Dirty(win')
           /\ win'.files[p].text >= win.files[p].text
        \/ CloseEnds \/ DeleteEnds \/ Loading
<1>1. IInv /\ [Next]_vars => [Step]_vars
  <2> SUFFICES ASSUME IInv, Next PROVE Step
    OBVIOUS
  <2>1. Kept
    BY StepGrows DEF Grown
  <2> QED BY <2>1 DEF Kept, Survives
<1>2. Spec => [][Step]_vars
  BY <1>1, Invariance, PTL DEF Spec
<1> QED BY <1>2 DEF EditsSurvive
=============================================================================

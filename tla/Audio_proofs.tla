---------------------------- MODULE Audio_proofs ----------------------------
(***************************************************************************)
(* Proofs about recordings.  In the browser: what is cached is uploaded    *)
(* before it is deleted, and a recording marked as uploading is in the     *)
(* hands of somebody.  On the server: a row of imported audio has its      *)
(* bytes or a file that has them, and a job that has ended stays so.       *)
(***************************************************************************)
EXTENDS AudioImport, AudioOutbox, FiniteSetTheorems, TLAPS

----------------------------------------------------------------------------
(* The cache of the browser *)

RecorderFits(r) ==
    /\ r = [id |-> r.id, next |-> r.next, on |-> r.on]
    /\ r.on \in 0..recorded /\ r.id \in {0, r.on}

EndingFits(e) == e = [id |-> e.id, step |-> e.step, row |-> e.row] /\ e.id \in 1..recorded

\* A chunk is written while its recorder is on, or while its end awaits it.
WriteFits(p, w) ==
    /\ w = [id |-> w.id, index |-> w.index, step |-> w.step, row |-> w.row]
    /\ w.id \in 1..recorded
    /\ rec[p].id = w.id \/ \E e \in ending[p] : e.id = w.id /\ e.step = "settle"

LoopFits(l) ==
    /\ l = [step |-> l.step, todo |-> l.todo, id |-> l.id, row |-> l.row, blob |-> l.blob]
    /\ \A r \in l.todo : r.id \in 1..recorded
    /\ IF l.step \in {"idle", "next"} THEN l.id = 0 ELSE l.id \in 1..recorded

Uploaded(c) == \E u \in uploads : c \in u.chunks

\* Past its load, a recording is finished, and all that was cached of it is in hand.
InHand(l) ==
    l.step \in {"post", "delete", "failed", "markFailed"} /\ l.id \notin taken =>
        /\ ~Unfinished(l.id)
        /\ l.step \in {"post", "delete"} =>
             \A c \in put : c[1] = l.id => Uploaded(c) \/ (l.step = "post" /\ c \in l.blob)

Tasks ==
    /\ recorded \in Nat /\ DOMAIN rows \subseteq 1..recorded
    /\ DOMAIN rec = Panels /\ rec = [p \in Panels |-> rec[p]]
    /\ DOMAIN ending = Panels /\ ending = [p \in Panels |-> ending[p]]
    /\ DOMAIN writes = Panels /\ writes = [p \in Panels |-> writes[p]]
    /\ DOMAIN loop = Panels /\ loop = [p \in Panels |-> loop[p]]
    /\ \A p \in Panels :
          /\ RecorderFits(rec[p]) /\ LoopFits(loop[p])
          /\ \A e \in ending[p] : EndingFits(e)
          /\ \A w \in writes[p] : WriteFits(p, w)

\* A recording that goes on has its row, unless an upload has taken it up.
RowStays == \A id \in 1..recorded : Unfinished(id) /\ id \notin taken => id \in DOMAIN rows

\* Nothing leaves the cache before the server has it.
Cached ==
    \A c \in put : c[1] \notin taken =>
        \/ c \in chunks /\ c[1] \in DOMAIN rows
        \/ \E u \in uploads : c \in u.chunks

OutboxInv ==
    /\ Tasks /\ RowStays /\ Cached
    /\ \A p \in Panels : InHand(loop[p])

LEMMA OutboxInitially == OutboxInit => OutboxInv
<1> SUFFICES ASSUME OutboxInit PROVE OutboxInv
  OBVIOUS
<1>1. DOMAIN rows = {}
  BY DEF OutboxInit
<1>2. recorded = 0 /\ put = {}
  BY DEF OutboxInit
<1>3. ASSUME NEW p \in Panels
      PROVE  RecorderFits(rec[p]) /\ LoopFits(loop[p]) /\ ending[p] = {} /\ writes[p] = {}
  <2>1. /\ rec[p] = [id |-> 0, next |-> 0, on |-> 0]
        /\ loop[p] = [step |-> "idle", todo |-> {}, id |-> 0, row |-> NoRow, blob |-> {}]
        /\ ending[p] = {} /\ writes[p] = {}
    BY DEF OutboxInit, NoRecorder, NoLoop, LoopAt
  <2>2. RecorderFits(rec[p])
    BY <1>2, <2>1 DEF RecorderFits
  <2>3. LoopFits(loop[p])
    BY <2>1 DEF LoopFits
  <2> QED BY <2>1, <2>2, <2>3
<1>4. /\ DOMAIN rec = Panels /\ rec = [p \in Panels |-> rec[p]]
      /\ DOMAIN ending = Panels /\ ending = [p \in Panels |-> ending[p]]
      /\ DOMAIN writes = Panels /\ writes = [p \in Panels |-> writes[p]]
      /\ DOMAIN loop = Panels /\ loop = [p \in Panels |-> loop[p]]
  BY DEF OutboxInit
<1>5. Tasks
  BY <1>1, <1>2, <1>3, <1>4 DEF Tasks
<1>6. \A p \in Panels : loop[p].step = "idle"
  BY DEF OutboxInit, NoLoop, LoopAt
<1>7. RowStays /\ Cached /\ \A p \in Panels : InHand(loop[p])
  BY <1>2, <1>6 DEF RowStays, Cached, InHand
<1> QED BY <1>5, <1>7 DEF OutboxInv

\* A step of the loop of one panel that takes nothing out of the cache.
LEMMA LoopMoves ==
    ASSUME OutboxInv, NEW p \in Panels, NEW l, loop' = [loop EXCEPT ![p] = l],
           UNCHANGED <<chunks, rec, writes, ending, recorded, put>>,
           taken \subseteq taken', uploads \subseteq uploads',
           DOMAIN rows \subseteq DOMAIN rows', DOMAIN rows' \subseteq 1..recorded,
           LoopFits(l), InHand(l)'
    PROVE  OutboxInv'
<1> USE DEF OutboxInv
<1>1. /\ DOMAIN loop' = Panels /\ loop' = [q \in Panels |-> loop'[q]]
      /\ loop'[p] = l /\ \A q \in Panels : q # p => loop'[q] = loop[q]
  BY DEF Tasks
<1>2. Tasks'
  BY <1>1 DEF Tasks, RecorderFits, EndingFits, WriteFits, LoopFits
<1>3. \A id : Unfinished(id)' = Unfinished(id)
  BY DEF Unfinished
<1>4. RowStays'
  BY <1>3 DEF RowStays
<1>5. Cached'
  BY DEF Cached
<1>6. ASSUME NEW q \in Panels, q # p PROVE InHand(loop[q])'
  <2>1. InHand(loop[q])
    OBVIOUS
  <2> QED BY <1>1, <1>3, <1>6, <2>1 DEF InHand, Uploaded
<1>7. \A q \in Panels : InHand(loop[q])'
  BY <1>1, <1>6
<1> QED BY <1>2, <1>4, <1>5, <1>7

\* A call that begins the loop, or finds it under way.
\* A loop that has nothing in hand.
LEMMA RestFits ==
    ASSUME NEW S, \A r \in S : r.id \in 1..recorded
    PROVE  LoopFits(Rest(S)) /\ InHand(Rest(S)) /\ Rest(S).step = "next"
BY DEF LoopFits, InHand, Rest, LoopAt

\* A call that begins the loop, or finds it under way.
LEMMA StartFits ==
    ASSUME OutboxInv, NEW p \in Panels, loop' = [loop EXCEPT ![p] = FlushStarted(p, @)],
           UNCHANGED <<stores, rec, writes, ending, recorded, put, taken>>
    PROVE  OutboxInv'
<1>1. LoopFits(loop[p]) /\ InHand(loop[p])
  BY DEF OutboxInv, Tasks
<1>2. \A r \in Snapshot : r.id \in 1..recorded
  BY DEF Snapshot, OutboxInv, Tasks
<1>3. PICK k : k = FlushStarted(p, loop[p])
  OBVIOUS
<1>4. LoopFits(k) /\ InHand(k) /\ loop' = [loop EXCEPT ![p] = k]
  BY <1>1, <1>2, <1>3, RestFits DEF FlushStarted
<1>5. InHand(k)'
  BY <1>4 DEF InHand, Unfinished, Uploaded, stores
<1> QED BY <1>4, <1>5, LoopMoves DEF OutboxInv, Tasks, stores

LEMMA UploadingFits ==
    ASSUME OutboxInv, NEW p \in Panels, Uploading(p)
    PROVE  OutboxInv'
<1> USE DEF OutboxInv
<1>1. PICK l : l = loop[p]
  OBVIOUS
<1>2. /\ LoopFits(l) /\ InHand(l)
      /\ \A r \in l.todo : r.id \in 1..recorded
  BY <1>1 DEF Tasks, LoopFits
<1>3. DOMAIN rows \subseteq 1..recorded
  BY DEF Tasks
<1>4. ASSUME NEW S \in SUBSET l.todo
      PROVE  LoopFits(Rest(S)) /\ InHand(Rest(S))'
  <2>1. Rest(S).step = "next"
    BY DEF Rest, LoopAt
  <2> QED BY <1>2, <2>1, RestFits DEF InHand
<1>5. CASE TakeUp(p)
  <2>1. UNCHANGED <<stores, rec, writes, ending, recorded, put, taken>>
    BY <1>5 DEF TakeUp, history
  <2>2. \E k : /\ loop' = [loop EXCEPT ![p] = k]
               /\ LoopFits(k) /\ k.step \in {"idle", "next", "mark"}
    <3>1. CASE loop' = [loop EXCEPT ![p] = NoLoop]
      <4>1. LoopFits(NoLoop) /\ NoLoop.step = "idle"
        BY DEF NoLoop, LoopFits, LoopAt
      <4> QED BY <3>1, <4>1
    <3>2. ASSUME NEW r \in l.todo, loop' = [loop EXCEPT ![p] = Rest(l.todo \ {r})]
          PROVE  \E k : /\ loop' = [loop EXCEPT ![p] = k]
                        /\ LoopFits(k) /\ k.step \in {"idle", "next", "mark"}
      <4>1. LoopFits(Rest(l.todo \ {r})) /\ Rest(l.todo \ {r}).step = "next"
        BY <1>2, RestFits
      <4> QED BY <3>2, <4>1
    <3>3. ASSUME NEW r \in l.todo,
                 loop' = [loop EXCEPT ![p] = LoopAt("mark", l.todo \ {r}, r.id, Row(r.id), {})]
          PROVE  \E k : /\ loop' = [loop EXCEPT ![p] = k]
                        /\ LoopFits(k) /\ k.step \in {"idle", "next", "mark"}
      <4>1. PICK k : k = LoopAt("mark", l.todo \ {r}, r.id, Row(r.id), {})
        OBVIOUS
      <4>2. LoopFits(k) /\ k.step = "mark"
        BY <1>2, <4>1 DEF LoopAt, LoopFits
      <4> QED BY <3>3, <4>1, <4>2
    <3> QED BY <1>1, <1>5, <3>1, <3>2, <3>3 DEF TakeUp
  <2>3. PICK k : /\ loop' = [loop EXCEPT ![p] = k]
                 /\ LoopFits(k) /\ k.step \in {"idle", "next", "mark"}
    BY <2>2
  <2> QED BY <1>3, <2>1, <2>3, LoopMoves DEF stores, InHand
<1>6. CASE Mark(p)
  <2>1. PICK k : k = LoopAt("load", l.todo, l.id, NoRow, {})
    OBVIOUS
  <2>2. /\ l.step = "mark" /\ UNCHANGED <<chunks, uploads, rec, writes, ending, recorded, put, taken>>
        /\ rows' = Saved(l.id, l.row, "uploading")
        /\ loop' = [loop EXCEPT ![p] = k]
    BY <1>1, <1>6, <2>1 DEF Mark, history
  <2>3. LoopFits(k) /\ k.step = "load" /\ l.id \in 1..recorded
    BY <1>2, <2>1, <2>2 DEF LoopFits, LoopAt
  <2>4. DOMAIN rows \subseteq DOMAIN rows' /\ DOMAIN rows' \subseteq 1..recorded
    BY <1>3, <2>2, <2>3 DEF Saved
  <2> QED BY <2>2, <2>3, <2>4, LoopMoves DEF InHand
<1>7. CASE Load(p)
  <2>1. PICK blob : blob = {c \in chunks : c[1] = l.id}
    OBVIOUS
  <2>2. PICK k : k = LoopAt(IF blob = {} THEN "failed" ELSE "post", l.todo, l.id, NoRow, blob)
    OBVIOUS
  <2>3. /\ l.step = "load" /\ UNCHANGED <<stores, rec, writes, ending, recorded, put>>
        /\ loop' = [loop EXCEPT ![p] = k]
        /\ taken' = IF Unfinished(l.id) THEN taken \cup {l.id} ELSE taken
    BY <1>1, <1>7, <2>1, <2>2 DEF Load
  <2>4. /\ LoopFits(k) /\ k.id = l.id /\ k.blob = blob /\ k.step \in {"failed", "post"}
    BY <1>2, <2>2, <2>3 DEF LoopFits, LoopAt
  <2>5. InHand(k)'
    <3>1. SUFFICES ASSUME l.id \notin taken'
                   PROVE  /\ ~Unfinished(k.id)'
                          /\ \A c \in put : c[1] = k.id => Uploaded(c)' \/ c \in k.blob
      BY <2>3, <2>4 DEF InHand, Uploaded
    <3>2. ~Unfinished(l.id) /\ l.id \notin taken
      BY <2>3, <3>1
    <3>3. ~Unfinished(k.id)'
      BY <2>3, <2>4, <3>2 DEF Unfinished
    <3>4. ASSUME NEW c \in put, c[1] = k.id PROVE Uploaded(c)' \/ c \in k.blob
      BY <2>1, <2>3, <2>4, <3>2, <3>4 DEF Uploaded, Cached, stores
    <3> QED BY <3>3, <3>4
  <2> QED BY <1>3, <2>3, <2>4, <2>5, LoopMoves DEF stores
<1>8. CASE Post(p) \/ PostFails(p)
  <2>1. /\ l.step = "post" /\ UNCHANGED <<rows, chunks, rec, writes, ending, recorded, put, taken>>
        /\ uploads \subseteq uploads'
    BY <1>1, <1>8 DEF Post, PostFails, history, stores
  <2>2. \E s \in {"delete", "failed"} :
          /\ loop' = [loop EXCEPT ![p] = Answered(l, s)]
          /\ s = "delete" => uploads' = uploads \cup {[id |-> l.id, chunks |-> l.blob]}
    BY <1>1, <1>8 DEF Post, PostFails
  <2>3. PICK s \in {"delete", "failed"} :
          /\ loop' = [loop EXCEPT ![p] = Answered(l, s)]
          /\ s = "delete" => uploads' = uploads \cup {[id |-> l.id, chunks |-> l.blob]}
    BY <2>2
  <2>4. PICK k : k = Answered(l, s) /\ loop' = [loop EXCEPT ![p] = k]
    BY <2>3
  <2>5. LoopFits(k) /\ k.id = l.id /\ k.step = s
    BY <1>2, <2>1, <2>4 DEF LoopFits, Answered, LoopAt
  <2>6. InHand(k)'
    <3>1. SUFFICES ASSUME l.id \notin taken
                   PROVE  /\ ~Unfinished(k.id)'
                          /\ s = "delete" => \A c \in put : c[1] = k.id => Uploaded(c)'
      BY <2>1, <2>5 DEF InHand, Uploaded
    <3>2. ~Unfinished(k.id)'
      BY <1>2, <2>1, <2>5, <3>1 DEF InHand, Unfinished
    <3>3. ASSUME s = "delete", NEW c \in put, c[1] = k.id PROVE Uploaded(c)'
      <4>1. Uploaded(c) \/ c \in l.blob
        BY <1>2, <2>1, <2>5, <3>1, <3>3 DEF InHand
      <4>2. uploads' = uploads \cup {[id |-> l.id, chunks |-> l.blob]}
        BY <2>3, <3>3
      <4>3. CASE Uploaded(c)
        BY <2>1, <4>3 DEF Uploaded
      <4>4. CASE c \in l.blob
        <5>1. PICK u : u = [id |-> l.id, chunks |-> l.blob]
          OBVIOUS
        <5>2. u \in uploads' /\ u.chunks = l.blob
          BY <4>2, <5>1
        <5> QED BY <4>4, <5>2 DEF Uploaded
      <4> QED BY <4>1, <4>3, <4>4
    <3> QED BY <3>2, <3>3
  <2> QED BY <1>3, <2>1, <2>4, <2>5, <2>6, LoopMoves
<1>9. CASE Delete(p)
  <2>1. PICK k : k = Rest(l.todo)
    OBVIOUS
  <2>2. /\ l.step = "delete" /\ UNCHANGED <<uploads, rec, writes, ending, recorded, put, taken>>
        /\ rows' = Removed(l.id) /\ chunks' = {c \in chunks : c[1] # l.id}
        /\ loop' = [loop EXCEPT ![p] = k]
    BY <1>1, <1>9, <2>1 DEF Delete, history
  <2>3. /\ DOMAIN loop' = Panels /\ loop' = [q \in Panels |-> loop'[q]]
        /\ loop'[p] = k /\ \A q \in Panels : q # p => loop'[q] = loop[q]
    BY <2>2 DEF Tasks
  <2>4. LoopFits(k) /\ InHand(k)'
    BY <1>4, <2>1
  <2>5. DOMAIN rows' = DOMAIN rows \ {l.id}
    BY <2>2 DEF Removed
  <2>6. Tasks'
    BY <2>2, <2>3, <2>4, <2>5 DEF Tasks, RecorderFits, EndingFits, WriteFits, LoopFits
  <2>7. \A id : Unfinished(id)' = Unfinished(id)
    BY <2>2 DEF Unfinished
  <2>8. l.id \notin taken => ~Unfinished(l.id) /\ \A c \in put : c[1] = l.id => Uploaded(c)
    BY <1>2, <2>2 DEF InHand
  <2>9. RowStays'
    BY <2>2, <2>5, <2>7, <2>8 DEF RowStays
  <2>10. Cached'
    BY <2>2, <2>5, <2>8 DEF Cached, Uploaded
  <2>11. ASSUME NEW q \in Panels, q # p PROVE InHand(loop[q])'
    <3>1. InHand(loop[q])
      OBVIOUS
    <3> QED BY <2>2, <2>3, <2>7, <2>11, <3>1 DEF InHand, Uploaded
  <2>12. \A q \in Panels : InHand(loop[q])'
    BY <2>3, <2>4, <2>11
  <2> QED BY <2>6, <2>9, <2>10, <2>12
<1>10. CASE Failed(p)
  <2>1. UNCHANGED <<chunks, uploads, rec, writes, ending, recorded, put, taken>>
    BY <1>10 DEF Failed, history
  <2>2. CASE l.step = "failed"
    <3>1. PICK k : k = ToBeMarked(l)
      OBVIOUS
    <3>2. loop' = [loop EXCEPT ![p] = k] /\ UNCHANGED rows
      BY <1>1, <1>10, <2>2, <3>1 DEF Failed
    <3>3. LoopFits(k) /\ k.step = "markFailed" /\ k.id = l.id
      BY <1>2, <2>2, <3>1 DEF LoopFits, ToBeMarked, LoopAt
    <3>4. InHand(k)'
      BY <1>2, <2>1, <2>2, <3>3 DEF InHand, Unfinished
    <3> QED BY <1>3, <2>1, <3>2, <3>3, <3>4, LoopMoves
  <2>3. CASE l.step = "markFailed"
    <3>1. PICK k : k = Rest(l.todo)
      OBVIOUS
    <3>2. loop' = [loop EXCEPT ![p] = k] /\ rows' = Saved(l.id, l.row, "failed")
      BY <1>1, <1>10, <2>3, <3>1 DEF Failed
    <3>3. LoopFits(k) /\ InHand(k)'
      BY <1>4, <3>1
    <3>4. DOMAIN rows \subseteq DOMAIN rows' /\ DOMAIN rows' \subseteq 1..recorded
      BY <1>2, <1>3, <2>3, <3>2 DEF Saved, LoopFits
    <3> QED BY <2>1, <3>2, <3>3, <3>4, LoopMoves
  <2> QED BY <1>1, <1>10, <2>2, <2>3 DEF Failed
<1> QED BY <1>5, <1>6, <1>7, <1>8, <1>9, <1>10 DEF Uploading

\* A step of a recorder or of its end, which may finish a recording and takes nothing
\* out of the cache.
LEMMA RecordersMove ==
    ASSUME OutboxInv, Tasks', UNCHANGED <<chunks, uploads, recorded, put, taken>>,
           DOMAIN rows \subseteq DOMAIN rows',
           \A id \in 1..recorded : Unfinished(id)' => Unfinished(id),
           \A q \in Panels : loop'[q] = loop[q] \/ loop'[q].step \in {"idle", "next"}
    PROVE  OutboxInv'
<1> USE DEF OutboxInv
<1>1. RowStays'
  BY DEF RowStays
<1>2. Cached'
  BY DEF Cached
<1>3. ASSUME NEW q \in Panels PROVE InHand(loop[q])'
  <2>1. CASE loop'[q].step \in {"idle", "next"}
    BY <2>1 DEF InHand
  <2>2. CASE loop'[q] = loop[q]
    <3>1. InHand(loop[q]) /\ LoopFits(loop[q])
      BY DEF Tasks
    <3> QED BY <2>2, <3>1 DEF InHand, Uploaded, LoopFits
  <2> QED BY <2>1, <2>2
<1> QED BY <1>1, <1>2, <1>3

LEMMA CreateFits ==
    ASSUME OutboxInv, NEW p \in Panels, Create(p)
    PROVE  OutboxInv'
<1> USE DEF OutboxInv
<1>1. /\ rec[p] = NoRecorder /\ recorded' = recorded + 1 /\ recorded \in Nat
      /\ DOMAIN rows' = DOMAIN rows \cup {recorded'}
      /\ rec' = [rec EXCEPT ![p].on = recorded']
      /\ UNCHANGED <<chunks, uploads, writes, ending, loop, put, taken>>
  BY DEF Create, history, Tasks
<1>2. /\ DOMAIN rec' = Panels /\ rec' = [q \in Panels |-> rec'[q]]
      /\ \A q \in Panels : q # p => rec'[q] = rec[q]
      /\ rec'[p] = [id |-> 0, next |-> 0, on |-> recorded']
  BY <1>1 DEF Tasks, NoRecorder
<1>3. \A q \in Panels : RecorderFits(rec[q])' /\ rec'[q].id = rec[q].id
  BY <1>1, <1>2 DEF Tasks, RecorderFits, NoRecorder
<1>4. \A q \in Panels : LoopFits(loop[q])' /\ (\A e \in ending[q] : EndingFits(e))'
  BY <1>1 DEF Tasks, LoopFits, EndingFits
<1>5. \A q \in Panels : (\A w \in writes[q] : WriteFits(q, w))'
  BY <1>1, <1>3 DEF Tasks, WriteFits
<1>6. Tasks'
  BY <1>1, <1>2, <1>3, <1>4, <1>5 DEF Tasks
<1>7. \A id \in 1..recorded : Unfinished(id)' => Unfinished(id)
  BY <1>1, <1>2 DEF Unfinished
<1>8. RowStays'
  BY <1>1, <1>7 DEF RowStays
<1>9. Cached'
  BY <1>1 DEF Cached
<1>10. ASSUME NEW q \in Panels PROVE InHand(loop[q])'
  <2>1. InHand(loop[q]) /\ LoopFits(loop[q])
    BY DEF Tasks
  <2> QED BY <1>1, <1>7, <2>1 DEF InHand, Uploaded, LoopFits
<1> QED BY <1>6, <1>8, <1>9, <1>10

LEMMA BeginFits ==
    ASSUME OutboxInv, NEW p \in Panels, Begin(p)
    PROVE  OutboxInv'
<1> USE DEF OutboxInv
<1>1. /\ rec[p].on # 0 /\ rec[p].id = 0
      /\ rec' = [rec EXCEPT ![p] = [id |-> rec[p].on, next |-> 1, on |-> rec[p].on]]
      /\ UNCHANGED <<stores, writes, ending, loop, recorded, put, taken>>
  BY DEF Begin, history
<1>2. /\ DOMAIN rec' = Panels /\ rec' = [q \in Panels |-> rec'[q]]
      /\ \A q \in Panels : rec'[q].on = rec[q].on /\ (q # p => rec'[q] = rec[q])
      /\ rec'[p] = [id |-> rec[p].on, next |-> 1, on |-> rec[p].on]
  BY <1>1 DEF Tasks
<1>3. \A q \in Panels : RecorderFits(rec[q])'
  BY <1>1, <1>2 DEF Tasks, RecorderFits
<1>4. \A q \in Panels : (\A w \in writes[q] : WriteFits(q, w))'
  BY <1>1, <1>2 DEF Tasks, WriteFits
<1>5. Tasks'
  BY <1>1, <1>2, <1>3, <1>4 DEF Tasks, LoopFits, EndingFits, stores
<1>6. \A id : Unfinished(id)' = Unfinished(id)
  BY <1>1, <1>2 DEF Unfinished
<1> QED BY <1>1, <1>5, <1>6, RecordersMove DEF stores

LEMMA RecordFits ==
    ASSUME OutboxInv, NEW p \in Panels, Record(p)
    PROVE  OutboxInv'
<1> USE DEF OutboxInv
<1>1. PICK n : n = rec[p].next + 1
  OBVIOUS
<1>2. /\ rec[p].id # 0 /\ writes' = [writes EXCEPT ![p] = @ \cup {Chunk(p)}]
      /\ rec' = [rec EXCEPT ![p].next = n]
      /\ UNCHANGED <<stores, ending, loop, recorded, put, taken>>
  BY <1>1 DEF Record, history
<1>3. /\ DOMAIN rec' = Panels /\ rec' = [q \in Panels |-> rec'[q]]
      /\ \A q \in Panels : /\ rec'[q].on = rec[q].on /\ rec'[q].id = rec[q].id
                           /\ q # p => rec'[q] = rec[q]
      /\ rec'[p] = [id |-> rec[p].id, next |-> n, on |-> rec[p].on]
  BY <1>2 DEF Tasks, RecorderFits
<1>4. \A q \in Panels : RecorderFits(rec[q])'
  BY <1>2, <1>3 DEF Tasks, RecorderFits
<1>5. WriteFits(p, Chunk(p))
  BY <1>2 DEF WriteFits, Chunk, Tasks, RecorderFits
<1>6. /\ DOMAIN writes' = Panels /\ writes' = [q \in Panels |-> writes'[q]]
      /\ writes'[p] = writes[p] \cup {Chunk(p)}
      /\ \A q \in Panels : q # p => writes'[q] = writes[q]
  BY <1>2 DEF Tasks
<1>7. ASSUME NEW q \in Panels, NEW w \in writes'[q] PROVE WriteFits(q, w)'
  <2>1. WriteFits(q, w)
    BY <1>5, <1>6 DEF Tasks
  <2> QED BY <1>2, <1>3, <2>1 DEF WriteFits
<1>8. Tasks'
  BY <1>2, <1>3, <1>4, <1>6, <1>7 DEF Tasks, LoopFits, EndingFits, stores
<1>9. \A id : Unfinished(id)' = Unfinished(id)
  BY <1>2, <1>3 DEF Unfinished
<1> QED BY <1>2, <1>8, <1>9, RecordersMove DEF stores

\* Every chunk that is being written is of a recording that is not finished.
LEMMA CacheChunkFits ==
    ASSUME OutboxInv, NEW p \in Panels, CacheChunk(p)
    PROVE  OutboxInv'
<1> USE DEF OutboxInv
<1>1. PICK w \in writes[p] :
             \/ /\ w.step = "put"
                /\ chunks' = chunks \cup {<<w.id, w.index>>}
                /\ put' = put \cup {<<w.id, w.index>>}
                /\ writes' = [writes EXCEPT ![p] = (writes[p] \ {w})
                                                     \cup {[w EXCEPT !.step = "read"]}]
                /\ UNCHANGED rows
             \/ /\ w.step = "read"
                /\ writes' = [writes EXCEPT ![p] = (writes[p] \ {w}) \cup
                     {[id |-> w.id, index |-> w.index, step |-> "save", row |-> Row(w.id)]}]
                /\ UNCHANGED <<rows, chunks, put>>
             \/ /\ w.step = "save"
                /\ rows' = Saved(w.id, w.row, w.row)
                /\ writes' = [writes EXCEPT ![p] = writes[p] \ {w}]
                /\ UNCHANGED <<chunks, put>>
  BY DEF CacheChunk
<1>2. UNCHANGED <<uploads, rec, ending, loop, recorded, taken>>
  BY DEF CacheChunk
<1>3. /\ WriteFits(p, w) /\ w.id \in 1..recorded
      /\ w = [id |-> w.id, index |-> w.index, step |-> w.step, row |-> w.row]
  BY DEF Tasks, WriteFits
<1>4. Unfinished(w.id)
  BY <1>3 DEF WriteFits, Unfinished, Tasks, RecorderFits
<1>5. \A id : Unfinished(id)' = Unfinished(id)
  BY <1>2 DEF Unfinished
<1>6. /\ DOMAIN writes' = Panels /\ writes' = [q \in Panels |-> writes'[q]]
      /\ \A q \in Panels : \A v \in writes'[q] : WriteFits(q, v)'
  <2>1. \A q \in Panels : \A v \in writes[q] : WriteFits(q, v)'
    BY <1>2 DEF WriteFits, Tasks
  <2>2. PICK S : /\ writes' = [writes EXCEPT ![p] = S]
                 /\ \A v \in S : v \in writes[p] \/ WriteFits(p, v)'
    <3>1. CASE w.step = "put"
      <4>1. PICK v : v = [w EXCEPT !.step = "read"]
        OBVIOUS
      <4>2. v = [id |-> w.id, index |-> w.index, step |-> "read", row |-> w.row]
        BY <1>3, <4>1
      <4>3. WriteFits(p, v)'
        BY <1>2, <1>3, <4>2 DEF WriteFits
      <4> QED BY <1>1, <3>1, <4>1, <4>3
    <3>2. CASE w.step = "read"
      <4>1. PICK v : v = [id |-> w.id, index |-> w.index, step |-> "save", row |-> Row(w.id)]
        OBVIOUS
      <4>2. WriteFits(p, v)'
        BY <1>2, <1>3, <4>1 DEF WriteFits
      <4> QED BY <1>1, <3>2, <4>1, <4>2
    <3>3. CASE w.step = "save"
      BY <1>1, <3>3
    <3> QED BY <1>1, <3>1, <3>2, <3>3
  <2>3. /\ DOMAIN writes' = Panels /\ writes' = [q \in Panels |-> writes'[q]]
        /\ writes'[p] = S /\ \A q \in Panels : q # p => writes'[q] = writes[q]
    BY <2>2 DEF Tasks
  <2>4. ASSUME NEW q \in Panels, NEW v \in writes'[q] PROVE WriteFits(q, v)'
    <3>1. CASE q = p
      BY <2>1, <2>2, <2>3, <2>4, <3>1
    <3>2. CASE q # p
      BY <2>1, <2>3, <2>4, <3>2
    <3> QED BY <3>1, <3>2
  <2> QED BY <2>3, <2>4
<1>7. DOMAIN rows \subseteq DOMAIN rows' /\ DOMAIN rows' \subseteq 1..recorded
  BY <1>1, <1>3 DEF Saved, Tasks
<1>8. Tasks'
  BY <1>2, <1>6, <1>7 DEF Tasks, LoopFits, EndingFits, RecorderFits
<1>9. \/ UNCHANGED <<chunks, put>>
      \/ \E c : c[1] = w.id /\ put' = put \cup {c} /\ chunks' = chunks \cup {c}
  BY <1>1
<1>10. RowStays'
  BY <1>2, <1>5, <1>7 DEF RowStays
<1>11. Cached'
  <2>1. w.id \notin taken => w.id \in DOMAIN rows'
    BY <1>3, <1>4, <1>7 DEF RowStays
  <2> QED BY <1>2, <1>7, <1>9, <2>1 DEF Cached
<1>12. ASSUME NEW q \in Panels PROVE InHand(loop[q])'
  <2>1. InHand(loop[q])
    OBVIOUS
  <2> QED BY <1>2, <1>4, <1>5, <1>9, <2>1 DEF InHand, Uploaded
<1> QED BY <1>8, <1>10, <1>11, <1>12

\* onstop hands the recording from the recorder to its end.
LEMMA StopFits ==
    ASSUME OutboxInv, NEW p \in Panels, NEW leave, StopRecording(p, leave)
    PROVE  OutboxInv'
<1> USE DEF OutboxInv
<1>1. PICK e : e = [id |-> rec[p].id, step |-> "settle", row |-> NoRow]
  OBVIOUS
<1>2. PICK last \in SUBSET {Chunk(p)} : writes' = [writes EXCEPT ![p] = writes[p] \cup last]
  BY DEF StopRecording
<1>3. /\ rec[p].id # 0 /\ rec' = [rec EXCEPT ![p] = NoRecorder]
      /\ ending' = [ending EXCEPT ![p] = ending[p] \cup {e}]
      /\ UNCHANGED <<stores, loop, recorded, put, taken>>
  BY <1>1 DEF StopRecording, history
<1>4. rec[p].id = rec[p].on /\ rec[p].id \in 1..recorded
  BY <1>3 DEF Tasks, RecorderFits
<1>5. /\ e.id = rec[p].id /\ e.step = "settle" /\ EndingFits(e)
  BY <1>1, <1>4 DEF EndingFits
<1>6. /\ DOMAIN rec' = Panels /\ rec' = [q \in Panels |-> rec'[q]]
      /\ rec'[p] = NoRecorder /\ \A q \in Panels : q # p => rec'[q] = rec[q]
      /\ DOMAIN ending' = Panels /\ ending' = [q \in Panels |-> ending'[q]]
      /\ ending'[p] = ending[p] \cup {e} /\ \A q \in Panels : q # p => ending'[q] = ending[q]
      /\ DOMAIN writes' = Panels /\ writes' = [q \in Panels |-> writes'[q]]
      /\ writes'[p] = writes[p] \cup last
      /\ \A q \in Panels : q # p => writes'[q] = writes[q]
  BY <1>2, <1>3 DEF Tasks
<1>7. \A q \in Panels : RecorderFits(rec[q])'
  BY <1>3, <1>6 DEF Tasks, RecorderFits, NoRecorder
<1>8. \A q \in Panels : \A d \in ending'[q] : EndingFits(d)'
  BY <1>3, <1>5, <1>6 DEF Tasks, EndingFits
<1>9. ASSUME NEW q \in Panels, NEW w \in writes'[q] PROVE WriteFits(q, w)'
  <2>1. w \in writes[q] \/ (q = p /\ w = Chunk(p))
    BY <1>2, <1>6
  <2>2. CASE w \in writes[q]
    <3>1. CASE q = p
      <4>1. WriteFits(p, w)
        BY <2>2, <3>1 DEF Tasks
      <4> QED BY <1>3, <1>5, <1>6, <3>1, <4>1 DEF WriteFits
    <3>2. CASE q # p
      <4>1. WriteFits(q, w)
        BY <2>2 DEF Tasks
      <4> QED BY <1>3, <1>6, <3>2, <4>1 DEF WriteFits
    <3> QED BY <3>1, <3>2
  <2>3. CASE q = p /\ w = Chunk(p)
    BY <1>3, <1>4, <1>5, <1>6, <2>3 DEF WriteFits, Chunk
  <2> QED BY <2>1, <2>2, <2>3
<1>10. Tasks'
  BY <1>3, <1>6, <1>7, <1>8, <1>9 DEF Tasks, LoopFits, stores
<1>11. ASSUME NEW id \in 1..recorded, Unfinished(id)' PROVE Unfinished(id)
  <2>1. PICK q \in Panels : rec'[q].on = id \/ \E d \in ending'[q] : d.id = id
    BY <1>11 DEF Unfinished
  <2>2. CASE q # p
    BY <1>6, <2>1, <2>2 DEF Unfinished
  <2>3. CASE q = p
    BY <1>4, <1>5, <1>6, <2>1, <2>3 DEF Unfinished, NoRecorder
  <2> QED BY <2>2, <2>3
<1> QED BY <1>3, <1>10, <1>11, RecordersMove DEF stores

LEMMA FinishFits ==
    ASSUME OutboxInv, NEW p \in Panels, Finish(p)
    PROVE  OutboxInv'
<1> USE DEF OutboxInv
<1>1. PICK e \in ending[p] :
             \/ /\ e.step = "settle" /\ WritesSettled(p, e.id)
                /\ ending' = [ending EXCEPT ![p] = (ending[p] \ {e}) \cup
                                {[id |-> e.id, step |-> "save", row |-> Row(e.id)]}]
                /\ UNCHANGED <<rows, loop>>
             \/ /\ e.step = "save"
                /\ rows' = Saved(e.id, e.row, "pending")
                /\ ending' = [ending EXCEPT ![p] = (ending[p] \ {e})
                                                     \cup {[e EXCEPT !.step = "flush"]}]
                /\ UNCHANGED loop
             \/ /\ e.step = "flush"
                /\ ending' = [ending EXCEPT ![p] = ending[p] \ {e}]
                /\ loop' = [loop EXCEPT ![p] = FlushStarted(p, loop[p])]
                /\ UNCHANGED rows
  BY DEF Finish
<1>2. UNCHANGED <<chunks, uploads, rec, writes, recorded, put, taken>>
  BY DEF Finish
<1>3. /\ e.id \in 1..recorded /\ e = [id |-> e.id, step |-> e.step, row |-> e.row]
  BY DEF Tasks, EndingFits
<1>4. ending'[p] \subseteq (ending[p] \ {e}) \cup {d \in ending'[p] : d.id = e.id /\ EndingFits(d)}
  <2>1. CASE e.step = "settle"
    <3>1. PICK d : d = [id |-> e.id, step |-> "save", row |-> Row(e.id)]
      OBVIOUS
    <3>2. d.id = e.id /\ EndingFits(d)
      BY <1>3, <3>1 DEF EndingFits
    <3>3. ending'[p] = (ending[p] \ {e}) \cup {d}
      BY <1>1, <2>1, <3>1 DEF Tasks
    <3> QED BY <3>2, <3>3
  <2>2. CASE e.step = "save"
    <3>1. PICK d : d = [e EXCEPT !.step = "flush"]
      OBVIOUS
    <3>2. d = [id |-> e.id, step |-> "flush", row |-> e.row]
      BY <1>3, <3>1
    <3>3. d.id = e.id /\ EndingFits(d)
      BY <1>3, <3>2 DEF EndingFits
    <3>4. ending'[p] = (ending[p] \ {e}) \cup {d}
      BY <1>1, <2>2, <3>1 DEF Tasks
    <3> QED BY <3>3, <3>4
  <2>3. CASE e.step = "flush"
    BY <1>1, <2>3 DEF Tasks
  <2> QED BY <1>1, <2>1, <2>2, <2>3
<1>5. /\ DOMAIN ending' = Panels /\ ending' = [q \in Panels |-> ending'[q]]
      /\ ending[p] \ {e} \subseteq ending'[p]
      /\ \A q \in Panels : q # p => ending'[q] = ending[q]
  BY <1>1 DEF Tasks
<1>6. \A q \in Panels : \A d \in ending'[q] : EndingFits(d)'
  BY <1>2, <1>4, <1>5 DEF Tasks, EndingFits
<1>7. ASSUME NEW q \in Panels, NEW w \in writes[q] PROVE WriteFits(q, w)'
  <2>1. WriteFits(q, w)
    BY DEF Tasks
  <2>2. CASE q # p
    BY <1>2, <1>5, <2>1, <2>2 DEF WriteFits
  <2>3. CASE q = p /\ w.id = e.id /\ e.step = "settle"
    BY <1>1, <1>7, <2>3 DEF WritesSettled
  <2>4. CASE q = p /\ ~(w.id = e.id /\ e.step = "settle")
    BY <1>2, <1>5, <2>1, <2>4 DEF WriteFits
  <2> QED BY <2>2, <2>3, <2>4
<1>8. DOMAIN rows \subseteq DOMAIN rows' /\ DOMAIN rows' \subseteq 1..recorded
  BY <1>1, <1>3 DEF Saved, Tasks
<1>9. \A r \in Snapshot : r.id \in 1..recorded
  BY DEF Snapshot, Tasks
<1>10. /\ DOMAIN loop' = Panels /\ loop' = [q \in Panels |-> loop'[q]]
       /\ \A q \in Panels : \/ loop'[q] = loop[q]
                            \/ LoopFits(loop'[q]) /\ loop'[q].step = "next"
  <2>1. CASE UNCHANGED loop
    BY <2>1 DEF Tasks
  <2>2. CASE loop' = [loop EXCEPT ![p] = FlushStarted(p, loop[p])]
    <3>1. PICK k : k = FlushStarted(p, loop[p])
      OBVIOUS
    <3>2. k = loop[p] \/ (LoopFits(k) /\ k.step = "next")
      BY <1>9, <3>1, RestFits DEF FlushStarted
    <3> QED BY <2>2, <3>1, <3>2 DEF Tasks
  <2> QED BY <1>1, <2>1, <2>2
<1>11. \A q \in Panels : LoopFits(loop[q])' /\ RecorderFits(rec[q])'
  BY <1>2, <1>10 DEF Tasks, LoopFits, RecorderFits
<1>12. Tasks'
  BY <1>2, <1>5, <1>6, <1>7, <1>8, <1>10, <1>11 DEF Tasks
<1>13. \A id : Unfinished(id)' => Unfinished(id)
  BY <1>2, <1>4, <1>5 DEF Unfinished
<1> QED BY <1>2, <1>8, <1>10, <1>12, <1>13, RecordersMove

LEMMA CloseFits ==
    ASSUME OutboxInv, NEW p \in Panels, CloseTab(p)
    PROVE  OutboxInv'
<1> USE DEF OutboxInv
<1>1. /\ rec' = [rec EXCEPT ![p] = NoRecorder]
      /\ writes' = [writes EXCEPT ![p] = {}] /\ ending' = [ending EXCEPT ![p] = {}]
      /\ loop' = [loop EXCEPT ![p] = NoLoop]
      /\ UNCHANGED <<stores, recorded, put, taken>>
  BY DEF CloseTab
<1>2. /\ DOMAIN rec' = Panels /\ rec' = [q \in Panels |-> rec'[q]]
      /\ DOMAIN ending' = Panels /\ ending' = [q \in Panels |-> ending'[q]]
      /\ DOMAIN writes' = Panels /\ writes' = [q \in Panels |-> writes'[q]]
      /\ DOMAIN loop' = Panels /\ loop' = [q \in Panels |-> loop'[q]]
      /\ rec'[p] = NoRecorder /\ ending'[p] = {} /\ writes'[p] = {} /\ loop'[p] = NoLoop
  BY <1>1 DEF Tasks
<1>3. \A q \in Panels : q # p => /\ rec'[q] = rec[q] /\ ending'[q] = ending[q]
                                 /\ writes'[q] = writes[q] /\ loop'[q] = loop[q]
  BY <1>1 DEF Tasks
<1>4. LoopFits(NoLoop)' /\ RecorderFits(NoRecorder)' /\ NoLoop.step = "idle"
  <2>1. LoopFits(NoLoop) /\ NoLoop.step = "idle"
    BY DEF NoLoop, LoopAt, LoopFits
  <2>2. NoRecorder = [id |-> 0, next |-> 0, on |-> 0] /\ recorded' \in Nat
    BY <1>1 DEF NoRecorder, Tasks
  <2>3. RecorderFits(NoRecorder)'
    BY <2>2 DEF RecorderFits
  <2>4. LoopFits(NoLoop)'
    BY DEF NoLoop, LoopAt, LoopFits
  <2> QED BY <2>1, <2>3, <2>4
<1>5. ASSUME NEW q \in Panels
      PROVE  /\ RecorderFits(rec[q])' /\ LoopFits(loop[q])'
             /\ (\A e \in ending[q] : EndingFits(e))' /\ (\A w \in writes[q] : WriteFits(q, w))'
  <2>1. CASE q = p
    BY <1>2, <1>4, <2>1
  <2>2. CASE q # p
    <3>1. /\ RecorderFits(rec[q])' /\ LoopFits(loop[q])'
      BY <1>1, <1>3, <2>2 DEF Tasks, RecorderFits, LoopFits
    <3>2. \A e \in ending'[q] : EndingFits(e)'
      BY <1>1, <1>3, <2>2 DEF Tasks, EndingFits
    <3>3. ASSUME NEW w \in writes'[q] PROVE WriteFits(q, w)'
      <4>1. WriteFits(q, w)
        BY <1>3, <2>2 DEF Tasks
      <4> QED BY <1>1, <1>3, <2>2, <4>1 DEF WriteFits
    <3> QED BY <3>1, <3>2, <3>3 DEF WriteFits
  <2> QED BY <2>1, <2>2
<1>6. Tasks'
  BY <1>1, <1>2, <1>5 DEF Tasks, stores
<1>7. ASSUME NEW id \in 1..recorded, Unfinished(id)' PROVE Unfinished(id)
  <2>1. PICK q \in Panels : rec'[q].on = id \/ \E d \in ending'[q] : d.id = id
    BY <1>7 DEF Unfinished
  <2>2. q # p
    BY <1>2, <2>1 DEF NoRecorder
  <2> QED BY <1>3, <2>1, <2>2 DEF Unfinished
<1> QED BY <1>1, <1>2, <1>3, <1>4, <1>6, <1>7, RecordersMove DEF stores

LEMMA OutboxKeeps == OutboxInv /\ [OutboxNext]_outboxVars => OutboxInv'
<1> SUFFICES ASSUME OutboxInv, [OutboxNext]_outboxVars PROVE OutboxInv'
  OBVIOUS
<1>1. CASE UNCHANGED outboxVars
  BY <1>1 DEF outboxVars, stores, tasks, history, OutboxInv, Tasks, RowStays, Cached,
              InHand, RecorderFits, EndingFits, WriteFits, LoopFits, Unfinished, Uploaded
<1>2. ASSUME NEW p \in Panels, Mount(p) \/ Click(p) PROVE OutboxInv'
  BY <1>2, StartFits DEF Mount, Click, history, stores
<1>3. ASSUME NEW p \in Panels, Unmount(p) PROVE OutboxInv'
  <2>1. CASE StopRecording(p, TRUE)
    BY <2>1, StopFits
  <2>2. CASE UNCHANGED <<stores, rec, writes, ending, loop, recorded, outboxMishaps, history>>
    BY <2>2 DEF stores, history, OutboxInv, Tasks, RowStays, Cached,
                InHand, RecorderFits, EndingFits, WriteFits, LoopFits, Unfinished, Uploaded
  <2> QED BY <1>3, <2>1, <2>2 DEF Unmount
<1> QED BY <1>1, <1>2, <1>3, CreateFits, BeginFits, RecordFits, CacheChunkFits, StopFits,
           FinishFits, CloseFits, UploadingFits DEF OutboxNext

----------------------------------------------------------------------------
(* Who has a recording that is marked as uploading *)

\* A loop will mark or delete the recording it holds; one that found no row to mark as
\* failed holds nothing any more.
Holds(l, id) ==
    /\ l.id = id
    /\ \/ l.step \in {"load", "post", "delete", "failed"}
       \/ l.step = "markFailed" /\ l.row # NoRow

GivenUp(id) == id \in taken \cup dropped
MarkedUploading(id) == id \in DOMAIN rows /\ rows[id] = "uploading"

\* A chunk's write that has read "uploading" will store it again, if nothing changes it
\* before: only while the loop has still to load the recording.
RereadsLoading(w) ==
    w.row = "uploading" =>
        GivenUp(w.id) \/ \E r \in Panels : loop[r].id = w.id /\ loop[r].step = "load"

HandInv ==
    /\ \A id \in DOMAIN rows : rows[id] = "uploading" =>
          GivenUp(id) \/ \E r \in Panels : Holds(loop[r], id)
    /\ \A p \in Panels : \A w \in writes[p] : RereadsLoading(w)

LEMMA HandInitially == OutboxInit => HandInv
<1> SUFFICES ASSUME OutboxInit PROVE HandInv
  OBVIOUS
<1>1. DOMAIN rows = {} /\ \A p \in Panels : writes[p] = {}
  BY DEF OutboxInit
<1> QED BY <1>1 DEF HandInv

\* What a step has to leave as it is.
LEMMA HandMoves ==
    ASSUME HandInv, taken \subseteq taken', dropped \subseteq dropped',
           \A id \in DOMAIN rows' : rows'[id] = "uploading" =>
              MarkedUploading(id) \/ GivenUp(id)' \/ \E r \in Panels : Holds(loop[r], id)',
           \A q \in Panels : \A w \in writes'[q] : w.row = "uploading" =>
              w \in writes[q] \/ RereadsLoading(w)',
           \A r \in Panels : \A id \in DOMAIN rows' :
              Holds(loop[r], id) /\ rows'[id] = "uploading" => Holds(loop[r], id)' \/ GivenUp(id)',
           \A r \in Panels : \A id : loop[r].step = "load" /\ loop[r].id = id =>
              \/ loop'[r] = loop[r] \/ GivenUp(id)'
              \/ \A q \in Panels : \A w \in writes'[q] : w.id # id
    PROVE  HandInv'
<1>1. ASSUME NEW id \in DOMAIN rows', rows'[id] = "uploading"
      PROVE  GivenUp(id)' \/ \E r \in Panels : Holds(loop[r], id)'
  <2>1. CASE MarkedUploading(id)
    BY <1>1, <2>1 DEF HandInv, MarkedUploading, GivenUp
  <2> QED BY <1>1, <2>1
<1>2. ASSUME NEW q \in Panels, NEW w \in writes'[q], w.row = "uploading"
      PROVE  RereadsLoading(w)'
  <2>1. CASE w \in writes[q]
    <3>1. GivenUp(w.id) \/ \E r \in Panels : loop[r].id = w.id /\ loop[r].step = "load"
      BY <1>2, <2>1 DEF HandInv, RereadsLoading
    <3>2. CASE GivenUp(w.id)
      BY <3>2 DEF RereadsLoading, GivenUp
    <3>3. ASSUME NEW r \in Panels, loop[r].id = w.id, loop[r].step = "load"
          PROVE  RereadsLoading(w)'
      <4>1. loop'[r] = loop[r] \/ GivenUp(w.id)'
        BY <1>2, <3>3
      <4> QED BY <3>3, <4>1 DEF RereadsLoading, GivenUp
    <3> QED BY <3>1, <3>2, <3>3
  <2> QED BY <1>2, <2>1
<1> QED BY <1>1, <1>2 DEF HandInv, RereadsLoading

\* A loop that begins holds nothing, before and after.
LEMMA StartHolds ==
    ASSUME HandInv, OutboxInv, NEW p \in Panels, loop' = [loop EXCEPT ![p] = FlushStarted(p, @)],
           UNCHANGED <<writes, taken, dropped>>,
           \A id \in DOMAIN rows' : rows'[id] = "uploading" => MarkedUploading(id)
    PROVE  HandInv'
<1>1. \A r \in Panels : loop'[r] = loop[r] \/ loop[r].step = "idle"
  BY DEF FlushStarted, OutboxInv, Tasks
<1> QED BY <1>1, HandMoves DEF Holds, GivenUp

LEMMA LoopHolds ==
    ASSUME HandInv, OutboxInv, NEW p \in Panels, Uploading(p)
    PROVE  HandInv'
<1>1. PICK l : l = loop[p]
  OBVIOUS
<1>2. LoopFits(l) /\ InHand(l)
  BY <1>1 DEF OutboxInv, Tasks
<1>3. \A k : loop' = [loop EXCEPT ![p] = k] =>
        loop'[p] = k /\ \A r \in Panels : r # p => loop'[r] = loop[r]
  BY DEF OutboxInv, Tasks
<1>4. UNCHANGED <<writes, dropped>> /\ taken \subseteq taken'
  BY DEF Uploading, TakeUp, Mark, Load, Post, PostFails, Delete, Failed, history
<1>5. CASE TakeUp(p)
  <2>1. l.step = "next" /\ UNCHANGED rows /\ \E k : loop' = [loop EXCEPT ![p] = k]
    BY <1>1, <1>5 DEF TakeUp, stores
  <2>2. \A r \in Panels : loop'[r] = loop[r] \/ loop[r].step = "next"
    BY <1>1, <1>3, <2>1
  <2> QED BY <1>4, <2>1, <2>2, HandMoves DEF Holds, GivenUp, MarkedUploading
<1>6. CASE Mark(p)
  <2>1. PICK k : k = LoopAt("load", l.todo, l.id, NoRow, {})
    OBVIOUS
  <2>2. l.step = "mark" /\ loop' = [loop EXCEPT ![p] = k] /\ rows' = Saved(l.id, l.row, "uploading")
    BY <1>1, <1>6, <2>1 DEF Mark
  <2>3. k.id = l.id /\ k.step = "load"
    BY <2>1 DEF LoopAt
  <2>4. Holds(loop[p], l.id)'
    BY <1>3, <2>2, <2>3 DEF Holds
  <2>5. \A id \in DOMAIN rows' : rows'[id] = "uploading" => MarkedUploading(id) \/ id = l.id
    BY <2>2 DEF Saved, MarkedUploading
  <2>6. \A r \in Panels : loop'[r] = loop[r] \/ loop[r].step = "mark"
    BY <1>1, <1>3, <2>2
  <2> QED BY <1>4, <2>4, <2>5, <2>6, HandMoves DEF Holds, GivenUp
<1>7. CASE Load(p)
  <2>1. PICK k : k = LoopAt(IF {c \in chunks : c[1] = l.id} = {} THEN "failed" ELSE "post",
                            l.todo, l.id, NoRow, {c \in chunks : c[1] = l.id})
    OBVIOUS
  <2>2. /\ l.step = "load" /\ loop' = [loop EXCEPT ![p] = k] /\ UNCHANGED rows
        /\ taken' = IF Unfinished(l.id) THEN taken \cup {l.id} ELSE taken
    BY <1>1, <1>7, <2>1 DEF Load, stores
  <2>3. k.id = l.id /\ k.step \in {"failed", "post"}
    BY <2>1 DEF LoopAt
  <2>4. \A r \in Panels : \A id : Holds(loop[r], id) => Holds(loop[r], id)'
    BY <1>1, <1>3, <2>2, <2>3 DEF Holds
  <2>5. GivenUp(l.id)' \/ \A q \in Panels : \A w \in writes'[q] : w.id # l.id
    BY <1>4, <2>2 DEF GivenUp, Unfinished, OutboxInv, Tasks, WriteFits, RecorderFits
  <2>6. \A r \in Panels : loop'[r] = loop[r] \/ loop[r].id = l.id
    BY <1>1, <1>3, <2>2
  <2>7. \A r \in Panels : \A id : loop[r].step = "load" /\ loop[r].id = id =>
           \/ loop'[r] = loop[r] \/ GivenUp(id)'
           \/ \A q \in Panels : \A w \in writes'[q] : w.id # id
    BY <2>5, <2>6 DEF GivenUp
  <2>8. \A r \in Panels : \A id \in DOMAIN rows' :
           Holds(loop[r], id) /\ rows'[id] = "uploading" => Holds(loop[r], id)' \/ GivenUp(id)'
    BY <2>4
  <2>9. \A id \in DOMAIN rows' : rows'[id] = "uploading" => MarkedUploading(id)
    BY <2>2 DEF MarkedUploading
  <2> QED BY <1>4, <2>7, <2>8, <2>9, HandMoves
<1>8. CASE Post(p) \/ PostFails(p)
  <2>1. PICK s \in {"delete", "failed"} :
          l.step = "post" /\ loop' = [loop EXCEPT ![p] = Answered(l, s)] /\ UNCHANGED rows
    BY <1>1, <1>8 DEF Post, PostFails, stores
  <2>2. PICK k : k = Answered(l, s)
    OBVIOUS
  <2>3. k.id = l.id /\ k.step = s
    BY <2>2 DEF Answered, LoopAt
  <2>4. \A r \in Panels : \A id : Holds(loop[r], id) => Holds(loop[r], id)'
    BY <1>1, <1>3, <2>1, <2>2, <2>3 DEF Holds
  <2>5. \A r \in Panels : loop'[r] = loop[r] \/ loop[r].step = "post"
    BY <1>1, <1>3, <2>1
  <2> QED BY <1>4, <2>1, <2>4, <2>5, HandMoves DEF MarkedUploading
<1>9. CASE Delete(p)
  <2>1. /\ l.step = "delete" /\ rows' = Removed(l.id)
        /\ \E k : loop' = [loop EXCEPT ![p] = k]
    BY <1>1, <1>9 DEF Delete
  <2>2. \A id \in DOMAIN rows' : id # l.id /\ id \in DOMAIN rows /\ rows'[id] = rows[id]
    BY <2>1 DEF Removed
  <2>3. \A r \in Panels : loop'[r] = loop[r] \/ (loop[r].step = "delete" /\ loop[r].id = l.id)
    BY <1>1, <1>3, <2>1
  <2> QED BY <1>4, <2>2, <2>3, HandMoves DEF Holds, GivenUp, MarkedUploading
<1>10. CASE Failed(p) /\ l.step = "failed"
  <2>1. PICK k : k = ToBeMarked(l)
    OBVIOUS
  <2>2. loop' = [loop EXCEPT ![p] = k] /\ UNCHANGED rows
    BY <1>1, <1>10, <2>1 DEF Failed
  <2>3. k.id = l.id /\ k.step = "markFailed" /\ k.row = Row(l.id)
    BY <2>1 DEF ToBeMarked, LoopAt
  <2>4. \A id \in DOMAIN rows : rows[id] = "uploading" /\ Holds(loop[p], id) => Holds(loop[p], id)'
    BY <1>1, <1>3, <2>2, <2>3 DEF Holds, Row, NoRow
  <2>5. \A r \in Panels : loop'[r] = loop[r] \/ (r = p /\ loop[r].step = "failed")
    BY <1>1, <1>3, <1>10, <2>2
  <2> QED BY <1>4, <2>2, <2>4, <2>5, HandMoves DEF Holds, GivenUp, MarkedUploading
<1>11. CASE Failed(p) /\ l.step = "markFailed"
  <2>1. /\ rows' = Saved(l.id, l.row, "failed") /\ \E k : loop' = [loop EXCEPT ![p] = k]
    BY <1>1, <1>11 DEF Failed
  <2>2. \A id \in DOMAIN rows' : rows'[id] = "uploading" =>
           MarkedUploading(id) /\ (id = l.id => l.row = NoRow)
    BY <2>1 DEF Saved, MarkedUploading
  <2>3. \A r \in Panels : loop'[r] = loop[r] \/ loop[r] = l
    BY <1>1, <1>3, <2>1
  <2> QED BY <1>4, <1>11, <2>2, <2>3, HandMoves DEF Holds, GivenUp
<1>12. CASE Failed(p)
  BY <1>1, <1>10, <1>11, <1>12 DEF Failed
<1> QED BY <1>5, <1>6, <1>7, <1>8, <1>9, <1>12 DEF Uploading

LEMMA CacheChunkHolds ==
    ASSUME HandInv, OutboxInv, NEW p \in Panels, CacheChunk(p)
    PROVE  HandInv'
<1>1. UNCHANGED <<loop, taken, dropped>>
  BY DEF CacheChunk
<1>2. PICK w \in writes[p] :
             \/ /\ w.step = "put" /\ UNCHANGED rows
                /\ writes' = [writes EXCEPT ![p] = (writes[p] \ {w})
                                                     \cup {[w EXCEPT !.step = "read"]}]
             \/ /\ w.step = "read" /\ UNCHANGED rows
                /\ writes' = [writes EXCEPT ![p] = (writes[p] \ {w}) \cup
                     {[id |-> w.id, index |-> w.index, step |-> "save", row |-> Row(w.id)]}]
             \/ /\ w.step = "save" /\ rows' = Saved(w.id, w.row, w.row)
                /\ writes' = [writes EXCEPT ![p] = writes[p] \ {w}]
  BY DEF CacheChunk
<1>3. /\ WriteFits(p, w) /\ RereadsLoading(w) /\ Unfinished(w.id)
      /\ w = [id |-> w.id, index |-> w.index, step |-> w.step, row |-> w.row]
  BY DEF OutboxInv, Tasks, HandInv, WriteFits, Unfinished, RecorderFits
<1>4. \A q \in Panels : q # p => writes'[q] = writes[q]
  BY <1>2 DEF OutboxInv, Tasks
<1>5. \A id \in DOMAIN rows' : rows'[id] = "uploading" =>
        MarkedUploading(id) \/ GivenUp(id)' \/ \E r \in Panels : Holds(loop[r], id)'
  <2>1. CASE UNCHANGED rows
    BY <2>1 DEF MarkedUploading
  <2>2. CASE rows' = Saved(w.id, w.row, w.row)
    <3>1. ASSUME NEW id \in DOMAIN rows', rows'[id] = "uploading", ~MarkedUploading(id)
          PROVE  id = w.id /\ w.row = "uploading"
      BY <2>2, <3>1 DEF Saved, MarkedUploading
    <3>2. w.row = "uploading" => GivenUp(w.id)' \/ \E r \in Panels : Holds(loop[r], w.id)'
      BY <1>1, <1>3 DEF RereadsLoading, GivenUp, Holds
    <3> QED BY <3>1, <3>2
  <2> QED BY <1>2, <2>1, <2>2
<1>6. \A v \in writes'[p] : v.row = "uploading" => v \in writes[p] \/ RereadsLoading(v)'
  <2>1. CASE w.step = "put"
    <3>1. PICK v : v = [w EXCEPT !.step = "read"]
      OBVIOUS
    <3>2. v = [id |-> w.id, index |-> w.index, step |-> "read", row |-> w.row]
      BY <1>3, <3>1
    <3>3. RereadsLoading(v)'
      BY <1>1, <1>3, <3>2 DEF RereadsLoading, GivenUp
    <3>4. writes'[p] = (writes[p] \ {w}) \cup {v}
      BY <1>2, <2>1, <3>1 DEF OutboxInv, Tasks
    <3> QED BY <3>3, <3>4
  <2>2. CASE w.step = "read"
    <3>1. PICK v : v = [id |-> w.id, index |-> w.index, step |-> "save", row |-> Row(w.id)]
      OBVIOUS
    <3>2. writes'[p] = (writes[p] \ {w}) \cup {v}
      BY <1>2, <2>2, <3>1 DEF OutboxInv, Tasks
    <3>3. ASSUME v.row = "uploading" PROVE RereadsLoading(v)'
      <4>1. GivenUp(w.id) \/ \E r \in Panels : Holds(loop[r], w.id)
        BY <3>1, <3>3 DEF HandInv, Row, NoRow
      <4>2. ASSUME NEW r \in Panels, Holds(loop[r], w.id), w.id \notin taken
            PROVE  loop[r].step = "load"
        <5>1. InHand(loop[r])
          BY DEF OutboxInv
        <5> QED BY <1>3, <4>2, <5>1 DEF InHand, Holds
      <4>3. GivenUp(w.id) \/ \E r \in Panels : loop[r].id = w.id /\ loop[r].step = "load"
        BY <4>1, <4>2 DEF Holds, GivenUp
      <4> QED BY <1>1, <3>1, <4>3 DEF RereadsLoading, GivenUp
    <3> QED BY <3>2, <3>3
  <2>3. CASE w.step = "save"
    BY <1>2, <2>3 DEF OutboxInv, Tasks
  <2> QED BY <1>2, <2>1, <2>2, <2>3
<1>7. \A q \in Panels : \A v \in writes'[q] : v.row = "uploading" =>
         v \in writes[q] \/ RereadsLoading(v)'
  BY <1>4, <1>6
<1> QED BY <1>1, <1>5, <1>7, HandMoves DEF Holds, GivenUp

\* A step of a recorder: the chunk it begins to write has read no row.
LEMMA RecorderHolds ==
    ASSUME HandInv, OutboxInv, UNCHANGED <<loop, taken, dropped>>,
           \A id \in DOMAIN rows' : rows'[id] = "uploading" => MarkedUploading(id),
           \A q \in Panels : \A w \in writes'[q] : w \in writes[q] \/ w.row = NoRow
    PROVE  HandInv'
BY HandMoves DEF Holds, GivenUp, NoRow

LEMMA HandKeeps == HandInv /\ OutboxInv /\ [OutboxNext]_outboxVars => HandInv'
<1> SUFFICES ASSUME HandInv, OutboxInv, [OutboxNext]_outboxVars PROVE HandInv'
  OBVIOUS
<1>1. CASE UNCHANGED outboxVars
  BY <1>1, RecorderHolds DEF outboxVars, stores, tasks, history, MarkedUploading
<1>2. ASSUME NEW p \in Panels, Mount(p) \/ Click(p) PROVE HandInv'
  BY <1>2, StartHolds DEF Mount, Click, history, stores, MarkedUploading
<1>3. ASSUME NEW p \in Panels, Create(p) \/ Begin(p) PROVE HandInv'
  <2>1. UNCHANGED <<loop, taken, dropped, writes>>
    BY <1>3 DEF Create, Begin, history
  <2>2. \A id \in DOMAIN rows' : rows'[id] = "uploading" => MarkedUploading(id)
    BY <1>3 DEF Create, Begin, stores, MarkedUploading
  <2> QED BY <2>1, <2>2, RecorderHolds
<1>4. ASSUME NEW p \in Panels, NEW leave, Record(p) \/ StopRecording(p, leave) PROVE HandInv'
  <2>1. UNCHANGED <<loop, taken, dropped, rows>>
    BY <1>4 DEF Record, StopRecording, history, stores
  <2>2. PICK S \in SUBSET {Chunk(p)} : writes' = [writes EXCEPT ![p] = writes[p] \cup S]
    BY <1>4 DEF Record, StopRecording
  <2>3. \A q \in Panels : \A w \in writes'[q] : w \in writes[q] \/ w.row = NoRow
    BY <2>2 DEF OutboxInv, Tasks, Chunk
  <2> QED BY <2>1, <2>3, RecorderHolds DEF MarkedUploading
<1>5. ASSUME NEW p \in Panels, Unmount(p) PROVE HandInv'
  <2>1. CASE StopRecording(p, TRUE)
    BY <1>4, <2>1
  <2>2. CASE UNCHANGED <<stores, rec, writes, ending, loop, recorded, outboxMishaps, history>>
    BY <2>2, RecorderHolds DEF stores, history, MarkedUploading
  <2> QED BY <1>5, <2>1, <2>2 DEF Unmount
<1>6. ASSUME NEW p \in Panels, Finish(p) PROVE HandInv'
  <2>1. UNCHANGED <<writes, taken, dropped>>
    BY <1>6 DEF Finish
  <2>2. \/ UNCHANGED <<rows, loop>>
        \/ UNCHANGED loop /\ \E e : rows' = Saved(e.id, e.row, "pending")
        \/ UNCHANGED rows /\ loop' = [loop EXCEPT ![p] = FlushStarted(p, @)]
    BY <1>6 DEF Finish
  <2>3. \A id \in DOMAIN rows' : rows'[id] = "uploading" => MarkedUploading(id)
    BY <2>2 DEF Saved, MarkedUploading
  <2> QED BY <2>1, <2>2, <2>3, RecorderHolds, StartHolds
<1>7. ASSUME NEW p \in Panels, CloseTab(p) PROVE HandInv'
  <2>1. /\ UNCHANGED <<rows, taken>> /\ dropped' = dropped \cup {loop[p].id}
        /\ \A q \in Panels : q # p => writes'[q] = writes[q] /\ loop'[q] = loop[q]
        /\ writes'[p] = {}
    BY <1>7 DEF CloseTab, stores, OutboxInv, Tasks
  <2>2. \A r \in Panels : \A id : loop[r].id = id => loop'[r] = loop[r] \/ GivenUp(id)'
    BY <2>1 DEF GivenUp
  <2>3. \A r \in Panels : \A id \in DOMAIN rows' :
           Holds(loop[r], id) => Holds(loop[r], id)' \/ GivenUp(id)'
    BY <2>2 DEF Holds, GivenUp
  <2>4. \A q \in Panels : \A w \in writes'[q] : w \in writes[q]
    BY <2>1
  <2>5. \A id \in DOMAIN rows' : rows'[id] = "uploading" => MarkedUploading(id)
    BY <2>1 DEF MarkedUploading
  <2> QED BY <2>1, <2>2, <2>3, <2>4, <2>5, HandMoves
<1> QED BY <1>1, <1>2, <1>3, <1>4, <1>5, <1>6, <1>7, LoopHolds, CacheChunkHolds DEF OutboxNext

\* A recording marked as uploading is in the hands of a loop, unless it was taken up
\* before its end or its tab was closed: no loop, and no write of a chunk, leaves the
\* mark behind, which every other upload would pass over.
THEOREM MarkedIsInHand == OutboxSpec => []UploadingIsInHand
<1>1. HandInv => UploadingIsInHand
  BY DEF HandInv, UploadingIsInHand, GivenUp, Holds, InHands
<1> QED BY <1>1, OutboxInitially, OutboxKeeps, HandInitially, HandKeeps, PTL DEF OutboxSpec

\* A chunk that was cached is in an accepted upload, or still cached under a row that an
\* upload has in hand or a later panel takes up, for every number of panels, recordings and
\* chunks: a loop deletes only what it has loaded after the recording was finished, and had
\* accepted, and leaves no mark behind but that of a closed tab.
THEOREM CachedIsUploaded == OutboxSpec => []NothingLost
<1>1. OutboxInv /\ HandInv => NothingLost
  BY DEF OutboxInv, Cached, HandInv, NothingLost, GivenUp, Holds, InHands
<1> QED BY <1>1, OutboxInitially, OutboxKeeps, HandInitially, HandKeeps, PTL DEF OutboxSpec

----------------------------------------------------------------------------
(* The import: the bytes of a row *)

ImportedFits ==
    /\ imported = [uploads |-> imported.uploads, media |-> imported.media,
                   jobs |-> imported.jobs]
    /\ imported.uploads \in Nat /\ imported.media \in Nat /\ imported.jobs \in Nat

MediaFits ==
    /\ \A m \in media :
          /\ m.id \in 1..imported.media /\ m.bytes \in BOOLEAN
          /\ m.key \in {None, UploadKey(m.content), FillKey(m.content)}
    /\ \A m, n \in media : m.id = n.id \/ m.content = n.content => m = n

\* A file that is there, and that nobody is about to delete.
Safe(k) == k \in files /\ k \notin unlinks

\* Only the file of an upload may be crossed by its deletion: the file of the backfill is
\* written when no deletion of it can be under way.
KeysHold ==
    \A m \in media :
        /\ m.key = None => m.bytes /\ FillKey(m.content) \notin unlinks
        /\ m.key = FillKey(m.content) => Safe(m.key)
        /\ m.key = UploadKey(m.content) => Safe(m.key) \/ m.bytes \/ m.content \in crossed

\* Without a DATA_DIR there are no keys, and no files to delete.
NoKeys == ~dataDir => unlinks = {} /\ \A m \in media : m.key = None

\* The row that is inserted next finds its file.
InsertsHold ==
    \A u \in DOMAIN requests : requests[u].step = "insert" /\ dataDir =>
        \E c : c = Part(u) /\ (Safe(UploadKey(c)) \/ c \in crossed)

FillFits ==
    /\ fill.rows # {} => dataDir
    /\ \A r \in fill.rows :
          /\ r.id \in 1..imported.media
          /\ \A m \in media : m.id = r.id => m.content = r.content
          /\ \A s \in fill.rows : r.id = s.id => r = s
    /\ fill.step = "update" => \A r \in fill.rows : FillsNext(r) =>
          \A m \in media : m.id = r.id /\ m.key = None => FillKey(r.content) \in files

ImportInv ==
    /\ dataDir \in BOOLEAN /\ ImportedFits /\ MediaFits /\ KeysHold /\ NoKeys
    /\ InsertsHold /\ FillFits

LEMMA Keys ==
    \A c, d : /\ UploadKey(c) # None /\ FillKey(c) # None /\ UploadKey(c) # FillKey(d)
              /\ UploadKey(c) = UploadKey(d) => c = d
              /\ FillKey(c) = FillKey(d) => c = d
BY DEF UploadKey, FillKey, None

LEMMA ImportInitially == ImportInit => ImportInv
<1> SUFFICES ASSUME ImportInit PROVE ImportInv
  OBVIOUS
<1>1. imported = [uploads |-> 0, media |-> 0, jobs |-> 0] /\ media = {}
  BY DEF ImportInit
<1>2. fill.rows = {} /\ fill.step = "select"
  BY DEF ImportInit, FillAt
<1>3. dataDir \in BOOLEAN /\ unlinks = {} /\ DOMAIN requests = {}
  BY DEF ImportInit
<1>4. ImportedFits
  BY <1>1 DEF ImportedFits
<1>5. MediaFits /\ KeysHold /\ NoKeys /\ InsertsHold /\ FillFits
  BY <1>1, <1>2, <1>3 DEF MediaFits, KeysHold, NoKeys, InsertsHold, FillFits
<1> QED BY <1>3, <1>4, <1>5 DEF ImportInv

\* A step of a request, a job or the resumption that leaves the blobs alone.
LEMMA BlobsStay ==
    ASSUME ImportInv, UNCHANGED <<media, files, dataDir, unlinks, fill, crossed>>,
           ImportedFits', imported'.media = imported.media,
           \A u \in DOMAIN requests' : requests'[u].step = "insert" =>
              u \in DOMAIN requests /\ requests'[u] = requests[u]
    PROVE  ImportInv'
<1>1. MediaFits' /\ KeysHold' /\ NoKeys'
  BY DEF ImportInv, MediaFits, KeysHold, NoKeys, Safe, UploadKey, FillKey, None
<1>2. InsertsHold'
  BY DEF ImportInv, InsertsHold, Safe, Part
<1>3. FillFits'
  BY DEF ImportInv, FillFits, FillsNext
<1> QED BY <1>1, <1>2, <1>3 DEF ImportInv

LEMMA UploadHolds ==
    ASSUME ImportInv, NEW parts, Upload(parts)
    PROVE  ImportInv'
<1>1. ImportedFits' /\ imported'.media = imported.media
  BY DEF Upload, ImportInv, ImportedFits
<1>2. \A u \in DOMAIN requests' : requests'[u].step = "insert" =>
        u \in DOMAIN requests /\ requests'[u] = requests[u]
  BY DEF Upload, RequestAt
<1> QED BY <1>1, <1>2, BlobsStay DEF Upload

LEMMA NextPartRests ==
    ASSUME NEW u \in DOMAIN requests, NextPart(u)
    PROVE  \A v \in DOMAIN requests' : requests'[v].step = "insert" =>
              v \in DOMAIN requests /\ requests'[v] = requests[v]
BY DEF NextPart, Finished, RequestAt

LEMMA StoreHolds ==
    ASSUME ImportInv, NEW u \in DOMAIN requests, Store(u)
    PROVE  ImportInv'
<1> USE DEF ImportInv
<1>1. PICK c : c = Part(u)
  OBVIOUS
<1>2. UNCHANGED <<media, dataDir, unlinks, fill, imported>> /\ requests[u].step = "store"
  BY DEF Store, Enter
<1>3. CASE c \notin Audio
  <2>1. UNCHANGED <<files, crossed>> /\ NextPart(u)
    BY <1>1, <1>3 DEF Store
  <2> QED BY <1>2, <2>1, NextPartRests, BlobsStay DEF ImportedFits
<1>4. CASE c \in Audio
  <2>1. /\ requests' = [requests EXCEPT ![u] = RequestAt(@.left, "insert", @.media)]
        /\ files' = IF dataDir THEN files \cup {UploadKey(c)} ELSE files
        /\ crossed' = IF ~dataDir THEN crossed
                      ELSE IF UploadKey(c) \in unlinks THEN crossed \cup {c} ELSE crossed \ {c}
    BY <1>1, <1>4 DEF Store, Goto
  <2>2. files \subseteq files'
    BY <2>1
  <2>3. \A d : d \in crossed => d \in crossed' \/ Safe(UploadKey(d))'
    BY <1>2, <2>1 DEF Safe
  <2>4. \A k : Safe(k) => Safe(k)'
    BY <1>2, <2>2 DEF Safe
  <2>5. MediaFits' /\ NoKeys' /\ ImportedFits'
    BY <1>2 DEF MediaFits, NoKeys, ImportedFits, UploadKey, FillKey, None
  <2>6. KeysHold'
    <3>1. SUFFICES ASSUME NEW m \in media
                   PROVE  /\ m.key = None => m.bytes /\ FillKey(m.content) \notin unlinks
                          /\ m.key = FillKey(m.content) => Safe(m.key)'
                          /\ m.key = UploadKey(m.content) =>
                                Safe(m.key)' \/ m.bytes \/ m.content \in crossed'
      BY <1>2 DEF KeysHold, UploadKey, FillKey, None
    <3> QED BY <2>3, <2>4 DEF KeysHold
  <2>7. InsertsHold'
    <3>1. SUFFICES ASSUME NEW v \in DOMAIN requests', requests'[v].step = "insert", dataDir
                   PROVE  \E d : d = Part(v)' /\ (Safe(UploadKey(d))' \/ d \in crossed')
      BY <1>2 DEF InsertsHold, UploadKey
    <3>2. CASE v = u
      <4>1. Part(u)' = c
        BY <1>1, <2>1 DEF Part, RequestAt
      <4>2. Safe(UploadKey(c))' \/ c \in crossed'
        BY <1>2, <2>1, <3>1 DEF Safe
      <4> QED BY <3>2, <4>1, <4>2
    <3>3. CASE v # u
      <4>1. requests'[v] = requests[v] /\ v \in DOMAIN requests
        BY <2>1, <3>1, <3>3
      <4>2. PICK d : d = Part(v) /\ (Safe(UploadKey(d)) \/ d \in crossed)
        BY <3>1, <4>1 DEF InsertsHold
      <4>3. d = Part(v)'
        BY <4>1, <4>2 DEF Part
      <4> QED BY <2>3, <2>4, <4>2, <4>3
    <3> QED BY <3>2, <3>3
  <2>8. FillFits'
    BY <1>2, <2>2 DEF FillFits, FillsNext, FillKey
  <2> QED BY <1>2, <2>5, <2>6, <2>7, <2>8
<1> QED BY <1>3, <1>4

LEMMA InsertHolds ==
    ASSUME ImportInv, NEW u \in DOMAIN requests, InsertMedia(u)
    PROVE  ImportInv'
<1> USE DEF ImportInv
<1>1. PICK c : c = Part(u)
  OBVIOUS
<1>2. PICK new : new = [id |-> imported.media + 1, content |-> c, bytes |-> ~dataDir,
                        key |-> IF dataDir THEN UploadKey(c) ELSE None]
  OBVIOUS
<1>3. PICK row : row = IF RowOf(c) = {} THEN new ELSE Merged(CHOOSE m \in RowOf(c) : TRUE, new)
  OBVIOUS
<1>4. /\ requests[u].step = "insert" /\ media' = (media \ RowOf(c)) \cup {row}
      /\ imported' = IF RowOf(c) = {} THEN [imported EXCEPT !.media = @ + 1] ELSE imported
      /\ requests' = [requests EXCEPT ![u] = RequestAt(@.left, "auto", row.id)]
      /\ UNCHANGED <<files, dataDir, unlinks, fill, crossed>>
  BY <1>1, <1>2, <1>3 DEF InsertMedia, Enter
<1>5. ImportedFits' /\ imported.media <= imported'.media
  BY <1>4 DEF ImportedFits
<1>6. dataDir => Safe(UploadKey(c)) \/ c \in crossed
  BY <1>1, <1>4 DEF InsertsHold
<1>7. ~dataDir => \A k : k \notin unlinks
  BY DEF NoKeys
\* The row: what it has, and which it is.
<1>8. /\ row.content = c /\ row.bytes \in BOOLEAN /\ row.id \in 1..imported'.media
      /\ row.key \in {None, UploadKey(c), FillKey(c)}
      /\ \A m \in media : m.content # c => m.id # row.id
      /\ row.key = None => row.bytes /\ FillKey(c) \notin unlinks
      /\ row.key = FillKey(c) => Safe(row.key)
      /\ row.key = UploadKey(c) => Safe(row.key) \/ row.bytes \/ c \in crossed
      /\ ~dataDir => row.key = None
      /\ \A r \in fill.rows : r.id = row.id => r.content = c
      /\ \A r \in fill.rows : r.id = row.id /\ row.key = None =>
            \E m \in media : m.id = row.id /\ m.key = None
  <2>1. CASE RowOf(c) = {}
    <3>1. row = new /\ imported'.media = imported.media + 1
      BY <1>3, <1>4, <2>1 DEF ImportedFits
    <3>2. /\ row.id = imported.media + 1 /\ row.content = c /\ (row.bytes <=> ~dataDir)
          /\ row.bytes \in BOOLEAN /\ row.key = IF dataDir THEN UploadKey(c) ELSE None
      BY <1>2, <3>1
    <3>3. /\ \A m \in media : m.id # row.id
          /\ \A r \in fill.rows : r.id # row.id
      BY <3>2 DEF MediaFits, FillFits, ImportedFits
    <3>4. row.key = None => ~dataDir
      BY <3>2, Keys
    <3>5. row.key = UploadKey(c) => dataDir
      BY <3>2, Keys
    <3>6. row.key # FillKey(c)
      BY <3>2, Keys
    <3>7. row.id \in 1..imported'.media
      BY <3>1, <3>2 DEF ImportedFits
    <3> QED BY <1>6, <1>7, <3>2, <3>3, <3>4, <3>5, <3>6, <3>7
  <2>2. CASE RowOf(c) # {}
    <3>1. PICK old \in media : old.content = c /\ row = Merged(old, new)
      BY <1>3, <2>2 DEF RowOf
    <3>2. /\ row.id = old.id /\ row.content = c /\ (row.bytes <=> old.bytes \/ new.bytes)
          /\ row.bytes \in BOOLEAN
          /\ row.key = IF old.key = None THEN new.key ELSE old.key
      BY <3>1 DEF Merged
    <3>3. new.key = IF dataDir THEN UploadKey(c) ELSE None
      BY <1>2
    <3>4. /\ old.id \in 1..imported.media /\ old.key \in {None, UploadKey(c), FillKey(c)}
          /\ \A m \in media : m.id = old.id => m = old
          /\ old.key = None => old.bytes /\ FillKey(c) \notin unlinks
          /\ old.key = FillKey(c) => Safe(old.key)
          /\ old.key = UploadKey(c) => Safe(old.key) \/ old.bytes \/ c \in crossed
          /\ ~dataDir => old.key = None
          /\ \A r \in fill.rows : r.id = old.id => r.content = c
      BY <3>1 DEF MediaFits, KeysHold, NoKeys, FillFits
    <3>5. row.id \in 1..imported'.media
      BY <1>5, <3>2, <3>4 DEF ImportedFits
    <3>6. row.key = None => old.key = None
      BY <3>2
    <3>7. row.key = FillKey(c) => old.key = FillKey(c)
      BY <3>2, <3>3, Keys
    <3>8. row.key = UploadKey(c) => old.key = UploadKey(c) \/ old.key = None
      BY <3>2
    <3> QED BY <3>1, <3>2, <3>3, <3>4, <3>5, <3>6, <3>7, <3>8
  <2> QED BY <2>1, <2>2
<1>9. \A m \in media' : m = row \/ (m \in media /\ m.content # c)
  BY <1>4 DEF RowOf
<1>10. MediaFits'
  <2>1. \A m \in media : m.id \in 1..imported'.media
    BY <1>5 DEF MediaFits, ImportedFits
  <2>2. \A m \in media' : /\ m.id \in 1..imported'.media /\ m.bytes \in BOOLEAN
                          /\ m.key \in {None, UploadKey(m.content), FillKey(m.content)}
    BY <1>8, <1>9, <2>1 DEF MediaFits
  <2>3. \A m, n \in media' : m.id = n.id \/ m.content = n.content => m = n
    BY <1>8, <1>9 DEF MediaFits
  <2> QED BY <2>2, <2>3 DEF MediaFits, UploadKey, FillKey, None
<1>11. \A k : Safe(k)' = Safe(k)
  BY <1>4 DEF Safe
<1>12. KeysHold'
  <2>1. \A m \in media' :
          /\ m.key = None => m.bytes /\ FillKey(m.content) \notin unlinks
          /\ m.key = FillKey(m.content) => Safe(m.key)
          /\ m.key = UploadKey(m.content) => Safe(m.key) \/ m.bytes \/ m.content \in crossed
    BY <1>8, <1>9 DEF KeysHold
  <2> QED BY <1>4, <2>1 DEF KeysHold, UploadKey, FillKey, None, Safe
<1>13. NoKeys'
  BY <1>4, <1>8, <1>9 DEF NoKeys, None
<1>14. InsertsHold'
  <2>1. \A v \in DOMAIN requests' : requests'[v].step = "insert" =>
          v \in DOMAIN requests /\ requests'[v] = requests[v]
    BY <1>4 DEF RequestAt
  <2> QED BY <1>4, <2>1 DEF InsertsHold, Safe, Part, UploadKey
<1>15. FillFits'
  <2>1. \A r \in fill.rows : r.id \in 1..imported'.media
    BY <1>5 DEF FillFits, ImportedFits
  <2>2. \A r \in fill.rows : \A m \in media' : m.id = r.id => m.content = r.content
    BY <1>8, <1>9 DEF FillFits
  <2>3. ASSUME fill.step = "update", NEW r \in fill.rows, FillsNext(r),
               NEW m \in media', m.id = r.id, m.key = None
        PROVE  FillKey(r.content) \in files
    <3>1. \E n \in media : n.id = r.id /\ n.key = None
      BY <1>8, <1>9, <2>3
    <3> QED BY <2>3, <3>1 DEF FillFits
  <2>4. \A r : FillsNext(r)' = FillsNext(r)
    BY <1>4 DEF FillsNext
  <2>5. fill.step = "update" => \A r \in fill.rows : FillsNext(r) =>
          \A m \in media' : m.id = r.id /\ m.key = None => FillKey(r.content) \in files
    BY <2>3
  <2> QED BY <1>4, <2>1, <2>2, <2>4, <2>5 DEF FillFits, FillKey, None
<1> QED BY <1>4, <1>5, <1>10, <1>12, <1>13, <1>14, <1>15

\* The other steps of requests, jobs and the resumption.
LEMMA OthersHold ==
    ASSUME ImportInv,
           \/ \E u \in DOMAIN requests : LookForJob(u) \/ CreateAuto(u) \/ UploadFails(u)
           \/ \E m \in media : Retry(m)
           \/ \E j \in DOMAIN running :
                Select(j) \/ MarkJob(j) \/ Transcribe(j) \/ End(j) \/ StatementFails(j)
           \/ ResumeUpdate \/ ResumeSelect \/ ResumeEnqueue \/ ResumeFails
    PROVE  ImportInv'
<1> USE DEF ImportInv
<1>1. CASE \E u \in DOMAIN requests : LookForJob(u) \/ CreateAuto(u) \/ UploadFails(u)
  <2>1. PICK u \in DOMAIN requests : LookForJob(u) \/ CreateAuto(u) \/ UploadFails(u)
    BY <1>1
  <2>2. UNCHANGED <<media, files, dataDir, unlinks, fill, crossed>>
    BY <2>1 DEF LookForJob, CreateAuto, UploadFails
  <2>3. UNCHANGED imported \/ imported' = [imported EXCEPT !.jobs = @ + 1]
    BY <2>1 DEF LookForJob, CreateAuto, UploadFails
  <2>4. ImportedFits' /\ imported'.media = imported.media
    BY <2>3 DEF ImportedFits
  <2>5. NextPart(u) \/ Goto(u, "job") \/ requests' = Finished(u)
    BY <2>1 DEF LookForJob, CreateAuto, UploadFails
  <2>6. \A v \in DOMAIN requests' : requests'[v].step = "insert" =>
          v \in DOMAIN requests /\ requests'[v] = requests[v]
    BY <2>5, NextPartRests DEF Goto, Finished, RequestAt
  <2> QED BY <2>2, <2>4, <2>6, BlobsStay
<1>2. CASE \E m \in media : Retry(m)
  <2>1. imported' = [imported EXCEPT !.jobs = @ + 1]
    BY <1>2 DEF Retry
  <2>2. ImportedFits' /\ imported'.media = imported.media
    BY <2>1 DEF ImportedFits
  <2> QED BY <1>2, <2>2, BlobsStay DEF Retry
<1>3. CASE \E j \in DOMAIN running :
             Select(j) \/ MarkJob(j) \/ Transcribe(j) \/ End(j) \/ StatementFails(j)
  <2>1. UNCHANGED <<media, files, dataDir, unlinks, fill, crossed, requests, imported>>
    BY <1>3 DEF Select, MarkJob, Transcribe, End, StatementFails
  <2> QED BY <2>1, BlobsStay DEF ImportedFits
<1>4. CASE ResumeUpdate \/ ResumeSelect \/ ResumeEnqueue \/ ResumeFails
  <2>1. UNCHANGED <<media, files, dataDir, unlinks, fill, crossed, requests, imported>>
    BY <1>4 DEF ResumeUpdate, ResumeSelect, ResumeEnqueue, ResumeFails
  <2> QED BY <2>1, BlobsStay DEF ImportedFits
<1> QED BY <1>1, <1>2, <1>3, <1>4

\* A deletion that is under way when the same audio is about to be inserted again.
LEMMA DeleteHolds ==
    ASSUME ImportInv, NEW m \in media, DeleteAudio(m)
    PROVE  ImportInv'
<1> USE DEF ImportInv
<1>1. /\ media' = media \ {m} /\ UNCHANGED <<files, dataDir, requests, fill, imported>>
      /\ unlinks' = IF m.key = None THEN unlinks ELSE unlinks \cup {m.key}
      /\ crossed' = IF \E u \in DOMAIN requests : Enter("insert", u) /\ Part(u) = m.content
                    THEN crossed \cup {m.content} ELSE crossed
  BY DEF DeleteAudio
<1>2. \A n \in media' : n \in media /\ n.content # m.content
  BY <1>1 DEF MediaFits
<1>3. m.key \in {None, UploadKey(m.content), FillKey(m.content)}
  BY DEF MediaFits
<1>4. ImportedFits' /\ MediaFits'
  BY <1>1 DEF ImportedFits, MediaFits, UploadKey, FillKey, None
<1>5. KeysHold'
  <2>1. ASSUME NEW n \in media'
        PROVE  /\ n.key = None => n.bytes /\ FillKey(n.content) \notin unlinks'
               /\ n.key = FillKey(n.content) => Safe(n.key)'
               /\ n.key = UploadKey(n.content) => Safe(n.key)' \/ n.bytes \/ n.content \in crossed'
    <3>1. n \in media /\ FillKey(n.content) # m.key /\ UploadKey(n.content) # m.key
      BY <1>2, <1>3, <2>1, Keys
    <3>2. /\ n.key = None => n.bytes /\ FillKey(n.content) \notin unlinks
          /\ n.key = FillKey(n.content) => Safe(n.key)
          /\ n.key = UploadKey(n.content) => Safe(n.key) \/ n.bytes \/ n.content \in crossed
      BY <3>1 DEF KeysHold
    <3> QED BY <1>1, <3>1, <3>2 DEF Safe
  <2> QED BY <2>1 DEF KeysHold, UploadKey, FillKey, None, Safe
<1>6. NoKeys'
  BY <1>1 DEF NoKeys, None
<1>7. InsertsHold'
  <2>1. ASSUME NEW u \in DOMAIN requests, requests[u].step = "insert", dataDir
        PROVE  \E c : c = Part(u) /\ (Safe(UploadKey(c))' \/ c \in crossed')
    <3>1. PICK c : c = Part(u) /\ (Safe(UploadKey(c)) \/ c \in crossed)
      BY <2>1 DEF InsertsHold
    <3>2. CASE c = m.content
      BY <1>1, <2>1, <3>1, <3>2 DEF Enter
    <3>3. CASE c # m.content
      <4>1. UploadKey(c) # m.key
        BY <1>3, <3>3, Keys
      <4> QED BY <1>1, <3>1, <4>1 DEF Safe
    <3> QED BY <3>1, <3>2, <3>3
  <2>2. \A u : Part(u)' = Part(u)
    BY <1>1 DEF Part
  <2> QED BY <1>1, <2>1, <2>2 DEF InsertsHold, Safe, UploadKey
<1>8. FillFits'
  BY <1>1 DEF FillFits, FillsNext, FillKey, None
<1> QED BY <1>1, <1>4, <1>5, <1>6, <1>7, <1>8

\* The file of a row whose key is to be set is not the file that is deleted now.
LEMMA UnlinkHolds ==
    ASSUME ImportInv, NEW k \in unlinks, Unlink(k)
    PROVE  ImportInv'
<1> USE DEF ImportInv
<1>1. /\ unlinks' = unlinks \ {k} /\ files' = files \ {k}
      /\ UNCHANGED <<media, dataDir, requests, fill, imported, crossed>>
  BY DEF Unlink
<1>2. \A j : Safe(j) => Safe(j)'
  BY <1>1 DEF Safe
<1>3. ImportedFits' /\ MediaFits' /\ NoKeys'
  BY <1>1 DEF ImportedFits, MediaFits, NoKeys, UploadKey, FillKey, None
<1>4. KeysHold'
  <2>1. \A n \in media :
          /\ n.key = None => n.bytes /\ FillKey(n.content) \notin unlinks'
          /\ n.key = FillKey(n.content) => Safe(n.key)'
          /\ n.key = UploadKey(n.content) => Safe(n.key)' \/ n.bytes \/ n.content \in crossed
    BY <1>1, <1>2 DEF KeysHold
  <2> QED BY <1>1, <2>1 DEF KeysHold, UploadKey, FillKey, None, Safe
<1>5. InsertsHold'
  BY <1>1, <1>2 DEF InsertsHold, Part, Safe, UploadKey
<1>6. FillFits'
  <2>1. \A r \in fill.rows : \A m \in media : m.id = r.id /\ m.key = None => k # FillKey(r.content)
    BY DEF KeysHold, FillFits
  <2> QED BY <1>1, <2>1 DEF FillFits, FillsNext, FillKey, None
<1> QED BY <1>1, <1>3, <1>4, <1>5, <1>6

LEMMA FillHolds ==
    ASSUME ImportInv, FillSelect \/ FillStore \/ FillUpdate
    PROVE  ImportInv'
<1> USE DEF ImportInv
<1>1. CASE FillSelect
  <2>1. /\ fill'.rows \subseteq media /\ (fill'.rows # {} => dataDir)
        /\ fill'.step # "update"
    BY <1>1 DEF FillSelect, FillAt
  <2>2. UNCHANGED <<media, files, dataDir, requests, unlinks, imported, crossed>>
    BY <1>1 DEF FillSelect
  <2>3. FillFits'
    BY <2>1, <2>2 DEF FillFits, MediaFits
  <2> QED BY <2>2, <2>3 DEF ImportedFits, MediaFits, KeysHold, NoKeys, InsertsHold, Safe, Part,
                            UploadKey, FillKey, None
<1>2. CASE FillStore
  <2>1. PICK r \in fill.rows :
          /\ FillsNext(r) /\ files' = files \cup {FillKey(r.content)}
          /\ fill' = FillAt("update", fill.rows)
    BY <1>2 DEF FillStore
  <2>2. UNCHANGED <<media, dataDir, requests, unlinks, imported, crossed>>
    BY <1>2 DEF FillStore
  <2>3. fill'.rows = fill.rows /\ \A s : FillsNext(s)' <=> FillsNext(s)
    BY <2>1 DEF FillAt, FillsNext
  <2>4. \A s : FillsNext(s) => s = r
    BY <2>1 DEF FillsNext, FillFits, ImportedFits
  <2>5. FillFits'
    <3>1. \A s \in fill.rows : FillsNext(s) => FillKey(s.content) \in files'
      BY <2>1, <2>4
    <3> QED BY <2>2, <2>3, <3>1 DEF FillFits, FillKey
  <2>6. \A k : Safe(k) => Safe(k)'
    BY <2>1, <2>2 DEF Safe
  <2>7. KeysHold'
    <3>1. \A n \in media :
            /\ n.key = None => n.bytes /\ FillKey(n.content) \notin unlinks'
            /\ n.key = FillKey(n.content) => Safe(n.key)'
            /\ n.key = UploadKey(n.content) => Safe(n.key)' \/ n.bytes \/ n.content \in crossed
      BY <2>2, <2>6 DEF KeysHold
    <3> QED BY <2>2, <3>1 DEF KeysHold, UploadKey, FillKey, None, Safe
  <2> QED BY <2>2, <2>5, <2>6, <2>7 DEF ImportedFits, MediaFits, NoKeys, InsertsHold, Part,
                                        UploadKey, FillKey, None
<1>3. CASE FillUpdate
  <2>1. PICK r \in fill.rows :
          /\ fill.step = "update" /\ FillsNext(r)
          /\ media' = {IF m.id = r.id THEN Moved(m, FillKey(r.content)) ELSE m : m \in media}
          /\ fill' = FillAt("store", fill.rows \ {r})
    BY <1>3 DEF FillUpdate
  <2>2. UNCHANGED <<files, dataDir, requests, unlinks, imported, crossed>> /\ dataDir
    BY <1>3, <2>1 DEF FillUpdate, FillFits
  <2>3. fill'.rows = fill.rows \ {r} /\ fill'.step = "store"
    BY <2>1 DEF FillAt
  \* A row as it was, or one that got its key.
  <2>4. ASSUME NEW n \in media'
        PROVE  \E m \in media : /\ n.id = m.id /\ n.content = m.content
                                /\ \/ n = m
                                   \/ /\ n.key = FillKey(n.content) /\ n.bytes = FALSE
                                      /\ m.key = None /\ Safe(n.key)
                                      /\ n = [id |-> m.id, content |-> m.content,
                                              bytes |-> FALSE, key |-> n.key]
    <3>1. PICK m \in media : n = IF m.id = r.id THEN Moved(m, FillKey(r.content)) ELSE m
      BY <2>1, <2>4
    <3>2. CASE m.id = r.id /\ m.key = None
      <4>1. m.content = r.content /\ FillKey(r.content) \in files
        BY <2>1, <3>2 DEF FillFits
      <4>2. Safe(FillKey(m.content))
        BY <3>2, <4>1 DEF Safe, KeysHold
      <4>3. n = [id |-> m.id, content |-> m.content, bytes |-> FALSE, key |-> FillKey(m.content)]
        BY <3>1, <3>2, <4>1 DEF Moved
      <4> QED BY <3>2, <4>2, <4>3
    <3>3. CASE ~(m.id = r.id /\ m.key = None)
      BY <3>1, <3>3 DEF Moved
    <3> QED BY <3>2, <3>3
  <2>5. MediaFits'
    <3>1. \A n \in media' : /\ n.id \in 1..imported.media /\ n.bytes \in BOOLEAN
                            /\ n.key \in {None, UploadKey(n.content), FillKey(n.content)}
      BY <2>4 DEF MediaFits
    <3>2. ASSUME NEW n \in media', NEW o \in media', n.id = o.id \/ n.content = o.content
          PROVE  n = o
      <4>1. PICK m \in media : n = IF m.id = r.id THEN Moved(m, FillKey(r.content)) ELSE m
        BY <2>1
      <4>2. PICK l \in media : o = IF l.id = r.id THEN Moved(l, FillKey(r.content)) ELSE l
        BY <2>1
      <4>3. n.id = m.id /\ n.content = m.content /\ o.id = l.id /\ o.content = l.content
        BY <4>1, <4>2 DEF Moved
      <4>4. m = l
        BY <3>2, <4>3 DEF MediaFits
      <4> QED BY <4>1, <4>2, <4>4
    <3> QED BY <2>2, <3>1, <3>2 DEF MediaFits, UploadKey, FillKey, None
  <2>6. KeysHold'
    <3>1. ASSUME NEW n \in media'
          PROVE  /\ n.key = None => n.bytes /\ FillKey(n.content) \notin unlinks
                 /\ n.key = FillKey(n.content) => Safe(n.key)
                 /\ n.key = UploadKey(n.content) =>
                      Safe(n.key) \/ n.bytes \/ n.content \in crossed
      <4>1. n \in media \/ (n.key = FillKey(n.content) /\ Safe(n.key))
        BY <2>4
      <4> QED BY <4>1, Keys DEF KeysHold
    <3> QED BY <2>2, <3>1 DEF KeysHold, UploadKey, FillKey, None, Safe
  <2>7. FillFits'
    <3>1. ASSUME NEW s \in fill.rows, NEW n \in media', n.id = s.id
          PROVE  n.content = s.content
      <4>1. PICK m \in media : n.id = m.id /\ n.content = m.content
        BY <2>4
      <4> QED BY <3>1, <4>1 DEF FillFits
    <3> QED BY <2>2, <2>3, <3>1 DEF FillFits
  <2> QED BY <2>2, <2>5, <2>6, <2>7 DEF ImportedFits, NoKeys, InsertsHold, Part, Safe, UploadKey
<1> QED BY <1>1, <1>2, <1>3

LEMMA CrashHolds ==
    ASSUME ImportInv, Crash
    PROVE  ImportInv'
<1> USE DEF ImportInv
<1>1. /\ dataDir' \in {dataDir, TRUE} /\ unlinks' = {} /\ DOMAIN requests' = {}
      /\ fill'.rows = {} /\ fill'.step = "select"
      /\ UNCHANGED <<media, files, imported, crossed>>
  <2>1. requests' = <<>> /\ fill' = FillAt("select", {})
    BY DEF Crash
  <2>2. DOMAIN requests' = {}
    BY <2>1
  <2>3. fill'.rows = {} /\ fill'.step = "select"
    BY <2>1 DEF FillAt
  <2> QED BY <2>2, <2>3 DEF Crash
<1>2. ImportedFits' /\ MediaFits' /\ NoKeys' /\ InsertsHold' /\ FillFits'
  BY <1>1 DEF ImportedFits, MediaFits, NoKeys, InsertsHold, FillFits, UploadKey, FillKey, None
<1>3. KeysHold'
  <2>1. \A k : Safe(k) => Safe(k)'
    BY <1>1 DEF Safe
  <2>2. \A n \in media :
          /\ n.key = None => n.bytes /\ FillKey(n.content) \notin unlinks'
          /\ n.key = FillKey(n.content) => Safe(n.key)'
          /\ n.key = UploadKey(n.content) => Safe(n.key)' \/ n.bytes \/ n.content \in crossed
    BY <1>1, <2>1 DEF KeysHold
  <2> QED BY <1>1, <2>2 DEF KeysHold, UploadKey, FillKey, None, Safe
<1>4. dataDir' \in BOOLEAN
  BY <1>1
<1> QED BY <1>2, <1>3, <1>4

LEMMA ImportKeeps == ImportInv /\ [ImportNext]_importVars => ImportInv'
<1> SUFFICES ASSUME ImportInv, [ImportNext]_importVars PROVE ImportInv'
  OBVIOUS
<1>1. CASE UNCHANGED importVars
  BY <1>1, BlobsStay DEF importVars, memVars, ImportInv, ImportedFits
<1> QED BY <1>1, UploadHolds, StoreHolds, InsertHolds, OthersHold, DeleteHolds, UnlinkHolds,
           FillHolds, CrashHolds DEF ImportNext

\* The bytes of every row are in the row or in the file it names, whatever was deleted,
\* uploaded again, moved to disk or interrupted by a crash, unless an upload crossed the
\* deletion of its file.
THEOREM BytesAreSomewhere == ImportSpec => []Playable
<1>1. ImportInv => Playable
  BY DEF ImportInv, MediaFits, KeysHold, Playable, Reachable, Safe
<1> QED BY <1>1, ImportInitially, ImportKeeps, PTL DEF ImportSpec

----------------------------------------------------------------------------
(* The import: the end of a job *)

\* A job that is past its select has not ended: it has one place among the running ones.
JobsInv ==
    /\ ImportedFits
    /\ \A k \in jobs : k.id \in 1..imported.jobs
    /\ \A k, n \in jobs : k.id = n.id => k = n
    /\ \A j \in DOMAIN running : running[j].step # "select" =>
          \A k \in jobs : k.id = j => k.status \notin Ended

EndsStay ==
    \A k \in jobs : k.status \in Ended => \A n \in jobs' : n.id = k.id => n.status = k.status

LEMMA JobsInitially == ImportInit => JobsInv
<1> SUFFICES ASSUME ImportInit PROVE JobsInv
  OBVIOUS
<1>1. imported = [uploads |-> 0, media |-> 0, jobs |-> 0] /\ jobs = {}
  BY DEF ImportInit
<1>2. DOMAIN running = {}
  BY DEF ImportInit
<1> QED BY <1>1, <1>2 DEF JobsInv, ImportedFits

\* What is running afterwards is about to be selected, was past its select, or has not
\* ended.
RunningFrom ==
    \A j \in DOMAIN running' :
        \/ running'[j].step = "select"
        \/ j \in DOMAIN running /\ running[j].step # "select"
        \/ \A k \in jobs : k.id = j => k.status \notin Ended

LEMMA DrainRuns ==
    ASSUME NEW q, NEW r, NEW n, Drain(q, r, n)
    PROVE  \A j \in DOMAIN running' :
              running'[j].step = "select" \/ (j \in DOMAIN r /\ running'[j] = r[j])
BY DEF Drain, RunAt

LEMMA LeaveRuns ==
    ASSUME NEW i, Leave(i)
    PROVE  /\ RunningFrom
           /\ i \in DOMAIN running' => running'[i].step = "select"
<1>1. \A j \in DOMAIN running' : \/ running'[j].step = "select"
                                 \/ /\ j \in DOMAIN running \ {i}
                                    /\ running'[j] = [h \in DOMAIN running \ {i} |-> running[h]][j]
  BY DrainRuns DEF Leave
<1> QED BY <1>1 DEF RunningFrom

LEMMA EnqueueRuns ==
    ASSUME NEW ids, Enqueue(ids)
    PROVE  RunningFrom
<1>1. PICK q : Drain(q, running, active)
  BY DEF Enqueue
<1> QED BY <1>1, DrainRuns DEF RunningFrom

\* A step that ends no job.
LEMMA JobsMove ==
    ASSUME JobsInv, ImportedFits', RunningFrom, imported.jobs <= imported'.jobs,
           \A n \in jobs' : n.id \in 1..imported'.jobs,
           \A k, n \in jobs' : k.id = n.id => k = n,
           \A n \in jobs' : \/ n \in jobs
                            \/ n.status \notin Ended /\ \A k \in jobs :
                                  k.id = n.id => k.status \notin Ended
    PROVE  JobsInv' /\ EndsStay
<1>1. EndsStay
  BY DEF JobsInv, EndsStay
<1>2. ASSUME NEW j \in DOMAIN running', running'[j].step # "select",
             NEW n \in jobs', n.id = j
      PROVE  n.status \notin Ended
  BY <1>2 DEF JobsInv, RunningFrom
<1> QED BY <1>1, <1>2 DEF JobsInv, Ended

\* A step that leaves the table as it is.
LEMMA JobsAsTheyAre ==
    ASSUME JobsInv, ImportedFits', RunningFrom, imported'.jobs = imported.jobs, UNCHANGED jobs
    PROVE  JobsInv' /\ EndsStay
BY JobsMove DEF JobsInv, ImportedFits

LEMMA RequestJobs ==
    ASSUME JobsInv,
           \/ \E parts : Upload(parts)
           \/ \E u \in DOMAIN requests : \/ Store(u) \/ InsertMedia(u) \/ LookForJob(u)
                                         \/ UploadFails(u)
           \/ \E m \in media : DeleteAudio(m)
           \/ \E k \in unlinks : Unlink(k)
           \/ ResumeSelect \/ ResumeFails \/ FillSelect \/ FillStore \/ FillUpdate
           \/ UNCHANGED importVars
    PROVE  JobsInv' /\ EndsStay
<1>1. UNCHANGED running
  BY DEF Upload, Store, InsertMedia, LookForJob, UploadFails, DeleteAudio, Unlink,
         ResumeSelect, ResumeFails, FillSelect, FillStore, FillUpdate, jobVars, importVars,
         memVars
<1>2. jobs' \subseteq jobs
  BY DEF Upload, Store, InsertMedia, LookForJob, UploadFails, DeleteAudio, Unlink,
         ResumeSelect, ResumeFails, FillSelect, FillStore, FillUpdate, importVars
<1>3. \/ UNCHANGED imported
      \/ imported' = [imported EXCEPT !.uploads = @ + 1]
      \/ imported' = [imported EXCEPT !.media = @ + 1]
  BY DEF Upload, Store, InsertMedia, LookForJob, UploadFails, DeleteAudio, Unlink,
         ResumeSelect, ResumeFails, FillSelect, FillStore, FillUpdate, importVars
<1>4. ImportedFits' /\ imported'.jobs = imported.jobs
  BY <1>3 DEF JobsInv, ImportedFits
<1>5. RunningFrom
  BY <1>1 DEF RunningFrom
<1>6. \A n \in jobs' : n \in jobs /\ n.id \in 1..imported'.jobs
  BY <1>2, <1>4 DEF JobsInv
<1>7. \A k, n \in jobs' : k.id = n.id => k = n
  BY <1>2 DEF JobsInv
<1>8. imported.jobs <= imported'.jobs
  BY <1>4 DEF JobsInv, ImportedFits
<1> QED BY <1>4, <1>5, <1>6, <1>7, <1>8, JobsMove

LEMMA NewJobs ==
    ASSUME JobsInv, NEW m, NEW source, CreateJob(m, source),
           imported' = [imported EXCEPT !.jobs = @ + 1]
    PROVE  JobsInv' /\ EndsStay
<1>1. PICK new : new = NewJob(m, source)
  OBVIOUS
<1>2. /\ new.id = imported.jobs + 1 /\ new.status \notin Ended
      /\ jobs' = jobs \cup {new}
  BY <1>1 DEF NewJob, CreateJob, Ended
<1>3. ImportedFits' /\ imported'.jobs = imported.jobs + 1 /\ imported.jobs \in Nat
  BY DEF JobsInv, ImportedFits
<1>4. RunningFrom
  BY EnqueueRuns DEF CreateJob
<1>5. \A k \in jobs : k.id # new.id
  BY <1>2, <1>3 DEF JobsInv
<1>6. \A n \in jobs' : n.id \in 1..imported'.jobs
  BY <1>2, <1>3 DEF JobsInv
<1>7. \A k, n \in jobs' : k.id = n.id => k = n
  BY <1>2, <1>5 DEF JobsInv
<1> QED BY <1>2, <1>3, <1>4, <1>5, <1>6, <1>7, JobsMove

\* New statuses for some of the jobs.
LEMMA StatusesMove ==
    ASSUME JobsInv, NEW S \in SUBSET jobs, NEW s, UNCHANGED imported,
           jobs' = {IF k \in S THEN WithStatus(k, s) ELSE k : k \in jobs}
    PROVE  /\ ImportedFits' /\ imported.jobs <= imported'.jobs
           /\ \A n \in jobs' : n.id \in 1..imported'.jobs
           /\ \A k, n \in jobs' : k.id = n.id => k = n
           /\ \A n \in jobs' : \/ n \in jobs \ S
                               \/ n.status = s /\ \E k \in S : k.id = n.id
<1>1. \A k : WithStatus(k, s).id = k.id /\ WithStatus(k, s).status = s
  BY DEF WithStatus
<1>2. \A n \in jobs' : \/ n \in jobs \ S
                       \/ \E k \in S : n = WithStatus(k, s)
  OBVIOUS
<1>3. ImportedFits' /\ imported.jobs <= imported'.jobs
  BY DEF JobsInv, ImportedFits
<1>4. \A n \in jobs' : n.id \in 1..imported'.jobs
  BY <1>1, <1>2 DEF JobsInv
<1>5. \A k, n \in jobs' : k.id = n.id => k = n
  BY <1>1, <1>2 DEF JobsInv
<1> QED BY <1>1, <1>2, <1>3, <1>4, <1>5

LEMMA RunJobs ==
    ASSUME JobsInv, NEW j \in DOMAIN running,
           Select(j) \/ MarkJob(j) \/ Transcribe(j) \/ End(j) \/ StatementFails(j)
    PROVE  JobsInv' /\ EndsStay
<1>1. UNCHANGED imported
  BY DEF Select, MarkJob, Transcribe, End, StatementFails
<1>2. \A r : Step(j, r) => \A i \in DOMAIN running' :
         i \in DOMAIN running /\ (i # j => running'[i] = running[i])
  BY DEF Step
<1>3. ImportedFits' /\ imported'.jobs = imported.jobs
  BY <1>1 DEF JobsInv, ImportedFits
<1>4. CASE Select(j)
  <2>1. RunningFrom
    <3>1. CASE Leave(j)
      BY <3>1, LeaveRuns
    <3>2. CASE Known(j) /\ Job(j).status \notin Ended /\ \E r : Step(j, r)
      <4>1. \A k \in jobs : k.id = j => k = Job(j)
        BY <3>2 DEF Job, Known, JobsInv
      <4> QED BY <1>2, <3>2, <4>1 DEF RunningFrom
    <3> QED BY <1>4, <3>1, <3>2 DEF Select
  <2> QED BY <1>3, <1>4, <2>1, JobsAsTheyAre DEF Select
<1>5. CASE MarkJob(j)
  <2>1. /\ running[j].step = "mark" /\ \E r : Step(j, r)
        /\ jobs' = SetStatus(jobs, j, "processing")
    BY <1>5 DEF MarkJob, At
  <2>2. RunningFrom
    BY <1>2, <2>1 DEF RunningFrom
  <2>3. PICK S \in SUBSET jobs : S = {k \in jobs : k.id = j}
    OBVIOUS
  <2>4. jobs' = {IF k \in S THEN WithStatus(k, "processing") ELSE k : k \in jobs}
    BY <2>1, <2>3 DEF SetStatus
  <2>5. \A k \in S : k.status \notin Ended
    BY <2>1, <2>3 DEF JobsInv
  <2>6. /\ ImportedFits' /\ imported.jobs <= imported'.jobs
        /\ \A n \in jobs' : n.id \in 1..imported'.jobs
        /\ \A k, n \in jobs' : k.id = n.id => k = n
        /\ \A n \in jobs' : \/ n \in jobs \ S
                            \/ n.status = "processing" /\ \E k \in S : k.id = n.id
    BY <1>1, <2>4, StatusesMove
  <2>7. \A n \in jobs' : \/ n \in jobs
                         \/ n.status \notin Ended /\ \A k \in jobs :
                               k.id = n.id => k.status \notin Ended
    BY <2>3, <2>5, <2>6 DEF Ended
  <2> QED BY <2>2, <2>6, <2>7, JobsMove
<1>6. CASE Transcribe(j)
  <2>1. running[j].step = "work" /\ UNCHANGED jobs /\ \E r : Step(j, r)
    BY <1>6 DEF Transcribe, At
  <2>2. RunningFrom
    BY <1>2, <2>1 DEF RunningFrom
  <2> QED BY <1>3, <2>1, <2>2, JobsAsTheyAre
<1>7. CASE End(j)
  <2>1. PICK s : jobs' = SetStatus(jobs, j, s)
    BY <1>7 DEF End
  <2>2. running[j].step = "end" /\ Leave(j)
    BY <1>7 DEF End, At
  <2>3. PICK S \in SUBSET jobs : S = {k \in jobs : k.id = j}
    OBVIOUS
  <2>4. jobs' = {IF k \in S THEN WithStatus(k, s) ELSE k : k \in jobs}
    BY <2>1, <2>3 DEF SetStatus
  <2>5. \A k \in S : k.status \notin Ended
    BY <2>2, <2>3 DEF JobsInv
  <2>6. /\ ImportedFits' /\ imported.jobs <= imported'.jobs
        /\ \A n \in jobs' : n.id \in 1..imported'.jobs
        /\ \A k, n \in jobs' : k.id = n.id => k = n
        /\ \A n \in jobs' : \/ n \in jobs \ S
                            \/ n.status = s /\ \E k \in S : k.id = n.id
    BY <1>1, <2>4, StatusesMove
  <2>7. EndsStay
    BY <2>3, <2>5, <2>6 DEF EndsStay, JobsInv
  <2>8. RunningFrom /\ (j \in DOMAIN running' => running'[j].step = "select")
    BY <2>2, LeaveRuns
  <2>9. ASSUME NEW i \in DOMAIN running', running'[i].step # "select",
               NEW n \in jobs', n.id = i
        PROVE  n.status \notin Ended
    <3>1. n \in jobs
      BY <2>3, <2>6, <2>8, <2>9
    <3> QED BY <2>8, <2>9, <3>1 DEF RunningFrom, JobsInv
  <2> QED BY <2>6, <2>7, <2>9 DEF JobsInv, Ended
<1>8. CASE StatementFails(j)
  <2>1. RunningFrom
    <3>1. CASE Leave(j)
      BY <3>1, LeaveRuns
    <3>2. CASE running[j].step = "end" /\ \E r : Step(j, r)
      BY <1>2, <3>2 DEF RunningFrom
    <3> QED BY <1>8, <3>1, <3>2 DEF StatementFails, At
  <2> QED BY <1>3, <1>8, <2>1, JobsAsTheyAre DEF StatementFails
<1> QED BY <1>4, <1>5, <1>6, <1>7, <1>8

LEMMA ResumeJobs ==
    ASSUME JobsInv, ResumeUpdate \/ ResumeEnqueue \/ Crash
    PROVE  JobsInv' /\ EndsStay
<1>1. CASE ResumeUpdate
  <2>1. PICK S \in SUBSET jobs : S = {k \in jobs : k.status = "processing"}
    OBVIOUS
  <2>2. /\ jobs' = {IF k \in S THEN WithStatus(k, "queued") ELSE k : k \in jobs}
        /\ UNCHANGED <<imported, running>>
    BY <1>1, <2>1 DEF ResumeUpdate, jobVars
  <2>3. /\ ImportedFits' /\ imported.jobs <= imported'.jobs
        /\ \A n \in jobs' : n.id \in 1..imported'.jobs
        /\ \A k, n \in jobs' : k.id = n.id => k = n
        /\ \A n \in jobs' : \/ n \in jobs \ S
                            \/ n.status = "queued" /\ \E k \in S : k.id = n.id
    BY <2>2, StatusesMove
  <2>4. RunningFrom
    BY <2>2 DEF RunningFrom
  <2>5. \A k \in S : k.status \notin Ended
    BY <2>1 DEF Ended
  <2>6. \A n \in jobs' : \/ n \in jobs
                         \/ n.status \notin Ended /\ \A k \in jobs :
                               k.id = n.id => k.status \notin Ended
    BY <2>1, <2>3, <2>5 DEF Ended, JobsInv
  <2> QED BY <2>3, <2>4, <2>6, JobsMove
<1>2. CASE ResumeEnqueue
  <2>1. UNCHANGED <<jobs, imported>> /\ RunningFrom
    BY <1>2, EnqueueRuns DEF ResumeEnqueue
  <2> QED BY <2>1, JobsAsTheyAre DEF JobsInv, ImportedFits
<1>3. CASE Crash
  <2>1. running' = <<>> /\ UNCHANGED <<jobs, imported>>
    BY <1>3 DEF Crash
  <2>2. DOMAIN running' = {}
    BY <2>1
  <2>3. RunningFrom
    BY <2>2 DEF RunningFrom
  <2> QED BY <2>1, <2>3, JobsAsTheyAre DEF JobsInv, ImportedFits
<1> QED BY <1>1, <1>2, <1>3

LEMMA JobsKeep == JobsInv /\ [ImportNext]_importVars => JobsInv' /\ EndsStay
<1> SUFFICES ASSUME JobsInv, [ImportNext]_importVars PROVE JobsInv' /\ EndsStay
  OBVIOUS
<1>1. ASSUME NEW u \in DOMAIN requests, CreateAuto(u) PROVE JobsInv' /\ EndsStay
  <2>1. CASE \E m, source : CreateJob(m, source) /\ imported' = [imported EXCEPT !.jobs = @ + 1]
    BY <2>1, NewJobs
  <2>2. CASE UNCHANGED <<jobs, jobVars, imported>>
    <3>1. RunningFrom
      BY <2>2 DEF jobVars, RunningFrom
    <3> QED BY <2>2, <3>1, JobsAsTheyAre DEF JobsInv, ImportedFits
  <2> QED BY <1>1, <2>1, <2>2 DEF CreateAuto
<1>2. ASSUME NEW m \in media, Retry(m) PROVE JobsInv' /\ EndsStay
  BY <1>2, NewJobs DEF Retry
<1> QED BY <1>1, <1>2, RequestJobs, RunJobs, ResumeJobs DEF ImportNext

\* The end of a job is final: neither the resumption of a restart nor a second entry in the
\* queue brings back a job that has completed or failed, for every number of jobs and
\* every limit of the queue.
THEOREM EndsAreFinal == ImportSpec => EndedJobsStay
<1>1. JobsInv /\ [ImportNext]_importVars =>
        [\A k \in jobs : k.status \in Ended =>
             \A n \in jobs' : n.id = k.id => n.status = k.status]_jobs
  BY JobsKeep DEF EndsStay
<1> QED BY <1>1, JobsInitially, JobsKeep, PTL DEF ImportSpec, EndedJobsStay
=============================================================================

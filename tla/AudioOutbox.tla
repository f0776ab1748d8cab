------------------------------ MODULE AudioOutbox ------------------------------
(***************************************************************************)
(* Recordings in the browser (useAudioImports of                           *)
(* apps/frontend-v3/audio-panel.tsx, audio-cache.ts,                       *)
(* browser-audio-recorder.ts): chunks are cached in IndexedDB while they   *)
(* are recorded, and cached recordings are uploaded one after the other.   *)
(*                                                                         *)
(* A panel is one mount of the hook, with refs of its own.  After an       *)
(* unmount its promises go on, beside those of the panel that is opened    *)
(* next or of one in another tab; they end when their tab is closed.       *)
(* Every await is a step boundary, a transaction of IndexedDB one step; a  *)
(* status is changed by a read and a write in two transactions.            *)
(*                                                                         *)
(* Left out: durations, chunk counts, attempts, what is shown, and a       *)
(* transaction of IndexedDB that fails.                                    *)
(***************************************************************************)
EXTENDS Integers, Sequences, FiniteSets

CONSTANTS
    Panels,      \* mounts of the panel
    MaxRecords,  \* bound: recordings
    MaxChunks,   \* bound: chunks of a recording
    MaxOutboxMishaps   \* bound: failed uploads, closed tabs, clicks on "Upload cached"

VARIABLES
    rows,      \* audioRecordings: id -> status
    chunks,    \* audioChunks: set of <<id, index>>
    uploads,   \* accepted by the server: set of [id, chunks]
    panel,     \* "new", "open", "unmounted", "closed"
    rec,       \* recorder of a panel: [id, next, on]; id is recordingIdRef, 0 for null
    writes,    \* appendCachedAudioChunk under way: set of [id, index, step, row]
    ending,    \* recordings whose last writes are awaited: set of [id, step, row]
    loop,      \* flushCachedUploads: [step, todo, id, row, blob]
    recorded,      \* recordings made so far
    outboxMishaps,
    put,       \* history: chunks that have been put into the cache
    taken,     \* history: recordings that an upload took up before they were finished
    passed,    \* history: finished recordings whose turn to be uploaded never came
    dropped    \* history: recordings that a closed tab was uploading

stores == <<rows, chunks, uploads>>
tasks == <<panel, rec, writes, ending, loop>>
history == <<put, taken, passed, dropped>>
outboxVars == <<stores, tasks, recorded, outboxMishaps, history>>

Ids == 1..MaxRecords
NoRow == "none"
OutboxMishap == outboxMishaps < MaxOutboxMishaps /\ outboxMishaps' = outboxMishaps + 1
NoRecorder == [id |-> 0, next |-> 0, on |-> 0]
LoopAt(step, todo, id, row, blob) ==
    [step |-> step, todo |-> todo, id |-> id, row |-> row, blob |-> blob]
NoLoop == LoopAt("idle", {}, 0, NoRow, {})
Rest(todo) == LoopAt("next", todo, 0, NoRow, {})

OutboxInit ==
    /\ rows = <<>> /\ chunks = {} /\ uploads = {}
    /\ panel = [p \in Panels |-> "new"]
    /\ rec = [p \in Panels |-> NoRecorder]
    /\ writes = [p \in Panels |-> {}] /\ ending = [p \in Panels |-> {}]
    /\ loop = [p \in Panels |-> NoLoop]
    /\ recorded = 0 /\ outboxMishaps = 0
    /\ put = {} /\ taken = {} /\ passed = {} /\ dropped = {}

----------------------------------------------------------------------------
(* The cache *)

Row(id) == IF id \in DOMAIN rows THEN rows[id] ELSE NoRow

\* saveCachedAudioRecording: what was read is written back, be the row there or not;
\* nothing if none was read.
Saved(id, row, status) ==
    IF row = NoRow THEN rows
    ELSE [i \in DOMAIN rows \cup {id} |-> IF i = id THEN status ELSE rows[i]]

\* deleteCachedAudioRecording
Removed(id) == [i \in DOMAIN rows \ {id} |-> rows[i]]

\* Some panel still records it, or has not finalised it.
Unfinished(id) == \E p \in Panels : rec[p].on = id \/ \E e \in ending[p] : e.id = id

----------------------------------------------------------------------------
(* flushCachedUploads *)

\* What the snapshot of loadCachedAudioRecordings gives the loop to do.
Snapshot == {[id |-> i, status |-> rows[i]] : i \in DOMAIN rows}

\* cachedUploadRunning: a call meanwhile does nothing.
FlushStarted(p, l) == IF l.step # "idle" THEN l
               ELSE Rest(Snapshot)

\* The altered form: only what an earlier attempt has left is taken up.
SkippedAtFirst(p, r) == r.id = rec[p].id \/ r.status \notin {"recording", "failed"}

\* The recording this panel is making, and one that was being uploaded.
Skipped(p, r) == r.id = rec[p].id \/ r.status = "uploading"

\* The next recording of the snapshot, oldest first; its row is read to mark it.
TakeUp(p) ==
    /\ loop[p].step = "next"
    /\ \/ loop[p].todo = {} /\ loop' = [loop EXCEPT ![p] = NoLoop]
       \/ \E r \in loop[p].todo :
            /\ \A s \in loop[p].todo : r.id <= s.id
            /\ loop' = [loop EXCEPT ![p] =
                 IF Skipped(p, r) THEN Rest(@.todo \ {r})
                 ELSE LoopAt("mark", @.todo \ {r}, r.id, Row(r.id), {})]
    /\ UNCHANGED <<stores, panel, rec, writes, ending, recorded, outboxMishaps, history>>

Mark(p) ==
    /\ loop[p].step = "mark"
    /\ rows' = Saved(loop[p].id, loop[p].row, "uploading")
    /\ loop' = [loop EXCEPT ![p] = LoopAt("load", @.todo, @.id, NoRow, {})]
    /\ UNCHANGED <<chunks, uploads, panel, rec, writes, ending, recorded, outboxMishaps,
                   history>>

\* loadCachedAudioBlob: it throws if there are no chunks.
Load(p) ==
    /\ loop[p].step = "load"
    /\ LET id == loop[p].id
           blob == {c \in chunks : c[1] = id}
       IN  /\ loop' = [loop EXCEPT ![p] =
                 LoopAt(IF blob = {} THEN "failed" ELSE "post", @.todo, id, NoRow, blob)]
           /\ taken' = IF Unfinished(id) THEN taken \cup {id} ELSE taken
    /\ UNCHANGED <<stores, panel, rec, writes, ending, recorded, outboxMishaps, put, passed,
                   dropped>>

Answered(l, step) == LoopAt(step, l.todo, l.id, NoRow, {})

\* The server takes the upload; its answer arrives, or is lost.
Post(p) ==
    /\ loop[p].step = "post"
    /\ uploads' = uploads \cup {[id |-> loop[p].id, chunks |-> loop[p].blob]}
    /\ \/ loop' = [loop EXCEPT ![p] = Answered(@, "delete")] /\ UNCHANGED outboxMishaps
       \/ loop' = [loop EXCEPT ![p] = Answered(@, "failed")] /\ OutboxMishap
    /\ UNCHANGED <<rows, chunks, panel, rec, writes, ending, recorded, history>>

PostFails(p) ==
    /\ loop[p].step = "post"
    /\ loop' = [loop EXCEPT ![p] = Answered(@, "failed")]
    /\ OutboxMishap
    /\ UNCHANGED <<stores, panel, rec, writes, ending, recorded, history>>

Delete(p) ==
    /\ loop[p].step = "delete"
    /\ rows' = Removed(loop[p].id)
    /\ chunks' = {c \in chunks : c[1] # loop[p].id}
    /\ loop' = [loop EXCEPT ![p] = Rest(@.todo)]
    /\ UNCHANGED <<uploads, panel, rec, writes, ending, recorded, outboxMishaps, history>>

\* An altered form: the recording is deleted whatever comes of the upload.
DeletedAnyway(l) == LoopAt("delete", l.todo, l.id, NoRow, {})

\* The row is read again ...
ToBeMarked(l) == LoopAt("markFailed", l.todo, l.id, Row(l.id), {})

\* ... and marked as failed.
Failed(p) ==
    /\ \/ /\ loop[p].step = "failed"
          /\ loop' = [loop EXCEPT ![p] = ToBeMarked(@)]
          /\ UNCHANGED rows
       \/ /\ loop[p].step = "markFailed"
          /\ rows' = Saved(loop[p].id, loop[p].row, "failed")
          /\ loop' = [loop EXCEPT ![p] = Rest(@.todo)]
    /\ UNCHANGED <<chunks, uploads, panel, rec, writes, ending, recorded, outboxMishaps,
                   history>>

\* The button "Upload cached".
Click(p) ==
    /\ panel[p] = "open" /\ OutboxMishap
    /\ loop' = [loop EXCEPT ![p] = FlushStarted(p, @)]
    /\ UNCHANGED <<stores, panel, rec, writes, ending, recorded, history>>

----------------------------------------------------------------------------
(* The panel and its recorder *)

\* The first effects: what an earlier panel has left is uploaded.
Mount(p) ==
    /\ panel[p] = "new"
    /\ panel' = [panel EXCEPT ![p] = "open"]
    /\ loop' = [loop EXCEPT ![p] = FlushStarted(p, @)]
    /\ UNCHANGED <<stores, rec, writes, ending, recorded, outboxMishaps, history>>

\* startRecording puts the row ...
Create(p) ==
    /\ panel[p] = "open" /\ rec[p] = NoRecorder /\ recorded < MaxRecords
    /\ recorded' = recorded + 1
    /\ rows' = [i \in DOMAIN rows \cup {recorded'} |->
                  IF i = recorded' THEN "recording" ELSE rows[i]]
    /\ rec' = [rec EXCEPT ![p].on = recorded']
    /\ UNCHANGED <<chunks, uploads, panel, writes, ending, loop, outboxMishaps, history>>

\* ... and starts the recorder, once it has the row's id.
Begin(p) ==
    /\ rec[p].on # 0 /\ rec[p].id = 0
    /\ rec' = [rec EXCEPT ![p] = [id |-> @.on, next |-> 1, on |-> @.on]]
    /\ UNCHANGED <<stores, panel, writes, ending, loop, recorded, outboxMishaps, history>>

Chunk(p) == [id |-> rec[p].id, index |-> rec[p].next, step |-> "put", row |-> NoRow]

\* ondataavailable
Record(p) ==
    /\ rec[p].id # 0 /\ rec[p].next <= MaxChunks
    /\ writes' = [writes EXCEPT ![p] = @ \cup {Chunk(p)}]
    /\ rec' = [rec EXCEPT ![p].next = @ + 1]
    /\ UNCHANGED <<stores, panel, ending, loop, recorded, outboxMishaps, history>>

\* appendCachedAudioChunk: the chunk is put, the row is read, the row is written.
CacheChunk(p) ==
    \E w \in writes[p] :
        LET others == writes[p] \ {w} IN
        /\ \/ /\ w.step = "put"
              /\ chunks' = chunks \cup {<<w.id, w.index>>}
              /\ put' = put \cup {<<w.id, w.index>>}
              /\ writes' = [writes EXCEPT ![p] = others \cup {[w EXCEPT !.step = "read"]}]
              /\ UNCHANGED rows
           \/ /\ w.step = "read"
              /\ writes' = [writes EXCEPT ![p] = others \cup
                   {[id |-> w.id, index |-> w.index, step |-> "save", row |-> Row(w.id)]}]
              /\ UNCHANGED <<rows, chunks, put>>
           \/ /\ w.step = "save"
              /\ rows' = Saved(w.id, w.row, w.row)
              /\ writes' = [writes EXCEPT ![p] = others]
              /\ UNCHANGED <<chunks, put>>
        /\ UNCHANGED <<uploads, panel, rec, ending, loop, recorded, outboxMishaps, taken,
                       passed, dropped>>

\* The recorder stops, perhaps with a last chunk; onstop forgets the recording and awaits
\* its writes.  A panel that unmounts stops its recorder too.
StopRecording(p, leave) ==
    /\ rec[p].id # 0
    /\ \E last \in IF rec[p].next <= MaxChunks THEN {{}, {Chunk(p)}} ELSE {{}} :
         writes' = [writes EXCEPT ![p] = @ \cup last]
    /\ rec' = [rec EXCEPT ![p] = NoRecorder]
    /\ ending' = [ending EXCEPT ![p] = @ \cup
                    {[id |-> rec[p].id, step |-> "settle", row |-> NoRow]}]
    /\ panel' = IF leave THEN [panel EXCEPT ![p] = "unmounted"] ELSE panel
    /\ UNCHANGED <<stores, loop, recorded, outboxMishaps, history>>

\* Promise.allSettled(chunkWrites)
WritesSettled(p, id) == \A w \in writes[p] : w.id # id

\* finalizeCachedAudioRecording reads the row and marks it as pending; then the cached
\* recordings are uploaded, unless this panel is doing that already.
Finish(p) ==
    \E e \in ending[p] :
        LET others == ending[p] \ {e} IN
        /\ \/ /\ e.step = "settle" /\ WritesSettled(p, e.id)
              /\ ending' = [ending EXCEPT ![p] = others \cup
                   {[id |-> e.id, step |-> "save", row |-> Row(e.id)]}]
              /\ UNCHANGED <<rows, loop, passed>>
           \/ /\ e.step = "save"
              /\ rows' = Saved(e.id, e.row, "pending")
              /\ ending' = [ending EXCEPT ![p] = others \cup {[e EXCEPT !.step = "flush"]}]
              /\ UNCHANGED <<loop, passed>>
           \/ /\ e.step = "flush"
              /\ ending' = [ending EXCEPT ![p] = others]
              /\ loop' = [loop EXCEPT ![p] = FlushStarted(p, @)]
              /\ passed' = IF loop[p].step = "idle" THEN passed ELSE passed \cup {e.id}
              /\ UNCHANGED rows
        /\ UNCHANGED <<chunks, uploads, panel, rec, writes, recorded, outboxMishaps, put,
                       taken, dropped>>

Unmount(p) ==
    /\ panel[p] = "open" /\ rec[p].on = rec[p].id
    /\ \/ StopRecording(p, TRUE)
       \/ /\ rec[p].id = 0
          /\ panel' = [panel EXCEPT ![p] = "unmounted"]
          /\ UNCHANGED <<stores, rec, writes, ending, loop, recorded, outboxMishaps, history>>

\* The tab is closed, and all that the panel was doing ends.
CloseTab(p) ==
    /\ panel[p] \in {"open", "unmounted"} /\ OutboxMishap
    /\ panel' = [panel EXCEPT ![p] = "closed"]
    /\ rec' = [rec EXCEPT ![p] = NoRecorder]
    /\ writes' = [writes EXCEPT ![p] = {}] /\ ending' = [ending EXCEPT ![p] = {}]
    /\ loop' = [loop EXCEPT ![p] = NoLoop]
    /\ dropped' = dropped \cup {loop[p].id}
    /\ passed' = passed \cup {e.id : e \in ending[p]}
                        \cup {r.id : r \in loop[p].todo}
    /\ UNCHANGED <<stores, recorded, put, taken>>

----------------------------------------------------------------------------
(* Specification *)

Uploading(p) ==
    TakeUp(p) \/ Mark(p) \/ Load(p) \/ Post(p) \/ PostFails(p) \/ Delete(p) \/ Failed(p)

OutboxNext == \E p \in Panels :
    \/ Mount(p) \/ Create(p) \/ Begin(p) \/ Record(p) \/ CacheChunk(p)
    \/ StopRecording(p, FALSE) \/ Finish(p)
    \/ Unmount(p) \/ CloseTab(p) \/ Click(p) \/ Uploading(p)

OutboxSpec == OutboxInit /\ [][OutboxNext]_outboxVars

\* Promises go on; nobody has to open a panel, to stop a recording or to click.
OutboxFairness == \A p \in Panels :
    WF_outboxVars(CacheChunk(p)) /\ WF_outboxVars(Finish(p)) /\ WF_outboxVars(Uploading(p))
OutboxFairSpec == OutboxSpec /\ OutboxFairness

----------------------------------------------------------------------------
(* Properties *)

\* A loop has it, and will upload it or mark it as failed.
InHands(id) == \E p \in Panels : loop[p].id = id

\* A chunk that was cached is in an accepted upload, or still cached under a row that an
\* upload has in hand or a later panel takes up: one that is not marked as uploading.  Left
\* out are the recordings that an upload, of the same panel or of another, takes up before
\* their last chunk is written (taken).  Of one whose tab was closed while it was uploaded
\* (dropped) only this is said, that it stays in the cache: its mark makes every later
\* upload pass over it (audio-panel.tsx:482).
NothingLost ==
    \A c \in put : c[1] \notin taken =>
        \/ \E u \in uploads : c \in u.chunks
        \/ /\ c \in chunks /\ c[1] \in DOMAIN rows
           /\ rows[c[1]] = "uploading" => c[1] \in dropped \/ InHands(c[1])

\* A recording marked as uploading is in the hands of a loop; nobody else takes it up.
\* Left out are those taken up before their end, and those whose tab was closed (dropped):
\* they stay as they are.
UploadingIsInHand ==
    \A id \in DOMAIN rows : rows[id] = "uploading" => id \in taken \cup dropped \/ InHands(id)

\* A finished recording is tried: it is uploaded and gone, or marked as failed, unless a
\* tab was closed or its end fell into another upload of the panel (passed), after which
\* nobody takes it up.
FinishedIsTried ==
    \A id \in Ids : (id \in DOMAIN rows /\ Row(id) = "pending")
        ~> (Row(id) \in {NoRow, "failed"} \/ id \in passed \cup dropped \cup taken)
=============================================================================

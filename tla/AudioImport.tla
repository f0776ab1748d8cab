------------------------------ MODULE AudioImport ------------------------------
(***************************************************************************)
(* The import of audio and its transcription (apps/backend/server.ts): the *)
(* upload handlers, the blobs on disk, the in-memory job queue over the    *)
(* table of jobs, and what a restart does to them.                         *)
(*                                                                         *)
(* Every await is a step boundary: another request, a job, the backfill of *)
(* blobs or the resumption of jobs may go on in between.  The rows of the  *)
(* database and the files survive a crash, nothing else does.              *)
(*                                                                         *)
(* Abstractions.  A content stands for the bytes and their sha256; the     *)
(* request log and the log of provider calls are left out, as nothing      *)
(* reads them; loading, converting and transcribing a recording are one    *)
(* step, which may fail.                                                   *)
(***************************************************************************)
EXTENDS Integers, Sequences, FiniteSets

CONSTANTS
    PartContents,     \* what a part of an upload may hold
    Audio,        \* the contents that detectMedia recognises
    Concurrency,  \* TRANSCRIPTION_CONCURRENCY
    ResumeLimit,  \* jobs that a restart takes up (limit 100)
    FillLimit,    \* blobs that a restart moves to disk (limit 500)
    Parts,        \* the parts of the uploads that are made
    MaxUploads,   \* bound: uploads
    MaxJobs,      \* bound: transcriptions
    MaxImportMishaps    \* bound: deletions, retries, failed statements and crashes

VARIABLES
    media,     \* import_media_blobs: set of [id, content, bytes, key]
    files,     \* keys of the files under DATA_DIR
    jobs,      \* import_media_transcriptions: set of [id, media, source, status]
    dataDir,   \* TRUE: the process has a DATA_DIR
    requests,   \* requests in the handler: id -> [left, step, media]
    unlinks,   \* keys whose rows are gone and whose files are not yet
    queue,     \* transcriptionQueue
    running,   \* runningTranscriptionIds -> [step, ok]
    active,    \* activeTranscriptionJobs
    resume,    \* resumeQueuedTranscriptionJobs: [step, rows]
    fill,      \* backfillMediaBlobStorage: [step, rows], rows a set of rows of media
    imported,      \* uploads, rows of media and jobs made so far
    importMishaps,
    abandoned, \* history: jobs that this process gave up, or did not take up at its start
    crossed    \* history: contents that were uploaded while their file was being deleted

jobVars == <<queue, running, active>>
memVars == <<requests, unlinks, queue, running, active, resume, fill>>
importVars ==
    <<media, files, jobs, dataDir, memVars, imported, importMishaps, abandoned, crossed>>

None == <<>>
Ended == {"completed", "failed"}

\* Something goes wrong, or somebody asks for more, at most
\* MaxImportMishaps times.
ImportMishap == importMishaps < MaxImportMishaps /\ importMishaps' = importMishaps + 1

\* What a restart begins with.
Started(step) == [step |-> step, rows |-> <<>>]
FillAt(step, rows) == [step |-> step, rows |-> rows]

ImportInit ==
    /\ media = {} /\ files = {} /\ jobs = {}
    /\ dataDir \in BOOLEAN
    /\ requests = <<>> /\ unlinks = {}
    /\ queue = <<>> /\ running = <<>> /\ active = 0
    /\ resume = Started("update") /\ fill = FillAt("select", {})
    /\ imported = [uploads |-> 0, media |-> 0, jobs |-> 0]
    /\ importMishaps = 0
    /\ abandoned = {} /\ crossed = {}

----------------------------------------------------------------------------
(* Blobs *)

\* The namespace of an upload differs from that of the backfill.
UploadKey(c) == <<"import-media", c>>
FillKey(c) == <<"import-audio", c>>

RowOf(c) == {m \in media : m.content = c}

\* A file that is written, and one that a row still names.
Reachable(m) == m.key \in files \/ m.bytes

\* The altered form: only the bytes are taken.
MergedBytes(old, new) == [old EXCEPT !.bytes = new.bytes]

\* on conflict (sha256) do update: what the row has is kept, what it lacks is taken.
Merged(old, new) ==
    [id |-> old.id, content |-> old.content, bytes |-> old.bytes \/ new.bytes,
     key |-> IF old.key = None THEN new.key ELSE old.key]

----------------------------------------------------------------------------
(* The job queue *)

RunAt(step, ok, blob) == [step |-> step, ok |-> ok, blob |-> blob]

\* drainTranscriptionQueue, once queue, running and active are q, r and n.
Drain(q, r, n) ==
    LET todo == SelectSeq(q, LAMBDA j : j \notin DOMAIN r)
        free == Concurrency - n
        take == IF Len(todo) < free THEN Len(todo) ELSE free
        new == {todo[i] : i \in 1..take}
    IN  /\ queue' = SubSeq(todo, take + 1, Len(todo))
        /\ running' = [j \in DOMAIN r \cup new |->
                          IF j \in new THEN RunAt("select", TRUE, None) ELSE r[j]]
        /\ active' = n + take

\* enqueueAudioTranscription for each of the jobs, in order.
Enqueue(ids) ==
    LET fresh == SelectSeq(ids, LAMBDA j : j \notin DOMAIN running
                                           /\ \A i \in DOMAIN queue : queue[i] # j)
    IN  Drain(queue \o fresh, running, active)

\* The altered form: the next job waits for somebody to enqueue another.
LeaveQuietly(j) ==
    /\ running' = [i \in DOMAIN running \ {j} |-> running[i]]
    /\ active' = active - 1
    /\ queue' = queue

\* The finally of a job: its place is given to the next one.
Leave(j) == Drain(queue, [i \in DOMAIN running \ {j} |-> running[i]], active - 1)

Job(j) == CHOOSE k \in jobs : k.id = j
Known(j) == \E k \in jobs : k.id = j
WithStatus(k, s) == [id |-> k.id, media |-> k.media, source |-> k.source, status |-> s]
SetStatus(js, j, s) == {IF k.id = j THEN WithStatus(k, s) ELSE k : k \in js}

\* insert into import_media_transcriptions
NewJob(m, source) ==
    [id |-> imported.jobs + 1, media |-> m, source |-> source, status |-> "queued"]

----------------------------------------------------------------------------
(* ingestImportMedia: the parts of an upload, one after the other *)

Enter(step, u) == u \in DOMAIN requests /\ requests[u].step = step
Part(u) == Head(requests[u].left)
RequestAt(left, step, m) == [left |-> left, step |-> step, media |-> m]
Goto(u, step) == requests' = [requests EXCEPT ![u] = RequestAt(@.left, step, @.media)]
Finished(u) == [v \in DOMAIN requests \ {u} |-> requests[v]]

\* The next part, or the response.
NextPart(u) ==
    requests' = IF Len(requests[u].left) = 1 THEN Finished(u)
               ELSE [requests EXCEPT ![u] = RequestAt(Tail(@.left), "store", @.media)]

Upload(parts) ==
    /\ imported.uploads < MaxUploads
    /\ imported' = [imported EXCEPT !.uploads = @ + 1]
    /\ requests' = [u \in DOMAIN requests \cup {imported.uploads + 1} |->
           IF u \in DOMAIN requests THEN requests[u]
           ELSE RequestAt(parts, "store", 0)]
    /\ UNCHANGED <<media, files, jobs, dataDir, unlinks, jobVars, resume, fill, importMishaps,
                   abandoned, crossed>>

\* detectMedia and storeBlob; a part that is not audio is passed over.
Store(u) ==
    LET c == Part(u)  k == UploadKey(c)
    IN  /\ Enter("store", u)
        /\ IF c \in Audio THEN Goto(u, "insert") ELSE NextPart(u)
        /\ files' = IF c \in Audio /\ dataDir THEN files \cup {k} ELSE files
        /\ crossed' = IF c \notin Audio \/ ~dataDir THEN crossed
                      ELSE IF k \in unlinks THEN crossed \cup {c} ELSE crossed \ {c}
        /\ UNCHANGED <<media, jobs, dataDir, unlinks, jobVars, resume, fill, imported,
                       importMishaps, abandoned>>

InsertMedia(u) ==
    LET c == Part(u)
        new == [id |-> imported.media + 1, content |-> c, bytes |-> ~dataDir,
                key |-> IF dataDir THEN UploadKey(c) ELSE None]
        row == IF RowOf(c) = {} THEN new ELSE Merged(CHOOSE m \in RowOf(c) : TRUE, new)
    IN  /\ Enter("insert", u)
        /\ media' = (media \ RowOf(c)) \cup {row}
        /\ imported' = IF RowOf(c) = {} THEN [imported EXCEPT !.media = @ + 1] ELSE imported
        /\ requests' = [requests EXCEPT ![u] = RequestAt(@.left, "auto", row.id)]
        /\ UNCHANGED <<files, jobs, dataDir, unlinks, jobVars, resume, fill, importMishaps,
                       abandoned, crossed>>

\* ensureAutoAudioTranscription: nothing to do when an automatic job is there.
LookForJob(u) ==
    /\ Enter("auto", u)
    /\ IF \E k \in jobs : k.media = requests[u].media /\ k.source = "auto" /\ k.status # "failed"
       THEN NextPart(u) ELSE Goto(u, "job")
    /\ UNCHANGED <<media, files, jobs, dataDir, unlinks, jobVars, resume, fill, imported,
                   importMishaps, abandoned, crossed>>

\* createAudioTranscription and enqueueAudioTranscription
CreateJob(m, source) ==
    /\ imported.jobs < MaxJobs
    /\ jobs' = jobs \cup {NewJob(m, source)}
    /\ Enqueue(<<imported.jobs + 1>>)

\* The audio may have been deleted meanwhile, and the request fails.
CreateAuto(u) ==
    LET m == requests[u].media
    IN  /\ Enter("job", u)
        /\ IF \E row \in media : row.id = m
           THEN /\ CreateJob(m, "auto") /\ NextPart(u)
                /\ imported' = [imported EXCEPT !.jobs = @ + 1]
           ELSE requests' = Finished(u) /\ UNCHANGED <<jobs, jobVars, imported>>
        /\ UNCHANGED <<media, files, dataDir, unlinks, resume, fill, importMishaps, abandoned,
                       crossed>>

\* A statement of the handler fails: the response is a 500, what is stored stays.
UploadFails(u) ==
    /\ u \in DOMAIN requests /\ ImportMishap
    /\ requests' = Finished(u)
    /\ UNCHANGED <<media, files, jobs, dataDir, unlinks, jobVars, resume, fill, imported,
                   abandoned, crossed>>

----------------------------------------------------------------------------
(* The other requests *)

\* POST /api/imports/audio/transcriptions
Retry(m) ==
    /\ m \in media /\ ImportMishap
    /\ CreateJob(m.id, "manual")
    /\ imported' = [imported EXCEPT !.jobs = @ + 1]
    /\ UNCHANGED <<media, files, dataDir, requests, unlinks, resume, fill, abandoned, crossed>>

\* deleteImportedAudio; its jobs go with it, its file later.
DeleteAudio(m) ==
    /\ m \in media /\ ImportMishap
    /\ media' = media \ {m}
    /\ jobs' = {k \in jobs : k.media # m.id}
    /\ unlinks' = IF m.key = None THEN unlinks ELSE unlinks \cup {m.key}
    /\ crossed' = IF \E u \in DOMAIN requests : Enter("insert", u) /\ Part(u) = m.content
                  THEN crossed \cup {m.content} ELSE crossed
    /\ UNCHANGED <<files, dataDir, requests, jobVars, resume, fill, imported, abandoned>>

\* deleteStoredBlob
Unlink(k) ==
    /\ k \in unlinks
    /\ unlinks' = unlinks \ {k} /\ files' = files \ {k}
    /\ UNCHANGED <<media, jobs, dataDir, requests, jobVars, resume, fill, imported,
                   importMishaps,
                   abandoned, crossed>>

----------------------------------------------------------------------------
(* processAudioTranscription *)

At(j, step) == j \in DOMAIN running /\ running[j].step = step
Step(j, r) == running' = [running EXCEPT ![j] = r] /\ UNCHANGED <<queue, active>>

\* A job that has ended, or is gone, is left alone.
Select(j) ==
    LET row == CHOOSE m \in media : m.id = Job(j).media
    IN  /\ At(j, "select")
        /\ IF Known(j) /\ Job(j).status \notin Ended
           THEN Step(j, RunAt("mark", TRUE, row))
           ELSE Leave(j)
        /\ UNCHANGED <<media, files, jobs, dataDir, requests, unlinks, resume, fill,
                       imported, importMishaps, abandoned, crossed>>

MarkJob(j) ==
    /\ At(j, "mark")
    /\ jobs' = SetStatus(jobs, j, "processing")
    /\ Step(j, RunAt("work", TRUE, running[j].blob))
    /\ UNCHANGED <<media, files, dataDir, requests, unlinks, resume, fill, imported,
                   importMishaps,
                   abandoned, crossed>>

\* loadStoredBlob, convertAudioToMp3 and transcribeWithOpenRouter; the row was read
\* before, the file is read now.
Transcribe(j) ==
    /\ At(j, "work")
    /\ \E ok \in BOOLEAN :
         /\ ok => Reachable(running[j].blob)
         /\ Step(j, RunAt("end", ok, running[j].blob))
    /\ UNCHANGED <<media, files, jobs, dataDir, requests, unlinks, resume, fill, imported,
                   importMishaps, abandoned, crossed>>

End(j) ==
    /\ At(j, "end")
    /\ jobs' = SetStatus(jobs, j, IF running[j].ok THEN "completed" ELSE "failed")
    /\ Leave(j)
    /\ UNCHANGED <<media, files, dataDir, requests, unlinks, resume, fill, imported,
                   importMishaps,
                   abandoned, crossed>>

\* A statement of the job fails.  If it was to store a transcript, the job fails;
\* otherwise nobody writes how it ended.
StatementFails(j) ==
    /\ j \in DOMAIN running /\ running[j].step \in {"select", "mark", "end"}
    /\ ImportMishap
    /\ IF At(j, "end") /\ running[j].ok
       THEN Step(j, RunAt("end", FALSE, running[j].blob)) /\ UNCHANGED abandoned
       ELSE Leave(j) /\ abandoned' = abandoned \cup {j}
    /\ UNCHANGED <<media, files, jobs, dataDir, requests, unlinks, resume, fill, imported,
                   crossed>>

----------------------------------------------------------------------------
(* Restart *)

Waiting == {k.id : k \in {j \in jobs : j.status = "queued"}}
Unended == {k.id : k \in {j \in jobs : j.status \notin Ended}}

\* The lowest n of a set of ids, in order.
Lowest(S, n) ==
    LET Rank(i) == Cardinality({k \in S : k <= i})
        take == IF Cardinality(S) < n THEN Cardinality(S) ELSE n
    IN  [p \in 1..take |-> CHOOSE i \in S : Rank(i) = p]

\* resumeQueuedTranscriptionJobs, while requests are served already.
ResumeUpdate ==
    /\ resume.step = "update"
    /\ jobs' = {IF k.status = "processing" THEN WithStatus(k, "queued") ELSE k : k \in jobs}
    /\ resume' = Started("select")
    /\ UNCHANGED <<media, files, dataDir, requests, unlinks, jobVars, fill, imported,
                   importMishaps,
                   abandoned, crossed>>

\* Those beyond the limit wait for another restart.
ResumeSelect ==
    LET next == Lowest(Waiting, ResumeLimit)
        these == {next[i] : i \in DOMAIN next}
    IN  /\ resume.step = "select"
        /\ resume' = [step |-> "enqueue", rows |-> next]
        /\ abandoned' = abandoned \cup
               (Waiting \ (these \cup DOMAIN running \cup {queue[i] : i \in DOMAIN queue}))
        /\ UNCHANGED <<media, files, jobs, dataDir, requests, unlinks, jobVars, fill,
                       imported, importMishaps, crossed>>

ResumeEnqueue ==
    /\ resume.step = "enqueue"
    /\ Enqueue(resume.rows)
    /\ resume' = Started("done")
    /\ UNCHANGED <<media, files, jobs, dataDir, requests, unlinks, fill, imported,
                   importMishaps,
                   abandoned, crossed>>

ResumeFails ==
    /\ resume.step \in {"update", "select"} /\ ImportMishap
    /\ resume' = Started("done")
    /\ abandoned' = abandoned \cup
           (Unended \ (DOMAIN running \cup {queue[i] : i \in DOMAIN queue}))
    /\ UNCHANGED <<media, files, jobs, dataDir, requests, unlinks, jobVars, fill, imported,
                   crossed>>

\* backfillMediaBlobStorage: the rows without a key, those with the lowest ids.
FillSelect ==
    LET bare == {m \in media : m.bytes /\ m.key = None}
    IN  /\ fill.step = "select"
        /\ fill' = IF dataDir
                   THEN FillAt("store", {m \in bare :
                          Cardinality({n \in bare : n.id <= m.id}) <= FillLimit})
                   ELSE FillAt("done", {})
        /\ UNCHANGED <<media, files, jobs, dataDir, requests, unlinks, jobVars, resume,
                       imported, importMishaps, abandoned, crossed>>

FillsNext(r) == r \in fill.rows /\ \A s \in fill.rows : r.id <= s.id

FillStore ==
    \E r \in fill.rows :
        /\ fill.step = "store" /\ FillsNext(r)
        /\ files' = files \cup {FillKey(r.content)}
        /\ fill' = FillAt("update", fill.rows)
        /\ UNCHANGED <<media, jobs, dataDir, requests, unlinks, jobVars, resume, imported,
                       importMishaps, abandoned, crossed>>

\* The bytes leave the row only with the key that replaces them.
Moved(m, k) ==
    IF m.key = None THEN [id |-> m.id, content |-> m.content, bytes |-> FALSE, key |-> k] ELSE m

FillUpdate ==
    \E r \in fill.rows :
        /\ fill.step = "update" /\ FillsNext(r)
        /\ media' = {IF m.id = r.id THEN Moved(m, FillKey(r.content)) ELSE m : m \in media}
        /\ fill' = FillAt("store", fill.rows \ {r})
        /\ UNCHANGED <<files, jobs, dataDir, requests, unlinks, jobVars, resume, imported,
                       importMishaps, abandoned, crossed>>

\* The process dies and is started again, perhaps with a DATA_DIR at last.
Crash ==
    /\ ImportMishap
    /\ dataDir' \in {dataDir, TRUE}
    /\ requests' = <<>> /\ unlinks' = {}
    /\ queue' = <<>> /\ running' = <<>> /\ active' = 0
    /\ resume' = Started("update") /\ fill' = FillAt("select", {})
    /\ abandoned' = {}
    /\ UNCHANGED <<media, files, jobs, imported, crossed>>

----------------------------------------------------------------------------
ImportNext ==
    \/ \E parts \in Parts : Upload(parts)
    \/ \E u \in DOMAIN requests :
         Store(u) \/ InsertMedia(u) \/ LookForJob(u) \/ CreateAuto(u) \/ UploadFails(u)
    \/ \E m \in media : Retry(m) \/ DeleteAudio(m)
    \/ \E k \in unlinks : Unlink(k)
    \/ \E j \in DOMAIN running :
         Select(j) \/ MarkJob(j) \/ Transcribe(j) \/ End(j) \/ StatementFails(j)
    \/ ResumeUpdate \/ ResumeSelect \/ ResumeEnqueue \/ ResumeFails
    \/ FillSelect \/ FillStore \/ FillUpdate
    \/ Crash

ImportSpec == ImportInit /\ [][ImportNext]_importVars

\* What goes on by itself: a job that has a place, and the resumption.
JobStep(j) == Select(j) \/ MarkJob(j) \/ Transcribe(j) \/ End(j)
ResumeStep == ResumeUpdate \/ ResumeSelect \/ ResumeEnqueue
JobRuns(j) == j \in DOMAIN running /\ JobStep(j)

ImportFairness == WF_importVars(ResumeStep) /\ \A j \in 1..MaxJobs : WF_importVars(JobRuns(j))
ImportFairSpec == ImportSpec /\ ImportFairness

----------------------------------------------------------------------------
(* Properties *)

\* No recording is lost: the bytes of a row are in the row or in the file it names,
\* whatever was deleted, uploaded again or moved to disk, unless an upload of the same
\* content crossed the deletion of its file (getImportedMediaFile, loadStoredBlob).
Playable == \A m \in media : Reachable(m) \/ m.content \in crossed

\* The end of a job is final: neither the resumption of a restart nor a second entry
\* in the queue brings a job that has ended back (processAudioTranscription's select).
EndedJobsStay ==
    [][\A k \in jobs : k.status \in Ended =>
         \A n \in jobs' : n.id = k.id => n.status = k.status]_jobs

\* A job that a process has taken up comes to its end, or goes with its audio, in
\* spite of crashes (resumeQueuedTranscriptionJobs, the finally of the queue).
EveryJobEnds == \A j \in 1..MaxJobs : (j \in Unended) ~> (j \notin Unended \/ j \in abandoned)
============================================================================

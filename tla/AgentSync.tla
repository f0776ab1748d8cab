----------------------------- MODULE AgentSync -----------------------------
(***************************************************************************)
(* The v2 agent's scan (apps/agent/v2) against the backend's append and    *)
(* inventory handlers (apps/backend/sync-engine.ts).                       *)
(*                                                                         *)
(* One agent tails JSONL files that other programs write.  A scan reads    *)
(* each file behind its saved cursor, sends the new lines in chunks, and   *)
(* saves all cursors at the end.  Files change while they are read,        *)
(* requests are retried, arrive late or twice, and the agent dies anywhere.*)
(*                                                                         *)
(* Abstractions.  A file's bytes are its incarnation (a fresh number for   *)
(* every content ever written under the name) and its number of complete   *)
(* lines: line i of incarnation c is <<c, i>>, offsets count lines, and    *)
(* a tail hash is the pair it determines.  Chunk size limits become an     *)
(* arbitrary split; an oversized record is an event like any other.        *)
(***************************************************************************)
EXTENDS Integers, FiniteSets

CONSTANTS
    Files,        \* source files under the scanned roots
    ReusesInodes, \* TRUE: the file system may give a new file a freed inode number
    Edits,        \* what writers do beside appending: "rotate", "rewrite", "delete"
    LosesState,   \* TRUE: the agent's state file may be found corrupt
    MaxLines,     \* bound: lines in a file
    MaxIncs,      \* bound: incarnations of a file
    MaxFaults,    \* bound: crashes, failed requests and state losses
    MaxAttempts   \* attempts fetchWithRetry makes (8 in the code)

ASSUME AgentSyncAssumption ==
    /\ Edits \subseteq {"rotate", "rewrite", "delete"}
    /\ ReusesInodes \in BOOLEAN
    /\ LosesState \in BOOLEAN
    /\ MaxLines \in Nat
    /\ MaxIncs \in Nat
    /\ MaxFaults \in Nat
    /\ MaxAttempts \in Nat \ {0}

VARIABLES
    disk,       \* file -> [ino, inc, len]; inc = 0 when the file does not exist
    incs,       \* file -> incarnations written so far
    cursors,    \* the state file: file -> cursor or NoCursor
    pc,         \* where the scan is: "idle", "read", "inventory", "upload"
    uploadsOn,  \* policy.uploadsEnabled of this scan
    toRead,     \* inventory files the scan has still to read
    missing,    \* cursor files the scan found deleted (deletedInventoryFiles)
    reading,    \* the readAppendJsonl call in progress, or NoRead
    batches,    \* file -> TailBatch read by this scan, or NoBatch
    sent,       \* file -> lines of its batch the server has acknowledged
    waiting,    \* the request awaiting its response, or NoRequest
    net,        \* requests the server may still process
    source,     \* agent_source_files: file -> [known, gen, deleted]
    chunks,     \* agent_raw_chunks: file -> set of [gen, from, to, inc]
    events,     \* agent_normalized_events: file -> set of event rows
    ackCursor,  \* agent_sync_cursors, scope append: file -> [gen, off]
    revision,   \* sync_event_revision_seq
    faults      \* faults so far

fsVars == <<disk, incs>>
scanVars == <<pc, uploadsOn, toRead, missing, reading, batches, sent, waiting>>
serverVars == <<source, chunks, events, ackCursor, revision>>
vars == <<fsVars, cursors, scanVars, net, serverVars, faults>>

----------------------------------------------------------------------------
(* Data *)

NoCursor  == [gen |-> 0, off |-> 0, ino |-> 0, tail |-> <<0, 0>>]
NoTail    == <<0, 0>>
NoRead    == [stage |-> "none"]
NoBatch   == [gen |-> 0]
NoRequest == [kind |-> "none"]

AbsentFile == [ino |-> 0, inc |-> 0, len |-> 0]
Present(f) == disk[f].inc # 0

Least(a, b) == IF a <= b THEN a ELSE b

\* The hash readTailBeforeOffset gives now: what the content holds before off.
TailHash(f, off) == <<disk[f].inc, Least(disk[f].len, off)>>

\* The altered form: size and tail decide, without the inode.
ResetWithoutInode(f, c) ==
    /\ c # NoCursor
    /\ \/ disk[f].len < c.off
       \/ c.off > 0 /\ c.tail # NoTail /\ disk[f].len > 0 /\ TailHash(f, c.off) # c.tail

\* shouldResetCursor: the saved cursor no longer describes the file.
ShouldReset(f, c) ==
    /\ c # NoCursor
    /\ \/ disk[f].len < c.off
       \/ c.ino # disk[f].ino
       \/ /\ c.off > 0
          /\ c.tail # NoTail
          /\ disk[f].len > 0
          /\ TailHash(f, c.off) # c.tail

\* Rows are upserted on their key: (generation, chunk) and (generation, line).
UpsertChunk(old, c) ==
    {o \in old : <<o.gen, o.from, o.to>> # <<c.gen, c.from, c.to>>} \cup {c}
ReplaceEvents(old, new) ==
    {o \in old : \A n \in new : o.gen = n.gen /\ o.idx # n.idx} \cup new
\* An event is known by its generation and line.  Its event_uid holds the byte offset too
\* (upload.ts:247), which differs for one line only if two contents were read under one
\* generation: then the code keeps both events where the model replaces the first.
UpsertEvents(old, new) ==
    {o \in old : \A n \in new : <<o.gen, o.idx>> # <<n.gen, n.idx>>} \cup new

----------------------------------------------------------------------------
Init ==
    /\ disk = [f \in Files |-> AbsentFile]
    /\ incs = [f \in Files |-> 0]
    /\ cursors = [f \in Files |-> NoCursor]
    /\ pc = "idle"
    /\ uploadsOn = FALSE
    /\ toRead = {}
    /\ missing = {}
    /\ reading = NoRead
    /\ batches = [f \in Files |-> NoBatch]
    /\ sent = [f \in Files |-> 0]
    /\ waiting = NoRequest
    /\ net = {}
    /\ source = [f \in Files |-> [known |-> FALSE, gen |-> 0, deleted |-> FALSE]]
    /\ chunks = [f \in Files |-> {}]
    /\ events = [f \in Files |-> {}]
    /\ ackCursor = [f \in Files |-> [gen |-> 0, off |-> 0]]
    /\ revision = 0
    /\ faults = 0

----------------------------------------------------------------------------
(* The programs that write the files *)

WriteFile(f, ino, len) ==
    /\ incs[f] < MaxIncs
    /\ incs' = [incs EXCEPT ![f] = @ + 1]
    /\ disk' = [disk EXCEPT ![f] = [ino |-> ino, inc |-> incs[f] + 1, len |-> len]]
    /\ UNCHANGED <<cursors, scanVars, net, serverVars, faults>>

\* Inode numbers a new file may get.
NewInodes(f) == IF ReusesInodes THEN 1..MaxIncs ELSE {incs[f] + 1}

Create(f) == ~Present(f) /\ \E ino \in NewInodes(f) : WriteFile(f, ino, 0)

\* A new file is renamed over the old one.
Rotate(f) ==
    /\ "rotate" \in Edits /\ Present(f)
    /\ \E ino \in NewInodes(f) \ {disk[f].ino}, len \in 0..MaxLines : WriteFile(f, ino, len)

\* The file is truncated and written again.
Rewrite(f) ==
    /\ "rewrite" \in Edits /\ Present(f)
    /\ \E len \in 0..MaxLines : WriteFile(f, disk[f].ino, len)

AppendLine(f) ==
    /\ Present(f) /\ disk[f].len < MaxLines
    /\ disk' = [disk EXCEPT ![f].len = @ + 1]
    /\ UNCHANGED <<incs, cursors, scanVars, net, serverVars, faults>>

Delete(f) ==
    /\ "delete" \in Edits /\ Present(f)
    /\ disk' = [disk EXCEPT ![f] = AbsentFile]
    /\ UNCHANGED <<incs, cursors, scanVars, net, serverVars, faults>>

----------------------------------------------------------------------------
(* The scan *)

\* The scan ends and its memory is gone: normally, by an exception that
\* runAgentV2 logs before it sleeps, or because the process died.
Forget ==
    /\ pc' = "idle"
    /\ uploadsOn' = FALSE
    /\ toRead' = {}
    /\ missing' = {}
    /\ reading' = NoRead
    /\ batches' = [f \in Files |-> NoBatch]
    /\ sent' = [f \in Files |-> 0]
    /\ waiting' = NoRequest

\* loadAgentV2State, fetchServerSyncPolicy and scanInventoryWithStatus.  A hello
\* that fails or times out leaves the default policy, with uploads disabled.  An
\* incomplete walk (seen # present files) is not authoritative: no tombstones.
StartScan ==
    /\ pc = "idle"
    /\ \E on, authoritative \in BOOLEAN, seen \in SUBSET {f \in Files : Present(f)} :
        /\ authoritative => seen = {f \in Files : Present(f)}
        /\ uploadsOn' = on
        /\ toRead' = seen
        /\ missing' = IF authoritative
                      THEN {f \in Files \ seen : cursors[f] # NoCursor}
                      ELSE {}
    /\ pc' = "read"
    /\ UNCHANGED <<fsVars, cursors, reading, batches, sent, waiting, net, serverVars, faults>>

\* A finished readAppendJsonl: the batch holds lines from + 1 .. to.
Batch(f, gen, from, to, inc, ino, tail) ==
    /\ batches' = [batches EXCEPT ![f] =
           [gen |-> gen, to |-> to, inc |-> inc, ino |-> ino, tail |-> tail]]
    /\ sent' = [sent EXCEPT ![f] = from]
    /\ toRead' = toRead \ {f}
    /\ reading' = NoRead

\* stat and shouldResetCursor: where to read from, and whether there is anything.  The
\* code stats the file and then opens it for the tail its cursor remembers
\* (cursor.ts:17-18, 108): a file that is replaced between the two is left out.
StatFile(f) ==
    /\ pc = "read" /\ reading = NoRead /\ f \in toRead /\ Present(f)
    /\ LET c == cursors[f]
           reset == ShouldReset(f, c)
           gen  == IF c = NoCursor THEN 1 ELSE IF reset THEN c.gen + 1 ELSE c.gen
           from == IF reset THEN 0 ELSE c.off
           tail == IF reset THEN NoTail ELSE c.tail
       IN  IF disk[f].len <= from
           THEN Batch(f, gen, from, from, disk[f].inc, disk[f].ino, tail)
           ELSE /\ reading' = [stage |-> "open", file |-> f, gen |-> gen, from |-> from,
                               to |-> disk[f].len, inc |-> disk[f].inc,
                               ino |-> disk[f].ino, tail |-> tail]
                /\ UNCHANGED <<batches, sent, toRead>>
    /\ UNCHANGED <<fsVars, cursors, pc, uploadsOn, missing, waiting, net, serverVars, faults>>

\* open and readThroughNewline: never past the size stat reported, and only as
\* far as one read window with a newline in it.
ReadLines ==
    /\ reading.stage = "open" /\ Present(reading.file)
    /\ LET f == reading.file
           avail == Least(reading.to, disk[f].len)
       IN  IF avail <= reading.from
           THEN Batch(f, reading.gen, reading.from, reading.from,
                      disk[f].inc, reading.ino, reading.tail)
           ELSE /\ \E to \in (reading.from + 1)..avail :
                      reading' = [reading EXCEPT !.stage = "tail", !.to = to,
                                                 !.inc = disk[f].inc]
                /\ UNCHANGED <<batches, sent, toRead>>
    /\ UNCHANGED <<fsVars, cursors, pc, uploadsOn, missing, waiting, net, serverVars, faults>>

\* The next cursor's tail hash comes from opening the file once more.
ReadTail ==
    /\ reading.stage = "tail" /\ Present(reading.file)
    /\ Batch(reading.file, reading.gen, reading.from, reading.to, reading.inc,
             reading.ino, TailHash(reading.file, reading.to))
    /\ UNCHANGED <<fsVars, cursors, pc, uploadsOn, missing, waiting, net, serverVars, faults>>

\* A file listed in the inventory is gone when it is read: the whole scan fails.
FileVanished ==
    /\ pc = "read"
    /\ \/ reading # NoRead /\ ~Present(reading.file)
       \/ reading = NoRead /\ \E f \in toRead : ~Present(f)
    /\ Forget
    /\ UNCHANGED <<fsVars, cursors, net, serverVars, faults>>

\* planUploadChunks, and the early return when the policy disables uploads:
\* the state is saved as it was loaded.
PlanUpload ==
    /\ pc = "read" /\ toRead = {} /\ reading = NoRead
    /\ IF uploadsOn
       THEN /\ pc' = IF missing = {} THEN "upload" ELSE "inventory"
            /\ UNCHANGED <<uploadsOn, toRead, missing, reading, batches, sent, waiting>>
       ELSE Forget
    /\ UNCHANGED <<fsVars, cursors, net, serverVars, faults>>

Send(r) == waiting' = r /\ net' = net \cup {r}

\* uploadAgentV2Inventory comes before any chunk, and only with tombstones.
SendInventory ==
    /\ pc = "inventory" /\ waiting = NoRequest
    /\ Send([kind |-> "inventory", files |-> missing, attempt |-> 1])
    /\ UNCHANGED <<fsVars, cursors, pc, uploadsOn, toRead, missing, reading, batches, sent,
                   serverVars, faults>>

\* executeUploadPlan: one chunk at a time, each file's lines in order.
SendChunk(f) ==
    /\ pc = "upload" /\ waiting = NoRequest
    /\ batches[f] # NoBatch /\ sent[f] < batches[f].to
    /\ \E to \in (sent[f] + 1)..batches[f].to :
          Send([kind |-> "append", file |-> f, gen |-> batches[f].gen, from |-> sent[f],
                to |-> to, inc |-> batches[f].inc, attempt |-> 1])
    /\ UNCHANGED <<fsVars, cursors, pc, uploadsOn, toRead, missing, reading, batches, sent,
                   serverVars, faults>>

MayRetry(r) == r.attempt < MaxAttempts

\* fetchWithRetry sees an attempt fail; the request may be lost, or still on its
\* way to a server that will process it.  The last attempt ends the scan.
RequestFails ==
    /\ waiting # NoRequest /\ faults < MaxFaults
    /\ faults' = faults + 1
    /\ \E left \in {net, net \ {waiting}} :
         IF MayRetry(waiting)
         THEN LET again == [waiting EXCEPT !.attempt = @ + 1]
              IN  /\ waiting' = again
                  /\ net' = left \cup {again}
                  /\ UNCHANGED <<pc, uploadsOn, toRead, missing, reading, batches, sent>>
         ELSE Forget /\ net' = left
    /\ UNCHANGED <<fsVars, cursors, serverVars>>

\* Every planned chunk is acknowledged; the altered form does not wait for them.
SomeSent == TRUE
AllSent == \A f \in Files : batches[f] # NoBatch => sent[f] = batches[f].to

\* The new cursors replace the state file in one rename.
SaveState ==
    /\ pc = "upload" /\ waiting = NoRequest
    /\ AllSent
    /\ cursors' = [f \in Files |->
         IF batches[f] # NoBatch
         THEN [gen |-> batches[f].gen, off |-> batches[f].to,
               ino |-> batches[f].ino, tail |-> batches[f].tail]
         ELSE IF f \in missing THEN NoCursor ELSE cursors[f]]
    /\ Forget
    /\ UNCHANGED <<fsVars, net, serverVars, faults>>

\* The agent process dies and is started again.
Crash ==
    /\ pc # "idle" /\ faults < MaxFaults
    /\ faults' = faults + 1
    /\ Forget
    /\ UNCHANGED <<fsVars, cursors, net, serverVars>>

\* backupCorruptState: the agent keeps its identity and forgets every cursor.
LoseState ==
    /\ LosesState /\ pc = "idle" /\ faults < MaxFaults
    /\ faults' = faults + 1
    /\ cursors' = [f \in Files |-> NoCursor]
    /\ UNCHANGED <<fsVars, scanVars, net, serverVars>>

----------------------------------------------------------------------------
(* The backend *)

\* upsertSourceFile: generations only grow, and only a greater generation
\* takes a tombstone away.
UpsertSource(s, gen, deleted) ==
    [known   |-> TRUE,
     gen     |-> IF s.gen < gen THEN gen ELSE s.gen,
     deleted |-> deleted \/ (s.deleted /\ gen <= s.gen)]

\* The response to the attempt the agent is waiting for.
Reply(r) == waiting' = IF waiting = r THEN NoRequest ELSE waiting

\* handleAgentAppend, one transaction; a row of events keeps its key and takes
\* the new content, chunk and revision.
HandleAppend(r) ==
    /\ r.kind = "append"
    /\ LET f == r.file
           new == {[gen |-> r.gen, idx |-> i, inc |-> r.inc, chunk |-> <<r.from, r.to>>,
                    rev |-> revision + (i - r.from)] : i \in (r.from + 1)..r.to}
       IN  /\ source' = [source EXCEPT ![f] = UpsertSource(@, r.gen, FALSE)]
           /\ chunks' = [chunks EXCEPT ![f] = UpsertChunk(@,
                  [gen |-> r.gen, from |-> r.from, to |-> r.to, inc |-> r.inc])]
           /\ events' = [events EXCEPT ![f] = UpsertEvents(@, new)]
           /\ ackCursor' = [ackCursor EXCEPT ![f] = [gen |-> r.gen, off |-> r.to]]
           /\ revision' = revision + (r.to - r.from)
           /\ sent' = IF waiting = r THEN [sent EXCEPT ![f] = r.to] ELSE sent
    /\ net' = net \ {r}
    /\ Reply(r)
    /\ UNCHANGED <<fsVars, cursors, pc, uploadsOn, toRead, missing, reading, batches, faults>>

\* handleAgentInventory, tombstones only; their generation defaults to 1.
HandleInventory(r) ==
    /\ r.kind = "inventory"
    /\ source' = [f \in Files |->
         IF f \in r.files THEN UpsertSource(source[f], 1, TRUE) ELSE source[f]]
    /\ pc' = IF waiting = r THEN "upload" ELSE pc
    /\ net' = net \ {r}
    /\ Reply(r)
    /\ UNCHANGED <<fsVars, cursors, uploadsOn, toRead, missing, reading, batches, sent,
                   chunks, events, ackCursor, revision, faults>>

----------------------------------------------------------------------------
WriterStep == \E f \in Files :
    Create(f) \/ Rotate(f) \/ Rewrite(f) \/ AppendLine(f) \/ Delete(f)

AgentStep ==
    \/ StartScan
    \/ \E f \in Files : StatFile(f)
    \/ ReadLines
    \/ ReadTail
    \/ FileVanished
    \/ PlanUpload
    \/ SendInventory
    \/ \E f \in Files : SendChunk(f)
    \/ SaveState

ServerStep == \E r \in net : HandleAppend(r) \/ HandleInventory(r)

Fault == RequestFails \/ Crash \/ LoseState

Next == WriterStep \/ AgentStep \/ ServerStep \/ Fault

Spec == Init /\ [][Next]_vars

----------------------------------------------------------------------------
(* Properties *)

Cursors  == [gen : Nat, off : Nat, ino : Nat, tail : Nat \X Nat]
Requests ==
    {r \in [kind : {"append"}, file : Files, gen : Nat, from : Nat, to : Nat, inc : Nat,
            attempt : 1..MaxAttempts] : r.from < r.to}
    \cup [kind : {"inventory"}, files : SUBSET Files, attempt : 1..MaxAttempts]

Readings ==
    [stage : {"open", "tail"}, file : Files, gen : Nat, from : Nat, to : Nat, inc : Nat,
     ino : Nat, tail : Nat \X Nat]
Batches   == [gen : Nat, to : Nat, inc : Nat, ino : Nat, tail : Nat \X Nat]
ChunkRows == [gen : Nat, from : Nat, to : Nat, inc : Nat]
EventRows == [gen : Nat, idx : Nat, inc : Nat, chunk : Nat \X Nat, rev : Nat]

TypeOK ==
    /\ disk \in [Files -> [ino : Nat, inc : Nat, len : Nat]]
    /\ incs \in [Files -> 0..MaxIncs]
    /\ cursors \in [Files -> Cursors]
    /\ pc \in {"idle", "read", "inventory", "upload"}
    /\ uploadsOn \in BOOLEAN
    /\ toRead \subseteq Files
    /\ missing \subseteq Files
    /\ reading = NoRead \/ reading \in Readings
    /\ batches \in [Files -> {NoBatch} \cup Batches]
    /\ sent \in [Files -> Nat]
    /\ waiting = NoRequest \/ waiting \in Requests
    /\ net \subseteq Requests
    /\ source \in [Files -> [known : BOOLEAN, gen : Nat, deleted : BOOLEAN]]
    /\ chunks \in [Files -> SUBSET ChunkRows]
    /\ events \in [Files -> SUBSET EventRows]
    /\ ackCursor \in [Files -> [gen : Nat, off : Nat]]
    /\ revision \in Nat
    /\ faults \in 0..MaxFaults

\* The lines 1 .. n of generation gen of file f are all on the server.
Stored(f, gen, n) == \A i \in 1..n : \E e \in events[f] : e.gen = gen /\ e.idx = i

\* "If a request fails ... the agent does not advance local state" (README): the
\* saved cursor never passes a line the server has not committed, whatever is
\* retried, answered late, rewritten meanwhile or lost in a crash.
CursorNeverAhead ==
    \A f \in Files : cursors[f] # NoCursor => Stored(f, cursors[f].gen, cursors[f].off)

\* A file was replaced and, before or after, a request or the agent failed.  Then
\* lines of two contents may be sent under one generation: a scan that dies after
\* an upload was accepted has not saved the generation it has used.
Disturbed(f) == incs[f] > 1 /\ faults > 0

\* When a cursor still describes its file, everything the readers show of the
\* cursor's generation is that file: no line of a replaced content is left over.
VisibleIsFile ==
    \A f \in Files :
        LET c == cursors[f]
        IN  c # NoCursor /\ Present(f) /\ ~ShouldReset(f, c) /\ c.gen = source[f].gen
            /\ ~Disturbed(f) =>
                \A e \in events[f] : e.gen = c.gen =>
                    e.inc = disk[f].inc /\ e.idx <= disk[f].len

\* The readers show a file when it has no tombstone, and of its events those of
\* the current generation (v2-read-model.ts, v3 render views).
ShowsFile(f) ==
    /\ ~source[f].deleted
    /\ \A i \in 1..disk[f].len : \E e \in events[f] :
          e.gen = source[f].gen /\ e.idx = i /\ e.inc = disk[f].inc

\* A file that stays on disk ends up shown with every complete line it has, once
\* its writers pause and requests get through.
EventuallyShown == \A f \in Files : <>[](Present(f) /\ ~Disturbed(f) => ShowsFile(f))

\* The agent polls for ever and the hello sooner or later succeeds over a
\* complete walk; the server works through what it received.  Nothing is assumed
\* of the writers or of the faults, which the bounds make finite.
GoodScan ==
    /\ StartScan
    /\ uploadsOn' = TRUE
    /\ toRead' = {f \in Files : Present(f)}

Fairness ==
    /\ SF_vars(GoodScan)
    /\ WF_vars(AgentStep /\ pc # "idle")
    /\ WF_vars(ServerStep)

FairSpec == Spec /\ Fairness

----------------------------------------------------------------------------
(* The scan and the handlers implement the promise of AckedLog. *)

Log == INSTANCE AckedLog WITH
    stored   <- [f \in Files |-> {<<e.gen, e.idx>> : e \in events[f]}],
    position <- [f \in Files |-> [gen |-> cursors[f].gen, off |-> cursors[f].off]]

\* Every step commits new entries, advances over stored entries only, or changes
\* nothing the promise speaks of; a lost state file only moves positions back.
ImplementsAckedLog == Log!Spec

=============================================================================

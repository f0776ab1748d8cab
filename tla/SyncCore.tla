------------------------------ MODULE SyncCore ------------------------------
(* The library packages/sync-core about files: whether a file has to be read  *)
(* from where it was left or from its start (decideSync), and which records a *)
(* chunk of it gives (planAppendChunk).                                       *)
(*                                                                            *)
(* decideSync and planAppendChunk are in the loop they are made for, over a   *)
(* file that grows and is replaced.  planAppendChunk takes a step for each    *)
(* round of its own loop; it works on a copy of what was read and awaits      *)
(* nothing, so the file does not change between these steps.                  *)
(*                                                                            *)
(* Bytes are strings; a hash is what it hashes.                               *)
EXTENDS Integers, Sequences

CONSTANTS
    Bytes,        \* the bytes of a file; "n" is the newline
    MaxSize,      \* bound: bytes of a file
    MaxChanges,   \* bound: changes of the file
    ReadMax,      \* bytes the caller reads at once
    MaxBytes, MaxRecords, TailBytes   \* the options of planAppendChunk; 0 is no limit

ASSUME CoreAssumption ==
    /\ "n" \in Bytes
    /\ {MaxSize, MaxChanges, ReadMax, MaxBytes, MaxRecords} \subseteq Nat /\ TailBytes \in Nat \ {0}

VARIABLES
    content, id,  \* the file; id: its inode and device, 0: the system tells none
    kept,         \* the SyncCursor the caller keeps, or Unread
    records,      \* the records of its generation, in the order they were emitted
    plan,         \* planAppendChunk under way, or NoPlan
    scanned,      \* history: the content at the last scan
    fooled,       \* history: a prefix was replaced, and neither size, id nor tail shows it
    changes

coreVars == <<content, id, kept, records, plan, scanned, fooled, changes>>

Unread == [generation |-> 0]
NoPlan == [chunk |-> <<>>, tail |-> <<>>, found |-> <<>>, emitted |-> 0]

-----------------------------------------------------------------------------
(* decideSync *)

\* The bytes that the caller hashes to compare: the last ones before the offset.
TailBefore(bytes, offset) ==
    SubSeq(bytes, IF offset > TailBytes THEN offset - TailBytes + 1 ELSE 1, offset)

CursorForStart(generation, stat) ==
    [generation |-> generation, offset |-> 0, lineNo |-> 0, tail |-> <<>>, id |-> stat.id]

\* hasIdentityChanged: an inode or a device that either side does not know says nothing.
Differ(a, b) == a # 0 /\ b # 0 /\ a # b
HasIdentityChanged(c, stat) ==
    \/ Differ(c.id.inode, stat.id.inode)
    \/ c.id.inode # 0 /\ stat.id.inode # 0 /\ Differ(c.id.dev, stat.id.dev)

\* mutant: the tail is not compared
SuspectsBySize(c, stat, tail) == HasIdentityChanged(c, stat) \/ stat.size < c.offset
Suspects(c, stat, tail) ==
    \/ HasIdentityChanged(c, stat)
    \/ stat.size < c.offset
    \/ c.offset > 0 /\ c.tail # <<>> /\ tail # <<>> /\ c.tail # tail

DecideSync(c, stat, tail) ==
    CASE c = Unread -> [kind |-> "snapshot", cursor |-> CursorForStart(1, stat)]
      [] c # Unread /\ Suspects(c, stat, tail) ->
            [kind |-> "snapshot", cursor |-> CursorForStart(c.generation + 1, stat)]
      [] c # Unread /\ ~Suspects(c, stat, tail) ->
            [kind |-> IF stat.size = c.offset THEN "skip" ELSE "append",
             cursor |-> [c EXCEPT !.id = stat.id]]

-----------------------------------------------------------------------------
(* The caller, as the tests use the functions: stat, hash of the tail, decision, a *)
(* chunk from where it starts, plan; the next cursor is kept.                     *)

CoreInit ==
    /\ content = <<>> /\ scanned = <<>> /\ records = <<>> /\ changes = 0 /\ fooled = FALSE
    /\ id \in [inode : {0, 1}, dev : {0, 1}] /\ kept = Unread /\ plan = NoPlan

Begun == kept # Unread
Planning == plan # NoPlan

Scan ==
    LET stat == [size |-> Len(content), id |-> id]
        tail == IF Begun /\ kept.offset <= Len(content)
                THEN TailBefore(content, kept.offset) ELSE <<>>
        decision == DecideSync(kept, stat, tail)
        start == decision.cursor.offset
        end == IF start + ReadMax < Len(content) THEN start + ReadMax ELSE Len(content)
    IN  /\ ~Planning
        /\ kept' = decision.cursor
        /\ records' = IF decision.kind = "snapshot" THEN <<>> ELSE records
        /\ plan' = IF decision.kind = "skip" THEN NoPlan
                   ELSE [chunk |-> SubSeq(content, start + 1, end),
                         tail |-> TailBefore(content, start), found |-> <<>>, emitted |-> 0]
        /\ scanned' = content
        /\ fooled' = (/\ Begun /\ ~HasIdentityChanged(kept, stat)
                      /\ kept.offset <= Len(content)
                      /\ tail = TailBefore(scanned, kept.offset)
                      /\ \/ fooled
                         \/ SubSeq(content, 1, kept.offset) # SubSeq(scanned, 1, kept.offset))
        /\ UNCHANGED <<content, id, changes>>

\* indexOfByte: the newline at position end is the first after what has been emitted.
NextNewline(end) ==
    /\ end \in (plan.emitted + 1)..Len(plan.chunk) /\ plan.chunk[end] = "n"
    /\ \A i \in (plan.emitted + 1)..(end - 1) : plan.chunk[i] # "n"

\* planAppendChunk goes round its loop once more, for the record that ends at position end.
GoesOn(end) ==
    /\ NextNewline(end)
    /\ MaxRecords > 0 => Len(plan.found) < MaxRecords
    /\ MaxBytes > 0 => end <= MaxBytes /\ plan.emitted < MaxBytes

TakeRecord(end) ==
    /\ Planning /\ GoesOn(end)
    /\ plan' = [plan EXCEPT
          !.found = Append(@, [offset |-> kept.offset + plan.emitted,
                               lineNo |-> kept.lineNo + Len(@) + 1,
                               text |-> SubSeq(plan.chunk, plan.emitted + 1, end - 1)]),
          !.emitted = end]
    /\ UNCHANGED <<content, id, kept, records, scanned, fooled, changes>>

\* The loop has ended: the records, and nextCursorCandidate (none: the cursor stays).
EndPlan ==
    LET merged == plan.tail \o SubSeq(plan.chunk, 1, plan.emitted) IN
    /\ Planning /\ \A end \in DOMAIN plan.chunk : ~GoesOn(end)
    /\ records' = records \o plan.found
    /\ kept' = IF plan.emitted = 0 THEN kept
               ELSE [kept EXCEPT !.offset = @ + plan.emitted, !.lineNo = @ + Len(plan.found),
                                 !.tail = TailBefore(merged, Len(merged))]
    /\ plan' = NoPlan
    /\ UNCHANGED <<content, id, scanned, fooled, changes>>

\* The file grows by a byte, or is replaced: in place, or by another file.
Changes ==
    /\ ~Planning
    /\ changes < MaxChanges /\ changes' = changes + 1
    /\ \/ \E b \in Bytes : Len(content) < MaxSize /\ content' = Append(content, b) /\ UNCHANGED id
       \/ \E n \in 0..Len(content) : content' = SubSeq(content, 1, n) /\ UNCHANGED id
       \/ \E b \in Bytes : \E i \in DOMAIN content :
             content' = [content EXCEPT ![i] = b] /\ UNCHANGED id
       \/ \E part \in {"inode", "dev"} :
             id[part] # 0 /\ id' = [id EXCEPT ![part] = 3 - @] /\ UNCHANGED content
    /\ UNCHANGED <<kept, records, plan, scanned, fooled>>

CoreNext ==
    \/ Scan \/ EndPlan \/ Changes
    \/ \E end \in DOMAIN plan.chunk : TakeRecord(end)

CoreSpec == CoreInit /\ [][CoreNext]_coreVars

-----------------------------------------------------------------------------
(* Properties *)

\* Where a record's line ends: after its text there is the newline.
EndOf(r) == r.offset + Len(r.text) + 1

\* A record is a line of these bytes, and one line only.
IsLine(r, bytes) ==
    /\ EndOf(r) <= Len(bytes) /\ bytes[EndOf(r)] = "n"
    /\ \A i \in DOMAIN r.text : r.text[i] = bytes[r.offset + i] /\ r.text[i] # "n"

\* The records are all the lines of these bytes from one place to another, each once and in
\* their order, numbered from the one after n.
AreLines(recs, bytes, from, to, n) ==
    /\ \A k \in DOMAIN recs :
          /\ IsLine(recs[k], bytes) /\ recs[k].lineNo = n + k
          /\ recs[k].offset = IF k = 1 THEN from ELSE EndOf(recs[k - 1])
    /\ to = IF recs = <<>> THEN from ELSE EndOf(recs[Len(recs)])

\* However the file grows, shrinks or is replaced between scans, and wherever reads and
\* limits cut it: the records of a generation are the complete lines before its offset,
\* each once, with its number and place.  A replaced file that keeps its id, is not
\* shorter than the offset and has the same tail goes unseen (decideSync cannot tell).
RecordsAreLines ==
    Begun /\ ~fooled =>
        AreLines(records, scanned, 0, kept.offset, 0) /\ kept.lineNo = Len(records)
=============================================================================

-------------------------- MODULE AgentSync_proofs --------------------------
(***************************************************************************)
(* For any files, bounds and faults: the scan and the handlers keep their  *)
(* types, the saved cursor never passes what the server has committed, the *)
(* detailed specification implements AckedLog, and the server has only     *)
(* lines that the files have held.  For files that are appended to and     *)
(* rotated, what is shown of a file is the file.  The library comes first: *)
(* the records that it gives of any file are its lines, and what it says   *)
(* of a path is what the rules say, read as they are written.              *)
(***************************************************************************)
EXTENDS AgentSync, SyncCore, Policy, SequenceTheorems, FiniteSetTheorems, WellFoundedInduction, TLAPS

----------------------------------------------------------------------------
(* SyncCore: the records are the lines of the file.                        *)

SyncCursors == [generation : Nat \ {0}, offset : Nat, lineNo : Nat, tail : Seq(Bytes),
                id : [inode : 0..2, dev : 0..2]]
Records == [offset : Nat, lineNo : Nat, text : Seq(Bytes)]
Plans == [chunk : Seq(Bytes), tail : Seq(Bytes), found : Seq(Records), emitted : Nat]

CoreType ==
    /\ content \in Seq(Bytes) /\ scanned \in Seq(Bytes)
    /\ id \in [inode : 0..2, dev : 0..2]
    /\ kept \in SyncCursors \cup {Unread} /\ records \in Seq(Records)
    /\ plan \in Plans
    /\ fooled \in BOOLEAN /\ changes \in Nat

\* No record reaches beyond this place.
Within(recs, to) == \A k \in DOMAIN recs : EndOf(recs[k]) <= to

\* The cursor is a place in what was scanned last, with the tail before it.
SyncCursorFits ==
    IF Begun THEN kept.offset <= Len(scanned) /\ kept.tail = TailBefore(scanned, kept.offset)
    ELSE records = <<>> /\ ~Planning

\* A chunk is what follows the cursor, and what was found in it are lines.
PlanFits ==
    Planning =>
        /\ plan.emitted <= Len(plan.chunk)
        /\ kept.offset + Len(plan.chunk) <= Len(scanned)
        /\ \A i \in DOMAIN plan.chunk : plan.chunk[i] = scanned[kept.offset + i]
        /\ plan.tail = TailBefore(scanned, kept.offset)
        /\ Within(plan.found, kept.offset + plan.emitted)
        /\ AreLines(plan.found, scanned, kept.offset, kept.offset + plan.emitted, kept.lineNo)

RecordsWithin == Begun /\ ~fooled => Within(records, kept.offset)

CoreInv == CoreType /\ SyncCursorFits /\ PlanFits /\ RecordsWithin /\ RecordsAreLines

TailLen(o) == IF o > TailBytes THEN TailBytes ELSE o

\* t is the n bytes before place o.
Before(t, bytes, o, n) ==
    /\ t \in Seq(Bytes) /\ Len(t) = n
    /\ \A i \in 1..n : t[i] = bytes[o - n + i]

LEMMA PartIsBefore ==
    ASSUME NEW bytes \in Seq(Bytes), NEW o \in 0..Len(bytes), NEW m \in 1..(o + 1)
    PROVE  Before(SubSeq(bytes, m, o), bytes, o, o - m + 1)
<1>1. m \in Int /\ o \in Int /\ Len(bytes) \in Nat
  BY LenProperties
<1>2. \A i \in m..o : bytes[i] \in Bytes
  BY <1>1, ElementOfSeq
<1>3. /\ SubSeq(bytes, m, o) \in Seq(Bytes)
      /\ Len(SubSeq(bytes, m, o)) = IF m <= o THEN o - m + 1 ELSE 0
      /\ \A i \in 1..(o - m + 1) : SubSeq(bytes, m, o)[i] = bytes[m + i - 1]
  BY <1>1, <1>2, SubSeqProperties
<1>4. Len(SubSeq(bytes, m, o)) = o - m + 1
  BY <1>1, <1>3
<1>5. \A i \in 1..(o - m + 1) : m + i - 1 = o - (o - m + 1) + i
  BY <1>1
<1> QED BY <1>3, <1>4, <1>5 DEF Before

LEMMA TailLenFits ==
    ASSUME CoreAssumption, NEW o \in Nat
    PROVE  /\ TailLen(o) \in Nat /\ TailLen(o) <= o
           /\ \A e \in Nat : TailLen(o + e) = TailLen(TailLen(o) + e)
BY DEF CoreAssumption, TailLen

LEMMA TailOf ==
    ASSUME CoreAssumption, NEW bytes \in Seq(Bytes), NEW o \in 0..Len(bytes)
    PROVE  Before(TailBefore(bytes, o), bytes, o, TailLen(o))
<1>1. o \in Nat /\ TailBytes \in Nat
  BY LenProperties DEF CoreAssumption
<1>2. TailLen(o) \in Nat /\ TailLen(o) <= o
  BY <1>1, TailLenFits
<1>3. o - TailLen(o) + 1 \in 1..(o + 1) /\ o - (o - TailLen(o) + 1) + 1 = TailLen(o)
  BY <1>1, <1>2
<1>4. TailBefore(bytes, o) = SubSeq(bytes, o - TailLen(o) + 1, o)
  BY <1>1 DEF TailBefore, TailLen
<1>5. Before(SubSeq(bytes, o - TailLen(o) + 1, o), bytes, o, o - (o - TailLen(o) + 1) + 1)
  BY <1>3, PartIsBefore
<1> QED BY <1>3, <1>4, <1>5

LEMMA BeforeIsOne ==
    ASSUME NEW t, NEW u, NEW bytes, NEW o \in Nat, NEW n \in Nat,
           Before(t, bytes, o, n), Before(u, bytes, o, n)
    PROVE  t = u
<1>1. t \in Seq(Bytes) /\ u \in Seq(Bytes) /\ Len(t) = Len(u) /\ \A i \in 1..Len(t) : t[i] = u[i]
  BY DEF Before
<1> QED BY <1>1, SeqEqual

\* The end of what is before a place is before it.
LEMMA BeforeEnd ==
    ASSUME NEW t, NEW u, NEW bytes, NEW o \in Nat, NEW n \in Nat, NEW m \in Nat, m <= n,
           Before(t, bytes, o, n), Before(u, t, n, m)
    PROVE  Before(u, bytes, o, m)
<1>1. ASSUME NEW i \in 1..m
      PROVE  u[i] = bytes[o - m + i]
  <2>1. n - m + i \in 1..n /\ o - n + (n - m + i) = o - m + i
    OBVIOUS
  <2>2. u[i] = t[n - m + i]
    BY DEF Before
  <2>3. t[n - m + i] = bytes[o - n + (n - m + i)]
    BY <2>1 DEF Before
  <2> QED BY <2>1, <2>2, <2>3
<1> QED BY <1>1 DEF Before

\* Two parts that meet.
LEMMA BeforeJoined ==
    ASSUME NEW t, NEW u, NEW bytes, NEW o \in Nat, NEW n \in Nat, NEW e \in Nat,
           Before(t, bytes, o, n), Before(u, bytes, o + e, e)
    PROVE  Before(t \o u, bytes, o + e, n + e)
<1>1. t \in Seq(Bytes) /\ u \in Seq(Bytes) /\ Len(t) = n /\ Len(u) = e
  BY DEF Before
<1>2. /\ t \o u \in Seq(Bytes) /\ Len(t \o u) = Len(t) + Len(u)
      /\ \A i \in 1..(Len(t) + Len(u)) :
            (t \o u)[i] = IF i <= Len(t) THEN t[i] ELSE u[i - Len(t)]
  BY <1>1, ConcatProperties
<1> DEFINE all == t \o u
<1> HIDE DEF all
<1>3. /\ all \in Seq(Bytes) /\ Len(all) = n + e
      /\ \A i \in 1..(n + e) : all[i] = IF i <= n THEN t[i] ELSE u[i - n]
  BY <1>1, <1>2 DEF all
<1>4. ASSUME NEW i \in 1..(n + e)
      PROVE  all[i] = bytes[(o + e) - (n + e) + i]
  <2>1. CASE i <= n
    <3>1. i \in 1..n /\ o - n + i = (o + e) - (n + e) + i
      BY <2>1
    <3>2. t[i] = bytes[o - n + i]
      BY <3>1 DEF Before
    <3> QED BY <1>3, <2>1, <3>1, <3>2
  <2>2. CASE ~(i <= n)
    <3>1. i - n \in 1..e /\ (o + e) - e + (i - n) = (o + e) - (n + e) + i
      BY <2>2
    <3>2. u[i - n] = bytes[(o + e) - e + (i - n)]
      BY <3>1 DEF Before
    <3> QED BY <1>3, <2>2, <3>1, <3>2
  <2> QED BY <2>1, <2>2
<1>5. Before(all, bytes, o + e, n + e)
  BY <1>3, <1>4 DEF Before
<1> QED BY <1>5 DEF all

LEMMA EndsAreNumbers ==
    ASSUME NEW r \in Records
    PROVE  EndOf(r) \in Nat /\ r.offset < EndOf(r) /\ EndOf(r) = r.offset + Len(r.text) + 1
           /\ Len(r.text) \in Nat /\ DOMAIN r.text = 1..Len(r.text)
BY LenProperties DEF Records, EndOf

\* Lines stay lines while the bytes up to their end do.
LEMMA LinesStay ==
    ASSUME NEW recs \in Seq(Records), NEW bytes \in Seq(Bytes), NEW other \in Seq(Bytes),
           NEW from \in Nat, NEW to \in Nat, NEW n \in Nat,
           to <= Len(other), \A i \in 1..to : other[i] = bytes[i],
           Within(recs, to), AreLines(recs, bytes, from, to, n)
    PROVE  AreLines(recs, other, from, to, n)
<1>1. ASSUME NEW k \in DOMAIN recs
      PROVE  IsLine(recs[k], other)
  <2>1. recs[k] \in Records
    BY LenProperties, ElementOfSeq
  <2>2. EndOf(recs[k]) <= to /\ IsLine(recs[k], bytes)
    BY DEF Within, AreLines
  <2>3. /\ EndOf(recs[k]) \in Nat /\ EndOf(recs[k]) = recs[k].offset + Len(recs[k].text) + 1
        /\ Len(recs[k].text) \in Nat /\ DOMAIN recs[k].text = 1..Len(recs[k].text)
        /\ recs[k].offset \in Nat
    BY <2>1, EndsAreNumbers DEF Records
  <2>4. EndOf(recs[k]) \in 1..to
    BY <2>2, <2>3
  <2>5. ASSUME NEW i \in DOMAIN recs[k].text
        PROVE  recs[k].offset + i \in 1..to
    <3>1. ASSUME NEW a \in Nat, NEW l \in Nat, a + l + 1 <= to, i \in 1..l
          PROVE  a + i \in 1..to
      BY <3>1
    <3> QED BY <2>2, <2>3, <3>1
  <2> QED BY <2>2, <2>4, <2>5, LenProperties DEF IsLine
<1> QED BY <1>1 DEF AreLines

\* A line that begins where these lines end is the next of them.
LEMMA LineAdded ==
    ASSUME NEW recs \in Seq(Records), NEW bytes, NEW r \in Records,
           NEW from \in Nat, NEW n \in Nat,
           AreLines(recs, bytes, from, r.offset, n), Within(recs, r.offset),
           IsLine(r, bytes), r.lineNo = n + Len(recs) + 1
    PROVE  /\ AreLines(Append(recs, r), bytes, from, EndOf(r), n)
           /\ Within(Append(recs, r), EndOf(r)) /\ Append(recs, r) \in Seq(Records)
<1> DEFINE all == Append(recs, r)
<1>1. /\ all \in Seq(Records) /\ all # <<>> /\ Len(all) = Len(recs) + 1
      /\ \A k \in 1..Len(recs) : all[k] = recs[k]
      /\ all[Len(recs) + 1] = r
  BY AppendProperties
<1>2. Len(recs) \in Nat /\ DOMAIN recs = 1..Len(recs) /\ DOMAIN all = 1..(Len(recs) + 1)
  BY <1>1, LenProperties
<1>3. recs = <<>> <=> Len(recs) = 0
  BY <1>2, EmptySeq
<1> HIDE DEF all
<1>4. ASSUME NEW k \in DOMAIN all
      PROVE  /\ IsLine(all[k], bytes) /\ all[k].lineNo = n + k
             /\ all[k].offset = IF k = 1 THEN from ELSE EndOf(all[k - 1])
             /\ EndOf(all[k]) <= EndOf(r)
  <2>1. CASE k \in 1..Len(recs)
    <3>1. /\ IsLine(recs[k], bytes) /\ recs[k].lineNo = n + k
          /\ recs[k].offset = IF k = 1 THEN from ELSE EndOf(recs[k - 1])
          /\ EndOf(recs[k]) <= r.offset
      BY <1>2, <2>1 DEF AreLines, Within
    <3>2. k # 1 => k - 1 \in 1..Len(recs)
      BY <1>2, <2>1
    <3>3. recs[k] \in Records /\ EndOf(recs[k]) \in Nat /\ EndOf(r) \in Nat /\ r.offset < EndOf(r)
          /\ r.offset \in Nat
      BY <2>1, ElementOfSeq, EndsAreNumbers DEF Records
    <3>4. EndOf(recs[k]) <= EndOf(r)
      BY <3>1, <3>3
    <3> QED BY <1>1, <2>1, <3>1, <3>2, <3>4
  <2>2. CASE k = Len(recs) + 1
    <3>1. all[k] = r /\ EndOf(r) \in Nat
      BY <1>1, <2>2, EndsAreNumbers
    <3>2. k # 1 => k - 1 = Len(recs) /\ Len(recs) \in 1..Len(recs)
      BY <1>2, <2>2
    <3>3. r.offset = IF k = 1 THEN from ELSE EndOf(all[k - 1])
      BY <1>1, <1>2, <1>3, <2>2, <3>2 DEF AreLines
    <3>4. r.lineNo = n + k
      BY <1>2, <2>2
    <3> QED BY <3>1, <3>3, <3>4
  <2> QED BY <1>2, <2>1, <2>2
<1>5. EndOf(r) = EndOf(all[Len(all)])
  BY <1>1
<1>6. AreLines(all, bytes, from, EndOf(r), n) /\ Within(all, EndOf(r))
  BY <1>1, <1>4, <1>5 DEF AreLines, Within
<1> QED BY <1>1, <1>6 DEF all

\* Lines that begin where others end.
LEMMA LinesJoined ==
    ASSUME NEW recs \in Seq(Records), NEW more \in Seq(Records), NEW bytes,
           NEW from \in Nat, NEW mid \in Nat, NEW to \in Nat, NEW n \in Nat, mid <= to,
           AreLines(recs, bytes, from, mid, n), Within(recs, mid),
           AreLines(more, bytes, mid, to, n + Len(recs)), Within(more, to)
    PROVE  /\ AreLines(recs \o more, bytes, from, to, n)
           /\ Within(recs \o more, to)
<1> DEFINE all == recs \o more
<1>1. /\ all \in Seq(Records) /\ Len(all) = Len(recs) + Len(more)
      /\ \A k \in 1..(Len(recs) + Len(more)) :
            all[k] = IF k <= Len(recs) THEN recs[k] ELSE more[k - Len(recs)]
  BY ConcatProperties
<1>2. /\ Len(recs) \in Nat /\ DOMAIN recs = 1..Len(recs)
      /\ Len(more) \in Nat /\ DOMAIN more = 1..Len(more)
      /\ DOMAIN all = 1..(Len(recs) + Len(more))
  BY <1>1, LenProperties
<1>3. (recs = <<>> <=> Len(recs) = 0) /\ (more = <<>> <=> Len(more) = 0)
      /\ (all = <<>> <=> Len(all) = 0)
  BY <1>1, <1>2, EmptySeq
<1> HIDE DEF all
<1>4. ASSUME NEW k \in DOMAIN all
      PROVE  /\ IsLine(all[k], bytes) /\ all[k].lineNo = n + k
             /\ all[k].offset = IF k = 1 THEN from ELSE EndOf(all[k - 1])
             /\ EndOf(all[k]) <= to
  <2>1. CASE k \in 1..Len(recs)
    <3>1. /\ IsLine(recs[k], bytes) /\ recs[k].lineNo = n + k
          /\ recs[k].offset = IF k = 1 THEN from ELSE EndOf(recs[k - 1])
          /\ EndOf(recs[k]) <= mid
      BY <1>2, <2>1 DEF AreLines, Within
    <3>2. k # 1 => k - 1 \in 1..Len(recs)
      BY <1>2, <2>1
    <3>3. EndOf(recs[k]) <= to
      BY <2>1, <3>1, ElementOfSeq, EndsAreNumbers
    <3>4. all[k] = recs[k] /\ (k # 1 => all[k - 1] = recs[k - 1])
      BY <1>1, <1>2, <2>1, <3>2
    <3> QED BY <3>1, <3>3, <3>4
  <2>2. CASE k \notin 1..Len(recs)
    <3>1. PICK j \in 1..Len(more) : j = k - Len(recs)
      BY <1>2, <2>2
    <3>2. /\ k = Len(recs) + j /\ ~(k <= Len(recs)) /\ k \in 1..(Len(recs) + Len(more))
          /\ {Len(recs), Len(more), j} \subseteq Nat /\ 1 <= j /\ j <= Len(more)
      BY <1>2, <3>1
    <3>3. all[k] = more[j]
      BY <1>1, <3>1, <3>2
    <3>4. /\ IsLine(more[j], bytes) /\ more[j].lineNo = n + Len(recs) + j
          /\ more[j].offset = IF j = 1 THEN mid ELSE EndOf(more[j - 1])
          /\ EndOf(more[j]) <= to
      BY <1>2, <3>1 DEF AreLines, Within
    <3>5. CASE j = 1
      <4>1. Len(recs) # 0 => all[k - 1] = recs[Len(recs)] /\ mid = EndOf(recs[Len(recs)])
        BY <1>1, <1>2, <1>3, <3>2, <3>5 DEF AreLines
      <4>2. Len(recs) = 0 => mid = from /\ k = 1
        BY <1>3, <3>2, <3>5 DEF AreLines
      <4>3. Len(recs) # 0 => k # 1
        BY <1>2, <3>2, <3>5
      <4> QED BY <3>2, <3>3, <3>4, <3>5, <4>1, <4>2, <4>3, <1>2
    <3>6. CASE j # 1
      <4>1. k # 1 /\ k - 1 \in 1..(Len(recs) + Len(more)) /\ ~(k - 1 <= Len(recs))
            /\ (k - 1) - Len(recs) = j - 1
        BY <3>2, <3>6
      <4>2. all[k - 1] = more[j - 1]
        BY <1>1, <4>1
      <4>3. more[j].lineNo = n + k
        BY <3>2, <3>4
      <4> QED BY <3>3, <3>4, <3>6, <4>1, <4>2, <4>3
    <3> QED BY <3>5, <3>6
  <2> QED BY <2>1, <2>2
<1>5. to = IF all = <<>> THEN from ELSE EndOf(all[Len(all)])
  <2>1. CASE Len(more) = 0
    <3>1. to = mid
      BY <1>3, <2>1 DEF AreLines
    <3>2. Len(all) = Len(recs)
      BY <1>1, <1>2, <2>1 DEF all
    <3>3. Len(recs) # 0 => all[Len(recs)] = recs[Len(recs)]
      BY <1>1, <1>2
    <3>4. mid = IF Len(recs) = 0 THEN from ELSE EndOf(recs[Len(recs)])
      BY <1>3 DEF AreLines
    <3> QED BY <1>3, <3>1, <3>2, <3>3, <3>4
  <2>2. CASE Len(more) # 0
    <3>1. all[Len(all)] = more[Len(more)] /\ Len(all) # 0
      BY <1>1, <1>2, <2>2
    <3> QED BY <1>3, <2>2, <3>1 DEF AreLines
  <2> QED BY <2>1, <2>2
<1>6. AreLines(all, bytes, from, to, n) /\ Within(all, to)
  BY <1>4, <1>5 DEF AreLines, Within
<1> QED BY <1>6 DEF all


\* A chunk is what follows place o.
ComesAfter(chunk, bytes, o) ==
    o + Len(chunk) <= Len(bytes) /\ \A i \in 1..Len(chunk) : chunk[i] = bytes[o + i]

\* A chunk's first newline after position e.
FirstNewline(chunk, e, end) ==
    /\ e < end /\ end <= Len(chunk) /\ chunk[end] = "n"
    /\ \A i \in (e + 1)..(end - 1) : chunk[i] # "n"

\* The record that ends there.
RecordTo(chunk, o, n, e, end) ==
    [offset |-> o + e, lineNo |-> n, text |-> SubSeq(chunk, e + 1, end - 1)]

\* The bytes of a chunk up to a newline are a line of the file.
LEMMA LineOfChunk ==
    ASSUME NEW bytes \in Seq(Bytes), NEW chunk \in Seq(Bytes), NEW o \in Nat, NEW e \in Nat,
           NEW end \in Nat, ComesAfter(chunk, bytes, o), FirstNewline(chunk, e, end),
           NEW n \in Nat, NEW r, r = RecordTo(chunk, o, n, e, end)
    PROVE  r \in Records /\ EndOf(r) = o + end /\ IsLine(r, bytes)
<1>1. /\ e < end /\ end <= Len(chunk) /\ o + Len(chunk) <= Len(bytes)
      /\ \A i \in 1..Len(chunk) : chunk[i] = bytes[o + i]
      /\ chunk[end] = "n" /\ \A i \in (e + 1)..(end - 1) : chunk[i] # "n"
  BY DEF ComesAfter, FirstNewline
<1>2. PICK last \in Nat : last = end - 1 /\ e <= last
  BY <1>1
<1>3. Len(chunk) \in Nat /\ Len(bytes) \in Nat /\ last <= Len(chunk)
  BY <1>1, <1>2, LenProperties
<1>4. PICK line : line = SubSeq(chunk, e + 1, last)
  OBVIOUS
<1>5. /\ line \in Seq(Bytes) /\ Len(line) = last - e
      /\ \A i \in 1..(last - e) : line[i] = chunk[e + i]
  <2>1. e + 1 \in 1..(last + 1) /\ last \in 0..Len(chunk) /\ last - (e + 1) + 1 = last - e
        /\ \A i \in Int : last - (last - e) + i = e + i
    BY <1>2, <1>3
  <2>2. Before(line, chunk, last, last - (e + 1) + 1)
    BY <1>4, <2>1, PartIsBefore
  <2> QED BY <2>1, <2>2 DEF Before
<1>6. r = [offset |-> o + e, lineNo |-> n, text |-> line]
  BY <1>2, <1>4 DEF RecordTo
<1>7. r.offset = o + e /\ r.text = line /\ r \in Records
  BY <1>5, <1>6 DEF Records
<1>8. EndOf(r) = o + end
  BY <1>2, <1>5, <1>7 DEF EndOf
<1>9. EndOf(r) <= Len(bytes) /\ bytes[EndOf(r)] = "n"
  BY <1>1, <1>3, <1>8
<1>10. ASSUME NEW i \in DOMAIN r.text
      PROVE  r.text[i] = bytes[r.offset + i] /\ r.text[i] # "n"
  <2>1. i \in 1..(last - e)
    BY <1>5, <1>7, LenProperties
  <2>2. end <= Len(chunk) /\ Len(chunk) \in Nat
    BY <1>1, <1>3
  <2>3. e + i \in (e + 1)..(end - 1) /\ e + i \in 1..Len(chunk)
    BY <1>2, <2>1, <2>2
  <2>4. o + (e + i) = r.offset + i
    BY <1>2, <1>7, <2>1
  <2> QED BY <1>1, <1>5, <1>7, <2>1, <2>3, <2>4
<1> QED BY <1>7, <1>8, <1>9, <1>10 DEF IsLine

\* The tail that planAppendChunk hands out, put together of the tail before the chunk and of
\* what was emitted of the chunk, is the tail of the file there.
LEMMA TailOfMerged ==
    ASSUME CoreAssumption, NEW bytes \in Seq(Bytes), NEW chunk \in Seq(Bytes),
           NEW o \in Nat, NEW e \in Nat, e <= Len(chunk), o + Len(chunk) <= Len(bytes),
           \A i \in 1..Len(chunk) : chunk[i] = bytes[o + i]
    PROVE  LET merged == TailBefore(bytes, o) \o SubSeq(chunk, 1, e)
           IN  TailBefore(merged, Len(merged)) = TailBefore(bytes, o + e)
<1> DEFINE sub == SubSeq(chunk, 1, e)
           merged == TailBefore(bytes, o) \o sub
           n == TailLen(o) + e
<1>1. /\ Len(chunk) \in Nat /\ Len(bytes) \in Nat /\ o \in 0..Len(bytes) /\ o + e \in 0..Len(bytes)
      /\ e \in 0..Len(chunk)
  BY LenProperties
<1>2. Before(sub, bytes, o + e, e)
  <2>1. 1 \in 1..(e + 1) /\ e - 1 + 1 = e
    OBVIOUS
  <2>2. Before(sub, chunk, e, e - 1 + 1)
    BY <1>1, <2>1, PartIsBefore
  <2> HIDE DEF sub
  <2>3. \A i \in 1..e : sub[i] = chunk[e - e + i] /\ e - e + i = i /\ i \in 1..Len(chunk)
                        /\ (o + e) - e + i = o + i
    BY <1>1, <2>1, <2>2 DEF Before
  <2> QED BY <2>1, <2>2, <2>3 DEF Before
<1> HIDE DEF sub
<1>3. Before(TailBefore(bytes, o), bytes, o, TailLen(o)) /\ TailLen(o) \in Nat
  BY <1>1, TailOf, TailLenFits
<1>4. Before(merged, bytes, o + e, n) /\ n \in Nat /\ o + e \in Nat
  <2>1. Before(TailBefore(bytes, o) \o sub, bytes, o + e, TailLen(o) + e)
    BY <1>2, <1>3, BeforeJoined
  <2>2. n \in Nat /\ o + e \in Nat
    BY <1>3
  <2> QED BY <2>1, <2>2
<1> HIDE DEF merged
<1>5. merged \in Seq(Bytes) /\ Len(merged) = n /\ n \in 0..Len(merged)
  BY <1>4 DEF Before
<1> HIDE DEF n
<1>6. Before(TailBefore(merged, n), merged, n, TailLen(n)) /\ TailLen(n) \in Nat /\ TailLen(n) <= n
  BY <1>4, <1>5, TailOf, TailLenFits
<1>7. Before(TailBefore(merged, n), bytes, o + e, TailLen(n))
  BY <1>4, <1>6, BeforeEnd
<1>8. Before(TailBefore(bytes, o + e), bytes, o + e, TailLen(o + e)) /\ TailLen(o + e) = TailLen(n)
  BY <1>1, TailOf, TailLenFits DEF n
<1>9. TailBefore(merged, n) = TailBefore(bytes, o + e)
  BY <1>4, <1>6, <1>7, <1>8, BeforeIsOne
<1> QED BY <1>5, <1>9 DEF merged, sub

----------------------------------------------------------------------------
(* The steps *)

\* What is known while a chunk is planned, of numbers and sequences.
LEMMA WhilePlanning ==
    ASSUME CoreInv, Planning
    PROVE  /\ Begun /\ kept \in SyncCursors /\ plan \in Plans
           /\ plan.chunk \in Seq(Bytes) /\ Len(plan.chunk) \in Nat
           /\ DOMAIN plan.chunk = 1..Len(plan.chunk)
           /\ plan.emitted \in Nat /\ plan.emitted <= Len(plan.chunk)
           /\ kept.offset \in Nat /\ kept.lineNo \in Nat
           /\ plan.found \in Seq(Records) /\ Len(plan.found) \in Nat
           /\ scanned \in Seq(Bytes) /\ Len(scanned) \in Nat
           /\ records \in Seq(Records) /\ Len(records) \in Nat
           /\ kept.offset + Len(plan.chunk) <= Len(scanned)
           /\ \A i \in 1..Len(plan.chunk) : plan.chunk[i] = scanned[kept.offset + i]
           /\ plan.tail = TailBefore(scanned, kept.offset)
           /\ Within(plan.found, kept.offset + plan.emitted)
           /\ AreLines(plan.found, scanned, kept.offset, kept.offset + plan.emitted, kept.lineNo)
<1>1. CoreType /\ SyncCursorFits /\ PlanFits
  BY DEF CoreInv
<1>2. Begun /\ kept \in SyncCursors /\ plan \in Plans
  BY <1>1 DEF SyncCursorFits, CoreType, Begun
<1>3. /\ plan.chunk \in Seq(Bytes) /\ plan.emitted \in Nat
      /\ kept.offset \in Nat /\ kept.lineNo \in Nat /\ plan.found \in Seq(Records)
      /\ scanned \in Seq(Bytes) /\ records \in Seq(Records)
  BY <1>1, <1>2 DEF SyncCursors, Plans, CoreType
<1>4. /\ Len(plan.chunk) \in Nat /\ DOMAIN plan.chunk = 1..Len(plan.chunk)
      /\ Len(plan.found) \in Nat /\ Len(scanned) \in Nat /\ Len(records) \in Nat
  BY <1>3, LenProperties
<1> QED BY <1>1, <1>2, <1>3, <1>4 DEF PlanFits

\* planAppendChunk finds one more line.
LEMMA RecordTaken ==
    ASSUME CoreAssumption, CoreInv, NEW end \in DOMAIN plan.chunk, TakeRecord(end)
    PROVE  CoreInv'
<1> DEFINE Next_r == [offset |-> kept.offset + plan.emitted,
                      lineNo |-> kept.lineNo + Len(plan.found) + 1,
                      text |-> SubSeq(plan.chunk, plan.emitted + 1, end - 1)]
<1>1. PICK r : r = Next_r
  OBVIOUS
<1>2. /\ CoreType /\ SyncCursorFits /\ Planning /\ GoesOn(end)
      /\ UNCHANGED <<content, id, kept, records, scanned, fooled, changes>>
      /\ plan' = [plan EXCEPT !.found = Append(plan.found, r), !.emitted = end]
  BY <1>1 DEF CoreInv, TakeRecord
<1>3. PICK chunk \in Seq(Bytes), e \in Nat, o \in Nat, found \in Seq(Records), n \in Nat :
         chunk = plan.chunk /\ e = plan.emitted /\ o = kept.offset /\ found = plan.found
         /\ n = kept.lineNo
  BY <1>2, WhilePlanning
<1>4. /\ Begun /\ plan \in Plans /\ kept \in SyncCursors
      /\ Len(chunk) \in Nat /\ DOMAIN chunk = 1..Len(chunk) /\ e <= Len(chunk)
      /\ scanned \in Seq(Bytes) /\ Len(scanned) \in Nat /\ o + Len(chunk) <= Len(scanned)
      /\ \A i \in 1..Len(chunk) : chunk[i] = scanned[o + i]
      /\ Within(found, o + e) /\ AreLines(found, scanned, o, o + e, n) /\ Len(found) \in Nat
      /\ plan.tail = TailBefore(scanned, o)
  BY <1>2, <1>3, WhilePlanning
<1>5. /\ end \in (e + 1)..Len(chunk) /\ chunk[end] = "n"
      /\ \A i \in (e + 1)..(end - 1) : chunk[i] # "n"
  BY <1>2, <1>3 DEF GoesOn, NextNewline
<1>6. end \in Nat /\ e < end /\ end <= Len(chunk)
  BY <1>4, <1>5
<1>7. r = [offset |-> o + e, lineNo |-> n + Len(found) + 1, text |-> SubSeq(chunk, e + 1, end - 1)]
  BY <1>1, <1>3
<1> HIDE DEF Next_r
<1>8. r \in Records /\ EndOf(r) = o + end /\ IsLine(r, scanned)
  <2>1. PICK line \in Nat : line = n + Len(found) + 1
    BY <1>4
  <2>2. r = RecordTo(chunk, o, line, e, end)
    BY <1>7, <2>1 DEF RecordTo
  <2>3. ComesAfter(chunk, scanned, o) /\ scanned \in Seq(Bytes)
    BY <1>4 DEF ComesAfter
  <2>4. FirstNewline(chunk, e, end)
    BY <1>5, <1>6 DEF FirstNewline
  <2> QED BY <1>6, <2>2, <2>3, <2>4, LineOfChunk
<1>9. r.offset = o + e /\ r.lineNo = n + Len(found) + 1
  BY <1>7
<1>10. /\ AreLines(Append(found, r), scanned, o, o + end, n)
       /\ Within(Append(found, r), o + end) /\ Append(found, r) \in Seq(Records)
  BY <1>4, <1>8, <1>9, LineAdded
<1>11. /\ plan'.chunk = chunk /\ plan'.tail = plan.tail /\ plan'.emitted = end
       /\ plan'.found = Append(found, r) /\ plan' \in Plans
  BY <1>2, <1>3, <1>4, <1>6, <1>10 DEF Plans
<1>12. PlanFits'
  BY <1>2, <1>3, <1>4, <1>6, <1>10, <1>11 DEF PlanFits
<1>13. Planning'
  BY <1>6, <1>11 DEF Planning, NoPlan
<1>14. CoreType' /\ SyncCursorFits'
  BY <1>2, <1>4, <1>11 DEF CoreType, SyncCursorFits, Begun
<1>15. RecordsWithin' /\ RecordsAreLines'
  BY <1>2 DEF CoreInv, RecordsWithin, RecordsAreLines, Begun
<1> QED BY <1>12, <1>14, <1>15 DEF CoreInv

\* The caller keeps the records and the cursor.
LEMMA PlanEnded == ASSUME CoreAssumption, CoreInv, EndPlan PROVE CoreInv'
<1>1. /\ CoreType /\ SyncCursorFits /\ RecordsWithin /\ RecordsAreLines /\ Planning
      /\ UNCHANGED <<content, id, scanned, fooled, changes>>
      /\ records' = records \o plan.found /\ plan' = NoPlan
  BY DEF CoreInv, EndPlan
<1>2. PICK chunk \in Seq(Bytes), e \in Nat, o \in Nat, found \in Seq(Records), n \in Nat :
         chunk = plan.chunk /\ e = plan.emitted /\ o = kept.offset /\ found = plan.found
         /\ n = kept.lineNo
  BY <1>1, WhilePlanning
<1>3. /\ Begun /\ kept \in SyncCursors
      /\ Len(chunk) \in Nat /\ e <= Len(chunk)
      /\ scanned \in Seq(Bytes) /\ Len(scanned) \in Nat /\ o + Len(chunk) <= Len(scanned)
      /\ \A i \in 1..Len(chunk) : chunk[i] = scanned[o + i]
      /\ Within(found, o + e) /\ AreLines(found, scanned, o, o + e, n) /\ Len(found) \in Nat
      /\ plan.tail = TailBefore(scanned, o) /\ records \in Seq(Records) /\ Len(records) \in Nat
  BY <1>1, <1>2, WhilePlanning
<1>4. PICK merged : merged = plan.tail \o SubSeq(plan.chunk, 1, plan.emitted)
  OBVIOUS
<1>5. kept' = IF e = 0 THEN kept
              ELSE [kept EXCEPT !.offset = o + e, !.lineNo = n + Len(found),
                                !.tail = TailBefore(merged, Len(merged))]
  BY <1>2, <1>4 DEF EndPlan
<1>6. TailBefore(merged, Len(merged)) = TailBefore(scanned, o + e)
  <2>1. merged = TailBefore(scanned, o) \o SubSeq(chunk, 1, e)
    BY <1>2, <1>3, <1>4
  <2>2. TailBefore(TailBefore(scanned, o) \o SubSeq(chunk, 1, e),
                   Len(TailBefore(scanned, o) \o SubSeq(chunk, 1, e))) = TailBefore(scanned, o + e)
    BY <1>3, TailOfMerged
  <2> QED BY <2>1, <2>2
<1>7. o + e \in 0..Len(scanned) /\ TailBefore(scanned, o + e) \in Seq(Bytes)
  <2>1. o + e \in 0..Len(scanned)
    BY <1>3
  <2> QED BY <1>3, <2>1, TailOf DEF Before
<1>8. e = 0 => Len(found) = 0
  <2>1. SUFFICES ASSUME e = 0, Len(found) # 0 PROVE FALSE
    OBVIOUS
  <2>2. 1 \in DOMAIN found /\ 1 \in 1..Len(found)
    BY <1>3, <2>1, LenProperties
  <2>3. found[1] \in Records /\ found[1].offset = o /\ EndOf(found[1]) <= o + e
    BY <1>3, <2>2, ElementOfSeq DEF AreLines, Within
  <2> QED BY <2>1, <2>3, EndsAreNumbers DEF Records
<1>9. /\ kept' \in SyncCursors /\ kept'.offset = o + e /\ kept'.lineNo = n + Len(found)
      /\ kept'.tail = TailBefore(scanned, o + e)
  <2>1. CASE e = 0
    <3>1. o + e = o /\ n + Len(found) = n
      BY <1>8, <2>1
    <3>2. kept' = kept /\ kept.tail = TailBefore(scanned, o)
      BY <1>1, <1>2, <1>3, <1>5, <2>1 DEF SyncCursorFits
    <3> QED BY <1>2, <1>3, <3>1, <3>2
  <2>2. CASE e # 0
    <3>1. kept' = [kept EXCEPT !.offset = o + e, !.lineNo = n + Len(found),
                               !.tail = TailBefore(scanned, o + e)]
      BY <1>5, <1>6, <2>2
    <3>2. o + e \in Nat /\ n + Len(found) \in Nat
      BY <1>3
    <3> QED BY <1>3, <1>7, <3>1, <3>2 DEF SyncCursors
  <2> QED BY <2>1, <2>2
<1>10. Begun'
  BY <1>9 DEF Begun, SyncCursors, Unread
<1>11. /\ records' \in Seq(Records) /\ Len(records') = Len(records) + Len(found)
  BY <1>1, <1>2, <1>3, ConcatProperties
<1>12. CoreType'
  <2>1. NoPlan \in Plans
    BY EmptySeq DEF NoPlan, Plans
  <2> QED BY <1>1, <1>9, <1>11, <2>1 DEF CoreType
<1>13. SyncCursorFits' /\ PlanFits'
  BY <1>1, <1>3, <1>7, <1>9, <1>10 DEF SyncCursorFits, PlanFits, Planning
<1>14. ASSUME ~fooled
       PROVE  /\ AreLines(records', scanned, 0, o + e, 0) /\ Within(records', o + e)
              /\ n + Len(found) = Len(records')
  <2>1. AreLines(records, scanned, 0, o, 0) /\ n = Len(records) /\ Within(records, o)
    BY <1>1, <1>2, <1>3, <1>14 DEF RecordsAreLines, RecordsWithin
  <2>2. o <= o + e /\ 0 \in Nat /\ o + e \in Nat /\ 0 + Len(records) = n
    BY <1>3, <2>1
  <2>3. /\ AreLines(records \o found, scanned, 0, o + e, 0)
        /\ Within(records \o found, o + e)
    <3>1. AreLines(found, scanned, o, o + e, 0 + Len(records))
      BY <1>3, <2>2
    <3> QED BY <1>3, <2>1, <2>2, <3>1, LinesJoined
  <2> QED BY <1>1, <1>2, <1>3, <1>11, <2>1, <2>3
<1>15. RecordsWithin' /\ RecordsAreLines'
  BY <1>1, <1>9, <1>14 DEF RecordsWithin, RecordsAreLines
<1> QED BY <1>12, <1>13, <1>15 DEF CoreInv

\* decideSync: from the start, or from where the caller left off.
LEMMA Scanned ==
    ASSUME CoreAssumption, CoreInv, Scan
    PROVE  /\ CoreType /\ SyncCursorFits /\ ~Planning
           /\ content' = content /\ id' = id /\ scanned' = content /\ changes' = changes
           /\ fooled' \in BOOLEAN /\ kept' \in SyncCursors
           /\ kept'.offset <= Len(content) /\ kept'.tail = TailBefore(content, kept'.offset)
           /\ \/ kept'.offset = 0 /\ kept'.lineNo = 0 /\ records' = <<>>
              \/ /\ Begun /\ records' = records
                 /\ kept'.offset = kept.offset /\ kept'.lineNo = kept.lineNo
                 /\ ~fooled' => /\ ~fooled
                                /\ SubSeq(content, 1, kept.offset) = SubSeq(scanned, 1, kept.offset)
           /\ \/ plan' = NoPlan
              \/ \E end \in kept'.offset..Len(content) :
                    plan' = [chunk |-> SubSeq(content, kept'.offset + 1, end),
                             tail |-> TailBefore(content, kept'.offset),
                             found |-> <<>>, emitted |-> 0]
<1> DEFINE stat == [size |-> Len(content), id |-> id]
           tail == IF Begun /\ kept.offset <= Len(content)
                   THEN TailBefore(content, kept.offset) ELSE <<>>
           decision == DecideSync(kept, stat, tail)
           start == decision.cursor.offset
           end == IF start + ReadMax < Len(content) THEN start + ReadMax ELSE Len(content)
<1>1. /\ CoreType /\ SyncCursorFits /\ ~Planning
      /\ content' = content /\ id' = id /\ scanned' = content /\ changes' = changes
      /\ kept' = decision.cursor
      /\ records' = IF decision.kind = "snapshot" THEN <<>> ELSE records
      /\ plan' = IF decision.kind = "skip" THEN NoPlan
                 ELSE [chunk |-> SubSeq(content, start + 1, end),
                       tail |-> TailBefore(content, start), found |-> <<>>, emitted |-> 0]
      /\ fooled' = (/\ Begun /\ ~HasIdentityChanged(kept, stat)
                    /\ kept.offset <= Len(content)
                    /\ tail = TailBefore(scanned, kept.offset)
                    /\ \/ fooled
                       \/ SubSeq(content, 1, kept.offset) # SubSeq(scanned, 1, kept.offset))
  BY DEF CoreInv, Scan
<1>2. /\ content \in Seq(Bytes) /\ Len(content) \in Nat /\ scanned \in Seq(Bytes)
      /\ id \in [inode : 0..2, dev : 0..2] /\ fooled \in BOOLEAN
      /\ (Begun => kept \in SyncCursors /\ kept.offset \in Nat /\ kept.lineNo \in Nat)
  BY <1>1, LenProperties DEF CoreType, Begun, SyncCursors
<1>3. fooled' \in BOOLEAN
  BY <1>1
<1>4. TailBefore(content, 0) = <<>> /\ TailBefore(scanned, 0) = <<>>
  BY <1>2, SubSeqEmpty DEF TailBefore, CoreAssumption
<1>5. CASE decision.kind = "snapshot"
  <2>1. \E g \in Nat \ {0} : decision.cursor = CursorForStart(g, stat)
    <3>1. CASE ~Begun
      <4>1. decision = [kind |-> "snapshot", cursor |-> CursorForStart(1, stat)]
        BY <3>1 DEF DecideSync, Begun
      <4> QED BY <4>1
    <3>2. CASE Begun
      <4>1. Suspects(kept, stat, tail)
        BY <1>5, <3>2 DEF DecideSync, Begun
      <4>2. decision = [kind |-> "snapshot", cursor |-> CursorForStart(kept.generation + 1, stat)]
        BY <3>2, <4>1 DEF DecideSync, Begun
      <4>3. kept.generation + 1 \in Nat \ {0}
        BY <1>2, <3>2 DEF SyncCursors
      <4> QED BY <4>2, <4>3
    <3> QED BY <3>1, <3>2
  <2>2. PICK g \in Nat \ {0} : decision.cursor = CursorForStart(g, stat)
    BY <2>1
  <2>3. /\ kept' = [generation |-> g, offset |-> 0, lineNo |-> 0, tail |-> <<>>, id |-> id]
        /\ kept' \in SyncCursors /\ kept'.offset = 0 /\ kept'.lineNo = 0 /\ kept'.tail = <<>>
        /\ start = 0
    <3>1. decision.cursor = [generation |-> g, offset |-> 0, lineNo |-> 0, tail |-> <<>>, id |-> id]
      BY <2>2 DEF CursorForStart
    <3>2. kept' = decision.cursor /\ start = decision.cursor.offset
      BY <1>1
    <3> HIDE DEF decision, start, end, tail, stat
    <3>3. kept' = [generation |-> g, offset |-> 0, lineNo |-> 0, tail |-> <<>>, id |-> id]
          /\ start = 0
      BY <3>1, <3>2
    <3>4. <<>> \in Seq(Bytes)
      BY EmptySeq
    <3> QED BY <1>2, <3>3, <3>4 DEF SyncCursors
  <2>4. end \in 0..Len(content)
    BY <1>2, <2>3 DEF CoreAssumption
  <2>5. plan' = [chunk |-> SubSeq(content, 0 + 1, end),
                 tail |-> TailBefore(content, 0), found |-> <<>>, emitted |-> 0]
    BY <1>1, <1>5, <2>3
  <2>6. records' = <<>>
    BY <1>1, <1>5
  <2> HIDE DEF end, start, decision, tail, stat
  <2> QED BY <1>1, <1>2, <1>3, <1>4, <2>3, <2>4, <2>5, <2>6
<1>6. CASE decision.kind # "snapshot"
  <2>1. Begun
    <3>1. SUFFICES ASSUME ~Begun PROVE FALSE
      OBVIOUS
    <3>2. decision = [kind |-> "snapshot", cursor |-> CursorForStart(1, stat)]
      BY <3>1 DEF DecideSync, Begun
    <3> QED BY <1>6, <3>2
  <2>2. ~Suspects(kept, stat, tail)
    <3>1. SUFFICES ASSUME Suspects(kept, stat, tail) PROVE FALSE
      OBVIOUS
    <3>2. decision = [kind |-> "snapshot", cursor |-> CursorForStart(kept.generation + 1, stat)]
      BY <2>1, <3>1 DEF DecideSync, Begun
    <3> QED BY <1>6, <3>2
  <2>3. decision = [kind |-> IF stat.size = kept.offset THEN "skip" ELSE "append",
                    cursor |-> [kept EXCEPT !.id = stat.id]]
    BY <2>1, <2>2 DEF DecideSync, Begun
  <2>4. /\ kept' = [kept EXCEPT !.id = id] /\ kept' \in SyncCursors /\ kept'.offset = kept.offset
        /\ kept'.lineNo = kept.lineNo /\ kept'.tail = kept.tail /\ start = kept.offset
    <3>1. decision.cursor = [kept EXCEPT !.id = id]
      BY <2>3
    <3>2. kept' = decision.cursor /\ start = decision.cursor.offset
      BY <1>1
    <3> HIDE DEF decision, start, end, tail, stat
    <3>3. kept' = [kept EXCEPT !.id = id] /\ start = kept'.offset
      BY <3>1, <3>2
    <3>4. kept \in SyncCursors
      BY <1>2, <2>1
    <3> QED BY <1>2, <3>3, <3>4 DEF SyncCursors
  <2>5. /\ kept.offset <= Len(content) /\ ~HasIdentityChanged(kept, stat)
        /\ kept.offset > 0 => (kept.tail = <<>> \/ tail = <<>> \/ kept.tail = tail)
    BY <1>2, <2>1, <2>2 DEF Suspects
  <2>6. tail = TailBefore(content, kept.offset) /\ kept.offset \in 0..Len(content)
    BY <1>2, <2>1, <2>5
  <2>7. kept.tail = TailBefore(scanned, kept.offset) /\ kept.offset \in 0..Len(scanned)
    BY <1>1, <1>2, <2>1, LenProperties DEF SyncCursorFits
  <2>8. kept.tail = tail
    <3>1. CASE kept.offset = 0
      BY <1>4, <2>6, <2>7, <3>1
    <3>2. CASE kept.offset > 0
      <4>1. Before(tail, content, kept.offset, TailLen(kept.offset))
        BY <1>2, <2>6, TailOf
      <4>2. Before(kept.tail, scanned, kept.offset, TailLen(kept.offset))
        BY <1>2, <2>7, TailOf
      <4>3. TailLen(kept.offset) \in Nat \ {0}
        BY <1>2, <2>1, <3>2 DEF TailLen, CoreAssumption
      <4>4. tail # <<>> /\ kept.tail # <<>>
        BY <4>1, <4>2, <4>3, EmptySeq DEF Before
      <4> QED BY <2>5, <3>2, <4>4
    <3> QED BY <1>2, <2>1, <3>1, <3>2
  <2>9. ~fooled' => ~fooled /\ SubSeq(content, 1, kept.offset) = SubSeq(scanned, 1, kept.offset)
    BY <1>1, <2>1, <2>5, <2>7, <2>8
  <2>10. end \in kept.offset..Len(content)
    BY <1>2, <2>1, <2>4, <2>5 DEF CoreAssumption
  <2>11. \/ plan' = NoPlan
         \/ plan' = [chunk |-> SubSeq(content, kept.offset + 1, end),
                     tail |-> TailBefore(content, kept.offset), found |-> <<>>, emitted |-> 0]
    BY <1>1, <2>4
  <2>12. records' = records
    BY <1>1, <1>6
  <2> HIDE DEF end, start, decision, tail, stat
  <2> QED BY <1>1, <1>3, <2>1, <2>4, <2>5, <2>6, <2>8, <2>9, <2>10, <2>11, <2>12
<1> QED BY <1>5, <1>6

LEMMA ScanKeeps == ASSUME CoreAssumption, CoreInv, Scan PROVE CoreInv'
<1>1. PICK o \in Nat, n \in Nat : o = kept'.offset /\ n = kept'.lineNo
  BY Scanned DEF SyncCursors
<1>2. /\ CoreType /\ SyncCursorFits /\ ~Planning
      /\ content' = content /\ id' = id /\ scanned' = content /\ changes' = changes
      /\ fooled' \in BOOLEAN /\ kept' \in SyncCursors
      /\ o <= Len(content) /\ kept'.tail = TailBefore(content, o)
  BY <1>1, Scanned
<1>3. /\ content \in Seq(Bytes) /\ Len(content) \in Nat /\ scanned \in Seq(Bytes)
      /\ Len(scanned) \in Nat /\ records \in Seq(Records) /\ o \in 0..Len(content)
  BY <1>1, <1>2, LenProperties DEF CoreType
<1>4. \/ o = 0 /\ n = 0 /\ records' = <<>>
      \/ /\ Begun /\ records' = records /\ o = kept.offset /\ n = kept.lineNo
         /\ ~fooled' => ~fooled /\ SubSeq(content, 1, o) = SubSeq(scanned, 1, o)
  BY <1>1, Scanned
<1>5. \/ plan' = NoPlan
      \/ \E end \in o..Len(content) :
            plan' = [chunk |-> SubSeq(content, o + 1, end), tail |-> TailBefore(content, o),
                     found |-> <<>>, emitted |-> 0]
  BY <1>1, Scanned
<1>6. Begun'
  BY <1>2 DEF Begun, SyncCursors, Unread
<1>7. records' \in Seq(Records)
  BY <1>3, <1>4, EmptySeq
<1>8. plan' \in Plans /\ PlanFits'
  <2>1. CASE plan' = NoPlan
    BY <2>1, EmptySeq DEF NoPlan, Plans, PlanFits, Planning
  <2>2. CASE plan' # NoPlan
    <3>1. PICK end \in o..Len(content) :
            plan' = [chunk |-> SubSeq(content, o + 1, end), tail |-> TailBefore(content, o),
                     found |-> <<>>, emitted |-> 0]
      BY <1>5, <2>2
    <3>2. end \in Nat /\ o \in Nat /\ o <= end /\ end <= Len(content) /\ Len(content) \in Nat
      BY <1>3
    <3>3. /\ o + 1 \in 1..(end + 1) /\ end \in 0..Len(content) /\ end - (o + 1) + 1 = end - o
          /\ end - o \in Nat /\ o + (end - o) <= Len(content) /\ o + 0 = o
          /\ \A i \in Int : end - (end - o) + i = o + i
      BY <3>2
    <3>4. Before(SubSeq(content, o + 1, end), content, end, end - (o + 1) + 1)
      BY <1>3, <3>3, PartIsBefore
    <3>5. Before(TailBefore(content, o), content, o, TailLen(o))
      BY <1>3, TailOf
    <3>6. PICK chunk : chunk = SubSeq(content, o + 1, end)
      OBVIOUS
    <3>7. /\ chunk \in Seq(Bytes) /\ Len(chunk) = end - o /\ DOMAIN chunk = 1..(end - o)
          /\ \A i \in 1..(end - o) : chunk[i] = content[o + i]
      <4>1. Before(chunk, content, end, end - o)
        BY <3>3, <3>4, <3>6
      <4> QED BY <3>3, <4>1, LenProperties DEF Before
    <3>8. PICK tail \in Seq(Bytes) : tail = TailBefore(content, o)
      BY <3>5 DEF Before
    <3>9. plan' = [chunk |-> chunk, tail |-> tail, found |-> <<>>, emitted |-> 0]
      BY <3>1, <3>6, <3>8
    <3>10. /\ plan'.chunk = chunk /\ plan'.tail = tail /\ plan'.found = <<>> /\ plan'.emitted = 0
           /\ plan' \in Plans
      <4>1. <<>> \in Seq(Records)
        BY EmptySeq
      <4> QED BY <3>7, <3>8, <3>9, <4>1 DEF Plans
    <3>11. AreLines(<<>>, content, o, o + 0, n) /\ Within(<<>>, o + 0)
      BY <3>3 DEF AreLines, Within
    <3>12. PlanFits' <=> (Planning' =>
             /\ 0 <= Len(chunk)
             /\ o + Len(chunk) <= Len(content)
             /\ \A i \in DOMAIN chunk : chunk[i] = content[o + i]
             /\ tail = TailBefore(content, o)
             /\ Within(<<>>, o + 0) /\ AreLines(<<>>, content, o, o + 0, n))
      BY <1>1, <1>2, <3>10 DEF PlanFits
    <3>13. 0 <= Len(chunk) /\ o + Len(chunk) <= Len(content)
      BY <3>3, <3>7
    <3>14. \A i \in DOMAIN chunk : chunk[i] = content[o + i]
      BY <3>7
    <3> QED BY <3>8, <3>10, <3>11, <3>12, <3>13, <3>14, Zenon
  <2> QED BY <2>1, <2>2
<1>9. CoreType'
  BY <1>2, <1>3, <1>7, <1>8 DEF CoreType
<1>10. SyncCursorFits'
  BY <1>1, <1>2, <1>6 DEF SyncCursorFits
<1>11. ASSUME ~fooled'
       PROVE  AreLines(records', content, 0, o, 0) /\ Within(records', o) /\ n = Len(records')
  <2>1. CASE o = 0 /\ n = 0 /\ records' = <<>>
    BY <2>1 DEF AreLines, Within
  <2>2. CASE /\ Begun /\ records' = records /\ o = kept.offset /\ n = kept.lineNo
             /\ ~fooled /\ SubSeq(content, 1, o) = SubSeq(scanned, 1, o)
    <3>1. /\ AreLines(records, scanned, 0, o, 0) /\ Within(records, o) /\ n = Len(records)
          /\ o \in 0..Len(scanned)
      BY <1>1, <1>2, <1>3, <2>2 DEF CoreInv, SyncCursorFits, RecordsAreLines, RecordsWithin
    <3>2. ASSUME NEW i \in 1..o PROVE content[i] = scanned[i]
      <4>1. 1 \in 1..(o + 1) /\ o - 1 + 1 = o /\ o - o + i = i
        BY <1>1
      <4>2. Before(SubSeq(content, 1, o), content, o, o - 1 + 1)
        BY <1>3, <4>1, PartIsBefore
      <4>3. Before(SubSeq(scanned, 1, o), scanned, o, o - 1 + 1)
        BY <1>3, <3>1, <4>1, PartIsBefore
      <4> QED BY <2>2, <4>1, <4>2, <4>3 DEF Before
    <3>3. AreLines(records, content, 0, o, 0)
      BY <1>2, <1>3, <3>1, <3>2, LinesStay
    <3> QED BY <2>2, <3>1, <3>3
  <2> QED BY <1>4, <1>11, <2>1, <2>2
<1>12. RecordsWithin' /\ RecordsAreLines'
  BY <1>1, <1>2, <1>11 DEF RecordsWithin, RecordsAreLines
<1> QED BY <1>8, <1>9, <1>10, <1>12 DEF CoreInv

\* The file changes between scans, what is known of it does not.
LEMMA ChangesKeep == ASSUME CoreAssumption, CoreInv, Changes PROVE CoreInv'
<1>1. CoreType /\ UNCHANGED <<kept, records, plan, scanned, fooled>> /\ changes' = changes + 1
  BY DEF CoreInv, Changes
<1>2. content' \in Seq(Bytes) /\ id' \in [inode : 0..2, dev : 0..2]
  <2>1. content \in Seq(Bytes) /\ id \in [inode : 0..2, dev : 0..2]
    BY <1>1 DEF CoreType
  <2>2. ASSUME NEW b \in Bytes, content' = Append(content, b), id' = id
        PROVE  content' \in Seq(Bytes) /\ id' \in [inode : 0..2, dev : 0..2]
    BY <2>1, <2>2, AppendProperties
  <2>3. ASSUME NEW n \in 0..Len(content), content' = SubSeq(content, 1, n), id' = id
        PROVE  content' \in Seq(Bytes) /\ id' \in [inode : 0..2, dev : 0..2]
    <3>1. 1 \in 1..(n + 1)
      BY <2>1, LenProperties
    <3> QED BY <2>1, <2>3, <3>1, PartIsBefore DEF Before
  <2>4. ASSUME NEW b \in Bytes, NEW i \in DOMAIN content,
               content' = [content EXCEPT ![i] = b], id' = id
        PROVE  content' \in Seq(Bytes) /\ id' \in [inode : 0..2, dev : 0..2]
    BY <2>1, <2>4, ExceptSeq, LenProperties
  <2>5. ASSUME NEW part \in {"inode", "dev"}, id[part] # 0, id' = [id EXCEPT ![part] = 3 - @],
               content' = content
        PROVE  content' \in Seq(Bytes) /\ id' \in [inode : 0..2, dev : 0..2]
    BY <2>1, <2>5
  <2> QED BY <2>2, <2>3, <2>4, <2>5 DEF Changes
<1>3. CoreType'
  BY <1>1, <1>2 DEF CoreType
<1>4. SyncCursorFits' /\ PlanFits' /\ RecordsWithin' /\ RecordsAreLines'
  BY <1>1 DEF CoreInv, SyncCursorFits, PlanFits, RecordsWithin, RecordsAreLines, Begun, Planning
<1> QED BY <1>3, <1>4 DEF CoreInv

\* For files of any size and content, any reads, limits and tails, and whatever replaces
\* them: the records that planAppendChunk has given of a generation are the lines of the
\* file, unless a prefix was replaced unseen.
THEOREM LinesOfFiles == CoreSpec => []RecordsAreLines
<1> USE CoreAssumption
<1>1. CoreInit => CoreInv
  <2>1. SUFFICES ASSUME CoreInit PROVE CoreInv
    OBVIOUS
  <2>2. <<>> \in Seq(Bytes) /\ <<>> \in Seq(Records)
    BY EmptySeq
  <2>3. NoPlan \in Plans
    BY <2>2 DEF NoPlan, Plans
  <2>4. id \in [inode : 0..2, dev : 0..2]
    <3>1. [inode : {0, 1}, dev : {0, 1}] \subseteq [inode : 0..2, dev : 0..2]
      OBVIOUS
    <3> QED BY <2>1, <3>1 DEF CoreInit
  <2>5. CoreType
    BY <2>1, <2>2, <2>3, <2>4 DEF CoreInit, CoreType
  <2> QED BY <2>1, <2>5 DEF CoreInit, CoreInv, SyncCursorFits, PlanFits, Planning, Begun,
                            RecordsWithin, RecordsAreLines
<1>2. CoreInv /\ [CoreNext]_coreVars => CoreInv'
  <2>1. SUFFICES ASSUME CoreInv, [CoreNext]_coreVars PROVE CoreInv'
    OBVIOUS
  <2>2. CASE Scan
    BY <2>1, <2>2, ScanKeeps
  <2>3. CASE EndPlan
    BY <2>1, <2>3, PlanEnded
  <2>4. CASE Changes
    BY <2>1, <2>4, ChangesKeep
  <2>5. ASSUME NEW end \in DOMAIN plan.chunk, TakeRecord(end)
        PROVE  CoreInv'
    BY <2>1, <2>5, RecordTaken
  <2>6. CASE UNCHANGED coreVars
    BY <2>1, <2>6 DEF coreVars, CoreInv, CoreType, SyncCursorFits, PlanFits, RecordsWithin,
                      RecordsAreLines, Begun, Planning
  <2> QED BY <2>1, <2>2, <2>3, <2>4, <2>5, <2>6 DEF CoreNext
<1>3. CoreInv => RecordsAreLines
  BY DEF CoreInv
<1> QED BY <1>1, <1>2, <1>3, PTL DEF CoreSpec

----------------------------------------------------------------------------
(* Policy: the backtracking finds a match whenever there is one.           *)

LEMMA LeastNumber ==
    ASSUME NEW S \in SUBSET Nat, S # {}
    PROVE  \E m \in S : \A n \in S : m <= n
<1> DEFINE below == {0..n : n \in S}
<1>1. below \subseteq FiniteSubsetsOf(Nat) /\ below # {}
  <2>1. \A n \in S : IsFiniteSet(0..n) /\ 0..n \subseteq Nat
    BY FS_Interval
  <2> QED BY <2>1 DEF FiniteSubsetsOf
<1>2. PICK b \in below : \A c \in below : ~(<<c, b>> \in StrictSubsetOrdering(Nat))
  <2> HIDE DEF below
  <2> QED BY <1>1, FS_StrictSubsetOrderingWellFounded, WFMin
<1>3. PICK m \in S : b = 0..m
  OBVIOUS
<1>4. ASSUME NEW n \in S, n < m PROVE FALSE
  <2>1. 0..n \subseteq 0..m /\ m \in 0..m /\ m \notin 0..n
    BY <1>4
  <2>2. 0..n \in below /\ 0..n \in SUBSET Nat /\ 0..m \in SUBSET Nat
    OBVIOUS
  <2>3. <<0..n, 0..m>> \in StrictSubsetOrdering(Nat)
    BY <2>1, <2>2 DEF StrictSubsetOrdering
  <2> QED BY <1>2, <1>3, <2>2, <2>3
<1> QED BY <1>4

GoesFrom(lo, last, S) == lo \in S /\ \A i \in lo..last : i \in S /\ i # last => i + 1 \in S

LEMMA ToTheLast ==
    ASSUME NEW S, NEW lo \in Nat, NEW last \in Nat, GoesFrom(lo, last, S)
    PROVE  lo..last \subseteq S
<1> DEFINE gaps == {i \in lo..last : i \notin S}
<1>1. SUFFICES ASSUME gaps # {} PROVE FALSE
  OBVIOUS
<1>2. gaps \in SUBSET Nat
  OBVIOUS
<1>3. PICK m \in gaps : \A n \in gaps : m <= n
  <2> HIDE DEF gaps
  <2> QED BY <1>1, <1>2, LeastNumber
<1>4. m \in lo..last /\ m # lo /\ m \in Nat /\ m \notin S
  BY DEF GoesFrom
<1>5. m - 1 \in lo..last /\ ~(m <= m - 1) /\ (m - 1) + 1 = m /\ m - 1 # last
  BY <1>4
<1>6. m - 1 \in S
  BY <1>3, <1>5
<1> QED BY <1>4, <1>5, <1>6 DEF GoesFrom

\* A set of numbers has the least one that Min says.
LEMMA LeastIsMin ==
    ASSUME NEW S \in SUBSET Nat, S # {}
    PROVE  Min(S) \in S /\ \A n \in S : Min(S) <= n
<1>1. \E m \in S : \A n \in S : m <= n
  BY LeastNumber
<1> QED BY <1>1 DEF Min

\* A place that shares what all places of a lesser rank have, has it: so all places have it.
Inherited(S, rank, P) ==
    \A s \in S : (\A t \in S : rank[t] < rank[s] => t \in P) => s \in P

LEMMA Ranked ==
    ASSUME NEW S, NEW rank \in [S -> Nat], NEW P, Inherited(S, rank, P)
    PROVE  S \subseteq P
<1> DEFINE ranks == {rank[s] : s \in S \ P}
<1>1. SUFFICES ASSUME ranks # {} PROVE FALSE
  OBVIOUS
<1>2. PICK m \in ranks : \A n \in ranks : m <= n
  <2>1. ranks \in SUBSET Nat
    OBVIOUS
  <2> HIDE DEF ranks
  <2> QED BY <1>1, <2>1, LeastNumber
<1>3. PICK s \in S \ P : rank[s] = m
  OBVIOUS
<1>4. ASSUME NEW t \in S, rank[t] < rank[s] PROVE t \in P
  <2>1. rank[t] \in Nat /\ rank[s] \in Nat
    OBVIOUS
  <2>2. t \notin P => rank[t] \in ranks
    OBVIOUS
  <2> QED BY <1>2, <1>3, <1>4, <2>1, <2>2
<1> QED BY <1>3, <1>4 DEF Inherited

----------------------------------------------------------------------------
(* Covering *)

\* Characters, of which the provers must be told that * is one
Chars == STRING \cup {"*"}
Globs == Seq(Seq(Chars))

\* A part i of a pattern may cover what is between two places of a word.
Spans(wild, fits, i, v, w) == IF i \in wild THEN v <= w ELSE w = v + 1 /\ <<i, w>> \in fits

LEMMA CoversAtEnd ==
    ASSUME NEW wild, NEW fits, NEW n \in Nat, NEW m \in Nat, NEW v \in 0..m
    PROVE  Covers(wild, fits, n, n, v, m) <=> v = m
<1>1. n..n = {n} /\ n + 1 .. n = {}
  OBVIOUS
<1>2. ASSUME v = m PROVE Covers(wild, fits, n, n, v, m)
  <2> DEFINE cut == [i \in n..n |-> v]
  <2>1. cut \in [n..n -> 0..m] /\ cut[n] = v
    OBVIOUS
  <2> HIDE DEF cut
  <2> QED BY <1>1, <1>2, <2>1 DEF Covers
<1> QED BY <1>2 DEF Covers

LEMMA CoversStep ==
    ASSUME NEW wild, NEW fits, NEW n \in Nat, NEW p \in 0 .. n - 1, NEW m \in Nat, NEW v \in 0..m
    PROVE  Covers(wild, fits, p, n, v, m) <=>
              \E w \in 0..m : Spans(wild, fits, p + 1, v, w) /\ Covers(wild, fits, p + 1, n, w, m)
<1>0. p \in Nat /\ p \in p..n /\ p + 1 \in p..n /\ p + 1 \in p + 1 .. n /\ n \in p + 1 .. n /\ n # p /\ (p + 1) - 1 = p
  OBVIOUS
<1>1. ASSUME Covers(wild, fits, p, n, v, m)
      PROVE  \E w \in 0..m : Spans(wild, fits, p + 1, v, w) /\ Covers(wild, fits, p + 1, n, w, m)
  <2>1. PICK cut \in [p..n -> 0..m] :
           /\ cut[p] = v /\ cut[n] = m
           /\ \A i \in p + 1 .. n : IF i \in wild THEN cut[i - 1] <= cut[i]
                                   ELSE cut[i] = cut[i - 1] + 1 /\ <<i, cut[i]>> \in fits
    BY <1>1 DEF Covers
  <2> DEFINE rest == [i \in p + 1 .. n |-> cut[i]]
  <2>2. Spans(wild, fits, p + 1, v, cut[p + 1]) /\ cut[p + 1] \in 0..m
    BY <1>0, <2>1 DEF Spans
  <2>3. /\ rest \in [p + 1 .. n -> 0..m] /\ rest[p + 1] = cut[p + 1] /\ rest[n] = m
        /\ \A i \in (p + 1) + 1 .. n : rest[i] = cut[i] /\ rest[i - 1] = cut[i - 1] /\ i \in p + 1 .. n
    BY <1>0, <2>1
  <2> HIDE DEF rest
  <2>4. Covers(wild, fits, p + 1, n, cut[p + 1], m)
    <3>1. \A i \in (p + 1) + 1 .. n : IF i \in wild THEN rest[i - 1] <= rest[i]
                                     ELSE rest[i] = rest[i - 1] + 1 /\ <<i, rest[i]>> \in fits
      BY <2>1, <2>3
    <3> QED BY <2>3, <3>1 DEF Covers
  <2> QED BY <2>2, <2>4
<1>2. ASSUME NEW w \in 0..m, Spans(wild, fits, p + 1, v, w), Covers(wild, fits, p + 1, n, w, m)
      PROVE  Covers(wild, fits, p, n, v, m)
  <2>1. PICK rest \in [p + 1 .. n -> 0..m] :
           /\ rest[p + 1] = w /\ rest[n] = m
           /\ \A i \in (p + 1) + 1 .. n : IF i \in wild THEN rest[i - 1] <= rest[i]
                                         ELSE rest[i] = rest[i - 1] + 1 /\ <<i, rest[i]>> \in fits
    BY <1>2 DEF Covers
  <2> DEFINE cut == [i \in p..n |-> IF i = p THEN v ELSE rest[i]]
  <2>2. \A i \in p..n : i # p => i \in p + 1 .. n
    BY <1>0
  <2>3. cut \in [p..n -> 0..m] /\ cut[p] = v /\ cut[n] = m
    BY <1>0, <2>1, <2>2
  <2>4. cut[p + 1] = w /\ \A i \in (p + 1) + 1 .. n : cut[i] = rest[i] /\ cut[i - 1] = rest[i - 1]
    BY <1>0, <2>1
  <2> HIDE DEF cut
  <2>5. ASSUME NEW i \in p + 1 .. n
        PROVE  IF i \in wild THEN cut[i - 1] <= cut[i]
               ELSE cut[i] = cut[i - 1] + 1 /\ <<i, cut[i]>> \in fits
    <3>1. CASE i = p + 1
      BY <1>0, <1>2, <2>3, <2>4, <3>1 DEF Spans
    <3>2. CASE i # p + 1
      <4>1. i \in (p + 1) + 1 .. n
        BY <3>2
      <4> QED BY <2>1, <2>4, <4>1
    <3> QED BY <3>1, <3>2
  <2> QED BY <2>3, <2>5 DEF Covers
<1> QED BY <1>1, <1>2

\* Nothing is covered by wild parts only.
LEMMA CoversNothing ==
    ASSUME NEW wild, NEW fits, NEW n \in Nat, NEW p \in 0..n, NEW m \in Nat
    PROVE  Covers(wild, fits, p, n, m, m) <=> p + 1 .. n \subseteq wild
<1>1. ASSUME Covers(wild, fits, p, n, m, m), NEW i \in p + 1 .. n PROVE i \in wild
  <2>1. PICK cut \in [p..n -> 0..m] :
           /\ cut[p] = m /\ cut[n] = m
           /\ \A j \in p + 1 .. n : IF j \in wild THEN cut[j - 1] <= cut[j]
                                   ELSE cut[j] = cut[j - 1] + 1 /\ <<j, cut[j]>> \in fits
    BY <1>1 DEF Covers
  <2> DEFINE ends == {j \in p..n : cut[j] = m}
  <2>2. ASSUME NEW j \in p..n, j \in ends, j # n PROVE j + 1 \in ends /\ j + 1 \in wild
    <3>1. j + 1 \in p + 1 .. n /\ (j + 1) - 1 = j /\ j + 1 \in p..n
      BY <2>2
    <3>2. cut[j + 1] \in 0..m /\ cut[j] = m
      BY <2>2, <3>1
    <3>3. IF j + 1 \in wild THEN cut[j] <= cut[j + 1] ELSE cut[j + 1] = cut[j] + 1
      BY <2>1, <3>1
    <3> QED BY <3>1, <3>2, <3>3
  <2>3. p..n \subseteq ends
    <3>1. p \in ends
      BY <2>1
    <3> HIDE DEF ends
    <3>2. GoesFrom(p, n, ends)
      BY <2>2, <3>1 DEF GoesFrom
    <3> QED BY <3>2, ToTheLast
  <2>4. i - 1 \in p..n /\ i - 1 # n /\ (i - 1) + 1 = i
    OBVIOUS
  <2> HIDE DEF ends
  <2> QED BY <2>2, <2>3, <2>4
<1>2. ASSUME p + 1 .. n \subseteq wild PROVE Covers(wild, fits, p, n, m, m)
  <2> DEFINE cut == [i \in p..n |-> m]
  <2>1. cut \in [p..n -> 0..m] /\ cut[p] = m /\ cut[n] = m /\ \A i \in p + 1 .. n : cut[i - 1] <= cut[i]
    OBVIOUS
  <2> HIDE DEF cut
  <2> QED BY <1>2, <2>1 DEF Covers
<1> QED BY <1>1, <1>2

----------------------------------------------------------------------------
(* One segment.  What follows is about one pattern and one value. *)

Fitting(p, s) == {ic \in (DOMAIN p) \X (DOMAIN s) : Same(p[ic[1]], s[ic[2]])}

\* The pattern behind its first characters covers the value behind its first.
Fits(pattern, value, p, v) == Covers(Wild(pattern, "*"), Fitting(pattern, value), p, Len(pattern), v, Len(value))

Unstarred(value) == value \in Seq(STRING) /\ \A j \in DOMAIN value : value[j] # "*"

LEMMA FitsStep ==
    ASSUME NEW pattern \in Seq(Chars), NEW value, Unstarred(value),
           NEW p \in 0 .. Len(pattern) - 1, NEW v \in 0..Len(value)
    PROVE  /\ pattern[p + 1] = "*" =>
                 (Fits(pattern, value, p, v) <=> \E w \in v..Len(value) : Fits(pattern, value, p + 1, w))
           /\ pattern[p + 1] # "*" =>
                 (Fits(pattern, value, p, v) <=>
                    v < Len(value) /\ Same(pattern[p + 1], value[v + 1]) /\ Fits(pattern, value, p + 1, v + 1))
<1> DEFINE n == Len(pattern)
           m == Len(value)
           wild == Wild(pattern, "*")
           fits == Fitting(pattern, value)
<1>1. n \in Nat /\ m \in Nat /\ DOMAIN pattern = 1..n /\ DOMAIN value = 1..m /\ p + 1 \in 1..n
  BY DEF Unstarred
<1>2. /\ p + 1 \in wild <=> pattern[p + 1] = "*"
      /\ \A w \in 1..m : <<p + 1, w>> \in fits <=> Same(pattern[p + 1], value[w])
  BY <1>1 DEF Wild, Fitting
<1> DEFINE At(q, w) == Fits(pattern, value, q, w)
<1>3. At(p, v) <=> \E w \in 0..m : Spans(wild, fits, p + 1, v, w) /\ At(p + 1, w)
  <2>1. p \in 0 .. n - 1 /\ v \in 0..m
    OBVIOUS
  <2> HIDE DEF n, m, wild, fits
  <2>2. Covers(wild, fits, p, n, v, m) <=>
           \E w \in 0..m : Spans(wild, fits, p + 1, v, w) /\ Covers(wild, fits, p + 1, n, w, m)
    BY <1>1, <2>1, CoversStep
  <2> QED BY <2>2 DEF Fits, n, m, wild, fits
<1> HIDE DEF n, wild, fits, At
<1>4. CASE pattern[p + 1] = "*"
  <2>1. \A w \in 0..m : Spans(wild, fits, p + 1, v, w) <=> v <= w
    BY <1>2, <1>4 DEF Spans
  <2>2. \A w : w \in v..m <=> w \in 0..m /\ v <= w
    BY <1>1
  <2>3. At(p, v) <=> \E w \in v..m : At(p + 1, w)
    BY <1>3, <2>1, <2>2
  <2> QED BY <1>4, <2>3 DEF At
<1>5. CASE pattern[p + 1] # "*"
  <2>1. \A w \in 0..m : Spans(wild, fits, p + 1, v, w) <=> w = v + 1 /\ Same(pattern[p + 1], value[w])
    BY <1>1, <1>2, <1>5 DEF Spans
  <2>2. v + 1 \in 0..m <=> v < m
    BY <1>1
  <2>3. At(p, v) <=> v < m /\ Same(pattern[p + 1], value[v + 1]) /\ At(p + 1, v + 1)
    BY <1>3, <2>1, <2>2
  <2> QED BY <1>5, <2>3 DEF At
<1> QED BY <1>4, <1>5

\* Where the first branch of the loop first fails.
LEMMA RunIs ==
    ASSUME NEW pattern \in Seq(Chars), NEW value, Unstarred(value),
           NEW star \in 0..Len(pattern), NEW retry \in 0..Len(value)
    PROVE  LET n == Run(pattern, value, star, retry) IN
           /\ n \in 0 .. Len(value) - retry /\ star + n <= Len(pattern)
           /\ \A k \in 0 .. n - 1 : Same(pattern[star + k + 1], value[retry + k + 1]) /\ star + k < Len(pattern)
           /\ \/ n = Len(value) - retry \/ star + n = Len(pattern)
              \/ ~Same(pattern[star + n + 1], value[retry + n + 1])
<1> DEFINE ends == {k \in 0 .. Len(value) - retry :
                      \/ k = Len(value) - retry \/ star + k >= Len(pattern)
                      \/ ~Same(pattern[star + k + 1], value[retry + k + 1])}
           n == Run(pattern, value, star, retry)
<1>1. Len(pattern) \in Nat /\ Len(value) \in Nat /\ Len(value) - retry \in Nat
  BY DEF Unstarred
<1>2. n = Min(ends)
  BY DEF Run
<1>3. n \in ends /\ \A k \in ends : n <= k
  <2>1. ends \in SUBSET Nat /\ Len(value) - retry \in ends
    BY <1>1
  <2> HIDE DEF ends, n
  <2> QED BY <1>2, <2>1, LeastIsMin
<1> HIDE DEF n
<1>4. n \in 0 .. Len(value) - retry
  BY <1>3
<1>5. ASSUME NEW k \in 0 .. n - 1
      PROVE  Same(pattern[star + k + 1], value[retry + k + 1]) /\ star + k < Len(pattern)
  <2>1. k \in 0 .. Len(value) - retry /\ ~(n <= k)
    BY <1>1, <1>4
  <2>2. k \notin ends
    <3> HIDE DEF ends
    <3> QED BY <1>3, <2>1
  <2> QED BY <1>1, <2>1, <2>2
<1>6. star + n <= Len(pattern)
  <2>1. CASE n = 0
    BY <1>1, <2>1
  <2>2. CASE n # 0
    <3>1. n - 1 \in 0 .. n - 1
      BY <1>1, <1>4, <2>2
    <3>2. star + (n - 1) < Len(pattern)
      BY <1>5, <3>1
    <3> QED BY <1>1, <1>4, <3>2
  <2> QED BY <2>1, <2>2
<1>7. \/ n = Len(value) - retry \/ star + n = Len(pattern)
      \/ ~Same(pattern[star + n + 1], value[retry + n + 1])
  BY <1>1, <1>3, <1>4, <1>6
<1> QED BY <1>4, <1>5, <1>6, <1>7 DEF n

\* What fits behind a star, from the retry or later, has the run and fits behind it.
LEMMA RunForced ==
    ASSUME NEW pattern \in Seq(Chars), NEW value, Unstarred(value),
           NEW star \in 0..Len(pattern), NEW retry \in 0..Len(value),
           NEW r \in 0..Len(value), Fits(pattern, value, star, r)
    PROVE  LET n == Run(pattern, value, star, retry) IN
           r + n <= Len(value) /\ Fits(pattern, value, star + n, r + n)
<1> DEFINE n == Run(pattern, value, star, retry)
           S == {k \in 0..n : r + k <= Len(value) /\ Fits(pattern, value, star + k, r + k)}
<1>1. /\ n \in 0 .. Len(value) - retry /\ star + n <= Len(pattern)
      /\ \A k \in 0 .. n - 1 : Same(pattern[star + k + 1], value[retry + k + 1]) /\ star + k < Len(pattern)
  BY RunIs
<1>2. Len(pattern) \in Nat /\ Len(value) \in Nat /\ DOMAIN value = 1..Len(value)
  BY DEF Unstarred
<1> HIDE DEF n
<1>3. 0 \in S
  BY <1>1, <1>2
<1>4. ASSUME NEW k \in 0..n, k \in S, k # n PROVE k + 1 \in S
  <2>1. k \in 0 .. n - 1 /\ star + k \in 0 .. Len(pattern) - 1 /\ r + k \in 0..Len(value)
        /\ retry + k + 1 \in 1..Len(value)
    BY <1>1, <1>2, <1>4
  <2>2. pattern[star + k + 1] # "*"
    <3>1. Same(pattern[star + k + 1], value[retry + k + 1])
      BY <1>1, <2>1
    <3>2. value[retry + k + 1] # "*"
      BY <1>2, <2>1 DEF Unstarred
    <3> QED BY <3>1, <3>2 DEF Same
  <2>3. Fits(pattern, value, star + k, r + k)
    BY <1>4
  <2> DEFINE p == star + k
             v == r + k
  <2>4. p \in 0 .. Len(pattern) - 1 /\ v \in 0..Len(value) /\ pattern[p + 1] # "*" /\ Fits(pattern, value, p, v)
    BY <2>1, <2>2, <2>3
  <2> HIDE DEF p, v
  <2>5. v < Len(value) /\ Fits(pattern, value, p + 1, v + 1)
    BY <2>4, FitsStep
  <2>6. p + 1 = star + (k + 1) /\ v + 1 = r + (k + 1) /\ k + 1 \in 0..n
    BY <1>1, <2>1 DEF p, v
  <2>7. r + (k + 1) <= Len(value)
    BY <1>2, <2>4, <2>5, <2>6
  <2> QED BY <2>5, <2>6, <2>7
<1>5. 0..n \subseteq S
  <2> HIDE DEF S
  <2>1. GoesFrom(0, n, S) /\ n \in Nat
    BY <1>1, <1>2, <1>3, <1>4 DEF GoesFrom
  <2> QED BY <2>1, ToTheLast
<1>6. n \in S
  <2> HIDE DEF S
  <2> QED BY <1>1, <1>5
<1> QED BY <1>6 DEF n

\* What fits behind the run fits behind the star.
LEMMA RunFits ==
    ASSUME NEW pattern \in Seq(Chars), NEW value, Unstarred(value),
           NEW star \in 0..Len(pattern), NEW retry \in 0..Len(value),
           LET n == Run(pattern, value, star, retry) IN Fits(pattern, value, star + n, retry + n)
    PROVE  Fits(pattern, value, star, retry)
<1> DEFINE n == Run(pattern, value, star, retry)
           S == {k \in 0..n : Fits(pattern, value, star + (n - k), retry + (n - k))}
<1>1. /\ n \in 0 .. Len(value) - retry /\ star + n <= Len(pattern)
      /\ \A k \in 0 .. n - 1 : Same(pattern[star + k + 1], value[retry + k + 1]) /\ star + k < Len(pattern)
  BY RunIs
<1>2. Len(pattern) \in Nat /\ Len(value) \in Nat /\ DOMAIN value = 1..Len(value) /\ Fits(pattern, value, star + n, retry + n)
  BY DEF Unstarred
<1> HIDE DEF n
<1>3. 0 \in S
  <2>1. n - 0 = n /\ 0 \in 0..n
    BY <1>1
  <2> QED BY <1>2, <2>1
<1>4. ASSUME NEW k \in 0..n, k \in S, k # n PROVE k + 1 \in S
  <2> DEFINE j == n - (k + 1)
             p == star + j
             v == retry + j
  <2>1. j \in 0 .. n - 1 /\ p \in 0 .. Len(pattern) - 1 /\ v \in 0..Len(value) /\ v < Len(value)
        /\ p + 1 = star + (n - k) /\ v + 1 = retry + (n - k) /\ k + 1 \in 0..n /\ v + 1 \in 1..Len(value)
    BY <1>1, <1>2, <1>4
  <2>2. Same(pattern[p + 1], value[v + 1])
    <3>1. Same(pattern[star + j + 1], value[retry + j + 1])
      <4> HIDE DEF j
      <4> QED BY <1>1, <2>1
    <3> QED BY <3>1
  <2>3. Fits(pattern, value, p + 1, v + 1)
    <3>1. Fits(pattern, value, star + (n - k), retry + (n - k))
      BY <1>4
    <3> HIDE DEF p, v
    <3> QED BY <2>1, <3>1
  <2> HIDE DEF p, v
  <2>4. pattern[p + 1] # "*"
    BY <1>2, <2>1, <2>2 DEF Same, Unstarred
  <2>5. Fits(pattern, value, p, v)
    BY <2>1, <2>2, <2>3, <2>4, FitsStep
  <2>6. Fits(pattern, value, star + (n - (k + 1)), retry + (n - (k + 1)))
    BY <2>5 DEF p, v
  <2> QED BY <2>1, <2>6
<1>5. 0..n \subseteq S
  <2> HIDE DEF S
  <2>1. GoesFrom(0, n, S) /\ n \in Nat
    BY <1>1, <1>2, <1>3, <1>4 DEF GoesFrom
  <2> QED BY <2>1, ToTheLast
<1>6. n \in S
  <2> HIDE DEF S
  <2> QED BY <1>1, <1>5
<1>7. n - n = 0 /\ star + 0 = star /\ retry + 0 = retry
  BY <1>1
<1> QED BY <1>6, <1>7

\* What the loop finds out behind a star and a retry: whether the rest fits there, or later
\* if there is a star.
Found(pattern, value, at) ==
    IF at.star = 0 THEN Fits(pattern, value, 0, at.retry)
    ELSE \E r \in at.retry .. Len(value) : Fits(pattern, value, at.star, r)

Places(pattern, value) == [star : 0..Len(pattern), retry : 0..Len(value)]

\* One round of the loop, as MatchSegment has it, of what the next rounds find out.
Round(goes, pattern, value, at) ==
    LET n == Run(pattern, value, at.star, at.retry)
        p == at.star + n
        v == at.retry + n
        more == v < Len(value)
        star == p < Len(pattern) /\ pattern[p + 1] = "*"
    IN  \/ ~more /\ \A i \in p + 1 .. Len(pattern) : pattern[i] = "*"
        \/ more /\ star /\ goes[[star |-> p + 1, retry |-> v]]
        \/ more /\ ~star /\ at.star > 0 /\ goes[[at EXCEPT !.retry = @ + 1]]

\* The loop goes on at places that come later.
LEMMA RoundGoesOn ==
    ASSUME NEW pattern \in Seq(Chars), NEW value, Unstarred(value),
           NEW star \in 0..Len(pattern), NEW retry \in 0..Len(value), NEW n \in 0 .. Len(value) - retry,
           star + n <= Len(pattern), retry + n < Len(value)
    PROVE  /\ star + n < Len(pattern) => [star |-> star + n + 1, retry |-> retry + n] \in Places(pattern, value)
           /\ [star |-> star, retry |-> retry + 1] \in Places(pattern, value)
<1>1. Len(pattern) \in Nat /\ Len(value) \in Nat
  BY DEF Unstarred
<1>2. star + n < Len(pattern) => star + n + 1 \in 0..Len(pattern)
  BY <1>1
<1>3. retry + n \in 0..Len(value) /\ retry + 1 \in 0..Len(value)
  BY <1>1
<1> QED BY <1>2, <1>3 DEF Places

LEMMA FoundByRounds ==
    ASSUME NEW pattern \in Seq(Chars), NEW value, Unstarred(value),
           NEW star \in 0..Len(pattern), NEW retry \in 0..Len(value),
           NEW goes, \A at \in Places(pattern, value) : goes[at] <=> Found(pattern, value, at)
    PROVE  Found(pattern, value, [star |-> star, retry |-> retry])
             <=> Round(goes, pattern, value, [star |-> star, retry |-> retry])
<1> DEFINE P == Len(pattern)
           W == Len(value)
           n == Run(pattern, value, star, retry)
           p == star + n
           v == retry + n
           At(q, w) == Fits(pattern, value, q, w)
           here == Found(pattern, value, [star |-> star, retry |-> retry])
           round == Round(goes, pattern, value, [star |-> star, retry |-> retry])
<1>1. P \in Nat /\ W \in Nat /\ DOMAIN pattern = 1..P /\ DOMAIN value = 1..W
  BY DEF Unstarred
<1>2. n \in 0 .. W - retry /\ p <= P
      /\ (n = W - retry \/ p = P \/ ~Same(pattern[p + 1], value[v + 1]))
  BY RunIs
<1>3. /\ here <=> IF star = 0 THEN At(star, retry) ELSE \E r \in retry..W : At(star, r)
      /\ round <=> \/ ~(v < W) /\ \A i \in p + 1 .. P : pattern[i] = "*"
                   \/ v < W /\ (p < P /\ pattern[p + 1] = "*") /\ goes[[star |-> p + 1, retry |-> v]]
                   \/ v < W /\ ~(p < P /\ pattern[p + 1] = "*") /\ star > 0
                        /\ goes[[star |-> star, retry |-> retry + 1]]
  BY DEF Found, Round
<1>4. ASSUME NEW r \in 0..W, At(star, r) PROVE r + n <= W /\ At(p, r + n)
  BY <1>4, RunForced
<1>5. At(p, v) => At(star, retry)
  BY RunFits
<1>6. p < P => /\ pattern[p + 1] = "*" => \A w \in 0..W : At(p, w) <=> \E u \in w..W : At(p + 1, u)
               /\ pattern[p + 1] # "*" => \A w \in 0..W : At(p, w) =>
                     w < W /\ Same(pattern[p + 1], value[w + 1])
  <2>1. ASSUME p < P, NEW w \in 0..W
        PROVE  /\ pattern[p + 1] = "*" => (At(p, w) <=> \E u \in w..W : At(p + 1, u))
               /\ pattern[p + 1] # "*" => (At(p, w) => w < W /\ Same(pattern[p + 1], value[w + 1]))
    <3>1. p \in 0 .. Len(pattern) - 1 /\ w \in 0..Len(value)
      BY <1>1, <1>2, <2>1
    <3> HIDE DEF p
    <3> QED BY <3>1, FitsStep
  <2> QED BY <2>1
<1>7. p = P => \A w \in 0..W : At(p, w) <=> w = W
  <2>1. \A w \in 0..W : At(P, w) <=> w = W
    <3>1. ASSUME NEW w \in 0..W PROVE Covers(Wild(pattern, "*"), Fitting(pattern, value), P, P, w, W) <=> w = W
      <4> HIDE DEF P, W
      <4> QED BY <1>1, CoversAtEnd
    <3> QED BY <3>1 DEF Fits
  <2> HIDE DEF At, p
  <2> QED BY <2>1
<1>8. At(p, W) <=> \A i \in p + 1 .. P : pattern[i] = "*"
  <2>1. p \in 0..P
    BY <1>1, <1>2
  <2>2. Covers(Wild(pattern, "*"), Fitting(pattern, value), p, P, W, W) <=> p + 1 .. P \subseteq Wild(pattern, "*")
    <3> HIDE DEF P, W, p
    <3> QED BY <1>1, <2>1, CoversNothing
  <2>3. \A i \in p + 1 .. P : i \in Wild(pattern, "*") <=> pattern[i] = "*"
    BY <1>1, <2>1 DEF Wild
  <2> HIDE DEF p
  <2> QED BY <2>2, <2>3 DEF Fits
<1>9. v \in 0..W /\ v + 1 \in 1..W + 1 /\ retry \in 0..W /\ n \in Nat
  BY <1>1, <1>2
<1> HIDE DEF here, round, At, n, P, W
\* The value ends with the run.
<1>10. CASE v = W
  <2>1. round <=> At(p, W)
    BY <1>3, <1>8, <1>9, <1>10
  <2>2. ASSUME NEW r \in retry..W, At(star, r) PROVE At(p, W)
    <3>1. r \in 0..W /\ r + n <= W /\ At(p, r + n)
      BY <1>1, <1>4, <2>2
    <3>2. r + n = W
      BY <1>1, <1>9, <1>10, <3>1
    <3> QED BY <3>1, <3>2
  <2>3. here => At(p, W)
    BY <1>1, <1>3, <2>2
  <2>4. At(p, W) => here
    BY <1>1, <1>3, <1>5, <1>10
  <2> QED BY <2>1, <2>3, <2>4 DEF here, round
\* A star follows.
<1>11. CASE v < W /\ p < P /\ pattern[p + 1] = "*"
  <2>1. round <=> \E u \in v..W : At(p + 1, u)
    <3>1. [star |-> p + 1, retry |-> v] \in Places(pattern, value)
      BY <1>1, <1>2, <1>11, RoundGoesOn DEF P, W
    <3>2. goes[[star |-> p + 1, retry |-> v]] <=> \E u \in v..W : At(p + 1, u)
      <4>1. goes[[star |-> p + 1, retry |-> v]] <=> Found(pattern, value, [star |-> p + 1, retry |-> v])
        <5> HIDE DEF p, v
        <5> QED BY <3>1
      <4>2. p + 1 # 0
        BY <1>1, <1>9
      <4> HIDE DEF p, v
      <4> QED BY <4>1, <4>2 DEF Found, At, W
    <3> QED BY <1>3, <1>10, <1>11, <3>2
  <2>2. ASSUME NEW r \in retry..W, At(star, r) PROVE \E u \in v..W : At(p + 1, u)
    <3>1. r \in 0..W /\ r + n <= W /\ At(p, r + n)
      BY <1>1, <1>4, <2>2
    <3>2. r + n \in 0..W /\ v <= r + n
      BY <1>1, <1>9, <2>2, <3>1
    <3>3. PICK u \in r + n .. W : At(p + 1, u)
      BY <1>6, <1>11, <3>1, <3>2
    <3>4. u \in v..W
      BY <1>1, <1>9, <3>2, <3>3
    <3> QED BY <3>3, <3>4
  <2>3. here => round
    BY <1>1, <1>3, <2>1, <2>2
  <2>4. round => here
    <3>1. round => At(p, v)
      BY <1>6, <1>9, <1>11, <2>1
    <3> QED BY <1>1, <1>3, <1>5, <3>1
  <2> QED BY <2>3, <2>4 DEF here, round
\* Nothing follows that fits.
<1>12. CASE v < W /\ ~(p < P /\ pattern[p + 1] = "*")
  <2>1. ~At(star, retry)
    <3>1. SUFFICES ASSUME At(star, retry) PROVE FALSE
      OBVIOUS
    <3>2. At(p, v)
      BY <1>4, <1>9, <3>1
    <3>3. CASE p = P
      BY <1>7, <1>9, <1>12, <3>2, <3>3
    <3>4. CASE p < P
      <4>1. Same(pattern[p + 1], value[v + 1])
        BY <1>6, <1>9, <1>12, <3>2, <3>4
      <4>2. n # W - retry /\ p # P
        BY <1>1, <1>9, <1>12, <3>4
      <4> QED BY <1>2, <4>1, <4>2
    <3> QED BY <1>1, <1>2, <3>3, <3>4
  <2>2. CASE star = 0
    BY <1>1, <1>3, <1>12, <2>1, <2>2 DEF here, round
  <2>3. CASE star > 0
    <3>1. [star |-> star, retry |-> retry + 1] \in Places(pattern, value)
      BY <1>1, <1>2, <1>12, RoundGoesOn DEF P, W
    <3>2. goes[[star |-> star, retry |-> retry + 1]] <=> \E r \in retry + 1 .. W : At(star, r)
      <4>1. goes[[star |-> star, retry |-> retry + 1]] <=> Found(pattern, value, [star |-> star, retry |-> retry + 1])
        BY <3>1
      <4> QED BY <2>3, <4>1 DEF Found, At, W
    <3>3. round <=> \E r \in retry + 1 .. W : At(star, r)
      BY <1>3, <1>12, <2>3, <3>2
    <3>4. \A r : r \in retry + 1 .. W <=> r \in retry..W /\ r # retry
      BY <1>1, <1>9
    <3>5. here <=> \E r \in retry..W : At(star, r)
      BY <1>3, <2>3
    <3>6. here <=> round
      BY <2>1, <3>3, <3>4, <3>5
    <3> QED BY <3>6 DEF here, round
  <2> QED BY <1>1, <2>2, <2>3
<1> QED BY <1>1, <1>9, <1>10, <1>11, <1>12

\* What is left to try at a place
Left(pattern, value, at) == (Len(pattern) - at.star) + (Len(value) - at.retry)

LEMMA RoundLooksAhead ==
    ASSUME NEW pattern \in Seq(Chars), NEW value, Unstarred(value),
           NEW star \in 0..Len(pattern), NEW retry \in 0..Len(value), NEW f, NEW g,
           \A t \in Places(pattern, value) :
              Left(pattern, value, t) < Left(pattern, value, [star |-> star, retry |-> retry]) => (f[t] <=> g[t])
    PROVE  Round(f, pattern, value, [star |-> star, retry |-> retry])
             <=> Round(g, pattern, value, [star |-> star, retry |-> retry])
<1> DEFINE n == Run(pattern, value, star, retry)
           p == star + n
           v == retry + n
           t1 == [star |-> p + 1, retry |-> v]
           t2 == [star |-> star, retry |-> retry + 1]
           Is(h) == \/ ~(v < Len(value)) /\ \A i \in p + 1 .. Len(pattern) : pattern[i] = "*"
                    \/ v < Len(value) /\ (p < Len(pattern) /\ pattern[p + 1] = "*") /\ h[t1]
                    \/ v < Len(value) /\ ~(p < Len(pattern) /\ pattern[p + 1] = "*") /\ star > 0 /\ h[t2]
<1>1. /\ Round(f, pattern, value, [star |-> star, retry |-> retry]) <=> Is(f)
      /\ Round(g, pattern, value, [star |-> star, retry |-> retry]) <=> Is(g)
  BY DEF Round
<1>2. Len(pattern) \in Nat /\ Len(value) \in Nat
  BY DEF Unstarred
<1>3. n \in 0 .. Len(value) - retry /\ star + n <= Len(pattern)
  BY RunIs
<1> HIDE DEF n
<1>4. ASSUME v < Len(value), p < Len(pattern) PROVE f[t1] <=> g[t1]
  <2>1. t1 \in Places(pattern, value)
    BY <1>3, <1>4, RoundGoesOn
  <2>2. Left(pattern, value, t1) < Left(pattern, value, [star |-> star, retry |-> retry])
    BY <1>2, <1>3, <1>4 DEF Left
  <2> HIDE DEF t1
  <2> QED BY <2>1, <2>2
<1>5. ASSUME v < Len(value) PROVE f[t2] <=> g[t2]
  <2>1. t2 \in Places(pattern, value)
    BY <1>3, <1>5, RoundGoesOn
  <2>2. Left(pattern, value, t2) < Left(pattern, value, [star |-> star, retry |-> retry])
    BY <1>2, <1>3, <1>5 DEF Left
  <2> HIDE DEF t2
  <2> QED BY <2>1, <2>2
<1> HIDE DEF p, v, t1, t2
<1> QED BY <1>1, <1>4, <1>5

\* The backtracking finds a match of a segment whenever there is one.
LEMMA MatchSegmentIs ==
    ASSUME NEW pattern \in Seq(Chars), NEW value, Unstarred(value)
    PROVE  MatchSegment(pattern, value) <=> SegmentFits(pattern, value)
<1> DEFINE S == Places(pattern, value)
           w == [at \in S |-> Found(pattern, value, at)]
           goes == CHOOSE f : f = [at \in S |-> Round(f, pattern, value, at)]
           rank == [at \in S |-> Left(pattern, value, at)]
           first == [star |-> 0, retry |-> 0]
           same == {at \in S : goes[at] <=> w[at]}
<1>1. Len(pattern) \in Nat /\ Len(value) \in Nat
  BY DEF Unstarred
<1>2. w = [at \in S |-> Round(w, pattern, value, at)]
  <2>1. ASSUME NEW at \in S PROVE Found(pattern, value, at) <=> Round(w, pattern, value, at)
    <3>1. PICK star \in 0..Len(pattern), retry \in 0..Len(value) : at = [star |-> star, retry |-> retry]
      BY DEF Places
    <3>2. \A t \in Places(pattern, value) : w[t] <=> Found(pattern, value, t)
      OBVIOUS
    <3> HIDE DEF w
    <3> QED BY <3>1, <3>2, FoundByRounds
  <2>2. ASSUME NEW at \in S PROVE Found(pattern, value, at) = Round(w, pattern, value, at)
    <3>1. Found(pattern, value, at) \in BOOLEAN /\ Round(w, pattern, value, at) \in BOOLEAN
      BY DEF Found, Round, Fits, Covers
    <3> QED BY <2>1, <3>1
  <2> QED BY <2>2
<1>3. goes = [at \in S |-> Round(goes, pattern, value, at)]
  <2>1. \E f : f = [at \in S |-> Round(f, pattern, value, at)]
    <3> HIDE DEF w
    <3> QED BY <1>2
  <2> QED BY <2>1
<1>4. MatchSegment(pattern, value) <=> goes[first]
  BY DEF MatchSegment, Round, Places
<1>5. Inherited(S, rank, same)
  <2>1. ASSUME NEW at \in S, \A t \in S : rank[t] < rank[at] => t \in same
        PROVE  goes[at] <=> w[at]
    <3>1. PICK star \in 0..Len(pattern), retry \in 0..Len(value) : at = [star |-> star, retry |-> retry]
      BY DEF Places
    <3>2. \A t \in S : Left(pattern, value, t) < Left(pattern, value, at) => (goes[t] <=> w[t])
      <4> HIDE DEF goes, w, S
      <4> QED BY <2>1
    <3> HIDE DEF goes, w
    <3>3. Round(goes, pattern, value, at) <=> Round(w, pattern, value, at)
      BY <3>1, <3>2, RoundLooksAhead
    <3>4. goes[at] = Round(goes, pattern, value, at)
      BY <1>3
    <3>5. w[at] = Round(w, pattern, value, at)
      BY <1>2
    <3> QED BY <3>3, <3>4, <3>5
  <2> HIDE DEF goes, w, S, rank
  <2> QED BY <2>1 DEF Inherited
<1>6. S \subseteq same
  <2>1. rank \in [S -> Nat]
    <3>1. ASSUME NEW at \in S PROVE Left(pattern, value, at) \in Nat
      BY <1>1 DEF Places, Left
    <3> QED BY <3>1
  <2> HIDE DEF S, rank, same
  <2> QED BY <1>5, <2>1, Ranked
<1>7. first \in S
  BY <1>1 DEF Places
<1>8. goes[first] <=> w[first]
  <2> HIDE DEF goes, w, S, first
  <2> QED BY <1>6, <1>7
<1>9. w[first] <=> Fits(pattern, value, 0, 0)
  BY <1>7 DEF Found
<1> HIDE DEF goes, w, first
<1> QED BY <1>4, <1>8, <1>9 DEF Fits, SegmentFits, Fitting

----------------------------------------------------------------------------
(* The segments of a path. *)

FittingParts(glob, path) == {ij \in (DOMAIN glob) \X (DOMAIN path) : SegmentFits(glob[ij[1]], path[ij[2]])}

\* The glob behind its first segments covers the path behind its first.
Behind(glob, path, p, v) == Covers(Wild(glob, AnyDepth), FittingParts(glob, path), p, Len(glob), v, Len(path))

UnstarredPath(path) == path \in Segments /\ \A j \in DOMAIN path : Unstarred(path[j])

LEMMA BehindStep ==
    ASSUME NEW pattern \in Globs, NEW path \in Segments,
           NEW p \in 0 .. Len(pattern) - 1, NEW v \in 0..Len(path)
    PROVE  /\ pattern[p + 1] = AnyDepth =>
                 (Behind(pattern, path, p, v) <=> \E w \in v..Len(path) : Behind(pattern, path, p + 1, w))
           /\ pattern[p + 1] # AnyDepth =>
                 (Behind(pattern, path, p, v) <=>
                    v < Len(path) /\ SegmentFits(pattern[p + 1], path[v + 1]) /\ Behind(pattern, path, p + 1, v + 1))
<1> DEFINE n == Len(pattern)
           m == Len(path)
           wild == Wild(pattern, AnyDepth)
           fits == FittingParts(pattern, path)
<1>1. n \in Nat /\ m \in Nat /\ DOMAIN pattern = 1..n /\ DOMAIN path = 1..m /\ p + 1 \in 1..n
  BY DEF Segments, Globs
<1>2. /\ p + 1 \in wild <=> pattern[p + 1] = AnyDepth
      /\ \A w \in 1..m : <<p + 1, w>> \in fits <=> SegmentFits(pattern[p + 1], path[w])
  BY <1>1 DEF Wild, FittingParts
<1> DEFINE At(q, w) == Behind(pattern, path, q, w)
<1>3. At(p, v) <=> \E w \in 0..m : Spans(wild, fits, p + 1, v, w) /\ At(p + 1, w)
  <2>1. p \in 0 .. n - 1 /\ v \in 0..m
    OBVIOUS
  <2> HIDE DEF n, m, wild, fits
  <2>2. Covers(wild, fits, p, n, v, m) <=>
           \E w \in 0..m : Spans(wild, fits, p + 1, v, w) /\ Covers(wild, fits, p + 1, n, w, m)
    BY <1>1, <2>1, CoversStep
  <2> QED BY <2>2 DEF Behind, n, m, wild, fits
<1> HIDE DEF n, wild, fits, At
<1>4. CASE pattern[p + 1] = AnyDepth
  <2>1. \A w \in 0..m : Spans(wild, fits, p + 1, v, w) <=> v <= w
    BY <1>2, <1>4 DEF Spans
  <2>2. \A w : w \in v..m <=> w \in 0..m /\ v <= w
    BY <1>1
  <2>3. At(p, v) <=> \E w \in v..m : At(p + 1, w)
    BY <1>3, <2>1, <2>2
  <2> QED BY <1>4, <2>3 DEF At
<1>5. CASE pattern[p + 1] # AnyDepth
  <2>1. \A w \in 0..m : Spans(wild, fits, p + 1, v, w) <=> w = v + 1 /\ SegmentFits(pattern[p + 1], path[w])
    BY <1>1, <1>2, <1>5 DEF Spans
  <2>2. v + 1 \in 0..m <=> v < m
    BY <1>1
  <2>3. At(p, v) <=> v < m /\ SegmentFits(pattern[p + 1], path[v + 1]) /\ At(p + 1, v + 1)
    BY <1>3, <2>1, <2>2
  <2> QED BY <1>5, <2>3 DEF At
<1> QED BY <1>4, <1>5

\* One call of matchSegments, as MatchSegments has it, of what its recursive calls return.
Call(goes, pattern, path, at) ==
    LET more == at.v < Len(path) IN
    IF at.p = Len(pattern) THEN ~more
    ELSE IF pattern[at.p + 1] = AnyDepth
    THEN goes[[at EXCEPT !.p = @ + 1]] \/ (more /\ goes[[at EXCEPT !.v = @ + 1]])
    ELSE /\ more /\ MatchSegment(pattern[at.p + 1], path[at.v + 1])
         /\ goes[[p |-> at.p + 1, v |-> at.v + 1]]

Calls(pattern, path) == [p : 0..Len(pattern), v : 0..Len(path)]

\* A recursive call is about less of the pattern or of the path.
LEMMA CallGoesOn ==
    ASSUME NEW pattern \in Globs, NEW path \in Segments, NEW p \in 0..Len(pattern), NEW v \in 0..Len(path)
    PROVE  /\ p # Len(pattern) => [p |-> p + 1, v |-> v] \in Calls(pattern, path)
           /\ v < Len(path) => [p |-> p, v |-> v + 1] \in Calls(pattern, path)
           /\ p # Len(pattern) /\ v < Len(path) => [p |-> p + 1, v |-> v + 1] \in Calls(pattern, path)
<1>1. Len(pattern) \in Nat /\ Len(path) \in Nat
  BY DEF Segments, Globs
<1>2. (p # Len(pattern) => p + 1 \in 0..Len(pattern)) /\ (v < Len(path) => v + 1 \in 0..Len(path))
  BY <1>1
<1> QED BY <1>2 DEF Calls

LEMMA BehindByCalls ==
    ASSUME NEW pattern \in Globs, NEW path, UnstarredPath(path),
           NEW p \in 0..Len(pattern), NEW v \in 0..Len(path),
           NEW goes, \A at \in Calls(pattern, path) : goes[at] <=> Behind(pattern, path, at.p, at.v)
    PROVE  Behind(pattern, path, p, v) <=> Call(goes, pattern, path, [p |-> p, v |-> v])
<1> DEFINE P == Len(pattern)
           W == Len(path)
           At(q, w) == Behind(pattern, path, q, w)
           call == Call(goes, pattern, path, [p |-> p, v |-> v])
<1>0. path \in Segments
  BY DEF UnstarredPath
<1>1. P \in Nat /\ W \in Nat /\ DOMAIN pattern = 1..P /\ DOMAIN path = 1..W
  BY <1>0 DEF Segments, Globs
<1>2. /\ P \in Nat /\ W \in Nat
      /\ p \in 0..P /\ v \in 0..W
      /\ p # P => p \in 0 .. P - 1 /\ p + 1 \in 1..P
      /\ v < W => v + 1 \in 1..W
      /\ ~(v < W) <=> v = W
  <2>1. Len(pattern) \in Nat /\ Len(path) \in Nat
    BY <1>0 DEF Segments, Globs
  <2> QED BY <2>1
<1>3. call <=> IF p = P THEN ~(v < W)
               ELSE IF pattern[p + 1] = AnyDepth
               THEN goes[[p |-> p + 1, v |-> v]] \/ (v < W /\ goes[[p |-> p, v |-> v + 1]])
               ELSE /\ v < W /\ MatchSegment(pattern[p + 1], path[v + 1])
                    /\ goes[[p |-> p + 1, v |-> v + 1]]
  BY DEF Call
<1>4. /\ p # P => (goes[[p |-> p + 1, v |-> v]] <=> At(p + 1, v))
      /\ v < W => (goes[[p |-> p, v |-> v + 1]] <=> At(p, v + 1))
      /\ p # P /\ v < W => (goes[[p |-> p + 1, v |-> v + 1]] <=> At(p + 1, v + 1))
  BY <1>0, CallGoesOn
<1>5. p # P => /\ pattern[p + 1] = AnyDepth =>
                     \A x \in 0..W : At(p, x) <=> \E w \in x..W : At(p + 1, w)
               /\ pattern[p + 1] # AnyDepth =>
                     (At(p, v) <=> v < W /\ SegmentFits(pattern[p + 1], path[v + 1]) /\ At(p + 1, v + 1))
  <2>1. ASSUME p # P PROVE p \in 0 .. Len(pattern) - 1
    BY <1>2, <2>1
  <2>2. ASSUME p # P, NEW x \in 0..W
        PROVE  /\ pattern[p + 1] = AnyDepth => (At(p, x) <=> \E w \in x..W : At(p + 1, w))
               /\ pattern[p + 1] # AnyDepth =>
                     (At(p, x) <=> x < W /\ SegmentFits(pattern[p + 1], path[x + 1]) /\ At(p + 1, x + 1))
    <3>1. p \in 0 .. Len(pattern) - 1 /\ x \in 0..Len(path)
      BY <1>2, <2>2
    <3> QED BY <1>0, <3>1, BehindStep
  <2> QED BY <2>2
<1>6. p = P => (At(p, v) <=> v = W)
  <2>1. Covers(Wild(pattern, AnyDepth), FittingParts(pattern, path), P, P, v, W) <=> v = W
    BY <1>1, CoversAtEnd
  <2> QED BY <2>1 DEF Behind
<1>7. ASSUME p # P, v < W PROVE MatchSegment(pattern[p + 1], path[v + 1]) <=> SegmentFits(pattern[p + 1], path[v + 1])
  <2>1. p + 1 \in 1..P /\ v + 1 \in 1..W
    BY <1>7, <1>2
  <2>2. pattern[p + 1] \in Seq(Chars)
    BY <2>1, ElementOfSeq DEF Segments, Globs
  <2>3. Unstarred(path[v + 1])
    BY <1>1, <2>1 DEF UnstarredPath
  <2> QED BY <2>2, <2>3, MatchSegmentIs
<1> HIDE DEF P, W, At, call
<1>8. CASE p = P
  <2>1. call <=> ~(v < W)
    BY <1>3, <1>8
  <2>2. ~(v < W) <=> v = W
    BY <1>2 DEF W
  <2>3. At(p, v) <=> call
    BY <1>6, <1>8, <2>1, <2>2
  <2> QED BY <2>3 DEF At, call
<1>9. CASE p # P /\ pattern[p + 1] = AnyDepth
  <2>1. At(p, v) <=> \E w \in v..W : At(p + 1, w)
    BY <1>5, <1>9 DEF W
  <2>2. \A w : w \in v..W <=> w = v \/ (v < W /\ w \in v + 1 .. W)
    BY <1>1 DEF W
  <2>3. v < W => (At(p, v + 1) <=> \E w \in v + 1 .. W : At(p + 1, w))
    <3>1. v < W => v + 1 \in 0..W
      BY <1>1 DEF W
    <3> QED BY <1>5, <1>9, <3>1
  <2>4. At(p, v) <=> At(p + 1, v) \/ (v < W /\ At(p, v + 1))
    BY <2>1, <2>2, <2>3
  <2> QED BY <1>3, <1>4, <1>9, <2>4 DEF At, call
<1>10. CASE p # P /\ pattern[p + 1] # AnyDepth
  <2>1. At(p, v) <=> call
    BY <1>3, <1>4, <1>5, <1>7, <1>10
  <2> QED BY <2>1 DEF At, call
<1> QED BY <1>8, <1>9, <1>10

CallsLeft(pattern, path, at) == (Len(pattern) - at.p) + (Len(path) - at.v)

LEMMA CallLooksAhead ==
    ASSUME NEW pattern \in Globs, NEW path \in Segments,
           NEW p \in 0..Len(pattern), NEW v \in 0..Len(path), NEW f, NEW g,
           \A t \in Calls(pattern, path) :
              CallsLeft(pattern, path, t) < CallsLeft(pattern, path, [p |-> p, v |-> v]) => (f[t] <=> g[t])
    PROVE  Call(f, pattern, path, [p |-> p, v |-> v]) <=> Call(g, pattern, path, [p |-> p, v |-> v])
<1> DEFINE t1 == [p |-> p + 1, v |-> v]
           t2 == [p |-> p, v |-> v + 1]
           t3 == [p |-> p + 1, v |-> v + 1]
           Is(h) == IF p = Len(pattern) THEN ~(v < Len(path))
                    ELSE IF pattern[p + 1] = AnyDepth THEN h[t1] \/ (v < Len(path) /\ h[t2])
                    ELSE v < Len(path) /\ MatchSegment(pattern[p + 1], path[v + 1]) /\ h[t3]
<1>1. /\ Call(f, pattern, path, [p |-> p, v |-> v]) <=> Is(f)
      /\ Call(g, pattern, path, [p |-> p, v |-> v]) <=> Is(g)
  BY DEF Call
<1>2. Len(pattern) \in Nat /\ Len(path) \in Nat
  BY DEF Segments, Globs
<1>3. /\ p # Len(pattern) => t1 \in Calls(pattern, path)
      /\ v < Len(path) => t2 \in Calls(pattern, path)
      /\ p # Len(pattern) /\ v < Len(path) => t3 \in Calls(pattern, path)
  BY CallGoesOn
<1>4. /\ CallsLeft(pattern, path, t1) < CallsLeft(pattern, path, [p |-> p, v |-> v])
      /\ CallsLeft(pattern, path, t2) < CallsLeft(pattern, path, [p |-> p, v |-> v])
      /\ CallsLeft(pattern, path, t3) < CallsLeft(pattern, path, [p |-> p, v |-> v])
  BY <1>2 DEF CallsLeft
<1> HIDE DEF t1, t2, t3
<1>5. /\ p # Len(pattern) => (f[t1] <=> g[t1])
      /\ v < Len(path) => (f[t2] <=> g[t2])
      /\ p # Len(pattern) /\ v < Len(path) => (f[t3] <=> g[t3])
  BY <1>3, <1>4
<1> QED BY <1>1, <1>5

\* matchSegments finds a match of a path whenever there is one.
LEMMA MatchSegmentsIs ==
    ASSUME NEW pattern \in Globs, NEW path, UnstarredPath(path)
    PROVE  MatchSegments(pattern, path) <=> Reaches(pattern, path, 0)
<1> DEFINE S == Calls(pattern, path)
           w == [at \in S |-> Behind(pattern, path, at.p, at.v)]
           goes == CHOOSE f : f = [at \in S |-> Call(f, pattern, path, at)]
           rank == [at \in S |-> CallsLeft(pattern, path, at)]
           first == [p |-> 0, v |-> 0]
           same == {at \in S : goes[at] <=> w[at]}
<1>0. path \in Segments
  BY DEF UnstarredPath
<1>1. Len(pattern) \in Nat /\ Len(path) \in Nat
  BY <1>0 DEF Segments, Globs
<1>2. w = [at \in S |-> Call(w, pattern, path, at)]
  <2>1. ASSUME NEW at \in S PROVE Behind(pattern, path, at.p, at.v) <=> Call(w, pattern, path, at)
    <3>1. PICK p \in 0..Len(pattern), v \in 0..Len(path) : at = [p |-> p, v |-> v]
      BY DEF Calls
    <3>2. \A t \in Calls(pattern, path) : w[t] <=> Behind(pattern, path, t.p, t.v)
      OBVIOUS
    <3> HIDE DEF w
    <3>3. Behind(pattern, path, p, v) <=> Call(w, pattern, path, [p |-> p, v |-> v])
      BY <3>2, BehindByCalls
    <3> QED BY <3>1, <3>3
  <2>2. ASSUME NEW at \in S PROVE Behind(pattern, path, at.p, at.v) = Call(w, pattern, path, at)
    <3>1. Behind(pattern, path, at.p, at.v) \in BOOLEAN
      BY DEF Behind, Covers
    <3>2. Call(w, pattern, path, at) \in BOOLEAN
      <4>1. \A t \in S : w[t] \in BOOLEAN
        BY DEF Behind, Covers
      <4>2. PICK p \in 0..Len(pattern), v \in 0..Len(path) : at = [p |-> p, v |-> v]
        BY DEF Calls
      <4>3. p # Len(pattern) => [p |-> p + 1, v |-> v] \in S
        BY <1>0, <4>2, CallGoesOn
      <4> HIDE DEF w, S
      <4>4. Call(w, pattern, path, [p |-> p, v |-> v]) \in BOOLEAN
        BY <4>1, <4>3 DEF Call
      <4> QED BY <4>2, <4>4
    <3> QED BY <2>1, <3>1, <3>2
  <2> QED BY <2>2
<1>3. goes = [at \in S |-> Call(goes, pattern, path, at)]
  <2>1. \E f : f = [at \in S |-> Call(f, pattern, path, at)]
    <3> HIDE DEF w
    <3> QED BY <1>2
  <2> QED BY <2>1
<1>4. MatchSegments(pattern, path) <=> goes[first]
  BY DEF MatchSegments, Call, Calls
<1>5. Inherited(S, rank, same)
  <2>1. ASSUME NEW at \in S, \A t \in S : rank[t] < rank[at] => t \in same
        PROVE  goes[at] <=> w[at]
    <3>1. PICK p \in 0..Len(pattern), v \in 0..Len(path) : at = [p |-> p, v |-> v]
      BY DEF Calls
    <3>2. \A t \in S : CallsLeft(pattern, path, t) < CallsLeft(pattern, path, at) => (goes[t] <=> w[t])
      <4> HIDE DEF goes, w, S
      <4> QED BY <2>1
    <3> HIDE DEF goes, w
    <3>3. Call(goes, pattern, path, at) <=> Call(w, pattern, path, at)
      BY <1>0, <3>1, <3>2, CallLooksAhead
    <3>4. goes[at] = Call(goes, pattern, path, at)
      BY <1>3
    <3>5. w[at] = Call(w, pattern, path, at)
      BY <1>2
    <3> QED BY <3>3, <3>4, <3>5
  <2> HIDE DEF goes, w, S, rank
  <2> QED BY <2>1 DEF Inherited
<1>6. S \subseteq same
  <2>1. rank \in [S -> Nat]
    <3>1. ASSUME NEW at \in S PROVE CallsLeft(pattern, path, at) \in Nat
      BY <1>1 DEF Calls, CallsLeft
    <3> QED BY <3>1
  <2> HIDE DEF S, rank, same
  <2> QED BY <1>5, <2>1, Ranked
<1>7. first \in S
  BY <1>1 DEF Calls
<1>8. goes[first] <=> w[first]
  <2> HIDE DEF goes, w, S, first
  <2> QED BY <1>6, <1>7
<1>9. w[first] <=> Behind(pattern, path, 0, 0)
  BY <1>7
<1> HIDE DEF goes, w, first
<1> QED BY <1>4, <1>8, <1>9 DEF Behind, Reaches, FittingParts

\* Behind a leading **, the rest of a glob has what it has alone.
LEMMA BehindAnyDepth ==
    ASSUME NEW glob \in Globs, NEW path \in Segments, NEW v \in 0..Len(path)
    PROVE  Behind(<<AnyDepth>> \o glob, path, 1, v) <=> Behind(glob, path, 0, v)
<1> DEFINE n == Len(glob)
           m == Len(path)
           deep == <<AnyDepth>> \o glob
           wild == Wild(glob, AnyDepth)
           fits == FittingParts(glob, path)
           wild1 == Wild(deep, AnyDepth)
           fits1 == FittingParts(deep, path)
<1>1. n \in Nat /\ m \in Nat /\ DOMAIN glob = 1..n /\ DOMAIN path = 1..m
  BY DEF Segments, Globs
<1>2. Len(deep) = n + 1 /\ DOMAIN deep = 1 .. n + 1 /\ \A i \in 1..n : deep[i + 1] = glob[i]
  BY DEF Segments, Globs, AnyDepth
<1> HIDE DEF n, m, deep
<1>3. \A i \in 1..n : i + 1 \in wild1 <=> i \in wild
  BY <1>1, <1>2 DEF Wild
<1>4. \A i \in 1..n, w \in 0..m : <<i + 1, w>> \in fits1 <=> <<i, w>> \in fits
  <2>1. \A i \in 1..n, w \in 0..m : <<i + 1, w>> \in fits1 <=> w \in 1..m /\ SegmentFits(deep[i + 1], path[w])
    BY <1>1, <1>2 DEF FittingParts
  <2>2. \A i \in 1..n, w \in 0..m : <<i, w>> \in fits <=> w \in 1..m /\ SegmentFits(glob[i], path[w])
    BY <1>1 DEF FittingParts
  <2> QED BY <1>2, <2>1, <2>2
<1> HIDE DEF wild, fits, wild1, fits1
<1>5. ASSUME Covers(wild1, fits1, 1, n + 1, v, m) PROVE Covers(wild, fits, 0, n, v, m)
  <2>1. PICK cut \in [1 .. n + 1 -> 0..m] :
           /\ cut[1] = v /\ cut[n + 1] = m
           /\ \A i \in 1 + 1 .. n + 1 : IF i \in wild1 THEN cut[i - 1] <= cut[i]
                                       ELSE cut[i] = cut[i - 1] + 1 /\ <<i, cut[i]>> \in fits1
    BY <1>5 DEF Covers
  <2> DEFINE back == [i \in 0..n |-> cut[i + 1]]
  <2>2. back \in [0..n -> 0..m] /\ back[0] = v /\ back[n] = m
    BY <1>1, <2>1
  <2>3. ASSUME NEW i \in 0 + 1 .. n
        PROVE  IF i \in wild THEN back[i - 1] <= back[i]
               ELSE back[i] = back[i - 1] + 1 /\ <<i, back[i]>> \in fits
    <3>1. i \in 1..n /\ i + 1 \in 1 + 1 .. n + 1 /\ (i + 1) - 1 = i /\ i + 1 \in 1 .. n + 1
      BY <1>1
    <3>2. back[i - 1] = cut[i] /\ back[i] = cut[i + 1] /\ cut[i + 1] \in 0..m
      BY <1>1, <2>1, <3>1
    <3>3. IF i + 1 \in wild1 THEN cut[i] <= cut[i + 1]
          ELSE cut[i + 1] = cut[i] + 1 /\ <<i + 1, cut[i + 1]>> \in fits1
      BY <2>1, <3>1
    <3>4. (i + 1 \in wild1 <=> i \in wild) /\ (<<i + 1, cut[i + 1]>> \in fits1 <=> <<i, cut[i + 1]>> \in fits)
      BY <1>3, <1>4, <3>1, <3>2
    <3> HIDE DEF back
    <3> QED BY <3>2, <3>3, <3>4
  <2> HIDE DEF back
  <2> QED BY <2>2, <2>3 DEF Covers
<1>6. ASSUME Covers(wild, fits, 0, n, v, m) PROVE Covers(wild1, fits1, 1, n + 1, v, m)
  <2>1. PICK cut \in [0..n -> 0..m] :
           /\ cut[0] = v /\ cut[n] = m
           /\ \A i \in 0 + 1 .. n : IF i \in wild THEN cut[i - 1] <= cut[i]
                                   ELSE cut[i] = cut[i - 1] + 1 /\ <<i, cut[i]>> \in fits
    BY <1>6 DEF Covers
  <2> DEFINE on == [i \in 1 .. n + 1 |-> cut[i - 1]]
  <2>2. on \in [1 .. n + 1 -> 0..m] /\ on[1] = v /\ on[n + 1] = m
    <3>1. \A i \in 1 .. n + 1 : i - 1 \in 0..n
      BY <1>1
    <3>2. 1 \in 1 .. n + 1 /\ n + 1 \in 1 .. n + 1 /\ 1 - 1 = 0 /\ (n + 1) - 1 = n
      BY <1>1
    <3> QED BY <2>1, <3>1, <3>2
  <2>3. ASSUME NEW j \in 1 + 1 .. n + 1
        PROVE  IF j \in wild1 THEN on[j - 1] <= on[j]
               ELSE on[j] = on[j - 1] + 1 /\ <<j, on[j]>> \in fits1
    <3> DEFINE i == j - 1
    <3>1. i \in 1..n /\ i \in 0 + 1 .. n /\ j = i + 1 /\ j \in 1 .. n + 1 /\ i \in 1 .. n + 1 /\ i \in 0..n
      BY <1>1
    <3>2. on[j] = cut[i] /\ on[j - 1] = cut[i - 1] /\ cut[i] \in 0..m
      BY <1>1, <2>1, <3>1
    <3> HIDE DEF i
    <3>3. IF i \in wild THEN cut[i - 1] <= cut[i] ELSE cut[i] = cut[i - 1] + 1 /\ <<i, cut[i]>> \in fits
      BY <2>1, <3>1
    <3>4. (i + 1 \in wild1 <=> i \in wild) /\ (<<i + 1, cut[i]>> \in fits1 <=> <<i, cut[i]>> \in fits)
      BY <1>3, <1>4, <3>1, <3>2
    <3> HIDE DEF on
    <3> QED BY <3>1, <3>2, <3>3, <3>4
  <2> HIDE DEF on
  <2> QED BY <2>2, <2>3 DEF Covers
<1>7. Covers(wild1, fits1, 1, n + 1, v, m) <=> Covers(wild, fits, 0, n, v, m)
  BY <1>5, <1>6
<1>8. Behind(deep, path, 1, v) <=> Covers(wild1, fits1, 1, n + 1, v, m)
  BY <1>2 DEF Behind, m, wild1, fits1
<1>9. Behind(glob, path, 0, v) <=> Covers(wild, fits, 0, n, v, m)
  BY DEF Behind, n, m, wild, fits
<1> QED BY <1>7, <1>8, <1>9 DEF deep

LEMMA AnyDepthIs == AnyDepth \in Seq(Chars)
<1>1. ASSUME NEW S, NEW a \in S PROVE <<a, a>> \in Seq(S)
  OBVIOUS
<1>2. "*" \in Chars
  BY DEF Chars
<1> QED BY <1>1, <1>2 DEF AnyDepth

LEMMA SegmentsAreGlobs == Segments \subseteq Globs
<1>1. ASSUME NEW S, NEW T, S \subseteq T PROVE Seq(S) \subseteq Seq(T)
  <2>1. ASSUME NEW s \in Seq(S) PROVE s \in Seq(T)
    <3>1. s = [i \in 1..Len(s) |-> s[i]] /\ Len(s) \in Nat /\ \A i \in 1..Len(s) : s[i] \in T
      BY <1>1
    <3> QED BY <3>1, IsASeq
  <2> QED BY <2>1
<1>2. Seq(STRING) \subseteq Seq(Chars)
  BY <1>1 DEF Chars
<1> QED BY <1>1, <1>2 DEF Segments, Globs

LEMMA ReachesAnyDepth ==
    ASSUME NEW glob \in Globs, NEW path \in Segments
    PROVE  Reaches(<<AnyDepth>> \o glob, path, 0) <=> \E n \in 0..Len(path) : Reaches(glob, path, n)
<1> DEFINE deep == <<AnyDepth>> \o glob
<1>1. /\ deep \in Globs /\ Len(deep) = Len(glob) + 1 /\ deep[1] = AnyDepth
      /\ Len(glob) \in Nat /\ Len(path) \in Nat
  <2>1. AnyDepth \in Seq(Chars)
    BY AnyDepthIs
  <2> HIDE DEF AnyDepth
  <2> QED BY <2>1 DEF Segments, Globs
<1>2. /\ Reaches(deep, path, 0) <=> Behind(deep, path, 0, 0)
      /\ \A n \in 0..Len(path) : Reaches(glob, path, n) <=> Behind(glob, path, 0, n)
  BY DEF Reaches, Behind, FittingParts
<1> HIDE DEF deep
<1>3. Behind(deep, path, 0, 0) <=> \E w \in 0..Len(path) : Behind(deep, path, 1, w)
  <2>1. 0 \in 0 .. Len(deep) - 1 /\ 0 \in 0..Len(path) /\ 0 + 1 = 1 /\ deep[0 + 1] = AnyDepth
    BY <1>1
  <2>2. Behind(deep, path, 0, 0) <=> \E w \in 0..Len(path) : Behind(deep, path, 0 + 1, w)
    BY <1>1, <2>1, BehindStep
  <2> QED BY <2>2
<1>4. \A w \in 0..Len(path) : Behind(deep, path, 1, w) <=> Behind(glob, path, 0, w)
  BY BehindAnyDepth DEF deep
<1> QED BY <1>2, <1>3, <1>4 DEF deep

\* What a caller asks of a path without *, that matchesPolicyPath answers as it is written.
LEMMA MatchesPolicyPathIs ==
    ASSUME NEW path \in Paths, NEW pattern \in Paths, ~Starred(path)
    PROVE  MatchesPolicyPath(path, pattern) <=> Glob(path, pattern)
<1> DEFINE t == Parsed(path)
           g == Parsed(pattern)
<1>1. ASSUME NEW p \in Paths PROVE Parsed(p).segments \in Segments /\ Parsed(p).absolute \in BOOLEAN
  <2>1. p.segments \in Segments /\ HomeDir \in Segments
    BY PolicyAssumption DEF Paths
  <2>2. HomeDir \o p.segments \in Segments
    BY <2>1 DEF Segments, Globs
  <2> QED BY <2>1, <2>2 DEF Parsed
<1>2. t.segments \in Segments /\ g.segments \in Segments /\ t.absolute \in BOOLEAN /\ g.absolute \in BOOLEAN
  BY <1>1
<1>3. UnstarredPath(t.segments)
  <2>1. \A i \in DOMAIN t.segments : \A j \in DOMAIN t.segments[i] : t.segments[i][j] # "*"
    BY DEF Starred
  <2>2. \A i \in DOMAIN t.segments : t.segments[i] \in Seq(STRING)
    <3> DEFINE s == t.segments
    <3>1. s \in Seq(Seq(STRING))
      BY <1>2 DEF Segments, Globs
    <3> HIDE DEF s
    <3>2. \A i \in DOMAIN s : s[i] \in Seq(STRING)
      BY <3>1
    <3> QED BY <3>2 DEF s
  <2> HIDE DEF t
  <2> QED BY <1>2, <2>1, <2>2 DEF UnstarredPath, Unstarred
<1> DEFINE ts == t.segments
           gs == g.segments
           deep == <<AnyDepth>> \o gs
<1>4. /\ MatchesPolicyPath(path, pattern) <=>
            /\ g.absolute => t.absolute
            /\ MatchSegments(gs, ts) \/ (~g.absolute /\ t.absolute /\ MatchSegments(deep, ts))
      /\ Glob(path, pattern) <=>
            /\ g.absolute => t.absolute
            /\ \E n \in IF ~g.absolute /\ t.absolute THEN 0..Len(ts) ELSE {0} : Reaches(gs, ts, n)
  BY DEF MatchesPolicyPath, Glob
<1>5. deep \in Globs /\ gs \in Globs
  <2>1. AnyDepth \in Seq(Chars)
    BY AnyDepthIs
  <2> HIDE DEF AnyDepth, g
  <2>2. gs \in Globs
    BY <1>2, SegmentsAreGlobs
  <2> HIDE DEF gs
  <2> QED BY <2>1, <2>2 DEF Globs
<1> HIDE DEF t, g
<1>6. MatchSegments(gs, ts) <=> Reaches(gs, ts, 0)
  BY <1>3, <1>5, MatchSegmentsIs
<1>7. MatchSegments(deep, ts) <=> \E n \in 0..Len(ts) : Reaches(gs, ts, n)
  <2>1. MatchSegments(deep, ts) <=> Reaches(deep, ts, 0)
    <3> HIDE DEF deep, ts
    <3> QED BY <1>3, <1>5, MatchSegmentsIs DEF ts
  <2>2. Reaches(deep, ts, 0) <=> \E n \in 0..Len(ts) : Reaches(gs, ts, n)
    BY <1>2, <1>5, ReachesAnyDepth
  <2> QED BY <2>1, <2>2
<1>8. 0 \in 0..Len(ts)
  BY <1>2 DEF Segments, Globs
<1> HIDE DEF ts, gs, deep
<1>9. CASE ~g.absolute /\ t.absolute
  <2>1. Reaches(gs, ts, 0) => \E n \in 0..Len(ts) : Reaches(gs, ts, n)
    BY <1>8
  <2> QED BY <1>4, <1>6, <1>7, <1>9, <2>1
<1>10. CASE ~(~g.absolute /\ t.absolute)
  BY <1>4, <1>6, <1>10
<1> QED BY <1>9, <1>10

----------------------------------------------------------------------------
(* The rules. *)

\* The rules that say anything of a field of a path, up to one
Saying(path, rules, field, n) == {i \in 1..n : Glob(path, rules[i].pattern) /\ rules[i][field] # ""}

LastUpTo(path, rules, field, default, n) ==
    IF Saying(path, rules, field, n) = {} THEN default
    ELSE rules[Max(Saying(path, rules, field, n))][field]

\* One round of the loop over the rules
NextSaid(said, path, rules, field, default, n) ==
    IF n = 0 THEN default
    ELSE IF MatchesPolicyPath(path, rules[n].pattern) /\ rules[n][field] # ""
         THEN rules[n][field] ELSE said[n - 1]

LEMMA LastByRounds ==
    ASSUME NEW path \in Paths, ~Starred(path), NEW rules \in Seq(Rules), NEW field, NEW default,
           NEW n \in 0..Len(rules), NEW said,
           n # 0 => said[n - 1] = LastUpTo(path, rules, field, default, n - 1)
    PROVE  LastUpTo(path, rules, field, default, n) = NextSaid(said, path, rules, field, default, n)
<1> DEFINE S(k) == Saying(path, rules, field, k)
<1>1. CASE n = 0
  <2>1. S(n) = {}
    BY <1>1 DEF Saying
  <2> QED BY <1>1, <2>1 DEF LastUpTo, NextSaid
<1>2. CASE n # 0
  <2>1. n \in 1..n /\ n \in 1..Len(rules) /\ Len(rules) \in Nat
    BY <1>2
  <2>2. rules[n].pattern \in Paths
    <3>1. rules[n] \in Rules
      BY <2>1
    <3> QED BY <3>1 DEF Rules
  <2>3. MatchesPolicyPath(path, rules[n].pattern) <=> Glob(path, rules[n].pattern)
    BY <2>2, MatchesPolicyPathIs
  <2>4. \A i : i \in 1..n <=> i \in 1 .. n - 1 \/ i = n
    BY <2>1
  <2>5. CASE Glob(path, rules[n].pattern) /\ rules[n][field] # ""
    <3>1. n \in S(n)
      BY <2>1, <2>5 DEF Saying
    <3>2. \A i \in S(n) : i \in Nat /\ n >= i
      <4>1. S(n) \subseteq 1..n
        BY DEF Saying
      <4> HIDE DEF S
      <4> QED BY <2>1, <4>1
    <3> HIDE DEF S
    <3>3. Max(S(n)) = n
      <4>1. Max(S(n)) \in S(n) /\ \A i \in S(n) : Max(S(n)) >= i
        BY <3>1, <3>2 DEF Max
      <4> HIDE DEF S
      <4> QED BY <2>1, <3>1, <3>2, <4>1
    <3>4. S(n) # {}
      BY <3>1
    <3> QED BY <1>2, <2>3, <2>5, <3>3, <3>4 DEF LastUpTo, NextSaid, S
  <2>6. CASE ~(Glob(path, rules[n].pattern) /\ rules[n][field] # "")
    <3>1. S(n) = S(n - 1)
      <4>1. ASSUME NEW i PROVE i \in S(n) <=> i \in S(n - 1)
        BY <2>4, <2>6 DEF Saying
      <4> HIDE DEF S
      <4> QED BY <4>1
    <3>2. LastUpTo(path, rules, field, default, n) = LastUpTo(path, rules, field, default, n - 1)
      BY <3>1 DEF LastUpTo
    <3> QED BY <1>2, <2>3, <2>6, <3>2 DEF NextSaid
  <2> QED BY <2>5, <2>6
<1> QED BY <1>1, <1>2

LEMMA DecidedIs ==
    ASSUME NEW path \in Paths, ~Starred(path), NEW rules \in Seq(Rules), NEW field, NEW default
    PROVE  Decided(path, rules, field, default) = LastThatSays(path, rules, field, default)
<1> DEFINE S == 0..Len(rules)
           w == [n \in S |-> LastUpTo(path, rules, field, default, n)]
           said == CHOOSE f : f = [n \in S |-> NextSaid(f, path, rules, field, default, n)]
           same == {n \in S : said[n] = w[n]}
<1>1. Len(rules) \in Nat
  OBVIOUS
<1>2. ASSUME NEW n \in S PROVE n # 0 => n - 1 \in S
  BY <1>1
<1>3. ASSUME NEW n \in S PROVE w[n] = NextSaid(w, path, rules, field, default, n)
  <2>1. n # 0 => w[n - 1] = LastUpTo(path, rules, field, default, n - 1)
    BY <1>2
  <2>2. w[n] = LastUpTo(path, rules, field, default, n)
    OBVIOUS
  <2> HIDE DEF w
  <2> QED BY <2>1, <2>2, LastByRounds
<1>4. said = [n \in S |-> NextSaid(said, path, rules, field, default, n)]
  <2>1. w = [n \in S |-> NextSaid(w, path, rules, field, default, n)]
    <3>1. w = [n \in S |-> w[n]]
      OBVIOUS
    <3> HIDE DEF w, S
    <3>2. [n \in S |-> w[n]] = [n \in S |-> NextSaid(w, path, rules, field, default, n)]
      BY <1>3
    <3> QED BY <3>1, <3>2
  <2>2. \E f : f = [n \in S |-> NextSaid(f, path, rules, field, default, n)]
    <3> HIDE DEF w
    <3> QED BY <2>1
  <2> QED BY <2>2
<1> HIDE DEF w, said
<1>5. S \subseteq same
  <2>1. 0 \in same
    <3>1. 0 \in S
      BY <1>1
    <3>2. said[0] = NextSaid(said, path, rules, field, default, 0)
      BY <1>4, <3>1
    <3>3. w[0] = NextSaid(w, path, rules, field, default, 0)
      BY <1>3, <3>1
    <3> QED BY <3>1, <3>2, <3>3 DEF NextSaid
  <2>2. ASSUME NEW n \in S, n \in same, n # Len(rules) PROVE n + 1 \in same
    <3>1. n + 1 \in S /\ (n + 1) - 1 = n /\ n + 1 # 0
      BY <1>1, <2>2
    <3>2. said[n + 1] = NextSaid(said, path, rules, field, default, n + 1)
      BY <1>4, <3>1
    <3>3. w[n + 1] = NextSaid(w, path, rules, field, default, n + 1)
      BY <1>3, <3>1
    <3>4. said[(n + 1) - 1] = w[(n + 1) - 1]
      BY <2>2, <3>1
    <3> DEFINE k == n + 1
    <3> HIDE DEF k
    <3>5. NextSaid(said, path, rules, field, default, k) = NextSaid(w, path, rules, field, default, k)
      BY <3>1, <3>4 DEF NextSaid, k
    <3> QED BY <3>1, <3>2, <3>3, <3>5 DEF k
  <2> HIDE DEF same
  <2>3. GoesFrom(0, Len(rules), same)
    BY <2>1, <2>2 DEF GoesFrom
  <2> QED BY <1>1, <2>3, ToTheLast
<1>6. Decided(path, rules, field, default) = said[Len(rules)]
  BY DEF Decided, NextSaid, said
<1>7. said[Len(rules)] = LastUpTo(path, rules, field, default, Len(rules))
  <2>1. Len(rules) \in S
    BY <1>1
  <2>2. w[Len(rules)] = LastUpTo(path, rules, field, default, Len(rules))
    BY <2>1 DEF w
  <2> QED BY <1>5, <2>1, <2>2
<1>8. LastUpTo(path, rules, field, default, Len(rules)) = LastThatSays(path, rules, field, default)
  <2>1. DOMAIN rules = 1..Len(rules)
    OBVIOUS
  <2> QED BY <2>1 DEF LastUpTo, LastThatSays, Saying
<1> QED BY <1>6, <1>7, <1>8

\* THEOREM.  evaluatePolicy answers what the last rule says whose pattern covers the path, for
\* every path without *, every rules and every home directory.
THEOREM EvaluatesAsWritten == PolicySpec => []PolicyAsWritten
<1> DEFINE Asks == asked = NoCase \/ asked \in Cases
<1>1. PolicyInit => Asks
  BY DEF PolicyInit
<1>2. Asks /\ [PolicyNext]_asked => Asks'
  BY DEF PolicyNext
<1>3. Asks => PolicyAsWritten
  <2> SUFFICES ASSUME Asks, asked # NoCase, ~Starred(asked.path)
               PROVE  EvaluatePolicy(asked.path, asked.rules) =
                        [action |-> LastThatSays(asked.path, asked.rules, "action", "sync"),
                         mode |-> LastThatSays(asked.path, asked.rules, "mode", "snapshot")]
    BY DEF PolicyAsWritten
  <2>1. asked.path \in Paths /\ asked.rules \in Seq(Rules)
    BY PolicyAssumption
  <2>2. /\ Decided(asked.path, asked.rules, "action", "sync") = LastThatSays(asked.path, asked.rules, "action", "sync")
        /\ Decided(asked.path, asked.rules, "mode", "snapshot") = LastThatSays(asked.path, asked.rules, "mode", "snapshot")
    BY <2>1, DecidedIs
  <2> QED BY <2>2 DEF EvaluatePolicy
<1> QED BY <1>1, <1>2, <1>3, PTL DEF PolicySpec

----------------------------------------------------------------------------
(* AgentSync: the inductive invariant *)

USE AgentSyncAssumption

\* A request is awaited only while uploading, a file is read only while reading.
PhasesApart ==
    /\ pc \in {"idle", "read"} => waiting = NoRequest
    /\ reading # NoRead => pc = "read"

\* Whatever this scan relies on as already uploaded is on the server.
InFlightStored ==
    /\ reading # NoRead => Stored(reading.file, reading.gen, reading.from)
    /\ \A f \in Files : batches[f] # NoBatch => Stored(f, batches[f].gen, sent[f])

\* The awaited chunk continues its file's batch where the server left off.
WaitingContinues ==
    waiting.kind = "append" =>
        /\ batches[waiting.file] # NoBatch
        /\ waiting.gen = batches[waiting.file].gen
        /\ waiting.from = sent[waiting.file]

IInv == TypeOK /\ PhasesApart /\ InFlightStored /\ WaitingContinues /\ CursorNeverAhead

----------------------------------------------------------------------------
(* Lemmas on the event table *)

\* An upsert keeps every key the table had.
LEMMA UpsertKeeps ==
    ASSUME NEW old, NEW new, NEW gen, NEW i,
           \E e \in old : e.gen = gen /\ e.idx = i
    PROVE  \E e \in UpsertEvents(old, new) : e.gen = gen /\ e.idx = i
<1>1. PICK e \in old : e.gen = gen /\ e.idx = i
  OBVIOUS
<1>2. CASE \A n \in new : <<e.gen, e.idx>> # <<n.gen, n.idx>>
  BY <1>1, <1>2 DEF UpsertEvents
<1>3. CASE \E n \in new : <<e.gen, e.idx>> = <<n.gen, n.idx>>
  BY <1>1, <1>3 DEF UpsertEvents
<1>4. QED
  BY <1>2, <1>3

\* An upsert of well-formed rows leaves a well-formed table.
LEMMA UpsertTypes ==
    ASSUME NEW S, NEW old \in SUBSET S, NEW new \in SUBSET S
    PROVE  UpsertEvents(old, new) \in SUBSET S
BY DEF UpsertEvents

----------------------------------------------------------------------------
(* Types *)

LEMMA TailHashType ==
    ASSUME TypeOK, NEW f \in Files, NEW off \in Nat
    PROVE  TailHash(f, off) \in Nat \X Nat
BY DEF TypeOK, TailHash, Least

\* Forget leaves the scan's variables well typed.
LEMMA ForgetTypes ==
    ASSUME Forget
    PROVE  /\ pc' = "idle" /\ uploadsOn' = FALSE /\ toRead' = {} /\ missing' = {}
           /\ reading' = NoRead /\ waiting' = NoRequest
           /\ batches' \in [Files -> {NoBatch}] /\ sent' \in [Files -> Nat]
BY DEF Forget

\* A finished read leaves a well-typed batch.
LEMMA BatchTypes ==
    ASSUME TypeOK, NEW f \in Files, NEW gen \in Nat, NEW from \in Nat, NEW to \in Nat,
           NEW inc \in Nat, NEW ino \in Nat, NEW tail \in Nat \X Nat,
           Batch(f, gen, from, to, inc, ino, tail), UNCHANGED <<waiting, pc>>
    PROVE  /\ reading' = NoRead
           /\ toRead' \subseteq Files
           /\ sent' \in [Files -> Nat]
           /\ batches' \in [Files -> {NoBatch} \cup Batches]
<1>1. [gen |-> gen, to |-> to, inc |-> inc, ino |-> ino, tail |-> tail] \in Batches
  BY DEF Batches
<1>2. batches' \in [Files -> {NoBatch} \cup Batches]
  BY <1>1 DEF Batch, TypeOK
<1>3. QED
  BY <1>2 DEF Batch, TypeOK

LEMMA TypeStep == TypeOK /\ [Next]_vars => TypeOK'
<1> SUFFICES ASSUME TypeOK, [Next]_vars PROVE TypeOK'
  OBVIOUS
<1>w. ASSUME WriterStep PROVE TypeOK'
  <2>1. ASSUME NEW f \in Files, NEW ino \in Nat, NEW len \in Nat, WriteFile(f, ino, len)
        PROVE  TypeOK'
    BY <2>1 DEF WriteFile, TypeOK, scanVars, serverVars
  <2>2. \A f \in Files : NewInodes(f) \subseteq Nat
    BY DEF NewInodes, TypeOK
  <2>3. ASSUME NEW f \in Files, AppendLine(f) \/ Delete(f) PROVE TypeOK'
    <3>1. disk' \in [Files -> [ino : Nat, inc : Nat, len : Nat]]
      <4>1. disk \in [Files -> [ino : Nat, inc : Nat, len : Nat]]
        BY DEF TypeOK
      <4>2. CASE AppendLine(f)
        <5>1. disk' = [disk EXCEPT ![f] = [disk[f] EXCEPT !.len = disk[f].len + 1]]
          BY <4>2 DEF AppendLine
        <5>2. [disk[f] EXCEPT !.len = disk[f].len + 1] \in [ino : Nat, inc : Nat, len : Nat]
          BY <4>1
        <5>3. QED
          BY <4>1, <5>1, <5>2
      <4>3. CASE Delete(f)
        BY <4>1, <4>3 DEF Delete, AbsentFile
      <4>4. QED
        BY <2>3, <4>2, <4>3
    <3>2. UNCHANGED <<incs, cursors, scanVars, net, serverVars, faults>>
      BY <2>3 DEF AppendLine, Delete
    <3>3. QED
      BY <3>1, <3>2 DEF TypeOK, scanVars, serverVars
  <2>4. ASSUME NEW f \in Files, Create(f) PROVE TypeOK'
    BY <2>1, <2>2, <2>4 DEF Create
  <2>5. ASSUME NEW f \in Files, Rotate(f) PROVE TypeOK'
    BY <2>1, <2>2, <2>5 DEF Rotate
  <2>6. ASSUME NEW f \in Files, Rewrite(f) PROVE TypeOK'
    BY <2>1, <2>6 DEF Rewrite, TypeOK
  <2>7. QED
    BY <1>w, <2>3, <2>4, <2>5, <2>6 DEF WriterStep
<1>a. CASE StartScan
  BY <1>a DEF StartScan, TypeOK, fsVars, serverVars
<1>b. ASSUME NEW f \in Files, StatFile(f) PROVE TypeOK'
  <2> DEFINE c == cursors[f]
             reset == ShouldReset(f, c)
             gen == IF c = NoCursor THEN 1 ELSE IF reset THEN c.gen + 1 ELSE c.gen
             from == IF reset THEN 0 ELSE c.off
             tail == IF reset THEN NoTail ELSE c.tail
  <2>1. gen \in Nat /\ from \in Nat /\ tail \in Nat \X Nat
    BY DEF TypeOK, Cursors, NoTail
  <2>2. CASE disk[f].len <= from
    <3>1. Batch(f, gen, from, from, disk[f].inc, disk[f].ino, tail)
      BY <1>b, <2>2 DEF StatFile
    <3>2. disk[f].inc \in Nat /\ disk[f].ino \in Nat
      BY DEF TypeOK
    <3>3. UNCHANGED <<waiting, pc>>
      BY <1>b DEF StatFile
    <3> HIDE DEF gen, from, tail
    <3>4. /\ reading' = NoRead /\ toRead' \subseteq Files /\ sent' \in [Files -> Nat]
          /\ batches' \in [Files -> {NoBatch} \cup Batches]
      BY <2>1, <3>1, <3>2, <3>3, BatchTypes
    <3>5. QED
      BY <1>b, <3>4 DEF StatFile, TypeOK, Batches, fsVars, serverVars
  <2>3. CASE ~(disk[f].len <= from)
    <3>1. reading' = [stage |-> "open", file |-> f, gen |-> gen, from |-> from,
                      to |-> disk[f].len, inc |-> disk[f].inc,
                      ino |-> disk[f].ino, tail |-> tail]
          /\ UNCHANGED <<batches, sent, toRead>>
      BY <1>b, <2>3 DEF StatFile
    <3> HIDE DEF gen, from, tail
    <3>2. reading' \in Readings
      BY <2>1, <3>1 DEF TypeOK, Readings
    <3>3. QED
      BY <1>b, <3>1, <3>2 DEF StatFile, TypeOK, Readings, fsVars, serverVars
  <2>4. QED
    BY <2>2, <2>3
<1>c. CASE ReadLines
  <2>1. reading \in Readings /\ reading.stage = "open"
    <3>1. reading.stage = "open"
      BY <1>c DEF ReadLines
    <3>2. QED
      BY <3>1 DEF TypeOK, NoRead
  <2> DEFINE f == reading.file
             avail == Least(reading.to, disk[f].len)
  <2>2. f \in Files /\ avail \in Nat /\ disk[f].inc \in Nat
    BY <2>1 DEF TypeOK, Readings, Least
  <2>3. CASE avail <= reading.from
    <3>1. Batch(f, reading.gen, reading.from, reading.from, disk[f].inc, reading.ino,
                reading.tail)
      BY <1>c, <2>3 DEF ReadLines
    <3>2. UNCHANGED <<waiting, pc>>
      BY <1>c DEF ReadLines
    <3>3. /\ reading' = NoRead /\ toRead' \subseteq Files /\ sent' \in [Files -> Nat]
          /\ batches' \in [Files -> {NoBatch} \cup Batches]
      BY <2>1, <2>2, <3>1, <3>2, BatchTypes DEF Readings
    <3>4. QED
      BY <1>c, <3>3 DEF ReadLines, TypeOK, Batches, fsVars, serverVars
  <2>4. CASE ~(avail <= reading.from)
    <3>1. PICK to \in (reading.from + 1)..avail :
             reading' = [reading EXCEPT !.stage = "tail", !.to = to, !.inc = disk[f].inc]
      BY <1>c, <2>4 DEF ReadLines
    <3>2. UNCHANGED <<batches, sent, toRead>>
      BY <1>c, <2>4 DEF ReadLines
    <3>3. reading' \in Readings
      <4>1. to \in Nat
        BY <2>1, <2>2, <3>1 DEF Readings
      <4> HIDE DEF avail, f
      <4>2. QED
        BY <2>1, <2>2, <3>1, <4>1 DEF Readings
    <3>4. QED
      BY <1>c, <3>2, <3>3 DEF ReadLines, TypeOK, Readings, fsVars, serverVars
  <2>5. QED
    BY <2>3, <2>4
<1>d. CASE ReadTail
  <2>1. reading \in Readings
    BY <1>d DEF ReadTail, TypeOK, Readings, NoRead
  <2>2. TailHash(reading.file, reading.to) \in Nat \X Nat
    BY <2>1, TailHashType DEF Readings
  <2>3. /\ reading' = NoRead /\ toRead' \subseteq Files /\ sent' \in [Files -> Nat]
        /\ batches' \in [Files -> {NoBatch} \cup Batches]
    <3>1. Batch(reading.file, reading.gen, reading.from, reading.to, reading.inc,
                reading.ino, TailHash(reading.file, reading.to))
      BY <1>d DEF ReadTail
    <3>2. UNCHANGED <<waiting, pc>>
      BY <1>d DEF ReadTail
    <3>3. QED
      BY <2>1, <2>2, <3>1, <3>2, BatchTypes DEF Readings
  <2>4. QED
    BY <1>d, <2>3 DEF ReadTail, TypeOK, Batches, fsVars, serverVars
<1>e. CASE FileVanished
  BY <1>e, ForgetTypes DEF FileVanished, TypeOK, fsVars, serverVars
<1>f. CASE PlanUpload
  BY <1>f, ForgetTypes DEF PlanUpload, TypeOK, fsVars, serverVars
<1>g. CASE SendInventory
  <2>1. [kind |-> "inventory", files |-> missing, attempt |-> 1] \in Requests
    BY DEF Requests, TypeOK
  <2>2. waiting' \in Requests /\ net' \subseteq Requests
    BY <1>g, <2>1 DEF SendInventory, Send, TypeOK
  <2>3. QED
    BY <1>g, <2>2 DEF SendInventory, TypeOK, fsVars, serverVars
<1>h. ASSUME NEW f \in Files, SendChunk(f) PROVE TypeOK'
  <2>1. batches[f] \in Batches /\ sent[f] \in Nat
    BY <1>h DEF SendChunk, TypeOK, Batches
  <2>2. PICK to \in (sent[f] + 1)..batches[f].to :
          Send([kind |-> "append", file |-> f, gen |-> batches[f].gen, from |-> sent[f],
                to |-> to, inc |-> batches[f].inc, attempt |-> 1])
    BY <1>h DEF SendChunk
  <2>3. [kind |-> "append", file |-> f, gen |-> batches[f].gen, from |-> sent[f],
         to |-> to, inc |-> batches[f].inc, attempt |-> 1] \in Requests
    BY <2>1, <2>2 DEF Requests, Batches
  <2>4. waiting' \in Requests /\ net' \subseteq Requests
    BY <2>2, <2>3 DEF Send, TypeOK
  <2>5. QED
    BY <1>h, <2>4 DEF SendChunk, TypeOK, fsVars, serverVars
<1>i. CASE SaveState
  <2>1. \A f \in Files : cursors'[f] \in Cursors
    BY <1>i DEF SaveState, TypeOK, Cursors, Batches, NoCursor
  <2>2. cursors' \in [Files -> Cursors]
    BY <1>i, <2>1 DEF SaveState
  <2>3. QED
    BY <1>i, <2>2, ForgetTypes DEF SaveState, TypeOK, fsVars, serverVars
<1>j. ASSUME NEW r \in net, HandleAppend(r) PROVE TypeOK'
  <2>1. r \in Requests /\ r.kind = "append"
    BY <1>j DEF HandleAppend, TypeOK
  <2>2. /\ r.file \in Files /\ r.gen \in Nat /\ r.from \in Nat /\ r.to \in Nat
        /\ r.inc \in Nat /\ r.from < r.to
    BY <2>1 DEF Requests
  <2> DEFINE new == {[gen |-> r.gen, idx |-> i, inc |-> r.inc, chunk |-> <<r.from, r.to>>,
                      rev |-> revision + (i - r.from)] : i \in (r.from + 1)..r.to}
  <2>3. new \subseteq EventRows
    BY <2>2 DEF EventRows, TypeOK
  <2>4. events' \in [Files -> SUBSET EventRows]
    <3>1. events' = [events EXCEPT ![r.file] = UpsertEvents(@, new)]
      BY <1>j DEF HandleAppend
    <3>2. events \in [Files -> SUBSET EventRows]
      BY DEF TypeOK
    <3> HIDE DEF new
    <3>3. UpsertEvents(events[r.file], new) \in SUBSET EventRows
      BY <2>2, <2>3, <3>2, UpsertTypes
    <3>4. QED
      BY <3>1, <3>2, <3>3
  <2>5. chunks' \in [Files -> SUBSET ChunkRows]
    <3>1. [gen |-> r.gen, from |-> r.from, to |-> r.to, inc |-> r.inc] \in ChunkRows
      BY <2>2 DEF ChunkRows
    <3>2. chunks \in [Files -> SUBSET ChunkRows]
      BY DEF TypeOK
    <3>3. QED
      BY <1>j, <2>2, <3>1, <3>2 DEF HandleAppend, UpsertChunk
  <2>6. /\ source' \in [Files -> [known : BOOLEAN, gen : Nat, deleted : BOOLEAN]]
        /\ ackCursor' \in [Files -> [gen : Nat, off : Nat]]
        /\ revision' \in Nat
        /\ sent' \in [Files -> Nat]
    <3>1. UpsertSource(source[r.file], r.gen, FALSE) \in
              [known : BOOLEAN, gen : Nat, deleted : BOOLEAN]
      BY <2>2 DEF UpsertSource, TypeOK
    <3>2. source' \in [Files -> [known : BOOLEAN, gen : Nat, deleted : BOOLEAN]]
      BY <1>j, <2>2, <3>1 DEF HandleAppend, TypeOK
    <3>3. /\ ackCursor' = [ackCursor EXCEPT ![r.file] = [gen |-> r.gen, off |-> r.to]]
          /\ revision' = revision + (r.to - r.from)
          /\ sent' = IF waiting = r THEN [sent EXCEPT ![r.file] = r.to] ELSE sent
      BY <1>j DEF HandleAppend
    <3>4. QED
      BY <2>2, <3>2, <3>3 DEF TypeOK
  <2>7. net' \subseteq Requests /\ (waiting' = NoRequest \/ waiting' \in Requests)
    BY <1>j DEF HandleAppend, Reply, TypeOK
  <2>8. QED
    BY <1>j, <2>4, <2>5, <2>6, <2>7 DEF HandleAppend, TypeOK, fsVars
<1>k. ASSUME NEW r \in net, HandleInventory(r) PROVE TypeOK'
  BY <1>k DEF HandleInventory, UpsertSource, Reply, TypeOK, fsVars
<1>l. CASE RequestFails
  <2>1. waiting \in Requests
    BY <1>l DEF RequestFails, TypeOK
  <2>2. CASE MayRetry(waiting)
    <3>1. [waiting EXCEPT !.attempt = @ + 1] \in Requests
      BY <2>1, <2>2 DEF MayRetry, Requests
    <3>2. waiting' \in Requests /\ net' \subseteq Requests
      <4>1. net \subseteq Requests
        BY DEF TypeOK
      <4>2. QED
        BY <1>l, <2>2, <3>1, <4>1 DEF RequestFails
    <3>3. QED
      BY <1>l, <2>2, <3>2 DEF RequestFails, TypeOK, fsVars, serverVars
  <2>3. CASE ~MayRetry(waiting)
    BY <1>l, <2>3, ForgetTypes DEF RequestFails, TypeOK, fsVars, serverVars
  <2>4. QED
    BY <2>2, <2>3
<1>m. CASE Crash
  BY <1>m, ForgetTypes DEF Crash, TypeOK, fsVars, serverVars
<1>n. CASE LoseState
  BY <1>n DEF LoseState, TypeOK, Cursors, NoCursor, fsVars, scanVars, serverVars
<1>o. CASE UNCHANGED vars
  BY <1>o DEF TypeOK, vars, fsVars, scanVars, serverVars
<1>q. QED
  BY <1>w, <1>a, <1>b, <1>c, <1>d, <1>e, <1>f, <1>g, <1>h, <1>i, <1>j, <1>k, <1>l, <1>m,
     <1>n, <1>o DEF Next, AgentStep, ServerStep, Fault

LEMMA InitTypes == Init => TypeOK
<1> SUFFICES ASSUME Init PROVE TypeOK
  OBVIOUS
<1>1. /\ disk \in [Files -> [ino : Nat, inc : Nat, len : Nat]]
      /\ incs \in [Files -> 0..MaxIncs]
      /\ cursors \in [Files -> Cursors]
  BY DEF Init, AbsentFile, NoCursor, Cursors
<1>2. /\ batches \in [Files -> {NoBatch} \cup Batches]
      /\ sent \in [Files -> Nat]
      /\ chunks \in [Files -> SUBSET ChunkRows]
      /\ events \in [Files -> SUBSET EventRows]
  BY DEF Init
<1>3. /\ source \in [Files -> [known : BOOLEAN, gen : Nat, deleted : BOOLEAN]]
      /\ ackCursor \in [Files -> [gen : Nat, off : Nat]]
  BY DEF Init
<1>4. uploadsOn \in BOOLEAN
  BY DEF Init
<1>5. revision \in Nat /\ faults \in 0..MaxFaults
  BY DEF Init
<1>6. /\ pc \in {"idle", "read", "inventory", "upload"}
      /\ toRead \subseteq Files /\ missing \subseteq Files /\ net \subseteq Requests
      /\ reading = NoRead /\ waiting = NoRequest
  BY DEF Init
<1>7. QED
  BY <1>1, <1>2, <1>3, <1>4, <1>5, <1>6, Zenon DEF TypeOK

\* Every state the system reaches is well typed (all of AgentSync's variables).
THEOREM TypeCorrect == Spec => []TypeOK
BY InitTypes, TypeStep, PTL DEF Spec

----------------------------------------------------------------------------
(* Safety *)

\* Every entry of the event table survives the step.
EntriesKept ==
    \A f \in Files, gen \in Nat, i \in Nat :
        (\E e \in events[f] : e.gen = gen /\ e.idx = i) =>
            \E e \in events'[f] : e.gen = gen /\ e.idx = i

\* Only an append writes the event table.
LEMMA OnlyAppendsWrite ==
    ASSUME [Next]_vars, \A r \in net : ~HandleAppend(r)
    PROVE  events' = events
<1>1. CASE WriterStep
  BY <1>1 DEF WriterStep, Create, Rotate, Rewrite, WriteFile, AppendLine, Delete, serverVars
<1>2. CASE StartScan \/ (\E f \in Files : StatFile(f)) \/ ReadLines \/ ReadTail
  BY <1>2 DEF StartScan, StatFile, ReadLines, ReadTail, serverVars
<1>3. CASE \/ FileVanished \/ PlanUpload \/ SendInventory
           \/ (\E f \in Files : SendChunk(f)) \/ SaveState
  BY <1>3 DEF FileVanished, PlanUpload, SendInventory, SendChunk, SaveState, serverVars
<1>4. CASE \E r \in net : HandleInventory(r)
  BY <1>4 DEF HandleInventory
<1>5. CASE Fault
  BY <1>5 DEF Fault, RequestFails, Crash, LoseState, serverVars
<1>6. CASE UNCHANGED vars
  BY <1>6 DEF vars, serverVars
<1>7. QED
  BY <1>1, <1>2, <1>3, <1>4, <1>5, <1>6 DEF Next, AgentStep, ServerStep

\* The server's rows under one generation and line are replaced, never removed.
LEMMA StepKeepsEntries == TypeOK /\ [Next]_vars => EntriesKept
<1> SUFFICES ASSUME TypeOK, [Next]_vars PROVE EntriesKept
  OBVIOUS
<1>1. CASE \A r \in net : ~HandleAppend(r)
  BY <1>1, OnlyAppendsWrite DEF EntriesKept
<1>2. ASSUME NEW r \in net, HandleAppend(r) PROVE EntriesKept
  <2>1. PICK new : events' = [events EXCEPT ![r.file] = UpsertEvents(@, new)]
    BY <1>2 DEF HandleAppend
  <2>2. SUFFICES ASSUME NEW f \in Files, NEW gen \in Nat, NEW i \in Nat,
                        \E e \in events[f] : e.gen = gen /\ e.idx = i
                 PROVE  \E e \in events'[f] : e.gen = gen /\ e.idx = i
    BY DEF EntriesKept
  <2>3. events'[f] = events[f] \/ events'[f] = UpsertEvents(events[f], new)
    BY <2>1 DEF TypeOK
  <2>4. QED
    <3>1. \E e \in UpsertEvents(events[f], new) : e.gen = gen /\ e.idx = i
      BY <2>2, UpsertKeeps
    <3>2. QED
      BY <2>2, <2>3, <3>1
<1>3. QED
  BY <1>1, <1>2

\* What was stored stays stored.
LEMMA StoredKept ==
    ASSUME EntriesKept, NEW f \in Files, NEW gen \in Nat, NEW n \in Nat, Stored(f, gen, n)
    PROVE  Stored(f, gen, n)'
BY DEF EntriesKept, Stored

\* An append leaves its whole span stored if the lines before it were.
LEMMA AppendStores ==
    ASSUME TypeOK, EntriesKept, NEW r \in net, HandleAppend(r),
           Stored(r.file, r.gen, r.from)
    PROVE  Stored(r.file, r.gen, r.to)'
<1>1. /\ r.file \in Files /\ r.gen \in Nat /\ r.from \in Nat /\ r.to \in Nat
  BY DEF TypeOK, HandleAppend, Requests
<1> DEFINE row(i) == [gen |-> r.gen, idx |-> i, inc |-> r.inc, chunk |-> <<r.from, r.to>>,
                      rev |-> revision + (i - r.from)]
           new == {row(i) : i \in (r.from + 1)..r.to}
<1>2. events'[r.file] = UpsertEvents(events[r.file], new)
  <2>1. events' = [events EXCEPT ![r.file] = UpsertEvents(@, new)]
    BY DEF HandleAppend
  <2>2. QED
    BY <1>1, <2>1 DEF TypeOK
<1>3. ASSUME NEW i \in (r.from + 1)..r.to
      PROVE  \E e \in events'[r.file] : e.gen = r.gen /\ e.idx = i
  <2>1. row(i) \in new /\ row(i).gen = r.gen /\ row(i).idx = i
    OBVIOUS
  <2>2. row(i) \in events'[r.file]
    BY <1>2, <2>1 DEF UpsertEvents
  <2>3. QED
    BY <2>1, <2>2
<1>4. ASSUME NEW i \in 1..r.from
      PROVE  \E e \in events'[r.file] : e.gen = r.gen /\ e.idx = i
  BY <1>1, <1>4 DEF EntriesKept, Stored
<1>5. ASSUME NEW i \in 1..r.to PROVE i \in 1..r.from \/ i \in (r.from + 1)..r.to
  BY <1>1
<1>6. QED
  BY <1>1, <1>3, <1>4, <1>5 DEF Stored

----------------------------------------------------------------------------
(* The inductive step *)

\* What the invariant still needs of a step once the types are settled.
Others == PhasesApart /\ InFlightStored /\ WaitingContinues /\ CursorNeverAhead

\* A step that leaves the scan alone keeps the invariant.
LEMMA QuietStep ==
    ASSUME IInv, EntriesKept, UNCHANGED <<cursors, pc, reading, batches, sent, waiting>>
    PROVE  Others'
<1>1. ASSUME NEW f \in Files, cursors[f] # NoCursor
      PROVE  Stored(f, cursors[f].gen, cursors[f].off)'
  BY <1>1, StoredKept DEF IInv, TypeOK, Cursors, CursorNeverAhead
<1>2. ASSUME NEW f \in Files, batches[f] # NoBatch
      PROVE  Stored(f, batches[f].gen, sent[f])'
  BY <1>2, StoredKept DEF IInv, TypeOK, Batches, InFlightStored
<1>3. ASSUME reading # NoRead
      PROVE  Stored(reading.file, reading.gen, reading.from)'
  BY <1>3, StoredKept DEF IInv, TypeOK, Readings, InFlightStored
<1>4. PhasesApart' /\ WaitingContinues'
  BY DEF IInv, PhasesApart, WaitingContinues
<1>5. InFlightStored'
  BY <1>2, <1>3 DEF InFlightStored
<1>6. CursorNeverAhead'
  BY <1>1 DEF CursorNeverAhead
<1>7. QED
  BY <1>4, <1>5, <1>6 DEF Others

\* A scan that ends without saving keeps the invariant.
LEMMA ForgetStep ==
    ASSUME IInv, EntriesKept, Forget, UNCHANGED cursors
    PROVE  Others'
<1>1. ASSUME NEW f \in Files, cursors[f] # NoCursor
      PROVE  Stored(f, cursors[f].gen, cursors[f].off)'
  BY <1>1, StoredKept DEF IInv, TypeOK, Cursors, CursorNeverAhead
<1>2. CursorNeverAhead'
  BY <1>1 DEF CursorNeverAhead
<1>3. PhasesApart' /\ InFlightStored' /\ WaitingContinues'
  BY DEF Forget, PhasesApart, InFlightStored, WaitingContinues, NoRequest
<1>4. QED
  BY <1>2, <1>3 DEF Others

\* A finished read leaves a batch whose first unsent line follows stored ones.
LEMMA BatchStep ==
    ASSUME IInv, EntriesKept, pc = "read", NEW f \in Files, NEW gen \in Nat,
           NEW from \in Nat, NEW to, NEW inc, NEW ino, NEW tail,
           Stored(f, gen, from), Batch(f, gen, from, to, inc, ino, tail),
           UNCHANGED <<cursors, pc, waiting>>
    PROVE  Others'
<1>1. ASSUME NEW g \in Files, cursors[g] # NoCursor
      PROVE  Stored(g, cursors[g].gen, cursors[g].off)'
  BY <1>1, StoredKept DEF IInv, TypeOK, Cursors, CursorNeverAhead
<1>2. ASSUME NEW g \in Files, batches'[g] # NoBatch
      PROVE  Stored(g, batches[g].gen, sent[g])'
  <2>1. CASE g = f
    <3>1. batches'[f].gen = gen /\ sent'[f] = from
      BY DEF Batch, IInv, TypeOK
    <3>2. Stored(f, gen, from)'
      BY StoredKept
    <3>3. QED
      BY <2>1, <3>1, <3>2 DEF Stored
  <2>2. CASE g # f
    <3>1. batches'[g] = batches[g] /\ sent'[g] = sent[g]
      BY <2>2 DEF Batch, IInv, TypeOK
    <3>2. Stored(g, batches[g].gen, sent[g])
      BY <1>2, <3>1 DEF IInv, InFlightStored
    <3>3. batches[g].gen \in Nat /\ sent[g] \in Nat
      BY <1>2, <3>1 DEF IInv, TypeOK, Batches
    <3>4. \A i \in 1..sent[g] : \E e \in events'[g] : e.gen = batches[g].gen /\ e.idx = i
      BY <3>2, <3>3 DEF EntriesKept, Stored
    <3>5. QED
      BY <3>1, <3>4 DEF Stored
  <2>3. QED
    BY <2>1, <2>2
<1>3. waiting = NoRequest /\ waiting' = NoRequest /\ reading' = NoRead
  BY DEF IInv, PhasesApart, Batch
<1>4. PhasesApart' /\ WaitingContinues'
  BY <1>3 DEF PhasesApart, WaitingContinues, NoRequest
<1>5. InFlightStored'
  BY <1>2, <1>3 DEF InFlightStored
<1>6. CursorNeverAhead'
  BY <1>1 DEF CursorNeverAhead
<1>7. QED
  BY <1>4, <1>5, <1>6 DEF Others

\* The awaited append's answer lets the scan go on from its last line.
LEMMA AppendStep ==
    ASSUME IInv, EntriesKept, NEW r \in net, HandleAppend(r)
    PROVE  Others'
<1>1. /\ r.file \in Files /\ r.gen \in Nat /\ r.from \in Nat /\ r.to \in Nat
  BY DEF IInv, TypeOK, HandleAppend, Requests
<1>2. UNCHANGED <<cursors, pc, reading, batches>>
  BY DEF HandleAppend
<1>3. CASE waiting # r
  <2>1. UNCHANGED <<sent, waiting>>
    BY <1>3 DEF HandleAppend, Reply
  <2>2. QED
    BY <1>2, <2>1, QuietStep
<1>4. CASE waiting = r
  <2>1. /\ waiting' = NoRequest
        /\ sent' = [sent EXCEPT ![r.file] = r.to]
        /\ waiting.kind = "append"
    BY <1>4 DEF HandleAppend, Reply
  <2>2. /\ batches[r.file] # NoBatch /\ r.gen = batches[r.file].gen
        /\ r.from = sent[r.file]
    BY <1>4, <2>1 DEF IInv, WaitingContinues
  <2>3. Stored(r.file, r.gen, r.to)'
    BY <1>1, <2>2, AppendStores DEF IInv, InFlightStored
  <2>4. ASSUME NEW f \in Files, cursors[f] # NoCursor
        PROVE  Stored(f, cursors[f].gen, cursors[f].off)'
    BY <1>2, <2>4, StoredKept DEF IInv, TypeOK, Cursors, CursorNeverAhead
  <2>5. ASSUME NEW f \in Files, batches[f] # NoBatch
        PROVE  Stored(f, batches[f].gen, sent[f])'
    <3>1. CASE f = r.file
      <4>1. sent'[f] = r.to /\ batches'[f].gen = r.gen
        BY <1>1, <1>2, <2>1, <2>2, <3>1 DEF IInv, TypeOK
      <4>2. QED
        BY <2>3, <3>1, <4>1 DEF Stored
    <3>2. CASE f # r.file
      <4>1. sent'[f] = sent[f] /\ batches'[f] = batches[f]
        BY <1>2, <2>1, <3>2 DEF IInv, TypeOK
      <4>2. Stored(f, batches[f].gen, sent[f])
        BY <2>5 DEF IInv, InFlightStored
      <4>3. batches[f].gen \in Nat /\ sent[f] \in Nat
        BY <2>5 DEF IInv, TypeOK, Batches
      <4>4. \A i \in 1..sent[f] : \E e \in events'[f] : e.gen = batches[f].gen /\ e.idx = i
        BY <4>2, <4>3 DEF EntriesKept, Stored
      <4>5. QED
        BY <4>1, <4>4 DEF Stored
    <3>3. QED
      BY <3>1, <3>2
  <2>6. reading' = NoRead
    BY <1>2, <1>4, <2>1 DEF IInv, PhasesApart, NoRequest
  <2>7. PhasesApart' /\ WaitingContinues'
    BY <2>1, <2>6 DEF PhasesApart, WaitingContinues, NoRequest
  <2>8. InFlightStored'
    BY <1>2, <2>5, <2>6 DEF InFlightStored
  <2>9. CursorNeverAhead'
    BY <1>2, <2>4 DEF CursorNeverAhead
  <2>10. QED
    BY <2>7, <2>8, <2>9 DEF Others
<1>5. QED
  BY <1>3, <1>4

\* The saved cursors describe batches that are stored to their last line.
LEMMA SaveStep ==
    ASSUME IInv, EntriesKept, SaveState
    PROVE  Others'
<1>1. ASSUME NEW f \in Files, cursors'[f] # NoCursor
      PROVE  Stored(f, cursors[f].gen, cursors[f].off)'
  <2>1. CASE batches[f] # NoBatch
    <3>1. cursors'[f].gen = batches[f].gen /\ cursors'[f].off = batches[f].to
      BY <2>1 DEF SaveState
    <3>2. Stored(f, batches[f].gen, batches[f].to)
      BY <2>1 DEF SaveState, AllSent, IInv, InFlightStored
    <3>3. batches[f].gen \in Nat /\ batches[f].to \in Nat
      BY <2>1 DEF IInv, TypeOK, Batches
    <3>4. \A i \in 1..batches[f].to :
             \E e \in events'[f] : e.gen = batches[f].gen /\ e.idx = i
      BY <3>2, <3>3 DEF EntriesKept, Stored
    <3>5. QED
      BY <3>1, <3>4 DEF Stored
  <2>2. CASE batches[f] = NoBatch
    <3>1. cursors'[f] = cursors[f]
      BY <1>1, <2>2 DEF SaveState
    <3>2. Stored(f, cursors[f].gen, cursors[f].off)
      BY <1>1, <3>1 DEF IInv, CursorNeverAhead
    <3>3. cursors[f].gen \in Nat /\ cursors[f].off \in Nat
      BY DEF IInv, TypeOK, Cursors
    <3>4. \A i \in 1..cursors[f].off :
             \E e \in events'[f] : e.gen = cursors[f].gen /\ e.idx = i
      BY <3>2, <3>3 DEF EntriesKept, Stored
    <3>5. QED
      BY <3>1, <3>4 DEF Stored
  <2>3. QED
    BY <2>1, <2>2
<1>2. CursorNeverAhead'
  BY <1>1 DEF CursorNeverAhead
<1>3. PhasesApart' /\ InFlightStored' /\ WaitingContinues'
  BY DEF SaveState, Forget, PhasesApart, InFlightStored, WaitingContinues, NoRequest
<1>4. QED
  BY <1>2, <1>3 DEF Others

\* Starting to read a file: the lines behind the read position are stored.
LEMMA StatStep ==
    ASSUME IInv, EntriesKept, NEW f \in Files, StatFile(f)
    PROVE  Others'
<1> DEFINE c == cursors[f]
           reset == ShouldReset(f, c)
           gen == IF c = NoCursor THEN 1 ELSE IF reset THEN c.gen + 1 ELSE c.gen
           from == IF reset THEN 0 ELSE c.off
           tail == IF reset THEN NoTail ELSE c.tail
<1>1. gen \in Nat /\ from \in Nat
  BY DEF IInv, TypeOK, Cursors
<1>2. Stored(f, gen, from)
  <2>1. CASE from = 0
    BY <2>1 DEF Stored
  <2>2. CASE from # 0
    <3>1. c # NoCursor /\ gen = c.gen /\ from = c.off
      BY <2>2 DEF NoCursor
    <3>2. QED
      BY <3>1 DEF IInv, CursorNeverAhead
  <2>3. QED
    BY <2>1, <2>2
<1>3. pc = "read" /\ UNCHANGED <<cursors, pc, waiting>>
  BY DEF StatFile
<1>4. CASE disk[f].len <= from
  <2>1. Batch(f, gen, from, from, disk[f].inc, disk[f].ino, tail)
    BY <1>4 DEF StatFile
  <2> HIDE DEF gen, from, tail
  <2>2. QED
    BY <1>1, <1>2, <1>3, <2>1, BatchStep
<1>5. CASE ~(disk[f].len <= from)
  <2>1. reading' = [stage |-> "open", file |-> f, gen |-> gen, from |-> from,
                    to |-> disk[f].len, inc |-> disk[f].inc,
                    ino |-> disk[f].ino, tail |-> tail]
        /\ UNCHANGED <<batches, sent>>
    BY <1>5 DEF StatFile
  <2> HIDE DEF gen, from, tail
  <2>2. \A i \in 1..from : \E e \in events'[f] : e.gen = gen /\ e.idx = i
    BY <1>1, <1>2 DEF EntriesKept, Stored
  <2>3. Stored(reading.file, reading.gen, reading.from)'
    BY <2>1, <2>2 DEF Stored
  <2>4. ASSUME NEW g \in Files, batches[g] # NoBatch
        PROVE  Stored(g, batches[g].gen, sent[g])'
    BY <1>3, <2>1, <2>4, StoredKept DEF IInv, TypeOK, Batches, InFlightStored
  <2>5. ASSUME NEW g \in Files, cursors[g] # NoCursor
        PROVE  Stored(g, cursors[g].gen, cursors[g].off)'
    BY <1>3, <2>5, StoredKept DEF IInv, TypeOK, Cursors, CursorNeverAhead
  <2>6. waiting' = NoRequest
    BY <1>3 DEF IInv, PhasesApart
  <2>7. PhasesApart' /\ WaitingContinues'
    BY <1>3, <2>6 DEF PhasesApart, WaitingContinues, NoRequest
  <2>8. InFlightStored'
    BY <2>1, <2>3, <2>4 DEF InFlightStored
  <2>9. CursorNeverAhead'
    BY <1>3, <2>5 DEF CursorNeverAhead
  <2>10. QED
    BY <2>7, <2>8, <2>9 DEF Others
<1>6. QED
  BY <1>4, <1>5

LEMMA InvStep == IInv /\ [Next]_vars => IInv'
<1> SUFFICES ASSUME IInv, [Next]_vars PROVE IInv'
  OBVIOUS
<1>1. TypeOK' /\ EntriesKept
  BY TypeStep, StepKeepsEntries DEF IInv
<1>w. CASE WriterStep
  <2>1. UNCHANGED <<cursors, pc, reading, batches, sent, waiting>>
    BY <1>w DEF WriterStep, Create, Rotate, Rewrite, WriteFile, AppendLine, Delete, scanVars
  <2>2. QED
    BY <1>1, <2>1, QuietStep DEF IInv, Others
<1>a. CASE StartScan
  <2>1. UNCHANGED <<cursors, reading, batches, sent, waiting, events>>
        /\ pc = "idle" /\ pc' = "read"
    BY <1>a DEF StartScan, serverVars
  <2>2. Others'
    BY <2>1 DEF IInv, Others, PhasesApart, InFlightStored, WaitingContinues,
                CursorNeverAhead, Stored
  <2>3. QED
    BY <1>1, <2>2 DEF IInv, Others
<1>b. CASE \E f \in Files : StatFile(f)
  BY <1>1, <1>b, StatStep DEF IInv, Others
<1>c. CASE ReadLines
  <2>1. reading.stage = "open"
    BY <1>c DEF ReadLines
  <2>2. reading \in Readings /\ reading # NoRead
    BY <2>1 DEF IInv, TypeOK, NoRead
  <2>3. pc = "read" /\ Stored(reading.file, reading.gen, reading.from)
    BY <2>2 DEF IInv, PhasesApart, InFlightStored
  <2>4. UNCHANGED <<cursors, pc, waiting, events>>
    BY <1>c DEF ReadLines, serverVars
  <2>5. CASE reading' = NoRead
    <3>1. Batch(reading.file, reading.gen, reading.from, reading.from,
                disk[reading.file].inc, reading.ino, reading.tail)
      BY <1>c, <2>1, <2>2, <2>5 DEF ReadLines, Readings, NoRead
    <3>2. QED
      BY <1>1, <2>2, <2>3, <2>4, <3>1, BatchStep DEF IInv, Others, Readings
  <2>6. CASE reading' # NoRead
    <3>1. PICK to : reading' = [reading EXCEPT !.stage = "tail", !.to = to,
                                               !.inc = disk[reading.file].inc]
      BY <1>c, <2>6 DEF ReadLines, Batch
    <3>2. UNCHANGED <<batches, sent>>
      BY <1>c, <2>6 DEF ReadLines, Batch
    <3>3. /\ reading'.file = reading.file
          /\ reading'.gen = reading.gen
          /\ reading'.from = reading.from
      BY <2>2, <3>1 DEF Readings
    <3>4. Others'
      BY <2>2, <2>3, <2>4, <3>2, <3>3 DEF IInv, Others, PhasesApart, InFlightStored,
         WaitingContinues, CursorNeverAhead, Stored
    <3>5. QED
      BY <1>1, <3>4 DEF IInv, Others
  <2>7. QED
    BY <2>5, <2>6
<1>d. CASE ReadTail
  <2>1. reading.stage = "tail"
    BY <1>d DEF ReadTail
  <2>2. reading \in Readings /\ reading # NoRead
    BY <2>1 DEF IInv, TypeOK, NoRead
  <2>3. pc = "read" /\ Stored(reading.file, reading.gen, reading.from)
    BY <2>2 DEF IInv, PhasesApart, InFlightStored
  <2>4. UNCHANGED <<cursors, pc, waiting>>
    BY <1>d DEF ReadTail
  <2>5. Batch(reading.file, reading.gen, reading.from, reading.to, reading.inc,
              reading.ino, TailHash(reading.file, reading.to))
    BY <1>d DEF ReadTail
  <2>6. QED
    BY <1>1, <2>2, <2>3, <2>4, <2>5, BatchStep DEF IInv, Others, Readings
<1>e. CASE FileVanished
  BY <1>1, <1>e, ForgetStep DEF FileVanished, IInv, Others
<1>f. CASE PlanUpload
  <2>1. CASE Forget
    BY <1>1, <1>f, <2>1, ForgetStep DEF PlanUpload, IInv, Others
  <2>2. CASE ~Forget
    <3>1. /\ pc = "read" /\ pc' \in {"inventory", "upload"} /\ reading = NoRead
          /\ UNCHANGED <<cursors, reading, batches, sent, waiting, events>>
      BY <1>f, <2>2 DEF PlanUpload, serverVars
    <3>2. Others'
      BY <3>1 DEF IInv, Others, PhasesApart, InFlightStored, WaitingContinues,
                  CursorNeverAhead, Stored
    <3>3. QED
      BY <1>1, <3>2 DEF IInv, Others
  <2>3. QED
    BY <2>1, <2>2
<1>g. CASE SendInventory
  <2>1. /\ pc = "inventory" /\ waiting'.kind = "inventory"
        /\ UNCHANGED <<cursors, pc, reading, batches, sent, events>>
    BY <1>g DEF SendInventory, Send, serverVars
  <2>2. Others'
    BY <2>1 DEF IInv, Others, PhasesApart, InFlightStored, WaitingContinues,
                CursorNeverAhead, Stored
  <2>3. QED
    BY <1>1, <2>2 DEF IInv, Others
<1>h. ASSUME NEW f \in Files, SendChunk(f) PROVE IInv'
  <2>1. /\ pc = "upload" /\ batches[f] # NoBatch
        /\ waiting'.file = f /\ waiting'.gen = batches[f].gen /\ waiting'.from = sent[f]
        /\ UNCHANGED <<cursors, pc, reading, batches, sent, events>>
    BY <1>h DEF SendChunk, Send, serverVars
  <2>2. Others'
    BY <2>1 DEF IInv, Others, PhasesApart, InFlightStored, WaitingContinues,
                CursorNeverAhead, Stored
  <2>3. QED
    BY <1>1, <2>2 DEF IInv, Others
<1>i. CASE SaveState
  BY <1>1, <1>i, SaveStep DEF IInv, Others
<1>j. CASE \E r \in net : HandleAppend(r)
  BY <1>1, <1>j, AppendStep DEF IInv, Others
<1>k. ASSUME NEW r \in net, HandleInventory(r) PROVE IInv'
  <2>1. UNCHANGED <<cursors, reading, batches, sent, events>> /\ r.kind = "inventory"
    BY <1>k DEF HandleInventory
  <2>2. CASE waiting = r
    <3>1. waiting' = NoRequest /\ pc' = "upload"
      BY <1>k, <2>2 DEF HandleInventory, Reply
    <3>2. reading = NoRead
      BY <2>1, <2>2 DEF IInv, PhasesApart, NoRequest
    <3>3. Others'
      BY <2>1, <3>1, <3>2 DEF IInv, Others, PhasesApart, InFlightStored, WaitingContinues,
                              CursorNeverAhead, Stored, NoRequest
    <3>4. QED
      BY <1>1, <3>3 DEF IInv, Others
  <2>3. CASE waiting # r
    <3>1. UNCHANGED <<pc, waiting>>
      BY <1>k, <2>3 DEF HandleInventory, Reply
    <3>2. QED
      BY <1>1, <2>1, <3>1, QuietStep DEF IInv, Others
  <2>4. QED
    BY <2>2, <2>3
<1>l. CASE RequestFails
  <2>1. waiting \in Requests /\ UNCHANGED <<cursors, events>>
    BY <1>l DEF RequestFails, IInv, TypeOK, serverVars
  <2>2. CASE MayRetry(waiting)
    <3>1. waiting' = [waiting EXCEPT !.attempt = @ + 1]
          /\ UNCHANGED <<pc, reading, batches, sent>>
      BY <1>l, <2>2 DEF RequestFails
    <3>2. /\ waiting'.kind = waiting.kind
          /\ waiting.kind = "append" =>
                /\ waiting'.file = waiting.file
                /\ waiting'.gen = waiting.gen
                /\ waiting'.from = waiting.from
      BY <2>1, <3>1 DEF Requests
    <3>3. waiting # NoRequest
      BY <1>l DEF RequestFails
    <3>4. Others'
      BY <2>1, <3>1, <3>2, <3>3 DEF IInv, Others, PhasesApart, InFlightStored,
         WaitingContinues, CursorNeverAhead, Stored
    <3>5. QED
      BY <1>1, <3>4 DEF IInv, Others
  <2>3. CASE ~MayRetry(waiting)
    BY <1>1, <1>l, <2>1, <2>3, ForgetStep DEF RequestFails, IInv, Others
  <2>4. QED
    BY <2>2, <2>3
<1>m. CASE Crash
  BY <1>1, <1>m, ForgetStep DEF Crash, IInv, Others
<1>n. CASE LoseState
  <2>1. /\ cursors' = [f \in Files |-> NoCursor]
        /\ UNCHANGED <<pc, reading, batches, sent, waiting, events>>
    BY <1>n DEF LoseState, scanVars, serverVars
  <2>2. Others'
    BY <2>1 DEF IInv, Others, PhasesApart, InFlightStored, WaitingContinues,
                CursorNeverAhead, Stored
  <2>3. QED
    BY <1>1, <2>2 DEF IInv, Others
<1>o. CASE UNCHANGED vars
  <2>1. UNCHANGED <<cursors, pc, reading, batches, sent, waiting>>
    BY <1>o DEF vars, scanVars
  <2>2. QED
    BY <1>1, <2>1, QuietStep DEF IInv, Others
<1>q. QED
  BY <1>w, <1>a, <1>b, <1>c, <1>d, <1>e, <1>f, <1>g, <1>h, <1>i, <1>j, <1>k, <1>l, <1>m,
     <1>n, <1>o DEF Next, AgentStep, ServerStep, Fault

\* The invariant holds from the first state on.
LEMMA Invariance == Spec => []IInv
<1>1. Init => TypeOK
  BY InitTypes
<1>2. Init => IInv
  BY <1>1 DEF Init, IInv, PhasesApart, InFlightStored, WaitingContinues, CursorNeverAhead,
              NoRequest
<1>3. QED
  BY <1>2, InvStep, PTL DEF Spec

\* "If a request fails ... the agent does not advance local state" (README.md:60),
\* for any number of files, faults and rewrites: every line before a saved cursor
\* is in the server's event table under the cursor's generation.
THEOREM CursorSafety == Spec => []CursorNeverAhead
<1>1. IInv => CursorNeverAhead
  BY DEF IInv
<1>2. QED
  BY <1>1, Invariance, PTL

----------------------------------------------------------------------------
(* Refinement *)

LEMMA RefinesInit == Init => Log!Init
<1> SUFFICES ASSUME Init PROVE Log!Init
  OBVIOUS
<1>1. \A f \in Files : {<<e.gen, e.idx>> : e \in events[f]} = {}
  BY DEF Init
<1>2. \A f \in Files :
        [gen |-> cursors[f].gen, off |-> cursors[f].off] = [gen |-> 0, off |-> 0]
  BY DEF Init, NoCursor
<1>3. QED
  BY <1>1, <1>2 DEF Log!Init

\* Only saving and losing the state file write the cursors, and neither writes
\* the event table.
LEMMA WhoWritesCursors ==
    ASSUME [Next]_vars, cursors' # cursors
    PROVE  events' = events
<1>1. CASE WriterStep
  BY <1>1 DEF WriterStep, Create, Rotate, Rewrite, WriteFile, AppendLine, Delete
<1>2. CASE \/ StartScan \/ (\E f \in Files : StatFile(f)) \/ ReadLines \/ ReadTail
           \/ FileVanished \/ PlanUpload \/ SendInventory \/ \E f \in Files : SendChunk(f)
  BY <1>2 DEF StartScan, StatFile, ReadLines, ReadTail, FileVanished, PlanUpload,
              SendInventory, SendChunk
<1>3. CASE SaveState
  BY <1>3 DEF SaveState, serverVars
<1>4. CASE ServerStep
  BY <1>4 DEF ServerStep, HandleAppend, HandleInventory
<1>5. CASE Fault
  BY <1>5 DEF Fault, RequestFails, Crash, LoseState, serverVars
<1>6. CASE UNCHANGED vars
  BY <1>6 DEF vars
<1>7. QED
  BY <1>1, <1>2, <1>3, <1>4, <1>5, <1>6 DEF Next, AgentStep

LEMMA RefinesStep == IInv /\ IInv' /\ [Next]_vars => [Log!Next]_Log!vars
<1> SUFFICES ASSUME IInv, IInv', [Next]_vars PROVE Log!Next
  OBVIOUS
<1>1. CASE cursors' = cursors
  <2>1. EntriesKept
    BY StepKeepsEntries DEF IInv
  <2>2. ASSUME NEW f \in Files, NEW e \in events[f]
        PROVE  \E n \in events'[f] : <<e.gen, e.idx>> = <<n.gen, n.idx>>
    <3>1. e.gen \in Nat /\ e.idx \in Nat
      BY DEF IInv, TypeOK, EventRows
    <3>2. PICK n \in events'[f] : n.gen = e.gen /\ n.idx = e.idx
      BY <2>1, <3>1 DEF EntriesKept
    <3>3. QED
      BY <3>2
  <2>3. \A f \in Files : {<<e.gen, e.idx>> : e \in events[f]}
                           \subseteq {<<e.gen, e.idx>> : e \in events'[f]}
    BY <2>2
  <2>4. Log!Commit
    BY <1>1, <2>3 DEF Log!Commit
  <2>5. QED
    BY <2>4 DEF Log!Next
<1>2. CASE cursors' # cursors
  <2>1. events' = events
    BY <1>2, WhoWritesCursors
  <2>2. ASSUME NEW f \in Files, NEW i \in 1..cursors'[f].off
        PROVE  <<cursors'[f].gen, i>> \in {<<e.gen, e.idx>> : e \in events[f]}
    <3>1. cursors'[f] # NoCursor
      BY <2>2 DEF NoCursor
    <3>2. PICK e \in events'[f] : e.gen = cursors'[f].gen /\ e.idx = i
      BY <3>1 DEF IInv, CursorNeverAhead, Stored
    <3>3. QED
      BY <2>1, <3>2
  <2>3. Log!Advance
    BY <2>1, <2>2 DEF Log!Advance, Log!Covered
  <2>4. QED
    BY <2>3 DEF Log!Next
<1>3. QED
  BY <1>1, <1>2

\* The scan and the handlers implement AckedLog (handleAgentAppend upserts and
\* never deletes; scanAndUploadAgentV2 saves its cursors after the last response).
THEOREM Refinement == Spec => ImplementsAckedLog
<1>1. QED
  BY RefinesInit, RefinesStep, Invariance, PTL DEF Spec, ImplementsAckedLog, Log!Spec

----------------------------------------------------------------------------
(* What the server holds of a file are lines of the file *)

\* Content inc of file f was written, and while it is the file's it has n lines.
Held(f, inc, n) == inc \in 1..incs[f] /\ (inc = disk[f].inc => n <= disk[f].len)

LatestOrNone == \A f \in Files : disk[f].inc \in {0, incs[f]}
EventsHeld   == \A f \in Files : \A e \in events[f] : Held(f, e.inc, e.idx)
RequestsHeld ==
    \A r \in net \cup {waiting} : r.kind = "append" => Held(r.file, r.inc, r.to)
ReadingHeld  == reading # NoRead => Held(reading.file, reading.inc, reading.to)
BatchesHeld  ==
    \A f \in Files : batches[f] # NoBatch /\ sent[f] < batches[f].to =>
        Held(f, batches[f].inc, batches[f].to)

Contents == LatestOrNone /\ EventsHeld /\ RequestsHeld /\ ReadingHeld /\ BatchesHeld

----------------------------------------------------------------------------
(* Generations tell rotated files apart *)

\* The events of generation gen are lines of content inc.
OneContent(f, gen, inc) == \A e \in events[f] : e.gen = gen => e.inc = inc

\* Generation gen, read from inode ino, comes after the saved cursor or is its own.
Follows(f, gen, ino) ==
    /\ ino \in 1..incs[f]
    /\ gen > cursors[f].gen \/ (gen = cursors[f].gen /\ ino = cursors[f].ino)
    /\ ino = incs[f] => OneContent(f, gen, ino)

InodeIsContent == \A f \in Files : disk[f].ino = incs[f] /\ disk[f].inc = incs[f]
NothingMissing ==
    missing = {} /\ pc # "inventory" /\ waiting.kind # "inventory" /\ net \subseteq {waiting}
RequestFits ==
    waiting.kind = "append" =>
        /\ waiting.inc = batches[waiting.file].inc
        /\ waiting.to <= batches[waiting.file].to
ReadingFits ==
    reading # NoRead =>
        /\ Follows(reading.file, reading.gen, reading.ino)
        /\ reading.ino = incs[reading.file] => reading.inc = reading.ino
BatchFits(f) ==
    batches[f] # NoBatch =>
        /\ Follows(f, batches[f].gen, batches[f].ino)
        /\ batches[f].ino = incs[f] /\ sent[f] < batches[f].to =>
              batches[f].inc = batches[f].ino
CursorFits(f) ==
    cursors[f] # NoCursor =>
        /\ cursors[f].ino \in 1..incs[f]
        /\ cursors[f].ino = incs[f] => OneContent(f, cursors[f].gen, cursors[f].ino)
EventsBelow(f) ==
    \A e \in events[f] :
        \/ e.gen <= cursors[f].gen
        \/ pc = "upload" /\ batches[f] # NoBatch /\ e.gen <= batches[f].gen

\* What holds while nothing has failed, of files that are only appended to and rotated.
Orderly ==
    /\ InodeIsContent /\ NothingMissing /\ RequestFits /\ ReadingFits
    /\ \A f \in Files : BatchFits(f) /\ CursorFits(f) /\ EventsBelow(f)

\* What a step may do to a file: leave it or let it grow, give it a new content, or
\* delete it.
FileGrows(f) ==
    /\ incs'[f] = incs[f] /\ disk'[f].inc = disk[f].inc /\ disk'[f].ino = disk[f].ino
    /\ disk[f].len <= disk'[f].len
FileReplaced(f) ==
    /\ incs'[f] = incs[f] + 1 /\ disk'[f].inc = incs[f] + 1
    /\ ~ReusesInodes /\ "rewrite" \notin Edits => disk'[f].ino = incs[f] + 1
FileDeleted(f) == "delete" \in Edits /\ incs'[f] = incs[f] /\ disk'[f].inc = 0
FileStep(f) == FileGrows(f) \/ FileReplaced(f) \/ FileDeleted(f)

\* Only the programs that write the files change them.
LEMMA WhoWritesFiles ==
    ASSUME [Next]_vars, ~WriterStep
    PROVE  UNCHANGED <<disk, incs>>
<1>1. CASE \/ StartScan \/ (\E f \in Files : StatFile(f)) \/ ReadLines \/ ReadTail
           \/ FileVanished \/ PlanUpload \/ SendInventory \/ \E f \in Files : SendChunk(f)
  BY <1>1 DEF StartScan, StatFile, ReadLines, ReadTail, FileVanished, PlanUpload,
              SendInventory, SendChunk, fsVars
<1>2. CASE SaveState
  BY <1>2 DEF SaveState, fsVars
<1>3. CASE ServerStep
  BY <1>3 DEF ServerStep, HandleAppend, HandleInventory, fsVars
<1>4. CASE Fault
  BY <1>4 DEF Fault, RequestFails, Crash, LoseState, fsVars
<1>5. CASE UNCHANGED vars
  BY <1>5 DEF vars, fsVars
<1>6. QED
  BY <1>1, <1>2, <1>3, <1>4, <1>5 DEF Next, AgentStep

LEMMA WriterSteps ==
    ASSUME TypeOK, WriterStep
    PROVE  /\ UNCHANGED <<cursors, scanVars, net, serverVars, faults>>
           /\ \A f \in Files : FileStep(f)
<1>1. PICK g \in Files :
         Create(g) \/ Rotate(g) \/ Rewrite(g) \/ AppendLine(g) \/ Delete(g)
  BY DEF WriterStep
<1>2. /\ disk \in [Files -> [ino : Nat, inc : Nat, len : Nat]]
      /\ incs \in [Files -> Nat]
  BY DEF TypeOK
<1>3. \A f \in Files : FileGrows(f) \/ disk'[f] # disk[f] \/ incs'[f] # incs[f]
  BY <1>2 DEF FileGrows
<1>4. ASSUME NEW ino, NEW len, WriteFile(g, ino, len),
             ~ReusesInodes /\ "rewrite" \notin Edits => ino = incs[g] + 1
      PROVE  /\ UNCHANGED <<cursors, scanVars, net, serverVars, faults>>
             /\ \A f \in Files : FileStep(f)
  <2>1. FileReplaced(g)
    BY <1>2, <1>4 DEF WriteFile, FileReplaced
  <2>2. \A f \in Files \ {g} : disk'[f] = disk[f] /\ incs'[f] = incs[f]
    BY <1>2, <1>4 DEF WriteFile
  <2>3. QED
    BY <1>3, <1>4, <2>1, <2>2 DEF WriteFile, FileStep
<1>5. CASE Create(g)
  BY <1>4, <1>5 DEF Create, NewInodes
<1>6. CASE Rotate(g)
  BY <1>4, <1>6 DEF Rotate, NewInodes
<1>7. CASE Rewrite(g)
  BY <1>4, <1>7 DEF Rewrite
<1>8. CASE AppendLine(g)
  <2>1. disk'[g] = [disk[g] EXCEPT !.len = disk[g].len + 1]
    BY <1>2, <1>8 DEF AppendLine
  <2>2. FileGrows(g)
    BY <1>2, <1>8, <2>1 DEF AppendLine, FileGrows
  <2>3. \A f \in Files \ {g} : disk'[f] = disk[f] /\ incs'[f] = incs[f]
    BY <1>2, <1>8 DEF AppendLine
  <2>4. QED
    BY <1>3, <1>8, <2>2, <2>3 DEF AppendLine, FileStep
<1>9. CASE Delete(g)
  <2>1. FileDeleted(g)
    BY <1>2, <1>9 DEF Delete, FileDeleted, AbsentFile
  <2>2. \A f \in Files \ {g} : disk'[f] = disk[f] /\ incs'[f] = incs[f]
    BY <1>2, <1>9 DEF Delete
  <2>3. QED
    BY <1>3, <1>9, <2>1, <2>2 DEF Delete, FileStep
<1>10. QED
  BY <1>1, <1>5, <1>6, <1>7, <1>8, <1>9

LEMMA FileSteps == TypeOK /\ [Next]_vars => \A f \in Files : FileStep(f)
<1> SUFFICES ASSUME TypeOK, [Next]_vars PROVE \A f \in Files : FileStep(f)
  OBVIOUS
<1>1. CASE WriterStep
  BY <1>1, WriterSteps
<1>2. CASE ~WriterStep
  BY <1>2, WhoWritesFiles DEF TypeOK, FileStep, FileGrows
<1>3. QED
  BY <1>1, <1>2

\* A line that a file has held it has held for ever: a content is never taken back,
\* and only grows while it is the file's.
LEMMA HeldKept ==
    ASSUME TypeOK, LatestOrNone, [Next]_vars,
           NEW f \in Files, NEW inc \in Nat, NEW n \in Nat, Held(f, inc, n)
    PROVE  Held(f, inc, n)'
<1>1. FileStep(f)
  BY FileSteps
<1>2. /\ disk[f].inc \in Nat /\ disk[f].len \in Nat /\ incs[f] \in Nat
      /\ disk[f].inc \in {0, incs[f]}
  BY DEF TypeOK, LatestOrNone
<1>t. disk'[f].len \in Nat
  BY TypeStep DEF TypeOK
<1>3. CASE FileGrows(f)
  BY <1>2, <1>3, <1>t DEF FileGrows, Held
<1>4. CASE FileReplaced(f)
  BY <1>2, <1>4 DEF FileReplaced, Held
<1>5. CASE FileDeleted(f)
  BY <1>2, <1>5 DEF FileDeleted, Held
<1>6. QED
  BY <1>1, <1>3, <1>4, <1>5 DEF FileStep

LEMMA HeldBelow ==
    ASSUME NEW f, NEW inc, NEW n \in Nat, NEW m \in Nat, m <= n, Held(f, inc, n),
           disk[f].len \in Nat
    PROVE  Held(f, inc, m)
BY DEF Held

\* An append request is one that was sent before or a chunk of a batch.
OldRequest(r) ==
    \E q \in net \cup {waiting} :
        q.kind = "append" /\ q.file = r.file /\ q.inc = r.inc /\ q.to = r.to
ChunkOfBatch(r) ==
    /\ batches[r.file] # NoBatch /\ sent[r.file] < batches[r.file].to
    /\ r.inc = batches[r.file].inc /\ r.to <= batches[r.file].to

LEMMA RequestsComeFrom ==
    ASSUME TypeOK, [Next]_vars, NEW r \in (net \cup {waiting})', r.kind = "append"
    PROVE  OldRequest(r) \/ ChunkOfBatch(r)
<1>n. r # NoRequest
  BY DEF NoRequest
<1>1. CASE r \in net \cup {waiting}
  BY <1>1 DEF OldRequest
<1>2. ASSUME NEW f \in Files, SendChunk(f) PROVE OldRequest(r) \/ ChunkOfBatch(r)
  <2>1. PICK to \in (sent[f] + 1)..batches[f].to :
          Send([kind |-> "append", file |-> f, gen |-> batches[f].gen, from |-> sent[f],
                to |-> to, inc |-> batches[f].inc, attempt |-> 1])
    BY <1>2 DEF SendChunk
  <2>2. CASE r \notin net \cup {waiting}
    <3>1. r.file = f /\ r.inc = batches[f].inc /\ r.to = to
      BY <2>1, <2>2 DEF Send
    <3>2. QED
      BY <1>2, <2>1, <3>1 DEF SendChunk, ChunkOfBatch, TypeOK, Batches
  <2>3. QED
    BY <1>1, <2>2
<1>3. CASE RequestFails
  <2>1. waiting \in Requests
    BY <1>3 DEF RequestFails, TypeOK
  <2>2. CASE r \notin net \cup {waiting}
    <3>1. r = [waiting EXCEPT !.attempt = @ + 1]
      BY <1>3, <1>n, <2>2 DEF RequestFails, Forget
    <3>2. r.kind = waiting.kind
      BY <2>1, <3>1 DEF Requests
    <3>3. r.file = waiting.file /\ r.inc = waiting.inc /\ r.to = waiting.to
      BY <2>1, <3>1, <3>2 DEF Requests
    <3>4. QED
      BY <3>2, <3>3 DEF OldRequest
  <2>3. QED
    BY <1>1, <2>2
<1>4. CASE SendInventory
  <2>1. r \in net \cup {waiting}
    BY <1>4 DEF SendInventory, Send
  <2>2. QED
    BY <1>1, <2>1
<1>5. CASE ServerStep
  BY <1>1, <1>5, <1>n DEF ServerStep, HandleAppend, HandleInventory, Reply
<1>6. CASE WriterStep
  BY <1>1, <1>6, WriterSteps DEF scanVars
<1>7. CASE \/ StartScan \/ (\E f \in Files : StatFile(f)) \/ ReadLines \/ ReadTail
           \/ FileVanished \/ PlanUpload \/ SaveState \/ Crash \/ LoseState
  BY <1>1, <1>7, <1>n DEF StartScan, StatFile, ReadLines, ReadTail, FileVanished, PlanUpload,
     SaveState, Crash, LoseState, Forget, scanVars
<1>8. CASE UNCHANGED vars
  BY <1>1, <1>8 DEF vars, scanVars
<1>9. QED
  BY <1>2, <1>3, <1>4, <1>5, <1>6, <1>7, <1>8 DEF Next, AgentStep, Fault

\* A read in progress is the old one, or one of the content now on disk.
ReadsNow(r) ==
    /\ Present(r.file) /\ r.inc = disk[r.file].inc /\ r.to <= disk[r.file].len

LEMMA ReadingComesFrom ==
    ASSUME TypeOK, [Next]_vars
    PROVE  reading' \in {reading, NoRead} \/ ReadsNow(reading')
<1>1. ASSUME NEW f \in Files, StatFile(f)
      PROVE  reading' \in {reading, NoRead} \/ ReadsNow(reading')
  <2>1. \/ reading' \in {reading, NoRead}
        \/ /\ reading'.file = f /\ reading'.inc = disk[f].inc /\ reading'.to = disk[f].len
    BY <1>1 DEF StatFile, Batch
  <2>2. QED
    BY <1>1, <2>1 DEF StatFile, ReadsNow, TypeOK
<1>2. CASE ReadLines
  <2>1. reading \in Readings
    <3>1. reading.stage = "open"
      BY <1>2 DEF ReadLines
    <3>2. QED
      BY <3>1 DEF TypeOK, NoRead
  <2>2. CASE reading' # NoRead
    <3>1. PICK to \in (reading.from + 1)..Least(reading.to, disk[reading.file].len) :
            reading' = [reading EXCEPT !.stage = "tail", !.to = to,
                                       !.inc = disk[reading.file].inc]
      BY <1>2, <2>2 DEF ReadLines, Batch
    <3>2. /\ reading'.file = reading.file /\ reading'.to = to
          /\ reading'.inc = disk[reading.file].inc
      BY <2>1, <3>1 DEF Readings
    <3>3. to <= disk[reading.file].len
      BY <2>1, <3>1 DEF Least, Readings, TypeOK
    <3>4. QED
      BY <1>2, <3>2, <3>3 DEF ReadLines, ReadsNow
  <2>3. QED
    BY <2>2
<1>3. CASE WriterStep
  BY <1>3, WriterSteps DEF scanVars
<1>4. CASE \/ StartScan \/ ReadTail \/ FileVanished \/ PlanUpload \/ SendInventory
           \/ (\E f \in Files : SendChunk(f)) \/ SaveState \/ Fault
  BY <1>4 DEF StartScan, ReadTail, Batch, FileVanished, PlanUpload, SendInventory, SendChunk,
     SaveState, Fault, RequestFails, Crash, LoseState, Forget, scanVars
<1>5. CASE ServerStep
  BY <1>5 DEF ServerStep, HandleAppend, HandleInventory
<1>6. CASE UNCHANGED vars
  BY <1>6 DEF vars, scanVars
<1>7. QED
  BY <1>1, <1>2, <1>3, <1>4, <1>5, <1>6 DEF Next, AgentStep

\* A batch with lines to send is the old one, or the one just read.
LEMMA BatchesComeFrom ==
    ASSUME TypeOK, WaitingContinues, [Next]_vars, NEW f \in Files,
           batches'[f] # NoBatch, sent'[f] < batches'[f].to
    PROVE  \/ batches'[f] = batches[f] /\ sent[f] < batches[f].to
           \/ /\ reading # NoRead /\ f = reading.file
              /\ batches'[f].to = reading.to /\ batches'[f].inc = reading.inc
<1> DEFINE Goal == \/ batches'[f] = batches[f] /\ sent[f] < batches[f].to
                   \/ /\ reading # NoRead /\ f = reading.file
                      /\ batches'[f].to = reading.to /\ batches'[f].inc = reading.inc
<1>t. batches \in [Files -> {NoBatch} \cup Batches] /\ sent \in [Files -> Nat]
  BY DEF TypeOK
<1>1. CASE UNCHANGED <<batches, sent>>
  BY <1>1
<1>2. CASE Forget
  BY <1>2 DEF Forget
<1>3. ASSUME NEW g \in Files, NEW gen, NEW from, NEW to, NEW inc, NEW ino, NEW tail,
             Batch(g, gen, from, to, inc, ino, tail),
             from = to \/ (reading # NoRead /\ g = reading.file /\ to = reading.to
                           /\ inc = reading.inc)
      PROVE  Goal
  <2>1. CASE f = g
    <3>1. batches'[f] = [gen |-> gen, to |-> to, inc |-> inc, ino |-> ino, tail |-> tail]
          /\ sent'[f] = from
      BY <1>3, <1>t, <2>1 DEF Batch
    <3>2. from # to
      <4>1. TypeOK'
        BY TypeStep
      <4>2. from \in Nat
        BY <3>1, <4>1 DEF TypeOK
      <4>3. QED
        BY <3>1, <4>2
    <3>3. QED
      BY <1>3, <2>1, <3>1, <3>2
  <2>2. CASE f # g
    BY <1>3, <1>t, <2>2 DEF Batch
  <2>3. QED
    BY <2>1, <2>2
<1>4. ASSUME NEW g \in Files, StatFile(g) PROVE Goal
  BY <1>1, <1>3, <1>4 DEF StatFile
<1>5. CASE ReadLines
  <2>1. reading.file \in Files
    <3>1. reading.stage = "open"
      BY <1>5 DEF ReadLines
    <3>2. QED
      BY <3>1 DEF TypeOK, Readings, NoRead
  <2>2. QED
    BY <1>1, <1>3, <1>5, <2>1 DEF ReadLines
<1>6. CASE ReadTail
  <2>1. reading.file \in Files /\ reading # NoRead
    BY <1>6 DEF ReadTail, TypeOK, Readings, NoRead
  <2>2. QED
    BY <1>3, <1>6, <2>1 DEF ReadTail
<1>7. ASSUME NEW r \in net, HandleAppend(r) PROVE Goal
  <2>1. r \in Requests /\ r.kind = "append" /\ batches' = batches
    BY <1>7 DEF HandleAppend, TypeOK
  <2>2. r.file \in Files /\ r.from \in Nat /\ r.to \in Nat /\ r.from < r.to
    BY <2>1 DEF Requests
  <2>3. sent[f] <= sent'[f]
    BY <1>7, <1>t, <2>1, <2>2 DEF HandleAppend, WaitingContinues
  <2>4. QED
    BY <1>t, <2>1, <2>3, TypeStep DEF TypeOK, Batches
<1>8. ASSUME NEW r \in net, HandleInventory(r) PROVE Goal
  BY <1>1, <1>8 DEF HandleInventory
<1>9. CASE WriterStep
  BY <1>1, <1>9, WriterSteps DEF scanVars
<1>10. CASE FileVanished \/ SaveState \/ Crash
  BY <1>2, <1>10 DEF FileVanished, SaveState, Crash
<1>11. CASE PlanUpload
  BY <1>1, <1>2, <1>11 DEF PlanUpload
<1>12. CASE RequestFails
  BY <1>1, <1>2, <1>12 DEF RequestFails
<1>13. CASE StartScan \/ SendInventory \/ (\E g \in Files : SendChunk(g)) \/ LoseState
  BY <1>1, <1>13 DEF StartScan, SendInventory, SendChunk, LoseState, scanVars
<1>14. CASE UNCHANGED vars
  BY <1>1, <1>14 DEF vars, scanVars
<1>15. QED
  BY <1>4, <1>5, <1>6, <1>7, <1>8, <1>9, <1>10, <1>11, <1>12, <1>13, <1>14
     DEF Next, AgentStep, ServerStep, Fault

LEMMA ContentsStep == IInv /\ Contents /\ [Next]_vars => Contents'
<1> SUFFICES ASSUME IInv, Contents, [Next]_vars PROVE Contents'
  OBVIOUS
<1>t. TypeOK /\ TypeOK' /\ LatestOrNone
  BY TypeStep DEF IInv, Contents
<1>1. LatestOrNone'
  <2>1. \A f \in Files : FileStep(f)
    BY <1>t, FileSteps
  <2>2. \A f \in Files : incs[f] \in Nat /\ disk[f].inc \in {0, incs[f]}
    BY <1>t DEF TypeOK, LatestOrNone
  <2>3. QED
    BY <2>1, <2>2 DEF LatestOrNone, FileStep, FileGrows, FileReplaced, FileDeleted
<1>2. RequestsHeld'
  <2>1. SUFFICES ASSUME NEW r \in (net \cup {waiting})', r.kind = "append"
                 PROVE  Held(r.file, r.inc, r.to)'
    BY DEF RequestsHeld
  <2>2. r.file \in Files /\ r.inc \in Nat /\ r.to \in Nat
    BY <1>t, <2>1 DEF TypeOK, Requests, NoRequest
  <2>3. CASE OldRequest(r)
    <3>1. Held(r.file, r.inc, r.to)
      BY <2>3 DEF OldRequest, Contents, RequestsHeld
    <3>2. QED
      BY <1>t, <2>2, <3>1, HeldKept
  <2>4. CASE ChunkOfBatch(r)
    <3>1. Held(r.file, r.inc, batches[r.file].to)
      BY <2>2, <2>4 DEF ChunkOfBatch, Contents, BatchesHeld
    <3>2. batches[r.file].to \in Nat /\ disk[r.file].len \in Nat
      BY <1>t, <2>2, <2>4 DEF ChunkOfBatch, TypeOK, Batches
    <3>3. Held(r.file, r.inc, r.to)
      BY <2>2, <2>4, <3>1, <3>2, HeldBelow DEF ChunkOfBatch
    <3>4. QED
      BY <1>t, <2>2, <3>3, HeldKept
  <2>5. QED
    BY <1>t, <2>1, <2>3, <2>4, RequestsComeFrom
<1>3. ReadingHeld'
  <2>1. SUFFICES ASSUME reading' # NoRead
                 PROVE  Held(reading.file, reading.inc, reading.to)'
    BY DEF ReadingHeld
  <2>2. reading'.file \in Files /\ reading'.inc \in Nat /\ reading'.to \in Nat
    BY <1>t, <2>1 DEF TypeOK, Readings
  <2>3. Held(reading'.file, reading'.inc, reading'.to)
    <3>1. CASE reading' = reading
      BY <2>1, <3>1 DEF Contents, ReadingHeld
    <3>2. CASE ReadsNow(reading')
      <4>1. incs[reading'.file] \in Nat /\ disk[reading'.file].inc = incs[reading'.file]
            /\ incs[reading'.file] # 0
        BY <1>t, <2>2, <3>2 DEF ReadsNow, Present, LatestOrNone, TypeOK
      <4>2. QED
        BY <3>2, <4>1 DEF ReadsNow, Held
    <3>3. QED
      BY <1>t, <2>1, <3>1, <3>2, ReadingComesFrom
  <2>4. \A f \in Files, inc \in Nat, n \in Nat : Held(f, inc, n) => Held(f, inc, n)'
    BY <1>t, HeldKept
  <2>5. QED
    BY <2>2, <2>3, <2>4 DEF Held
<1>4. BatchesHeld'
  <2>1. SUFFICES ASSUME NEW f \in Files, batches'[f] # NoBatch, sent'[f] < batches'[f].to
                 PROVE  Held(f, batches[f].inc, batches[f].to)'
    BY DEF BatchesHeld
  <2>2. batches'[f].inc \in Nat /\ batches'[f].to \in Nat
    BY <1>t, <2>1 DEF TypeOK, Batches
  <2>3. Held(f, batches'[f].inc, batches'[f].to)
    <3>1. CASE batches'[f] = batches[f] /\ sent[f] < batches[f].to
      BY <2>1, <3>1 DEF Contents, BatchesHeld
    <3>2. CASE /\ reading # NoRead /\ f = reading.file
               /\ batches'[f].to = reading.to /\ batches'[f].inc = reading.inc
      BY <3>2 DEF Contents, ReadingHeld
    <3>3. QED
      BY <1>t, <2>1, <3>1, <3>2, BatchesComeFrom DEF IInv
  <2>4. \A inc \in Nat, n \in Nat : Held(f, inc, n) => Held(f, inc, n)'
    BY <1>t, HeldKept
  <2>5. QED
    BY <2>2, <2>3, <2>4 DEF Held
<1>5. EventsHeld'
  <2>1. SUFFICES ASSUME NEW f \in Files, NEW e \in events'[f]
                 PROVE  Held(f, e.inc, e.idx)'
    BY DEF EventsHeld
  <2>2. e.inc \in Nat /\ e.idx \in Nat
    BY <1>t, <2>1 DEF TypeOK, EventRows
  <2>3. Held(f, e.inc, e.idx)
    <3>1. CASE e \in events[f]
      BY <3>1 DEF Contents, EventsHeld
    <3>2. ASSUME NEW r \in net, HandleAppend(r), e \notin events[f]
          PROVE  Held(f, e.inc, e.idx)
      <4>1. r.kind = "append" /\ r.file \in Files /\ r.to \in Nat /\ r.from \in Nat
        BY <1>t, <3>2 DEF HandleAppend, TypeOK, Requests
      <4>2. f = r.file /\ e.inc = r.inc /\ e.idx <= r.to
        BY <1>t, <3>2, <4>1 DEF HandleAppend, UpsertEvents, TypeOK
      <4>3. Held(f, r.inc, r.to)
        BY <3>2, <4>1, <4>2 DEF Contents, RequestsHeld
      <4>4. disk[f].len \in Nat
        BY <1>t DEF TypeOK
      <4>5. QED
        BY <2>2, <4>1, <4>2, <4>3, <4>4, HeldBelow
    <3>3. QED
      BY <2>1, <3>1, <3>2, OnlyAppendsWrite
  <2>4. QED
    BY <1>t, <2>2, <2>3, HeldKept
<1>6. QED
  BY <1>1, <1>2, <1>3, <1>4, <1>5 DEF Contents

LEMMA ContentsHold == Spec => [](IInv /\ Contents)
<1>1. Init => Contents
  BY DEF Init, Contents, LatestOrNone, EventsHeld, RequestsHeld, ReadingHeld, BatchesHeld,
         AbsentFile, NoRequest
<1>2. QED
  BY <1>1, ContentsStep, Invariance, PTL DEF Spec

\* Every event the server has of a file is a line which that file has held, and of
\* its present content only lines that are there, whatever is retried, answered late,
\* rewritten or deleted between the reads (handleAgentAppend stores what
\* readAppendJsonl read).
THEOREM NothingInvented == Spec => []EventsHeld
<1>1. Contents => EventsHeld
  BY DEF Contents
<1>2. QED
  BY <1>1, ContentsHold, PTL

----------------------------------------------------------------------------
(* While nothing has failed, generations keep the contents of a file apart *)

\* The setting of this part: files are appended to and rotated, and the file system
\* gives a new file a new inode number.
OnlyRotated == ~ReusesInodes /\ Edits \subseteq {"rotate"}

\* A file that is rotated has a new inode, which nothing read before comes from.
LEMMA FollowsKept ==
    ASSUME TypeOK, [Next]_vars, NEW f \in Files, cursors'[f] = cursors[f],
           events'[f] = events[f]
    PROVE  \A gen, ino \in Nat : Follows(f, gen, ino) => Follows(f, gen, ino)'
<1>1. incs'[f] \in {incs[f], incs[f] + 1} /\ incs[f] \in Nat
  BY FileSteps DEF FileStep, FileGrows, FileReplaced, FileDeleted, TypeOK
<1>2. QED
  BY <1>1 DEF Follows, OneContent

\* What a step that leaves the positions and the server's events alone must still show.
LEMMA OrderlyQuiet ==
    ASSUME TypeOK, TypeOK', Orderly, [Next]_vars, InodeIsContent', NothingMissing',
           RequestFits', UNCHANGED <<cursors, events, batches, sent, reading>>,
           pc = "upload" => pc' = "upload"
    PROVE  Orderly'
<1>1. \A f \in Files : \A gen, ino \in Nat : Follows(f, gen, ino) => Follows(f, gen, ino)'
  BY FollowsKept
<1>2. \A f \in Files : incs'[f] \in {incs[f], incs[f] + 1} /\ incs[f] \in Nat
  BY FileSteps DEF FileStep, FileGrows, FileReplaced, FileDeleted, TypeOK
<1>3. ReadingFits'
  <2>1. SUFFICES ASSUME reading # NoRead PROVE ReadingFits'
    BY DEF ReadingFits
  <2>2. reading.file \in Files /\ reading.gen \in Nat /\ reading.ino \in Nat
    BY <2>1 DEF TypeOK, Readings
  <2>3. Follows(reading.file, reading.gen, reading.ino)
        /\ (reading.ino = incs[reading.file] => reading.inc = reading.ino)
    BY <2>1 DEF Orderly, ReadingFits
  <2>4. reading.ino # incs[reading.file] => reading.ino # incs'[reading.file]
    BY <1>2, <2>2, <2>3 DEF Follows
  <2>5. QED
    BY <1>1, <2>2, <2>3, <2>4 DEF ReadingFits, Follows, OneContent
<1>4. ASSUME NEW f \in Files PROVE BatchFits(f)'
  <2>1. SUFFICES ASSUME batches[f] # NoBatch PROVE BatchFits(f)'
    BY DEF BatchFits
  <2>2. batches[f].gen \in Nat /\ batches[f].ino \in Nat
    BY <2>1 DEF TypeOK, Batches
  <2>3. BatchFits(f)
    BY DEF Orderly
  <2>4. batches[f].ino # incs[f] => batches[f].ino # incs'[f]
    BY <1>2, <2>1, <2>2, <2>3 DEF BatchFits, Follows
  <2>5. QED
    BY <1>1, <2>1, <2>2, <2>3, <2>4 DEF BatchFits, Follows, OneContent
<1>5. ASSUME NEW f \in Files PROVE CursorFits(f)' /\ EventsBelow(f)'
  <2>1. cursors[f].ino \in Nat
    BY DEF TypeOK, Cursors
  <2>2. CursorFits(f) /\ EventsBelow(f)
    BY DEF Orderly
  <2>3. CursorFits(f)'
    BY <1>2, <2>1, <2>2 DEF CursorFits, OneContent
  <2>4. EventsBelow(f)'
    BY <2>2 DEF EventsBelow
  <2>5. QED
    BY <2>3, <2>4
<1>6. QED
  BY <1>3, <1>4, <1>5 DEF Orderly

\* A scan that ends without having uploaded leaves nothing behind.
LEMMA OrderlyForget ==
    ASSUME TypeOK, TypeOK', PhasesApart, Orderly, [Next]_vars, Forget, pc = "read",
           UNCHANGED <<disk, incs, cursors, events, net>>
    PROVE  Orderly'
<1>1. net = {}
  BY DEF PhasesApart, Orderly, NothingMissing, TypeOK, Requests, NoRequest
<1>2. InodeIsContent' /\ NothingMissing' /\ RequestFits' /\ ReadingFits'
  BY <1>1 DEF Forget, Orderly, InodeIsContent, NothingMissing, RequestFits, ReadingFits,
              NoRequest
<1>3. ASSUME NEW f \in Files PROVE BatchFits(f)' /\ CursorFits(f)' /\ EventsBelow(f)'
  <2>1. CursorFits(f)'
    BY DEF Orderly, CursorFits, OneContent
  <2>2. EventsBelow(f)'
    BY DEF Orderly, EventsBelow
  <2>3. BatchFits(f)'
    BY DEF Forget, BatchFits
  <2>4. QED
    BY <2>1, <2>2, <2>3
<1>4. QED
  BY <1>2, <1>3 DEF Orderly

\* A finished read leaves a batch that fits.
LEMMA OrderlyBatch ==
    ASSUME TypeOK, TypeOK', PhasesApart, Orderly, [Next]_vars, NEW f \in Files,
           NEW gen, NEW from, NEW to, NEW inc, NEW ino, NEW tail,
           Batch(f, gen, from, to, inc, ino, tail),
           Follows(f, gen, ino), ino = incs[f] /\ from < to => inc = ino,
           pc = "read", UNCHANGED <<disk, incs, cursors, events, pc, missing, waiting, net>>
    PROVE  Orderly'
<1>1. InodeIsContent' /\ NothingMissing' /\ ReadingFits'
  BY DEF Batch, Orderly, InodeIsContent, NothingMissing, ReadingFits
<1>2. RequestFits'
  BY DEF PhasesApart, RequestFits, NoRequest
<1>3. ASSUME NEW g \in Files PROVE BatchFits(g)' /\ CursorFits(g)' /\ EventsBelow(g)'
  <2>1. CursorFits(g)'
    BY DEF Orderly, CursorFits, OneContent
  <2>2. EventsBelow(g)'
    BY DEF Orderly, EventsBelow
  <2>3. BatchFits(g)'
    <3>1. CASE g = f
      <4>1. /\ batches'[f] = [gen |-> gen, to |-> to, inc |-> inc, ino |-> ino,
                              tail |-> tail]
            /\ sent'[f] = from
        BY DEF Batch, TypeOK
      <4>2. batches'[f].gen = gen /\ batches'[f].ino = ino /\ batches'[f].to = to
            /\ batches'[f].inc = inc
        BY <4>1
      <4>3. QED
        BY <3>1, <4>1, <4>2 DEF BatchFits, Follows, OneContent
    <3>2. CASE g # f
      <4>1. batches'[g] = batches[g] /\ sent'[g] = sent[g]
        BY <3>2 DEF Batch, TypeOK
      <4>2. QED
        BY <4>1 DEF Orderly, BatchFits, Follows, OneContent
    <3>3. QED
      BY <3>1, <3>2
  <2>4. QED
    BY <2>1, <2>2, <2>3
<1>4. QED
  BY <1>1, <1>2, <1>3 DEF Orderly

LEMMA OrderlyWriter ==
    ASSUME OnlyRotated, TypeOK, TypeOK', Orderly, [Next]_vars, WriterStep
    PROVE  Orderly'
<1>1. UNCHANGED <<cursors, scanVars, net, serverVars, faults>> /\ \A f \in Files : FileStep(f)
  BY WriterSteps
<1>2. InodeIsContent'
  BY <1>1 DEF OnlyRotated, FileStep, FileGrows, FileReplaced, FileDeleted, Orderly,
              InodeIsContent
<1>3. NothingMissing' /\ RequestFits'
  BY <1>1 DEF scanVars, Orderly, NothingMissing, RequestFits
<1>4. UNCHANGED <<cursors, events, batches, sent, reading, pc>>
  BY <1>1 DEF scanVars, serverVars
<1>5. QED
  BY <1>2, <1>3, <1>4, OrderlyQuiet

\* The scan finds no file deleted.
LEMMA OrderlyStart ==
    ASSUME TypeOK, TypeOK', PhasesApart, Orderly, [Next]_vars, StartScan
    PROVE  Orderly'
<1>1. ASSUME NEW f \in Files, cursors[f] # NoCursor PROVE Present(f)
  <2>1. cursors[f].ino \in 1..incs[f] /\ incs[f] \in Nat
    BY <1>1 DEF Orderly, CursorFits, TypeOK
  <2>2. disk[f].inc = incs[f]
    BY DEF Orderly, InodeIsContent
  <2>3. QED
    BY <2>1, <2>2 DEF Present
<1>2. missing' = {}
  BY <1>1 DEF StartScan
<1>3. /\ UNCHANGED <<fsVars, cursors, reading, batches, sent, waiting, net, events>>
      /\ pc' = "read" /\ pc = "idle"
  BY DEF StartScan, serverVars
<1>4. InodeIsContent' /\ NothingMissing' /\ RequestFits'
  BY <1>2, <1>3 DEF fsVars, Orderly, InodeIsContent, NothingMissing, RequestFits
<1>5. QED
  BY <1>3, <1>4, OrderlyQuiet

\* The generation that a read gives to the file on disk is a new one, or that of the
\* cursor when the file still is the cursor's.
LEMMA StatFollows ==
    ASSUME TypeOK, PhasesApart, Orderly, NEW f \in Files, StatFile(f)
    PROVE  LET c == cursors[f]
               reset == ShouldReset(f, c)
               gen == IF c = NoCursor THEN 1 ELSE IF reset THEN c.gen + 1 ELSE c.gen
           IN  gen \in Nat /\ Follows(f, gen, disk[f].ino)
<1> DEFINE c == cursors[f]
           reset == ShouldReset(f, c)
           gen == IF c = NoCursor THEN 1 ELSE IF reset THEN c.gen + 1 ELSE c.gen
<1>1. c \in Cursors /\ c.gen \in Nat /\ gen \in Nat
  BY DEF TypeOK, Cursors
<1>2. disk[f].ino = incs[f] /\ incs[f] \in 1..incs[f]
  BY DEF StatFile, Present, Orderly, InodeIsContent, TypeOK
<1>3. \A e \in events[f] : e.gen <= c.gen /\ e.gen \in Nat
  BY DEF StatFile, Orderly, EventsBelow, TypeOK, EventRows
<1>4. CASE c = NoCursor
  BY <1>1, <1>2, <1>3, <1>4 DEF Follows, OneContent, NoCursor
<1>5. CASE c # NoCursor /\ reset
  BY <1>1, <1>2, <1>3, <1>5 DEF Follows, OneContent
<1>6. CASE c # NoCursor /\ ~reset
  <2>1. c.ino = disk[f].ino
    BY <1>6 DEF ShouldReset
  <2>2. CursorFits(f)
    BY DEF Orderly
  <2>3. QED
    BY <1>1, <1>2, <1>6, <2>1, <2>2 DEF Follows, CursorFits
<1>7. QED
  BY <1>4, <1>5, <1>6, <1>1

LEMMA OrderlyStat ==
    ASSUME TypeOK, TypeOK', PhasesApart, Orderly, [Next]_vars, NEW f \in Files, StatFile(f)
    PROVE  Orderly'
<1> DEFINE c == cursors[f]
           reset == ShouldReset(f, c)
           gen == IF c = NoCursor THEN 1 ELSE IF reset THEN c.gen + 1 ELSE c.gen
           from == IF reset THEN 0 ELSE c.off
           tail == IF reset THEN NoTail ELSE c.tail
<1>1. gen \in Nat /\ Follows(f, gen, disk[f].ino)
  BY StatFollows
<1>2. UNCHANGED <<disk, incs, cursors, events, pc, missing, waiting, net>> /\ pc = "read"
  BY DEF StatFile, fsVars, serverVars
<1>3. CASE disk[f].len <= from
  <2>1. Batch(f, gen, from, from, disk[f].inc, disk[f].ino, tail)
    BY <1>3 DEF StatFile
  <2>2. ~(from < from)
    BY DEF TypeOK, Cursors
  <2> HIDE DEF gen, from, tail
  <2>3. QED
    BY <1>1, <1>2, <2>1, <2>2, OrderlyBatch
<1>4. CASE ~(disk[f].len <= from)
  <2>1. /\ reading' = [stage |-> "open", file |-> f, gen |-> gen, from |-> from,
                       to |-> disk[f].len, inc |-> disk[f].inc,
                       ino |-> disk[f].ino, tail |-> tail]
        /\ UNCHANGED <<batches, sent>>
    BY <1>4 DEF StatFile
  <2> HIDE DEF gen, from, tail
  <2>g. PICK g : g = gen
    OBVIOUS
  <2>2. /\ reading'.file = f /\ reading'.gen = g /\ reading'.ino = disk[f].ino
        /\ reading'.inc = disk[f].inc
    BY <2>1, <2>g
  <2>3. disk[f].inc = disk[f].ino
    BY DEF Orderly, InodeIsContent
  <2>4. Follows(f, g, disk[f].ino)'
    BY <1>1, <1>2, <2>g DEF Follows, OneContent
  <2>5. ReadingFits'
    BY <1>2, <2>2, <2>3, <2>4 DEF ReadingFits
  <2>6. InodeIsContent' /\ NothingMissing' /\ RequestFits'
    BY <1>2, <2>1 DEF Orderly, InodeIsContent, NothingMissing, RequestFits
  <2>7. ASSUME NEW h \in Files PROVE BatchFits(h)' /\ CursorFits(h)' /\ EventsBelow(h)'
    <3>1. BatchFits(h)'
      BY <1>2, <2>1 DEF Orderly, BatchFits, Follows, OneContent
    <3>2. CursorFits(h)'
      BY <1>2 DEF Orderly, CursorFits, OneContent
    <3>3. EventsBelow(h)'
      BY <1>2, <2>1 DEF Orderly, EventsBelow
    <3>4. QED
      BY <3>1, <3>2, <3>3
  <2>8. QED
    BY <2>5, <2>6, <2>7 DEF Orderly
<1>5. QED
  BY <1>3, <1>4

LEMMA OrderlyRead ==
    ASSUME TypeOK, TypeOK', PhasesApart, Orderly, [Next]_vars, ReadLines
    PROVE  Orderly'
<1>1. reading.stage = "open" /\ Present(reading.file)
  BY DEF ReadLines
<1>2. reading \in Readings /\ reading # NoRead
  BY <1>1 DEF TypeOK, NoRead
<1>3. reading.file \in Files /\ reading.from \in Nat /\ pc = "read"
  BY <1>2 DEF Readings, PhasesApart
<1>4. UNCHANGED <<disk, incs, cursors, events, pc, missing, waiting, net>>
  BY DEF ReadLines, fsVars, serverVars
<1>5. Follows(reading.file, reading.gen, reading.ino)
  BY <1>2 DEF Orderly, ReadingFits
<1>6. CASE Least(reading.to, disk[reading.file].len) <= reading.from
  <2>1. Batch(reading.file, reading.gen, reading.from, reading.from,
              disk[reading.file].inc, reading.ino, reading.tail)
    BY <1>6 DEF ReadLines
  <2>2. QED
    BY <1>3, <1>4, <1>5, <2>1, OrderlyBatch
<1>7. CASE ~(Least(reading.to, disk[reading.file].len) <= reading.from)
  <2>1. PICK to : reading' = [reading EXCEPT !.stage = "tail", !.to = to,
                                             !.inc = disk[reading.file].inc]
                  /\ UNCHANGED <<batches, sent>>
    BY <1>7 DEF ReadLines
  <2>2. /\ reading'.file = reading.file /\ reading'.gen = reading.gen
        /\ reading'.ino = reading.ino /\ reading'.inc = disk[reading.file].inc
    BY <1>2, <2>1 DEF Readings
  <2>3. disk[reading.file].inc = incs[reading.file]
    BY <1>3 DEF Orderly, InodeIsContent
  <2>4. Follows(reading.file, reading.gen, reading.ino)'
    BY <1>4, <1>5, <2>2 DEF Follows, OneContent
  <2>5. ReadingFits'
    BY <1>4, <2>2, <2>3, <2>4 DEF ReadingFits
  <2>6. InodeIsContent' /\ NothingMissing' /\ RequestFits'
    BY <1>4, <2>1 DEF Orderly, InodeIsContent, NothingMissing, RequestFits
  <2>7. ASSUME NEW g \in Files PROVE BatchFits(g)' /\ CursorFits(g)' /\ EventsBelow(g)'
    <3>1. BatchFits(g)'
      BY <1>4, <2>1 DEF Orderly, BatchFits, Follows, OneContent
    <3>2. CursorFits(g)'
      BY <1>4 DEF Orderly, CursorFits, OneContent
    <3>3. EventsBelow(g)'
      BY <1>4, <2>1 DEF Orderly, EventsBelow
    <3>4. QED
      BY <3>1, <3>2, <3>3
  <2>8. QED
    BY <2>5, <2>6, <2>7 DEF Orderly
<1>8. QED
  BY <1>6, <1>7

LEMMA OrderlyTail ==
    ASSUME TypeOK, TypeOK', PhasesApart, Orderly, [Next]_vars, ReadTail
    PROVE  Orderly'
<1>1. reading # NoRead /\ reading.file \in Files /\ pc = "read"
  <2>1. reading.stage = "tail"
    BY DEF ReadTail
  <2>2. QED
    BY <2>1 DEF TypeOK, NoRead, Readings, PhasesApart
<1>2. Batch(reading.file, reading.gen, reading.from, reading.to, reading.inc,
            reading.ino, TailHash(reading.file, reading.to))
  BY DEF ReadTail
<1>3. UNCHANGED <<disk, incs, cursors, events, pc, missing, waiting, net>>
  BY DEF ReadTail, fsVars, serverVars
<1>4. /\ Follows(reading.file, reading.gen, reading.ino)
      /\ reading.ino = incs[reading.file] => reading.inc = reading.ino
  BY <1>1 DEF Orderly, ReadingFits
<1>5. QED
  BY <1>1, <1>2, <1>3, <1>4, OrderlyBatch

LEMMA OrderlySend ==
    ASSUME TypeOK, TypeOK', PhasesApart, Orderly, [Next]_vars, NEW f \in Files, SendChunk(f)
    PROVE  Orderly'
<1>1. net = {} /\ pc = "upload"
  BY DEF SendChunk, Orderly, NothingMissing, TypeOK, Requests, NoRequest
<1>2. PICK to \in (sent[f] + 1)..batches[f].to :
        Send([kind |-> "append", file |-> f, gen |-> batches[f].gen, from |-> sent[f],
              to |-> to, inc |-> batches[f].inc, attempt |-> 1])
  BY DEF SendChunk
<1>3. /\ waiting'.kind = "append" /\ waiting'.file = f /\ waiting'.inc = batches[f].inc
      /\ waiting'.to = to /\ net' = {waiting'}
  BY <1>1, <1>2 DEF Send
<1>4. UNCHANGED <<disk, incs, cursors, events, batches, sent, reading, missing, pc>>
  BY DEF SendChunk, fsVars, serverVars
<1>5. to <= batches[f].to
  BY <1>2
<1>6. InodeIsContent' /\ NothingMissing' /\ RequestFits'
  BY <1>3, <1>4, <1>5 DEF Orderly, InodeIsContent, NothingMissing, RequestFits
<1>7. QED
  BY <1>4, <1>6, OrderlyQuiet

\* The state file takes each batch's generation, which no event is beyond.
LEMMA OrderlySave ==
    ASSUME TypeOK, TypeOK', PhasesApart, Orderly, [Next]_vars, SaveState
    PROVE  Orderly'
<1>1. net = {} /\ missing = {}
  BY DEF SaveState, Orderly, NothingMissing, TypeOK, Requests, NoRequest
<1>2. Forget /\ UNCHANGED <<disk, incs, events, net>>
  BY DEF SaveState, fsVars, serverVars
<1>3. InodeIsContent' /\ NothingMissing' /\ RequestFits' /\ ReadingFits'
  BY <1>1, <1>2 DEF Forget, Orderly, InodeIsContent, NothingMissing, RequestFits,
                    ReadingFits, NoRequest
<1>4. ASSUME NEW f \in Files PROVE BatchFits(f)' /\ CursorFits(f)' /\ EventsBelow(f)'
  <2>1. BatchFits(f)'
    BY <1>2 DEF Forget, BatchFits
  <2>2. CASE batches[f] # NoBatch
    <3>1. cursors'[f] = [gen |-> batches[f].gen, off |-> batches[f].to,
                         ino |-> batches[f].ino, tail |-> batches[f].tail]
      BY <2>2 DEF SaveState
    <3>2. cursors'[f].gen = batches[f].gen /\ cursors'[f].ino = batches[f].ino
      BY <3>1
    <3>3. Follows(f, batches[f].gen, batches[f].ino)
      BY <2>2 DEF Orderly, BatchFits
    <3>4. CursorFits(f)'
      BY <1>2, <3>2, <3>3 DEF CursorFits, Follows, OneContent
    <3>5. batches[f].gen \in Nat /\ cursors[f].gen \in Nat
          /\ \A e \in events[f] : e.gen \in Nat
      BY <2>2 DEF TypeOK, Batches, Cursors, EventRows
    <3>6. EventsBelow(f)
      BY DEF Orderly
    <3>7. EventsBelow(f)'
      BY <1>2, <3>2, <3>3, <3>5, <3>6 DEF EventsBelow, Follows
    <3>8. QED
      BY <2>1, <3>4, <3>7
  <2>3. CASE batches[f] = NoBatch
    <3>1. cursors'[f] = cursors[f]
      BY <1>1, <2>3 DEF SaveState
    <3>2. CursorFits(f)' /\ EventsBelow(f)'
      BY <1>2, <2>3, <3>1 DEF Orderly, CursorFits, EventsBelow, OneContent
    <3>3. QED
      BY <2>1, <3>2
  <2>4. QED
    BY <2>2, <2>3
<1>5. QED
  BY <1>3, <1>4 DEF Orderly

\* The server takes the chunk that is awaited, whose lines are of its batch's content.
LEMMA OrderlyAppend ==
    ASSUME TypeOK, TypeOK', PhasesApart, WaitingContinues, Orderly, [Next]_vars,
           NEW r \in net, HandleAppend(r)
    PROVE  Orderly'
<1>1. r = waiting /\ r.kind = "append" /\ net' = {} /\ waiting' = NoRequest
  BY DEF HandleAppend, Reply, Orderly, NothingMissing
<1>2. /\ r.file \in Files /\ r.from \in Nat /\ r.to \in Nat /\ r.from < r.to
      /\ r.gen \in Nat
  BY <1>1 DEF TypeOK, Requests
<1>3. pc = "upload" /\ reading = NoRead
  BY <1>1, <1>2 DEF PhasesApart, Orderly, NothingMissing, TypeOK, NoRequest
<1> DEFINE f == r.file
<1>4. /\ batches[f] # NoBatch /\ r.gen = batches[f].gen /\ r.from = sent[f]
      /\ r.inc = batches[f].inc /\ r.to <= batches[f].to
  BY <1>1 DEF WaitingContinues, Orderly, RequestFits
<1>5. /\ UNCHANGED <<disk, incs, cursors, pc, missing, reading, batches>>
      /\ sent' = [sent EXCEPT ![f] = r.to]
  BY <1>1 DEF HandleAppend, fsVars
<1>6. \A g \in Files : \A e \in events'[g] :
        e \in events[g] \/ (g = f /\ e.gen = r.gen /\ e.inc = r.inc)
  BY <1>2 DEF HandleAppend, UpsertEvents, TypeOK
<1>7. batches[f].to \in Nat /\ batches[f].gen \in Nat /\ cursors[f].gen \in Nat
  BY <1>2, <1>4 DEF TypeOK, Batches, Cursors
<1>8. /\ Follows(f, batches[f].gen, batches[f].ino)
      /\ batches[f].ino = incs[f] => r.inc = batches[f].ino
  BY <1>2, <1>4, <1>7 DEF Orderly, BatchFits
<1>9. InodeIsContent' /\ NothingMissing' /\ RequestFits' /\ ReadingFits'
  BY <1>1, <1>3, <1>5 DEF Orderly, InodeIsContent, NothingMissing, RequestFits,
                          ReadingFits, NoRequest
<1>10. ASSUME NEW g \in Files PROVE BatchFits(g)' /\ CursorFits(g)' /\ EventsBelow(g)'
  <2>1. CASE g # f
    <3>1. /\ sent'[g] = sent[g] /\ events'[g] \subseteq events[g]
      BY <1>5, <1>6, <2>1 DEF TypeOK
    <3>2. BatchFits(g)' /\ CursorFits(g)' /\ EventsBelow(g)'
      BY <1>5, <3>1 DEF Orderly, BatchFits, CursorFits, EventsBelow, Follows, OneContent
    <3>3. QED
      BY <3>2
  <2>2. CASE g = f
    <3>1. BatchFits(f)'
      <4>1. OneContent(f, batches[f].gen, batches[f].ino)' \/ batches[f].ino # incs[f]
        BY <1>2, <1>5, <1>6, <1>8 DEF OneContent, Follows
      <4>2. Follows(f, batches[f].gen, batches[f].ino)'
        BY <1>5, <1>8, <4>1 DEF Follows
      <4>3. batches[f].ino = incs[f] => batches[f].inc = batches[f].ino
        BY <1>4, <1>8
      <4>4. QED
        BY <1>5, <4>2, <4>3 DEF BatchFits
    <3>2. CursorFits(f)'
      <4>1. SUFFICES ASSUME cursors[f] # NoCursor, cursors[f].ino = incs[f],
                            NEW e \in events'[f], e.gen = cursors[f].gen
                     PROVE  e.inc = cursors[f].ino
        BY <1>2, <1>5 DEF Orderly, CursorFits, OneContent
      <4>2. CASE e \in events[f]
        BY <1>2, <4>1, <4>2 DEF Orderly, CursorFits, OneContent
      <4>3. CASE e.gen = r.gen /\ e.inc = r.inc
        BY <1>4, <1>7, <1>8, <4>1, <4>3 DEF Follows
      <4>4. QED
        BY <1>2, <1>6, <4>2, <4>3
    <3>3. EventsBelow(f)'
      BY <1>2, <1>3, <1>4, <1>5, <1>6, <1>7 DEF Orderly, EventsBelow
    <3>4. QED
      BY <2>2, <3>1, <3>2, <3>3
  <2>3. QED
    BY <2>1, <2>2
<1>11. QED
  BY <1>9, <1>10 DEF Orderly

LEMMA OrderlyStep ==
    ASSUME OnlyRotated, IInv, Orderly, faults' = 0, [Next]_vars
    PROVE  Orderly'
<1>t. TypeOK /\ TypeOK' /\ PhasesApart /\ WaitingContinues
  BY TypeStep DEF IInv
<1>1. CASE WriterStep
  BY <1>t, <1>1, OrderlyWriter
<1>2. CASE StartScan
  BY <1>t, <1>2, OrderlyStart
<1>3. CASE \E f \in Files : StatFile(f)
  BY <1>t, <1>3, OrderlyStat
<1>4. CASE ReadLines
  BY <1>t, <1>4, OrderlyRead
<1>5. CASE ReadTail
  BY <1>t, <1>5, OrderlyTail
<1>6. CASE FileVanished
  <2>1. Forget /\ pc = "read" /\ UNCHANGED <<disk, incs, cursors, events, net>>
    BY <1>6 DEF FileVanished, fsVars, serverVars
  <2>2. QED
    BY <1>t, <2>1, OrderlyForget
<1>7. CASE PlanUpload
  <2>1. pc = "read" /\ UNCHANGED <<disk, incs, cursors, events, net>>
    BY <1>7 DEF PlanUpload, fsVars, serverVars
  <2>2. CASE Forget
    BY <1>t, <2>1, <2>2, OrderlyForget
  <2>3. CASE ~Forget
    <3>1. pc' = "upload" /\ UNCHANGED <<missing, reading, batches, sent, waiting>>
      BY <1>7, <2>3 DEF PlanUpload, Orderly, NothingMissing
    <3>2. InodeIsContent' /\ NothingMissing' /\ RequestFits'
      BY <2>1, <3>1 DEF Orderly, InodeIsContent, NothingMissing, RequestFits
    <3>3. QED
      BY <1>t, <2>1, <3>1, <3>2, OrderlyQuiet
  <2>4. QED
    BY <2>2, <2>3
<1>8. CASE SendInventory
  BY <1>8 DEF SendInventory, Orderly, NothingMissing
<1>9. CASE \E f \in Files : SendChunk(f)
  BY <1>t, <1>9, OrderlySend
<1>10. CASE SaveState
  BY <1>t, <1>10, OrderlySave
<1>11. ASSUME NEW r \in net, HandleAppend(r) PROVE Orderly'
  BY <1>t, <1>11, OrderlyAppend
<1>12. ASSUME NEW r \in net, HandleInventory(r) PROVE Orderly'
  BY <1>12 DEF HandleInventory, Orderly, NothingMissing
<1>13. CASE Fault
  BY <1>t, <1>13 DEF Fault, RequestFails, Crash, LoseState, TypeOK
<1>14. CASE UNCHANGED vars
  <2>1. UNCHANGED <<disk, incs, cursors, events, batches, sent, reading, pc, missing, net,
                    waiting>>
    BY <1>14 DEF vars, fsVars, scanVars, serverVars
  <2>2. InodeIsContent' /\ NothingMissing' /\ RequestFits'
    BY <2>1 DEF Orderly, InodeIsContent, NothingMissing, RequestFits
  <2>3. QED
    BY <1>t, <2>1, <2>2, OrderlyQuiet
<1>15. QED
  BY <1>1, <1>2, <1>3, <1>4, <1>5, <1>6, <1>7, <1>8, <1>9, <1>10, <1>11, <1>12, <1>13,
     <1>14 DEF Next, AgentStep, ServerStep

\* While nothing has failed the generations are in order, and faults are never undone.
LEMMA OrderlyHolds ==
    ASSUME OnlyRotated
    PROVE  Spec => [](IInv /\ Contents /\ (faults = 0 => Orderly))
<1>1. Init => Orderly
  BY DEF Init, Orderly, InodeIsContent, NothingMissing, RequestFits, ReadingFits, BatchFits,
         CursorFits, EventsBelow, AbsentFile, NoRequest
<1>2. IInv /\ [Next]_vars => (faults' = 0 => faults = 0)
  <2>1. SUFFICES ASSUME IInv, [Next]_vars, faults' = 0 PROVE faults = 0
    OBVIOUS
  <2>2. faults \in Nat
    BY <2>1 DEF IInv, TypeOK
  <2>3. CASE Fault
    BY <2>1, <2>2, <2>3 DEF Fault, RequestFails, Crash, LoseState
  <2>4. CASE WriterStep
    BY <2>1, <2>4, WriterSteps DEF IInv
  <2>5. CASE AgentStep
    BY <2>1, <2>5 DEF AgentStep, StartScan, StatFile, ReadLines, ReadTail, FileVanished,
       PlanUpload, SendInventory, SendChunk, SaveState
  <2>6. CASE ServerStep
    BY <2>1, <2>6 DEF ServerStep, HandleAppend, HandleInventory
  <2>7. CASE UNCHANGED vars
    BY <2>1, <2>7 DEF vars
  <2>8. QED
    BY <2>1, <2>3, <2>4, <2>5, <2>6, <2>7 DEF Next
<1>3. IInv /\ (faults = 0 => Orderly) /\ [Next]_vars => (faults = 0 => Orderly)'
  BY <1>2, OrderlyStep
<1>4. QED
  BY <1>1, <1>3, ContentsHold, PTL DEF Spec

\* What the readers show of a file that was rotated and appended to is that file:
\* shouldResetCursor gives a replaced file a generation of its own, and the lines of
\* one generation are all of one content, between any two reads of the file.
THEOREM ShownIsFile ==
    ASSUME ~ReusesInodes, Edits \subseteq {"rotate"}
    PROVE  Spec => []VisibleIsFile
<1>1. OnlyRotated
  BY DEF OnlyRotated
<1>2. IInv /\ Contents /\ (faults = 0 => Orderly) => VisibleIsFile
  <2>1. SUFFICES ASSUME IInv, Contents, faults = 0 => Orderly, NEW f \in Files,
                        cursors[f] # NoCursor, Present(f), ~ShouldReset(f, cursors[f]),
                        ~Disturbed(f), NEW e \in events[f], e.gen = cursors[f].gen
                 PROVE  e.inc = disk[f].inc /\ e.idx <= disk[f].len
    BY DEF VisibleIsFile
  <2>2. Held(f, e.inc, e.idx) /\ incs[f] \in Nat /\ disk[f].inc = incs[f]
    BY <2>1 DEF Contents, EventsHeld, LatestOrNone, Present, IInv, TypeOK
  <2>3. e.inc = disk[f].inc
    <3>1. CASE faults = 0
      <4>1. cursors[f].ino = disk[f].ino /\ disk[f].ino = incs[f]
        BY <2>1, <3>1 DEF ShouldReset, Orderly, InodeIsContent
      <4>2. OneContent(f, cursors[f].gen, cursors[f].ino)
        BY <2>1, <3>1, <4>1 DEF Orderly, CursorFits
      <4>3. QED
        BY <2>1, <2>2, <4>1, <4>2 DEF OneContent
    <3>2. CASE faults # 0
      <4>1. incs[f] <= 1
        BY <2>1, <2>2, <3>2 DEF Disturbed, IInv, TypeOK
      <4>2. QED
        BY <2>2, <4>1 DEF Held
    <3>3. QED
      BY <3>1, <3>2
  <2>4. QED
    BY <2>2, <2>3 DEF Held
<1>3. QED
  BY <1>1, <1>2, OrderlyHolds, PTL

=============================================================================

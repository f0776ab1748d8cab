---------------------------- MODULE Stores_proofs ----------------------------
(***************************************************************************)
(* Proofs about two things the server stores.  The draft of a chat: merges *)
(* under the advisory lock lose nothing of what is stored, and an edit     *)
(* leaves the outbox of its browser only when the server has it.  The      *)
(* render rows: those of an event are the ones rendered from its stored    *)
(* version, although an append and the backfill interleave.                *)
(***************************************************************************)
EXTENDS RenderRows, Drafts, FiniteSetTheorems, TLAPS


\* One merge at a time, and what it has read is what is stored.
LockHolds ==
    /\ locked \in BOOLEAN
    /\ \A r \in reqs : r.step = "locked" => locked /\ r.base = server
    /\ \A r, q \in reqs : r.step = "locked" /\ q.step = "locked" => r = q

\* An answer tells that the update has been merged.
AnswersMerged == \A r \in reqs : r.step = "answered" => r.upd \subseteq server

DraftsInv ==
    /\ scene.browsers \subseteq Browsers /\ DOMAIN outbox = Browsers
    /\ LockHolds /\ AnswersMerged /\ KeptUntilStored

LEMMA DraftsInitially == DraftsInit => DraftsInv
<1> SUFFICES ASSUME DraftsInit PROVE DraftsInv
  OBVIOUS
<1>1. scene.browsers \subseteq Browsers /\ DOMAIN outbox = Browsers
  BY ScenesAssumption DEF DraftsInit
<1>2. reqs = {} /\ locked = FALSE /\ safe = {}
  BY DEF DraftsInit
<1> QED BY <1>1, <1>2 DEF DraftsInv, LockHolds, AnswersMerged, KeptUntilStored

\* A step of a browser: the requests it makes are new, those it had may be gone.
LEMMA BrowserMoves ==
    ASSUME DraftsInv, UNCHANGED <<server, locked, scene>>,
           \A r \in reqs' : r \in reqs \/ r.step = "sent",
           DOMAIN outbox' = Browsers,
           \A e \in safe' : e \in server \/ \E b \in Browsers : e \in outbox'[b]
    PROVE  DraftsInv' /\ server \subseteq server'
<1>1. LockHolds' /\ AnswersMerged'
  BY DEF DraftsInv, LockHolds, AnswersMerged
<1> QED BY <1>1 DEF DraftsInv, KeptUntilStored

\* ... and the outbox is left alone.
LEMMA BrowserMovesOn ==
    ASSUME DraftsInv, UNCHANGED <<server, locked, scene, outbox, safe>>,
           \A r \in reqs' : r \in reqs \/ r.step = "sent"
    PROVE  DraftsInv' /\ server \subseteq server'
BY BrowserMoves DEF DraftsInv, KeptUntilStored

LEMMA ReadHolds ==
    ASSUME DraftsInv, UNCHANGED scene, NEW r \in reqs, MergeReads(r)
    PROVE  DraftsInv' /\ server \subseteq server'
<1> USE DEF DraftsInv
<1>1. PICK q : q = ReqAt(r, "locked", server, {})
  OBVIOUS
<1>2. /\ ~locked /\ locked' = TRUE /\ reqs' = (reqs \ {r}) \cup {q}
      /\ UNCHANGED <<server, outbox, safe>>
  BY <1>1 DEF MergeReads, LockFree, sendVars, histVars
<1>3. q.step = "locked" /\ q.base = server
  BY <1>1 DEF ReqAt
<1>4. LockHolds'
  BY <1>2, <1>3 DEF LockHolds
<1>5. AnswersMerged' /\ KeptUntilStored'
  BY <1>2, <1>3 DEF AnswersMerged, KeptUntilStored
<1> QED BY <1>2, <1>4, <1>5

LEMMA WriteHolds ==
    ASSUME DraftsInv, UNCHANGED scene, NEW r \in reqs, MergeWrites(r)
    PROVE  DraftsInv' /\ server \subseteq server'
<1> USE DEF DraftsInv
<1>1. PICK q : q = ReqAt(r, "answered", {}, server' \ r.vec)
  OBVIOUS
<1>2. /\ r.step = "locked" /\ server' = r.base \cup r.upd /\ locked' = FALSE
      /\ \A p \in reqs' : p = q \/ p \in reqs \ {r}
      /\ UNCHANGED <<outbox, safe>>
  BY <1>1 DEF MergeWrites, MergedDoc, sendVars
<1>3. q.step = "answered" /\ q.upd = r.upd
  BY <1>1 DEF ReqAt
<1>4. server \subseteq server'
  BY <1>2 DEF LockHolds
<1>5. LockHolds'
  BY <1>2, <1>3 DEF LockHolds
<1>6. AnswersMerged' /\ KeptUntilStored'
  BY <1>2, <1>3, <1>4 DEF AnswersMerged, KeptUntilStored
<1> QED BY <1>2, <1>4, <1>5, <1>6

LEMMA FailsHolds ==
    ASSUME DraftsInv, UNCHANGED scene, NEW r \in reqs, Fails(r)
    PROVE  DraftsInv' /\ server \subseteq server'
<1> USE DEF DraftsInv
<1>1. /\ reqs' = reqs \ {r} /\ locked' = IF r.step = "locked" THEN FALSE ELSE locked
      /\ outbox' = [outbox EXCEPT ![r.from] = outbox[r.from]] /\ UNCHANGED <<server, safe>>
  BY DEF Fails, Undelivered
<1>2. DOMAIN outbox' = Browsers /\ \A b \in Browsers : outbox'[b] = outbox[b]
  BY <1>1
<1>3. LockHolds'
  BY <1>1 DEF LockHolds
<1>4. AnswersMerged' /\ KeptUntilStored'
  BY <1>1, <1>2 DEF AnswersMerged, KeptUntilStored
<1> QED BY <1>1, <1>2, <1>3, <1>4

LEMMA FlushSends ==
    ASSUME NEW b, NEW box, NEW q, FlushAfter(b, box, q)
    PROVE  \A r \in reqs' : r \in q \/ r.step = "sent"
BY DEF FlushAfter, FlushOf, Req

LEMMA EnqueuedHolds ==
    ASSUME DraftsInv, UNCHANGED scene, NEW b \in Browsers, NEW e \in enq[b], Enqueued(b, e)
    PROVE  DraftsInv' /\ server \subseteq server'
<1> USE DEF DraftsInv
<1>1. /\ outbox' = [outbox EXCEPT ![b] = @ \cup {e}] /\ safe' = safe \cup {e}
      /\ UNCHANGED <<server, locked>>
  BY DEF Enqueued
<1>2. PICK more : more = IF link[b].open THEN {Req(b, "socket", {e}, {}, 0)} ELSE {}
  OBVIOUS
<1>3. \A r \in more : r.step = "sent"
  BY <1>2 DEF Req
<1>4. FlushAfter(b, outbox'[b], reqs \cup more)
  BY <1>2 DEF Enqueued, Flush
<1>5. \A r \in reqs' : r \in reqs \cup more \/ r.step = "sent"
  BY <1>4, FlushSends
<1>6. DOMAIN outbox' = Browsers /\ \A c \in Browsers : outbox[c] \subseteq outbox'[c]
  BY <1>1
<1>7. \A f \in safe' : f \in server \/ \E c \in Browsers : f \in outbox'[c]
  BY <1>1, <1>6 DEF KeptUntilStored
<1> QED BY <1>1, <1>3, <1>5, <1>6, <1>7, BrowserMoves

\* The entries that an answer takes out of the outbox are stored.
LEMMA FlushedHolds ==
    ASSUME DraftsInv, UNCHANGED scene, NEW b \in Browsers, NEW r \in reqs, FlushAnswered(b, r)
    PROVE  DraftsInv' /\ server \subseteq server'
<1> USE DEF DraftsInv
<1>1. /\ r.step = "answered" /\ outbox' = [outbox EXCEPT ![b] = @ \ r.upd]
      /\ UNCHANGED <<server, locked, safe>>
  BY DEF FlushAnswered, histVars
<1>2. \A q \in reqs' : q \in reqs \/ q.step = "sent"
  BY DEF FlushAnswered, FlushOf, Req
<1>3. r.upd \subseteq server
  BY <1>1 DEF AnswersMerged
<1>4. DOMAIN outbox' = Browsers
  BY <1>1
<1>5. \A e \in safe' : e \in server \/ \E c \in Browsers : e \in outbox'[c]
  BY <1>1, <1>3 DEF KeptUntilStored
<1> QED BY <1>1, <1>2, <1>4, <1>5, BrowserMoves

LEMMA AnsweredHolds ==
    ASSUME DraftsInv, UNCHANGED scene, NEW b \in Browsers, NEW r \in reqs,
           PushAnswered(b, r) \/ ReconAnswered(b, r)
    PROVE  DraftsInv' /\ server \subseteq server'
<1>1. UNCHANGED <<server, locked, outbox>>
  BY DEF PushAnswered, ReconAnswered, sendVars
<1>2. UNCHANGED safe
  BY DEF PushAnswered, ReconAnswered
<1>3. \A q \in reqs' : q \in reqs \/ q.step = "sent"
  <2>1. reqs' = reqs \ {r} \/ FlushAfter(b, outbox[b], reqs \ {r})
    BY DEF PushAnswered, ReconAnswered
  <2> QED BY <2>1, FlushSends
<1> QED BY <1>1, <1>2, <1>3, BrowserMovesOn

\* Requests that go on without the page keep what they have read.
LEMMA ReloadHolds ==
    ASSUME DraftsInv, UNCHANGED scene, NEW b \in Browsers, Reload(b)
    PROVE  DraftsInv' /\ server \subseteq server'
<1> USE DEF DraftsInv
<1>1. UNCHANGED <<server, locked, outbox, safe>>
  BY DEF Reload
<1>2. \A q \in reqs' : \/ q.step = "sent"
                       \/ \E r \in reqs : q = IF r.from = b THEN Gone(r) ELSE r
  BY DEF Reload, FlushOf, Req
<1>3. \A r : Gone(r).step = r.step /\ Gone(r).base = r.base /\ Gone(r).upd = r.upd
  BY DEF Gone
<1>4. \A q \in reqs' : q.step # "sent" =>
         \E r \in reqs : /\ q = IF r.from = b THEN Gone(r) ELSE r
                         /\ q.step = r.step /\ q.base = r.base /\ q.upd = r.upd
  BY <1>2, <1>3
<1>5. LockHolds'
  <2>1. \A q \in reqs' : q.step = "locked" => locked /\ q.base = server
    BY <1>4 DEF LockHolds
  <2>2. ASSUME NEW p \in reqs', NEW q \in reqs', p.step = "locked", q.step = "locked"
        PROVE  p = q
    BY <1>4, <2>2 DEF LockHolds
  <2> QED BY <1>1, <2>1, <2>2 DEF LockHolds
<1>6. AnswersMerged'
  BY <1>1, <1>4 DEF AnswersMerged
<1> QED BY <1>1, <1>5, <1>6 DEF KeptUntilStored

\* The other steps of a browser send requests, or none.
LEMMA OthersHold ==
    ASSUME DraftsInv, UNCHANGED scene, NEW b \in Browsers,
           \/ Edit(b) \/ TimerFires(b) \/ OpenDraft(b) \/ Opened(b) \/ CloseChat(b)
           \/ YjsSocketOpens(b) \/ SubscriptionArrives(b) \/ SocketDrops(b) \/ Wake(b)
           \/ CacheStep(b)
           \/ \E w \in waiting[b] : GoesOn(b, w)
           \/ \E u \in down[b] : RemoteArrives(b, u)
    PROVE  DraftsInv' /\ server \subseteq server'
<1>1. UNCHANGED <<server, locked, outbox, safe>>
  BY DEF Edit, TimerFires, OpenDraft, Opened, CloseChat, YjsSocketOpens, SubscriptionArrives,
         SocketDrops, Wake, CacheStep, CacheRead, CacheMerged, GoesOn, RemoteArrives, sendVars,
         wireVars, histVars
<1>2. \A r \in reqs' : r \in reqs \/ r.step = "sent"
  <2>1. CASE Edit(b) \/ OpenDraft(b) \/ CloseChat(b) \/ SubscriptionArrives(b)
             \/ SocketDrops(b) \/ CacheStep(b) \/ \E u \in down[b] : RemoteArrives(b, u)
    BY <2>1 DEF Edit, OpenDraft, CloseChat, SubscriptionArrives, SocketDrops, CacheStep,
                CacheRead, CacheMerged, RemoteArrives, wireVars
  <2>2. CASE Opened(b) \/ YjsSocketOpens(b) \/ Wake(b)
    <3>1. FlushAfter(b, outbox[b], reqs \cup {})
      BY <2>2 DEF Opened, YjsSocketOpens, Wake, Flush
    <3> QED BY <3>1, FlushSends
  <2>3. CASE TimerFires(b)
    <3>1. PICK s : s = SyncOf(b, "push", editTimer[b])
      OBVIOUS
    <3>2. FlushAfter(b, outbox[b], reqs \cup {s})
      BY <2>3, <3>1 DEF TimerFires, Flush
    <3>3. s.step = "sent"
      BY <3>1 DEF SyncOf, Req
    <3> QED BY <3>2, <3>3, FlushSends
  <2>4. CASE \E w \in waiting[b] : GoesOn(b, w)
    BY <2>4 DEF GoesOn, SyncOf, WarmOf, Req
  <2> QED BY <2>1, <2>2, <2>3, <2>4
<1> QED BY <1>1, <1>2, BrowserMovesOn

LEMMA DraftsKeep ==
    DraftsInv /\ [DraftsNext /\ UNCHANGED scene]_<<draftVars, scene>>
        => DraftsInv' /\ server \subseteq server'
<1> SUFFICES ASSUME DraftsInv, [DraftsNext /\ UNCHANGED scene]_<<draftVars, scene>>
             PROVE  DraftsInv' /\ server \subseteq server'
  OBVIOUS
<1>1. CASE UNCHANGED <<draftVars, scene>>
  BY <1>1, BrowserMovesOn DEF draftVars, sendVars, wireVars, histVars
<1>2. ASSUME DraftsNext, UNCHANGED scene PROVE DraftsInv' /\ server \subseteq server'
  <2>1. scene.browsers \subseteq Browsers
    BY DEF DraftsInv
  <2> QED BY <1>2, <2>1, ReadHolds, WriteHolds, FailsHolds, EnqueuedHolds, FlushedHolds,
             AnsweredHolds, ReloadHolds, OthersHold DEF DraftsNext, ServerStep, AnswerArrives
<1> QED BY <1>1, <1>2

\* The stored document never loses an edit, for every number of browsers, edits and
\* openings: a merge writes back what it read, under the lock it still holds.
THEOREM ServerKeeps == DraftsSpec => ServerOnlyGrows
<1>1. DraftsInv /\ [DraftsNext /\ UNCHANGED scene]_<<draftVars, scene>>
        => [server \subseteq server']_draftVars
  BY DraftsKeep
<1>2. DraftsInv /\ [DraftsNext /\ UNCHANGED scene]_<<draftVars, scene>> => DraftsInv'
  BY DraftsKeep
<1> QED BY <1>1, <1>2, DraftsInitially, PTL DEF DraftsSpec, ServerOnlyGrows

\* An edit that has reached an outbox is there until the server has it, for every flush
\* limit, whatever fails, reloads or is edited while a flush is on its way.
THEOREM OutboxKeeps == DraftsSpec => []KeptUntilStored
<1>1. DraftsInv => KeptUntilStored
  BY DEF DraftsInv
<1>2. DraftsInv /\ [DraftsNext /\ UNCHANGED scene]_<<draftVars, scene>> => DraftsInv'
  BY DraftsKeep
<1> QED BY <1>1, <1>2, DraftsInitially, PTL DEF DraftsSpec

------------------------------------------------------------------------------
(* The render rows *)

Txns == {"append", "fill"}
Stored == [event : Events, body : Bodies, rev : Nat]
Plain(r) == [event |-> r.event, part |-> r.part, kind |-> r.kind, display |-> r.display,
             rev |-> r.rev]

\* The event under way.
HeadEvent(x) == Head(x.todo).event

TxnShape(x) ==
    x = [stage |-> x.stage, todo |-> x.todo, upserts |-> x.upserts, snapshot |-> x.snapshot,
         old |-> x.old, new |-> x.new, left |-> x.left, done |-> x.done, hurt |-> x.hurt,
         met |-> x.met]

\* Every event of a transaction is written once ...
TodoFits(x) ==
    /\ x.todo \in Seq(Stored)
    /\ \A i, j \in DOMAIN x.todo : x.todo[i].event = x.todo[j].event => i = j
    /\ \A i \in DOMAIN x.todo : x.todo[i].event \notin x.done
    /\ x.stage \in {"event", "delete", "deleting", "insert"} => x.todo # <<>>
    /\ x.stage = "commit" => x.todo = <<>>
    /\ x.stage \in {"idle", "read", "event", "delete", "deleting", "insert", "commit"}

\* ... and touches only its own rows.
TouchesOwn(x) ==
    /\ \A r \in x.old \cup x.new :
         r.event \in x.done \/ (x.stage = "insert" /\ r.event = HeadEvent(x))
    /\ x.stage # "deleting" => x.snapshot = {}
    /\ x.stage = "insert" => x.left \subseteq Rows(Head(x.todo))
    /\ IsFiniteSet(x.new) /\ IsFiniteSet(x.snapshot)

\* Of a table of rows, those of an event that are left are those rendered from it.
Gives(x, table, k, rows) ==
    /\ \A r \in table : r.event = k => r \in x.old
    /\ {Plain(r) : r \in {n \in x.new : n.event = k}} = rows

\* Unless the other transaction wrote the event meanwhile.
HeadGiven(x, table) ==
    /\ x.stage = "deleting" /\ HeadEvent(x) \notin x.met =>
         \A r \in table : r.event = HeadEvent(x) => r.id \in x.snapshot \/ r \in x.old
    /\ x.stage = "insert" /\ HeadEvent(x) \notin x.met =>
         Gives(x, table, HeadEvent(x), Rows(Head(x.todo)) \ x.left)

DoneGiven(x, table, version) ==
    \A e \in version :
        e.event \in x.done /\ e.event \notin x.hurt /\ e.event \notin x.met /\ Rows(e) # {}
            => Gives(x, table, e.event, Rows(e))

Fits(x, table) == TxnShape(x) /\ TodoFits(x) /\ TouchesOwn(x) /\ HeadGiven(x, table)

OneVersion(version) == \A e, d \in version : e.event = d.event => e = d

\* What the append has upserted, and what the backfill has read.
UpsertsFit(x) ==
    /\ x.upserts \subseteq Stored /\ IsFiniteSet(x.upserts) /\ OneVersion(x.upserts)
    /\ \A u \in x.upserts : u.event \in x.done \/
         (x.stage \in {"delete", "deleting", "insert"} /\ u = Head(x.todo))
    /\ x.stage \in {"delete", "deleting", "insert"} => Head(x.todo) \in x.upserts
ReadFits(x, version) ==
    \A i \in DOMAIN x.todo : x.todo[i].event \in x.met \/ x.todo[i] \in version

\* No two events have shared a row, not even one of an open transaction.
Held == items \cup txn["append"].new \cup txn["fill"].new
IdsApart == \A r, s \in Held : r.id = s.id => r.event = s.event
SnapshotsApart ==
    \A t \in Txns : \A r \in Held : r.id \in txn[t].snapshot => r.event = HeadEvent(txn[t])

TablesFit ==
    /\ events \subseteq Stored /\ IsFiniteSet(events) /\ OneVersion(events)
    /\ IsFiniteSet(items) /\ nextRev \in Nat
    /\ request = <<>> \/ request \in Requests

TxnsFit ==
    /\ txn = [t \in Txns |-> txn[t]]
    /\ \A t \in Txns : Fits(txn[t], items)
    /\ UpsertsFit(txn["append"]) /\ DoneGiven(txn["append"], items, txn["append"].upserts)
    /\ ReadFits(txn["fill"], events) /\ DoneGiven(txn["fill"], items, events)

RowsInv == TablesFit /\ TxnsFit /\ IdsApart /\ SnapshotsApart /\ RowsReflectEvent

LEMMA Others ==
    ASSUME NEW t \in Txns
    PROVE  Other(t) \in Txns /\ Other(t) # t /\ Other(Other(t)) = t /\ Txns = {t, Other(t)}
BY DEF Txns, Other

LEMMA IdleFits ==
    ASSUME NEW n, n = NoTxn \/ n = [NoTxn EXCEPT !.stage = "read"], NEW table, NEW version
    PROVE  /\ Fits(n, table) /\ UpsertsFit(n) /\ ReadFits(n, version)
           /\ DoneGiven(n, table, version)
           /\ n.upserts = {} /\ n.snapshot = {} /\ n.new = {} /\ n.done = {} /\ n.todo = <<>>
<1>1. /\ TxnShape(n) /\ n.stage \in {"idle", "read"} /\ n.todo = <<>> /\ n.upserts = {}
      /\ n.snapshot = {} /\ n.old = {} /\ n.new = {} /\ n.done = {}
  <2>1. CASE n = NoTxn
    BY <2>1 DEF NoTxn, TxnShape
  <2>2. CASE n = [NoTxn EXCEPT !.stage = "read"]
    BY <2>2 DEF NoTxn, TxnShape
  <2> QED BY <2>1, <2>2
<1>2. TodoFits(n)
  BY <1>1 DEF TodoFits
<1>3. TouchesOwn(n) /\ HeadGiven(n, table)
  BY <1>1, FS_EmptySet DEF TouchesOwn, HeadGiven
<1>4. UpsertsFit(n) /\ ReadFits(n, version)
  BY <1>1, FS_EmptySet DEF UpsertsFit, ReadFits, OneVersion
<1> QED BY <1>1, <1>2, <1>3, <1>4 DEF Fits, DoneGiven

LEMMA RowsInitially == Init => RowsInv
<1> SUFFICES ASSUME Init PROVE RowsInv
  OBVIOUS
<1>1. /\ events = {} /\ items = {} /\ request = <<>>
      /\ txn = [t \in Txns |-> NoTxn]
  BY DEF Init, Txns
<1>2. TablesFit
  BY <1>1, FS_EmptySet DEF TablesFit, OneVersion, Init
<1>4. TxnsFit
  BY <1>1, IdleFits DEF TxnsFit, Txns
<1>5. IdsApart /\ SnapshotsApart
  BY <1>1, IdleFits DEF IdsApart, SnapshotsApart, Held, Txns
<1> QED BY <1>1, <1>2, <1>4, <1>5 DEF RowsInv, RowsReflectEvent

\* A transaction takes a step inside: what it has to show to keep the invariant.
LEMMA Moves ==
    ASSUME RowsInv, NEW t \in Txns, NEW y,
           txn' = [txn EXCEPT ![t] = y], UNCHANGED <<events, items, failed, raced>>,
           UNCHANGED <<request, nextRev>>,
           Fits(y, items),
           t = "append" => UpsertsFit(y) /\ DoneGiven(y, items, y.upserts),
           t = "fill" => ReadFits(y, events) /\ DoneGiven(y, items, events),
           \A n \in y.new : \A r \in items \cup y.new \cup txn[Other(t)].new :
               n.id = r.id => n.event = r.event,
           \A n \in y.new : n.id \in txn[Other(t)].snapshot => n.event = HeadEvent(txn[Other(t)]),
           \A r \in items \cup y.new \cup txn[Other(t)].new :
               r.id \in y.snapshot => r.event = HeadEvent(y)
    PROVE  RowsInv'
<1>1. Other(t) \in Txns /\ Other(t) # t /\ Txns = {t, Other(t)}
  BY Others
<1>2. txn'[t] = y /\ txn'[Other(t)] = txn[Other(t)] /\ txn' = [s \in Txns |-> txn'[s]]
  BY <1>1 DEF RowsInv, TxnsFit
<1>3. TablesFit' /\ RowsReflectEvent'
  BY DEF RowsInv, TablesFit, RowsReflectEvent, Reflects, Committed
<1>4. TxnsFit'
  <2>1. \A s \in Txns : Fits(txn[s], items)'
    BY <1>1, <1>2 DEF RowsInv, TxnsFit
  <2>2. CASE t = "append"
    <3>1. txn'["append"] = y /\ txn'["fill"] = txn["fill"]
      BY <1>2, <2>2 DEF Other
    <3> QED BY <2>1, <3>1, <2>2, <1>2 DEF RowsInv, TxnsFit
  <2>3. CASE t = "fill"
    <3>1. txn'["fill"] = y /\ txn'["append"] = txn["append"]
      BY <1>2, <2>3 DEF Other
    <3> QED BY <2>1, <3>1, <2>3, <1>2 DEF RowsInv, TxnsFit
  <2> QED BY <2>2, <2>3 DEF Txns
<1>5. Held' = items \cup y.new \cup txn[Other(t)].new
  BY <1>1, <1>2 DEF Held, Txns, Other
<1>6. Held = items \cup txn[t].new \cup txn[Other(t)].new
  BY <1>1 DEF Held, Txns, Other
<1>7. IdsApart'
  BY <1>5, <1>6 DEF RowsInv, IdsApart
<1>8. SnapshotsApart'
  BY <1>1, <1>2, <1>5, <1>6 DEF RowsInv, SnapshotsApart
<1> QED BY <1>3, <1>4, <1>7, <1>8 DEF RowsInv

\* ... when it writes no row and takes no snapshot.
LEMMA MovesOn ==
    ASSUME RowsInv, NEW t \in Txns, NEW y,
           txn' = [txn EXCEPT ![t] = y], UNCHANGED <<events, items, failed, raced>>,
           UNCHANGED <<request, nextRev>>,
           Fits(y, items),
           t = "append" => UpsertsFit(y) /\ DoneGiven(y, items, y.upserts),
           t = "fill" => ReadFits(y, events) /\ DoneGiven(y, items, events),
           y.new \subseteq txn[t].new, y.snapshot = {}
    PROVE  RowsInv'
<1>1. Other(t) \in Txns /\ Other(t) # t /\ Txns = {t, Other(t)}
  BY Others
<1>2. Held = items \cup txn[t].new \cup txn[Other(t)].new
  BY <1>1 DEF Held, Txns, Other
<1>3. \A n \in y.new : \A r \in items \cup y.new \cup txn[Other(t)].new :
        n.id = r.id => n.event = r.event
  BY <1>2 DEF RowsInv, IdsApart
<1>4. \A n \in y.new : n.id \in txn[Other(t)].snapshot => n.event = HeadEvent(txn[Other(t)])
  BY <1>1, <1>2 DEF RowsInv, SnapshotsApart
<1> QED BY <1>3, <1>4, Moves

\* An event is done with: its rows are written, it has none, or it goes without.
LEMMA Onward ==
    ASSUME NEW x, NEW y, y = NextEvent(x) \/ y = Swallowed(x), NEW table,
           TxnShape(x), TodoFits(x), x.todo # <<>>, x.snapshot = {}, IsFiniteSet(x.new),
           \A r \in x.old \cup x.new : r.event \in x.done \/ r.event = HeadEvent(x)
    PROVE  /\ Fits(y, table) /\ y.stage \in {"event", "commit"}
           /\ y.upserts = x.upserts /\ y.old = x.old /\ y.new = x.new /\ y.met = x.met
           /\ y.snapshot = {} /\ y.done = x.done \cup {HeadEvent(x)}
           /\ y.todo = Tail(x.todo) /\ y.hurt \in {x.hurt, x.hurt \cup {HeadEvent(x)}}
           /\ y = NextEvent(x) => y.hurt = x.hurt
           /\ y = Swallowed(x) => y.hurt = x.hurt \cup {HeadEvent(x)}
<1>1. /\ TxnShape(y) /\ y.stage = (IF Len(x.todo) = 1 THEN "commit" ELSE "event")
      /\ y.upserts = x.upserts /\ y.old = x.old /\ y.new = x.new /\ y.met = x.met
      /\ y.snapshot = {} /\ y.done = x.done \cup {HeadEvent(x)}
      /\ y.todo = Tail(x.todo)
      /\ y = NextEvent(x) => y.hurt = x.hurt
      /\ y = Swallowed(x) => y.hurt = x.hurt \cup {HeadEvent(x)}
  BY DEF TxnShape, NextEvent, Swallowed, HeadEvent
<1>2. /\ x.todo \in Seq(Stored) /\ Len(x.todo) >= 1 /\ y.todo \in Seq(Stored)
      /\ Len(y.todo) = Len(x.todo) - 1 /\ Head(x.todo) = x.todo[1]
      /\ \A i \in DOMAIN y.todo : i + 1 \in DOMAIN x.todo /\ y.todo[i] = x.todo[i + 1]
  <2>1. PICK todo : todo = x.todo
    OBVIOUS
  <2>2. todo \in Seq(Stored) /\ todo # <<>>
    BY <2>1 DEF TodoFits
  <2>3. /\ Len(todo) >= 1 /\ Tail(todo) \in Seq(Stored) /\ Len(Tail(todo)) = Len(todo) - 1
        /\ Head(todo) = todo[1]
        /\ \A i \in DOMAIN Tail(todo) : i + 1 \in DOMAIN todo /\ Tail(todo)[i] = todo[i + 1]
    BY <2>2
  <2> QED BY <1>1, <2>1, <2>2, <2>3
<1>3. TodoFits(y)
  <2>1. \A i, j \in DOMAIN y.todo : y.todo[i].event = y.todo[j].event => i = j
    BY <1>2 DEF TodoFits
  <2>2. \A i \in DOMAIN y.todo : y.todo[i].event \notin y.done
    <3> TAKE i \in DOMAIN y.todo
    <3>1. i + 1 # 1
      BY <1>2
    <3> QED BY <1>1, <1>2, <3>1 DEF TodoFits, HeadEvent
  <2>3. Len(x.todo) \in Nat /\ (Len(y.todo) = 0 <=> y.todo = <<>>)
    <3>1. PICK todo : todo = x.todo
      OBVIOUS
    <3>2. PICK rest : rest = y.todo
      OBVIOUS
    <3>3. todo \in Seq(Stored) /\ rest \in Seq(Stored)
      BY <1>2, <3>1, <3>2
    <3>4. Len(todo) \in Nat /\ (Len(rest) = 0 <=> rest = <<>>)
      BY <3>3
    <3> QED BY <3>1, <3>2, <3>4
  <2>4. IF Len(x.todo) = 1 THEN y.todo = <<>> ELSE y.todo # <<>>
    BY <1>2, <2>3
  <2>5. y.stage \in {"event", "commit"}
    BY <1>1
  <2>6. (y.stage = "event" => y.todo # <<>>) /\ (y.stage = "commit" => y.todo = <<>>)
    BY <1>1, <2>4
  <2>7. y.todo \in Seq(Stored)
    BY <1>2
  <2> QED BY <2>1, <2>2, <2>5, <2>6, <2>7 DEF TodoFits
<1>4. TouchesOwn(y)
  BY <1>1, FS_EmptySet DEF TouchesOwn
<1>5. HeadGiven(y, table)
  BY <1>1 DEF HeadGiven
<1> QED BY <1>1, <1>3, <1>4, <1>5 DEF Fits

\* ... and if it is not one without rows, they are those rendered from it.
LEMMA DoneOnward ==
    ASSUME NEW x, NEW y, NEW table, NEW version, DoneGiven(x, table, version),
           y.old = x.old, y.new = x.new, y.met = x.met, x.hurt \subseteq y.hurt,
           y.done = x.done \cup {HeadEvent(x)},
           HeadEvent(x) \in y.hurt \/ \A e \in version :
               e.event = HeadEvent(x) /\ e.event \notin x.met /\ Rows(e) # {}
                   => Gives(x, table, e.event, Rows(e))
    PROVE  DoneGiven(y, table, version)
BY DEF DoneGiven, Gives

\* Nothing but the request changes.
LEMMA Quiet ==
    ASSUME RowsInv, UNCHANGED <<events, items, txn, failed, raced, nextRev>>,
           request' = request \/ request' \in Requests
    PROVE  RowsInv'
<1>1. TablesFit' /\ TxnsFit'
  BY DEF RowsInv, TablesFit, TxnsFit
<1>2. IdsApart' /\ SnapshotsApart' /\ RowsReflectEvent'
  BY DEF RowsInv, IdsApart, SnapshotsApart, Held, RowsReflectEvent, Reflects, Committed
<1> QED BY <1>1, <1>2 DEF RowsInv

LEMMA BeginAppendHolds == ASSUME RowsInv, BeginAppend PROVE RowsInv'
<1>1. PICK todo : todo = [i \in DOMAIN request |->
        [event |-> request[i].event, body |-> request[i].body, rev |-> nextRev + i - 1]]
  OBVIOUS
<1>2. PICK y : y = [NoTxn EXCEPT !.stage = "event", !.todo = todo]
  OBVIOUS
<1>3. /\ txn' = [txn EXCEPT !["append"] = y]
      /\ UNCHANGED <<events, items, request, failed, raced, nextRev>>
      /\ request # <<>>
  BY <1>1, <1>2 DEF BeginAppend
<1>4. /\ TxnShape(y) /\ y.stage = "event" /\ y.todo = todo /\ y.upserts = {}
      /\ y.snapshot = {} /\ y.old = {} /\ y.new = {} /\ y.done = {}
  BY <1>2 DEF NoTxn, TxnShape
<1>5. /\ todo \in Seq(Stored) /\ todo # <<>>
      /\ \A i, j \in DOMAIN todo : todo[i].event = todo[j].event => i = j
  <2>1. request \in Requests /\ nextRev \in Nat
    BY <1>3 DEF RowsInv, TablesFit
  <2>2. CASE \E e \in Events, b \in Bodies : request = <<[event |-> e, body |-> b]>>
    <3>1. PICK e \in Events, b \in Bodies : request = <<[event |-> e, body |-> b]>>
      BY <2>2
    <3>2. todo = <<[event |-> e, body |-> b, rev |-> nextRev]>>
      BY <1>1, <2>1, <3>1
    <3>3. [event |-> e, body |-> b, rev |-> nextRev] \in Stored
      BY <2>1 DEF Stored
    <3> QED BY <3>2, <3>3
  <2>3. CASE \E p \in Events \X Events, b \in Bodies, c \in Bodies : p[1] < p[2] /\
               request = <<[event |-> p[1], body |-> b], [event |-> p[2], body |-> c]>>
    <3>1. PICK p \in Events \X Events, b \in Bodies, c \in Bodies : p[1] < p[2] /\
               request = <<[event |-> p[1], body |-> b], [event |-> p[2], body |-> c]>>
      BY <2>3
    <3>2. PICK d, e : d = p[1] /\ e = p[2] /\ d \in Events /\ e \in Events /\ d < e
      BY <3>1
    <3>3. /\ todo = <<[event |-> d, body |-> b, rev |-> nextRev],
                      [event |-> e, body |-> c, rev |-> nextRev + 1]>>
          /\ d # e
      BY <1>1, <2>1, <3>1, <3>2, RenderRowsAssumption
    <3>4. /\ [event |-> d, body |-> b, rev |-> nextRev] \in Stored
          /\ [event |-> e, body |-> c, rev |-> nextRev + 1] \in Stored
      BY <2>1, <3>2 DEF Stored
    <3> QED BY <3>3, <3>4
  <2> QED BY <2>1, <2>2, <2>3 DEF Requests
<1>6. TodoFits(y)
  BY <1>4, <1>5 DEF TodoFits
<1>7. TouchesOwn(y) /\ HeadGiven(y, items)
  BY <1>4, FS_EmptySet DEF TouchesOwn, HeadGiven
<1>8. UpsertsFit(y) /\ DoneGiven(y, items, y.upserts)
  BY <1>4, FS_EmptySet DEF UpsertsFit, DoneGiven, OneVersion
<1> QED BY <1>3, <1>4, <1>6, <1>7, <1>8, MovesOn DEF Txns, Fits

\* What is left to write, after an event is done with.
LEMMA UpsertsOnward ==
    ASSUME NEW x, NEW y, x.upserts \subseteq Stored, IsFiniteSet(x.upserts), OneVersion(x.upserts),
           \A u \in x.upserts : u.event \in x.done \/ u = Head(x.todo),
           y.upserts = x.upserts, y.done = x.done \cup {HeadEvent(x)},
           y.stage \in {"event", "commit"}
    PROVE  UpsertsFit(y)
BY DEF UpsertsFit, HeadEvent

LEMMA ReadOnward ==
    ASSUME NEW x, NEW y, NEW version, TodoFits(x), x.todo # <<>>, ReadFits(x, version),
           y.todo = Tail(x.todo), y.met = x.met
    PROVE  ReadFits(y, version)
<1>1. PICK todo : todo = x.todo
  OBVIOUS
<1>2. todo \in Seq(Stored) /\ todo # <<>>
  BY <1>1 DEF TodoFits
<1>3. \A i \in DOMAIN Tail(todo) : i + 1 \in DOMAIN todo /\ Tail(todo)[i] = todo[i + 1]
  BY <1>2
<1> QED BY <1>1, <1>3 DEF ReadFits

LEMMA HeadIsStored ==
    ASSUME NEW x, TodoFits(x), x.todo # <<>>
    PROVE  /\ Head(x.todo) \in Stored /\ HeadEvent(x) \notin x.done
           /\ 1 \in DOMAIN x.todo /\ Head(x.todo) = x.todo[1]
<1>1. PICK todo : todo = x.todo
  OBVIOUS
<1>2. todo \in Seq(Stored) /\ todo # <<>>
  BY <1>1 DEF TodoFits
<1>3. Head(todo) \in Stored /\ 1 \in DOMAIN todo /\ Head(todo) = todo[1]
  BY <1>2
<1> QED BY <1>1, <1>3 DEF TodoFits, HeadEvent

LEMMA UpsertEventHolds == ASSUME RowsInv, UpsertEvent PROVE RowsInv'
<1>1. PICK x : x = txn["append"]
  OBVIOUS
<1>2. PICK e : e = Head(x.todo)
  OBVIOUS
<1>3. PICK z : z = [x EXCEPT !.upserts = {u \in @ : u.event # e.event} \cup {e}]
  OBVIOUS
<1>4. PICK y : y = IF broken THEN Swallowed(z) ELSE IF Rows(e) = {} THEN NextEvent(z)
                   ELSE [z EXCEPT !.stage = "delete"]
  OBVIOUS
<1>5. /\ x.stage = "event" /\ txn' = [txn EXCEPT !["append"] = y]
      /\ UNCHANGED <<events, items, request, failed, raced, nextRev>>
  BY <1>1, <1>2, <1>3, <1>4 DEF UpsertEvent
<1>6. /\ Fits(x, items) /\ UpsertsFit(x) /\ DoneGiven(x, items, x.upserts) /\ x.todo # <<>>
  BY <1>1, <1>5 DEF RowsInv, TxnsFit, Txns, Fits, TodoFits
<1>7. /\ TxnShape(z) /\ z.stage = x.stage /\ z.todo = x.todo /\ z.snapshot = x.snapshot
      /\ z.old = x.old /\ z.new = x.new /\ z.done = x.done /\ z.hurt = x.hurt /\ z.met = x.met
      /\ z.upserts = {u \in x.upserts : u.event # e.event} \cup {e}
  BY <1>3, <1>6 DEF Fits, TxnShape
<1>8. e \in Stored /\ e.event \notin x.done /\ HeadEvent(z) = e.event /\ Head(z.todo) = e
  BY <1>2, <1>6, <1>7, HeadIsStored DEF Fits, HeadEvent
<1>9. TodoFits(z) /\ TouchesOwn(z)
  <2>1. TodoFits(z)
    BY <1>6, <1>7 DEF Fits, TodoFits
  <2>2. TouchesOwn(z)
    BY <1>5, <1>6, <1>7 DEF Fits, TouchesOwn
  <2> QED BY <2>1, <2>2
<1>10. /\ z.upserts \subseteq Stored /\ OneVersion(z.upserts)
       /\ \A u \in z.upserts : u.event \in z.done \/ u = e
  BY <1>5, <1>6, <1>7, <1>8 DEF UpsertsFit, OneVersion
<1>11. IsFiniteSet(z.upserts)
  <2>1. IsFiniteSet({u \in x.upserts : u.event # e.event})
    BY <1>6, FS_Subset DEF UpsertsFit
  <2> QED BY <2>1, <1>7, FS_AddElement
<1>12. DoneGiven(z, items, z.upserts)
  BY <1>6, <1>7, <1>8 DEF DoneGiven, Gives
<1>13. CASE y = Swallowed(z) \/ (y = NextEvent(z) /\ Rows(e) = {})
  <2>1. /\ Fits(y, items) /\ y.stage \in {"event", "commit"} /\ y.upserts = z.upserts
        /\ y.old = z.old /\ y.new = z.new /\ y.met = z.met
        /\ y.snapshot = {} /\ y.done = z.done \cup {HeadEvent(z)} /\ z.hurt \subseteq y.hurt
        /\ HeadEvent(z) \in y.hurt \/ Rows(e) = {}
    <3>1. /\ z.todo # <<>> /\ z.snapshot = {} /\ IsFiniteSet(z.new)
          /\ \A r \in z.old \cup z.new : r.event \in z.done \/ r.event = HeadEvent(z)
      BY <1>5, <1>6, <1>7, <1>9 DEF TouchesOwn
    <3>2. y = NextEvent(z) \/ y = Swallowed(z)
      BY <1>13
    <3>3. /\ Fits(y, items) /\ y.stage \in {"event", "commit"} /\ y.upserts = z.upserts
          /\ y.old = z.old /\ y.new = z.new /\ y.met = z.met
          /\ y.snapshot = {} /\ y.done = z.done \cup {HeadEvent(z)}
          /\ y = NextEvent(z) => y.hurt = z.hurt
          /\ y = Swallowed(z) => y.hurt = z.hurt \cup {HeadEvent(z)}
      BY <3>1, <3>2, <1>7, <1>9, Onward
    <3> QED BY <3>3, <1>13
  <2>2. UpsertsFit(y)
    BY <2>1, <1>8, <1>10, <1>11, UpsertsOnward
  <2>3. DoneGiven(y, items, y.upserts)
    <3>1. \A u \in z.upserts : u.event = HeadEvent(z) => u = e
      BY <1>7, <1>8, <1>10
    <3>2. HeadEvent(z) \in y.hurt \/ \A u \in z.upserts :
            u.event = HeadEvent(z) /\ u.event \notin z.met /\ Rows(u) # {}
                => Gives(z, items, u.event, Rows(u))
      BY <2>1, <3>1
    <3> QED BY <2>1, <3>2, <1>12, DoneOnward
  <2> QED BY <2>1, <2>2, <2>3, <1>1, <1>5, <1>7, MovesOn DEF Txns
<1>14. CASE y = [z EXCEPT !.stage = "delete"]
  <2>1. /\ TxnShape(y) /\ y.stage = "delete" /\ y.todo = z.todo /\ y.snapshot = z.snapshot
        /\ y.old = z.old /\ y.new = z.new /\ y.done = z.done /\ y.hurt = z.hurt
        /\ y.met = z.met /\ y.upserts = z.upserts
    BY <1>14, <1>7 DEF TxnShape
  <2>2. Fits(y, items)
    BY <2>1, <1>5, <1>6, <1>7, <1>9 DEF Fits, TodoFits, TouchesOwn, HeadGiven
  <2>3. UpsertsFit(y)
    BY <2>1, <1>7, <1>8, <1>10, <1>11 DEF UpsertsFit
  <2>4. DoneGiven(y, items, y.upserts)
    BY <2>1, <1>12 DEF DoneGiven, Gives
  <2> QED BY <2>1, <2>2, <2>3, <2>4, <1>1, <1>5, <1>6, <1>7, MovesOn DEF Txns, Fits, TouchesOwn
<1> QED BY <1>4, <1>13, <1>14

\* While an event is written, what is upserted and read stays as it is.
LEMMA SameEvent ==
    ASSUME RowsInv, NEW t \in Txns, NEW y,
           txn[t].stage \in {"delete", "deleting", "insert"},
           y.stage \in {"delete", "deleting", "insert"}, y.todo = txn[t].todo,
           y.upserts = txn[t].upserts, y.done = txn[t].done, y.met = txn[t].met
    PROVE  /\ t = "append" => UpsertsFit(y)
           /\ t = "fill" => ReadFits(y, events)
BY DEF RowsInv, TxnsFit, UpsertsFit, ReadFits

\* The content that is written is the one that will be stored.
LEMMA HeadVersion ==
    ASSUME RowsInv, NEW t \in Txns, NEW version,
           version = IF t = "append" THEN txn["append"].upserts ELSE events,
           txn[t].stage \in {"delete", "deleting", "insert"} \/
               (t = "fill" /\ txn[t].stage = "event")
    PROVE  /\ DoneGiven(txn[t], items, version)
           /\ \A e \in version : e.event = HeadEvent(txn[t]) /\ e.event \notin txn[t].met
                => e = Head(txn[t].todo)
<1>1. TodoFits(txn[t]) /\ txn[t].todo # <<>>
  BY DEF RowsInv, TxnsFit, Fits, TodoFits
<1>2. 1 \in DOMAIN txn[t].todo /\ Head(txn[t].todo) = txn[t].todo[1]
  BY <1>1, HeadIsStored
<1>3. CASE t = "append"
  BY <1>3 DEF RowsInv, TxnsFit, UpsertsFit, OneVersion, HeadEvent
<1>4. CASE t = "fill"
  <2>1. ReadFits(txn[t], events) /\ OneVersion(events) /\ version = events
    BY <1>4 DEF RowsInv, TxnsFit, TablesFit
  <2>2. HeadEvent(txn[t]) \in txn[t].met \/ Head(txn[t].todo) \in events
    BY <2>1, <1>2 DEF ReadFits, HeadEvent
  <2>3. DoneGiven(txn[t], items, version)
    BY <1>4, <2>1 DEF RowsInv, TxnsFit
  <2> QED BY <2>1, <2>2, <2>3 DEF OneVersion, HeadEvent
<1> QED BY <1>3, <1>4 DEF Txns

LEMMA RowsOfEvent ==
    ASSUME NEW e, NEW row \in Rows(e)
    PROVE  /\ row.event = e.event
           /\ row = [event |-> row.event, part |-> row.part, kind |-> row.kind,
                     display |-> row.display, rev |-> row.rev]
BY DEF Rows, RenderRow

LEMMA BeginDeleteHolds == ASSUME RowsInv, NEW t \in Txns, BeginDelete(t) PROVE RowsInv'
<1>1. PICK x : x = txn[t]
  OBVIOUS
<1>2. PICK ids : ids = {r.id : r \in Committed(HeadEvent(x)) \ x.old}
  OBVIOUS
<1>3. PICK y : y = [x EXCEPT !.stage = "deleting", !.snapshot = ids]
  OBVIOUS
<1>4. /\ x.stage = "delete" /\ txn' = [txn EXCEPT ![t] = y]
      /\ UNCHANGED <<events, items, request, failed, raced, nextRev>>
  BY <1>1, <1>2, <1>3 DEF BeginDelete, HeadEvent
<1>5. Fits(x, items)
  BY <1>1 DEF RowsInv, TxnsFit
<1>6. /\ TxnShape(y) /\ y.stage = "deleting" /\ y.todo = x.todo /\ y.upserts = x.upserts
      /\ y.snapshot = ids /\ y.old = x.old /\ y.new = x.new /\ y.done = x.done
      /\ y.hurt = x.hurt /\ y.met = x.met
  BY <1>3, <1>5 DEF Fits, TxnShape
<1>7. IsFiniteSet(ids)
  <2>1. PICK S : S = Committed(HeadEvent(x)) \ x.old
    OBVIOUS
  <2>2. IsFiniteSet(S)
    BY <2>1, FS_Subset DEF RowsInv, TablesFit, Committed
  <2>3. [r \in S |-> r.id] \in Surjection(S, ids)
    BY <1>2, <2>1 DEF Surjection
  <2> QED BY <2>2, <2>3, FS_Surjection
<1>8. TodoFits(y)
  BY <1>4, <1>5, <1>6 DEF Fits, TodoFits
<1>9. TouchesOwn(y)
  BY <1>4, <1>5, <1>6, <1>7 DEF Fits, TouchesOwn
<1>10. HeadGiven(y, items)
  BY <1>2, <1>6 DEF HeadGiven, HeadEvent, Committed
<1>11. /\ t = "append" => UpsertsFit(y) /\ DoneGiven(y, items, y.upserts)
       /\ t = "fill" => ReadFits(y, events) /\ DoneGiven(y, items, events)
  <2>1. /\ t = "append" => UpsertsFit(y)
        /\ t = "fill" => ReadFits(y, events)
    BY <1>1, <1>4, <1>6, SameEvent
  <2>2. \A version : DoneGiven(x, items, version) => DoneGiven(y, items, version)
    BY <1>6 DEF DoneGiven, Gives
  <2>3. /\ t = "append" => DoneGiven(x, items, x.upserts)
        /\ t = "fill" => DoneGiven(x, items, events)
    BY <1>1 DEF RowsInv, TxnsFit
  <2> QED BY <2>1, <2>2, <2>3, <1>6
<1>12. Held = items \cup x.new \cup txn[Other(t)].new
  BY <1>1 DEF Held, Txns, Other
<1>13. \A n \in y.new : \A r \in items \cup y.new \cup txn[Other(t)].new :
         n.id = r.id => n.event = r.event
  BY <1>6, <1>12 DEF RowsInv, IdsApart
<1>14. \A n \in y.new : n.id \in txn[Other(t)].snapshot => n.event = HeadEvent(txn[Other(t)])
  BY <1>6, <1>12, Others DEF RowsInv, SnapshotsApart
<1>15. \A r \in items \cup y.new \cup txn[Other(t)].new :
         r.id \in y.snapshot => r.event = HeadEvent(y)
  BY <1>2, <1>6, <1>12 DEF RowsInv, IdsApart, Committed, HeadEvent
<1>16. Fits(y, items)
  BY <1>6, <1>8, <1>9, <1>10 DEF Fits
<1> QED BY <1>4, <1>11, <1>13, <1>14, <1>15, <1>16, Moves

LEMMA EndDeleteHolds == ASSUME RowsInv, NEW t \in Txns, EndDelete(t) PROVE RowsInv'
<1>1. PICK x : x = txn[t]
  OBVIOUS
<1>2. PICK found : found = {r \in items : r.id \in x.snapshot}
  OBVIOUS
<1>3. PICK y : y = [x EXCEPT !.stage = "insert", !.old = @ \cup found, !.snapshot = {},
                             !.left = Rows(Head(x.todo))]
  OBVIOUS
<1>4. /\ x.stage = "deleting" /\ txn' = [txn EXCEPT ![t] = y]
      /\ UNCHANGED <<events, items, request, failed, raced, nextRev>>
  BY <1>1, <1>2, <1>3 DEF EndDelete, Found
<1>5. Fits(x, items)
  BY <1>1 DEF RowsInv, TxnsFit
<1>6. /\ TxnShape(y) /\ y.stage = "insert" /\ y.todo = x.todo /\ y.upserts = x.upserts
      /\ y.snapshot = {} /\ y.old = x.old \cup found /\ y.new = x.new /\ y.done = x.done
      /\ y.hurt = x.hurt /\ y.met = x.met /\ y.left = Rows(Head(x.todo))
  BY <1>3, <1>5 DEF Fits, TxnShape
<1>7. TodoFits(y)
  BY <1>4, <1>5, <1>6 DEF Fits, TodoFits
<1>8. \A r \in found : r.event = HeadEvent(x)
  BY <1>1, <1>2 DEF RowsInv, SnapshotsApart, Held
<1>9. TouchesOwn(y)
  BY <1>4, <1>5, <1>6, <1>8, FS_EmptySet DEF Fits, TouchesOwn, HeadEvent
<1>10. HeadGiven(y, items)
  <2>1. HeadEvent(x) \notin x.done
    BY <1>4, <1>5, HeadIsStored DEF Fits, TodoFits
  <2>2. \A n \in x.new : n.event # HeadEvent(x)
    BY <1>4, <1>5, <2>1 DEF Fits, TouchesOwn
  <2>3. HeadEvent(x) \notin x.met => \A r \in items : r.event = HeadEvent(x) => r \in y.old
    BY <1>2, <1>4, <1>5, <1>6 DEF Fits, HeadGiven
  <2> QED BY <2>2, <2>3, <1>6 DEF HeadGiven, Gives, HeadEvent
<1>11. /\ t = "append" => UpsertsFit(y) /\ DoneGiven(y, items, y.upserts)
       /\ t = "fill" => ReadFits(y, events) /\ DoneGiven(y, items, events)
  <2>1. /\ t = "append" => UpsertsFit(y)
        /\ t = "fill" => ReadFits(y, events)
    BY <1>1, <1>4, <1>6, SameEvent
  <2>2. \A version : DoneGiven(x, items, version) => DoneGiven(y, items, version)
    BY <1>6 DEF DoneGiven, Gives
  <2>3. /\ t = "append" => DoneGiven(x, items, x.upserts)
        /\ t = "fill" => DoneGiven(x, items, events)
    BY <1>1 DEF RowsInv, TxnsFit
  <2> QED BY <2>1, <2>2, <2>3, <1>6
<1>12. Fits(y, items)
  BY <1>6, <1>7, <1>9, <1>10 DEF Fits
<1> QED BY <1>1, <1>4, <1>6, <1>11, <1>12, MovesOn

LEMMA FreshIdIsFresh ==
    ASSUME RowsInv
    PROVE  /\ \A r \in Held : r.id # FreshId
           /\ \A t \in Txns : FreshId \notin txn[t].snapshot
<1>1. PICK used : used = {r.id : r \in items \cup txn["append"].new \cup txn["fill"].new}
                         \cup txn["append"].snapshot \cup txn["fill"].snapshot
  OBVIOUS
<1>2. IsFiniteSet(used)
  <2>1. PICK ids : ids = {r.id : r \in Held}
    OBVIOUS
  <2>2. /\ IsFiniteSet(txn["append"].new) /\ IsFiniteSet(txn["fill"].new)
        /\ IsFiniteSet(txn["append"].snapshot) /\ IsFiniteSet(txn["fill"].snapshot)
    BY DEF RowsInv, TxnsFit, Fits, TouchesOwn, Txns
  <2>3. IsFiniteSet(Held)
    BY <2>2, FS_Union DEF Held, RowsInv, TablesFit
  <2>4. [r \in Held |-> r.id] \in Surjection(Held, ids)
    BY <2>1 DEF Surjection
  <2>5. IsFiniteSet(ids)
    BY <2>3, <2>4, FS_Surjection
  <2>6. used = ids \cup txn["append"].snapshot \cup txn["fill"].snapshot
    BY <1>1, <2>1 DEF Held
  <2> QED BY <2>2, <2>5, <2>6, FS_Union
<1>3. \E n \in 1..(Cardinality(used) + 1) : n \notin used
  <2>1. Cardinality(used) \in Nat
    BY <1>2, FS_CardinalityType
  <2>2. SUFFICES ASSUME 1..(Cardinality(used) + 1) \subseteq used PROVE FALSE
    OBVIOUS
  <2>3. Cardinality(1..(Cardinality(used) + 1)) <= Cardinality(used)
    BY <1>2, <2>2, FS_Subset
  <2>4. Cardinality(1..(Cardinality(used) + 1)) = Cardinality(used) + 1
    BY <2>1, FS_Interval
  <2> QED BY <2>1, <2>3, <2>4
<1>4. FreshId = CHOOSE n \in 1..(Cardinality(used) + 1) : n \notin used
  BY <1>1 DEF FreshId
<1>5. FreshId \notin used
  BY <1>3, <1>4
<1> QED BY <1>1, <1>5 DEF Held, Txns

\* The id of a row is that of the one in whose place it is written, or a new one.
IdFits(id, conflict) ==
    \/ \E r \in conflict : id = r.id
    \/ (\A r \in Held : r.id # id) /\ (\A t \in Txns : id \notin txn[t].snapshot)

\* No row that transaction t writes takes the id of a row of another event.
Apart(t, y) ==
    /\ \A n \in y.new : \A r \in items \cup y.new \cup txn[Other(t)].new :
         n.id = r.id => n.event = r.event
    /\ \A n \in y.new : n.id \in txn[Other(t)].snapshot => n.event = HeadEvent(txn[Other(t)])

LEMMA WrittenFields ==
    ASSUME RowsInv, NEW x, TxnShape(x), NEW row, NEW conflict, NEW w,
           w = Written(x, row, conflict)
    PROVE  /\ TxnShape(w) /\ w.stage = x.stage /\ w.todo = x.todo /\ w.upserts = x.upserts
           /\ w.snapshot = x.snapshot /\ w.old = x.old \cup conflict
           /\ w.done = x.done /\ w.hurt = x.hurt /\ w.met = x.met /\ w.left = x.left \ {row}
           /\ \E id : IdFits(id, conflict) /\ w.new = x.new \cup {AsStored(row, id)}
<1>1. PICK id : id = IF conflict = {} THEN FreshId ELSE (CHOOSE r \in conflict : TRUE).id
  OBVIOUS
<1>2. w = [x EXCEPT !.left = @ \ {row}, !.old = @ \cup conflict,
                    !.new = @ \cup {AsStored(row, id)}]
  BY <1>1 DEF Written
<1>3. IdFits(id, conflict)
  <2>1. CASE conflict = {}
    BY <2>1, <1>1, FreshIdIsFresh DEF IdFits
  <2>2. CASE conflict # {}
    <3>1. PICK c \in conflict : c = CHOOSE r \in conflict : TRUE
      BY <2>2
    <3>2. id = c.id
      BY <3>1, <2>2, <1>1
    <3> QED BY <3>2 DEF IdFits
  <2> QED BY <2>1, <2>2
<1> QED BY <1>2, <1>3 DEF TxnShape

\* The transaction with one more row of its event.
LEMMA WrittenFits ==
    ASSUME RowsInv, NEW t \in Txns, NEW x, x = txn[t], x.stage = "insert",
           NEW row \in x.left, NEW conflict, \A r \in conflict : r \in items /\ SameKey(r, row),
           NEW id, IdFits(id, conflict), NEW w, TxnShape(w), w.stage = x.stage, w.todo = x.todo, w.upserts = x.upserts,
           w.snapshot = x.snapshot, w.old = x.old \cup conflict,
           w.new = x.new \cup {AsStored(row, id)},
           w.done = x.done, w.hurt = x.hurt, w.met = x.met, w.left = x.left \ {row},
           NEW version, DoneGiven(x, items, version)
    PROVE  Fits(w, items) /\ w.snapshot = {} /\ DoneGiven(w, items, version) /\ Apart(t, w)
<1>4. PICK n : n = AsStored(row, id)
  OBVIOUS
<1>5. Fits(x, items) /\ x.stage = "insert"
  BY DEF RowsInv, TxnsFit
<1>7. w.new = x.new \cup {n}
  BY <1>4
<1>8. /\ row \in Rows(Head(x.todo)) /\ row.event = HeadEvent(x)
      /\ n.event = HeadEvent(x) /\ n.id = id /\ Plain(n) = row
  <2>1. row \in Rows(Head(x.todo))
    BY <1>5 DEF Fits, TouchesOwn
  <2>2. /\ row.event = HeadEvent(x)
        /\ row = [event |-> row.event, part |-> row.part, kind |-> row.kind,
                  display |-> row.display, rev |-> row.rev]
    BY <2>1, RowsOfEvent DEF HeadEvent
  <2>3. /\ n.event = row.event /\ n.id = id
        /\ Plain(n) = [event |-> row.event, part |-> row.part, kind |-> row.kind,
                       display |-> row.display, rev |-> row.rev]
    BY <1>4 DEF AsStored, Plain
  <2> QED BY <2>1, <2>2, <2>3
<1>9. \A r \in conflict : r \in items /\ r.event = HeadEvent(x)
  BY <1>8 DEF SameKey
<1>10. x.snapshot = {} /\ HeadEvent(x) \notin x.done
  BY <1>5, HeadIsStored DEF Fits, TouchesOwn, TodoFits
<1>11. TodoFits(w)
  <2>1. TodoFits(x) /\ w.todo = x.todo /\ w.done = x.done /\ w.stage = x.stage
    BY <1>5, <1>7 DEF Fits
  <2> QED BY <2>1 DEF TodoFits
<1>12. TouchesOwn(w)
  <2>1. IsFiniteSet(w.new) /\ IsFiniteSet(w.snapshot)
    <3>1. IsFiniteSet(x.new) /\ IsFiniteSet(x.snapshot)
      BY <1>5 DEF Fits, TouchesOwn
    <3> QED BY <3>1, <1>7, FS_AddElement
  <2>2. \A r \in w.old \cup w.new : r.event \in w.done \/ r.event = HeadEvent(w)
    BY <1>5, <1>7, <1>8, <1>9 DEF Fits, TouchesOwn, HeadEvent
  <2>3. w.left \subseteq Rows(Head(w.todo))
    BY <1>5, <1>7 DEF Fits, TouchesOwn
  <2> QED BY <2>1, <2>2, <2>3, <1>7, <1>10 DEF TouchesOwn
<1>13. HeadGiven(w, items)
  <2> SUFFICES ASSUME HeadEvent(w) \notin w.met
               PROVE  Gives(w, items, HeadEvent(w), Rows(Head(w.todo)) \ w.left)
    BY <1>7 DEF HeadGiven
  <2>1. HeadEvent(w) = HeadEvent(x) /\ Head(w.todo) = Head(x.todo)
    BY <1>7 DEF HeadEvent
  <2>2. Gives(x, items, HeadEvent(x), Rows(Head(x.todo)) \ x.left)
    BY <2>1, <1>5, <1>7 DEF Fits, HeadGiven
  <2>3. {Plain(r) : r \in {m \in w.new : m.event = HeadEvent(x)}}
          = {Plain(r) : r \in {m \in x.new : m.event = HeadEvent(x)}} \cup {Plain(n)}
    BY <1>7, <1>8
  <2>4. Rows(Head(x.todo)) \ w.left = (Rows(Head(x.todo)) \ x.left) \cup {row}
    BY <1>7, <1>8
  <2>5. \A r \in items : r.event = HeadEvent(x) => r \in w.old
    BY <2>2, <1>7 DEF Gives
  <2>6. {Plain(r) : r \in {m \in x.new : m.event = HeadEvent(x)}} = Rows(Head(x.todo)) \ x.left
    BY <2>2 DEF Gives
  <2>7. {Plain(r) : r \in {m \in w.new : m.event = HeadEvent(x)}} = Rows(Head(x.todo)) \ w.left
    BY <2>3, <2>4, <2>6, <1>8
  <2> QED BY <2>1, <2>5, <2>7 DEF Gives
<1>14. DoneGiven(w, items, version)
  <2>1. ASSUME NEW k, k # HeadEvent(x), NEW rows, Gives(x, items, k, rows)
        PROVE  Gives(w, items, k, rows)
    <3>1. {m \in w.new : m.event = k} = {m \in x.new : m.event = k}
      BY <2>1, <1>7, <1>8
    <3> QED BY <3>1, <2>1, <1>7 DEF Gives
  <2>2. \A e : e.event \in x.done => e.event # HeadEvent(x)
    BY <1>10
  <2> QED BY <2>1, <2>2, <1>7 DEF DoneGiven
<1>15. Held = items \cup x.new \cup txn[Other(t)].new /\ Other(t) \in Txns
  BY DEF Held, Txns, Other
<1>16. /\ \A r \in Held : r.id = id => r.event = HeadEvent(x)
       /\ id \in txn[Other(t)].snapshot => HeadEvent(txn[Other(t)]) = HeadEvent(x)
  <2>1. CASE \E c \in conflict : id = c.id
    <3>1. PICK c \in conflict : id = c.id
      BY <2>1
    <3>2. c \in Held /\ c.event = HeadEvent(x)
      BY <1>9, <1>15
    <3> QED BY <3>1, <3>2, <1>15 DEF RowsInv, IdsApart, SnapshotsApart
  <2>2. CASE (\A r \in Held : r.id # id) /\ (\A s \in Txns : id \notin txn[s].snapshot)
    BY <2>2, <1>15
  <2> QED BY <2>1, <2>2 DEF IdFits
<1>17. \A m \in w.new : \A r \in items \cup w.new \cup txn[Other(t)].new :
         m.id = r.id => m.event = r.event
  <2>1. \A m \in w.new : m \in Held \/ m = n
    BY <1>7, <1>15
  <2>2. \A r \in items \cup w.new \cup txn[Other(t)].new : r \in Held \/ r = n
    BY <1>7, <1>15
  <2>3. \A m, r \in Held : m.id = r.id => m.event = r.event
    BY DEF RowsInv, IdsApart
  <2> QED BY <2>1, <2>2, <2>3, <1>8, <1>16
<1>18. \A m \in w.new : m.id \in txn[Other(t)].snapshot => m.event = HeadEvent(txn[Other(t)])
  <2>1. \A m \in w.new : m \in Held \/ m = n
    BY <1>7, <1>15
  <2>2. \A m \in Held : m.id \in txn[Other(t)].snapshot => m.event = HeadEvent(txn[Other(t)])
    BY <1>15 DEF RowsInv, SnapshotsApart
  <2> QED BY <2>1, <2>2, <1>8, <1>16
<1>19. Fits(w, items)
  BY <1>11, <1>12, <1>13 DEF Fits
<1> QED BY <1>10, <1>14, <1>17, <1>18, <1>19 DEF Apart

LEMMA InsertRowHolds == ASSUME RowsInv, NEW t \in Txns, InsertRow(t) PROVE RowsInv'
<1> DEFINE with(row) == Written(txn[t], row, {r \in items \ txn[t].old : SameKey(r, row)})
           moved(w) == IF w.left = {} THEN NextEvent(w) ELSE w
<1>0. PICK row \in FirstOf(txn[t].left) :
        /\ txn[t].stage = "insert" /\ txn' = [txn EXCEPT ![t] = moved(with(row))]
        /\ UNCHANGED <<events, items, request, failed, raced, nextRev>>
  BY DEF InsertRow
<1> row \in txn[t].left
  BY DEF FirstOf
<1>1. PICK w, y :
        /\ w = Written(txn[t], row, {r \in items \ txn[t].old : SameKey(r, row)})
        /\ y = IF w.left = {} THEN NextEvent(w) ELSE w
        /\ txn[t].stage = "insert" /\ txn' = [txn EXCEPT ![t] = y]
        /\ UNCHANGED <<events, items, request, failed, raced, nextRev>>
  BY <1>0
<1> HIDE DEF with, moved
<1>2. PICK version : version = IF t = "append" THEN txn["append"].upserts ELSE events
  OBVIOUS
<1>3. /\ DoneGiven(txn[t], items, version)
      /\ \A e \in version : e.event = HeadEvent(txn[t]) /\ e.event \notin txn[t].met
           => e = Head(txn[t].todo)
  BY <1>1, <1>2, HeadVersion
<1>4. /\ Fits(w, items) /\ w.stage = "insert" /\ w.todo = txn[t].todo
      /\ w.upserts = txn[t].upserts /\ w.done = txn[t].done /\ w.hurt = txn[t].hurt
      /\ w.met = txn[t].met /\ w.snapshot = {}
      /\ DoneGiven(w, items, version)
      /\ Apart(t, w)
  <2>1. /\ Fits(w, items) /\ w.stage = "insert" /\ w.todo = txn[t].todo
        /\ w.upserts = txn[t].upserts /\ w.done = txn[t].done /\ w.hurt = txn[t].hurt
        /\ w.met = txn[t].met /\ w.left = txn[t].left \ {row} /\ w.snapshot = {}
        /\ DoneGiven(w, items, version) /\ Apart(t, w)
    <3>1. PICK x : x = txn[t]
      OBVIOUS
    <3>2. PICK conflict : conflict = {r \in items \ x.old : SameKey(r, row)}
      OBVIOUS
    <3>4. TxnShape(x) /\ x.stage = "insert" /\ row \in x.left /\ w = Written(x, row, conflict)
      BY <3>1, <3>2, <1>1 DEF RowsInv, TxnsFit, Fits
    <3>3. /\ TxnShape(w) /\ w.stage = x.stage /\ w.todo = x.todo /\ w.upserts = x.upserts
          /\ w.snapshot = x.snapshot /\ w.old = x.old \cup conflict
          /\ w.done = x.done /\ w.hurt = x.hurt /\ w.met = x.met /\ w.left = x.left \ {row}
          /\ \E id : IdFits(id, conflict) /\ w.new = x.new \cup {AsStored(row, id)}
      BY <3>4, WrittenFields
    <3>5. PICK id : IdFits(id, conflict) /\ w.new = x.new \cup {AsStored(row, id)}
      BY <3>3
    <3>6. \A r \in conflict : r \in items /\ SameKey(r, row)
      BY <3>2
    <3>7. Fits(w, items) /\ w.snapshot = {} /\ DoneGiven(w, items, version) /\ Apart(t, w)
      <4>1. x.stage = "insert" /\ row \in x.left /\ DoneGiven(x, items, version)
        BY <1>3, <3>1, <3>4
      <4>2. /\ TxnShape(w) /\ w.stage = x.stage /\ w.todo = x.todo /\ w.upserts = x.upserts
            /\ w.snapshot = x.snapshot /\ w.old = x.old \cup conflict
            /\ w.done = x.done /\ w.hurt = x.hurt /\ w.met = x.met /\ w.left = x.left \ {row}
        BY <3>3
      <4> HIDE <3>2, <3>3, <3>4
      <4> QED BY <3>1, <3>5, <3>6, <4>1, <4>2, WrittenFits
    <3> QED BY <3>1, <3>3, <3>4, <3>7
  <2> QED BY <2>1
<1>5. /\ t = "append" => UpsertsFit(w)
      /\ t = "fill" => ReadFits(w, events)
  BY <1>1, <1>4, SameEvent
<1>6. CASE w.left # {}
  <2>1. y = w
    BY <1>1, <1>6
  <2>2. /\ t = "append" => UpsertsFit(y) /\ DoneGiven(y, items, y.upserts)
        /\ t = "fill" => ReadFits(y, events) /\ DoneGiven(y, items, events)
    BY <2>1, <1>2, <1>4, <1>5
  <2> QED BY <2>1, <2>2, <1>1, <1>4, Moves DEF Apart
<1>7. CASE w.left = {}
  <2>1. y = NextEvent(w)
    BY <1>1, <1>7
  <2>2. /\ TxnShape(w) /\ TodoFits(w) /\ w.todo # <<>> /\ IsFiniteSet(w.new)
        /\ \A r \in w.old \cup w.new : r.event \in w.done \/ r.event = HeadEvent(w)
    BY <1>4 DEF Fits, TodoFits, TouchesOwn
  <2>3. /\ Fits(y, items) /\ y.stage \in {"event", "commit"}
        /\ y.upserts = w.upserts /\ y.old = w.old /\ y.new = w.new /\ y.met = w.met
        /\ y.snapshot = {} /\ y.done = w.done \cup {HeadEvent(w)}
        /\ y.todo = Tail(w.todo) /\ y.hurt = w.hurt
    BY <2>1, <2>2, <1>4, Onward
  <2>4. HeadEvent(w) = HeadEvent(txn[t]) /\ Head(w.todo) = Head(txn[t].todo)
    BY <1>4 DEF HeadEvent
  <2>5. HeadEvent(w) \notin w.met => Gives(w, items, HeadEvent(w), Rows(Head(w.todo)))
    <3>1. Rows(Head(w.todo)) \ w.left = Rows(Head(w.todo))
      BY <1>7
    <3> QED BY <3>1, <1>4 DEF Fits, HeadGiven
  <2>6. DoneGiven(y, items, version)
    <3>1. \A e \in version : e.event = HeadEvent(w) /\ e.event \notin w.met /\ Rows(e) # {}
            => Gives(w, items, e.event, Rows(e))
      BY <2>4, <2>5, <1>3, <1>4
    <3> QED BY <3>1, <2>3, <1>4, DoneOnward
  <2>7. t = "append" => UpsertsFit(y)
    <3>1. ASSUME t = "append"
          PROVE  /\ w.upserts \subseteq Stored /\ IsFiniteSet(w.upserts)
                 /\ OneVersion(w.upserts)
                 /\ \A u \in w.upserts : u.event \in w.done \/ u = Head(w.todo)
      BY <3>1, <1>5 DEF UpsertsFit
    <3> QED BY <3>1, <2>3, UpsertsOnward
  <2>8. t = "fill" => ReadFits(y, events)
    BY <2>2, <2>3, <1>5, ReadOnward
  <2>9. /\ t = "append" => UpsertsFit(y) /\ DoneGiven(y, items, y.upserts)
        /\ t = "fill" => ReadFits(y, events) /\ DoneGiven(y, items, events)
    BY <2>3, <2>6, <2>7, <2>8, <1>2, <1>4
  <2>10. Apart(t, y) /\ y.snapshot = {}
    BY <2>3, <1>4 DEF Apart
  <2> QED BY <2>3, <2>9, <2>10, <1>1, Moves DEF Apart
<1> QED BY <1>6, <1>7

\* A transaction is rolled back, or the script comes to its next batch.
LEMMA IdleHolds ==
    ASSUME RowsInv, NEW t \in Txns, NEW n, n = NoTxn \/ n = [NoTxn EXCEPT !.stage = "read"],
           txn' = [txn EXCEPT ![t] = n],
           UNCHANGED <<events, items, request, failed, raced, nextRev>>
    PROVE  RowsInv'
<1>1. /\ Fits(n, items) /\ UpsertsFit(n) /\ ReadFits(n, events)
      /\ DoneGiven(n, items, n.upserts) /\ DoneGiven(n, items, events)
      /\ n.new = {} /\ n.snapshot = {}
  BY IdleFits
<1> QED BY <1>1, MovesOn

LEMMA ReadBatchHolds == ASSUME RowsInv, ReadBatch PROVE RowsInv'
<1>1. CASE txn' = [txn EXCEPT !["fill"] = NoTxn]
  BY <1>1, IdleHolds DEF ReadBatch, Txns
<1>2. CASE NextEvents # {}
  <2>1. PICK batch \in [1..Cardinality(NextEvents) -> NextEvents] :
          /\ \A i, j \in DOMAIN batch : i < j => batch[i].event < batch[j].event
          /\ txn' = [txn EXCEPT !["fill"] = [NoTxn EXCEPT !.stage = "event", !.todo = batch]]
    BY <1>2 DEF ReadBatch
  <2>2. PICK y : y = [NoTxn EXCEPT !.stage = "event", !.todo = batch]
    OBVIOUS
  <2>3. /\ txn' = [txn EXCEPT !["fill"] = y]
        /\ UNCHANGED <<events, items, request, failed, raced, nextRev>>
    BY <2>1, <2>2 DEF ReadBatch
  <2>4. /\ TxnShape(y) /\ y.stage = "event" /\ y.todo = batch /\ y.upserts = {}
        /\ y.snapshot = {} /\ y.old = {} /\ y.new = {} /\ y.done = {}
    BY <2>2 DEF NoTxn, TxnShape
  <2>5. NextEvents \subseteq events /\ events \subseteq Stored
    BY DEF NextEvents, RowsInv, TablesFit
  <2>6. Cardinality(NextEvents) \in Nat \ {0}
    <3>1. IsFiniteSet(NextEvents)
      BY <2>5, FS_Subset DEF RowsInv, TablesFit
    <3> QED BY <3>1, <1>2, FS_CardinalityType, FS_EmptySet
  <2>7. batch \in Seq(Stored) /\ batch # <<>>
    BY <2>1, <2>5, <2>6
  <2>8. \A i, j \in DOMAIN batch : batch[i].event = batch[j].event => i = j
    <3>1. DOMAIN batch \subseteq Nat /\ \A i \in DOMAIN batch : batch[i].event \in Nat
      BY <2>1, <2>5, <2>6, RenderRowsAssumption DEF Stored
    <3> QED BY <2>1, <3>1
  <2>9. TodoFits(y)
    BY <2>4, <2>7, <2>8 DEF TodoFits
  <2>10. TouchesOwn(y) /\ HeadGiven(y, items)
    BY <2>4, FS_EmptySet DEF TouchesOwn, HeadGiven
  <2>11. ReadFits(y, events) /\ DoneGiven(y, items, events)
    BY <2>1, <2>4, <2>5 DEF ReadFits, DoneGiven
  <2> QED BY <2>3, <2>4, <2>9, <2>10, <2>11, MovesOn DEF Txns, Fits
<1> QED BY <1>1, <1>2 DEF ReadBatch

LEMMA FillEventHolds == ASSUME RowsInv, FillEvent PROVE RowsInv'
<1>1. PICK x : x = txn["fill"]
  OBVIOUS
<1>2. PICK y : y = IF Rows(Head(x.todo)) = {} THEN NextEvent(x)
                   ELSE [x EXCEPT !.stage = "delete"]
  OBVIOUS
<1>3. /\ x.stage = "event" /\ txn' = [txn EXCEPT !["fill"] = y]
      /\ UNCHANGED <<events, items, request, failed, raced, nextRev>>
  BY <1>1, <1>2 DEF FillEvent
<1>4. /\ Fits(x, items) /\ ReadFits(x, events) /\ DoneGiven(x, items, events)
      /\ x.todo # <<>> /\ x.snapshot = {}
  BY <1>1, <1>3 DEF RowsInv, TxnsFit, Txns, Fits, TodoFits, TouchesOwn
<1>5. CASE y = NextEvent(x) /\ Rows(Head(x.todo)) = {}
  <2>1. /\ TxnShape(x) /\ TodoFits(x) /\ IsFiniteSet(x.new)
        /\ \A r \in x.old \cup x.new : r.event \in x.done \/ r.event = HeadEvent(x)
    BY <1>3, <1>4 DEF Fits, TouchesOwn
  <2>2. /\ Fits(y, items) /\ y.old = x.old /\ y.new = x.new /\ y.met = x.met
        /\ y.snapshot = {} /\ y.done = x.done \cup {HeadEvent(x)}
        /\ y.todo = Tail(x.todo) /\ y.hurt = x.hurt
    BY <2>1, <1>4, <1>5, Onward
  <2>3. \A e \in events : e.event = HeadEvent(x) /\ e.event \notin x.met => e = Head(x.todo)
    BY <1>1, <1>3, HeadVersion DEF Txns
  <2>4. \A e \in events : e.event = HeadEvent(x) /\ e.event \notin x.met /\ Rows(e) # {}
          => Gives(x, items, e.event, Rows(e))
    BY <2>3, <1>5
  <2>5. DoneGiven(y, items, events)
    BY <2>2, <2>4, <1>4, DoneOnward
  <2>6. ReadFits(y, events)
    BY <2>1, <2>2, <1>4, ReadOnward
  <2> QED BY <2>2, <2>5, <2>6, <1>1, <1>3, MovesOn DEF Txns
<1>6. CASE y = [x EXCEPT !.stage = "delete"]
  <2>1. /\ TxnShape(y) /\ y.stage = "delete" /\ y.todo = x.todo /\ y.snapshot = x.snapshot
        /\ y.old = x.old /\ y.new = x.new /\ y.done = x.done /\ y.hurt = x.hurt
        /\ y.met = x.met
    BY <1>4, <1>6 DEF Fits, TxnShape
  <2>2. TodoFits(y)
    BY <2>1, <1>3, <1>4 DEF Fits, TodoFits
  <2>3. TouchesOwn(y) /\ HeadGiven(y, items)
    BY <2>1, <1>3, <1>4 DEF Fits, TouchesOwn, HeadGiven
  <2>4. ReadFits(y, events) /\ DoneGiven(y, items, events)
    BY <2>1, <1>4 DEF ReadFits, DoneGiven, Gives
  <2> QED BY <2>1, <2>2, <2>3, <2>4, <1>1, <1>3, <1>4, MovesOn DEF Txns, Fits
<1> QED BY <1>2, <1>5, <1>6

LEMMA CommitHolds ==
    ASSUME RowsInv, NEW t \in Txns, NEW n, n = NoTxn \/ n = [NoTxn EXCEPT !.stage = "read"],
           Commit(t, n), nextRev' \in Nat, request' = request \/ request' = <<>>,
           events' = IF t = "append"
                     THEN {e \in events : e.event \notin txn[t].done} \cup txn[t].upserts
                     ELSE events
    PROVE  RowsInv'
<1>1. PICK x : x = txn[t]
  OBVIOUS
<1>2. PICK o : o = txn[Other(t)]
  OBVIOUS
<1>3. PICK both : both = x.done \cap EventsOf(Other(t))
  OBVIOUS
<1>4. PICK z : z = [o EXCEPT !.met = @ \cup both]
  OBVIOUS
<1>5. /\ x.stage = "commit" /\ items' = {r \in items : r \notin x.old} \cup x.new
      /\ raced' = (raced \ (x.done \ x.hurt)) \cup both \cup (x.done \cap x.met)
      /\ failed' = (failed \ x.done) \cup x.hurt
      /\ txn' = [s \in DOMAIN txn |-> IF s = t THEN n ELSE [txn[s] EXCEPT !.met = @ \cup both]]
  BY <1>1, <1>3 DEF Commit, Overwritten
<1>6. /\ Other(t) \in Txns /\ Other(t) # t /\ Txns = {t, Other(t)}
      /\ txn'[t] = n /\ txn'[Other(t)] = z /\ txn' = [s \in Txns |-> txn'[s]]
  <2>1. Other(t) \in Txns /\ Other(t) # t /\ Txns = {t, Other(t)}
    BY Others
  <2>2. txn = [s \in Txns |-> txn[s]]
    BY DEF RowsInv, TxnsFit
  <2>3. txn'[t] = n /\ txn'[Other(t)] = [txn[Other(t)] EXCEPT !.met = @ \cup both]
    BY <2>1, <2>2, <1>5
  <2>4. DOMAIN txn' = Txns /\ txn' = [s \in Txns |-> txn'[s]]
    BY <2>2, <1>5
  <2> QED BY <2>1, <2>3, <2>4, <1>2, <1>4
<1>7. Fits(x, items) /\ Fits(o, items)
  BY <1>1, <1>2, <1>6 DEF RowsInv, TxnsFit
<1>8. /\ TxnShape(z) /\ z.stage = o.stage /\ z.todo = o.todo /\ z.upserts = o.upserts
      /\ z.snapshot = o.snapshot /\ z.old = o.old /\ z.new = o.new /\ z.left = o.left
      /\ z.done = o.done /\ z.hurt = o.hurt /\ z.met = o.met \cup both
  BY <1>4, <1>7 DEF Fits, TxnShape
<1>9. \A r : r.event \notin x.done => (r \in items' <=> r \in items)
  BY <1>5, <1>7 DEF Fits, TouchesOwn
\* Events of the other transaction that are not noted are untouched.
<1>10. \A k : k \notin z.met /\ (k \in o.done \/ \E i \in DOMAIN o.todo : o.todo[i].event = k)
         => k \notin x.done /\ k \notin o.met
  BY <1>2, <1>3, <1>8 DEF EventsOf
<1>11. \A k, rows : k \notin x.done /\ Gives(o, items, k, rows) => Gives(z, items', k, rows)
  BY <1>8, <1>9 DEF Gives
<1>12. Fits(z, items')
  <2>1. TodoFits(z)
    BY <1>7, <1>8 DEF Fits, TodoFits
  <2>2. TouchesOwn(z)
    BY <1>7, <1>8 DEF Fits, TouchesOwn, HeadEvent
  <2>3. HeadEvent(z) = HeadEvent(o) /\ Head(z.todo) = Head(o.todo)
    BY <1>8 DEF HeadEvent
  <2>4. ASSUME z.stage \in {"deleting", "insert"}, HeadEvent(z) \notin z.met
        PROVE  HeadEvent(o) \notin x.done /\ HeadEvent(o) \notin o.met
    <3>1. 1 \in DOMAIN o.todo /\ o.todo[1].event = HeadEvent(o)
      BY <2>4, <1>7, <1>8, HeadIsStored DEF Fits, TodoFits, HeadEvent
    <3> QED BY <3>1, <2>3, <2>4, <1>10
  <2>5. HeadGiven(z, items')
    BY <2>3, <2>4, <1>7, <1>8, <1>9, <1>11 DEF Fits, HeadGiven
  <2> QED BY <2>1, <2>2, <2>5, <1>8 DEF Fits
<1>13. /\ t = "append" => UpsertsFit(x) /\ DoneGiven(x, items, x.upserts)
                           /\ ReadFits(o, events) /\ DoneGiven(o, items, events)
       /\ t = "fill" => UpsertsFit(o) /\ DoneGiven(o, items, o.upserts)
                         /\ DoneGiven(x, items, events)
  BY <1>1, <1>2 DEF RowsInv, TxnsFit, Other
<1>14. t = "append" => \A u \in x.upserts : u.event \in x.done
  BY <1>5, <1>13 DEF UpsertsFit
<1>15. /\ t = "append" => ReadFits(z, events') /\ DoneGiven(z, items', events')
       /\ t = "fill" => UpsertsFit(z) /\ DoneGiven(z, items', z.upserts)
  <2>1. CASE t = "append"
    <3>1. \A e : e.event \notin x.done => (e \in events' <=> e \in events)
      BY <2>1, <1>1, <1>14
    <3>2. ReadFits(z, events')
      BY <2>1, <3>1, <1>8, <1>10, <1>13 DEF ReadFits
    <3>3. DoneGiven(z, items', events')
      BY <2>1, <3>1, <1>8, <1>10, <1>11, <1>13 DEF DoneGiven
    <3> QED BY <2>1, <3>2, <3>3
  <2>2. CASE t = "fill"
    <3>1. UpsertsFit(z)
      BY <2>2, <1>8, <1>13 DEF UpsertsFit
    <3>2. DoneGiven(z, items', z.upserts)
      BY <2>2, <1>8, <1>10, <1>11, <1>13 DEF DoneGiven
    <3> QED BY <2>2, <3>1, <3>2
  <2> QED BY <2>1, <2>2 DEF Txns
<1>16. TxnsFit'
  <2>1. /\ Fits(n, items') /\ UpsertsFit(n) /\ ReadFits(n, events')
        /\ DoneGiven(n, items', n.upserts) /\ DoneGiven(n, items', events')
    BY IdleFits
  <2>2. \A s \in Txns : Fits(txn[s], items)'
    BY <2>1, <1>6, <1>12
  <2>3. CASE t = "append"
    <3>1. txn'["append"] = n /\ txn'["fill"] = z
      BY <2>3, <1>6 DEF Other
    <3> QED BY <2>1, <2>2, <2>3, <3>1, <1>6, <1>15 DEF TxnsFit
  <2>4. CASE t = "fill"
    <3>1. txn'["fill"] = n /\ txn'["append"] = z
      BY <2>4, <1>6 DEF Other
    <3> QED BY <2>1, <2>2, <2>4, <3>1, <1>6, <1>15 DEF TxnsFit
  <2> QED BY <2>3, <2>4 DEF Txns
<1>17. TablesFit'
  <2>1. IsFiniteSet(items)'
    <3>1. IsFiniteSet(items) /\ IsFiniteSet(x.new)
      BY <1>7 DEF RowsInv, TablesFit, Fits, TouchesOwn
    <3>2. IsFiniteSet({r \in items : r \notin x.old})
      BY <3>1, FS_Subset
    <3> QED BY <3>1, <3>2, <1>5, FS_Union
  <2>2. /\ events \subseteq Stored /\ IsFiniteSet(events) /\ OneVersion(events)
        /\ request = <<>> \/ request \in Requests
    BY DEF RowsInv, TablesFit
  <2>3. events' \subseteq Stored /\ IsFiniteSet(events') /\ OneVersion(events')
    <3>1. CASE t = "append"
      <4>1. x.upserts \subseteq Stored /\ IsFiniteSet(x.upserts) /\ OneVersion(x.upserts)
        BY <3>1, <1>13 DEF UpsertsFit
      <4>2. PICK kept : kept = {e \in events : e.event \notin x.done}
        OBVIOUS
      <4>3. events' = kept \cup x.upserts
        BY <3>1, <4>2, <1>1
      <4>4. kept \subseteq events /\ IsFiniteSet(kept)
        BY <2>2, <4>2, FS_Subset
      <4>5. \A e \in kept : e.event \notin x.done
        BY <4>2
      <4>6. OneVersion(events')
        BY <2>2, <4>1, <4>3, <4>4, <4>5, <3>1, <1>14 DEF OneVersion
      <4>7. IsFiniteSet(kept \cup x.upserts)
        BY <4>1, <4>4, FS_Union
      <4>8. events' \subseteq Stored
        BY <2>2, <4>1, <4>3, <4>4
      <4>9. IsFiniteSet(events')
        BY <4>3, <4>7
      <4> QED BY <4>6, <4>8, <4>9
    <3>2. CASE t = "fill"
      BY <2>2, <3>2
    <3> QED BY <3>1, <3>2 DEF Txns
  <2> QED BY <2>1, <2>2, <2>3 DEF TablesFit
<1>18. IdsApart' /\ SnapshotsApart'
  <2>1. n.new = {} /\ n.snapshot = {}
    BY IdleFits
  <2>2. Held' = items' \cup n.new \cup z.new
    BY <1>6 DEF Held, Txns, Other
  <2>3. Held = items \cup x.new \cup o.new
    BY <1>1, <1>2, <1>6 DEF Held, Txns, Other
  <2>4. Held' \subseteq Held
    BY <2>1, <2>2, <2>3, <1>5, <1>8
  <2>5. IdsApart'
    BY <2>4 DEF RowsInv, IdsApart
  <2>6. HeadEvent(z) = HeadEvent(o)
    BY <1>8 DEF HeadEvent
  <2>7. \A r \in Held : r.id \in o.snapshot => r.event = HeadEvent(o)
    BY <1>2, <1>6 DEF RowsInv, SnapshotsApart
  <2>8. \A s \in Txns : \A r \in Held' : r.id \in txn'[s].snapshot => r.event = HeadEvent(txn[s])'
    BY <2>1, <2>4, <2>6, <2>7, <1>6, <1>8
  <2> QED BY <2>5, <2>8 DEF SnapshotsApart
<1>19. RowsReflectEvent'
  <2> SUFFICES ASSUME NEW e \in events', Rows(e) # {}, e.event \notin failed' \cup raced'
               PROVE  {Plain(r) : r \in {m \in items' : m.event = e.event}} = Rows(e)
    BY DEF RowsReflectEvent, Reflects, Committed, Plain
  <2>1. CASE e.event \notin x.done
    <3>1. e \in events
      BY <2>1, <1>1, <1>14
    <3>2. e.event \notin failed \cup raced
      BY <2>1, <1>5
    <3>3. {Plain(r) : r \in {m \in items : m.event = e.event}} = Rows(e)
      BY <3>1, <3>2 DEF RowsInv, RowsReflectEvent, Reflects, Committed, Plain
    <3>4. {m \in items' : m.event = e.event} = {m \in items : m.event = e.event}
      BY <2>1, <1>9
    <3> QED BY <3>3, <3>4
  <2>2. CASE e.event \in x.done
    <3>1. e.event \notin x.hurt /\ e.event \notin x.met
      BY <2>2, <1>5
    <3>2. Gives(x, items, e.event, Rows(e))
      BY <2>2, <3>1, <1>1, <1>13 DEF DoneGiven, Txns
    <3>3. {m \in items' : m.event = e.event} = {m \in x.new : m.event = e.event}
      BY <3>2, <1>5 DEF Gives
    <3> QED BY <3>2, <3>3 DEF Gives
  <2> QED BY <2>1, <2>2
<1> QED BY <1>16, <1>17, <1>18, <1>19 DEF RowsInv

LEMMA RowsMove == RowsInv /\ [Next]_vars => RowsInv'
<1> SUFFICES ASSUME RowsInv, [Next]_vars PROVE RowsInv'
  OBVIOUS
<1>1. CASE Send
  BY <1>1, Quiet DEF Send
<1>2. CASE BeginAppend
  BY <1>2, BeginAppendHolds
<1>3. CASE UpsertEvent
  BY <1>3, UpsertEventHolds
<1>4. CASE AppendFails
  BY <1>4, IdleHolds DEF AppendFails, Txns
<1>5. CASE CommitAppend
  <2>1. nextRev' \in Nat
    <3>1. nextRev \in Nat /\ Len(request) \in Nat
      BY DEF RowsInv, TablesFit, Requests
    <3> QED BY <3>1, <1>5 DEF CommitAppend
  <2> QED BY <1>5, <2>1, CommitHolds DEF CommitAppend, Txns
<1>6. CASE StartFill
  BY <1>6, IdleHolds DEF StartFill, Txns
<1>7. CASE ReadBatch
  BY <1>7, ReadBatchHolds
<1>8. CASE FillEvent
  BY <1>8, FillEventHolds
<1>9. CASE FillFails \/ Interrupt
  BY <1>9, IdleHolds DEF FillFails, Interrupt, Exit, Txns
<1>10. CASE CommitBatch
  <2>1. nextRev' \in Nat
    BY <1>10 DEF CommitBatch, RowsInv, TablesFit
  <2> QED BY <1>10, <2>1, CommitHolds DEF CommitBatch, Txns
<1>11. CASE Break \/ Repair
  BY <1>11, Quiet DEF Break, Repair
<1>12. CASE \E t \in Txns : HookStep(t)
  BY <1>12, BeginDeleteHolds, EndDeleteHolds, InsertRowHolds DEF HookStep
<1>13. CASE UNCHANGED vars
  BY <1>13, Quiet DEF vars
<1> QED BY <1>1, <1>2, <1>3, <1>4, <1>5, <1>6, <1>7, <1>8, <1>9, <1>10, <1>11, <1>12, <1>13
        DEF Next, AppendStep, FillStep, Txns

\* ingest-hook.ts:66, "render rows always reflect the current normalized version":
\* the rows of an event that has some are those rendered from its stored version, in
\* whatever order the statements of an append and of the backfill interleave and
\* whichever of them is rolled back, unless the conversion broke or both wrote it at once.
THEOREM RowsReflect == Spec => []RowsReflectEvent
<1>1. RowsInv => RowsReflectEvent
  BY DEF RowsInv
<1> QED BY <1>1, RowsInitially, RowsMove, PTL DEF Spec

==============================================================================

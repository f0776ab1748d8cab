--------------------------------- MODULE Drafts ---------------------------------
(***************************************************************************)
(* The draft of one chat, shared by browsers: the Yjs document of the      *)
(* legacy client (apps/frontend/yjs.ts, the Yjs part of App.tsx, the       *)
(* stores ydocs and yjsOutbox of db.ts) and its server side in             *)
(* apps/backend/server.ts (syncYjs, mergeYjsUpdate, the /api/yjs/ws        *)
(* socket).                                                                *)
(*                                                                         *)
(* A state of a document is the set of edits merged into it: merging is    *)
(* union, the difference to a state vector is set difference.  Edits are   *)
(* numbered as they are made.                                              *)
(*                                                                         *)
(* A browser has one tab.  Every await of the client and the two           *)
(* statements of the server's merge are step boundaries; a transaction of  *)
(* IndexedDB is one step.  Left out: the update that waits for a           *)
(* connecting socket (the flush at its opening sends the edit as well), a  *)
(* browser that is offline or logged out (its requests fail), and a write  *)
(* of IndexedDB that fails: an edit that cannot be put into the outbox     *)
(* goes through the open socket only (App.tsx:1705-1708).                  *)
(***************************************************************************)
EXTENDS Integers, FiniteSets

CONSTANTS
    Browsers,    \* browsers that show the chat
    FlushLimit,  \* entries that one flush sends (loadYjsOutboxUpdates(100))
    MaxEdits,    \* bound: edits
    MaxOpens,    \* bound: openings of the chat, per browser
    Writers,     \* those that edit its draft
    Scenes,      \* bounds, chosen at the start: [browsers: those that are there; linked:
                 \* those whose socket is open at first; mishaps: pairs of browser and
                 \* "request", "socket", "reload" or "wake"; opens: openings of the chat]
    MaxDraftMishaps   \* bound: failed requests, lost sockets, reloads, returns to the tab

ASSUME ScenesAssumption == \A s \in Scenes : s.browsers \subseteq Browsers

VARIABLES
    scene,    \* one of Scenes, for good
    server,   \* yjs_documents.update
    locked,   \* a merge holds the advisory lock
    reqs,     \* posts and socket updates on their way
    docs,     \* Y.Doc objects of a browser: number -> edits
    live,     \* yDocs.current: the number of the open document, 0 if none
    loadingDoc, \* what loadDraftDoc has read, NoLoad if none runs
    cached,   \* ydocs
    merging,  \* mergeCachedDraftUpdate: what was read, and the update
    enq,      \* edits that are being put into the outbox
    outbox,   \* yjsOutbox
    flushing, \* yOutboxFlushing
    waiting,  \* who waits for the flush to end: "load", "recon"
    recon,    \* yReconcileRunning
    again,    \* yReconcileQueued
    editTimer, \* yPushTimers: number of the document to push, 0 if none is set
    link,     \* the socket: "closed", "open"; subscription: "none", "asked", "there"
    down,     \* broadcast updates on their way to a browser
    edited,   \* edits made so far
    draftMishaps,
    safe      \* history: edits that have been in an outbox

docVars == <<docs, live, loadingDoc, cached, merging>>
sendVars == <<enq, outbox, flushing, waiting, recon, again, editTimer>>
wireVars == <<server, locked, reqs, link, down>>
histVars == <<edited, draftMishaps, safe>>
draftVars == <<docVars, sendVars, wireVars, histVars>>

Edits == 1..MaxEdits
NoLoad == {0}
DraftMishap(b, k) ==
    /\ <<b, k>> \in scene.mishaps /\ draftMishaps < MaxDraftMishaps
    /\ draftMishaps' = draftMishaps + 1

Linked(sub) == [open |-> TRUE, sub |-> sub]
Unlinked == [open |-> FALSE, sub |-> "none"]

\* The chat is open in every browser, its draft is empty and all have synchronised; a socket
\* may have been lost just now.
DraftsInit ==
    /\ scene \in Scenes
    /\ server = {} /\ locked = FALSE /\ reqs = {}
    /\ docs = [b \in Browsers |-> [o \in 1..MaxOpens |-> {}]]
    /\ live = [b \in Browsers |-> 1]
    /\ loadingDoc = [b \in Browsers |-> NoLoad]
    /\ cached = [b \in Browsers |-> {}] /\ merging = [b \in Browsers |-> {}]
    /\ enq = [b \in Browsers |-> {}] /\ outbox = [b \in Browsers |-> {}]
    /\ flushing = [b \in Browsers |-> FALSE] /\ waiting = [b \in Browsers |-> {}]
    /\ recon = [b \in Browsers |-> FALSE] /\ again = [b \in Browsers |-> FALSE]
    /\ editTimer = [b \in Browsers |-> 0]
    /\ link = [b \in Browsers |-> IF b \in scene.linked THEN Linked("there") ELSE Unlinked]
    /\ down = [b \in Browsers |-> {}]
    /\ edited = [edits |-> 0, opens |-> [b \in Browsers |-> 1]]
    /\ draftMishaps = 0
    /\ safe = {}

----------------------------------------------------------------------------
(* Requests.  A post names the edits it brings (upd) and those its sender  *)
(* knows of (vec); a flush names none.                                     *)

Req(b, kind, upd, vec, obj) ==
    [from |-> b, kind |-> kind, upd |-> upd, vec |-> vec, obj |-> obj,
     step |-> "sent", base |-> {}, reply |-> {}]
ReqAt(r, step, base, reply) ==
    [from |-> r.from, kind |-> r.kind, upd |-> r.upd, vec |-> r.vec, obj |-> r.obj,
     step |-> step, base |-> base, reply |-> reply]

\* syncDraftDoc of the document o, for the editTimer or the load ("push") or for the
\* reconciliation ("live").
SyncOf(b, kind, o) == Req(b, kind, docs[b][o], docs[b][o], o)

\* syncCachedDraftDocs of the cached document.
WarmOf(b) == Req(b, "warm", cached[b], cached[b], 0)

\* What loadYjsOutboxUpdates gives: the oldest entries.
Oldest(box) == {e \in box : Cardinality({f \in box : f <= e}) <= FlushLimit}

FlushOf(b, box) == Req(b, "flush", Oldest(box), {}, 0)

\* flushYjsOutbox with the outbox box: nothing while one runs, or for an empty outbox.
\* The other requests are q.
FlushAfter(b, box, q) ==
    LET go == ~flushing[b] /\ box # {}
    IN  /\ flushing' = [flushing EXCEPT ![b] = @ \/ go]
        /\ reqs' = q \cup (IF go THEN {FlushOf(b, box)} ELSE {})

Flush(b, box, more) == FlushAfter(b, box, reqs \cup more)

\* reconcileYjsDocs: one at a time, a call meanwhile runs it once more.  It awaits the
\* flush if it has started it itself (own).
Reconcile(b, own) ==
    /\ recon' = [recon EXCEPT ![b] = TRUE]
    /\ again' = [again EXCEPT ![b] = recon[b]]
    /\ waiting' = IF recon[b] THEN waiting
                  ELSE [waiting EXCEPT ![b] = @ \cup {[who |-> "recon", own |-> own, obj |-> 0]}]

\* subscribeYjsSocket: the message needs an open socket.
Subscribed(b, k) ==
    IF k[b].open /\ k[b].sub = "none" THEN [k EXCEPT ![b].sub = "asked"] ELSE k

----------------------------------------------------------------------------
(* The server *)

\* An altered form: the merge without the advisory lock.
Unlocked == TRUE

LockFree == ~locked

\* mergeYjsUpdate reads the stored document under the lock.
MergeReads(r) ==
    /\ r.step = "sent"
    /\ LockFree
    /\ locked' = TRUE
    /\ reqs' = (reqs \ {r}) \cup {ReqAt(r, "locked", server, {})}
    /\ UNCHANGED <<docVars, sendVars, server, link, down, histVars>>

\* An altered form: the update replaces what is stored.
LastWriteWins(base, upd) == upd

\* Y.mergeUpdates
MergedDoc(base, upd) == base \cup upd

\* broadcastYjsUpdate leaves out the socket the update came from; a post has none.
Reached(r) ==
    {b \in Browsers : link[b].sub = "there" /\ ~(r.kind = "socket" /\ r.from = b)}

\* It writes the merged document, the update is broadcast, and syncYjs answers with what
\* the sender lacks (which it reads again: a later merge only adds to it).
MergeWrites(r) ==
    /\ r.step = "locked"
    /\ server' = MergedDoc(r.base, r.upd)
    /\ locked' = FALSE
    /\ reqs' = (reqs \ {r}) \cup
                 (IF r.kind \in {"socket", "gone"} THEN {}
                  ELSE {ReqAt(r, "answered", {}, server' \ r.vec)})
    /\ down' = [b \in Browsers |-> IF b \in Reached(r) /\ r.upd # {}
                                   THEN down[b] \cup {r.upd} ELSE down[b]]
    /\ UNCHANGED <<docVars, sendVars, link, edited, draftMishaps, safe>>

SubscriptionArrives(b) ==
    /\ link[b].sub = "asked"
    /\ link' = [link EXCEPT ![b].sub = "there"]
    /\ UNCHANGED <<docVars, sendVars, server, locked, reqs, down, histVars>>

----------------------------------------------------------------------------
(* The document in the browser *)

\* onUpdate after an edit: the document is persisted, the edit goes to the outbox and
\* the push editTimer is set anew.
Edit(b) ==
    /\ b \in Writers /\ live[b] # 0 /\ edited.edits < MaxEdits
    /\ LET e == edited.edits + 1
           d == docs[b][live[b]] \cup {e}
       IN  /\ docs' = [docs EXCEPT ![b][live[b]] = d]
           /\ cached' = [cached EXCEPT ![b] = d]
           /\ enq' = [enq EXCEPT ![b] = @ \cup {e}]
           /\ editTimer' = [editTimer EXCEPT ![b] = live[b]]
           /\ edited' = [edited EXCEPT !.edits = e]
    /\ UNCHANGED <<live, loadingDoc, merging, outbox, flushing, waiting, recon, again, wireVars,
                   draftMishaps, safe>>

\* enqueueYjsOutboxUpdate has ended: the edit goes through an open socket and is flushed.
Enqueued(b, e) ==
    /\ e \in enq[b]
    /\ enq' = [enq EXCEPT ![b] = @ \ {e}]
    /\ outbox' = [outbox EXCEPT ![b] = @ \cup {e}]
    /\ safe' = safe \cup {e}
    /\ Flush(b, outbox'[b],
             IF link[b].open THEN {Req(b, "socket", {e}, {}, 0)} ELSE {})
    /\ UNCHANGED <<docVars, waiting, recon, again, editTimer, server, locked, link, down, edited,
                   draftMishaps>>

\* 500 ms after the last edit: a second flush, and the whole document is pushed.
TimerFires(b) ==
    /\ editTimer[b] # 0
    /\ editTimer' = [editTimer EXCEPT ![b] = 0]
    /\ Flush(b, outbox[b], {SyncOf(b, "push", editTimer[b])})
    /\ UNCHANGED <<docVars, enq, outbox, waiting, recon, again, server, locked, link, down,
                   histVars>>

\* loadDraftDoc of the chat that becomes the active one.
OpenDraft(b) ==
    /\ live[b] = 0 /\ loadingDoc[b] = NoLoad /\ edited.opens[b] < scene.opens
    /\ loadingDoc' = [loadingDoc EXCEPT ![b] = cached[b]]
    /\ edited' = [edited EXCEPT !.opens[b] = @ + 1]
    /\ UNCHANGED <<docs, live, cached, merging, sendVars, wireVars, draftMishaps, safe>>

\* Its document becomes the live one, is subscribed to, flushed and synchronised.
Opened(b) ==
    /\ loadingDoc[b] # NoLoad
    /\ loadingDoc' = [loadingDoc EXCEPT ![b] = NoLoad]
    /\ live' = [live EXCEPT ![b] = edited.opens[b]]
    /\ docs' = [docs EXCEPT ![b][edited.opens[b]] = loadingDoc[b]]
    /\ waiting' = [waiting EXCEPT ![b] = @ \cup
                     {[who |-> "load", own |-> ~flushing[b], obj |-> edited.opens[b]]}]
    /\ Flush(b, outbox[b], {})
    /\ link' = Subscribed(b, link)
    /\ UNCHANGED <<cached, merging, enq, outbox, recon, again, editTimer, server, locked, down,
                   histVars>>

\* Another chat is opened.  Timers and requests of the document go on without it.
CloseChat(b) ==
    /\ live[b] # 0 \/ loadingDoc[b] # NoLoad
    /\ live' = [live EXCEPT ![b] = 0]
    /\ loadingDoc' = [loadingDoc EXCEPT ![b] = NoLoad]
    /\ UNCHANGED <<docs, cached, merging, sendVars, wireVars, histVars>>

\* applyRemoteYjsUpdate: into the live document and the cached, or into the cached alone.
ApplyRemote(b, u) ==
    IF live[b] # 0
    THEN LET d == docs[b][live[b]] \cup u
         IN  /\ docs' = [docs EXCEPT ![b][live[b]] = d]
             /\ cached' = [cached EXCEPT ![b] = d]
             /\ UNCHANGED merging
    ELSE /\ merging' = [merging EXCEPT ![b] = @ \cup {[upd |-> u, read |-> FALSE, base |-> {}]}]
         /\ UNCHANGED <<docs, cached>>

\* mergeCachedDraftUpdate reads the cached document in one transaction ...
CacheRead(b, m) ==
    /\ m \in merging[b] /\ ~m.read
    /\ merging' = [merging EXCEPT ![b] = (@ \ {m}) \cup
                      {[m EXCEPT !.read = TRUE, !.base = cached[b]]}]
    /\ UNCHANGED <<docs, live, loadingDoc, cached, sendVars, wireVars, histVars>>

\* ... and writes what it merged in another.
CacheMerged(b, m) ==
    /\ m \in merging[b] /\ m.read
    /\ merging' = [merging EXCEPT ![b] = @ \ {m}]
    /\ cached' = [cached EXCEPT ![b] = m.base \cup m.upd]
    /\ UNCHANGED <<docs, live, loadingDoc, sendVars, wireVars, histVars>>

----------------------------------------------------------------------------
(* Answers and what follows *)

\* The answer to a flush: what the server has is applied and the entries are deleted.  A
\* full batch is followed by another, unless nothing is left.
FlushAnswered(b, r) ==
    /\ r.from = b /\ r.kind = "flush" /\ r.step = "answered"
    /\ ApplyRemote(b, r.reply)
    /\ outbox' = [outbox EXCEPT ![b] = @ \ r.upd]
    /\ LET more == Cardinality(r.upd) = FlushLimit /\ outbox'[b] # {}
       IN  /\ flushing' = [flushing EXCEPT ![b] = more]
           /\ reqs' = (reqs \ {r}) \cup (IF more THEN {FlushOf(b, outbox'[b])} ELSE {})
    /\ UNCHANGED <<live, loadingDoc, enq, waiting, recon, again, editTimer, server, locked, link, down,
                   histVars>>

\* The end of syncDraftDoc: its document, live or not, takes the answer and is persisted.
TakesAnswer(b, r) ==
    LET d == docs[b][r.obj] \cup r.reply
    IN  /\ docs' = [docs EXCEPT ![b][r.obj] = d]
        /\ cached' = [cached EXCEPT ![b] = d]

PushAnswered(b, r) ==
    /\ r.from = b /\ r.kind = "push" /\ r.step = "answered"
    /\ TakesAnswer(b, r)
    /\ reqs' = reqs \ {r}
    /\ UNCHANGED <<live, loadingDoc, merging, sendVars, server, locked, link, down, edited,
                   draftMishaps, safe>>

\* The end of one round of the reconciliation; again after a call meanwhile.
ReconAnswered(b, r) ==
    /\ r.from = b /\ r.kind \in {"live", "warm"} /\ r.step = "answered"
    /\ IF r.kind = "live" THEN TakesAnswer(b, r) /\ UNCHANGED merging
       ELSE /\ merging' = IF r.reply = {} THEN merging
                          ELSE [merging EXCEPT ![b] = @ \cup
                                  {[upd |-> r.reply, read |-> FALSE, base |-> {}]}]
            /\ UNCHANGED <<docs, cached>>
    /\ link' = Subscribed(b, link)
    /\ again' = [again EXCEPT ![b] = FALSE]
    /\ IF again[b]
       THEN /\ waiting' = [waiting EXCEPT ![b] = @ \cup
                             {[who |-> "recon", own |-> ~flushing[b], obj |-> 0]}]
            /\ FlushAfter(b, outbox[b], reqs \ {r})
            /\ UNCHANGED recon
       ELSE /\ recon' = [recon EXCEPT ![b] = FALSE]
            /\ reqs' = reqs \ {r}
            /\ UNCHANGED <<waiting, flushing>>
    /\ UNCHANGED <<live, loadingDoc, enq, outbox, editTimer, server, locked, down, edited,
                   draftMishaps, safe>>

\* Who has awaited a flush goes on: the loaded document is synchronised, or the live one,
\* or the cached one if none is live.
GoesOn(b, w) ==
    /\ w \in waiting[b]
    /\ w.own => ~flushing[b]
    /\ waiting' = [waiting EXCEPT ![b] = @ \ {w}]
    /\ reqs' = reqs \cup {IF w.who = "load" THEN SyncOf(b, "push", w.obj)
                          ELSE IF live[b] # 0 THEN SyncOf(b, "live", live[b])
                          ELSE WarmOf(b)}
    /\ UNCHANGED <<docVars, enq, outbox, flushing, recon, again, editTimer, server, locked, link,
                   down, histVars>>

\* The socket opens: subscription, flush and reconciliation.
YjsSocketOpens(b) ==
    /\ ~link[b].open /\ b \in scene.browsers
    /\ link' = [link EXCEPT ![b] = Linked("asked")]
    /\ Flush(b, outbox[b], {})
    /\ Reconcile(b, outbox[b] = {} /\ ~flushing[b])
    /\ UNCHANGED <<docVars, enq, outbox, editTimer, server, locked, down, histVars>>

\* The tab becomes visible again.
Wake(b) ==
    /\ DraftMishap(b, "wake")
    /\ Flush(b, outbox[b], {})
    /\ Reconcile(b, outbox[b] = {} /\ ~flushing[b])
    /\ UNCHANGED <<docVars, enq, outbox, editTimer, server, locked, link, down, edited, safe>>

RemoteArrives(b, u) ==
    /\ u \in down[b]
    /\ down' = [down EXCEPT ![b] = @ \ {u}]
    /\ ApplyRemote(b, u)
    /\ UNCHANGED <<live, loadingDoc, sendVars, server, locked, reqs, link, histVars>>

SocketDrops(b) ==
    /\ link[b].open /\ DraftMishap(b, "socket")
    /\ link' = [link EXCEPT ![b] = Unlinked]
    /\ down' = [down EXCEPT ![b] = {}]
    /\ UNCHANGED <<docVars, sendVars, server, locked, reqs, edited, safe>>

\* The altered form: they are deleted whatever comes of the request.
Discarded(box, r) == IF r.kind = "flush" THEN box \ r.upd ELSE box

\* A failed flush leaves its entries in the outbox.
Undelivered(box, r) == box

\* A request fails, before its merge is committed or after.
Fails(r) ==
    /\ DraftMishap(r.from, "request")
    /\ locked' = IF r.step = "locked" THEN FALSE ELSE locked
    /\ reqs' = reqs \ {r}
    /\ outbox' = [outbox EXCEPT ![r.from] = Undelivered(@, r)]
    /\ flushing' = [flushing EXCEPT ![r.from] = @ /\ r.kind # "flush"]
    /\ recon' = [recon EXCEPT ![r.from] = @ /\ r.kind \notin {"live", "warm"}]
    /\ UNCHANGED <<docVars, enq, waiting, again, editTimer, server, link, down, edited, safe>>

\* Nobody waits for its answer any more.
Gone(r) ==
    [from |-> r.from, kind |-> "gone", upd |-> r.upd, vec |-> r.vec, obj |-> r.obj,
     step |-> r.step, base |-> r.base, reply |-> r.reply]

\* The page is loaded anew: IndexedDB is what remains, and the server goes on with the
\* requests it has; those on their way may be lost.  The page flushes and reconciles.
Reload(b) ==
    /\ DraftMishap(b, "reload")
    /\ docs' = [docs EXCEPT ![b] = [o \in 1..MaxOpens |-> {}]]
    /\ live' = [live EXCEPT ![b] = 0]
    /\ loadingDoc' = [loadingDoc EXCEPT ![b] = NoLoad]
    /\ merging' = [merging EXCEPT ![b] = {}]
    /\ enq' = [enq EXCEPT ![b] = {}]
    /\ editTimer' = [editTimer EXCEPT ![b] = 0]
    /\ flushing' = [flushing EXCEPT ![b] = outbox[b] # {}]
    /\ recon' = [recon EXCEPT ![b] = TRUE]
    /\ again' = [again EXCEPT ![b] = FALSE]
    /\ waiting' = [waiting EXCEPT ![b] = {[who |-> "recon", own |-> outbox[b] = {}, obj |-> 0]}]
    /\ \E lost \in {{"answered"}, {"sent", "answered"}} :
         reqs' = {IF r.from = b THEN Gone(r) ELSE r :
                    r \in {q \in reqs : q.from # b \/ q.step \notin lost}}
               \cup (IF outbox[b] # {} THEN {FlushOf(b, outbox[b])} ELSE {})
    /\ link' = [link EXCEPT ![b] = Unlinked]
    /\ down' = [down EXCEPT ![b] = {}]
    /\ UNCHANGED <<cached, outbox, server, locked, edited, safe>>

----------------------------------------------------------------------------
(* Specification *)

ServerStep(r) == MergeReads(r) \/ MergeWrites(r)
AnswerArrives(b, r) == FlushAnswered(b, r) \/ PushAnswered(b, r) \/ ReconAnswered(b, r)
CacheStep(b) == \E m \in merging[b] : CacheRead(b, m) \/ CacheMerged(b, m)

DraftsNext ==
    \/ \E r \in reqs : ServerStep(r) \/ Fails(r)
    \/ \E b \in scene.browsers :
        \/ Edit(b) \/ TimerFires(b) \/ OpenDraft(b) \/ Opened(b) \/ CloseChat(b)
        \/ YjsSocketOpens(b) \/ SubscriptionArrives(b) \/ SocketDrops(b) \/ Reload(b) \/ Wake(b)
        \/ CacheStep(b)
        \/ \E e \in enq[b] : Enqueued(b, e)
        \/ \E w \in waiting[b] : GoesOn(b, w)
        \/ \E u \in down[b] : RemoteArrives(b, u)
        \/ \E r \in reqs : AnswerArrives(b, r)

DraftsSpec == DraftsInit /\ [][DraftsNext /\ UNCHANGED scene]_<<draftVars, scene>>

\* The server works on what it has, and what the browser has begun goes on; nobody has to
\* edit, to open a chat or to come back to the tab.
DraftsFairness ==
    /\ WF_draftVars(\E r \in reqs : ServerStep(r))
    /\ \A b \in Browsers :
        /\ WF_draftVars(\E r \in reqs : AnswerArrives(b, r))
        /\ WF_draftVars(\E e \in enq[b] : Enqueued(b, e))
        /\ WF_draftVars(\E w \in waiting[b] : GoesOn(b, w))
        /\ WF_draftVars(TimerFires(b)) /\ WF_draftVars(Opened(b))
        /\ WF_draftVars(YjsSocketOpens(b))

DraftsFairSpec == DraftsSpec /\ DraftsFairness

----------------------------------------------------------------------------
(* Properties *)

\* An edit that has reached an outbox is there until the server has it, whatever fails,
\* is reloaded, or is edited while a flush is on its way.
KeptUntilStored == \A e \in safe : e \in server \/ \E b \in Browsers : e \in outbox[b]

\* The stored document never loses an edit, though posts and sockets merge at once.
ServerOnlyGrows == [][server \subseteq server']_draftVars

\* An edit in an outbox comes to the server, for good, although one request fails, the
\* socket is lost or the page is reloaded (MaxDraftMishaps = 1): socket, flush and the push of
\* the whole document stand in for each other.
EditsReachServer ==
    \A e \in Edits : (\E b \in Browsers : e \in outbox[b]) ~> [](e \in server)
=============================================================================

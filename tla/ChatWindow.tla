------------------------------ MODULE ChatWindow ------------------------------
(***************************************************************************)
(* The window of the open chat in the client store                         *)
(* (apps/frontend-v3/views-store-v4.ts): openChat with its first paint     *)
(* from IndexedDB, the pulls of the chat's tail and how they are merged,   *)
(* paging back through the history, and the cache all of them write        *)
(* (apps/frontend-v3/idb.ts).                                              *)
(*                                                                         *)
(* A chat is one source file.  Its rows are written as RenderRows says: an *)
(* event that is stored again gets a new sync_revision, its old rows go,   *)
(* and all parts of an event have the same revision.  Revisions of one     *)
(* file commit in their order, for appends to a file exclude each other.   *)
(* Queries are persistent (StoreLink), so an answer comes at last; ticks   *)
(* are those of TickPull: while the link is down they are lost, and hello  *)
(* follows.                                                                *)
(***************************************************************************)
EXTENDS Integers, Sequences, FiniteSets, SequencesExt

CONSTANTS
    Chats,       \* ids of chats, with a source file each
    Past,        \* sequence of chats: whose event is at which revision at the start
    Parts,       \* rows per event
    TailDefault, \* TAIL_DEFAULT, rows of a tail
    HistoryPage, \* HISTORY_PAGE, rows of a page
    MaxRevs,     \* bound: events written
    MaxMoves,    \* bound: chats opened and closed
    MaxPages,    \* bound: pages loaded
    MaxFaults    \* bound: lost links, failed writes of the cache

NoChat == "none"

ASSUME ChatWindowAssumption ==
    /\ NoChat \notin Chats /\ IsFiniteSet(Chats)
    /\ Past \in Seq(Chats)
    /\ Parts \in Nat \ {0} /\ TailDefault \in Nat \ {0} /\ HistoryPage \in Nat \ {0}
    /\ MaxRevs \in Nat /\ MaxMoves \in Nat /\ MaxPages \in Nat /\ MaxFaults \in Nat

VARIABLES
    rows,    \* agent_render_items: set of [chat, event, part, seq]
    lastRev, \* highest sync_revision
    untold,  \* chats with rows no tick has told of
    cache,   \* store render_items of IndexedDB: set of rows, one per [chat, seq]
    win,     \* state.activeWindow
    source,  \* activeSourceFileId: the chat that was opened last
    token,   \* activeChatToken
    opening, \* the openChat that waits for the cache: [chat, tail]
    scope,   \* activeScope
    strays,  \* pulls of a scope that has been replaced, under the token of the new one
    known,   \* sidebarScope.knownTickMaxRev
    older,   \* the loadOlder under way
    pages, faults,
    crossed, \* history: the old scope has begun a pull while openChat read the cache
    slipped  \* history: the last reply's watermark is later than its rows

vars == <<rows, lastRev, untold, cache, win, source, token, opening, scope, strays, known,
          older, pages, faults, crossed, slipped>>

NoWindow == [chat |-> NoChat, items |-> <<>>, first |-> 0, last |-> 0, hasOlder |-> FALSE]
NoOpening == [chat |-> NoChat, tail |-> <<>>, read |-> FALSE]
NoPull == [stage |-> "idle", chat |-> NoChat, token |-> 0, tail |-> <<>>, max |-> 0]
NoScope == [chat |-> NoChat, known |-> 0, synced |-> 0, pull |-> NoPull, retry |-> FALSE,
            timer |-> FALSE]
NoOlder == [stage |-> "idle", chat |-> NoChat, token |-> 0, first |-> 0, items |-> <<>>,
            page |-> <<>>, left |-> 0, hasOlder |-> FALSE]

RowsOf(c, e, seq) == [chat : {c}, event : {e}, part : 1..Parts, seq : {seq}]

Init ==
    /\ rows = UNION {RowsOf(Past[i], i, i) : i \in DOMAIN Past}
    /\ lastRev = Len(Past)
    /\ known = lastRev                          \* the sidebar has been told
    /\ untold = {} /\ cache = {}
    /\ win = NoWindow /\ source = NoChat /\ token = 0 /\ opening = NoOpening
    /\ scope = NoScope /\ strays = {} /\ older = NoOlder
    /\ pages = 0 /\ faults = 0 /\ crossed = FALSE /\ slipped = FALSE

Max2(m, n) == IF m >= n THEN m ELSE n

----------------------------------------------------------------------------
(* Queries and the cache *)

Before(r, s) == r.seq < s.seq \/ (r.seq = s.seq /\ r.part < s.part)
Ascending(S) ==
    [i \in 1..Cardinality(S) |-> CHOOSE r \in S : Cardinality({s \in S : Before(s, r)}) = i - 1]
LastOf(s, n) == SubSeq(s, Max2(Len(s) - n, 0) + 1, Len(s))

\* "order by sync_revision desc, ... limit n", turned round
Newest(S, n) == LastOf(Ascending(S), n)

ChatRows(S, c) == {r \in S : r.chat = c}

\* bulkPutRenderItems: the key is [chatId, seq], and the last put stays.
Put(s) == {r \in cache : \A i \in DOMAIN s : <<r.chat, r.seq>> # <<s[i].chat, s[i].seq>>}
          \cup {s[i] : i \in {j \in DOMAIN s : \A k \in j + 1..Len(s) : s[k].seq # s[j].seq}}

----------------------------------------------------------------------------
(* The server *)

\* An event of a chat is stored, for the first time or again.
Write(c, e) ==
    /\ lastRev < MaxRevs + Len(Past)
    /\ \A r \in rows : r.event = e => r.chat = c
    /\ lastRev' = lastRev + 1
    /\ rows' = {r \in rows : r.event # e} \cup RowsOf(c, e, lastRev')
    /\ untold' = untold \cup {c}
    /\ UNCHANGED <<cache, win, source, token, opening, scope, strays, known, older, pages,
                   faults, crossed, slipped>>

----------------------------------------------------------------------------
(* The active scope *)

\* scope.run: the pull starts under the token of the moment.
Run(s) == IF s.pull # NoPull THEN [s EXCEPT !.retry = TRUE]
          ELSE [s EXCEPT !.retry = FALSE, !.pull =
                  [NoPull EXCEPT !.stage = "asked", !.chat = s.chat, !.token = token]]

MaybeKick(s) == IF s.synced < s.known THEN Run(s) ELSE s

Heard(s) == [s EXCEPT !.known = Max2(@, lastRev)]

\* The scope, which may be the one that openChat is about to replace, becomes s.
Becomes(s) ==
    /\ scope' = s
    /\ crossed' = (crossed \/ (s.pull # scope.pull /\ opening # NoOpening))

Tick(files) ==
    /\ files # {}
    /\ known' = Max2(known, lastRev)
    /\ untold' = untold \ files
    /\ Becomes(IF scope = NoScope \/ source \notin files THEN scope
               ELSE IF scope.pull # NoPull THEN [Heard(scope) EXCEPT !.retry = TRUE]
               ELSE MaybeKick(Heard(scope)))
    /\ UNCHANGED <<rows, lastRev, cache, win, source, token, opening, strays, older, pages,
                   faults, slipped>>

\* The link was lost, with the ticks sent meanwhile, and hello.ok arrives on a new one.
Reconnect ==
    /\ faults < MaxFaults /\ faults' = faults + 1
    /\ known' = Max2(known, lastRev) /\ untold' = {}
    /\ Becomes(IF scope = NoScope THEN scope ELSE Run(Heard(scope)))
    /\ UNCHANGED <<rows, lastRev, cache, win, source, token, opening, strays, older, pages,
                   slipped>>

\* The timer set at the end of a pull.
Rerun ==
    /\ scope.timer
    /\ Becomes(Run([scope EXCEPT !.timer = FALSE]))
    /\ UNCHANGED <<rows, lastRev, untold, cache, win, source, token, opening, strays, known,
                   older, pages, faults, slipped>>

----------------------------------------------------------------------------
(* pullActiveChatTail, for the scope and for strays *)

Answered(p) == [p EXCEPT !.stage = "served", !.max = lastRev,
                         !.tail = Newest(ChatRows(rows, p.chat), TailDefault)]

\* The altered form: only a tick during the pull makes it run again.
FinishedForGood(s) == [s EXCEPT !.pull = NoPull, !.timer = @ \/ s.retry, !.retry = FALSE]
\* The end of the scope's pull, whether it went well or not.
Finished(s) == [s EXCEPT !.pull = NoPull, !.timer = @ \/ s.retry \/ s.synced < s.known,
                         !.retry = FALSE]

Serve ==
    /\ scope.pull.stage = "asked"
    /\ scope' = [scope EXCEPT !.pull = Answered(@)]
    /\ UNCHANGED <<rows, lastRev, untold, cache, win, source, token, opening, strays, known,
                   older, pages, faults, crossed, slipped>>

\* The altered form: whatever was opened meanwhile.
Whatever(p) == TRUE
Current(p) == p.token = token

\* The reply arrives.  Its watermark was read after its rows, by another statement.
Receive ==
    LET p == scope.pull
    IN  /\ p.stage = "served"
        /\ \/ ~Current(p) /\ scope' = Finished(scope) /\ UNCHANGED <<cache, slipped>>
           \/ /\ Current(p) /\ cache' = Put(p.tail)
              /\ \E m \in p.max..lastRev :
                   /\ scope' = [scope EXCEPT !.pull.stage = "stored", !.pull.max = m]
                   /\ slipped' = (m > p.max)
        /\ UNCHANGED <<rows, lastRev, untold, win, source, token, opening, strays, known,
                       older, pages, faults, crossed>>

\* Rows beyond the last one of the window are appended; nothing else changes, for
\* guessSeq knows no item's revision.
Appended(p) ==
    LET new == SelectSeq(p.tail, LAMBDA r : r.seq > win.last)
    IN  IF new = <<>> THEN win
        ELSE [win EXCEPT !.items = @ \o new, !.last = Last(new).seq]

WindowOn(c, s) ==
    [chat |-> c, items |-> s, first |-> IF s = <<>> THEN 0 ELSE Head(s).seq,
     last |-> IF s = <<>> THEN 0 ELSE Last(s).seq, hasOlder |-> Len(s) = TailDefault]

Merged(p) == IF win.chat = p.chat THEN Appended(p) ELSE WindowOn(p.chat, p.tail)

\* The rows are in the cache, and are shown.
Merge ==
    LET p == scope.pull
    IN  /\ p.stage = "stored"
        /\ IF Current(p)
           THEN /\ win' = Merged(p)
                /\ scope' = Finished([scope EXCEPT !.synced = Max2(@, p.max)])
           ELSE scope' = Finished(scope) /\ UNCHANGED win
        /\ UNCHANGED <<rows, lastRev, untold, cache, source, token, opening, strays, known,
                       older, pages, faults, crossed, slipped>>

\* The cache cannot be written: the pull fails.
PutFails ==
    /\ scope.pull.stage = "served" /\ Current(scope.pull)
    /\ faults < MaxFaults /\ faults' = faults + 1
    /\ scope' = Finished(scope)
    /\ UNCHANGED <<rows, lastRev, untold, cache, win, source, token, opening, strays, known,
                   older, pages, crossed, slipped>>

\* A pull of the scope that was replaced goes on, and reports to the new scope.
StrayStep ==
    \E p \in strays :
      /\ strays' = (strays \ {p}) \cup
           (CASE p.stage = "asked" -> {Answered(p)}
              [] p.stage = "served" /\ Current(p) -> {[p EXCEPT !.stage = "stored"]}
              [] OTHER -> {})
      /\ cache' = IF p.stage = "served" /\ Current(p) THEN Put(p.tail) ELSE cache
      /\ win' = IF p.stage = "stored" /\ Current(p) THEN Merged(p) ELSE win
      /\ scope' = IF p.stage = "stored" /\ Current(p) /\ scope # NoScope
                  THEN [scope EXCEPT !.synced = Max2(@, p.max)] ELSE scope
      /\ UNCHANGED <<rows, lastRev, untold, source, token, opening, known, older, pages,
                     faults, crossed, slipped>>

----------------------------------------------------------------------------
(* openChat and closeActiveChat *)

OpenChat(c) ==
    /\ token < MaxMoves /\ token' = token + 1
    /\ win' = NoWindow /\ source' = c
    /\ opening' = [NoOpening EXCEPT !.chat = c]
    /\ crossed' = FALSE
    /\ UNCHANGED <<rows, lastRev, untold, cache, scope, strays, known, older, pages,
                   faults, slipped>>

ReadTail ==
    /\ opening # NoOpening /\ ~opening.read
    /\ opening' = [opening EXCEPT !.read = TRUE,
                                  !.tail = Newest(ChatRows(cache, opening.chat), TailDefault)]
    /\ UNCHANGED <<rows, lastRev, untold, cache, win, source, token, scope, strays, known,
                   older, pages, faults, crossed, slipped>>

\* The first paint, the new scope and its first pull.
ShowTail ==
    LET c == opening.chat
    IN  /\ opening.read
        /\ win' = IF opening.tail = <<>> THEN win ELSE WindowOn(c, opening.tail)
        /\ strays' = strays \cup {p \in {scope.pull} : p # NoPull /\ Current(p)}
        /\ scope' = Run([NoScope EXCEPT !.chat = c, !.known = Max2(known, 1)])
        /\ opening' = NoOpening
        /\ UNCHANGED <<rows, lastRev, untold, cache, source, token, known, older, pages,
                       faults, crossed, slipped>>

CloseActiveChat ==
    /\ source # NoChat
    /\ token < MaxMoves /\ token' = token + 1
    /\ win' = NoWindow /\ source' = NoChat /\ opening' = NoOpening
    /\ scope' = NoScope /\ crossed' = FALSE
    /\ UNCHANGED <<rows, lastRev, untold, cache, strays, known, older, pages,
                   faults, slipped>>

----------------------------------------------------------------------------
(* loadOlder *)

StillThere == older.token = token /\ win.chat = older.chat

\* The user scrolls to the upper end.
LoadOlder ==
    /\ win.hasOlder /\ older = NoOlder
    /\ pages < MaxPages /\ pages' = pages + 1
    /\ older' = [NoOlder EXCEPT !.stage = "cache", !.chat = win.chat, !.token = token,
                                !.first = win.first]
    /\ UNCHANGED <<rows, lastRev, untold, cache, win, source, token, opening, scope, strays,
                   known, faults, crossed, slipped>>

\* What the cache has before the window; the rest is asked for, if the link is up.
ReadOlder ==
    LET page == Newest({r \in ChatRows(cache, older.chat) : r.seq < older.first}, HistoryPage)
        left == HistoryPage - Len(page)
    IN  /\ older.stage = "cache"
        /\ \/ ~StillThere /\ older' = NoOlder /\ UNCHANGED faults
           \/ /\ StillThere
              /\ \E online \in BOOLEAN :
                   /\ ~online => faults < MaxFaults
                   /\ faults' = IF online THEN faults ELSE faults + 1
                   /\ older' = [older EXCEPT !.items = page, !.left = left,
                        !.first = IF page = <<>> THEN @ ELSE Head(page).seq,
                        !.hasOlder = left = 0,
                        !.stage = IF left > 0 /\ online THEN "asked" ELSE "ready"]
        /\ UNCHANGED <<rows, lastRev, untold, cache, win, source, token, opening, scope,
                       strays, known, pages, crossed, slipped>>

ServeOlder ==
    /\ older.stage = "asked"
    /\ older' = [older EXCEPT !.stage = "served",
         !.page = Newest({r \in ChatRows(rows, older.chat) : r.seq < older.first}, older.left)]
    /\ UNCHANGED <<rows, lastRev, untold, cache, win, source, token, opening, scope, strays,
                   known, pages, faults, crossed, slipped>>

\* The page is put before the cached rows with its newest row first, and its newest
\* row counts as the first of the window.
StoreOlder ==
    /\ older.stage = "served"
    /\ \/ ~StillThere /\ older' = NoOlder /\ UNCHANGED cache
       \/ /\ StillThere /\ cache' = Put(older.page)
          /\ older' = [older EXCEPT !.stage = "ready", !.items = Reverse(older.page) \o @,
               !.first = IF older.page = <<>> THEN @ ELSE Last(older.page).seq,
               !.hasOlder = Len(older.page) = older.left]
    /\ UNCHANGED <<rows, lastRev, untold, win, source, token, opening, scope, strays, known,
                   pages, faults, crossed, slipped>>

Prepend ==
    /\ older.stage = "ready" /\ older' = NoOlder
    /\ win' = IF ~StillThere THEN win
              ELSE [win EXCEPT !.items = older.items \o @, !.first = older.first,
                               !.hasOlder = older.hasOlder]
    /\ UNCHANGED <<rows, lastRev, untold, cache, source, token, opening, scope, strays, known,
                   pages, faults, crossed, slipped>>

----------------------------------------------------------------------------

PullStep == Serve \/ Receive \/ Merge
OlderStep == ReadOlder \/ ServeOlder \/ StoreOlder \/ Prepend
NewEvents == 1..(MaxRevs + Len(Past))

Next ==
    \/ \E c \in Chats, e \in NewEvents : Write(c, e)
    \/ \E files \in SUBSET untold : Tick(files)
    \/ Reconnect \/ Rerun \/ PullStep \/ PutFails \/ StrayStep
    \/ \E c \in Chats : OpenChat(c)
    \/ ReadTail \/ ShowTail \/ CloseActiveChat
    \/ LoadOlder \/ OlderStep

Spec == Init /\ [][Next]_vars

\* Queries are answered (StoreLink), ticks follow rows (TickPull), and what waits for
\* the cache or a timer goes on.  Nothing is assumed of the user, writers and faults.
Fairness ==
    /\ WF_vars(PullStep) /\ WF_vars(StrayStep) /\ WF_vars(Rerun) /\ WF_vars(OlderStep)
    /\ WF_vars(ReadTail \/ ShowTail)
    /\ WF_vars(\E files \in SUBSET untold : Tick(files))

FairSpec == Spec /\ Fairness

----------------------------------------------------------------------------
(* Properties *)

RowType == [chat : Chats, event : NewEvents, part : 1..Parts, seq : Nat]

TypeOK ==
    /\ rows \subseteq RowType /\ cache \subseteq RowType
    /\ \A r, s \in cache : r.chat = s.chat /\ r.seq = s.seq => r = s
    /\ win.chat \in Chats \cup {NoChat} /\ win.items \in Seq(RowType)
    /\ win.first \in 0..lastRev /\ win.last \in 0..lastRev
    /\ \A i \in DOMAIN win.items : win.items[i].chat = win.chat
    /\ source \in Chats \cup {NoChat} /\ untold \subseteq Chats
    /\ token \in 0..MaxMoves /\ pages \in 0..MaxPages /\ faults \in 0..MaxFaults
    /\ scope.chat \in Chats \cup {NoChat} /\ scope.known \in 0..lastRev
    /\ scope.synced \in 0..lastRev /\ known \in 0..lastRev
    /\ scope.pull.stage \in {"idle", "asked", "served", "stored"}
    /\ older.stage \in {"idle", "cache", "asked", "served", "ready"}

Shown == {win.items[i] : i \in DOMAIN win.items}

\* views-store-v4.ts:646 "user moved on": the window is always that of the chat which
\* was opened last, whatever answers to earlier ones arrive.  It is not, for a while,
\* if a frame makes the old scope run while openChat reads the cache.
ShowsWhatIsOpen == win # NoWindow /\ ~crossed => win.chat = source

\* The newest rows of the open chat get into its window and stay there, whatever ticks
\* were lost, pulls failed, and chats were opened in between; those before the window's
\* first (old copies of events take up room in the cached tail) are left to loadOlder.
\* Two cases are left out:
\* a frame that makes the old scope run while openChat reads the cache, and a row that
\* is stored between the two statements that read the rows and the watermark of a reply.
TailShown ==
    <>[](win # NoWindow /\ ~crossed /\ ~slipped =>
           LET tail == Newest(ChatRows(rows, win.chat), TailDefault)
           IN  \A i \in DOMAIN tail : tail[i].seq >= win.first => tail[i] \in Shown)

\* views-store-v4.ts:38: firstSeq is the "sync_revision of the oldest item currently in
\* window"; loadOlder asks for what is before it.
FirstSeqIsOldest == \A r \in Shown : win.first <= r.seq
=============================================================================

------------------------------ MODULE EventWindow ------------------------------
(***************************************************************************)
(* The page of the open chat in apps/frontend/App.tsx: which events of it  *)
(* are shown, and the callers that change them - the user who opens chats  *)
(* and scrolls, syncNow with its poll, the ingest stream and the tab that  *)
(* comes back, and the effect of use-session-events-cache.ts.              *)
(*                                                                         *)
(* An event is its place in the chat, so a window is a set of numbers.  A  *)
(* request remembers how many events there were when it was sent; its      *)
(* answer is that of any moment since.  Effects of React run in the step   *)
(* that sets the state they depend on.  What a pull brings is what         *)
(* SyncFeed shows it to bring: every event since the last one.  The        *)
(* browser is on line and logged in, nothing is deleted, muted or pruned.  *)
(* A page of the cache is merged in the step that asks for it: what may    *)
(* come while IndexedDB is read for it (App.tsx:530, 613) is left out.     *)
(***************************************************************************)
EXTENDS Naturals, FiniteSets, FiniteSetsExt

CONSTANTS
    Chats,
    Start,       \* [Chats -> Nat]: events at the beginning
    Initial,     \* CHAT_EVENT_WINDOW_INITIAL
    Page,        \* CHAT_EVENT_WINDOW_PAGE
    WindowMax,   \* CHAT_EVENT_WINDOW_MAX
    FullMax,     \* CHAT_FULL_REFRESH_MAX_EVENTS
    MaxTurns     \* bound: events, opened chats, failures and hides together

ASSUME PagesAssumption ==
    /\ IsFiniteSet(Chats) /\ Chats # {} /\ Start \in [Chats -> Nat]
    /\ {Initial, Page, WindowMax, FullMax, MaxTurns} \subseteq Nat

VARIABLES
    count,    \* events of each chat on the server
    list,     \* eventCount of each chat in the list of sessions
    fed,      \* events that the pulls of events have brought so far
    cache,    \* store events
    chosen,   \* the chat of the route
    active,   \* [chat, n]: the session that is open and its eventCount
    ev,       \* EventState
    reading,  \* use-session-events-cache reads the cache for active
    older, newer,     \* eventWindowLoads
    refresh,          \* sessionEventRefreshes, with the request it stands for
    sync,             \* syncing, pendingSync and where syncNow stands
    hidden, pendingIngest,
    timer,            \* the 50 ms after a message of the stream
    turns,            \* how much of the bound is used
    reopened          \* history: a page of another chat opened that chat

window == <<active, ev, reading, reopened>>
loads == <<older, newer, refresh>>
arrival == <<hidden, pendingIngest, timer>>
pageVars == <<count, list, fed, cache, chosen, window, loads, sync, arrival, turns>>

Idle == [on |-> FALSE]
SyncAt(pc, kind, from, pending) == [pc |-> pc, kind |-> kind, from |-> from, pending |-> pending]
NoSync == SyncAt("idle", "meta", Start, "none")
Turn == turns < MaxTurns /\ turns' = turns + 1

--------------------------------------------------------------------------------
(* Pages: of the server, of the cache, and their merge into the window.    *)

Greatest(S, k) == {x \in S : Cardinality({y \in S : y > x}) < k}
Least(S, k) == {x \in S : Cardinality({y \in S : y < x}) < k}
PageOf(S, more) == [events |-> S, more |-> more]

\* getV2SessionEventPage with n events: one row more than the limit is read.
RecentPage(n) == PageOf(Greatest(1 .. n, Initial), n > Initial)
BeforePage(at) == PageOf(Greatest(1 .. at - 1, Page), at - 1 > Page)
AfterPage(at, n) == PageOf(Least(at + 1 .. n, Page), n - at > Page)
Whole(S) == \A x, y \in S : \A z \in x .. y : z \in S

WindowOf(c, S, windowed, hasOlder, hasNewer, patched) ==
    [chat |-> c, events |-> S, windowed |-> windowed, older |-> hasOlder, newer |-> hasNewer,
     patched |-> patched]
EventState(c, S, windowed, more) == WindowOf(c, S, windowed, more, FALSE, ~Whole(S))

\* eventWindowState
CacheWindow(c, S, n) ==
    LET partial == n > Cardinality(S)
    IN  EventState(c, S, partial, partial /\ (Cardinality(S) >= Initial \/ Min(S) > 1))

\* mergeEventWindow: what goes beyond WindowMax falls off at the other end
Prepended(e, S, more, patched) ==
    LET all == e.events \cup S
    IN  WindowOf(e.chat, Least(all, WindowMax), TRUE, more,
                 e.newer \/ Cardinality(all) > WindowMax, patched)
Appended(e, S, more, patched) ==
    LET all == e.events \cup S
    IN  WindowOf(e.chat, Greatest(all, WindowMax), TRUE,
                 e.older \/ Cardinality(all) > WindowMax, more, patched)

\* A page that does not meet the window leaves a hole.
Patched(e, l, S) == e.patched \/ ~Whole(S \cup {l.at})
More(e, l) == e.windowed \/ l.n > Cardinality(e.events)

\* The window after a page of older events for load l: only if it still starts
\* where the load began.  (The altered form does not compare the cursor.)
StartsAnywhere(e, l) == e.chat = l.chat /\ e.events # {}
StartsAt(e, l) == e.chat = l.chat /\ e.events # {} /\ Min(e.events) = l.at
WithOlder(e, l, S, more) ==
    IF ~StartsAt(e, l) THEN e
    ELSE IF S = {}
    THEN WindowOf(e.chat, e.events, e.newer \/ More(e, l), FALSE, e.newer, e.patched)
    ELSE Prepended(e, S, more, Patched(e, l, S))

EndsAt(e, l) == e.chat = l.chat /\ e.events # {} /\ Max(e.events) = l.at
WithNewer(e, l, S, more) ==
    IF ~EndsAt(e, l) THEN e
    ELSE IF S = {}
    THEN WindowOf(e.chat, e.events, e.older \/ More(e, l), e.older, FALSE, e.patched)
    ELSE Appended(e, S, more, Patched(e, l, S))

--------------------------------------------------------------------------------
(* setActiveSession with the effects that depend on the id and eventCount  *)
(* of the active session: ensureSessionEventsTarget, and the cache is read *)
(* again.  e is the window that the same step sets.                        *)
Show(c, n, e) ==
    /\ active' = [chat |-> c, n |-> n]
    /\ ev' = IF e.chat = c THEN e ELSE EventState(c, {}, FALSE, FALSE)
    /\ reading' = (reading \/ active # active')
\* The effect on the list of sessions: the chat of the route is opened.
Routed(m, e) == Show(chosen, m[chosen], e)
Keep(e) == ev' = e /\ UNCHANGED <<active, reading>>
Track(byLoad) == reopened' = (active'.chat # chosen' /\ (reopened \/ byLoad))

\* refreshActiveSessionEvents: it aborts the request for the same chat
Refresh(c, n, by) ==
    refresh' = [refresh EXCEPT ![c] = [on |-> TRUE, page |-> n > FullMax, from |-> count[c], by |-> by]]

Answers(c, from) == from .. count[c]

--------------------------------------------------------------------------------
\* The page has started with what the server had then and the cache holds or does not;
\* since then the chat that it opens may have got an event.
PageInit ==
    /\ list = Start /\ fed = Start
    /\ chosen = CHOOSE c \in Chats : \A d \in Chats : Start[c] >= Start[d]
    /\ count \in {Start, [Start EXCEPT ![chosen] = @ + 1]}
    /\ cache \in {[c \in Chats |-> {}], [c \in Chats |-> 1 .. Start[c]]}
    /\ active = [chat |-> chosen, n |-> Start[chosen]]
    /\ ev = EventState(chosen, {}, FALSE, FALSE)
    /\ reading = TRUE /\ reopened = FALSE
    /\ older = Idle /\ newer = Idle /\ refresh = [c \in Chats |-> Idle]
    /\ sync = NoSync
    /\ hidden \in BOOLEAN /\ pendingIngest = FALSE /\ timer = FALSE
    /\ turns = 0

\* onMessage of the ingest stream
Heard == pendingIngest' = TRUE /\ timer' = (timer \/ ~hidden)
\* The stream is closed.  EventSource connects again, and onOpen asks for nothing.
Unheard == UNCHANGED <<pendingIngest, timer>>

\* The server stores an event and publishes it to the streams that are open.
NewEvent(c) ==
    /\ Turn
    /\ count' = [count EXCEPT ![c] = @ + 1]
    /\ Heard \/ Unheard
    /\ UNCHANGED <<list, fed, cache, chosen, window, loads, sync, hidden>>

--------------------------------------------------------------------------------
(* The user.                                                               *)

\* selectSession
Open(c) ==
    /\ c # chosen \/ active.chat # c
    /\ Turn
    /\ chosen' = c
    /\ Show(c, list[c], ev)
    /\ Track(FALSE)
    /\ UNCHANGED <<count, list, fed, cache, loads, sync, arrival>>

\* A load begins: of the events before or after what is shown.  The cache is asked
\* first; only when it has nothing there is the server.
Load(at, by) ==
    [on |-> TRUE, chat |-> active.chat, n |-> active.n, at |-> at, from |-> count[active.chat], by |-> by]
Shown == ev.chat = active.chat /\ ev.events # {}
CachedBefore == Greatest({x \in cache[active.chat] : x < Min(ev.events)}, Page)
CachedAfter(stored) == Least({x \in stored[active.chat] : x > Max(ev.events)}, Page)

\* The window with the cached page of newer events.
Followed(S) == WithNewer(ev, Load(Max(ev.events), "cache"), S, Cardinality(S) >= Page)

LoadOlder ==
    /\ Shown /\ ev.older /\ ~older.on
    /\ LET l == Load(Min(ev.events), "user")
           S == CachedBefore
       IN  \/ S # {} /\ Keep(WithOlder(ev, l, S, Cardinality(S) >= Page)) /\ UNCHANGED older
           \/ S = {} /\ Keep(ev) /\ older' = l
    /\ UNCHANGED <<count, list, fed, cache, chosen, reopened, newer, refresh, sync, arrival, turns>>

LoadNewer ==
    /\ Shown /\ ev.newer /\ ~newer.on
    /\ LET S == CachedAfter(cache)
       IN  \/ S # {} /\ Keep(Followed(S)) /\ UNCHANGED newer
           \/ S = {} /\ Keep(ev) /\ newer' = Load(Max(ev.events), "user")
    /\ UNCHANGED <<count, list, fed, cache, chosen, reopened, older, refresh, sync, arrival, turns>>

--------------------------------------------------------------------------------
(* The answers of loadOlderEventWindow and loadNewerEventWindow.           *)

OlderArrives ==
    /\ older.on
    /\ \E n \in Answers(older.chat, older.from) :
         LET p == BeforePage(older.at)
         IN  /\ Show(older.chat, n, WithOlder(ev, older, p.events, p.more))
             /\ cache' = [cache EXCEPT ![older.chat] = @ \cup p.events]
    /\ older' = Idle
    /\ UNCHANGED <<count, list, fed, chosen, newer, refresh, sync, arrival, turns>>
    /\ Track(TRUE)

NewerArrives ==
    /\ newer.on
    /\ \E n \in Answers(newer.chat, newer.from) :
         LET p == AfterPage(newer.at, n)
         IN  /\ Show(newer.chat, n, WithNewer(ev, newer, p.events, p.more))
             /\ cache' = [cache EXCEPT ![newer.chat] = @ \cup p.events]
    /\ newer' = Idle
    /\ UNCHANGED <<count, list, fed, chosen, older, refresh, sync, arrival, turns>>
    /\ Track(TRUE)

LoadFails ==
    /\ Turn
    /\ \/ older.on /\ older' = Idle /\ UNCHANGED <<newer, refresh>>
       \/ newer.on /\ newer' = Idle /\ UNCHANGED <<older, refresh>>
       \/ \E c \in Chats : /\ refresh[c].on
                           /\ refresh' = [refresh EXCEPT ![c] = Idle]
                           /\ UNCHANGED <<older, newer>>
    /\ UNCHANGED <<count, list, fed, cache, chosen, window, sync, arrival>>

--------------------------------------------------------------------------------
(* refreshActiveSessionEvents and the effect of use-session-events-cache.  *)

\* An answer is used only for the chat that is open when it comes.
\* (The altered form: only a later request for the same chat makes it late.)
OpenOrNot(c) == c \in Chats
StillOpen(c) == active.chat = c

\* cacheSessionPayload: the cursor that deletes the old events runs over the new
\* ones too, which are put before it goes on.
CacheAfter(c, n) == IF cache[c] = {} THEN 1 .. n ELSE {}

RefreshArrives(c) ==
    LET r == refresh[c]
    IN  /\ r.on
        /\ refresh' = [refresh EXCEPT ![c] = Idle]
        /\ IF StillOpen(c)
           THEN \E n \in Answers(c, r.from) :
                  LET p == IF r.page THEN RecentPage(n) ELSE PageOf(1 .. n, FALSE)
                  IN  /\ Show(c, n, EventState(c, p.events, r.page, p.more))
                      /\ cache' = [cache EXCEPT ![c] = IF r.page THEN @ \cup p.events ELSE CacheAfter(c, n)]
           ELSE Keep(ev) /\ UNCHANGED cache
        /\ UNCHANGED <<count, list, fed, chosen, older, newer, sync, arrival, turns>>
        /\ Track(FALSE)

\* The read of the cache ends, with its events or after its timeout without.
CacheRead ==
    /\ reading /\ reading' = FALSE
    /\ \E S \in {Greatest(cache[active.chat], Initial), {}} :
         LET cached == Cardinality(S)
             live == Shown
         IN  /\ IF S = {} /\ cache[active.chat] # {} THEN Turn ELSE UNCHANGED turns
             /\ ev' = IF S # {} /\ ~live THEN CacheWindow(active.chat, S, active.n) ELSE ev
             /\ IF (live /\ Cardinality(ev.events) >= active.n) \/ cached >= active.n
                THEN UNCHANGED refresh
                ELSE Refresh(active.chat, active.n, "effect")
    /\ UNCHANGED <<count, list, fed, cache, chosen, active, reopened, older, newer, sync, arrival>>

--------------------------------------------------------------------------------
(* syncNow.  A call is "meta" or "event"; of the calls that come while one *)
(* runs, events win (mergeSyncOptions).                                    *)

Merge(a, b) == IF "event" \in {a, b} THEN "event" ELSE "meta"

Begun(kind, pending) == SyncAt("pull", kind, count, pending)
Called(s, kind) ==
    IF s.pc = "idle" THEN Begun(kind, "none")
    ELSE SyncAt(s.pc, s.kind, s.from, IF s.pending = "none" THEN kind ELSE Merge(s.pending, kind))

\* The finally of syncNow: a call that waits is made at once (a timeout of 0).
SyncEnded(s) == IF s.pending = "none" THEN NoSync ELSE Begun(s.pending, "none")

PullFails ==
    /\ sync.pc = "pull"
    /\ Turn
    /\ sync' = SyncEnded(sync)
    /\ UNCHANGED <<count, list, fed, cache, chosen, window, loads, arrival>>

\* Why metadata that came in makes the open chat be read again.  (The altered form:
\* only if they have changed.)
OutdatedIfChanged(loaded, before, fresh) == before # fresh /\ fresh >= loaded
Outdated(loaded, before, fresh) ==
    fresh > loaded \/ (before # fresh /\ loaded > 0 /\ fresh >= loaded)

\* The list m of this pull: of all sessions, or of those with new events.
Listed(m) ==
    [c \in Chats |-> IF sync.kind = "meta" \/ m[c] > fed[c] THEN m[c] ELSE list[c]]
Await == SyncAt("wait", sync.kind, sync.from, sync.pending)

PullMeta(m) ==
    LET c == active.chat
        fresh == m[c]
        loaded == IF ev.chat = c THEN Cardinality(ev.events) ELSE 0
    IN  /\ sync.kind = "meta"
        /\ IF m # list THEN Routed(m, ev) ELSE Show(c, fresh, ev)
        /\ IF Outdated(loaded, active.n, fresh)
           THEN Refresh(c, fresh, "sync") /\ sync' = Await
           ELSE UNCHANGED refresh /\ sync' = SyncEnded(sync)
        /\ UNCHANGED <<fed, cache, newer>>

\* A windowed chat with new events loads them from the cache, or asks for more if it
\* shows them already; nothing if such a load runs.  Another one is read again.
PullEvents(m) ==
    LET c == active.chat
        touched == m[c] > fed[c]
        follows == touched /\ ev.windowed /\ Shown /\ ~newer.on
        S == CachedAfter(cache')
        e == IF follows /\ S # {} THEN Followed(S) ELSE ev
    IN  /\ sync.kind = "event"
        /\ fed' = m
        /\ cache' = [d \in Chats |-> cache[d] \cup (fed[d] + 1 .. m[d])]
        /\ IF Listed(m) # list THEN Routed(Listed(m), e) ELSE Keep(e)
        /\ \/ /\ touched /\ ~ev.windowed
              /\ Refresh(c, m[c], "sync") /\ sync' = Await
              /\ UNCHANGED newer
           \/ /\ follows /\ S = {}
              /\ newer' = Load(Max(ev.events), "sync") /\ sync' = Await
              /\ UNCHANGED refresh
           \/ /\ IF follows THEN S # {} ELSE ~touched \/ ev.windowed
              /\ sync' = SyncEnded(sync)
              /\ UNCHANGED <<newer, refresh>>

PullArrives ==
    /\ sync.pc = "pull"
    /\ \E m \in [Chats -> UNION {0 .. count[c] : c \in Chats}] :
         /\ \A c \in Chats : m[c] \in Answers(c, sync.from[c])
         /\ list' = Listed(m)
         /\ PullMeta(m) \/ PullEvents(m)
    /\ UNCHANGED <<count, chosen, older, arrival, turns>>
    /\ Track(FALSE)

\* What syncNow waited for has come, failed, or was aborted.
SyncGoesOn ==
    /\ sync.pc = "wait"
    /\ \A l \in {newer} \cup {refresh[c] : c \in Chats} : l.on => l.by # "sync"
    /\ sync' = SyncEnded(sync)
    /\ UNCHANGED <<count, list, fed, cache, chosen, window, loads, arrival, turns>>

--------------------------------------------------------------------------------
(* The callers of syncNow.                                                 *)

\* Every 5 s while the page is visible.  A poll while syncNow runs would only bring
\* the next one forward.
Poll ==
    /\ ~hidden /\ sync.pc = "idle"
    /\ sync' = Called(sync, "meta")
    /\ UNCHANGED <<count, list, fed, cache, chosen, window, loads, arrival, turns>>

Timer ==
    /\ timer /\ timer' = FALSE
    /\ pendingIngest' = FALSE
    /\ sync' = Called(sync, "event")
    /\ UNCHANGED <<count, list, fed, cache, chosen, window, loads, hidden, turns>>

Hide ==
    /\ ~hidden /\ hidden' = TRUE
    /\ Turn
    /\ UNCHANGED <<count, list, fed, cache, chosen, window, loads, sync, pendingIngest, timer>>

\* onVisible
Return ==
    /\ hidden /\ hidden' = FALSE
    /\ pendingIngest' = FALSE
    /\ sync' = IF pendingIngest THEN Called(Called(sync, "event"), "meta") ELSE Called(sync, "meta")
    /\ UNCHANGED <<count, list, fed, cache, chosen, window, loads, timer, turns>>

--------------------------------------------------------------------------------
PageNext ==
    \/ \E c \in Chats : NewEvent(c) \/ Open(c) \/ RefreshArrives(c)
    \/ LoadOlder \/ LoadNewer \/ LoadFails
    \/ OlderArrives \/ NewerArrives
    \/ CacheRead \/ PullFails \/ PullArrives \/ SyncGoesOn
    \/ Poll \/ Timer \/ Hide \/ Return

\* Timers fire, requests are answered or fail, the database answers.
PageFairness ==
    /\ WF_pageVars(Poll) /\ WF_pageVars(Timer) /\ WF_pageVars(PullArrives) /\ WF_pageVars(SyncGoesOn)
    /\ WF_pageVars(CacheRead) /\ \A c \in Chats : WF_pageVars(RefreshArrives(c))
    /\ WF_pageVars(OlderArrives) /\ WF_pageVars(NewerArrives)

PageSpec == PageInit /\ [][PageNext]_pageVars /\ PageFairness

--------------------------------------------------------------------------------
\* The chat that the user chose last is the one that is open, whatever answers come
\* late - but for a page of history, which loadOlderEventWindow and
\* loadNewerEventWindow take without looking (setActiveSession(payload.session)).
ChosenStaysOpen == active.chat = chosen \/ reopened

\* The events shown are of the open chat and have no hole, under all interleavings
\* of refreshes and loads at both ends with the trimming of mergeEventWindow, unless
\* a cached page had it: the cache keeps pages of different times.
WindowWhole == Whole(ev.events) \/ ev.patched

\* The open chat comes to show its newest event, again and again, once the page stays
\* visible: what the stream, the cache and the loads leave behind, the poll repairs.
OpenChatFollows ==
    []<>(hidden \/ (ev.chat = active.chat /\ count[active.chat] \in ev.events))
================================================================================

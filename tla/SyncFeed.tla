-------------------------------- MODULE SyncFeed --------------------------------
(***************************************************************************)
(* The feed of /api/sync and the browser's cache behind it: the read side  *)
(* of apps/backend/server.ts and v2-read-model.ts, pullUpdates of          *)
(* apps/frontend/sync.ts, the IndexedDB stores of apps/frontend/db.ts and  *)
(* what App.tsx does around them.                                          *)
(*                                                                         *)
(* Writers draw the revisions of a file and of an event in a transaction   *)
(* and commit later, in any order.  A pull is several requests, and each   *)
(* request several statements; between any two of them anything else may   *)
(* happen.  A transaction of IndexedDB is one step.                        *)
(*                                                                         *)
(* Abstractions.  An exclusion is of one file; hosts are left out, as they *)
(* are only put and pruned like sessions; the legacy tables are empty      *)
(* (LEGACY_READ is off); time stands still: of two retention settings the  *)
(* shorter one does not reach back to the events in Old nor to the chats   *)
(* that were last uploaded at a revision in OldChats, and an exclusion is  *)
(* younger than both.                                                      *)
(***************************************************************************)
EXTENDS Integers, FiniteSets

CONSTANTS
    Sources,
    Old,         \* revisions of events that only the longer retention shows
    OldChats,    \* revisions of files: a chat last seen then only the longer one shows
    PageSize,    \* rows of a page (limit 10000)
    MetaPage,    \* keys of a delta (limit 500)
    MaxBatches,  \* requests of a pull
    Windows,     \* events that a read of a chat may bring
    MaxRev,      \* bound: events
    MaxMeta,     \* bound: changes of files
    MaxSettings, \* bound: changes of the retention setting
    MaxFeedMishaps   \* bound: new generations, deletions, exclusions, restores

ASSUME FeedAssumption == IsFiniteSet(Sources) /\ {PageSize, MetaPage} \subseteq Nat

VARIABLES
    stored,    \* agent_normalized_events: set of [rev, file, gen]
    srcFile,   \* agent_source_files: [gen, deleted, meta, seen]
    writing,      \* transactions that have drawn their revisions: set of rows
    clock,     \* the two sequences: [rev, meta]
    muted,     \* files with an exclusion in force
    touching,  \* files whose exclusion is written and whose revision is not
    idb,       \* store meta: [cursor, back, more, mcur, lookback]
    shell,     \* store sessions: file -> [gen, count, seen]
    cached,    \* store events
    lookback,  \* the retention setting
    settings,  \* how often it was changed
    pull,      \* the pull in flight
    mustReset,     \* the client still has to react to its own mute or restore
    chat,      \* the payload of the open chat on its way to the cache: at most one
    feedMishaps,
    behind,    \* history: files whose last change the cursor has passed unseen
    gone,      \* history: files whose events were withheld or taken from the cache
    lost,      \* history: files whose entry a retention took since the cursor was forgotten
    late       \* history: events that were committed below a revision already visible

server == <<stored, srcFile, writing, clock, muted, touching>>
client == <<idb, shell, cached, lookback, pull, mustReset, chat>>
history == <<behind, gone, lost, late>>
feedVars == <<server, client, settings, feedMishaps, history>>

None == "none"
NoBack == [before |-> 0, ceiling |-> 0]
Short == "short"
Long == "long"
FeedMishap == feedMishaps < MaxFeedMishaps /\ feedMishaps' = feedMishaps + 1

\* The response that a pull has collected before its last statement, and a pull that
\* has not begun.
Response(events, keys, full, more) ==
    [events |-> events, keys |-> keys, full |-> full, more |-> more,
     sessions |-> <<>>, dead |-> {}]
Nothing == Response({}, {}, FALSE, FALSE)
Idle == [step |-> "idle"]

FeedInit ==
    /\ stored = {} /\ writing = {} /\ muted = {} /\ touching = {}
    /\ srcFile = [f \in Sources |-> [gen |-> 0, deleted |-> FALSE, meta |-> 0, seen |-> 0]]
    /\ clock = [rev |-> 0, meta |-> 0]
    /\ idb = [cursor |-> 0, back |-> NoBack, more |-> FALSE, mcur |-> 0, lookback |-> None]
    /\ shell = <<>> /\ cached = {}
    /\ lookback \in {Short, Long} /\ settings = 0
    /\ pull = Idle /\ mustReset = FALSE /\ chat = {}
    /\ feedMishaps = 0
    /\ behind = {} /\ gone = {} /\ lost = {} /\ late = {}

----------------------------------------------------------------------------
(* What the server's readers show *)

Highest(S) == IF S = {} THEN 0 ELSE CHOOSE n \in S : \A k \in S : k <= n
Lowest(S) == CHOOSE n \in S : \A k \in S : n <= k

Listed(f) == srcFile[f].meta > 0 /\ ~srcFile[f].deleted /\ f \notin muted
InReach(e, days) == days = Long \/ e.rev \notin Old
InSight(seen, days) == days = Long \/ seen \notin OldChats

\* A chat that the readers of chats show
Recent(f, days) == InSight(srcFile[f].seen, days)
Reached(f, days) == Listed(f) /\ Recent(f, days)

\* The join and the conditions of every reader of events: its own time, not the chat's.
Shown(e) == Listed(e.file) /\ e.gen = srcFile[e.file].gen
Visible(days) == {e \in stored : Shown(e) /\ InReach(e, days)}
EventsOf(f, days) == {e \in Visible(days) : e.file = f}

\* The altered form: only what the shorter retention shows is counted.
CountedShort(f, days) ==
    {e \in stored : e.file = f /\ e.gen = srcFile[f].gen /\ InReach(e, Short)}

\* The lateral count of events
Counted(f, days) == {e \in stored : e.file = f /\ e.gen = srcFile[f].gen /\ InReach(e, days)}

\* getV2SessionsMeta without includeDeleted
Session(f, days) == [gen |-> srcFile[f].gen, count |-> Cardinality(Counted(f, days)),
                     seen |-> srcFile[f].seen]
SessionsOf(S, days) == [f \in {g \in S : Reached(g, days)} |-> Session(f, days)]

\* With includeDeleted: those that are gone, unless they went beyond the retention.
GoneOf(S, days) ==
    {f \in S : ~Listed(f) /\ (f \in muted \/ Recent(f, days))}

\* listReadableSessions
FullShell(days) == SessionsOf(Sources, days)

\* currentEventHighWater, which knows no retention
HighWater == Highest({e.rev : e \in {x \in stored : Shown(x)}})
MetaHighWater == Highest({srcFile[f].meta : f \in Sources})

\* The first n by revision, and the last n.
FirstBy(S, n) == {e \in S : Cardinality({x \in S : x.rev < e.rev}) < n}
LastBy(S, n) == {e \in S : Cardinality({x \in S : x.rev > e.rev}) < n}

\* getV2SessionEventPage, direction "recent"
RecentPage(f, days, n) == LastBy(EventsOf(f, days), n)

----------------------------------------------------------------------------
(* Writers *)

\* An append: the row of the file, perhaps of a new generation, and one event;
\* or the inventory finds the file deleted.
Begin(f) ==
    /\ \A t \in writing : t.file # f
    /\ clock.meta < MaxMeta
    /\ \/ /\ clock.rev < MaxRev
          /\ \/ srcFile[f].gen = 0 /\ UNCHANGED feedMishaps
             \/ srcFile[f].gen > 0 /\ UNCHANGED feedMishaps
             \/ srcFile[f].gen > 0 /\ FeedMishap
          /\ writing' = writing \cup {[file |-> f, meta |-> clock.meta + 1, rev |-> clock.rev + 1,
                deleted |-> FALSE,
                gen |-> IF srcFile[f].gen = 0 \/ feedMishaps' # feedMishaps
                        THEN srcFile[f].gen + 1 ELSE srcFile[f].gen]}
          /\ clock' = [rev |-> clock.rev + 1, meta |-> clock.meta + 1]
       \/ /\ Listed(f) /\ FeedMishap
          /\ writing' = writing \cup {[file |-> f, meta |-> clock.meta + 1, rev |-> 0,
                                 deleted |-> TRUE, gen |-> srcFile[f].gen]}
          /\ clock' = [clock EXCEPT !.meta = @ + 1]
    /\ UNCHANGED <<stored, srcFile, muted, touching, client, settings, history>>

\* A revision that becomes visible after a higher one may be passed by a cursor.
Passed(meta) == meta < MetaHighWater
Seen(f, passed) == IF passed THEN behind \cup {f} ELSE behind \ {f}

Commit(t) ==
    LET f == t.file
        above == t.rev # 0 /\ \E e \in stored : e.rev > t.rev
    IN  /\ writing' = writing \ {t}
        /\ srcFile' = [srcFile EXCEPT ![f] =
                       [gen |-> t.gen, deleted |-> t.deleted, meta |-> t.meta,
                        seen |-> t.meta]]
        /\ stored' = IF t.rev = 0 THEN stored
                     ELSE stored \cup {[rev |-> t.rev, file |-> f, gen |-> t.gen]}
        /\ behind' = Seen(f, Passed(t.meta))
        /\ late' = IF above THEN late \cup {t.rev} ELSE late
        /\ gone' = IF t.deleted \/ srcFile[f].deleted THEN gone \cup {f} ELSE gone
        /\ lost' = lost \ {f}
        /\ UNCHANGED <<clock, muted, touching, client, settings, feedMishaps>>

\* createSyncExclusion and restoreSyncExclusion for a chat that there is, by this
\* client or by another one.
Exclude(f) ==
    /\ FeedMishap
    /\ srcFile[f].meta > 0 /\ f \notin touching
    /\ muted' = IF f \in muted THEN muted \ {f} ELSE muted \cup {f}
    /\ touching' = touching \cup {f}
    /\ gone' = gone \cup {f}
    /\ mustReset' \in {mustReset, TRUE}
    /\ UNCHANGED <<stored, srcFile, writing, clock, idb, shell, cached, lookback, pull, chat,
                   settings, behind, lost, late>>

\* touchSyncExclusionTarget, which leaves alone when the chat was last seen; a row that a
\* writer holds is waited for.
Touch(f) ==
    /\ f \in touching /\ \A t \in writing : t.file # f
    /\ clock.meta < MaxMeta
    /\ touching' = touching \ {f}
    /\ srcFile' = [srcFile EXCEPT ![f].meta = clock.meta + 1]
    /\ clock' = [clock EXCEPT !.meta = @ + 1]
    /\ behind' = behind \ {f} /\ lost' = lost \ {f}
    /\ UNCHANGED <<stored, writing, muted, client, settings, feedMishaps, gone, late>>

----------------------------------------------------------------------------
(* pullUpdates: a pull is [step, mode, days, batch, cursor, back, mcur, resp] *)

\* shouldResumeBackfill
Resumable(m) == m.back # NoBack /\ m.more
Forgotten(m) == [m EXCEPT !.back = NoBack, !.more = FALSE, !.mcur = 0]

\* eventModeForPull
ModeFor(kind, m) == IF kind = "recent" /\ Resumable(m) THEN "backfill" ELSE kind

FirstStep(mode) ==
    CASE mode = "recent" -> "ask" [] mode = "meta" -> "keys" [] OTHER -> "rows"

\* Another retention than that of the last pull forgets the cursors, except that of the
\* events.
StartPull(kind) ==
    LET m == IF idb.lookback = lookback THEN idb
             ELSE [Forgotten(idb) EXCEPT !.lookback = lookback]
    IN  /\ pull.step = "idle"
        /\ idb' = m
        /\ pull' = [step |-> FirstStep(ModeFor(kind, m)), mode |-> ModeFor(kind, m),
                    days |-> lookback, batch |-> 1, cursor |-> m.cursor, back |-> m.back,
                    mcur |-> m.mcur, resp |-> Nothing]
        /\ lost' = IF m.mcur = 0 THEN {} ELSE lost
        /\ UNCHANGED <<server, shell, cached, lookback, mustReset, chat, settings, feedMishaps,
                       behind, gone, late>>

\* Recent events begin with a statement of their own.
AskHighWater ==
    /\ pull.step = "ask"
    /\ pull' = [pull EXCEPT !.step = "rows", !.cursor = HighWater,
                   !.back = [before |-> HighWater + 1, ceiling |-> HighWater]]
    /\ UNCHANGED <<server, idb, shell, cached, lookback, mustReset, chat, settings, feedMishaps,
                   history>>

\* The altered form: the cursor follows what was read.
NextCursorRead(took, c) == IF took = {} THEN c ELSE HighWater

\* The cursors follow what the page holds, not what was read.
NextCursor(took, c) == IF took = {} THEN c ELSE Highest({e.rev : e \in took})
NextBefore(took, b) ==
    IF took = {} THEN b ELSE [b EXCEPT !.before = Lowest({e.rev : e \in took})]

\* listV2EventsForSync and listV2EventsForBackfill
Ahead == {e \in Visible(pull.days) : e.rev > pull.cursor}
Below == {e \in Visible(pull.days) : e.rev < pull.back.before /\ e.rev <= pull.back.ceiling}

\* A page of rows, as far as the budget of bytes goes: at least one of them.
Collected(took, all) ==
    Response(took, {e.file : e \in took}, FALSE,
             took # all \/ Cardinality(all) = PageSize)

RowsForward ==
    LET all == FirstBy(Ahead, PageSize)
    IN  /\ pull.step = "rows" /\ pull.mode = "forward"
        /\ \E n \in 0..PageSize :
             /\ n > 0 \/ all = {}
             /\ pull' = [pull EXCEPT !.step = "sessions",
                            !.cursor = NextCursor(FirstBy(all, n), @),
                            !.resp = Collected(FirstBy(all, n), all)]
        /\ UNCHANGED <<server, idb, shell, cached, lookback, mustReset, chat, settings,
                       feedMishaps, history>>

RowsBack ==
    LET all == LastBy(Below, PageSize)
    IN  /\ pull.step = "rows" /\ pull.mode # "forward"
        /\ \E n \in 0..PageSize :
             /\ n > 0 \/ all = {}
             /\ pull' = [pull EXCEPT !.step = "sessions",
                            !.back = NextBefore(LastBy(all, n), @),
                            !.resp = Collected(LastBy(all, n), all)]
        /\ UNCHANGED <<server, idb, shell, cached, lookback, mustReset, chat, settings,
                       feedMishaps, history>>

\* syncMetadata: without a cursor the full shell, whose cursor is read before the
\* lists; with one the keys that have changed, a page of them.
Changed == {f \in Sources : srcFile[f].meta > pull.mcur}

\* The altered form: the cursor of a delta is the highest revision there is.
DeltaCursorRead(page) == MetaHighWater

\* The cursor of a delta is the highest revision of its page.
DeltaCursor(page) == Highest({srcFile[f].meta : f \in page} \cup {pull.mcur})

Keys ==
    LET Before(f) == {g \in Changed : srcFile[g].meta < srcFile[f].meta}
        page == {f \in Changed : Cardinality(Before(f)) < MetaPage}
    IN  /\ pull.step = "keys"
        /\ pull' = IF pull.mcur = 0
                   THEN [pull EXCEPT !.step = "sessions", !.mcur = MetaHighWater,
                            !.resp = Response({}, Sources, TRUE, FALSE)]
                   ELSE [pull EXCEPT !.step = "sessions", !.mcur = DeltaCursor(page),
                            !.resp = Response({}, page, FALSE, page # Changed)]
        /\ UNCHANGED <<server, idb, shell, cached, lookback, mustReset, chat, settings,
                       feedMishaps, history>>

\* The last statement: the sessions, for the delta also those that are gone.
Sessions ==
    /\ pull.step = "sessions"
    /\ pull' = [pull EXCEPT !.step = "apply",
                  !.resp.sessions = IF pull.resp.full THEN FullShell(pull.days)
                                    ELSE SessionsOf(pull.resp.keys, pull.days),
                  !.resp.dead = IF pull.mode = "meta" /\ ~pull.resp.full
                                THEN GoneOf(pull.resp.keys, pull.days) ELSE {}]
    /\ UNCHANGED <<server, idb, shell, cached, lookback, mustReset, chat, settings, feedMishaps,
                   history>>

\* Sessions put, sessions deleted with their events.
Put(old, new) ==
    [f \in DOMAIN old \cup DOMAIN new |-> IF f \in DOMAIN new THEN new[f] ELSE old[f]]
Without(sh, S) == [f \in DOMAIN sh \ S |-> sh[f]]
Keep(es, S) == {e \in es : e.file \notin S}

\* storeEventCursor
CursorAfter(p) == IF p.mode \in {"forward", "recent"} THEN p.cursor ELSE idb.cursor

\* applySync's cursors
StoredBy(p) ==
    [idb EXCEPT
        !.cursor = CursorAfter(p),
        !.back = IF p.mode \in {"recent", "backfill"} THEN p.back ELSE @,
        !.more = IF p.mode \in {"recent", "backfill"} THEN p.resp.more ELSE @,
        !.mcur = IF p.mode = "meta" THEN p.mcur ELSE @]

\* pruneCacheBefore, with which syncNow leaves: the chats last seen before the retention,
\* with all of their events, and the events that are older themselves.
Aged(sh, days) == {f \in DOMAIN sh : ~InSight(sh[f].seen, days)}
Pruned(es, sh, days) == {e \in Keep(es, Aged(sh, days)) : InReach(e, days)}

\* The next batch or the end; the events of a generation that is shown no more stay.
Apply ==
    LET r == pull.resp
        vanished == IF r.full THEN DOMAIN shell \ DOMAIN r.sessions ELSE {}
        out == r.dead \cup vanished
        es == Keep(cached, out) \cup r.events
        sh == Without(Put(shell, r.sessions), out)
        kept == IF pull.mode = "recent" THEN gone \ DOMAIN r.sessions ELSE gone \cup out
        again == pull.mode # "recent" /\ r.more /\ pull.batch < MaxBatches
    IN  /\ pull.step = "apply"
        /\ shell' = IF again THEN sh ELSE Without(sh, Aged(sh, pull.days))
        /\ cached' = IF again THEN es ELSE Pruned(es, sh, pull.days)
        /\ idb' = StoredBy(pull)
        /\ gone' = IF again THEN kept ELSE kept \cup Aged(sh, pull.days)
        /\ pull' = IF again THEN [pull EXCEPT !.step = FirstStep(pull.mode), !.batch = @ + 1,
                                              !.resp = Nothing]
                   ELSE Idle
        /\ UNCHANGED <<server, lookback, mustReset, chat, settings, feedMishaps, behind, lost,
                       late>>

\* A response is lost or late: the pull ends, what was applied stays.
PullFails ==
    /\ pull.step = "apply"
    /\ pull' = Idle
    /\ shell' = Without(shell, Aged(shell, pull.days))
    /\ cached' = Pruned(cached, shell, pull.days)
    /\ gone' = gone \cup Aged(shell, pull.days)
    /\ UNCHANGED <<server, idb, lookback, mustReset, chat, settings, feedMishaps, behind, lost,
                   late>>

----------------------------------------------------------------------------
(* What else writes the cache *)

\* resetSyncCursorsForMutedChange and pruneMutedSources, whatever pull is in flight
ResetCursors ==
    /\ mustReset
    /\ mustReset' = FALSE
    /\ idb' = Forgotten(idb)
    /\ shell' = Without(shell, muted)
    /\ cached' = Keep(cached, muted)
    /\ gone' = gone \cup muted
    /\ UNCHANGED <<server, lookback, pull, chat, settings, feedMishaps, behind, lost, late>>

\* The user sets another retention: the cache is pruned at once, the cursors are
\* forgotten by the next pull.
SetRetention ==
    LET days == IF lookback = Short THEN Long ELSE Short
        aged == Aged(shell, days)
    IN  /\ settings < MaxSettings /\ settings' = settings + 1
        /\ lookback' = days
        /\ shell' = Without(shell, aged)
        /\ cached' = Pruned(cached, shell, days)
        /\ gone' = gone \cup {e.file : e \in cached \ cached'}
        /\ lost' = lost \cup aged
        /\ UNCHANGED <<server, idb, pull, mustReset, chat, feedMishaps, behind, late>>

\* refreshActiveSessionEvents: all events of a chat, or a page of them; it drops a
\* payload that is still on its way.  A chat beyond the retention is answered with 404.
ReadChat(f, n) ==
    /\ Reached(f, lookback)
    /\ chat' = {[file |-> f, days |-> lookback, meta |-> srcFile[f].meta,
                 full |-> n >= Cardinality(EventsOf(f, lookback)),
                 session |-> Session(f, lookback), events |-> RecentPage(f, lookback, n)]}
    /\ UNCHANGED <<server, idb, shell, cached, lookback, pull, mustReset, settings, feedMishaps,
                   history>>

\* useSessionEventsCache: a chat whose cached events are as many as its entry says is not
\* asked for again.
CachedOf(f) == {e \in cached : e.file = f}
CacheHit(f) == Cardinality(CachedOf(f)) >= shell[f].count

\* cacheSessionPayload: the cursor of queueDeleteEventsForSession walks on after the
\* puts that were queued behind it, and deletes what they stored as well.
Rewritten(f, payload) ==
    LET old == CachedOf(f)
    IN  IF old = {} THEN payload ELSE {e \in payload : e.rev < Lowest({x.rev : x \in old})}

\* What was read is stored later, over what a pull has brought meanwhile.
StoreChat ==
    \E c \in chat :
      LET f == c.file
          stale == IF c.meta < srcFile[f].meta \/ c.days # idb.lookback THEN {f} ELSE {}
      IN
        /\ chat' = {}
        /\ shell' = Put(shell, [g \in {f} |-> c.session])
        /\ cached' = IF c.full THEN Keep(cached, {f}) \cup Rewritten(f, c.events)
                     ELSE cached \cup c.events
        /\ behind' = behind \cup stale
        /\ gone' = IF c.full THEN gone \cup {f} ELSE gone
        /\ UNCHANGED <<server, idb, lookback, pull, mustReset, settings, feedMishaps, lost,
                       late>>

----------------------------------------------------------------------------
FeedNext ==
    \/ \E f \in Sources : Begin(f) \/ Exclude(f) \/ Touch(f)
    \/ \E t \in writing : Commit(t)
    \/ \E kind \in {"meta", "forward", "recent"} : StartPull(kind)
    \/ AskHighWater \/ RowsForward \/ RowsBack \/ Keys \/ Sessions \/ Apply \/ PullFails
    \/ ResetCursors \/ SetRetention
    \/ \E f \in Sources, n \in Windows : ReadChat(f, n)
    \/ StoreChat

FeedSpec == FeedInit /\ [][FeedNext]_feedVars

----------------------------------------------------------------------------
(* Properties *)

\* The list of chats is right up to its cursor: whatever has changed at or below the
\* cursor of the metadata is in the cache as the server shows it, however pulls, the
\* pages of a delta, failures, exclusions and changes of the retention interleave; of the
\* chats that the retention reaches, as the others are neither reported nor kept.  Left
\* out are changes committed below a revision that a reader had seen and list entries
\* stored later than they were read (behind), an exclusion between its two statements
\* (touching), and the entries that a shorter retention took (lost): when it is set back
\* before a pull sees it the cursor stays where it was, above entries that are no longer
\* there (syncMetadata, applySync, pruneCacheBefore, pullUpdates).
Agreed(f) ==
    Recent(f, idb.lookback) =>
        IF Listed(f) THEN f \in DOMAIN shell /\ shell[f] = Session(f, idb.lookback)
        ELSE f \notin DOMAIN shell
ShellUpToCursor ==
    \A f \in Sources \ (behind \cup touching \cup lost) :
        idb.mcur > 0 /\ srcFile[f].meta <= idb.mcur => Agreed(f)

\* No event is skipped: between the two cursors the cache holds every event that the
\* server shows, also while a pull is under way.  Left out are events committed below a
\* visible revision, and chats whose events were withheld or taken from the cache: by an
\* exclusion, a deletion, a read of the whole chat, the pruning of its entry, or a
\* retention that was undone before a pull saw it (sync, advanceBackfillCursor,
\* storeEventCursor).
NoEventSkipped ==
    idb.back # NoBack =>
        \A e \in Visible(idb.lookback) :
            e.file \notin gone /\ e.rev \notin late
            /\ idb.back.before <= e.rev /\ e.rev <= idb.cursor => e \in cached

\* The count that spares a request is not fooled: a chat whose cached events are as
\* many as its entry says is cached whole, unless some are of a generation that the
\* file has left (useSessionEventsCache).
CacheHitIsWhole ==
    \A f \in DOMAIN shell \ (behind \cup touching \cup lost) :
        /\ Reached(f, lookback)
        /\ idb.mcur > 0 /\ srcFile[f].meta <= idb.mcur /\ idb.lookback = lookback
        /\ \A e \in CachedOf(f) : InReach(e, lookback) /\ e.gen = srcFile[f].gen
        /\ CacheHit(f)
        => EventsOf(f, lookback) \subseteq CachedOf(f)
=============================================================================

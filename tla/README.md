# Chatview in TLA+

Chatview (Clo) mirrors the JSONL session logs that coding agents write on many
hosts into one Postgres, and shows them in a browser while they grow.  This
directory holds TLA+ models of the protocols that carry a line from a log file to
the screen, and of what surrounds them (drafts, recordings, the launcher, client
logs); the TLC configurations that check them; and TLAPS proofs of what should
hold for every number of files, processes, chats and faults.

Contents: [the system](#the-system), [hazards](#hazards), [the
modules](#the-modules), [runs](#runs), [fairness](#fairness),
[proofs](#proofs), [disagreements found](#disagreements-found), [what is not
modelled](#what-is-not-modelled), [plan](#plan).

## The system

The path of a line, with the components it passes:

    log file --(1) agent v2--> POST /api/agent/v1/{hello,inventory,append}
       --(2) sync-engine.ts--> source files, raw chunks, normalized events
       --(3) ingest hook--> agent_render_items (sync_revision)
       --(4) notify listener--> tick {max_rev, files} on the web socket
       --(5) client store of frontend-v3--> raw SQL query over the socket --> IndexedDB
       --(6) window of the open chat --(7) virtual list on the screen

    normalized events --(8) read model--> GET /api/sync, GET /api/session events
       --(9) legacy client--> IndexedDB --(10) window of the legacy page

| Component | State it keeps | Operations | Talks to | Hard behaviour | What makes it correct |
|---|---|---|---|---|---|
| **Agent scan and upload** `apps/agent/v2/` | state file (agent id; per file generation, offset, line, inode, tail hash); in memory inventory, batches, upload plan | poll, inventory walk, tail read, plan, tombstones, chunk upload with retry, save state | the backend by HTTP; the file system | files change between stat, read and tail hash; requests lost, late or doubled; process dies anywhere; state file corrupt | the cursor never passes what the server holds; a replaced file gets a new generation; what is on disk is at last shown |
| **Sync library** `packages/sync-core` | none | decideSync, readRecords, evaluatePolicy | agents | sizes and tails that coincide; reads cut inside a line | every complete line once; policies mean what they say |
| **Append and inventory handlers** `sync-engine.ts` | agent_source_files, agent_raw_chunks, agent_normalized_events, agent_sync_cursors | handleAgentAppend, handleAgentInventory | the agent; the ingest hook in the same transaction | repeated and out-of-order requests | a repeat changes nothing that matters |
| **Agent runtime registry** `sync-engine.ts:598-745`, `policy.ts`, `run.ts` | agent_runtimes | register (at hello and each upload), takeover, admin shutdown | agent loops of one host | several statements under READ COMMITTED, waiting and deadlocking on row locks | a shutdown sticks and is obeyed; takeovers do not mark one runtime twice |
| **Launcher and self-update** `apps/agent/clo.ts`, `clo-bootstrap.ts` | lock file, releases, link `current`, child process | lock, poll the manifest, install, verify, restart, roll back, shut down | the server's manifest; other launchers | races for a dead lock; releases that fail early; two builds of one version | one launcher runs an agent at a time; the served release comes to run |
| **Legacy agent** `apps/agent/main.ts`, `server.ts:ingestBatch` | positions in memory and on disk | scan, post, tombstones | ingest endpoint | lost posts, files replaced, lines too long | positions pass only what the server holds, or has dropped for a reason; files are followed |
| **Parsers** `packages/parsers` | none | a record to an event with parts | agents, read models | a dozen conditions tried in order; Codex writes messages twice | both clients show the same; no message vanishes |
| **Render pipeline** `sync-v3/ingest-hook.ts`, `render.ts`, `scripts/backfill-render-items.ts` | agent_render_items | rows of an event: delete, insert; backfill in batches | append handler; operators | two writers of one event; errors inside the transaction | rows reflect the stored event |
| **Notify listener, web socket handlers** `sync-v3/` | pendingFiles, pendingMaxRev, timer, lastSeenMaxRev, refresh flags; sockets | report, poll, flush, view refresh; hello, query, tick | ingest path, client store | one debounce for reports and poll; rows and watermark of a reply by two statements | every committed row is announced |
| **Client store: scopes** `views-store-v4.ts` | per scope: known and synced revision, in flight, retry, timer | hello.ok, tick, pull, re-run | socket, IndexedDB | ticks during a pull, late answers, lost ticks | a scope at rest has caught up |
| **Client store: link and queries** `ws-client.ts`, `views-store-v4.ts` | socket, backoff timer, status, pending queries and timers | start, stop, reconnect, watchdog, attempts | the web socket | every order of timers and socket events | no query without a timer, no client without a way back |
| **Window of the open chat** `views-store-v4.ts`, cache `idb.ts` | activeWindow, chat token, active scope; IndexedDB | openChat, closeActiveChat, pull and merge, loadOlder | cache, scope | answers for a chat that was left; cached rows that are old | shows the chat opened last, and its newest rows |
| **Chat view** `chat-view.tsx` | rendered range, measured heights, anchor, open groups | scroll, layout, measuring, toggles, older and newer rows | the window | heights known late; rows prepended while scrolling | the screen is covered, the top row stays |
| **Read models and legacy v2 sync** `v2-read-model.ts`, `server.ts`, `frontend/sync.ts`, `db.ts` | cursors and IndexedDB of a browser | pulls in pages both ways, exclusions, retention, cache of a chat | server | revisions commit in any order; pages; pulls across a reset | cursors never pass what is not cached |
| **Legacy page of the open chat** `frontend/App.tsx` | window of events, cache of chats, sync in flight | open, loadOlder, loadNewer, poll, stream, tab hidden and back | sync, IndexedDB | answers that come late; pages that do not meet | the chosen chat stays open, its window whole |
| **Drafts (Yjs)** `server.ts`, `yjs.ts`, `App.tsx`, `db.ts` | document on the server; document and outbox per browser | edit, flush, reconcile, merge, broadcast | server, sockets | read-merge-write in two statements; reloads; failed flushes | no edit is lost, each arrives |
| **Audio import and transcription** `server.ts` | media rows, blobs, jobs, queue | upload, dedupe, delete, backfill, run, resume | OpenRouter | crash in the middle; the same content deleted and uploaded | bytes stay somewhere; every job ends |
| **Browser recordings** `audio-panel.tsx`, `audio-cache.ts` | IndexedDB rows and chunks | record, finish, flush, retry | audio import | two panels and tabs, closing while uploading | nothing is deleted before it is uploaded |
| **Client logs** `client-logs.ts`, `app-logs.ts` | queue in IndexedDB, queue in memory | log, flush, trim | server | IndexedDB that fails, two tabs | logs arrive |
| **Other views** `sidebar.tsx`, `settings.tsx`, `virtual-chat.tsx` | React state | presentation | stores | none for the protocols | none stated |

The server is one Bun process: handlers interleave only at awaits, and so do the
browser's callbacks.  Transactions of Postgres run under READ COMMITTED: every
statement has its own snapshot and row locks last to the end.  The models split a
handler exactly where it awaits something another actor can get in front of; a
transaction of IndexedDB is one step.  `server.ts:232-234` says that legacy /v2 was
removed, `README.md:52` that it is reachable: the legacy code is modelled as it
stands in the repository.

## Hazards

`PROJECT.json` lists each hazard with its line and the properties aimed at it.
They fall into these groups:

1. *Agent and server disagree*: crash before the state is saved, retried and late
   requests, a lost state file, a legacy position that passes a refused line.
2. *A file is not what the cursor thinks*: rotation, truncation, rewriting,
   deletion and re-creation, between any two reads.
3. *Statements interleave*: registrations of one host; backfill against append;
   rows against watermark; read and write of a merge; an upload against the
   deletion of the same content.
4. *Announcements get lost or overtake*: debounce, poll, ticks while the link is
   down, a notice of ingest whose pull fails.
5. *Timers and answers race*: attempt timeouts, reconnects, the hello watchdog,
   `stop()` in the middle, launchers at a dead lock.
6. *A window mixes chats or times*: an answer for the chat before, pages that do
   not meet, cached copies of old rows, heights that come late.
7. *Cursors of a paged feed*: revisions that commit late, resets under a pull.
8. *What is queued in a browser*: recordings, drafts and logs whose upload fails,
   happens twice, or is cut off by a closed tab.
9. *Order of conditions*: readings of a Codex record, echoes, patterns of a policy.

Some hazards are real and the code does lose there; the property then names
exactly the situations it leaves out, the hazard's note says so, and they are
listed under [disagreements found](#disagreements-found).

## The modules

| Module | Models | Checked by | Proved in |
|---|---|---|---|
| `AckedLog` | abstract: the server's entries only grow, positions move only over stored entries | `Safety` (refinement) | `AgentSync_proofs` |
| `AgentSync` | agent scan, append and inventory handlers | `Safety`, `Agents`, `AgentSyncRecreated` | `AgentSync_proofs` |
| `SyncCore` | the library about files: decideSync, planAppendChunk | `Safety` | `AgentSync_proofs` |
| `Policy` | the library about paths: globs and rules | `Safety` | `AgentSync_proofs` |
| `RuntimeRegistry` | agent_runtimes and the agent loops of one host | `Registry` | `RuntimeRegistry_proofs` |
| `Launcher` | lock, releases, child of the self-updating launcher | `Agents` | `Agents_proofs` |
| `LegacyAgent` | first agent and its ingest endpoint | `Agents` | `Agents_proofs` |
| `Transcript` | parsers, render rows and legacy messages of a line | `Safety` | `Browser_proofs` |
| `RenderRows` | append transaction with its hook, backfill script | `Stores` | `Stores_proofs` |
| `TickPull` | listener, socket handlers, pull scopes | `TickSidebar`, `TickChat` | `Pages_proofs` |
| `StoreLink` | ws client, start/stop, watchdog, one persistent query | `Safety`, `LinkWatchdog` | `Browser_proofs` |
| `ChatWindow` | window of the open chat, its pulls, paging, the cache | `Chat`, `ChatOlder`, `ChatParts` | `ChatWindow_proofs` |
| `ChatView` | the virtual list | `Chat`, `ViewGroups` | `ChatWindow_proofs` |
| `SyncFeed` | the legacy feed and the browser's cache behind it | `Safety` | `Browser_proofs` |
| `EventWindow` | the open chat of the legacy page | `TickChat` | `Pages_proofs` |
| `Drafts` | Yjs documents of one chat in browsers and server | `Stores` | `Stores_proofs` |
| `AudioImport` | uploads, blobs, jobs | `Stores` | `Audio_proofs` |
| `AudioOutbox` | recordings cached in the browser | `Stores` | `Audio_proofs` |
| `ClientLogs` | the two queues of logs | `Chat` | `Browser_proofs` |

`MC<module>` extends a module for TLC and declares the model values or inputs the
configurations use.  `MCSafety`, `MCAgents`, `MCStores`, `MCChat` and `MCPages`
extend several modules that share no variable and have a variable `part`: a
behaviour is a behaviour of one part, the others stay at their initial state.  So
the states of a run are the sum of its parts' and not the product, and what is
checked of a part is what would be checked of it alone.

The modules rest on each other, and each says on what: `TickPull` takes from
`StoreLink` that an unsettled query is sent again and that a link returns
(`Resend`, `Connect`); `ChatWindow` takes from `StoreLink` that a pull gets an
answer, from `TickPull` that a tick follows a row unless the link was down, and
from `RenderRows` what rows an event has and that storing it again moves them to
a new revision; `ChatView` takes from `ChatWindow` how its list changes;
`EventWindow` takes from `SyncFeed` that a pull brings every event since the last;
`RenderRows` takes from `AgentSync` that a request is sent until it is accepted;
`AudioOutbox` and `AudioImport` meet at the upload.

### AgentSync, AckedLog

| Model | Code |
|---|---|
| `disk`, `incs` | the file system; a content written under a name has a number of its own, so line i of content c is `<<c, i>>` and the tail hash is such a pair |
| `cursors` | the state file, `state.ts` |
| `pc`, `toRead`, `missing`, `reading`, `batches`, `sent`, `waiting` | locals of `runAgentV2Once` and `executeUploadPlan` in progress |
| `StartScan` | load state, hello, `scanInventoryWithStatus` |
| `StatFile`, `ReadLines`, `ReadTail` | `readAppendJsonl`, split at its three opens of the file |
| `PlanUpload`, `SendInventory`, `SendChunk`, `SaveState` | the upload phase |
| `RequestFails` | `fetchWithRetry`; the copy stays in `net` or not |
| `Crash`, `LoseState`, `FileVanished` | process death, `backupCorruptState`, an exception out of the scan |
| `HandleAppend`, `HandleInventory` | the handlers, a transaction each |

Chunk limits become an arbitrary split of a file's lines; redaction, parsing and
policy globs are left out.  A request stays in `net` until it is processed, so
attempts may be processed late and out of order.

### SyncCore

`Scan` is what the caller does with a file: stat, hash of the tail, `DecideSync`, a
chunk from where the decision says.  `planAppendChunk` takes a step for each round
of its own loop (`TakeRecord`, `GoesOn` its conditions) and one for its result
(`EndPlan`: the records and the next cursor); it works on a copy of what was read
and awaits nothing, so the file changes only between plans (`Changes`).

### Policy, Transcript

Pure functions, so recursive functions (`Policy`) and case distinctions.  `Policy`
translates the globs' backtracking: `MatchSegment` goes from a retry to the next (its
two places are `starIndex + 1` and `valueRetryIndex`), the characters that match one by
one between two of them are `Run`; `MatchSegments` and `Decided`, the loop over the
rules, follow.  Its state is the case that is asked.  `PolicyAsWritten` says what it
should come to without any search: the pattern can be laid over the path (`Covers`).
Paths with a `*` in them are its exception (`Starred`).  `Transcript` translates the
readings of a Codex record in the order in which the parser tries them
(`CodexReadings`, `ReadingOf`), the older parser (`ParseOld`), `RowsOf`
(render.ts), `LegacyRaw`, `FlattenEvent` (transform.ts) and the search for echoes; its
state is a log of up to three lines, so that echoes have neighbours.  A text may be the
notice of a subagent (`Notices`), of which `ReadableText` shows the status; render.ts
reads thinking so as well, transform.ts does not (`RowOf`, `FlatPart`).

### RuntimeRegistry

`txn[r]` is the registration under way for runtime r; `SelectActive`, `Replace`,
`SelectSelf` and `Commit` are the statements of `registerAgentRuntime`, `marks`
the rows it has locked by its update, `Abort` Postgres ending a deadlock.
`agent[r]` is where `runAgentV2` is: only a refused hello ends the loop
(`Answered`).  Time is one bit per row (`fresh`: seen in the last 30 s).

### Launcher, LegacyAgent

`proc[p]` is a process of `clo run` or `clo update-once` with its place in the code
(`TakeLock`, `WritePid`, `ReadOwner`, `ClearStale`, `FetchManifest`, `Download`,
`Apply`, `Relink`, `ChildExit`, `Restart`, `ShutdownEnds`), `lock` the lock file
with its maker and its text, `releases` and `link` the directory.  `breached` is a
history: a live process has lost its lock file.  In `LegacyAgent` `mem` and `saved`
are the positions, `wire` the posts the server may still execute (`PostAgain` sends
one twice), `Ingest` the handler with its sessions, rows and tombstones.  A line is its
number and the content it is of, so that a file made anew has other lines under the same
numbers; `ReadThrows` is the read of a file that vanished, which ends the scan; `passed`
is a history: the lines a position was moved over.

### RenderRows

`txn["append"]` and `txn["fill"]` run `bulkInsertRenderRows` statement by
statement (`BeginDelete` takes the snapshot, `EndDelete` waits for locked rows
and works on what is left, `InsertRow` waits for a locked key and updates what it
finds).  `Rows(e)` is the set of rows `eventToRenderRows` gives; a row has an
identity of its own (`id`), as in Postgres.  The content kind `refused` is a row
whose payload Postgres does not take as jsonb.  `failed` and `raced` are histories,
used only by properties and to start the backfill when rows are missing.

### TickPull, StoreLink, ChatWindow, ChatView

`TickPull`: `Insert` draws a revision, `CommitWrite` makes its row visible: commits
may come in another order than the draws (`MaxOpen`).  `Report`, `PollReads`,
`PollCompares`, `Flush` and `RefreshEnds` are the listener; `ReadHello`,
`AnswerHello`, `QueryRows`, `QueryMax` and `QueryAnswer` the socket handlers split
at their awaits; `Receive`, `Land`, `Rerun`, `Resend`, `AttemptTimesOut` and
`OpenChat` the client.  A `Scope` record holds the fields of `createSyncScope` plus
its query.

`StoreLink`: `wsClient[c]` is a ws client (`stopped`, its socket, its backoff timer),
one per `start()`; `query` the boot query with the two timers of
`sendPersistentQuery`.  `Start` and `StartGoesOn` are the halves of `start()`
around its read of IndexedDB, so that React's start, stop, start is among the
behaviours.

`ChatWindow`: `rows` is the table, `cache` the store `render_items` with its key
`[chat, seq]`, `win` the activeWindow, `token` the chat token that every await
compares with.  `Serve`, `Receive`, `Merge` and `PutFails` are a pull between its
awaits, `StrayStep` the pull of a scope that `openChat` replaced, `OpenChat`,
`ReadTail` and `ShowTail` the parts of `openChat`, `LoadOlder` to `Prepend` those
of `loadOlder`.  `crossed` and `slipped` are histories that name two races the code
loses (below).  `TickPull` and `ChatWindow` both model the active scope: `TickPull`
with the server's side in full and rows that only accumulate, `ChatWindow` with the
server reduced to its answers and the window in full.

`ChatView`: `list` are the rows with their measured heights and open groups,
`range` the rendered part with its paddings, `top` the scroll position, `anchor`
the row that is held.  `LaidOut` is a change of the list with the layout effects
that follow in the same task; `Frame` dispatches the scroll event and runs the
frame callbacks.

### SyncFeed, EventWindow

`SyncFeed`: `Begin` and `Commit` are a writer's transaction, `StartPull`,
`AskHighWater`, `RowsForward`, `RowsBack`, `Changed`, `Keys`, `Sessions` the
statements of `/api/sync` in one of its modes, `Apply` what `pullUpdates` stores of
the answer and where it moves the cursors, `Exclude`, `Touch`, `ResetCursors`,
`SetRetention` what the user may change under it, `ReadChat` and `StoreChat` the
read of a whole chat.  Of two retentions the shorter one reaches neither the events in
`Old` nor chats last uploaded in `OldChats`: the readers leave these out (`Recent`), and
`pruneCacheBefore` deletes them with their events (`Aged`, `Pruned`).  Histories:
`behind`, `gone`, `lost`, `late`.

`EventWindow`: an event is its number in the chat; `ev` is the window, `older`,
`newer`, `refresh` the requests under way, `sync` where `syncNow` stands and what
is queued behind it (`pendingSync`).  `PullMeta`, `PullEvents` and `Await` are its
continuations, `Poll`, `Timer`, `Hide`, `Return` its callers.

### Drafts, AudioImport, AudioOutbox, ClientLogs

`Drafts`: a document is the set of the edits merged into it.  `MergeReads` and
`MergeWrites` are the two statements of `mergeYjsUpdate` between which the advisory
lock is held (`LockFree`); `Flush`, `FlushAnswered`, `Fails` the outbox; `Reconcile`,
`ReconAnswered` the exchange of state vectors; `RemoteArrives` a broadcast.

`AudioImport`: `requests` are uploads in progress (`Store`, `InsertMedia`,
`LookForJob`, `CreateJob`), `queue`, `running`, `active` the in-memory queue,
`resume` and `fill` what a restart begins, `Crash` the end of the process.
`AudioOutbox`: a panel is one mount of the hook with its recorder, the writes and
endings it awaits, and its upload loop (`TakeUp`, `Mark`, `Load`, `Post`, `Delete`,
`Failed`); `InHands` says that a loop has a recording.  `ClientLogs`: `LogMade`, `Adds`, `FlushCalled`, `MemorySent`,
`QueueSent`, `Deletes`, `PageLeft`.

## Runs

Every bound is a CONSTANT of its module with a comment.  Definitions marked "the
altered form" in the modules are plausible slips of the code, used to see that a
property notices them; no specification uses them.

| Run | Part | Shows | Bounds, and why they are enough |
|---|---|---|---|
| `Safety` | agent | `CursorNeverAhead`, `ImplementsAckedLog` under every edit of the file and every fault | one file (files meet only in `toRead` and in the exception of `FileVanished`; the proofs cover any set), 2 lines, 2 contents, 1 fault, 2 attempts: a chunk can be split, resent in another split, overtaken by its own copy, and meet a replaced file |
| | feed | `ShellUpToCursor`, `NoEventSkipped`, `CacheHitIsWhole` | 2 chats, which are interchangeable, pages of 2 events and 1 chat, so that both kinds of pull need several; 2 revisions, 3 of metadata; a chat and an event that only the longer retention shows; a mishap (exclusion, deletion, new generation) under the shorter retention, or two changes of the retention without one; for both together there is the theorem |
| | files | `RecordsAreLines` | files of 5 bytes that change 6 times, read 4 bytes at a time, plans of 3 bytes and 2 records, tails of 2 bytes: reads and limits cut inside a line, and a replaced prefix is seen by its size, its id, its tail, or not at all |
| | paths | `PolicyAsWritten` | one rule with any of 62 patterns, or two that overlap; one path has a literal `*` |
| | transcript | `ShownAlike`, `OldLinesRepaired`, `NoMessageVanishes` | the record types of the parsers' tests, a text that is a notice; logs of 3 lines |
| | link | `NeverStranded`, `AlwaysReconnects` | 2 starts, 2 stops, 2 lost sockets, 1 failed attempt: a query can lose its answer, time out and be retried against another client |
| `Agents` | sync | `VisibleIsFile`, `EventuallyShown` for files that are appended to and rotated | 2 contents of 2 lines, 1 fault |
| | launcher | `OneRunner`, `ServedRuns` | 2 launchers, 3 builds of which one fails and one is its repair under the same version, 2 deployments, 1 run by hand, 1 mishap |
| | legacy | `PositionNeverAhead`, `FilesFollowed` | 2 files, a blank line and an over-long one, a file made anew, reads of 2 lines, 1 mishap |
| `AgentSyncRecreated` | | `EventuallyShown` fails after deletion and re-creation | 2 contents |
| `Registry` | | `StatusAgrees`, `OneReplacer`, `ShutdownObeyed` | 3 processes, 2 of which take over: two takeovers can lock, wait and deadlock while a third is the victim; 1 mishap |
| `TickSidebar` | | `SidebarCatchesUp` | rows of another process, which only the poll finds; 2 rows so that one commits during the debounce, the refresh or the pull of the other; a connection that is lost with its ticks, or an attempt that fails (`MaxMishaps`: one of them); no append to report and no chat to open, which `TickChat` has |
| `TickChat` | ticks | `RestsCaughtUp`, `ReconnectRepairs` | a row that the append path reports; a lost connection or a failed attempt |
| | window | `ChosenStaysOpen`, `WindowWhole`, `OpenChatFollows` | 2 chats, one read by pages and one whole, a window of 3, pages of 1, 1 turn of what the user, the writers and failures do |
| `LinkWatchdog` | | `WatchdogReconnects` fails | one start, no fault is needed: hello.ok is late |
| `Stores` | rows | `RowsReflectEvent` | 2 events and 2 writes in 5 kinds of content: rows appear, vanish, change kind, are hidden or refused; batches of one event, so that a run of the script has several transactions; 2 faults |
| | import | `Playable`, `EveryJobEnds` | 2 uploads of one content, 2 jobs, one of which runs at a time, 1 mishap (crash, retry, deletion, failing statement) |
| | outbox | `NothingLost`, `FinishedIsTried` | 2 panels, 1 recording of one chunk, 1 mishap |
| | drafts | `KeptUntilStored`, `ServerOnlyGrows`, `EditsReachServer` | one edit and one mishap in three scenes: two browsers of which one connects again; one with every mishap; one that opens the chat twice |
| `Chat` | window | `ShowsWhatIsOpen`, `TailShown` | 2 chats, one with more rows than a tail, a tail of 2, a page of 2, 2 moves, 1 write, 1 fault: each answer can arrive before, between and after the moves |
| | view | `ScreenCovered`, `StaysPut` | 5 rows of different heights, a group of two tools and a long message, a screen of 3, 2 gestures; opened with all rows but the ends, with the last rows of the group, or empty |
| | logs | `LogsArrive` | 2 tabs without mishaps, or one with 2 of them, 2 logs, queues of 1 |
| `ChatOlder` | | `FirstSeqIsOldest` fails | 4 rows, one page |
| `ChatParts` | | `TailShown` fails for events of two parts | 3 moves: open, leave, open again |
| `ViewGroups` | | `GroupsStayOpen` fails | 6 rows, a group of two tools, 2 gestures |

`Safety`, `Registry`, `Stores` and the chat runs allow the system to stop
(`CHECK_DEADLOCK FALSE`): all processes may have stopped or died, a log is full,
all requests may be done, a stopped store does nothing.  The others never stop
(agents, launchers, listener and pages poll).

What the properties leave out, each because the code does not keep it there:

* `VisibleIsFile` and `EventuallyShown`: a file that was both replaced and hit by a
  fault (`Disturbed`): a scan that dies after an upload was accepted has not saved
  the generation it used, so that lines of two contents can get one generation
  number.  `Agents` uses file systems that do not hand out a freed inode number at
  once: an empty file's cursor has no tail hash to tell contents apart.
* `RecordsAreLines`: a replaced file with the same id and tail (`fooled`).
* `ShellUpToCursor`, `NoEventSkipped`, `CacheHitIsWhole`: what is committed below a
  revision that a reader has seen (`behind`, `late`), and what was withheld or pruned:
  events (`gone`) and list entries (`lost`).  Among the latter are those of a retention
  that is set shorter and back before a pull sees it (`sync.ts:314`):
  `pruneCacheBefore` has deleted chats and events, and the cursors stay over the hole.
* `ShownAlike`: the text of a notice that comes as thinking (`ThoughtsRead`).
* `PositionNeverAhead`: lines whose insert failed (`refusedRows`), and those of a file
  made anew whose number an earlier content has taken (`Taken`): the server drops both.
* `OneRunner`: two launchers that take over one dead lock, and `update-once`, which
  removes the lock file of a live launcher when it is refused (`breached`).
* `RowsReflectEvent`: events that the backfill and an append wrote at once
  (`raced`), those whose hook failed (`failed`), and those whose new content has no
  rows.
* `ShowsWhatIsOpen`, `TailShown`: `crossed` and `slipped`.
* `StaysPut`: heights from IndexedDB, a position no render has seen, a click on a
  long message, older rows that continue a group of tools at its head.
* `ChosenStaysOpen`, `WindowWhole`: `reopened`, `patched`.
* `Playable`: contents whose upload crossed the unlink of their file (`crossed`).
* `NothingLost`: recordings that an upload takes up before their last chunk (`taken`);
  of one whose tab was closed while uploading (`dropped`) only that it stays cached.
  `FinishedIsTried`: these, and those whose end fell into another upload of the panel
  (`passed`).

## Fairness

Fairness is assumed only of what the program or its environment schedules by
itself; never of writers, users, faults, restarts or repairs.  In a composite each
fairness formula is conjoined with its part.

* `AgentSync`: weak fairness of the agent's and the server's steps (loops and
  handlers that run on), strong fairness of `GoodScan`: the agent polls for ever
  (`run.ts`, `while (true)`), and a hello that fails or a walk that is incomplete
  does not stay so; each is a fresh attempt per poll.
* `RuntimeRegistry`: weak fairness of `Hello` and of the server's statements;
  strong fairness of `Rest` (a scan has finitely many uploads) and of `Commit`
  (Postgres hands a row lock to a waiting transaction).
* `Launcher`: timers, answers and file operations come (`LauncherStep`), systemd
  restarts its service (`Launch("svc")`), an agent that does not work exits.
* `LegacyAgent`: the agent polls for ever, the server executes what it was sent.
* `RenderRows`: its property is one of safety; `FairSpec` states what the code
  schedules, but no run needs it.
* `TickPull`: timers fire, handlers finish, frames of an open link arrive, and
  the client reconnects for ever (all weak); open transactions end.
* `StoreLink`: set timers fire, sockets open or close, a reached server answers.
* `ChatWindow`: pulls, re-runs, cache reads and pages go on; ticks follow rows.
* `EventWindow`: timers fire, requests are answered or fail, the database answers.
* `Drafts`: the server works on what it has, and what a browser has begun goes on.
* `AudioImport`: jobs and resumption go on while the process lives.
  `AudioOutbox`: promises of a living page go on.
* `ClientLogs`: timers fire, transactions end, requests settle, the network returns.
* `ChatView` has no liveness property.

## Proofs

TLAPS checks these theorems for every value of the constants that the named
assumptions of the modules allow: any set of files, launchers, panels, chats or
clients, any bound, any number of faults.  The theorem modules hold nothing but
definitions of the invariants, lemmas and theorems.

| Theorem | States |
|---|---|
| `AgentSync_proofs!CursorSafety` | `[]CursorNeverAhead`: README.md:60, "the agent does not advance local state" before the server has committed |
| `AgentSync_proofs!Refinement` | `ImplementsAckedLog`: each step is a `Commit`, an `Advance` or a stutter of `AckedLog` |
| `AgentSync_proofs!NothingInvented` | every event the server has of a file is a line which that file has held, and of the content on disk only lines that are there; for all edits and faults |
| `AgentSync_proofs!ShownIsFile` | `[]VisibleIsFile` for files that are appended to and rotated, on file systems that give a new file a new inode number |
| `AgentSync_proofs!TypeCorrect` | `[]TypeOK` |
| `AgentSync_proofs!LinesOfFiles` | `[]RecordsAreLines` for files, reads, limits and tails of any size |
| `AgentSync_proofs!EvaluatesAsWritten` | `[]PolicyAsWritten` for any paths without `*`, any rules and home directory |
| `RuntimeRegistry_proofs!ShutdownStays` | `[]StatusAgrees` |
| `RuntimeRegistry_proofs!TakeoversApart` | `[]OneReplacer` |
| `Agents_proofs!RunsAlone` | `[]OneRunner` |
| `Agents_proofs!HoldsItsVersion` | a release directory holds a build of the version it is named for |
| `Agents_proofs!NothingSkipped` | `[]PositionNeverAhead`: word for word, but for the two kinds of lines that the server drops |
| `Stores_proofs!RowsReflect` | `[]RowsReflectEvent` |
| `Stores_proofs!ServerKeeps` | `ServerOnlyGrows`, an action property |
| `Stores_proofs!OutboxKeeps` | `[]KeptUntilStored` |
| `Audio_proofs!CachedIsUploaded` | `[]NothingLost` |
| `Audio_proofs!MarkedIsInHand` | a row marked "uploading" is in the hands of a loop, unless it was taken up before its end or its tab was closed |
| `Audio_proofs!BytesAreSomewhere` | `[]Playable` |
| `Audio_proofs!EndsAreFinal` | a job that has ended never changes again, an action property |
| `Browser_proofs!QueriesGoOn` | `[]NeverStranded` |
| `Browser_proofs!ClientsReconnect` | `[]AlwaysReconnects` |
| `Browser_proofs!ListUpToCursor` | `[]ShellUpToCursor`, for any chats, pages, writers and changes of the retention, with its exceptions |
| `Browser_proofs!NoneSkipped` | `[]NoEventSkipped` |
| `Browser_proofs!HitIsWhole` | `[]CacheHitIsWhole` |
| `Browser_proofs!EchoesAreShown` | `[]NoMessageVanishes`, for any lines and parsers |
| `Browser_proofs!ClientsShowAlike` | `[]ShownAlike`, for any notices, and any lines that satisfy its three hypotheses |
| `Browser_proofs!OldLinesShown` | `[]OldLinesRepaired`, for any lines that satisfy its two |
| `Browser_proofs!LogsAreKept` | no log is lost: each is with the server, dropped by a limit or with its page, in the store, or with a tab that has yet to put or send it |
| `Pages_proofs!TypeCorrect` | `[]TypeOK` of `TickPull` |
| `Pages_proofs!RestIsCaughtUp` | `[]RestsCaughtUp` |
| `Pages_proofs!NoHoles` | `[]WindowWhole` |
| `Pages_proofs!ChosenIsOpen` | `[]ChosenStaysOpen` |
| `ChatWindow_proofs!ScreenIsCovered` | `[]ScreenCovered`, for rows of any number, heights and groups |
| `ChatWindow_proofs!TopRowStays` | `StaysPut`, an action property |
| `ChatWindow_proofs!ShowsTheOpenChat` | `[]ShowsWhatIsOpen` |

From which assumptions: `AgentSyncAssumption`, `RegistryAssumption` and the like say
that bounds are numbers, sets are finite where a maximum or a count is taken of
them, that names which mark an absence are none of the things (`NoClient`), and that
a tail has at least one byte (`CoreAssumption`; the code takes `Math.max(1, tailBytes)`);
`PolicyAssumption` that the cases are paths with rules.
Some theorems need more, and say so: `ShownIsFile` and the last two on `Transcript` the
hypotheses in their statements, `LogsAreKept` that a batch of the browser is no longer
than what the server takes of one (`FLUSH_BATCH_SIZE` and `MAX_LOGS_PER_BATCH` are both
100), and the theorems on `SyncFeed` that pages have a number
of rows (`FeedAssumption`).

Why each invariant is what it is:

*AgentSync.*  `CursorNeverAhead` is not inductive: `SaveState` copies positions
out of the batches.  `IInv` adds `InFlightStored` (what a scan relies on as
uploaded is on the server: the prefix it skips and the part already sent),
`WaitingContinues` (the awaited chunk continues its batch where the server left
off, so that its acknowledgement extends what is stored without a gap) and
`PhasesApart` (a scan never reads and waits at once).  They rest on the lemma that
upserts keep every key (`UpsertKeeps`), which makes late copies and repeats
harmless.  The refinement uses the same invariant: only `HandleAppend` changes
`stored`, only `SaveState` and `LoseState` change positions.

`NothingInvented` follows lines the other way.  `Contents` says of everything that
carries lines (the read in progress, batches with something to send, requests under
way, events) that its content was written and, while it is the file's, has that many
lines (`Held`).  One lemma, `HeldKept`, is about the writers; the rest says where a
request, a read and a batch come from.  An empty batch claims nothing: its position
may lie behind the end of a file that was replaced between two of its reads.

`ShownIsFile` adds `Orderly`, which holds while nothing has failed: the generation a
read is given comes after the cursor's, or is the cursor's and so is the inode
(`Follows`); no event is of a generation beyond the cursor's, but for those of the
batch that is being uploaded (`EventsBelow`); and what comes from the inode now on
disk is of one content.  A rotation makes the last of these vacuous for everything
read before, which is why it is stated of the newest inode only.  With one fault the
ordering is lost (`Disturbed`), but a file that was never replaced has one content,
and `Contents` is enough.  Deletion, rewriting in place and reused inode numbers are
hypotheses because without them the property is false.

*SyncCore.*  `CoreInv`: the cursor kept is a place in what was scanned last, and its
tail is the tail there (`SyncCursorFits`); a chunk is what follows that place, and
what has been found in it are the lines from there to what is emitted (`PlanFits`);
no record reaches beyond the cursor (`RecordsWithin`), so that bytes after it may
change.  Three lemmas carry the steps: the bytes up to the first newline are a line
(`LineOfChunk`), lines that begin where others end continue them (`LinesJoined`), and
the tail put together of the tail before the chunk and of what was emitted is the
tail of the file at the new place (`TailOfMerged`), however the two lengths lie to
`tailBytes`.  That `decideSync` goes on with a cursor only where the prefix is the
one scanned is what `~fooled` says; the lemma `Scanned` shows that sizes, ids and
tails that do not differ leave no other case.

*Policy.*  The state says nothing here; the theorem is about what three recursive
functions compute.  For each of them the closed form that the specification has
(`Found`, `Behind`, `LastUpTo`) is shown to satisfy the function's own equation, so that
the equation has a solution, and any two solutions agree on a place if they agree on the
places with less left to try (`Ranked`, by minimisation, in place of an induction).
What is particular to `matchSegment` is that it remembers one star only.  `RunForced` is
why that is enough: whatever is covered behind the last star, from this retry or from a
later one, begins with the characters of the present run, so that what the next star
can reach from here covers all that an earlier one could still give.  It needs values
without `*`.

*RuntimeRegistry.*  `Unregistered` is the strengthening: a row that does not exist
carries no mark and no transaction believes it condemned, so that an insert that
meets no conflict writes a status that agrees with its shutdown mark.
`OneReplacer` follows from the lock that `Replace` waits for.

*Launcher, LegacyAgent.*  While no lock file of a live process was removed, whoever
is past the lock made the file that is there (`Makers`); so two that are past it are
one.  In the legacy agent the position that is about to be stored is covered by what
the post waited for brings, or has brought if it was answered (`PostCovers`).  Every
place below a position, remembered or saved, was passed by a line that was read there
(`ReadSoFar`, `LastRead`), and what was passed stays with the server, or is dropped for
one of the two reasons named (`PassedKept`): lines are compared with what the server
holds by content, as it keeps the first line it gets under a number.

*RenderRows.*  The property speaks of committed events; the invariant has to speak
of transactions under way as well.  Of each event that a transaction is done with,
or whose rows it is inserting, the rows that will be there if it commits are those
rendered from the version it wrote or read (`DoneGiven`, `HeadGiven`), unless the
other transaction wrote that event meanwhile (`met`).  A delete works on a snapshot
of row identities; that it hits only rows of its own event needs that no two events
ever share an identity, neither among visible rows nor among those of open
transactions (`IdsApart`, `SnapshotsApart`).

*Drafts.*  `LockHolds`: at most one merge is between its two statements, and what
it has read is what is stored.  `AnswersMerged`: an answered update is in the
stored document, which is why an outbox may drop it.

*AudioOutbox.*  Every recording is followed through four places at once: the
recorder that writes it, the ends and writes that are awaited, the row, and the
upload loop (`Tasks`, `RowStays`, `InHand`): what was cached is uploaded or still there
(`Cached`).  `HandInv` adds, for `MarkedIsInHand`, that a write which has read
"uploading" will store that again unless the loop is past its load
(`RereadsLoading`), which is where the exceptions `taken` and `dropped` come from.
`NothingLost` takes both: a row without a loop has no mark, and a later panel takes it up.

*AudioImport.*  A row without bytes has a file, and nobody is about to delete that
file (`KeysHold`), the row that is inserted next will find its file
(`InsertsHold`), and the backfill empties a row only when its file is there
(`FillFits`).  `JobsInv`: a job past its select has not ended.

*StoreLink.*  A conjunction over single records, `ClientFits` and `QueryFits`;
every operation keeps them, each action applies operations to one client or to the
query.  The two timers of a query exclude each other, which makes "some timer is
set" inductive.

*TickPull.*  `ScopeFits` says of one scope that at rest, with no re-run due, what it
has synced is what it knows; each operation on a scope keeps it.  `ServerFits` and
`LinkFits` say that rows held by queries and frames are rows of the table, for a
watermark is the maximum of a finite set of revisions and has to be one
(`HighestType`, by minimisation over a well-founded order).

*ChatWindow.*  What a late pull shows depends on the token it carries: no pull
carries a token of the future, one under the present token pulls the open chat
(`PullMatches`), the scope that `openChat` is about to replace has only pulls of
older tokens, and once it is replaced the scope is the open chat's (`OpeningFits`).
The exception `crossed` is needed exactly where the old scope begins a pull under
the new token.

*ChatView.*  `ViewInv`: unless a scroll event is due, the range is the one for the
position (`RangeOfTop`), so that what is rendered follows from the layout alone.
That needs the sums of the heights, which are a recursive function: `StackedRows`
shows that it has the values its equation says, `StackedInOrder` that no row begins
above an earlier one, `StackedPart` that a part of the rows is as high alone as among
the others, each by taking the first row for which it would fail (`LeastNumber`,
`ToTheLast`).  With them a binary search finds what it looks for (`BoundsFit`), and
rows that come before or after leave each row's distance from the first
(`GrownPlaces`).  The last one needs that the heights themselves stay, which is false
when older rows continue a group: the exception of `StaysPut`.

*SyncFeed.*  `FeedInv` is the whole argument in one formula: what is in the cache
and what an answer under way is about to add to it are the same to it, so that each
statement of a pull moves rows from one side to the other.  A step of the server
leaves it alone for one reason (`ServerMoves`): whatever becomes visible is above
every cursor, or is marked as an exception.  When each chat was last seen is part of
what the entry and the server must agree on, since pruning goes by the one and reading
by the other; an entry that ages is marked until the cursor is forgotten (`lost`).  A page of the feed that is cut at its
size loses nothing below its last revision (`FirstByClosed`, `LastByClosed`, `PageAhead`,
`PageBelow` and `DeltaPage`, by cardinality and minimisation).

*EventWindow.*  `PagesFit`: events on their way, cached and shown are of the chat
they are kept under, and a window without a hole stays one because every page that
is merged meets it or replaces it.

*Transcript.*  An echo repeats the entry of a response item, and that is no echo of
anything (`OneOfTwoStays`): two entries never leave each other out.  `LogFits` says that
every event is what one of the parsers made of its line; the rest is about one line.
`PartAlike`: over the older form a part becomes the row it becomes directly, or no row
on both ways, provided that a text has the same role on both.  It has (`RolesAlike`),
although the one reads the role only and the other the kind too, because no event of a
kind that overrides its role holds text (`ParseTextless`, reading by reading).  From the
parts to the lists of rows: `FlattenSeq` is characterised by its partial results
(`Joins`) in place of an induction over sequences, and `FlatFollows` says that
flattening goes along with mapping.  For what is hidden, the repair must hide it again:
the last reading keeps all fields but the type, which the source keeps (`RestoredIs`),
and each other reading that hides makes a kind that is not repaired (`HiddenStays`).

The hypotheses are about lines, and the run checks them of its own (`MCLinesAssumption`
of `MCSafety`): contents are lists (`PartsListed`); a line of Codex has a `type` and no
`kind` or `event` (`TypedByType`), which the last reading would drop; an item that is
hidden in its envelope is no message when it is read without (`ItemStaysHidden`, of the
readings "envelope" and "item" only); what comes with a payload and is displayed has a
repaired type (`PayloadRepaired`).  Where `ItemStaysHidden` fails the two clients
do differ; see the disagreements.

*ClientLogs.*  `NoneLost` is what `LogsArrive` rests on: as long as every log has a
keeper, fair flushes bring it to the server.  Logs leave the store only by `Deletes`, so
`FlushFits` says of a batch that is about to be deleted that each log of it has its row.
That needs two facts about two programs: a batch read from the store is `Small`, at most
`Batch` logs, and the server inserts the first `ServerBatch` of what it gets, which then
is all of it (`OldestAll`).  With `ServerBatch < Batch` the theorem is false: the rest
would be deleted unsent.  No run lists `NoneLost`; the `Chat` run checks `LogsArrive`.

Only model-checked:

* *Liveness* (fairness and ENABLED are out of the prover's reach): `EventuallyShown`,
  `ServedRuns`, `FilesFollowed`, `ShutdownObeyed`, `SidebarCatchesUp`,
  `ReconnectRepairs`, `OpenChatFollows`, `EveryJobEnds`, `FinishedIsTried`,
  `EditsReachServer`, `LogsArrive`, `TailShown`.

Every invariant and every action property that a passing run checks is stated by a
theorem.

## Disagreements found

Checked by a run of their own:

1. *A file that is created again stays hidden* (`AgentSyncRecreated`).  The agent
   drops a deleted file's cursor and restarts at generation 1; `upsertSourceFile`
   (`sync-engine.ts:1221`) lifts a tombstone only for a greater generation, against
   `README.md:57-58`.
2. *The hello watchdog closes the link for good* (`LinkWatchdog`).  `ws.stop()`
   sets `stopped`, and `ws.start()` does nothing for a stopped client
   (`ws-client.ts:186-189`), against `views-store-v4.ts:795-797`.
3. *`firstSeq` is the newest revision of a page* (`ChatOlder`), against
   `views-store-v4.ts:38` and `:998`; the page is prepended newest first.
4. *Events of several parts lose parts in the window* (`ChatParts`).  The cache is
   keyed by revision, which all parts of an event share; the fallback that
   `views-store-v4.ts:1303-1305` speaks of never replaces the tail.
5. *An open group of tools closes by itself* (`ViewGroups`), against
   `chat-view.tsx:613`: rendering keys a group by the first of the rendered rows,
   layout by the first of all.

Met while modelling, without a run of their own (the properties leave them out and
say so):

* Two processes that both take over, the launcher's default (`clo.ts:262`), can
  stop each other, since every hello repeats the takeover (`sync-engine.ts:658`).
* Two launchers that find the same dead lock can both take it (`clo.ts:230`); and
  `update-once` removes the lock file of a live launcher when it is refused
  (`clo.ts:89`, `:241`).
* The tick goes out before the views are refreshed (`notify-listener.ts:91`, while
  `:33-34` gives the debounce as the bound): a sidebar query may read the old
  views, take the newest watermark and not ask again.
* An SQL error in the ingest hook is caught (`sync-engine.ts:373-399`), but
  Postgres has aborted the transaction: the append answers 500 as often as it is
  sent.  A tool result cut inside a surrogate pair by `render.ts` is such a row.
* Backfill and append writing one event at once can leave a row of the older
  version (`ingest-hook.ts:66-70`); an event stored again with content that gives
  no row keeps its old rows (`ingest-hook.ts:48`).
* A frame that arrives while `openChat` reads IndexedDB makes the old scope pull
  under the new token, and the window shows the chat before
  (`views-store-v4.ts:894-921`, `crossed`).
* A row that commits between the two statements of `runRawQueryWithMaxRev`
  (`repo.ts:95`) is covered by the watermark and missing in the reply until the
  next change or hello (`slipped`).
* With two open transactions (`MaxOpen = 2`) a revision may commit after a later
  one was announced and is then not announced at all.
* A row found by the poll is announced under the file hint of an append that
  shares its debounce window, so that another open chat does not pull.
* `stop()` leaves a query that waits between two attempts alone; the late close
  event of an old client overwrites the status of a new link.
* A burst longer than the tail limit leaves a gap in the window that `loadOlder`
  does not close; a page loaded while offline sets `hasOlder` to false.
* An event that is sent again gets new revision numbers, so that cached copies of
  its rows stay behind in IndexedDB.
* Older rows that continue a group of tools at its head move its label up with
  them, while the anchor goes back to where the first of the old rows is now
  (`chat-view.tsx:232-236`): the rows on the screen move by the height of the label.
* Unfolding a long message captures an anchor that no layout restores
  (`chat-view.tsx:482`): older rows are not loaded by scrolling any more, and the
  next new row jumps the view back.
* A page of history that arrives late opens the chat it was asked for again
  (`App.tsx:541`, `:624`).
* A retention that is set shorter and set back before a pull sees it leaves the cursors
  of the legacy cache over a hole (`sync.ts:314`): not only events are pruned but the
  entries of chats with them (`db.ts:372-383`), so that a chat is missing from the
  list until it changes.
* The legacy ingest drops a row whose insertion conflicts, and the agent counts it
  as sent (`server.ts:3552-3553`).  So the lines of a truncated or replaced file are
  dropped as far as its earlier content had lines of these numbers.
* `render.ts:136` reads a subagent's notice that comes as thinking and shows its status,
  `transform.ts:63` shows it as it is.
* An audio file that is uploaded while its earlier copy is deleted can lose its
  blob to the unlink (`server.ts:2161`).
* A recording whose tab was closed while it uploaded stays "uploading" and is not
  taken up again (`audio-panel.tsx:482`): it stays in the cache, and no upload tries it.
* A response item of a type that no parser knows, with a role of its own (or a type that
  mentions a message), is hidden by the newer client; the repair of older events reads it
  again without its envelope (`v2-read-model.ts:1105-1117`), as a message, so that the
  older client shows it.
* `render.ts:12` says that echoes are inferred by `inferEcho`, which does not exist:
  the newer client shows both copies of a message that Codex writes twice.

* A `*` in the name of a file is compared with the pattern's characters before the
  pattern's `*` is taken for a wildcard (`sync-core/index.ts:337`): the pattern `*` does
  not match the name `*a`.

## What is not modelled

The views that only present (`sidebar.tsx`, `settings.tsx`, `virtual-chat.tsx`),
redaction, compression, search and statistics, the building of agent artifacts on
the server, OpenRouter's side of a transcription, devices and streams of a
recording.  Inside the modelled parts: byte limits of chunks, markdown and
truncation of texts, link metrics, one-shot queries, seeding and error backoff of
the listener, failing view refreshes, the sidebar's own tables in IndexedDB.  Steps taken
together, as their modules say: the stat of a file and its opening for the tail
(`StatFile`), the byte offset in an event's key (`UpsertEvents`), the read of a cached
page and its merging (`LoadOlder`), the outbox and the edit that is put there (`Drafts`:
an outbox that fails is left out), and a transaction of IndexedDB, which does not fail in
`AudioOutbox`.
Durations are left out throughout: a timer that is set fires some time later.
`PROJECT.json` says for each component what of it is left out.

## Plan

Done: the path of a line from file to screen in both clients, and what surrounds it;
safety proofs for every component.

To come:

1. An abstract "window is a suffix of the chat" that `ChatWindow` implements outside
   of its two races.

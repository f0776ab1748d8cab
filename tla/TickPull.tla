------------------------------ MODULE TickPull ------------------------------
(***************************************************************************)
(* How a new render row reaches a browser: the ingest transactions, the    *)
(* notify listener (apps/backend/sync-v3/notify-listener.ts), the web      *)
(* socket handlers (ws-server.ts, repo.ts) and the pull scopes of the      *)
(* client store (apps/frontend-v3/views-store-v4.ts).                      *)
(*                                                                         *)
(* The server never pushes rows.  It broadcasts ticks that carry the       *)
(* highest revision; each scope of the client compares it with the         *)
(* watermark of its last reply and pulls again until it has caught up.     *)
(*                                                                         *)
(* Abstractions.  A transaction writes one row; rows are never deleted;    *)
(* the row limits of the queries are not reached; one browser, one chat,   *)
(* opened once.  A refresh of the materialized views succeeds and shows   *)
(* the rows committed when it was asked for.  A row is its file and its    *)
(* sync_revision.  The model starts when the listener has read the         *)
(* revision of an empty table and the client has its cached rules.         *)
(***************************************************************************)
EXTENDS Integers, Sequences, FiniteSets

CONSTANTS
    Files,      \* source files (chats)
    Chat,       \* the chat the browser opens
    Appenders,  \* files written by POST /api/agent/v1/append
    Scopes,     \* the pull scopes followed, among "sidebar" and "chat"
    Externals,  \* files written by other processes: backfill scripts, manual SQL
    FilesLimit, \* most files a tick names (FILES_LIMIT = 64)
    MaxRows,    \* bound: rows written
    MaxOpen,    \* bound: concurrent write transactions
    MaxDrops,   \* bound: lost connections
    MaxFaults,  \* bound: query attempts that fail or time out
    MaxMishaps  \* bound: lost connections and failed attempts together

ASSUME TickPullAssumption ==
    /\ Chat \in Files /\ Appenders \subseteq Files /\ Externals \subseteq Files
    /\ Scopes \subseteq {"sidebar", "chat"}
    /\ FilesLimit \in Nat /\ MaxRows \in Nat /\ MaxOpen \in Nat
    /\ MaxDrops \in Nat /\ MaxFaults \in Nat /\ MaxMishaps \in Nat

VARIABLES
    nextRev,      \* sync_event_revision_seq
    writers,      \* open transactions: [rev, file, reports]
    table,        \* agent_render_items, committed: [rev, file]
    toReport,     \* files whose append has committed but is not yet reported
    pendingFiles, pendingMaxRev, armed, lastSeen,   \* the listener's own variables
    polled,       \* what the poll in progress read, or NoPoll
    mv,           \* rows the materialized views show
    refreshing,   \* mvRefreshInFlight
    snapshot,     \* the rows the refresh in progress will show
    refreshAgain, \* mvRefreshPending
    link,         \* "down" or "open"
    hello,        \* the server's hello handler: NoHello, Received or the revision it read
    serving,      \* queries the server executes
    down,         \* frames on their way to the browser
    scopes,       \* "sidebar" and "chat" -> the client's Scope and its query
    have,         \* scope -> rows its replies brought
    drops, faults

dbVars == <<nextRev, writers, table, toReport>>
listenerVars == <<pendingFiles, pendingMaxRev, armed, lastSeen, polled>>
mvVars == <<mv, refreshing, snapshot, refreshAgain>>
linkVars == <<link, hello, serving, down, drops>>
clientVars == <<scopes, have, faults>>
vars == <<dbVars, listenerVars, mvVars, linkVars, clientVars>>

NoPoll == -1
NoHello == -2
Received == -1
NoReply == [max |-> -1, rows |-> {}]
Most(a, b) == IF a >= b THEN a ELSE b

\* max(sync_revision), 0 for an empty table.
Highest(rows) ==
    CHOOSE m \in {0} \cup {r.rev : r \in rows} : \A r \in rows : r.rev <= m

\* A scope; started: chat is opened; awaiting: a query attempt has no answer yet;
\* landing: the answer whose rows are on their way into IndexedDB; rerun: a
\* setTimeout of a pull that has ended (several are as good as one).
IdleScope == [started |-> FALSE, known |-> 0, synced |-> 0, inFlight |-> FALSE,
              retry |-> FALSE, awaiting |-> FALSE, attempt |-> 0, landing |-> NoReply,
              rerun |-> FALSE]

Init ==
    /\ nextRev = 1 /\ writers = {} /\ table = {} /\ toReport = {}
    /\ pendingFiles = {} /\ pendingMaxRev = 0 /\ armed = FALSE /\ lastSeen = 0
    /\ polled = NoPoll
    /\ mv = {} /\ refreshing = FALSE /\ snapshot = {} /\ refreshAgain = FALSE
    /\ link = "down" /\ hello = NoHello /\ serving = {} /\ down = <<>>
    /\ scopes = [s \in Scopes |-> [IdleScope EXCEPT !.started = (s = "sidebar")]]
    /\ have = [s \in Scopes |-> {}]
    /\ drops = 0 /\ faults = 0

MoreMishaps == drops + faults < MaxMishaps

----------------------------------------------------------------------------
(* Writers *)

\* A transaction draws its revision when it inserts, not when it commits.
Insert(f, reports) ==
    /\ nextRev <= MaxRows /\ Cardinality(writers) < MaxOpen
    /\ writers' = writers \cup {[rev |-> nextRev, file |-> f, reports |-> reports]}
    /\ nextRev' = nextRev + 1
    /\ UNCHANGED <<table, toReport, listenerVars, mvVars, linkVars, clientVars>>

CommitWrite(w) ==
    /\ writers' = writers \ {w}
    /\ table' = table \cup {[rev |-> w.rev, file |-> w.file]}
    /\ toReport' = IF w.reports THEN toReport \cup {w.file} ELSE toReport
    /\ UNCHANGED <<nextRev, listenerVars, mvVars, linkVars, clientVars>>

RollBack(w) ==
    /\ writers' = writers \ {w}
    /\ UNCHANGED <<nextRev, table, toReport, listenerVars, mvVars, linkVars, clientVars>>

\* The append route reports the file once handleAgentAppend has returned; its
\* two calls pass revision 0.
Report(f) ==
    /\ f \in toReport
    /\ toReport' = toReport \ {f}
    /\ pendingFiles' = pendingFiles \cup {f}
    /\ armed' = TRUE
    /\ UNCHANGED <<nextRev, writers, table, pendingMaxRev, lastSeen, polled, mvVars, linkVars,
                   clientVars>>

----------------------------------------------------------------------------
(* The listener *)

PollReads ==
    /\ polled = NoPoll
    /\ polled' = Highest(table)
    /\ UNCHANGED <<dbVars, pendingFiles, pendingMaxRev, armed, lastSeen, mvVars, linkVars,
                   clientVars>>

Moved(m) == m > lastSeen

PollCompares ==
    /\ polled # NoPoll
    /\ polled' = NoPoll
    /\ pendingMaxRev' = IF Moved(polled) THEN Most(pendingMaxRev, polled) ELSE pendingMaxRev
    /\ armed' = (armed \/ Moved(polled))
    /\ UNCHANGED <<dbVars, pendingFiles, lastSeen, mvVars, linkVars, clientVars>>

\* The files a tick names; the empty set stands for a tick without the field.
Hint(files) == IF Cardinality(files) > FilesLimit THEN {} ELSE files

StartRefresh == refreshing' = TRUE /\ snapshot' = table
\* scheduleMvRefresh: one refresh at a time, and one more if asked meanwhile.
ScheduleRefresh ==
    \/ ~refreshing /\ StartRefresh /\ UNCHANGED refreshAgain
    \/ refreshing /\ refreshAgain' = TRUE /\ UNCHANGED <<refreshing, snapshot>>

Flush ==
    /\ armed
    /\ armed' = FALSE
    /\ IF pendingMaxRev = 0 /\ pendingFiles = {}
       THEN UNCHANGED <<pendingFiles, pendingMaxRev, lastSeen, mvVars, down>>
       ELSE /\ pendingFiles' = {} /\ pendingMaxRev' = 0
            /\ lastSeen' = Most(lastSeen, pendingMaxRev)
            /\ down' = IF link = "open"
                       THEN Append(down, [op |-> "tick", max |-> pendingMaxRev,
                                          files |-> Hint(pendingFiles)])
                       ELSE down
            /\ ScheduleRefresh /\ UNCHANGED mv
    /\ UNCHANGED <<dbVars, polled, link, hello, serving, drops, clientVars>>

RefreshEnds ==
    /\ refreshing
    /\ mv' = snapshot
    /\ refreshing' = refreshAgain
    /\ snapshot' = IF refreshAgain THEN table ELSE {}
    /\ refreshAgain' = FALSE
    /\ UNCHANGED <<dbVars, listenerVars, linkVars, clientVars>>

----------------------------------------------------------------------------
(* The socket *)

\* The server adds the socket and gets the hello that the client sends first.
Connect ==
    /\ link = "down"
    /\ link' = "open" /\ hello' = Received
    /\ UNCHANGED <<dbVars, listenerVars, mvVars, serving, down, drops, clientVars>>

\* Frames and answers under way are lost with the connection.
Drop ==
    /\ link = "open" /\ drops < MaxDrops /\ MoreMishaps
    /\ drops' = drops + 1
    /\ link' = "down" /\ hello' = NoHello /\ serving' = {} /\ down' = <<>>
    /\ UNCHANGED <<dbVars, listenerVars, mvVars, clientVars>>

\* The hello handler reads the revision, 0 when the read fails, and then answers.
ReadHello ==
    /\ hello = Received
    /\ hello' \in {0, Highest(table)}
    /\ UNCHANGED <<dbVars, listenerVars, mvVars, link, serving, down, drops, clientVars>>
AnswerHello ==
    /\ hello >= 0
    /\ hello' = NoHello
    /\ down' = Append(down, [op |-> "hello.ok", max |-> hello])
    /\ UNCHANGED <<dbVars, listenerVars, mvVars, link, serving, drops, clientVars>>

\* runRawQueryWithMaxRev, first statement: the rows of the chat, or the sidebar's
\* materialized views.
QueryRows(q) ==
    /\ q.stage = "rows"
    /\ serving' = (serving \ {q}) \cup {[q EXCEPT !.stage = "max",
         !.rows = IF q.scope = "chat" THEN {r \in table : r.file = Chat} ELSE mv]}
    /\ UNCHANGED <<dbVars, listenerVars, mvVars, link, hello, down, drops, clientVars>>

\* Second statement of the same READ COMMITTED transaction: the watermark.
QueryMax(q) ==
    /\ q.stage = "max"
    /\ serving' = (serving \ {q}) \cup {[q EXCEPT !.stage = "answer", !.max = Highest(table)]}
    /\ UNCHANGED <<dbVars, listenerVars, mvVars, link, hello, down, drops, clientVars>>

\* The transaction has committed and the handler goes on after its await.
QueryAnswer(q) ==
    /\ q.stage = "answer"
    /\ serving' = serving \ {q}
    /\ down' = Append(down, [op |-> "query.ok", scope |-> q.scope, attempt |-> q.attempt,
                             reply |-> [max |-> q.max, rows |-> q.rows]])
    /\ UNCHANGED <<dbVars, listenerVars, mvVars, link, hello, drops, clientVars>>

QueryFails(q) ==
    /\ faults < MaxFaults /\ MoreMishaps
    /\ faults' = faults + 1
    /\ serving' = serving \ {q}
    /\ down' = Append(down, [op |-> "query.err", scope |-> q.scope, attempt |-> q.attempt])
    /\ UNCHANGED <<dbVars, listenerVars, mvVars, link, hello, drops, scopes, have>>

----------------------------------------------------------------------------
(* The client's scopes *)

\* sendQueryAttempt: without an open socket the attempt waits for its retry timer.
Send(sc) == [sc EXCEPT !.awaiting = (link = "open")]

\* run(): a pull in flight is followed by another one.  A timer that is set stays set.
Run(sc) ==
    IF sc.inFlight
    THEN [sc EXCEPT !.retry = TRUE]
    ELSE Send([sc EXCEPT !.inFlight = TRUE, !.retry = FALSE])

Know(sc, max) == [sc EXCEPT !.known = Most(@, max)]

\* The altered form: hello.ok pulls only if it brings a newer revision.
HelloMaybe(sc, max) ==
    IF ~sc.started THEN sc
    ELSE IF Know(sc, max).synced < Know(sc, max).known THEN Run(Know(sc, max)) ELSE Know(sc, max)
\* hello.ok pulls in any case: ticks may have been missed.
HelloOk(sc, max) == IF sc.started THEN Run(Know(sc, max)) ELSE sc

\* The altered form: a tick that finds a pull in flight is left to that pull.
TickIgnored(sc, max) ==
    LET k == Know(sc, max)
    IN  IF ~k.inFlight /\ k.synced < k.known THEN Run(k) ELSE IF k.inFlight THEN sc ELSE k
\* tick: remember the revision; pull again, now or after the pull in flight.
Tick(sc, max) ==
    LET k == Know(sc, max)
    IN  IF k.inFlight THEN [k EXCEPT !.retry = TRUE]
        ELSE IF k.synced < k.known THEN Run(k) ELSE k

Interested(s, files) ==
    scopes[s].started /\ (s = "sidebar" \/ files = {} \/ Chat \in files)

\* Every scope that starts to await an answer has sent its query.
Sends(new) ==
    /\ scopes' = new
    /\ serving' = serving \cup
         {[scope |-> s, attempt |-> new[s].attempt, stage |-> "rows", rows |-> {},
          max |-> 0] :
             s \in {t \in Scopes : new[t].awaiting /\ ~scopes[t].awaiting}}

Awaited(f) == scopes[f.scope].awaiting /\ scopes[f.scope].attempt = f.attempt

\* The sidebar takes the watermark before its rows are in IndexedDB, the chat after.
Answered(s, sc, reply) ==
    LET up == IF s = "sidebar" THEN Most(sc.synced, reply.max) ELSE sc.synced
    IN  [sc EXCEPT !.awaiting = FALSE, !.landing = reply, !.synced = up]

\* onFrame.  A late answer of an abandoned attempt is ignored.
Receive ==
    /\ down # <<>>
    /\ down' = Tail(down)
    /\ LET f == Head(down)
       IN  \/ /\ f.op = "hello.ok"
              /\ Sends([s \in Scopes |-> HelloOk(scopes[s], f.max)])
           \/ /\ f.op = "tick"
              /\ Sends([s \in Scopes |-> IF Interested(s, f.files)
                                         THEN Tick(scopes[s], f.max) ELSE scopes[s]])
           \/ /\ f.op = "query.ok" /\ Awaited(f)
              /\ scopes' = [scopes EXCEPT ![f.scope] = Answered(f.scope, @, f.reply)]
              /\ UNCHANGED serving
           \/ /\ f.op = "query.err" /\ Awaited(f)
              /\ scopes' = [scopes EXCEPT ![f.scope].awaiting = FALSE]
              /\ UNCHANGED serving
           \/ /\ f.op \in {"query.ok", "query.err"} /\ ~Awaited(f)
              /\ UNCHANGED <<scopes, serving>>
    /\ UNCHANGED <<dbVars, listenerVars, mvVars, link, hello, drops, have, faults>>

\* The altered form: only a tick noted during the pull starts another one.
OnlyIfNoted(sc) == sc.retry
Behind(sc) == sc.retry \/ sc.synced < sc.known

\* The rows are stored and shown, and the pull ends (the finally block of run).
Stored(sc) == [sc EXCEPT !.synced = Most(@, sc.landing.max), !.landing = NoReply,
                         !.inFlight = FALSE]
Ended(sc) == [sc EXCEPT !.retry = FALSE, !.rerun = @ \/ Behind(sc)]
Land(s) ==
    /\ scopes[s].landing # NoReply
    /\ have' = [have EXCEPT ![s] = @ \cup scopes[s].landing.rows]
    /\ scopes' = [scopes EXCEPT ![s] = Ended(Stored(@))]
    /\ UNCHANGED <<dbVars, listenerVars, mvVars, linkVars, faults>>

Rerun(s) ==
    /\ scopes[s].rerun
    /\ Sends([scopes EXCEPT ![s] = Run([@ EXCEPT !.rerun = FALSE])])
    /\ UNCHANGED <<dbVars, listenerVars, mvVars, link, hello, down, drops, have, faults>>

\* The retry timer of a persistent query.
Resend(s) ==
    /\ scopes[s].inFlight /\ ~scopes[s].awaiting /\ scopes[s].landing = NoReply /\ link = "open"
    /\ Sends([scopes EXCEPT ![s] = Send(@)])
    /\ UNCHANGED <<dbVars, listenerVars, mvVars, link, hello, down, drops, have, faults>>

\* The attempt timer.  Its answer went with the connection, or is late.
Coming(s) ==
    \/ \E q \in serving : q.scope = s /\ q.attempt = scopes[s].attempt
    \/ \E i \in DOMAIN down :
         /\ down[i].op \in {"query.ok", "query.err"}
         /\ down[i].scope = s /\ down[i].attempt = scopes[s].attempt
AttemptTimesOut(s) ==
    /\ scopes[s].awaiting
    /\ \/ ~Coming(s) /\ UNCHANGED faults
          /\ scopes' = [scopes EXCEPT ![s].awaiting = FALSE]
       \/ Coming(s) /\ faults < MaxFaults /\ MoreMishaps /\ faults' = faults + 1
          /\ scopes' = [scopes EXCEPT ![s].awaiting = FALSE, ![s].attempt = @ + 1]
    /\ UNCHANGED <<dbVars, listenerVars, mvVars, linkVars, have>>

\* openChat after its IndexedDB read: a new scope that is behind by construction.
OpenChat ==
    /\ "chat" \in Scopes /\ ~scopes["chat"].started
    /\ LET heard == IF "sidebar" \in Scopes THEN scopes["sidebar"].known ELSE 0
       IN  Sends([scopes EXCEPT !["chat"] =
             Run([IdleScope EXCEPT !.started = TRUE, !.known = Most(heard, 1)])])
    /\ UNCHANGED <<dbVars, listenerVars, mvVars, link, hello, down, drops, have, faults>>

----------------------------------------------------------------------------
WriterStep ==
    \/ \E f \in Appenders : Insert(f, TRUE)
    \/ \E f \in Externals : Insert(f, FALSE)
    \/ \E w \in writers : CommitWrite(w) \/ RollBack(w)

ServerStep ==
    \/ \E f \in Files : Report(f)
    \/ PollReads \/ PollCompares \/ Flush \/ RefreshEnds \/ ReadHello \/ AnswerHello
    \/ \E q \in serving : QueryRows(q) \/ QueryMax(q) \/ QueryAnswer(q) \/ QueryFails(q)

ClientStep ==
    \/ Connect \/ Receive \/ OpenChat
    \/ \E s \in Scopes : Land(s) \/ Rerun(s) \/ Resend(s) \/ AttemptTimesOut(s)

Next == WriterStep \/ ServerStep \/ ClientStep \/ Drop

Spec == Init /\ [][Next]_vars

\* Transactions end, timers fire, handlers finish and frames arrive; the client
\* reconnects for ever.  Nothing is assumed of new writes, drops and failures.
Fairness ==
    /\ \A rev \in 1..MaxRows : WF_vars(\E w \in writers : w.rev = rev /\ (CommitWrite(w) \/ RollBack(w)))
    /\ WF_vars(\E f \in Files : Report(f))
    /\ WF_vars(PollReads) /\ WF_vars(PollCompares) /\ WF_vars(Flush) /\ WF_vars(RefreshEnds)
    /\ WF_vars(Connect) /\ WF_vars(ReadHello \/ AnswerHello) /\ WF_vars(Receive)
    /\ \A s \in Scopes :
         /\ WF_vars(\E q \in serving : q.scope = s /\ (QueryRows(q) \/ QueryMax(q) \/ QueryAnswer(q)))
         /\ WF_vars(Land(s)) /\ WF_vars(Rerun(s)) /\ WF_vars(Resend(s))
         /\ WF_vars(AttemptTimesOut(s))

FairSpec == Spec /\ Fairness
----------------------------------------------------------------------------
(* Properties *)

Revs == 0..MaxRows
Rows == [rev : 1..MaxRows, file : Files]
Replies == [max : Revs \cup {-1}, rows : SUBSET Rows]
Queries == [scope : Scopes, attempt : Nat, stage : {"rows", "max", "answer"},
            rows : SUBSET Rows, max : Revs]
Frames == [op : {"tick"}, max : Revs, files : SUBSET Files]
          \cup [op : {"hello.ok"}, max : Revs]
          \cup [op : {"query.ok"}, scope : Scopes, attempt : Nat, reply : Replies]
          \cup [op : {"query.err"}, scope : Scopes, attempt : Nat]
ScopeStates == [started : BOOLEAN, known : Revs \cup {1}, synced : Revs, inFlight : BOOLEAN,
                retry : BOOLEAN, awaiting : BOOLEAN, attempt : Nat, landing : Replies,
                rerun : BOOLEAN]

\* Every variable keeps the shape the code gives it, and a scope that awaits or
\* stores an answer is in a pull (one query of a scope at a time).
TypeOK ==
    /\ nextRev \in 1..(MaxRows + 1)
    /\ writers \subseteq [rev : 1..MaxRows, file : Files, reports : BOOLEAN]
    /\ table \subseteq Rows /\ mv \subseteq table
    /\ toReport \subseteq Files /\ pendingFiles \subseteq Files
    /\ pendingMaxRev \in Revs /\ lastSeen \in Revs /\ polled \in Revs \cup {NoPoll}
    /\ armed \in BOOLEAN /\ refreshing \in BOOLEAN /\ refreshAgain \in BOOLEAN
    /\ snapshot \subseteq table
    /\ link \in {"down", "open"} /\ hello \in Revs \cup {NoHello, Received}
    /\ serving \subseteq Queries /\ down \in Seq(Frames)
    /\ scopes \in [Scopes -> ScopeStates] /\ have \in [Scopes -> SUBSET table]
    /\ drops \in 0..MaxDrops /\ faults \in 0..MaxFaults
    /\ \A s \in Scopes :
         LET sc == scopes[s]
         IN  /\ sc.awaiting => sc.inFlight /\ sc.landing = NoReply
             /\ sc.landing # NoReply => sc.inFlight
             /\ sc.inFlight => sc.started

\* A scope at rest is not behind a revision it has been told of: no order of
\* ticks, hellos, answers, failures and timeouts loses the need to pull
\* (pendingRetry, maybeKick and the finally blocks, views-store-v4.ts:195-199,
\* 373-382, 654-663, 683-708).
RestsCaughtUp ==
    \A s \in Scopes :
        LET sc == scopes[s] IN sc.started /\ ~sc.inFlight /\ ~sc.rerun => sc.synced >= sc.known

\* When the writers have stopped, the sidebar comes to hold the watermark of the
\* last revision, whatever the debounce, lost connections, failed queries and late
\* answers did before (notify-listener.ts and the sidebar scope together).
SidebarCatchesUp == <>[](scopes["sidebar"].synced >= Highest(table))

\* A hello.ok that comes after the last write brings the open chat all its rows,
\* the ones that ticks, hints and watermarks have missed included (onFrame,
\* hello.ok: the pull is unconditional).
ReconnectRepairs ==
    writers = {} /\ nextRev > MaxRows /\ hello = Received /\ scopes["chat"].started
    ~> {r \in table : r.file = Chat} \subseteq have["chat"]

=============================================================================

----------------------------- MODULE StoreLink -----------------------------
(***************************************************************************)
(* The client store's link: the web socket client                          *)
(* (apps/frontend-v3/ws-client.ts), and of views-store-v4.ts start, stop,  *)
(* the hello watchdog and the retries of one persistent query.             *)
(*                                                                         *)
(* TickPull takes from here that an unsettled query is sent again and that *)
(* a lost link comes back.                                                 *)
(*                                                                         *)
(* Abstractions.  Timers have no durations: a set timer fires some time    *)
(* later.  Every start() makes a ws client of its own.  A query is asked   *)
(* once, when hello.ok starts the boot pull.                               *)
(***************************************************************************)
EXTENDS Integers, FiniteSets

CONSTANTS
    Clients,   \* ws clients that calls of start() make
    MaxDrops,  \* bound: sockets that fail or close
    MaxStops,  \* bound: calls of stop()
    MaxLinkFaults  \* bound: attempts answered with query.err or not in time

ASSUME StoreLinkAssumption ==
    /\ MaxDrops \in Nat /\ MaxStops \in Nat /\ MaxLinkFaults \in Nat

NoClient == "none"
ASSUME NoClientAssumption == NoClient \notin Clients

VARIABLES
    starting,  \* clients of start() calls that still wait for IndexedDB
    wsClient,  \* client -> its ws client, a record like NewClient
    ws,        \* the store's ws variable
    status,    \* state.status.kind
    helloOk,   \* hello.ok has arrived since the status was last not open
    watchdogs, \* client -> number of its openings whose watchdog has not fired
    query,     \* the boot query, a record like NoQuery
    drops, stops, linkFaults

wsVars == <<starting, wsClient, ws, status, helloOk, watchdogs>>
linkVars == <<wsVars, query, drops, stops, linkFaults>>

\* backoff: the reconnect timer is set; asksHello: hello is sent and not answered.
NewClient == [made |-> FALSE, stopped |-> FALSE, socket |-> "none", backoff |-> FALSE,
              asksHello |-> FALSE]
\* pending: pendingQueries maps the attempt's reqId to the query; sentOn, queuedOn: the
\* client whose open socket carries the attempt, or whose queue holds it.
NoQuery == [asked |-> FALSE, pending |-> FALSE, attemptTimer |-> FALSE, retryTimer |-> FALSE,
            settled |-> FALSE, sentOn |-> NoClient, queuedOn |-> NoClient]

LinkInit ==
    /\ starting = {} /\ wsClient = [c \in Clients |-> NewClient]
    /\ ws = NoClient /\ status = "idle" /\ helloOk = FALSE
    /\ watchdogs = [c \in Clients |-> 0]
    /\ query = NoQuery
    /\ drops = 0 /\ stops = 0 /\ linkFaults = 0

----------------------------------------------------------------------------
(* The ws client *)

\* setStatus and the store's onStatus: any client of the store sets its status.
SetStatus(s) ==
    /\ status' = s
    /\ helloOk' = (helloOk /\ s = "open")

Connecting(k) == [k EXCEPT !.socket = "opening", !.backoff = FALSE]

\* The open event: hello goes out, then the frames queued while there was no link.
SocketOpens(c) ==
    /\ wsClient[c].socket = "opening" /\ ~wsClient[c].stopped
    /\ wsClient' = [wsClient EXCEPT ![c].socket = "open", ![c].asksHello = TRUE]
    /\ SetStatus("open")
    /\ watchdogs' = [watchdogs EXCEPT ![c] = @ + 1]
    /\ query' = IF query.queuedOn = c
                THEN [query EXCEPT !.queuedOn = NoClient, !.sentOn = c] ELSE query
    /\ UNCHANGED <<starting, ws, drops, stops, linkFaults>>

\* The altered form: a reconnect that fails is the last one.
OnlyAfterOpen(k) == [k EXCEPT !.backoff = (k.socket = "open"), !.socket = "none"]
ScheduleReconnect(k) == [k EXCEPT !.backoff = TRUE, !.socket = "none"]

Lost(q, c) == IF q.sentOn = c THEN [q EXCEPT !.sentOn = NoClient] ELSE q

\* The close event: of a socket that failed or was lost, or of one that stop() closed.
SocketCloses(c) ==
    /\ wsClient[c].socket # "none" /\ ~wsClient[c].stopped /\ drops < MaxDrops
    /\ drops' = drops + 1
    /\ wsClient' = [wsClient EXCEPT ![c] = ScheduleReconnect([@ EXCEPT !.asksHello = FALSE])]
    /\ SetStatus("reconnecting")
    /\ query' = Lost(query, c)
    /\ UNCHANGED <<starting, ws, watchdogs, stops, linkFaults>>

StoppedCloses(c) ==
    /\ wsClient[c].socket # "none" /\ wsClient[c].stopped
    /\ wsClient' = [wsClient EXCEPT ![c].socket = "none"]
    /\ SetStatus("closed")
    /\ query' = Lost(query, c)
    /\ UNCHANGED <<starting, ws, watchdogs, drops, stops, linkFaults>>

BackoffFires(c) ==
    /\ wsClient[c].backoff
    /\ wsClient' = [wsClient EXCEPT ![c] = Connecting(@)]
    /\ SetStatus("connecting")
    /\ UNCHANGED <<starting, ws, watchdogs, query, drops, stops, linkFaults>>

\* ws.stop(): for good, since start() looks at `stopped`.  A closing socket delivers
\* nothing more.
Stopped(k) == [k EXCEPT !.stopped = TRUE, !.backoff = FALSE, !.asksHello = FALSE]

----------------------------------------------------------------------------
(* The boot query *)

Sent(q) ==
    IF wsClient[ws].socket = "open" THEN [q EXCEPT !.sentOn = ws] ELSE [q EXCEPT !.queuedOn = ws]

LinkIsOpen == ws # NoClient /\ status = "open"

\* The altered form: without an open link the query waits to be kicked.
LeftWaiting(q) ==
    IF LinkIsOpen THEN Sent([q EXCEPT !.pending = TRUE, !.attemptTimer = TRUE]) ELSE q
\* sendQueryAttempt: without an open link the attempt waits for its retry timer.
SendAttempt(q) ==
    IF LinkIsOpen THEN Sent([q EXCEPT !.pending = TRUE, !.attemptTimer = TRUE])
    ELSE [q EXCEPT !.retryTimer = TRUE]

\* The reqId is forgotten, and with it the attempt's answer.
NoAttempt(q) == [q EXCEPT !.pending = FALSE, !.attemptTimer = FALSE,
                          !.sentOn = NoClient, !.queuedOn = NoClient]
Retried(q) == [NoAttempt(q) EXCEPT !.retryTimer = TRUE]
Settled(q) == [NoAttempt(q) EXCEPT !.retryTimer = FALSE, !.settled = TRUE]

\* hello.ok starts the boot pull.
HelloArrives(c) ==
    /\ wsClient[c].asksHello
    /\ wsClient' = [wsClient EXCEPT ![c].asksHello = FALSE]
    /\ helloOk' = TRUE
    /\ query' = IF query.asked THEN query ELSE SendAttempt([query EXCEPT !.asked = TRUE])
    /\ UNCHANGED <<starting, ws, status, watchdogs, drops, stops, linkFaults>>

Answerable == query.sentOn # NoClient /\ ~wsClient[query.sentOn].stopped

QueryOk ==
    /\ query.pending /\ Answerable
    /\ query' = Settled(query)
    /\ UNCHANGED <<wsVars, drops, stops, linkFaults>>

\* The server answers query.err, or not in time.
AttemptFails ==
    /\ query.attemptTimer /\ Answerable /\ linkFaults < MaxLinkFaults
    /\ linkFaults' = linkFaults + 1
    /\ query' = Retried(query)
    /\ UNCHANGED <<wsVars, drops, stops>>

\* No answer can come: the frame or its answer was lost with the link, or is queued.
AttemptTimesOut ==
    /\ query.attemptTimer /\ ~Answerable
    /\ query' = Retried(query)
    /\ UNCHANGED <<wsVars, drops, stops, linkFaults>>

RetryFires ==
    /\ query.retryTimer
    /\ query' = SendAttempt([query EXCEPT !.retryTimer = FALSE])
    /\ UNCHANGED <<wsVars, drops, stops, linkFaults>>

----------------------------------------------------------------------------
(* The store *)

\* start() first reads the cached sidebar.
Start(c) ==
    /\ ~wsClient[c].made /\ c \notin starting
    /\ starting' = starting \cup {c}
    /\ UNCHANGED <<wsClient, ws, status, helloOk, watchdogs, query, drops, stops, linkFaults>>

\* It goes on after the await whatever happened meanwhile.
StartGoesOn(c) ==
    /\ c \in starting
    /\ starting' = starting \ {c}
    /\ ws' = c
    /\ wsClient' = [wsClient EXCEPT ![c] = Connecting([NewClient EXCEPT !.made = TRUE])]
    /\ SetStatus("connecting")
    /\ UNCHANGED <<watchdogs, query, drops, stops, linkFaults>>

\* The queries that pendingQueries holds are rejected.
Rejected(q) == IF q.pending THEN Settled(q) ELSE q

Stop ==
    /\ stops < MaxStops /\ starting \cup {c \in Clients : wsClient[c].made} # {}
    /\ stops' = stops + 1
    /\ IF ws = NoClient THEN UNCHANGED <<wsClient, status, helloOk>>
       ELSE wsClient' = [wsClient EXCEPT ![ws] = Stopped(@)] /\ SetStatus("closed")
    /\ ws' = NoClient
    /\ query' = Rejected(query)
    /\ UNCHANGED <<starting, watchdogs, drops, linkFaults>>

\* The watchdog of c's opening fires after 5 seconds and looks at the store as it is
\* then: it stops the client and starts it again.  start() does nothing for a stopped
\* client.
WatchdogFires(c) ==
    /\ watchdogs[c] > 0
    /\ watchdogs' = [watchdogs EXCEPT ![c] = @ - 1]
    /\ IF ~helloOk /\ LinkIsOpen
       THEN wsClient' = [wsClient EXCEPT ![ws] = Stopped(@)] /\ SetStatus("closed")
       ELSE UNCHANGED <<wsClient, status, helloOk>>
    /\ UNCHANGED <<starting, ws, query, drops, stops, linkFaults>>

----------------------------------------------------------------------------
LinkNext ==
    \/ \E c \in Clients :
         \/ Start(c) \/ StartGoesOn(c) \/ SocketOpens(c) \/ SocketCloses(c) \/ StoppedCloses(c)
         \/ BackoffFires(c) \/ HelloArrives(c) \/ WatchdogFires(c)
    \/ QueryOk \/ AttemptFails \/ AttemptTimesOut \/ RetryFires \/ Stop

LinkSpec == LinkInit /\ [][LinkNext]_linkVars

\* Sockets open or fail, timers fire, and a server that is reached answers.
\* Nothing is assumed of start, stop, lost sockets and failed attempts.
LinkFairness ==
    /\ \A c \in Clients :
         /\ WF_linkVars(StartGoesOn(c)) /\ WF_linkVars(SocketOpens(c)) /\ WF_linkVars(BackoffFires(c))
         /\ WF_linkVars(WatchdogFires(c)) /\ WF_linkVars(HelloArrives(c))
         /\ WF_linkVars(StoppedCloses(c))
    /\ WF_linkVars(QueryOk) /\ WF_linkVars(AttemptTimesOut) /\ WF_linkVars(RetryFires)

LinkFairSpec == LinkSpec /\ LinkFairness

----------------------------------------------------------------------------
(* Properties *)

\* Types, and which flags go together: a client that waits to reconnect has no socket,
\* a query's timers are not both set, and a settled one has none.
LinkTypeOK ==
    /\ starting \subseteq Clients
    /\ wsClient \in [Clients ->
         [made : BOOLEAN, stopped : BOOLEAN, socket : {"none", "opening", "open"},
          backoff : BOOLEAN, asksHello : BOOLEAN]]
    /\ ws \in Clients \cup {NoClient}
    /\ status \in {"idle", "connecting", "open", "reconnecting", "closed"}
    /\ helloOk \in BOOLEAN /\ watchdogs \in [Clients -> Nat]
    /\ query \in [asked : BOOLEAN, pending : BOOLEAN, attemptTimer : BOOLEAN,
                  retryTimer : BOOLEAN, settled : BOOLEAN,
                  sentOn : Clients \cup {NoClient}, queuedOn : Clients \cup {NoClient}]
    /\ drops \in 0..MaxDrops /\ stops \in 0..MaxStops /\ linkFaults \in 0..MaxLinkFaults
    /\ \A c \in Clients : wsClient[c].backoff => wsClient[c].socket = "none"
    /\ query.pending = query.attemptTimer
    /\ query.retryTimer => ~query.attemptTimer
    /\ query.settled \/ query.retryTimer \/ query.attemptTimer => query.asked
    /\ query.settled => ~query.retryTimer /\ ~query.attemptTimer

\* The boot query is settled or has a timer that will act on it: no order of lost
\* links, errors, timeouts, starts and stops leaves a scope in flight for good.
NeverStranded ==
    query.asked /\ ~query.settled => query.attemptTimer \/ query.retryTimer

\* A client that nobody stopped has a socket, or a timer that will make one: no failed
\* attempt to connect is the last one.
AlwaysReconnects ==
    \A c \in Clients : wsClient[c].made /\ ~wsClient[c].stopped =>
        wsClient[c].socket # "none" \/ wsClient[c].backoff

\* A ws client was stopped, by stop() or by the watchdog.
GivenUp == \E c \in Clients : wsClient[c].stopped

\* views-store-v4.ts:795-797: when hello.ok does not come, the watchdog tears the link
\* down "to force a reconnect".  A store that was closed and that nobody stops opens.
WatchdogReconnects == (ws # NoClient /\ status = "closed") ~> (status = "open" \/ stops # 0)
=============================================================================

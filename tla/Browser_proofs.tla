--------------------------- MODULE Browser_proofs ---------------------------
(***************************************************************************)
(* Proofs about the browser's two clients of the server.                   *)
(*                                                                         *)
(* StoreLink: no query of the store is stranded and no ws client gives up, *)
(* for any number of starts, stops, lost links and timers.                 *)
(*                                                                         *)
(* SyncFeed: the cache behind the feed is right up to its cursors, for any *)
(* number of chats, events, pages, writers and mishaps.  The invariant     *)
(* FeedInv is the whole argument in one formula: what is in the cache and  *)
(* what an answer under way is about to add to it are the same to it, so   *)
(* each statement of a pull moves rows from one side to the other.  A step *)
(* of a server leaves it alone for one reason (ServerMoves): whatever      *)
(* becomes visible is above every cursor or is marked.                     *)
(*                                                                         *)
(* Transcript: an echo repeats the entry beside it, which is none itself.  *)
(* Of what is displayed, each part is one row to both clients or none      *)
(* (PartAlike), so the lists that are made of the parts are the same       *)
(* (FlatFollows); what is not displayed stays so when it is repaired,      *)
(* because the last reading keeps the whole of a line (RestoredIs).        *)
(*                                                                         *)
(* ClientLogs: each step leaves every log where it was, or where its next  *)
(* keeper has it: a batch is deleted from the store only after all of it   *)
(* has its row, for a batch is no longer than what the server takes        *)
(* (OldestAll).                                                            *)
(***************************************************************************)
EXTENDS StoreLink, SyncFeed, Transcript, ClientLogs, SequenceTheorems,
        FiniteSetTheorems, WellFoundedInduction, TLAPS

----------------------------------------------------------------------------
(* StoreLink *)

ClientRecords ==
    [made : BOOLEAN, stopped : BOOLEAN, socket : {"none", "opening", "open"},
     backoff : BOOLEAN, asksHello : BOOLEAN]

QueryRecords ==
    [asked : BOOLEAN, pending : BOOLEAN, attemptTimer : BOOLEAN, retryTimer : BOOLEAN,
     settled : BOOLEAN, sentOn : Clients \cup {NoClient}, queuedOn : Clients \cup {NoClient}]

\* What holds of one ws client, and of the query: the parts of the invariant that the
\* operations on each preserve on their own.
ClientFits(k) ==
    /\ k \in ClientRecords
    /\ k.backoff => k.socket = "none"
    /\ k.made /\ ~k.stopped => k.socket # "none" \/ k.backoff

QueryFits(q) ==
    /\ q \in QueryRecords
    /\ q.pending = q.attemptTimer
    /\ q.retryTimer => ~q.attemptTimer
    /\ q.settled \/ q.retryTimer \/ q.attemptTimer => q.asked
    /\ q.settled => ~q.retryTimer /\ ~q.attemptTimer
    /\ q.asked /\ ~q.settled => q.attemptTimer \/ q.retryTimer

StoreFits ==
    /\ starting \subseteq Clients
    /\ ws \in Clients \cup {NoClient}
    /\ status \in {"idle", "connecting", "open", "reconnecting", "closed"}
    /\ helloOk \in BOOLEAN /\ watchdogs \in [Clients -> Nat]
    /\ drops \in 0..MaxDrops /\ stops \in 0..MaxStops /\ linkFaults \in 0..MaxLinkFaults

ClientsFit ==
    /\ DOMAIN wsClient = Clients
    /\ wsClient = [c \in Clients |-> wsClient[c]]
    /\ \A c \in Clients : ClientFits(wsClient[c])

LinkInv == StoreFits /\ ClientsFit /\ QueryFits(query)

LEMMA LinkImplies == LinkInv => LinkTypeOK /\ NeverStranded /\ AlwaysReconnects
<1> SUFFICES ASSUME LinkInv PROVE LinkTypeOK /\ NeverStranded /\ AlwaysReconnects
  OBVIOUS
<1>1. wsClient \in [Clients -> ClientRecords]
  BY DEF LinkInv, ClientsFit, ClientFits
<1>2. NeverStranded /\ AlwaysReconnects
  BY DEF LinkInv, ClientsFit, ClientFits, QueryFits, NeverStranded, AlwaysReconnects
<1>3. LinkTypeOK
  BY <1>1 DEF LinkInv, StoreFits, ClientsFit, ClientFits, QueryFits, QueryRecords,
     ClientRecords, LinkTypeOK
<1> QED BY <1>2, <1>3

----------------------------------------------------------------------------
(* Operations on one client *)

\* Changing one client to one that fits leaves all of them fitting.
LEMMA OneClientChanges ==
    ASSUME ClientsFit, NEW c \in Clients, NEW k, ClientFits(k),
           wsClient' = [wsClient EXCEPT ![c] = k]
    PROVE  ClientsFit'
BY DEF ClientsFit

LEMMA ClientOperations ==
    ASSUME NEW k, ClientFits(k)
    PROVE  /\ ClientFits(Connecting(k))
           /\ ClientFits(ScheduleReconnect([k EXCEPT !.asksHello = FALSE]))
           /\ ClientFits(Stopped(k))
           /\ ClientFits([k EXCEPT !.asksHello = FALSE])
           /\ k.stopped => ClientFits([k EXCEPT !.socket = "none"])
           /\ k.socket = "opening" =>
                ClientFits([k EXCEPT !.socket = "open", !.asksHello = TRUE])
<1> USE DEF ClientFits, ClientRecords
<1>1. ClientFits(Connecting(k))
  BY DEF Connecting
<1>2. ClientFits(ScheduleReconnect([k EXCEPT !.asksHello = FALSE]))
  BY DEF ScheduleReconnect
<1>3. ClientFits(Stopped(k))
  BY DEF Stopped
<1>4. ClientFits([k EXCEPT !.asksHello = FALSE])
  OBVIOUS
<1>5. ASSUME k.stopped PROVE ClientFits([k EXCEPT !.socket = "none"])
  BY <1>5
<1>6. ASSUME k.socket = "opening"
      PROVE ClientFits([k EXCEPT !.socket = "open", !.asksHello = TRUE])
  BY <1>6
<1> HIDE DEF ClientFits, ClientRecords
<1> QED BY <1>1, <1>2, <1>3, <1>4, <1>5, <1>6

\* A stopped store's client, or none.
LEMMA ClientStops ==
    ASSUME ClientsFit, StoreFits, ws # NoClient,
           wsClient' = [wsClient EXCEPT ![ws] = Stopped(@)]
    PROVE  ClientsFit'
<1>1. ws \in Clients /\ ClientFits(wsClient[ws])
  BY DEF ClientsFit, StoreFits
<1>2. ClientFits(Stopped(wsClient[ws]))
  BY <1>1, ClientOperations
<1> QED BY <1>1, <1>2, OneClientChanges

----------------------------------------------------------------------------
(* Operations on the query *)

\* An attempt of a query with no attempt and no timer: it is sent, or its retry is set.
LEMMA AttemptHasTimer ==
    ASSUME StoreFits, NEW q \in QueryRecords,
           q.asked, ~q.settled, ~q.pending, ~q.attemptTimer, ~q.retryTimer
    PROVE  QueryFits(SendAttempt(q))
<1>1. CASE LinkIsOpen
  BY <1>1 DEF SendAttempt, LinkIsOpen, Sent, StoreFits, QueryFits, QueryRecords
<1>2. CASE ~LinkIsOpen
  BY <1>2 DEF SendAttempt, QueryFits, QueryRecords
<1> QED BY <1>1, <1>2

LEMMA QueryOperations ==
    ASSUME NEW q, QueryFits(q)
    PROVE  /\ q.pending => QueryFits(Settled(q))
           /\ q.attemptTimer => QueryFits(Retried(q))
           /\ QueryFits(Rejected(q))
           /\ \A c \in Clients : QueryFits(Lost(q, c))
           /\ \A c \in Clients : QueryFits([q EXCEPT !.queuedOn = NoClient, !.sentOn = c])
<1> USE DEF QueryFits, QueryRecords
<1>1. ASSUME q.pending PROVE QueryFits(Settled(q))
  BY <1>1 DEF Settled, NoAttempt
<1>2. ASSUME q.attemptTimer PROVE QueryFits(Retried(q))
  BY <1>2 DEF Retried, NoAttempt
<1>3. QueryFits(Rejected(q))
  BY <1>1 DEF Rejected
<1>4. \A c \in Clients : QueryFits(Lost(q, c))
  BY DEF Lost
<1>5. \A c \in Clients : QueryFits([q EXCEPT !.queuedOn = NoClient, !.sentOn = c])
  OBVIOUS
<1> HIDE DEF QueryFits, QueryRecords
<1> QED BY <1>1, <1>2, <1>3, <1>4, <1>5

----------------------------------------------------------------------------
LEMMA LinkInitially == LinkInit => LinkInv
<1> SUFFICES ASSUME LinkInit PROVE LinkInv
  OBVIOUS
<1>1. StoreFits
  <2>1. helloOk \in BOOLEAN /\ status \in {"idle", "connecting", "open", "reconnecting", "closed"}
    BY DEF LinkInit
  <2>2. drops \in 0..MaxDrops /\ stops \in 0..MaxStops /\ linkFaults \in 0..MaxLinkFaults
    BY StoreLinkAssumption DEF LinkInit
  <2>3. starting \subseteq Clients /\ ws \in Clients \cup {NoClient}
    BY DEF LinkInit
  <2>4. watchdogs \in [Clients -> Nat]
    BY DEF LinkInit
  <2> QED BY <2>1, <2>2, <2>3, <2>4 DEF StoreFits
<1>2. ClientsFit
  BY DEF LinkInit, ClientsFit, ClientFits, ClientRecords, NewClient
<1>3. QueryFits(query)
  BY DEF LinkInit, QueryFits, QueryRecords, NoQuery
<1> QED BY <1>1, <1>2, <1>3 DEF LinkInv

LEMMA LinkPreserved == LinkInv /\ [LinkNext]_linkVars => LinkInv'
<1> SUFFICES ASSUME LinkInv, [LinkNext]_linkVars PROVE LinkInv'
  OBVIOUS
<1>0. StoreFits /\ ClientsFit /\ QueryFits(query)
  BY DEF LinkInv
<1>1. ASSUME NEW c \in Clients, Start(c) PROVE LinkInv'
  BY <1>0, <1>1 DEF Start, LinkInv, StoreFits, ClientsFit
<1>2. ASSUME NEW c \in Clients, StartGoesOn(c) PROVE LinkInv'
  <2>1. ClientFits(Connecting([NewClient EXCEPT !.made = TRUE]))
    BY DEF Connecting, NewClient, ClientFits, ClientRecords
  <2>2. ClientsFit'
    BY <1>0, <1>2, <2>1, OneClientChanges DEF StartGoesOn
  <2>3. StoreFits' /\ query' = query
    BY <1>0, <1>2 DEF StartGoesOn, SetStatus, StoreFits
  <2> QED BY <1>0, <2>2, <2>3 DEF LinkInv
<1>3. ASSUME NEW c \in Clients, SocketOpens(c) PROVE LinkInv'
  <2>1. ClientFits([wsClient[c] EXCEPT !.socket = "open", !.asksHello = TRUE])
    BY <1>0, <1>3, ClientOperations DEF SocketOpens, ClientsFit
  <2>2. wsClient' = [wsClient EXCEPT ![c] =
                     [wsClient[c] EXCEPT !.socket = "open", !.asksHello = TRUE]]
    BY <1>0, <1>3 DEF SocketOpens, ClientsFit, ClientFits, ClientRecords
  <2>3. ClientsFit'
    BY <1>0, <2>1, <2>2, OneClientChanges
  <2>4. QueryFits(query')
    BY <1>0, <1>3, QueryOperations DEF SocketOpens
  <2>5. StoreFits'
    BY <1>0, <1>3 DEF SocketOpens, SetStatus, StoreFits
  <2> QED BY <2>3, <2>4, <2>5 DEF LinkInv
<1>4. ASSUME NEW c \in Clients, SocketCloses(c) PROVE LinkInv'
  <2>1. ClientFits(ScheduleReconnect([wsClient[c] EXCEPT !.asksHello = FALSE]))
    BY <1>0, ClientOperations DEF ClientsFit
  <2>2. ClientsFit'
    BY <1>0, <1>4, <2>1, OneClientChanges DEF SocketCloses
  <2>3. QueryFits(query')
    BY <1>0, <1>4, QueryOperations DEF SocketCloses
  <2>4. StoreFits'
    BY <1>0, <1>4, StoreLinkAssumption DEF SocketCloses, SetStatus, StoreFits
  <2> QED BY <2>2, <2>3, <2>4 DEF LinkInv
<1>5. ASSUME NEW c \in Clients, StoppedCloses(c) PROVE LinkInv'
  <2>1. ClientFits([wsClient[c] EXCEPT !.socket = "none"])
    BY <1>0, <1>5, ClientOperations DEF StoppedCloses, ClientsFit
  <2>2. wsClient' = [wsClient EXCEPT ![c] = [wsClient[c] EXCEPT !.socket = "none"]]
    BY <1>0, <1>5 DEF StoppedCloses, ClientsFit
  <2>3. ClientsFit'
    BY <1>0, <2>1, <2>2, OneClientChanges
  <2>4. QueryFits(query')
    BY <1>0, <1>5, QueryOperations DEF StoppedCloses
  <2>5. StoreFits'
    BY <1>0, <1>5 DEF StoppedCloses, SetStatus, StoreFits
  <2> QED BY <2>3, <2>4, <2>5 DEF LinkInv
<1>6. ASSUME NEW c \in Clients, BackoffFires(c) PROVE LinkInv'
  <2>1. ClientFits(Connecting(wsClient[c]))
    BY <1>0, ClientOperations DEF ClientsFit
  <2>2. ClientsFit'
    BY <1>0, <1>6, <2>1, OneClientChanges DEF BackoffFires
  <2>3. StoreFits' /\ query' = query
    BY <1>0, <1>6 DEF BackoffFires, SetStatus, StoreFits
  <2> QED BY <1>0, <2>2, <2>3 DEF LinkInv
<1>7. ASSUME NEW c \in Clients, HelloArrives(c) PROVE LinkInv'
  <2>1. ClientFits([wsClient[c] EXCEPT !.asksHello = FALSE])
    BY <1>0, ClientOperations DEF ClientsFit
  <2>2. wsClient' = [wsClient EXCEPT ![c] = [wsClient[c] EXCEPT !.asksHello = FALSE]]
    BY <1>0, <1>7 DEF HelloArrives, ClientsFit
  <2>3. ClientsFit'
    BY <1>0, <2>1, <2>2, OneClientChanges
  <2>4. StoreFits'
    BY <1>0, <1>7 DEF HelloArrives, StoreFits
  <2>5. QueryFits(query')
    <3> DEFINE q == [query EXCEPT !.asked = TRUE]
    <3>1. CASE query.asked
      BY <1>0, <1>7, <3>1 DEF HelloArrives
    <3>2. CASE ~query.asked
      <4>1. /\ q \in QueryRecords
            /\ q.asked /\ ~q.settled /\ ~q.pending /\ ~q.attemptTimer /\ ~q.retryTimer
        BY <1>0, <3>2 DEF QueryFits, QueryRecords
      <4>2. query' = SendAttempt(q)
        BY <1>7, <3>2 DEF HelloArrives
      <4> HIDE DEF q
      <4> QED BY <1>0, <4>1, <4>2, AttemptHasTimer
    <3> QED BY <3>1, <3>2
  <2> QED BY <2>3, <2>4, <2>5 DEF LinkInv
<1>8. ASSUME NEW c \in Clients, WatchdogFires(c) PROVE LinkInv'
  <2>1. StoreFits' /\ query' = query
    BY <1>0, <1>8 DEF WatchdogFires, SetStatus, StoreFits
  <2>2. ClientsFit'
    <3>1. CASE ~helloOk /\ LinkIsOpen
      BY <1>0, <1>8, <3>1, ClientStops DEF WatchdogFires, LinkIsOpen
    <3>2. CASE ~(~helloOk /\ LinkIsOpen)
      BY <1>0, <1>8, <3>2 DEF WatchdogFires, ClientsFit
    <3> QED BY <3>1, <3>2
  <2> QED BY <1>0, <2>1, <2>2 DEF LinkInv
<1>9. CASE QueryOk
  <2>1. QueryFits(query')
    BY <1>0, <1>9, QueryOperations DEF QueryOk
  <2> QED BY <1>0, <1>9, <2>1 DEF QueryOk, wsVars, LinkInv, StoreFits, ClientsFit
<1>10. CASE AttemptFails
  <2>1. QueryFits(query')
    BY <1>0, <1>10, QueryOperations DEF AttemptFails
  <2>2. StoreFits'
    BY <1>0, <1>10, StoreLinkAssumption DEF AttemptFails, wsVars, StoreFits
  <2> QED BY <1>0, <1>10, <2>1, <2>2 DEF AttemptFails, wsVars, LinkInv, ClientsFit
<1>11. CASE AttemptTimesOut
  <2>1. QueryFits(query')
    BY <1>0, <1>11, QueryOperations DEF AttemptTimesOut
  <2> QED BY <1>0, <1>11, <2>1 DEF AttemptTimesOut, wsVars, LinkInv, StoreFits, ClientsFit
<1>12. CASE RetryFires
  <2> DEFINE q == [query EXCEPT !.retryTimer = FALSE]
  <2>1. /\ q \in QueryRecords
        /\ q.asked /\ ~q.settled /\ ~q.pending /\ ~q.attemptTimer /\ ~q.retryTimer
    BY <1>0, <1>12 DEF RetryFires, QueryFits, QueryRecords
  <2>2. query' = SendAttempt(q)
    BY <1>12 DEF RetryFires
  <2> HIDE DEF q
  <2>3. QueryFits(query')
    BY <1>0, <2>1, <2>2, AttemptHasTimer
  <2> QED BY <1>0, <1>12, <2>3 DEF RetryFires, wsVars, LinkInv, StoreFits, ClientsFit
<1>13. CASE Stop
  <2>1. QueryFits(query')
    BY <1>0, <1>13, QueryOperations DEF Stop
  <2>2. StoreFits'
    <3>1. helloOk' \in BOOLEAN
          /\ status' \in {"idle", "connecting", "open", "reconnecting", "closed"}
      BY <1>0, <1>13 DEF Stop, SetStatus, StoreFits
    <3>2. stops' \in 0..MaxStops
      BY <1>0, <1>13, StoreLinkAssumption DEF Stop, StoreFits
    <3> QED BY <1>0, <1>13, <3>1, <3>2 DEF Stop, StoreFits
  <2>3. ClientsFit'
    <3>1. CASE ws = NoClient
      BY <1>0, <1>13, <3>1 DEF Stop, ClientsFit
    <3>2. CASE ws # NoClient
      BY <1>0, <1>13, <3>2, ClientStops DEF Stop
    <3> QED BY <3>1, <3>2
  <2> QED BY <2>1, <2>2, <2>3 DEF LinkInv
<1>14. CASE UNCHANGED linkVars
  BY <1>0, <1>14 DEF linkVars, wsVars, LinkInv, StoreFits, ClientsFit
<1> QED
  BY <1>1, <1>2, <1>3, <1>4, <1>5, <1>6, <1>7, <1>8, <1>9, <1>10, <1>11, <1>12, <1>13, <1>14
  DEF LinkNext

LEMMA LinkInductive == LinkSpec => []LinkInv
BY LinkInitially, LinkPreserved, PTL DEF LinkSpec

\* views-store-v4.ts sendQueryAttempt and scheduleRetry: a query that is neither answered
\* nor rejected always has a timer that acts on it.
THEOREM QueriesGoOn == LinkSpec => []NeverStranded
<1>1. LinkInv => NeverStranded
  BY LinkImplies
<1> QED BY <1>1, LinkInductive, PTL

\* ws-client.ts scheduleReconnect: a client that is not stopped never ends without a
\* socket and without a timer.
THEOREM ClientsReconnect == LinkSpec => []AlwaysReconnects
<1>1. LinkInv => AlwaysReconnects
  BY LinkImplies
<1> QED BY <1>1, LinkInductive, PTL

----------------------------------------------------------------------------
USE FeedAssumption

----------------------------------------------------------------------------
(* SyncFeed: its operators on sets *)

\* A set of numbers up to n has a highest and a lowest member.
LEMMA Extremes ==
    ASSUME NEW n \in Nat, NEW S \in SUBSET (0..n), S # {}
    PROVE  /\ Highest(S) \in S /\ \A k \in S : k <= Highest(S)
           /\ Lowest(S) \in S /\ \A k \in S : Lowest(S) <= k
<1> DEFINE From(x) == {k \in S : k <= x}
           To(x) == {k \in S : x <= k}
           from == {From(x) : x \in S}
           to == {To(x) : x \in S}
<1>1. \A x \in S : x \in Int
  OBVIOUS
<1>2. IsFiniteSet(S)
  <2>1. IsFiniteSet(0..n)
    BY FS_Interval
  <2> QED BY <2>1, FS_Subset
<1>3. ASSUME NEW x \in S
      PROVE  From(x) \in FiniteSubsetsOf(S) /\ To(x) \in FiniteSubsetsOf(S)
  <2>1. From(x) \in SUBSET S /\ To(x) \in SUBSET S
    OBVIOUS
  <2> HIDE DEF From, To
  <2> QED BY <1>2, <2>1, FS_Subset DEF FiniteSubsetsOf
<1>4. /\ from \subseteq FiniteSubsetsOf(S) /\ from # {}
      /\ to \subseteq FiniteSubsetsOf(S) /\ to # {}
  <2> HIDE DEF From, To
  <2> QED BY <1>3
<1>5. PICK a \in from : \A b \in from : ~(<<b, a>> \in StrictSubsetOrdering(S))
  <2> HIDE DEF from, to
  <2> QED BY <1>4, FS_StrictSubsetOrderingWellFounded, WFMin
<1>6. PICK c \in to : \A b \in to : ~(<<b, c>> \in StrictSubsetOrdering(S))
  <2> HIDE DEF from, to
  <2> QED BY <1>4, FS_StrictSubsetOrderingWellFounded, WFMin
<1>7. \E x \in S : \A y \in S : x <= y
  <2>1. PICK x \in S : a = From(x)
    BY <1>5
  <2>2. ASSUME NEW y \in S, ~(x <= y) PROVE FALSE
    <3>1. x <= x /\ ~(x <= y) /\ \A k \in S : k <= y => k <= x
      BY <1>1, <2>2
    <3>2. From(y) \subseteq From(x) /\ x \in From(x) /\ x \notin From(y)
      BY <3>1
    <3>3. <<From(y), From(x)>> \in StrictSubsetOrdering(S)
      BY <3>2 DEF StrictSubsetOrdering
    <3> QED BY <1>5, <2>1, <3>3
  <2> QED BY <2>2
<1>8. \E x \in S : \A y \in S : y <= x
  <2>1. PICK x \in S : c = To(x)
    BY <1>6
  <2>2. ASSUME NEW y \in S, ~(y <= x) PROVE FALSE
    <3>1. x <= x /\ ~(y <= x) /\ \A k \in S : y <= k => x <= k
      BY <1>1, <2>2
    <3>2. To(y) \subseteq To(x) /\ x \in To(x) /\ x \notin To(y)
      BY <3>1
    <3>3. <<To(y), To(x)>> \in StrictSubsetOrdering(S)
      BY <3>2 DEF StrictSubsetOrdering
    <3> QED BY <1>6, <2>1, <3>3
  <2> QED BY <2>2
<1> QED BY <1>7, <1>8 DEF Highest, Lowest

Numbered(S) == IsFiniteSet(S) /\ \A e \in S : e.rev \in Nat

\* A page by revisions has no gap: what lies before one of its first rows is in it, and
\* what lies after one of its last.
LEMMA FirstByClosed ==
    ASSUME NEW S, Numbered(S), NEW n \in Nat, NEW x \in FirstBy(S, n),
           NEW e \in S, e.rev <= x.rev
    PROVE  e \in FirstBy(S, n)
<1> DEFINE E == {y \in S : y.rev < e.rev}
           X == {y \in S : y.rev < x.rev}
<1>1. x \in S /\ Cardinality(X) < n
  BY DEF FirstBy
<1>2. \A y \in S : y.rev < e.rev => y.rev < x.rev
  BY <1>1 DEF Numbered
<1>3. E \in SUBSET X
  BY <1>2
<1>4. IsFiniteSet(X)
  BY FS_Subset DEF Numbered
<1>5. Cardinality(E) <= Cardinality(X) /\ Cardinality(E) \in Nat /\ Cardinality(X) \in Nat
  <2> HIDE DEF E, X
  <2> QED BY <1>3, <1>4, FS_Subset, FS_CardinalityType
<1>6. Cardinality(E) < n
  <2> HIDE DEF E, X
  <2> QED BY <1>1, <1>5
<1> QED BY <1>6 DEF FirstBy

LEMMA LastByClosed ==
    ASSUME NEW S, Numbered(S), NEW n \in Nat, NEW x \in LastBy(S, n),
           NEW e \in S, x.rev <= e.rev
    PROVE  e \in LastBy(S, n)
<1> DEFINE E == {y \in S : y.rev > e.rev}
           X == {y \in S : y.rev > x.rev}
<1>1. x \in S /\ Cardinality(X) < n
  BY DEF LastBy
<1>2. \A y \in S : y.rev > e.rev => y.rev > x.rev
  BY <1>1 DEF Numbered
<1>3. E \in SUBSET X
  BY <1>2
<1>4. IsFiniteSet(X)
  BY FS_Subset DEF Numbered
<1>5. Cardinality(E) <= Cardinality(X) /\ Cardinality(E) \in Nat /\ Cardinality(X) \in Nat
  <2> HIDE DEF E, X
  <2> QED BY <1>3, <1>4, FS_Subset, FS_CardinalityType
<1>6. Cardinality(E) < n
  <2> HIDE DEF E, X
  <2> QED BY <1>1, <1>5
<1> QED BY <1>6 DEF LastBy

----------------------------------------------------------------------------
(* SyncFeed: the invariant *)

Pulling == pull.step # "idle"
Holding == pull.step \in {"sessions", "apply"}

\* The records, ...
ServerShape ==
    /\ srcFile \in [Sources -> [gen : Nat, deleted : BOOLEAN, meta : Nat, seen : Nat]]
    /\ clock = [rev |-> clock.rev, meta |-> clock.meta]
    /\ clock.rev \in Nat /\ clock.meta \in Nat
    /\ Numbered(stored)
    /\ \A e \in stored : e.file \in Sources /\ e.gen \in Nat
    /\ \A t \in writing : /\ t.file \in Sources /\ t.deleted \in BOOLEAN
                          /\ t.rev \in Nat /\ t.meta \in Nat /\ t.gen \in Nat

BackShape(b) ==
    /\ b = [before |-> b.before, ceiling |-> b.ceiling]
    /\ b.before \in Nat /\ b.ceiling \in Nat /\ b.before <= b.ceiling + 1

RespShape(r) ==
    r = [events |-> r.events, keys |-> r.keys, full |-> r.full, more |-> r.more,
         sessions |-> r.sessions, dead |-> r.dead]

ClientShape ==
    /\ idb = [cursor |-> idb.cursor, back |-> idb.back, more |-> idb.more,
              mcur |-> idb.mcur, lookback |-> idb.lookback]
    /\ BackShape(idb.back)
    /\ pull.step \in {"idle", "ask", "rows", "keys", "sessions", "apply"}
    /\ Pulling =>
         /\ pull = [step |-> pull.step, mode |-> pull.mode, days |-> pull.days,
                    batch |-> pull.batch, cursor |-> pull.cursor, back |-> pull.back,
                    mcur |-> pull.mcur, resp |-> pull.resp]
         /\ RespShape(pull.resp) /\ BackShape(pull.back)
         /\ pull.days = idb.lookback
         /\ pull.mode \in {"meta", "forward", "recent", "backfill"}
         /\ pull.step = "keys" => pull.mode = "meta"
         /\ pull.step = "rows" => pull.mode # "meta"
         /\ pull.step = "ask" => pull.mode = "recent"

\* ... the two sequences: revisions are drawn once, and a transaction comes after what
\* its file has, ...
Drawn(t) ==
    /\ t.rev <= clock.rev /\ t.meta <= clock.meta
    /\ t.meta > srcFile[t.file].meta /\ t.gen >= srcFile[t.file].gen
    /\ \A f \in Sources : srcFile[f].meta # t.meta
    /\ \A e \in stored : e.rev # t.rev
    /\ \A u \in writing : u # t => /\ u.file # t.file /\ u.meta # t.meta
                                   /\ t.rev # 0 => u.rev # t.rev

Clocks ==
    /\ \A f \in Sources : srcFile[f].meta <= clock.meta
    /\ \A e \in stored : /\ e.rev > 0 /\ e.rev <= clock.rev
                         /\ e.gen <= srcFile[e.file].gen /\ srcFile[e.file].meta > 0
    /\ \A t \in writing : Drawn(t)

\* ... the cursors, none of which is ahead of what is visible, ...
RevReached(c) == c \in Nat /\ (c = 0 \/ \E e \in stored : c <= e.rev)
MetaReached(c) == c \in Nat /\ (c = 0 \/ \E f \in Sources : c <= srcFile[f].meta)

Cursors ==
    /\ RevReached(idb.cursor) /\ MetaReached(idb.mcur)
    /\ Pulling => RevReached(pull.cursor) /\ MetaReached(pull.mcur)

\* ... the list: it agrees with the server up to its cursor, and so does what a pull or
\* a read of a chat is about to put into it, ...
Cleared(f) == f \notin behind /\ f \notin touching /\ f \notin lost
UpTo(c) == \A f \in Sources : Cleared(f) /\ srcFile[f].meta <= c => Agreed(f)
ReadRight(f) ==
    Recent(f, pull.days) =>
        /\ f \in DOMAIN pull.resp.sessions <=> Listed(f)
        /\ Listed(f) => pull.resp.sessions[f] = Session(f, pull.days)
        /\ pull.mode = "meta" /\ ~pull.resp.full => (f \in pull.resp.dead <=> ~Listed(f))

ListFits ==
    /\ DOMAIN shell \subseteq Sources
    /\ idb.mcur > 0 => UpTo(idb.mcur)

PullListFits ==
    /\ pull.step = "keys" /\ pull.mcur > 0 => UpTo(pull.mcur)
    /\ Holding =>
         /\ pull.resp.keys \subseteq Sources
         /\ pull.resp.full => pull.mode = "meta" /\ pull.resp.keys = Sources
         /\ pull.mode = "meta" =>
              \A f \in Sources \ pull.resp.keys :
                 Cleared(f) /\ srcFile[f].meta <= pull.mcur => Agreed(f)
    /\ pull.step = "apply" =>
         /\ DOMAIN pull.resp.sessions \cup pull.resp.dead \subseteq pull.resp.keys
         /\ pull.resp.full \/ pull.mode # "meta" => pull.resp.dead = {}
         /\ \A f \in pull.resp.keys :
              Cleared(f) /\ (\/ srcFile[f].meta <= idb.mcur
                             \/ pull.mode = "meta" /\ srcFile[f].meta <= pull.mcur)
              => ReadRight(f)

ChatFits ==
    \A c \in chat :
        /\ c.file \in Sources /\ c.events \subseteq stored
        /\ c.meta \in Nat /\ c.meta <= srcFile[c.file].meta
        /\ c.meta = srcFile[c.file].meta /\ c.file \notin touching =>
             Listed(c.file) /\ c.session = Session(c.file, c.days)

\* ... and the events: between the cursors they are in the cache, or in the answer that
\* is about to be stored.
Wanted(e) == e \in Visible(idb.lookback) /\ e.file \notin gone /\ e.rev \notin late
HoldsAll(low, high, S) == \A e \in stored : Wanted(e) /\ low <= e.rev /\ e.rev <= high => e \in S
Stays(e) ==
    /\ e.gen = srcFile[e.file].gen /\ InReach(e, pull.days) /\ e.rev \notin late
    /\ pull.back.before <= e.rev /\ e.rev <= pull.cursor

EventsFit ==
    /\ cached \subseteq stored
    /\ idb.back # NoBack => HoldsAll(idb.back.before, idb.cursor, cached)

PullEventsFit ==
    /\ Pulling => pull.resp.events \subseteq stored
    /\ pull.mode = "forward" =>
         /\ pull.step = "rows" => pull.cursor = idb.cursor
         /\ Holding => HoldsAll(idb.cursor + 1, pull.cursor, pull.resp.events)
    /\ pull.mode = "backfill" =>
         /\ pull.step = "rows" => HoldsAll(pull.back.before, idb.cursor, cached)
         /\ Holding => HoldsAll(pull.back.before, idb.cursor, cached \cup pull.resp.events)
    /\ pull.mode = "recent" =>
         /\ pull.step = "rows" => pull.back.before > pull.cursor /\ pull.back.ceiling = pull.cursor
         /\ Holding =>
              /\ HoldsAll(pull.back.before, pull.cursor, pull.resp.events)
              /\ \A e \in stored : Stays(e) /\ e.file \in pull.resp.keys => e \in pull.resp.events

FeedInv ==
    /\ ServerShape /\ ClientShape /\ Clocks /\ Cursors
    /\ ListFits /\ (Pulling => PullListFits) /\ ChatFits
    /\ EventsFit /\ (Pulling => PullEventsFit)

----------------------------------------------------------------------------
(* SyncFeed: steps of the server *)

\* A step of the server raises the revision of what it changes above every visible one,
\* or marks it, and what it newly shows is marked or above every cursor.
ServerOnly ==
    /\ UNCHANGED <<idb, shell, cached, pull, chat>>
    /\ stored \subseteq stored'
    /\ \A f \in Sources :
         /\ srcFile'[f].meta >= srcFile[f].meta
         /\ srcFile'[f].meta # srcFile[f].meta =>
              f \in behind' \/ \A g \in Sources : srcFile'[f].meta > srcFile[g].meta
         /\ srcFile'[f].meta = srcFile[f].meta /\ f \notin touching' =>
              /\ f \notin touching /\ (f \in behind => f \in behind')
              /\ f \in lost => f \in lost'
              /\ Listed(f)' <=> Listed(f)
              /\ \A d : Session(f, d)' = Session(f, d) /\ (Recent(f, d)' <=> Recent(f, d))
    /\ \A e \in stored' : (\E h : RevReached(h) /\ e.rev <= h) =>
         /\ Wanted(e)' => e \in stored /\ Wanted(e)
         /\ e.gen = srcFile'[e.file].gen /\ e.rev \notin late' =>
              e \in stored /\ e.gen = srcFile[e.file].gen /\ e.rev \notin late

LEMMA ServerMoves ==
    ASSUME FeedInv, ServerOnly, ServerShape', Clocks'
    PROVE  FeedInv'
<1> USE DEF FeedInv
<1>1. UNCHANGED <<idb, shell, cached, pull, chat>>
  BY DEF ServerOnly
<1>2. ClientShape'
  <2>1. ClientShape
    OBVIOUS
  <2> QED BY <1>1, <2>1 DEF ClientShape, Pulling, BackShape, RespShape
<1>3. ASSUME NEW c, RevReached(c) PROVE RevReached(c)'
  BY <1>3 DEF RevReached, ServerOnly
<1>4. ASSUME NEW c, MetaReached(c) PROVE MetaReached(c)'
  <2>1. \A f \in Sources : srcFile[f].meta \in Nat /\ srcFile'[f].meta \in Nat
    BY DEF ServerShape
  <2>2. \A f \in Sources : srcFile'[f].meta >= srcFile[f].meta
    BY DEF ServerOnly
  <2> QED BY <1>4, <2>1, <2>2 DEF MetaReached
<1>5. Cursors'
  BY <1>1, <1>3, <1>4 DEF Cursors, Pulling
<1>6. ASSUME NEW f \in Sources, srcFile'[f].meta = srcFile[f].meta, f \notin touching'
      PROVE  /\ Listed(f)' <=> Listed(f)
             /\ \A d : Session(f, d)' = Session(f, d) /\ (Recent(f, d)' <=> Recent(f, d))
             /\ Agreed(f)' <=> Agreed(f)
             /\ Cleared(f)' => Cleared(f)
  BY <1>1, <1>6 DEF ServerOnly, Agreed, Cleared
<1>7. ASSUME NEW c, MetaReached(c), NEW f \in Sources, Cleared(f)', srcFile'[f].meta <= c
      PROVE  srcFile'[f].meta = srcFile[f].meta /\ f \notin touching' /\ Cleared(f)
  <2>1. \A g \in Sources : srcFile[g].meta \in Nat /\ srcFile'[g].meta \in Nat
    BY DEF ServerShape
  <2>2. ~\A g \in Sources : srcFile'[f].meta > srcFile[g].meta
    BY <1>7, <2>1 DEF MetaReached
  <2>3. srcFile'[f].meta = srcFile[f].meta
    BY <1>7, <2>2 DEF ServerOnly, Cleared
  <2> QED BY <1>6, <1>7, <2>3 DEF Cleared
<1>8. ListFits'
  <2>1. ListFits /\ MetaReached(idb.mcur)
    BY DEF Cursors
  <2> QED BY <1>1, <1>6, <1>7, <2>1 DEF ListFits, UpTo
<1>9. ASSUME Pulling PROVE PullListFits'
  <2>1. PullListFits /\ MetaReached(idb.mcur) /\ MetaReached(pull.mcur)
    BY <1>9 DEF Cursors
  <2>2. pull.step = "keys" /\ pull.mcur > 0 => UpTo(pull.mcur)'
    BY <1>1, <1>6, <1>7, <2>1 DEF PullListFits, UpTo
  <2>3. ASSUME Holding, pull.mode = "meta", NEW f \in Sources \ pull.resp.keys,
               Cleared(f)', srcFile'[f].meta <= pull.mcur
        PROVE  Agreed(f)'
    BY <1>6, <1>7, <2>1, <2>3 DEF PullListFits
  <2>4. ASSUME pull.step = "apply", NEW f \in pull.resp.keys, Cleared(f)',
               \/ srcFile'[f].meta <= idb.mcur
               \/ pull.mode = "meta" /\ srcFile'[f].meta <= pull.mcur
        PROVE  ReadRight(f)'
    <3>1. f \in Sources
      BY <2>1, <2>4 DEF PullListFits, Holding
    <3>2. /\ srcFile'[f].meta = srcFile[f].meta /\ f \notin touching' /\ Cleared(f)
      BY <1>7, <2>1, <2>4, <3>1
    <3>3. ReadRight(f)
      BY <2>1, <2>4, <3>2 DEF PullListFits
    <3> QED BY <1>1, <1>6, <3>1, <3>2, <3>3 DEF ReadRight
  <2> QED BY <1>1, <2>1, <2>2, <2>3, <2>4 DEF PullListFits, Holding
<1>10. ChatFits'
  <2> SUFFICES ASSUME NEW c \in chat
               PROVE  /\ c.file \in Sources /\ c.events \subseteq stored'
                      /\ c.meta \in Nat /\ c.meta <= srcFile'[c.file].meta
                      /\ c.meta = srcFile'[c.file].meta /\ c.file \notin touching' =>
                           Listed(c.file)' /\ c.session = Session(c.file, c.days)'
    BY <1>1 DEF ChatFits
  <2>1. /\ c.file \in Sources /\ c.events \subseteq stored
        /\ c.meta \in Nat /\ c.meta <= srcFile[c.file].meta
        /\ c.meta = srcFile[c.file].meta /\ c.file \notin touching =>
             Listed(c.file) /\ c.session = Session(c.file, c.days)
    BY DEF ChatFits
  <2>2. /\ srcFile[c.file].meta \in Nat /\ srcFile'[c.file].meta \in Nat
        /\ srcFile'[c.file].meta >= srcFile[c.file].meta /\ stored \subseteq stored'
    BY <2>1 DEF ServerShape, ServerOnly
  <2>3. ASSUME c.meta = srcFile'[c.file].meta, c.file \notin touching'
        PROVE  Listed(c.file)' /\ c.session = Session(c.file, c.days)'
    <3>1. srcFile'[c.file].meta = srcFile[c.file].meta
      BY <2>1, <2>2, <2>3
    <3>2. c.file \notin touching
      BY <2>1, <2>3, <3>1 DEF ServerOnly
    <3> QED BY <1>6, <2>1, <2>3, <3>1, <3>2
  <2> QED BY <2>1, <2>2, <2>3
<1>11. ASSUME NEW low, NEW h, NEW S, RevReached(h), HoldsAll(low, h, S) PROVE HoldsAll(low, h, S)'
  BY <1>11 DEF HoldsAll, ServerOnly
<1>12. EventsFit'
  <2>1. EventsFit /\ RevReached(idb.cursor) /\ stored \subseteq stored'
    BY DEF Cursors, ServerOnly
  <2>2. idb.back # NoBack => HoldsAll(idb.back.before, idb.cursor, cached)'
    <3>1. idb.back # NoBack => HoldsAll(idb.back.before, idb.cursor, cached)
      BY <2>1 DEF EventsFit
    <3> QED BY <1>1, <1>11, <2>1, <3>1
  <2> QED BY <1>1, <2>1, <2>2 DEF EventsFit
<1>13. ASSUME Pulling PROVE PullEventsFit'
  <2>1. PullEventsFit /\ RevReached(idb.cursor) /\ RevReached(pull.cursor)
        /\ stored \subseteq stored'
    BY <1>13 DEF Cursors, ServerOnly
  <2>2. \A low, S : HoldsAll(low, pull.cursor, S) => HoldsAll(low, pull.cursor, S)'
    BY <1>1, <1>11, <2>1
  <2>3. \A low, S : HoldsAll(low, idb.cursor, S) => HoldsAll(low, idb.cursor, S)'
    BY <1>1, <1>11, <2>1
  <2>4. \A e \in stored' : Stays(e)' => e \in stored /\ Stays(e)
    BY <1>1, <2>1 DEF Stays, ServerOnly
  <2> HIDE DEF FeedInv
  <2> QED BY <1>1, <2>1, <2>2, <2>3, <2>4 DEF PullEventsFit, Holding, Pulling
<1> QED BY <1>1, <1>2, <1>5, <1>8, <1>9, <1>10, <1>12, <1>13 DEF Pulling

LEMMA BeginFits ==
    ASSUME FeedInv, NEW f \in Sources, Begin(f)
    PROVE  FeedInv'
<1> USE DEF FeedInv
<1>1. UNCHANGED <<stored, srcFile, muted, touching, idb, shell, cached, pull, chat, history>>
  BY DEF Begin, client
<1>2. PICK t : /\ writing' = writing \cup {t}
               /\ t.file = f /\ t.meta = clock.meta + 1
               /\ t.rev \in {0, clock.rev + 1}
               /\ t.deleted \in BOOLEAN
               /\ t.gen \in {srcFile[f].gen, srcFile[f].gen + 1}
               /\ clock' = [rev |-> IF t.rev = 0 THEN clock.rev ELSE clock.rev + 1,
                            meta |-> clock.meta + 1]
  <2>1. clock.rev \in Nat /\ clock = [rev |-> clock.rev, meta |-> clock.meta]
    BY DEF ServerShape
  <2>2. CASE \E g \in {srcFile[f].gen, srcFile[f].gen + 1} :
               /\ writing' = writing \cup {[file |-> f, meta |-> clock.meta + 1,
                    rev |-> clock.rev + 1, deleted |-> FALSE, gen |-> g]}
               /\ clock' = [rev |-> clock.rev + 1, meta |-> clock.meta + 1]
    <3>1. PICK g \in {srcFile[f].gen, srcFile[f].gen + 1} :
            /\ writing' = writing \cup {[file |-> f, meta |-> clock.meta + 1,
                 rev |-> clock.rev + 1, deleted |-> FALSE, gen |-> g]}
            /\ clock' = [rev |-> clock.rev + 1, meta |-> clock.meta + 1]
      BY <2>2
    <3> DEFINE n == [file |-> f, meta |-> clock.meta + 1, rev |-> clock.rev + 1,
                     deleted |-> FALSE, gen |-> g]
    <3>2. /\ n.file = f /\ n.meta = clock.meta + 1 /\ n.rev = clock.rev + 1 /\ n.rev # 0
          /\ n.deleted \in BOOLEAN /\ n.gen = g /\ writing' = writing \cup {n}
      BY <2>1, <3>1
    <3> HIDE DEF n
    <3> QED BY <3>1, <3>2
  <2>3. CASE /\ writing' = writing \cup {[file |-> f, meta |-> clock.meta + 1, rev |-> 0,
                                 deleted |-> TRUE, gen |-> srcFile[f].gen]}
             /\ clock' = [clock EXCEPT !.meta = @ + 1]
    <3> DEFINE n == [file |-> f, meta |-> clock.meta + 1, rev |-> 0, deleted |-> TRUE,
                     gen |-> srcFile[f].gen]
    <3>1. /\ n.file = f /\ n.meta = clock.meta + 1 /\ n.rev = 0
          /\ n.deleted \in BOOLEAN /\ n.gen = srcFile[f].gen /\ writing' = writing \cup {n}
      BY <2>3
    <3>2. clock' = [rev |-> clock.rev, meta |-> clock.meta + 1]
      BY <2>1, <2>3
    <3> HIDE DEF n
    <3> QED BY <3>1, <3>2
  <2> QED BY <2>2, <2>3 DEF Begin
<1>3. /\ clock.rev \in Nat /\ clock.meta \in Nat /\ srcFile[f].gen \in Nat
      /\ clock'.meta = clock.meta + 1 /\ clock'.rev \in {clock.rev, clock.rev + 1}
      /\ clock'.rev >= t.rev
      /\ t.rev \in Nat /\ t.meta \in Nat /\ t.gen \in Nat /\ t.gen >= srcFile[f].gen
  BY <1>2 DEF ServerShape
<1>4. ServerShape'
  BY <1>1, <1>2, <1>3 DEF ServerShape, Numbered
<1>5. Clocks'
  <2>1. \A g \in Sources : srcFile[g].meta \in Nat /\ srcFile[g].meta <= clock.meta
    BY DEF Clocks, ServerShape
  <2>2. \A e \in stored : e.rev \in Nat /\ e.rev > 0 /\ e.rev <= clock.rev
    BY DEF Clocks, ServerShape, Numbered
  <2>3. \A u \in writing : /\ Drawn(u) /\ u.file # f
                           /\ u.rev \in Nat /\ u.meta \in Nat
    BY DEF Begin, Clocks, ServerShape
  <2>4. /\ \A g \in Sources : srcFile'[g].meta <= clock'.meta
        /\ \A e \in stored' : /\ e.rev > 0 /\ e.rev <= clock'.rev
                              /\ e.gen <= srcFile'[e.file].gen /\ srcFile'[e.file].meta > 0
    <3>1. \A e \in stored : e.gen <= srcFile[e.file].gen /\ srcFile[e.file].meta > 0
      BY DEF Clocks
    <3> QED BY <1>1, <1>3, <2>1, <2>2, <3>1
  <2>5. /\ t.rev <= clock'.rev /\ t.meta <= clock'.meta
        /\ t.meta > srcFile[f].meta /\ t.gen >= srcFile[f].gen
        /\ \A g \in Sources : srcFile[g].meta # t.meta
        /\ \A e \in stored : e.rev # t.rev
    BY <1>2, <1>3, <2>1, <2>2
  <2>6. \A u \in writing : /\ u.file # t.file /\ u.meta # t.meta
                           /\ t.rev # 0 => u.rev # t.rev
                           /\ u.rev # 0 => t.rev # u.rev
    BY <1>2, <1>3, <2>3 DEF Drawn
  <2>7. Drawn(t)'
    BY <1>1, <1>2, <2>5, <2>6 DEF Drawn
  <2>8. ASSUME NEW u \in writing PROVE Drawn(u)'
    <3>1. Drawn(u) /\ u.rev \in Nat /\ u.meta \in Nat
      BY <2>3
    <3>2. u.rev <= clock'.rev /\ u.meta <= clock'.meta
      BY <1>3, <3>1 DEF Drawn
    <3> QED BY <1>1, <1>2, <2>6, <3>1, <3>2 DEF Drawn
  <2> QED BY <1>2, <2>4, <2>7, <2>8 DEF Clocks
<1>6. ServerOnly
  <2>1. \A g \in Sources : srcFile[g].meta \in Nat
    BY DEF ServerShape
  <2>2. \A e : Wanted(e)' <=> Wanted(e)
    BY <1>1 DEF Wanted, Visible, Shown, Listed, InReach, history
  <2>3. \A g : /\ Listed(g)' <=> Listed(g)
               /\ \A d : Session(g, d)' = Session(g, d) /\ (Recent(g, d)' <=> Recent(g, d))
    BY <1>1 DEF Listed, Session, Counted, InReach, Recent, InSight
  <2> QED BY <1>1, <2>1, <2>2, <2>3 DEF ServerOnly, history
<1> QED BY <1>4, <1>5, <1>6, ServerMoves

\* A transaction commits: its revisions are above every visible one, or noted.
LEMMA CommitFits ==
    ASSUME FeedInv, NEW t \in writing, Commit(t)
    PROVE  FeedInv'
<1> USE DEF FeedInv
<1> DEFINE f == t.file
           row == [gen |-> t.gen, deleted |-> t.deleted, meta |-> t.meta, seen |-> t.meta]
           new == [rev |-> t.rev, file |-> f, gen |-> t.gen]
           above == t.rev # 0 /\ \E e \in stored : e.rev > t.rev
<1>1. /\ UNCHANGED <<clock, muted, touching, idb, shell, cached, pull, chat>>
      /\ writing' = writing \ {t}
      /\ srcFile' = [srcFile EXCEPT ![f] = row]
      /\ stored' = IF t.rev = 0 THEN stored ELSE stored \cup {new}
      /\ behind' = Seen(f, Passed(t.meta))
      /\ late' = IF above THEN late \cup {t.rev} ELSE late
      /\ gone' = IF t.deleted \/ srcFile[f].deleted THEN gone \cup {f} ELSE gone
      /\ lost' = lost \ {f}
  BY DEF Commit, client
<1>2. /\ f \in Sources /\ t.deleted \in BOOLEAN
      /\ t.rev \in Nat /\ t.meta \in Nat /\ t.gen \in Nat
      /\ Drawn(t)
  BY DEF ServerShape, Clocks
<1>3. /\ srcFile'[f] = row
      /\ \A g \in Sources : g # f => srcFile'[g] = srcFile[g]
      /\ \A g \in Sources : srcFile[g].meta \in Nat /\ srcFile[g].gen \in Nat
      /\ row.gen = t.gen /\ row.deleted = t.deleted /\ row.meta = t.meta
      /\ new.rev = t.rev /\ new.file = f /\ new.gen = t.gen
  BY <1>1, <1>2 DEF ServerShape
<1>4. ServerShape'
  <2>1. srcFile' \in [Sources -> [gen : Nat, deleted : BOOLEAN, meta : Nat, seen : Nat]]
    BY <1>1, <1>2 DEF ServerShape
  <2>2. Numbered(stored)'
    <3>1. IsFiniteSet(stored) /\ \A e \in stored : e.rev \in Nat
      BY DEF ServerShape, Numbered
    <3>2. IsFiniteSet(stored \cup {new}) /\ \A e \in stored \cup {new} : e.rev \in Nat
      BY <1>2, <1>3, <3>1, FS_AddElement
    <3> HIDE DEF new
    <3> QED BY <1>1, <3>1, <3>2 DEF Numbered
  <2> QED BY <1>1, <1>2, <2>1, <2>2 DEF ServerShape
<1>5. Clocks'
  <2>1. \A g \in Sources : srcFile'[g].meta <= clock'.meta
    BY <1>1, <1>2, <1>3 DEF Clocks, Drawn
  <2>2. \A e \in stored : e.rev \in Nat /\ e.gen \in Nat /\ e.file \in Sources
    BY DEF ServerShape, Numbered
  <2>3. ASSUME NEW e \in stored'
        PROVE  /\ e.rev > 0 /\ e.rev <= clock'.rev
               /\ e.gen <= srcFile'[e.file].gen /\ srcFile'[e.file].meta > 0
    <3>1. CASE e \in stored
      <4>1. /\ e.rev > 0 /\ e.rev <= clock.rev
            /\ e.gen <= srcFile[e.file].gen /\ srcFile[e.file].meta > 0
        BY <3>1 DEF Clocks
      <4> QED BY <1>1, <1>2, <1>3, <2>2, <3>1, <4>1 DEF Drawn
    <3>2. CASE e = new /\ t.rev # 0
      BY <1>1, <1>2, <1>3, <3>2 DEF Drawn
    <3> QED BY <1>1, <3>1, <3>2
  <2>4. ASSUME NEW u \in writing' PROVE Drawn(u)'
    <3>1. u \in writing /\ u # t /\ Drawn(u)
      BY <1>1 DEF Clocks
    <3>2. u.file # f /\ u.meta # t.meta /\ (t.rev # 0 => u.rev # t.rev) /\ u.file \in Sources
      BY <1>2, <3>1 DEF Drawn, ServerShape
    <3>3. /\ u.rev <= clock'.rev /\ u.meta <= clock'.meta
          /\ u.meta > srcFile'[u.file].meta /\ u.gen >= srcFile'[u.file].gen
      BY <1>1, <1>3, <3>1, <3>2 DEF Drawn
    <3>4. \A g \in Sources : srcFile'[g].meta # u.meta
      BY <1>3, <3>1, <3>2 DEF Drawn
    <3>5. \A e \in stored' : e.rev # u.rev
      BY <1>1, <1>3, <3>1, <3>2 DEF Drawn
    <3> QED BY <1>1, <3>1, <3>3, <3>4, <3>5 DEF Drawn
  <2> QED BY <2>1, <2>3, <2>4 DEF Clocks
<1>6. ASSUME NEW g \in Sources
      PROVE  /\ srcFile'[g].meta >= srcFile[g].meta
             /\ srcFile'[g].meta # srcFile[g].meta =>
                  g \in behind' \/ \A h \in Sources : srcFile'[g].meta > srcFile[h].meta
             /\ srcFile'[g].meta = srcFile[g].meta /\ g \notin touching' =>
                  /\ g \notin touching /\ (g \in behind => g \in behind')
                  /\ g \in lost => g \in lost'
                  /\ Listed(g)' <=> Listed(g)
                  /\ \A d : Session(g, d)' = Session(g, d) /\ (Recent(g, d)' <=> Recent(g, d))
  <2>1. CASE g = f
    <3>1. srcFile'[g].meta > srcFile[g].meta
      BY <1>2, <1>3, <2>1 DEF Drawn
    <3>2. ASSUME g \notin behind', NEW h \in Sources PROVE srcFile'[g].meta > srcFile[h].meta
      <4> DEFINE metas == {srcFile[k].meta : k \in Sources}
      <4>1. PICK n \in Nat : metas \in SUBSET (0..n) /\ srcFile[h].meta \in metas
        BY <1>3 DEF Clocks, ServerShape
      <4>2. srcFile[h].meta <= Highest(metas) /\ Highest(metas) \in 0..n
        <5> HIDE DEF metas
        <5> QED BY <4>1, Extremes
      <4>3. ~(t.meta < Highest(metas))
        BY <1>1, <2>1, <3>2 DEF Seen, Passed, MetaHighWater
      <4> HIDE DEF metas
      <4> QED BY <1>2, <1>3, <2>1, <4>2, <4>3 DEF Drawn
    <3>3. srcFile'[g].meta \in Nat /\ srcFile[g].meta \in Nat
      BY <1>2, <1>3, <2>1
    <3> QED BY <3>1, <3>2, <3>3
  <2>2. CASE g # f
    <3>1. srcFile'[g] = srcFile[g] /\ srcFile[g].meta \in Nat
      BY <1>3, <2>2
    <3>2. (g \in behind => g \in behind') /\ (g \in lost => g \in lost')
      BY <1>1, <2>2 DEF Seen
    <3>3. Listed(g)' <=> Listed(g)
      BY <1>1, <3>1 DEF Listed
    <3>4. ASSUME NEW d PROVE Session(g, d)' = Session(g, d)
      <4>1. Counted(g, d)' = Counted(g, d)
        BY <1>1, <1>3, <2>2, <3>1 DEF Counted, InReach
      <4> QED BY <3>1, <4>1 DEF Session
    <3>5. \A d : Recent(g, d)' <=> Recent(g, d)
      BY <3>1 DEF Recent, InSight
    <3> QED BY <1>1, <3>1, <3>2, <3>3, <3>4, <3>5
  <2> QED BY <2>1, <2>2
<1>7. ASSUME NEW e \in stored', NEW h, RevReached(h), e.rev <= h
      PROVE  /\ Wanted(e)' => e \in stored /\ Wanted(e)
             /\ e.gen = srcFile'[e.file].gen /\ e.rev \notin late' =>
                  e \in stored /\ e.gen = srcFile[e.file].gen /\ e.rev \notin late
  <2>1. \A x \in stored : x.rev \in Nat /\ x.rev > 0 /\ x.gen \in Nat /\ x.file \in Sources
    BY DEF ServerShape, Numbered, Clocks
  <2>2. ASSUME e \notin stored PROVE e.rev \in late'
    <3>1. e = new /\ t.rev # 0
      BY <1>1, <2>2
    <3>2. PICK x \in stored : h <= x.rev
      BY <1>2, <1>3, <1>7, <3>1 DEF RevReached
    <3>3. x.rev > t.rev
      BY <1>2, <1>3, <1>7, <2>1, <3>1, <3>2 DEF Drawn, RevReached
    <3> QED BY <1>1, <1>3, <3>1, <3>3
  <2>3. late \subseteq late' /\ gone \subseteq gone'
    BY <1>1
  <2>4. ASSUME e \in stored, e.gen = srcFile'[e.file].gen PROVE e.gen = srcFile[e.file].gen
    <3>1. e.gen <= srcFile[e.file].gen
      BY <2>4 DEF Clocks
    <3> QED BY <1>2, <1>3, <2>1, <2>4, <3>1 DEF Drawn
  <2>5. ASSUME e \in stored, Wanted(e)' PROVE Wanted(e)
    <3>1. /\ Shown(e)' /\ InReach(e, idb.lookback)
          /\ e.file \notin gone' /\ e.rev \notin late'
      BY <1>1, <2>5 DEF Wanted, Visible, InReach
    <3>2. e.gen = srcFile[e.file].gen
      BY <2>4, <2>5, <3>1 DEF Shown
    <3>3. Listed(e.file)
      <4>1. srcFile[e.file].meta > 0 /\ e.file \notin muted
        BY <1>1, <2>5, <3>1 DEF Clocks, Shown, Listed
      <4>2. ~srcFile[e.file].deleted
        BY <1>1, <1>3, <2>1, <2>5, <3>1 DEF Shown, Listed
      <4> QED BY <4>1, <4>2 DEF Listed
    <3> QED BY <2>3, <2>5, <3>1, <3>2, <3>3 DEF Wanted, Visible, Shown
  <2>6. Wanted(e)' => e.rev \notin late'
    BY DEF Wanted
  <2> QED BY <2>2, <2>3, <2>4, <2>5, <2>6
<1>8. ServerOnly
  BY <1>1, <1>6, <1>7 DEF ServerOnly
<1> QED BY <1>4, <1>5, <1>8, ServerMoves

LEMMA ExcludeFits ==
    ASSUME FeedInv, NEW f \in Sources, Exclude(f)
    PROVE  FeedInv'
<1> USE DEF FeedInv
<1>1. /\ UNCHANGED <<stored, srcFile, writing, clock, idb, shell, cached, pull, chat, behind, lost,
                     late>>
      /\ \A g : g # f => (g \in muted' <=> g \in muted)
      /\ touching' = touching \cup {f} /\ gone' = gone \cup {f}
  BY DEF Exclude
<1>2. ServerShape' /\ Clocks'
  BY <1>1 DEF ServerShape, Clocks, Drawn, Numbered
<1>3. ServerOnly
  <2>1. \A g \in Sources : srcFile[g].meta \in Nat
    BY DEF ServerShape
  <2>2. \A g : g # f => (Listed(g)' <=> Listed(g))
    BY <1>1 DEF Listed
  <2>3. \A g, d : Session(g, d)' = Session(g, d) /\ (Recent(g, d)' <=> Recent(g, d))
    BY <1>1 DEF Session, Counted, InReach, Recent, InSight
  <2>4. \A e : Wanted(e)' => Wanted(e)
    BY <1>1, <2>2 DEF Wanted, Visible, Shown, InReach
  <2> QED BY <1>1, <2>1, <2>2, <2>3, <2>4 DEF ServerOnly
<1> QED BY <1>2, <1>3, ServerMoves

LEMMA TouchFits ==
    ASSUME FeedInv, NEW f \in Sources, Touch(f)
    PROVE  FeedInv'
<1> USE DEF FeedInv
<1>1. /\ UNCHANGED <<stored, writing, muted, idb, shell, cached, pull, chat, gone, late>>
      /\ \A t \in writing : t.file # f
      /\ touching' = touching \ {f} /\ behind' = behind \ {f} /\ lost' = lost \ {f}
      /\ srcFile' = [srcFile EXCEPT ![f].meta = clock.meta + 1]
      /\ clock' = [clock EXCEPT !.meta = @ + 1]
  BY DEF Touch, client
<1>2. /\ \A g \in Sources : /\ srcFile[g].meta \in Nat /\ srcFile[g].meta <= clock.meta
                            /\ g # f => srcFile'[g] = srcFile[g]
      /\ srcFile'[f].meta = clock.meta + 1
      /\ srcFile'[f].gen = srcFile[f].gen /\ srcFile'[f].deleted = srcFile[f].deleted
      /\ srcFile'[f].seen = srcFile[f].seen
      /\ clock.rev \in Nat /\ clock.meta \in Nat
      /\ clock' = [rev |-> clock.rev, meta |-> clock.meta + 1]
  BY <1>1 DEF ServerShape, Clocks
<1>3. ServerShape'
  <2>1. srcFile' \in [Sources -> [gen : Nat, deleted : BOOLEAN, meta : Nat, seen : Nat]]
    <3> DEFINE row == [gen |-> srcFile[f].gen, deleted |-> srcFile[f].deleted,
                       meta |-> clock.meta + 1, seen |-> srcFile[f].seen]
    <3>1. srcFile[f] = [gen |-> srcFile[f].gen, deleted |-> srcFile[f].deleted,
                        meta |-> srcFile[f].meta, seen |-> srcFile[f].seen]
      BY DEF ServerShape
    <3>2. [srcFile[f] EXCEPT !.meta = clock.meta + 1] = row
      BY <3>1
    <3>3. srcFile' = [srcFile EXCEPT ![f] = row]
      BY <1>1, <3>2
    <3>4. row \in [gen : Nat, deleted : BOOLEAN, meta : Nat, seen : Nat]
      BY <1>2 DEF ServerShape
    <3> QED BY <3>3, <3>4 DEF ServerShape
  <2> QED BY <1>1, <1>2, <2>1 DEF ServerShape, Numbered
<1>4. Clocks'
  <2>1. ASSUME NEW t \in writing PROVE Drawn(t)'
    <3>1. Drawn(t) /\ t.file # f /\ t.file \in Sources /\ t.rev \in Nat /\ t.meta \in Nat
      BY <1>1 DEF Clocks, ServerShape
    <3>2. \A g \in Sources : srcFile'[g].meta # t.meta
      BY <1>2, <3>1 DEF Drawn
    <3> QED BY <1>1, <1>2, <3>1, <3>2 DEF Drawn
  <2>2. \A g \in Sources : srcFile'[g].meta <= clock'.meta
    BY <1>2
  <2>3. ASSUME NEW e \in stored
        PROVE  /\ e.rev > 0 /\ e.rev <= clock'.rev
               /\ e.gen <= srcFile'[e.file].gen /\ srcFile'[e.file].meta > 0
    <3>1. /\ e.rev > 0 /\ e.rev <= clock.rev /\ e.file \in Sources
          /\ e.gen <= srcFile[e.file].gen /\ srcFile[e.file].meta > 0
      BY DEF Clocks, ServerShape
    <3> QED BY <1>2, <3>1
  <2> QED BY <1>1, <2>1, <2>2, <2>3 DEF Clocks
<1>5. ServerOnly
  <2>1. \A g \in Sources : g # f => (Listed(g)' <=> Listed(g))
    BY <1>1, <1>2 DEF Listed
  <2>2. \A g \in Sources : \A d : Session(g, d)' = Session(g, d) /\ (Recent(g, d)' <=> Recent(g, d))
    <3>1. \A g \in Sources : srcFile'[g].gen = srcFile[g].gen /\ srcFile'[g].seen = srcFile[g].seen
      BY <1>2
    <3>2. \A g \in Sources : \A d : Counted(g, d)' = Counted(g, d)
      BY <1>1, <3>1 DEF Counted, InReach
    <3> QED BY <3>1, <3>2 DEF Session, Recent, InSight
  <2>3. ASSUME NEW e \in stored
        PROVE  /\ Wanted(e)' => Wanted(e)
               /\ e.gen = srcFile'[e.file].gen => e.gen = srcFile[e.file].gen
    <3>1. e.file \in Sources /\ srcFile[e.file].meta > 0
      BY DEF ServerShape, Clocks
    <3>2. Listed(e.file)' => Listed(e.file)
      BY <1>1, <1>2, <3>1 DEF Listed
    <3>3. srcFile'[e.file].gen = srcFile[e.file].gen
      BY <1>2, <3>1
    <3> QED BY <1>1, <3>2, <3>3 DEF Wanted, Visible, Shown, InReach
  <2>4. \A g \in Sources :
          /\ srcFile'[g].meta >= srcFile[g].meta
          /\ srcFile'[g].meta # srcFile[g].meta =>
               \A h \in Sources : srcFile'[g].meta > srcFile[h].meta
          /\ srcFile'[g].meta = srcFile[g].meta => g # f
    BY <1>2
  <2> QED BY <1>1, <2>1, <2>2, <2>3, <2>4 DEF ServerOnly
<1> QED BY <1>3, <1>4, <1>5, ServerMoves

----------------------------------------------------------------------------
(* SyncFeed: steps of the browser *)

LEMMA ServerStays ==
    ASSUME FeedInv, UNCHANGED server
    PROVE  /\ ServerShape' /\ Clocks'
           /\ \A f : Listed(f)' <=> Listed(f)
           /\ \A f, d : Session(f, d)' = Session(f, d) /\ (Recent(f, d)' <=> Recent(f, d))
           /\ \A c : RevReached(c)' <=> RevReached(c)
           /\ \A c : MetaReached(c)' <=> MetaReached(c)
<1>1. UNCHANGED <<stored, srcFile, writing, clock, muted, touching>>
  BY DEF server
<1>2. ServerShape' /\ Clocks'
  BY <1>1 DEF FeedInv, ServerShape, Clocks, Drawn, Numbered
<1>3. /\ \A f : Listed(f)' <=> Listed(f)
      /\ \A f, d : Session(f, d)' = Session(f, d) /\ (Recent(f, d)' <=> Recent(f, d))
  BY <1>1 DEF Listed, Session, Counted, InReach, Recent, InSight
<1> QED BY <1>1, <1>2, <1>3 DEF RevReached, MetaReached

\* A statement of a pull changes nothing but the pull.
LEMMA PullMoves ==
    ASSUME FeedInv, UNCHANGED <<server, idb, shell, cached, chat, history>>,
           ClientShape', Cursors', PullListFits', PullEventsFit'
    PROVE  FeedInv'
<1>1. UNCHANGED <<stored, srcFile, writing, clock, muted, touching, behind, gone, lost, late>>
  BY DEF server, history
<1>2. ListFits' /\ ChatFits'
  BY <1>1, ServerStays DEF FeedInv, ListFits, UpTo, Cleared, Agreed, ChatFits
<1>3. EventsFit'
  BY <1>1, ServerStays DEF FeedInv, EventsFit, HoldsAll, Wanted, Visible, Shown, InReach
<1> QED BY <1>2, <1>3, ServerStays DEF FeedInv

LEMMA AskFits ==
    ASSUME FeedInv, AskHighWater
    PROVE  FeedInv'
<1> DEFINE revs == {e.rev : e \in {x \in stored : Shown(x)}}
<1>1. /\ UNCHANGED <<server, idb, shell, cached, chat, history>>
      /\ pull.step = "ask" /\ Pulling /\ pull.mode = "recent"
      /\ ClientShape /\ Cursors /\ PullEventsFit /\ ServerShape /\ Clocks
  BY DEF AskHighWater, FeedInv, ClientShape, Pulling
<1>2. RevReached(HighWater)
  <2>1. PICK n \in Nat : revs \in SUBSET (0..n)
    BY <1>1 DEF Clocks, ServerShape, Numbered
  <2>2. revs # {} => Highest(revs) \in revs
    <3> HIDE DEF revs
    <3> QED BY <2>1, Extremes
  <2>3. revs = {} => Highest(revs) = 0
    BY DEF Highest
  <2>4. HighWater = Highest(revs)
    BY DEF HighWater
  <2>5. \A k \in revs : \E e \in stored : k = e.rev
    OBVIOUS
  <2>6. \A e \in stored : e.rev \in Nat /\ e.rev <= e.rev
    BY <1>1 DEF ServerShape, Numbered
  <2> HIDE DEF revs
  <2> QED BY <2>2, <2>3, <2>4, <2>5, <2>6 DEF RevReached
<1>3. pull' = [step |-> "rows", mode |-> pull.mode, days |-> pull.days, batch |-> pull.batch,
               cursor |-> HighWater, back |-> [before |-> HighWater + 1, ceiling |-> HighWater],
               mcur |-> pull.mcur, resp |-> pull.resp]
  BY <1>1 DEF AskHighWater, ClientShape
<1>4. HighWater \in Nat
  BY <1>2 DEF RevReached
<1> HIDE DEF revs
<1>5. ClientShape'
  <2>1. BackShape([before |-> HighWater + 1, ceiling |-> HighWater])
    BY <1>4 DEF BackShape
  <2>2. BackShape(pull'.back) /\ RespShape(pull'.resp) /\ idb' = idb
    BY <1>1, <1>3, <2>1 DEF ClientShape
  <2> QED BY <1>1, <1>3, <2>2 DEF ClientShape, Pulling, BackShape, RespShape
<1>6. Cursors'
  BY <1>1, <1>2, <1>3, ServerStays DEF Cursors, Pulling
<1>7. PullListFits'
  BY <1>1, <1>3 DEF PullListFits, Holding
<1>8. PullEventsFit'
  <2>1. stored' = stored
    BY <1>1 DEF server
  <2> QED BY <1>1, <1>3, <1>4, <2>1 DEF PullEventsFit, Holding, Pulling
<1> QED BY <1>1, <1>5, <1>6, <1>7, <1>8, PullMoves

\* What a page of rows holds: all that is visible up to its edge.
LEMMA PageAhead ==
    ASSUME FeedInv, NEW n \in Nat, NEW took, took = FirstBy(FirstBy(Ahead, PageSize), n)
    PROVE  /\ took \subseteq Ahead
           /\ took # {} => \E x \in took : NextCursor(took, pull.cursor) = x.rev
           /\ \A x \in took, e \in Ahead : e.rev <= x.rev => e \in took
<1>1. Numbered(Ahead) /\ Ahead \subseteq stored
  <2>1. Ahead \in SUBSET stored
    BY DEF Ahead, Visible
  <2> QED BY <2>1, FS_Subset DEF FeedInv, ServerShape, Numbered
<1>2. FirstBy(Ahead, PageSize) \in SUBSET Ahead /\ took \subseteq FirstBy(Ahead, PageSize)
  BY DEF FirstBy
<1>3. Numbered(FirstBy(Ahead, PageSize))
  BY <1>1, <1>2, FS_Subset DEF Numbered
<1>4. \A x \in took, e \in Ahead : e.rev <= x.rev => e \in took
  BY <1>1, <1>2, <1>3, FirstByClosed
<1>5. ASSUME took # {} PROVE \E x \in took : NextCursor(took, pull.cursor) = x.rev
  <2> DEFINE revs == {e.rev : e \in took}
  <2>1. PICK m \in Nat : revs \in SUBSET (0..m)
    BY <1>1, <1>2 DEF FeedInv, Clocks, ServerShape, Numbered
  <2>2. Highest(revs) \in revs
    <3>1. revs # {}
      BY <1>5
    <3> HIDE DEF revs
    <3> QED BY <2>1, <3>1, Extremes
  <2> QED BY <1>5, <2>2 DEF NextCursor
<1> QED BY <1>2, <1>4, <1>5

LEMMA PageBelow ==
    ASSUME FeedInv, NEW n \in Nat, NEW took, took = LastBy(LastBy(Below, PageSize), n),
           BackShape(pull.back)
    PROVE  /\ took \subseteq Below
           /\ took # {} => \E x \in took : NextBefore(took, pull.back) =
                                 [before |-> x.rev, ceiling |-> pull.back.ceiling]
           /\ \A x \in took, e \in Below : x.rev <= e.rev => e \in took
<1>1. Numbered(Below) /\ Below \subseteq stored
  <2>1. Below \in SUBSET stored
    BY DEF Below, Visible
  <2> QED BY <2>1, FS_Subset DEF FeedInv, ServerShape, Numbered
<1>2. LastBy(Below, PageSize) \in SUBSET Below /\ took \subseteq LastBy(Below, PageSize)
  BY DEF LastBy
<1>3. Numbered(LastBy(Below, PageSize))
  BY <1>1, <1>2, FS_Subset DEF Numbered
<1>4. \A x \in took, e \in Below : x.rev <= e.rev => e \in took
  BY <1>1, <1>2, <1>3, LastByClosed
<1>5. ASSUME took # {}
      PROVE  \E x \in took : NextBefore(took, pull.back) =
                               [before |-> x.rev, ceiling |-> pull.back.ceiling]
  <2> DEFINE revs == {e.rev : e \in took}
  <2>1. PICK m \in Nat : revs \in SUBSET (0..m)
    BY <1>1, <1>2 DEF FeedInv, Clocks, ServerShape, Numbered
  <2>2. Lowest(revs) \in revs
    <3>1. revs # {}
      BY <1>5
    <3> HIDE DEF revs
    <3> QED BY <2>1, <3>1, Extremes
  <2>3. [pull.back EXCEPT !.before = Lowest(revs)] =
          [before |-> Lowest(revs), ceiling |-> pull.back.ceiling]
    BY DEF BackShape
  <2> QED BY <1>5, <2>2, <2>3 DEF NextBefore
<1> QED BY <1>2, <1>4, <1>5

LEMMA CollectedShape ==
    ASSUME NEW took, NEW all
    PROVE  /\ RespShape(Collected(took, all)) /\ Collected(took, all).events = took
           /\ Collected(took, all).keys = {e.file : e \in took}
           /\ Collected(took, all).full = FALSE
<1> DEFINE m == took # all \/ Cardinality(all) = PageSize
           k == {e.file : e \in took}
<1>1. Collected(took, all) = Response(took, k, FALSE, m)
  BY DEF Collected
<1> HIDE DEF m, k
<1>2. LET r == Response(took, k, FALSE, m)
      IN  RespShape(r) /\ r.events = took /\ r.keys = k /\ r.full = FALSE
  BY DEF Response, RespShape
<1> QED BY <1>1, <1>2 DEF k

LEMMA RowsForwardFits ==
    ASSUME FeedInv, RowsForward
    PROVE  FeedInv'
<1>1. /\ UNCHANGED <<server, idb, shell, cached, chat, history>>
      /\ pull.step = "rows" /\ Pulling /\ pull.mode = "forward"
      /\ ClientShape /\ Cursors /\ PullEventsFit /\ ServerShape /\ Clocks
  BY DEF RowsForward, FeedInv, Pulling
<1> DEFINE all == FirstBy(Ahead, PageSize)
<1>2. PICK n \in 0..PageSize :
        pull' = [pull EXCEPT !.step = "sessions", !.cursor = NextCursor(FirstBy(all, n), @),
                             !.resp = Collected(FirstBy(all, n), all)]
  BY DEF RowsForward
<1> DEFINE took == FirstBy(all, n)
           r == Collected(took, all)
<1>3. RespShape(r) /\ r.events = took /\ r.keys = {e.file : e \in took} /\ r.full = FALSE
  <2> HIDE DEF all, took
  <2> QED BY CollectedShape
<1>6. /\ took \subseteq Ahead
      /\ took # {} => \E x \in took : NextCursor(took, pull.cursor) = x.rev
      /\ \A x \in took, e \in Ahead : e.rev <= x.rev => e \in took
  BY <1>2, PageAhead
<1> HIDE DEF all, r, took
<1>4. pull' = [step |-> "sessions", mode |-> pull.mode, days |-> pull.days,
               batch |-> pull.batch, cursor |-> NextCursor(took, pull.cursor),
               back |-> pull.back, mcur |-> pull.mcur, resp |-> r]
  BY <1>1, <1>2 DEF ClientShape, took, r
<1>7. took \subseteq stored /\ \A e \in stored : e.rev \in Nat /\ e.file \in Sources
  BY <1>1, <1>6 DEF Ahead, Visible, ServerShape, Numbered
<1>8. ClientShape'
  <2>1. BackShape(pull'.back) /\ RespShape(pull'.resp) /\ idb' = idb
    BY <1>1, <1>4, <1>3 DEF ClientShape
  <2> QED BY <1>1, <1>4, <2>1 DEF ClientShape, Pulling, BackShape, RespShape
<1>9. RevReached(NextCursor(took, pull.cursor))
  <2>1. CASE took = {}
    BY <1>1, <2>1 DEF Cursors, NextCursor
  <2>2. CASE took # {}
    <3>1. \A x \in took : x \in stored /\ x.rev \in Nat /\ x.rev <= x.rev
      BY <1>7
    <3> QED BY <1>6, <2>2, <3>1 DEF RevReached
  <2> QED BY <2>1, <2>2
<1>10. Cursors'
  BY <1>1, <1>4, <1>9, ServerStays DEF Cursors, Pulling
<1>11. PullListFits'
  <2>1. {e.file : e \in took} \subseteq Sources
    BY <1>7
  <2> QED BY <1>1, <1>4, <1>3, <2>1 DEF PullListFits, Holding
<1>12. HoldsAll(idb.cursor + 1, NextCursor(took, pull.cursor), took)
  <2> SUFFICES ASSUME NEW e \in stored, Wanted(e), idb.cursor + 1 <= e.rev,
                      e.rev <= NextCursor(took, pull.cursor)
               PROVE  e \in took
    BY DEF HoldsAll
  <2>1. /\ pull.cursor = idb.cursor /\ pull.days = idb.lookback
        /\ idb.cursor \in Nat /\ e.rev \in Nat
    BY <1>1, <1>7 DEF PullEventsFit, ClientShape, Cursors, RevReached
  <2>2. e \in Ahead
    BY <2>1 DEF Wanted, Ahead
  <2>3. took # {}
    BY <2>1 DEF NextCursor
  <2> QED BY <1>6, <2>2, <2>3
<1>13. PullEventsFit'
  <2>1. UNCHANGED <<stored, srcFile, muted, gone, late, idb>>
    BY <1>1 DEF server, history
  <2>2. \A e : Wanted(e)' <=> Wanted(e)
    BY <2>1, <1>1, ServerStays DEF Wanted, Visible, Shown, InReach
  <2>3. /\ pull'.mode = "forward" /\ pull'.step = "sessions" /\ pull'.resp.events = took
        /\ pull'.cursor = NextCursor(took, pull.cursor)
    BY <1>1, <1>4, <1>3
  <2>4. HoldsAll(idb.cursor + 1, pull.cursor, pull.resp.events)'
    BY <1>12, <2>1, <2>2, <2>3 DEF HoldsAll
  <2> QED BY <1>7, <2>1, <2>3, <2>4 DEF PullEventsFit, Holding
<1> QED BY <1>1, <1>8, <1>10, <1>11, <1>13, PullMoves

LEMMA RowsBackFits ==
    ASSUME FeedInv, RowsBack
    PROVE  FeedInv'
<1>1. /\ UNCHANGED <<server, idb, shell, cached, chat, history>>
      /\ pull.step = "rows" /\ Pulling /\ pull.mode \in {"recent", "backfill"}
      /\ ClientShape /\ Cursors /\ PullEventsFit /\ ServerShape /\ Clocks
  BY DEF RowsBack, FeedInv, ClientShape, Pulling
<1> DEFINE all == LastBy(Below, PageSize)
<1>2. PICK n \in 0..PageSize :
        pull' = [pull EXCEPT !.step = "sessions", !.back = NextBefore(LastBy(all, n), @),
                             !.resp = Collected(LastBy(all, n), all)]
  BY DEF RowsBack
<1> DEFINE took == LastBy(all, n)
           back == NextBefore(took, pull.back)
           r == Collected(took, all)
<1>3. RespShape(r) /\ r.events = took /\ r.keys = {e.file : e \in took} /\ r.full = FALSE
  <2> HIDE DEF all, took
  <2> QED BY CollectedShape
<1>4. /\ took \subseteq Below
      /\ took # {} => \E x \in took : back = [before |-> x.rev, ceiling |-> pull.back.ceiling]
      /\ \A x \in took, e \in Below : x.rev <= e.rev => e \in took
  <2>1. BackShape(pull.back)
    BY <1>1 DEF ClientShape
  <2> QED BY <1>2, <2>1, PageBelow
<1>5. took = {} => back = pull.back
  BY DEF NextBefore
<1> HIDE DEF all, r, took, back
<1>6. pull' = [step |-> "sessions", mode |-> pull.mode, days |-> pull.days,
               batch |-> pull.batch, cursor |-> pull.cursor, back |-> back,
               mcur |-> pull.mcur, resp |-> r]
  BY <1>1, <1>2 DEF ClientShape, took, r, back
<1>7. took \subseteq stored /\ \A e \in stored : e.rev \in Nat /\ e.file \in Sources
  BY <1>1, <1>4 DEF Below, Visible, ServerShape, Numbered
<1>8. /\ BackShape(pull.back) /\ pull.back.before \in Nat /\ pull.back.ceiling \in Nat
      /\ pull.back.before <= pull.back.ceiling + 1
      /\ pull.days = idb.lookback /\ idb.cursor \in Nat /\ pull.cursor \in Nat
  BY <1>1 DEF ClientShape, BackShape, Cursors, RevReached
<1>9. BackShape(back)
  <2>1. CASE took = {}
    BY <1>5, <1>8, <2>1
  <2>2. CASE took # {}
    <3>1. PICK x \in took : back = [before |-> x.rev, ceiling |-> pull.back.ceiling]
      BY <1>4, <2>2
    <3>2. x.rev \in Nat /\ x.rev <= pull.back.ceiling
      BY <1>4, <1>7 DEF Below
    <3> QED BY <1>8, <3>1, <3>2 DEF BackShape
  <2> QED BY <2>1, <2>2
<1>10. ClientShape'
  <2>1. BackShape(pull'.back) /\ RespShape(pull'.resp) /\ idb' = idb
    BY <1>1, <1>3, <1>6, <1>9
  <2> QED BY <1>1, <1>6, <2>1 DEF ClientShape, Pulling, BackShape, RespShape
<1>11. Cursors'
  BY <1>1, <1>6, ServerStays DEF Cursors, Pulling
<1>12. PullListFits'
  <2>1. {e.file : e \in took} \subseteq Sources
    BY <1>7
  <2> QED BY <1>1, <1>6, <1>3, <2>1 DEF PullListFits, Holding
<1>13. ASSUME NEW e \in Below, back.before <= e.rev, e.rev < pull.back.before
       PROVE  e \in took
  <2>1. e.rev \in Nat
    BY <1>7 DEF Below, Visible
  <2>2. took # {}
    BY <1>5, <1>8, <1>13, <2>1
  <2>3. PICK x \in took : back = [before |-> x.rev, ceiling |-> pull.back.ceiling]
    BY <1>4, <2>2
  <2> QED BY <1>4, <1>13, <2>3
<1>14. ASSUME NEW e \in Visible(pull.days), e.rev < pull.back.before
       PROVE  e \in Below
  <2>1. e.rev \in Nat
    BY <1>7 DEF Visible
  <2> QED BY <1>8, <1>14, <2>1 DEF Below
<1>15. ASSUME pull.mode = "backfill"
       PROVE  HoldsAll(back.before, idb.cursor, cached \cup took)
  <2> SUFFICES ASSUME NEW e \in stored, Wanted(e), back.before <= e.rev, e.rev <= idb.cursor,
                      e \notin cached
               PROVE  e \in took
    BY DEF HoldsAll
  <2>1. HoldsAll(pull.back.before, idb.cursor, cached) /\ e.rev \in Nat
    BY <1>1, <1>7, <1>15 DEF PullEventsFit
  <2>2. e.rev < pull.back.before
    BY <1>8, <2>1 DEF HoldsAll
  <2>3. e \in Below
    BY <1>8, <1>14, <2>2 DEF Wanted
  <2> QED BY <1>13, <2>2, <2>3
<1>16. ASSUME pull.mode = "recent"
       PROVE  /\ HoldsAll(back.before, pull.cursor, took)
              /\ \A e \in stored : (e.gen = srcFile[e.file].gen /\ InReach(e, pull.days)
                                    /\ back.before <= e.rev /\ e.rev <= pull.cursor
                                    /\ e.file \in r.keys) => e \in took
  <2>1. ASSUME NEW e \in Visible(pull.days), back.before <= e.rev, e.rev <= pull.cursor
        PROVE  e \in took
    <3>1. e.rev \in Nat /\ pull.back.before > pull.cursor
      BY <1>1, <1>7, <1>16 DEF PullEventsFit, Visible
    <3>2. e.rev < pull.back.before
      BY <1>8, <2>1, <3>1
    <3> QED BY <1>13, <1>14, <2>1, <3>2
  <2>2. \A e \in stored : (e.gen = srcFile[e.file].gen /\ InReach(e, pull.days)
                          /\ back.before <= e.rev /\ e.rev <= pull.cursor
                          /\ e.file \in r.keys) => e \in took
    <3> SUFFICES ASSUME NEW e \in stored, e.gen = srcFile[e.file].gen, InReach(e, pull.days),
                        back.before <= e.rev, e.rev <= pull.cursor, e.file \in r.keys
                 PROVE  e \in took
      OBVIOUS
    <3>1. PICK x \in took : x.file = e.file
      BY <1>3
    <3>2. Listed(e.file)
      BY <1>4, <3>1 DEF Below, Visible, Shown
    <3> QED BY <2>1, <3>2 DEF Visible, Shown
  <2>3. \A e : Wanted(e) => e \in Visible(pull.days)
    BY <1>8 DEF Wanted
  <2>4. HoldsAll(back.before, pull.cursor, took)
    BY <2>1, <2>3 DEF HoldsAll
  <2> QED BY <2>2, <2>4
<1>17. PullEventsFit'
  <2>1. UNCHANGED <<stored, srcFile, muted, gone, late, idb, cached>>
    BY <1>1 DEF server, history
  <2>2. \A e : Wanted(e)' <=> Wanted(e)
    BY <2>1, <1>1, ServerStays DEF Wanted, Visible, Shown, InReach
  <2>3. /\ pull'.mode = pull.mode /\ pull'.step = "sessions" /\ pull'.resp.events = took
        /\ pull'.cursor = pull.cursor /\ pull'.back = back /\ pull'.resp.keys = r.keys
        /\ pull'.days = pull.days
    BY <1>3, <1>6
  <2>4. pull.mode = "backfill" =>
          HoldsAll(pull.back.before, idb.cursor, cached \cup pull.resp.events)'
    BY <1>15, <2>1, <2>2, <2>3 DEF HoldsAll
  <2>5. pull.mode = "recent" => HoldsAll(pull.back.before, pull.cursor, pull.resp.events)'
    BY <1>16, <2>1, <2>2, <2>3 DEF HoldsAll
  <2>6. pull.mode = "recent" =>
          \A e \in stored' : Stays(e)' /\ e.file \in pull'.resp.keys => e \in pull'.resp.events
    BY <1>16, <2>1, <2>3 DEF Stays, InReach
  <2> QED BY <1>1, <1>7, <2>1, <2>3, <2>4, <2>5, <2>6 DEF PullEventsFit, Holding
<1> QED BY <1>1, <1>10, <1>11, <1>12, <1>17, PullMoves

\* The highest revision of files: MetaHighWater, or the cursor of a delta.
LEMMA HighestMeta ==
    ASSUME FeedInv, NEW S \in SUBSET Sources, NEW c \in Nat, MetaReached(c)
    PROVE  LET top == Highest({srcFile[f].meta : f \in S} \cup {c})
           IN  /\ MetaReached(top)
               /\ top = c \/ \E f \in S : top = srcFile[f].meta
<1> DEFINE metas == {srcFile[f].meta : f \in S} \cup {c}
<1>1. \A f \in Sources : srcFile[f].meta \in Nat /\ srcFile[f].meta <= clock.meta
  BY DEF FeedInv, ServerShape, Clocks
<1>2. clock.meta \in Nat
  BY DEF FeedInv, ServerShape
<1>3. c <= clock.meta
  <2>1. CASE c = 0
    BY <1>2, <2>1
  <2>2. CASE \E f \in Sources : c <= srcFile[f].meta
    BY <1>1, <1>2, <2>2
  <2> QED BY <2>1, <2>2 DEF MetaReached
<1>4. metas \in SUBSET (0..clock.meta) /\ metas # {}
  BY <1>1, <1>2, <1>3
<1>5. Highest(metas) \in metas
  <2> HIDE DEF metas
  <2> QED BY <1>2, <1>4, Extremes
<1>6. Highest(metas) = c \/ \E f \in S : Highest(metas) = srcFile[f].meta
  BY <1>5
<1>7. \A f \in S : MetaReached(srcFile[f].meta)
  BY <1>1 DEF MetaReached
<1> HIDE DEF metas
<1>8. MetaReached(Highest(metas))
  BY <1>6, <1>7
<1> QED BY <1>6, <1>8 DEF metas

LEMMA MetaHighWaterReached ==
    ASSUME FeedInv
    PROVE  MetaReached(MetaHighWater)
<1> DEFINE metas == {srcFile[f].meta : f \in Sources}
<1>1. \A f \in Sources : srcFile[f].meta \in Nat /\ srcFile[f].meta <= clock.meta
  BY DEF FeedInv, ServerShape, Clocks
<1>2. clock.meta \in Nat
  BY DEF FeedInv, ServerShape
<1>3. metas \in SUBSET (0..clock.meta)
  BY <1>1, <1>2
<1>4. metas # {} => Highest(metas) \in metas
  <2> HIDE DEF metas
  <2> QED BY <1>2, <1>3, Extremes
<1>5. metas = {} => Highest(metas) = 0
  BY DEF Highest
<1>6. \A k \in metas : MetaReached(k)
  BY <1>1 DEF MetaReached
<1>7. MetaReached(0)
  BY DEF MetaReached
<1>8. MetaHighWater = Highest(metas)
  BY DEF MetaHighWater
<1> HIDE DEF metas
<1> QED BY <1>4, <1>5, <1>6, <1>7, <1>8

\* The page of a delta holds all that has changed up to its cursor.
LEMMA DeltaPage ==
    ASSUME FeedInv, pull.mcur \in Nat, MetaReached(pull.mcur), NEW page,
           page = {f \in Changed : Cardinality({g \in Changed : srcFile[g].meta < srcFile[f].meta})
                                   < MetaPage}
    PROVE  /\ page \subseteq Sources /\ MetaReached(DeltaCursor(page))
           /\ \A f \in Sources : srcFile[f].meta <= DeltaCursor(page) =>
                f \in page \/ srcFile[f].meta <= pull.mcur
<1> DEFINE Before(f) == {g \in Changed : srcFile[g].meta < srcFile[f].meta}
<1>1. \A f \in Sources : srcFile[f].meta \in Nat
  BY DEF FeedInv, ServerShape
<1>2. page \in SUBSET Sources
  BY DEF Changed
<1>3. /\ MetaReached(DeltaCursor(page))
      /\ DeltaCursor(page) = pull.mcur \/ \E f \in page : DeltaCursor(page) = srcFile[f].meta
  BY <1>2, HighestMeta DEF DeltaCursor
<1>4. \A f \in Sources : IsFiniteSet(Before(f)) /\ Cardinality(Before(f)) \in Nat
  <2> SUFFICES ASSUME NEW f \in Sources
               PROVE  IsFiniteSet(Before(f)) /\ Cardinality(Before(f)) \in Nat
    OBVIOUS
  <2>1. Before(f) \in SUBSET Sources /\ IsFiniteSet(Sources)
    BY DEF Changed
  <2> HIDE DEF Before
  <2> QED BY <2>1, FS_Subset, FS_CardinalityType
<1>5. ASSUME NEW f \in Sources, srcFile[f].meta <= DeltaCursor(page), f \notin page,
             ~(srcFile[f].meta <= pull.mcur)
      PROVE  FALSE
  <2>1. f \in Changed
    BY <1>1, <1>5 DEF Changed
  <2>2. PICK g \in page : DeltaCursor(page) = srcFile[g].meta
    BY <1>3, <1>5
  <2>3. g \in Sources /\ srcFile[f].meta <= srcFile[g].meta
    BY <1>2, <1>5, <2>2
  <2>4. Before(f) \in SUBSET Before(g)
    <3>1. \A h \in Sources : srcFile[h].meta < srcFile[f].meta => srcFile[h].meta < srcFile[g].meta
      BY <1>1, <2>3
    <3> QED BY <3>1 DEF Changed
  <2>5. Cardinality(Before(g)) < MetaPage /\ MetaPage \in Nat
    BY <2>2
  <2>6. Cardinality(Before(f)) < MetaPage
    <3> HIDE DEF Before
    <3>1. Cardinality(Before(f)) <= Cardinality(Before(g))
      BY <1>4, <2>3, <2>4, FS_Subset
    <3> QED BY <1>4, <2>3, <2>5, <3>1
  <2>7. f \in page
    BY <2>1, <2>6
  <2> QED BY <1>5, <2>7
<1> QED BY <1>2, <1>3, <1>5

LEMMA KeysFits ==
    ASSUME FeedInv, Keys
    PROVE  FeedInv'
<1> DEFINE page == {f \in Changed :
                      Cardinality({g \in Changed : srcFile[g].meta < srcFile[f].meta}) < MetaPage}
<1>1. /\ UNCHANGED <<server, idb, shell, cached, chat, history>>
      /\ pull.step = "keys" /\ Pulling /\ pull.mode = "meta"
      /\ ClientShape /\ Cursors /\ PullEventsFit /\ PullListFits /\ ServerShape /\ Clocks
  BY DEF Keys, FeedInv, ClientShape, Pulling
<1>2. pull.mcur \in Nat /\ MetaReached(pull.mcur)
  BY <1>1 DEF Cursors, MetaReached
<1>3. \E m, r :
        /\ MetaReached(m) /\ RespShape(r) /\ r.events = {} /\ r.keys \subseteq Sources
        /\ r.full => r.keys = Sources
        /\ \A f \in Sources \ r.keys : Cleared(f) /\ srcFile[f].meta <= m => Agreed(f)
        /\ pull' = [pull EXCEPT !.step = "sessions", !.mcur = m, !.resp = r]
  <2>1. CASE pull.mcur = 0
    <3> DEFINE r == Response({}, Sources, TRUE, FALSE)
    <3>1. RespShape(r) /\ r.events = {} /\ r.keys = Sources
      BY DEF Response, RespShape
    <3>2. pull' = [pull EXCEPT !.step = "sessions", !.mcur = MetaHighWater, !.resp = r]
      BY <2>1 DEF Keys
    <3> HIDE DEF r
    <3> QED BY <3>1, <3>2, MetaHighWaterReached
  <2>2. CASE pull.mcur # 0
    <3> DEFINE m == page # Changed
               r == Response({}, page, FALSE, m)
    <3>1. pull' = [pull EXCEPT !.step = "sessions", !.mcur = DeltaCursor(page), !.resp = r]
      BY <2>2 DEF Keys
    <3>2. /\ page \subseteq Sources /\ MetaReached(DeltaCursor(page))
          /\ \A f \in Sources : srcFile[f].meta <= DeltaCursor(page) =>
               f \in page \/ srcFile[f].meta <= pull.mcur
      BY <1>2, DeltaPage
    <3> HIDE DEF page, m
    <3>3. RespShape(r) /\ r.events = {} /\ r.keys = page /\ r.full = FALSE
      BY DEF Response, RespShape
    <3> HIDE DEF r
    <3>4. UpTo(pull.mcur)
      BY <1>1, <1>2, <2>2 DEF PullListFits
    <3>5. \A f \in Sources \ page : Cleared(f) /\ srcFile[f].meta <= DeltaCursor(page) => Agreed(f)
      BY <3>2, <3>4 DEF UpTo
    <3> QED BY <3>1, <3>2, <3>3, <3>5
  <2> QED BY <2>1, <2>2
<1> HIDE DEF page
<1>4. PICK m, r :
        /\ MetaReached(m) /\ RespShape(r) /\ r.events = {} /\ r.keys \subseteq Sources
        /\ r.full => r.keys = Sources
        /\ \A f \in Sources \ r.keys : Cleared(f) /\ srcFile[f].meta <= m => Agreed(f)
        /\ pull' = [pull EXCEPT !.step = "sessions", !.mcur = m, !.resp = r]
  BY <1>3
<1>5. pull' = [step |-> "sessions", mode |-> pull.mode, days |-> pull.days,
               batch |-> pull.batch, cursor |-> pull.cursor, back |-> pull.back,
               mcur |-> m, resp |-> r]
  BY <1>1, <1>4 DEF ClientShape
<1>6. ClientShape'
  <2>1. BackShape(pull'.back) /\ RespShape(pull'.resp) /\ idb' = idb
    BY <1>1, <1>4, <1>5 DEF ClientShape
  <2> QED BY <1>1, <1>5, <2>1 DEF ClientShape, Pulling, BackShape, RespShape
<1>7. Cursors'
  BY <1>1, <1>4, <1>5, ServerStays DEF Cursors, Pulling
<1>8. PullListFits'
  <2>1. UNCHANGED <<srcFile, muted, touching, behind, lost, idb, shell>>
    BY <1>1 DEF server, history
  <2>2. \A f : (Agreed(f)' <=> Agreed(f)) /\ (Cleared(f)' <=> Cleared(f))
    BY <1>1, <2>1, ServerStays DEF Agreed, Cleared
  <2>3. pull'.step = "sessions" /\ pull'.mode = "meta" /\ pull'.resp = r /\ pull'.mcur = m
    BY <1>1, <1>5
  <2> QED BY <1>4, <2>1, <2>2, <2>3 DEF PullListFits, Holding
<1>9. PullEventsFit'
  <2>1. stored' = stored
    BY <1>1 DEF server
  <2> QED BY <1>1, <1>4, <1>5, <2>1 DEF PullEventsFit, Holding, Pulling
<1> QED BY <1>1, <1>6, <1>7, <1>8, <1>9, PullMoves

LEMMA SessionsFits ==
    ASSUME FeedInv, Sessions
    PROVE  FeedInv'
<1> DEFINE sessions == IF pull.resp.full THEN FullShell(pull.days)
                       ELSE SessionsOf(pull.resp.keys, pull.days)
           dead == IF pull.mode = "meta" /\ ~pull.resp.full
                   THEN GoneOf(pull.resp.keys, pull.days) ELSE {}
           r == [events |-> pull.resp.events, keys |-> pull.resp.keys, full |-> pull.resp.full,
                 more |-> pull.resp.more, sessions |-> sessions, dead |-> dead]
<1>1. /\ UNCHANGED <<server, idb, shell, cached, chat, history>>
      /\ pull.step = "sessions" /\ Pulling /\ Holding
      /\ ClientShape /\ Cursors /\ PullEventsFit /\ PullListFits
  BY DEF Sessions, FeedInv, Pulling, Holding
<1>2. /\ pull.resp.keys \subseteq Sources
      /\ pull.resp.full => pull.mode = "meta" /\ pull.resp.keys = Sources
  BY <1>1 DEF PullListFits
<1>3. /\ DOMAIN sessions = {f \in pull.resp.keys : Reached(f, pull.days)}
      /\ \A f \in pull.resp.keys : Reached(f, pull.days) => sessions[f] = Session(f, pull.days)
  BY <1>2 DEF FullShell, SessionsOf
<1>4. /\ \A f \in pull.resp.keys :
           pull.mode = "meta" /\ ~pull.resp.full /\ Recent(f, pull.days) =>
               (f \in dead <=> ~Listed(f))
      /\ dead \subseteq pull.resp.keys
      /\ pull.resp.full \/ pull.mode # "meta" => dead = {}
  BY DEF GoneOf
<1>5. pull' = [pull EXCEPT !.step = "apply", !.resp.sessions = sessions, !.resp.dead = dead]
  BY DEF Sessions
<1> HIDE DEF sessions, dead
<1>6. pull' = [pull EXCEPT !.step = "apply", !.resp = r]
  <2> DEFINE r1 == [pull.resp EXCEPT !.sessions = sessions]
  <2>1. r1 = [events |-> pull.resp.events, keys |-> pull.resp.keys, full |-> pull.resp.full,
              more |-> pull.resp.more, sessions |-> sessions, dead |-> pull.resp.dead]
    BY <1>1 DEF ClientShape, RespShape
  <2>2. pull' = [pull EXCEPT !.step = "apply", !.resp = [r1 EXCEPT !.dead = dead]]
    BY <1>1, <1>5 DEF ClientShape
  <2> HIDE DEF r1
  <2>3. [r1 EXCEPT !.dead = dead] = r
    BY <2>1
  <2> QED BY <2>2, <2>3
<1>7. /\ RespShape(r) /\ r.sessions = sessions /\ r.dead = dead /\ r.events = pull.resp.events
      /\ r.keys = pull.resp.keys /\ r.full = pull.resp.full
  BY DEF RespShape
<1> HIDE DEF r
<1>8. pull' = [step |-> "apply", mode |-> pull.mode, days |-> pull.days,
               batch |-> pull.batch, cursor |-> pull.cursor, back |-> pull.back,
               mcur |-> pull.mcur, resp |-> r]
  BY <1>1, <1>6 DEF ClientShape
<1>9. ClientShape'
  <2>1. BackShape(pull'.back) /\ RespShape(pull'.resp) /\ idb' = idb
    BY <1>1, <1>7, <1>8 DEF ClientShape
  <2> QED BY <1>1, <1>8, <2>1 DEF ClientShape, Pulling, BackShape, RespShape
<1>10. Cursors'
  BY <1>1, <1>8, ServerStays DEF Cursors, Pulling
<1>11. PullListFits'
  <2>1. UNCHANGED <<srcFile, muted, touching, behind, lost, idb, shell>>
    BY <1>1 DEF server, history
  <2>2. \A f : /\ (Agreed(f)' <=> Agreed(f)) /\ (Cleared(f)' <=> Cleared(f))
               /\ Listed(f)' <=> Listed(f)
               /\ \A d : Session(f, d)' = Session(f, d) /\ (Recent(f, d)' <=> Recent(f, d))
    BY <1>1, <2>1, ServerStays DEF Agreed, Cleared
  <2>3. /\ pull'.step = "apply" /\ pull'.mode = pull.mode /\ pull'.resp = r
        /\ pull'.mcur = pull.mcur /\ pull'.days = pull.days
    BY <1>1, <1>8
  <2>4. \A f \in r.keys : ReadRight(f)'
    BY <1>3, <1>4, <1>7, <2>2, <2>3 DEF ReadRight, Reached
  <2>5. /\ DOMAIN r.sessions \cup r.dead \subseteq r.keys
        /\ r.full \/ pull.mode # "meta" => r.dead = {}
    BY <1>3, <1>4, <1>7
  <2>6. Holding => /\ pull.resp.keys \subseteq Sources
                   /\ pull.resp.full => pull.mode = "meta" /\ pull.resp.keys = Sources
                   /\ pull.mode = "meta" => \A f \in Sources \ pull.resp.keys :
                        Cleared(f) /\ srcFile[f].meta <= pull.mcur => Agreed(f)
    BY <1>1 DEF PullListFits
  <2> QED BY <1>1, <1>7, <2>1, <2>2, <2>3, <2>4, <2>5, <2>6 DEF PullListFits, Holding
<1>12. PullEventsFit'
  <2>1. UNCHANGED <<stored, srcFile, muted, gone, late, idb, cached>>
    BY <1>1 DEF server, history
  <2>2. \A e : Wanted(e)' <=> Wanted(e)
    BY <2>1, <1>1, ServerStays DEF Wanted, Visible, Shown, InReach
  <2>3. /\ pull'.mode = pull.mode /\ pull'.step = "apply" /\ pull'.resp.events = pull.resp.events
        /\ pull'.cursor = pull.cursor /\ pull'.back = pull.back /\ pull'.resp.keys = pull.resp.keys
        /\ pull'.days = pull.days
    BY <1>7, <1>8
  <2>4. \A e : Stays(e)' <=> Stays(e)
    BY <2>1, <2>3 DEF Stays, InReach
  <2>5. \A low, high, S : HoldsAll(low, high, S) => HoldsAll(low, high, S)'
    BY <2>1, <2>2 DEF HoldsAll
  <2>6. PullEventsFit /\ Holding /\ Pulling
    BY <1>1
  <2> QED BY <2>1, <2>3, <2>4, <2>5, <2>6 DEF PullEventsFit, Holding, Pulling
<1> QED BY <1>1, <1>9, <1>10, <1>11, <1>12, PullMoves

\* What else writes the cache takes away only what it marks, and keeps the list right.
LEMMA ForgottenShape ==
    ASSUME NEW m, m = [cursor |-> m.cursor, back |-> m.back, more |-> m.more,
                       mcur |-> m.mcur, lookback |-> m.lookback]
    PROVE  Forgotten(m) = [cursor |-> m.cursor, back |-> NoBack, more |-> FALSE, mcur |-> 0,
                           lookback |-> m.lookback]
<1> DEFINE no == FALSE
           m1 == [m EXCEPT !.back = NoBack]
           m2 == [m1 EXCEPT !.more = no]
<1>1. m1 = [cursor |-> m.cursor, back |-> NoBack, more |-> m.more, mcur |-> m.mcur,
            lookback |-> m.lookback]
  OBVIOUS
<1>2. Forgotten(m) = [m2 EXCEPT !.mcur = 0]
  BY DEF Forgotten
<1> HIDE DEF m1, no
<1>3. m2 = [cursor |-> m.cursor, back |-> NoBack, more |-> no, mcur |-> m.mcur,
            lookback |-> m.lookback]
  BY <1>1
<1> HIDE DEF m2
<1>4. Forgotten(m) = [cursor |-> m.cursor, back |-> NoBack, more |-> no, mcur |-> 0,
                      lookback |-> m.lookback]
  BY <1>2, <1>3
<1> QED BY <1>4 DEF no

LEMMA CacheMoves ==
    ASSUME FeedInv, UNCHANGED <<server, late>>, pull' = pull \/ pull' = Idle,
           idb' = idb \/ idb' = Forgotten(idb),
           cached' \subseteq stored, DOMAIN shell' \subseteq Sources, ChatFits',
           \A f \in Sources : Cleared(f)' => Cleared(f) /\ (Agreed(f) => Agreed(f)'),
           \A e : Wanted(e)' => Wanted(e) /\ (e \in cached => e \in cached')
    PROVE  FeedInv'
<1> USE DEF FeedInv
<1>1. /\ UNCHANGED <<stored, srcFile, muted, touching, late>>
      /\ \A f : Listed(f)' <=> Listed(f)
      /\ \A f, d : Session(f, d)' = Session(f, d) /\ (Recent(f, d)' <=> Recent(f, d))
      /\ \A c : RevReached(c)' <=> RevReached(c)
      /\ \A c : MetaReached(c)' <=> MetaReached(c)
      /\ ServerShape' /\ Clocks'
  BY ServerStays DEF server
<1>2. /\ idb' = [cursor |-> idb.cursor, back |-> idb'.back, more |-> idb'.more,
                 mcur |-> idb'.mcur, lookback |-> idb.lookback]
      /\ \/ idb'.back = idb.back /\ idb'.mcur = idb.mcur
         \/ idb'.back = NoBack /\ idb'.mcur = 0
  <2>1. idb = [cursor |-> idb.cursor, back |-> idb.back, more |-> idb.more,
               mcur |-> idb.mcur, lookback |-> idb.lookback]
    BY DEF ClientShape
  <2> QED BY <2>1, ForgottenShape
<1>3. idb'.cursor = idb.cursor /\ idb'.lookback = idb.lookback
  BY <1>2
<1>4. Pulling' => Pulling /\ pull' = pull
  BY DEF Pulling, Idle
<1>5. ClientShape'
  <2>1. BackShape(NoBack)
    BY DEF BackShape, NoBack
  <2>2. ClientShape /\ BackShape(idb.back)
    BY DEF ClientShape
  <2>3. BackShape(idb'.back)
    BY <1>2, <2>1, <2>2
  <2>4. pull'.step \in {"idle", "ask", "rows", "keys", "sessions", "apply"}
    BY <2>2 DEF ClientShape, Idle
  <2> QED BY <1>2, <1>3, <1>4, <2>2, <2>3, <2>4 DEF ClientShape, Pulling, BackShape, RespShape
<1>6. Cursors'
  <2>1. MetaReached(0)
    BY DEF MetaReached
  <2> QED BY <1>1, <1>2, <1>3, <1>4, <2>1 DEF Cursors, Pulling
<1>7. \A c : UpTo(c) => UpTo(c)'
  BY <1>1 DEF UpTo
<1>8. ListFits'
  BY <1>2, <1>7 DEF ListFits
<1>9. ASSUME Pulling' PROVE PullListFits'
  <2>1. PullListFits /\ pull' = pull
    BY <1>4, <1>9
  <2>2. \A f \in Sources : srcFile'[f].meta <= idb'.mcur => srcFile[f].meta <= idb.mcur
    <3>1. idb.mcur \in Nat /\ \A f \in Sources : srcFile[f].meta \in Nat
      BY DEF Cursors, MetaReached, ServerShape
    <3> QED BY <1>1, <1>2, <3>1
  <2>3. \A f : ReadRight(f) => ReadRight(f)'
    BY <1>1, <2>1 DEF ReadRight
  <2>4. pull.step = "keys" /\ pull.mcur > 0 => UpTo(pull.mcur)'
    BY <1>7, <2>1 DEF PullListFits
  <2>5. ASSUME Holding, pull.mode = "meta", NEW f \in Sources \ pull.resp.keys,
               Cleared(f)', srcFile[f].meta <= pull.mcur
        PROVE  Agreed(f)'
    BY <2>1, <2>5 DEF PullListFits
  <2>6. ASSUME pull.step = "apply", NEW f \in pull.resp.keys, Cleared(f)',
               \/ srcFile'[f].meta <= idb'.mcur
               \/ pull.mode = "meta" /\ srcFile[f].meta <= pull.mcur
        PROVE  ReadRight(f)'
    <3>1. f \in Sources
      BY <2>1, <2>6 DEF PullListFits, Holding
    <3>2. Cleared(f) /\ (srcFile'[f].meta <= idb'.mcur => srcFile[f].meta <= idb.mcur)
      BY <2>2, <2>6, <3>1
    <3>3. ReadRight(f)
      BY <2>1, <2>6, <3>2 DEF PullListFits
    <3> QED BY <2>3, <3>3
  <2>7. /\ Holding => /\ pull.resp.keys \subseteq Sources
                      /\ pull.resp.full => pull.mode = "meta" /\ pull.resp.keys = Sources
        /\ pull.step = "apply" =>
             /\ DOMAIN pull.resp.sessions \cup pull.resp.dead \subseteq pull.resp.keys
             /\ pull.resp.full \/ pull.mode # "meta" => pull.resp.dead = {}
    BY <2>1 DEF PullListFits
  <2> QED BY <1>1, <2>1, <2>4, <2>5, <2>6, <2>7 DEF PullListFits, Holding
<1>10. ASSUME NEW low, NEW high, HoldsAll(low, high, cached) PROVE HoldsAll(low, high, cached)'
  BY <1>1, <1>10 DEF HoldsAll
<1>11. EventsFit'
  BY <1>1, <1>2, <1>3, <1>10 DEF EventsFit
<1>12. ASSUME Pulling' PROVE PullEventsFit'
  <2>1. PullEventsFit /\ pull' = pull /\ Pulling
    BY <1>4, <1>12
  <2>2. \A e : Stays(e)' => Stays(e)
    BY <1>1, <2>1 DEF Stays, InReach
  <2>3. \A low, high, S : HoldsAll(low, high, S) => HoldsAll(low, high, S)'
    BY <1>1 DEF HoldsAll
  <2>4. ASSUME NEW low, NEW high, HoldsAll(low, high, cached \cup pull.resp.events)
        PROVE  HoldsAll(low, high, cached \cup pull.resp.events)'
    BY <1>1, <2>1, <2>4 DEF HoldsAll
  <2> QED BY <1>1, <1>3, <1>10, <2>1, <2>2, <2>3, <2>4 DEF PullEventsFit, Holding, Pulling
<1> QED BY <1>1, <1>5, <1>6, <1>8, <1>9, <1>11, <1>12

LEMMA CacheStepsFit ==
    ASSUME FeedInv, \/ ResetCursors \/ SetRetention \/ PullFails
    PROVE  FeedInv'
<1> USE DEF FeedInv
<1>1. /\ UNCHANGED <<server, late, behind, chat>> /\ gone \subseteq gone' /\ lost \subseteq lost'
      /\ pull' = pull \/ pull' = Idle
      /\ idb' = idb \/ idb' = Forgotten(idb)
      /\ cached' \subseteq cached
  BY DEF ResetCursors, SetRetention, PullFails, history, Keep, Pruned
<1>2. /\ UNCHANGED <<stored, srcFile, muted, touching, late, behind, chat>>
      /\ \A f : Listed(f)' <=> Listed(f)
      /\ \A f, d : Session(f, d)' = Session(f, d) /\ (Recent(f, d)' <=> Recent(f, d))
  BY <1>1, ServerStays DEF server
\* The entries that a step takes are muted, noted, or of chats that are not shown.
<1>3. PICK out : /\ shell' = Without(shell, out)
                 /\ \A f \in DOMAIN shell \cap out :
                      f \in muted \/ f \in lost' \/ ~InSight(shell[f].seen, idb.lookback)
  <2>1. CASE ResetCursors
    BY <2>1 DEF ResetCursors
  <2>2. CASE SetRetention
    BY <2>2 DEF SetRetention
  <2>3. CASE PullFails
    <3>1. pull.days = idb.lookback
      BY <2>3 DEF PullFails, ClientShape, Pulling
    <3> QED BY <2>3, <3>1 DEF PullFails, Aged
  <2> QED BY <2>1, <2>2, <2>3
<1>4. /\ DOMAIN shell' = DOMAIN shell \ out
      /\ \A f \in DOMAIN shell \ out : shell'[f] = shell[f]
  BY <1>3 DEF Without
<1>5. idb'.lookback = idb.lookback
  <2>1. idb = [cursor |-> idb.cursor, back |-> idb.back, more |-> idb.more,
               mcur |-> idb.mcur, lookback |-> idb.lookback]
    BY DEF ClientShape
  <2> QED BY <1>1, <2>1, ForgottenShape
<1>6. ASSUME NEW f \in Sources, Cleared(f)' PROVE Cleared(f) /\ (Agreed(f) => Agreed(f)')
  <2>1. Cleared(f) /\ f \notin lost'
    BY <1>1, <1>2, <1>6 DEF Cleared
  <2>2. ASSUME Agreed(f), Recent(f, idb.lookback), Listed(f)
        PROVE  f \in DOMAIN shell' /\ shell'[f] = Session(f, idb.lookback)
    <3>1. f \in DOMAIN shell /\ shell[f] = Session(f, idb.lookback)
      BY <2>2 DEF Agreed
    <3>2. shell[f].seen = srcFile[f].seen
      BY <3>1 DEF Session
    <3>3. f \notin out
      BY <1>3, <2>1, <2>2, <3>1, <3>2 DEF Listed, Recent
    <3> QED BY <1>4, <3>1, <3>3
  <2>3. ASSUME Agreed(f), Recent(f, idb.lookback), ~Listed(f) PROVE f \notin DOMAIN shell'
    BY <1>4, <2>3 DEF Agreed
  <2> QED BY <1>2, <1>5, <2>1, <2>2, <2>3 DEF Agreed
<1>7. ASSUME NEW e, Wanted(e)' PROVE Wanted(e) /\ (e \in cached => e \in cached')
  <2>1. Wanted(e) /\ e.file \notin gone' /\ InReach(e, idb.lookback) /\ Listed(e.file)
    BY <1>1, <1>2, <1>5, <1>7 DEF Wanted, Visible, Shown, InReach
  <2>2. CASE ResetCursors
    BY <2>1, <2>2 DEF ResetCursors, Keep
  <2>3. CASE SetRetention
    BY <2>1, <2>3 DEF SetRetention
  <2>4. CASE PullFails
    <3>1. pull.days = idb.lookback
      BY <2>4 DEF PullFails, ClientShape, Pulling
    <3> QED BY <2>1, <2>4, <3>1 DEF PullFails, Pruned, Keep
  <2> QED BY <2>2, <2>3, <2>4
<1>8. cached' \subseteq stored /\ DOMAIN shell' \subseteq Sources
  BY <1>1, <1>4 DEF EventsFit, ListFits
<1>9. ChatFits'
  BY <1>2 DEF ChatFits
<1> QED BY <1>1, <1>6, <1>7, <1>8, <1>9, CacheMoves

LEMMA ReadChatFits ==
    ASSUME FeedInv, NEW f \in Sources, NEW n \in Windows, ReadChat(f, n)
    PROVE  FeedInv'
<1> USE DEF FeedInv
<1>1. /\ UNCHANGED <<server, late, behind, gone, lost, pull, idb, cached, shell>>
      /\ UNCHANGED <<stored, srcFile, muted, touching>>
      /\ \A g : Listed(g)' <=> Listed(g)
      /\ \A g, d : Session(g, d)' = Session(g, d) /\ (Recent(g, d)' <=> Recent(g, d))
  BY ServerStays DEF ReadChat, history, server
<1>2. \A g \in Sources : Cleared(g)' => Cleared(g) /\ (Agreed(g) => Agreed(g)')
  BY <1>1 DEF Cleared, Agreed
<1>3. \A e : Wanted(e)' => Wanted(e)
  BY <1>1 DEF Wanted, Visible, Shown, InReach
<1>4. ChatFits'
  <2>1. RecentPage(f, lookback, n) \subseteq stored
    BY DEF RecentPage, LastBy, EventsOf, Visible
  <2>2. srcFile[f].meta \in Nat
    BY DEF ServerShape
  <2>3. \A c \in chat' : /\ c.file = f /\ c.meta = srcFile[f].meta /\ c.days = lookback
                         /\ c.session = Session(f, lookback)
                         /\ c.events = RecentPage(f, lookback, n)
    BY DEF ReadChat
  <2>4. Listed(f)
    BY DEF ReadChat, Reached
  <2> QED BY <1>1, <2>1, <2>2, <2>3, <2>4 DEF ChatFits
<1>5. cached' \subseteq stored /\ DOMAIN shell' \subseteq Sources
  BY <1>1 DEF EventsFit, ListFits
<1> QED BY <1>1, <1>2, <1>3, <1>4, <1>5, CacheMoves

LEMMA StoreChatFits ==
    ASSUME FeedInv, StoreChat
    PROVE  FeedInv'
<1> USE DEF FeedInv
<1>1. PICK c \in chat :
        /\ chat' = {} /\ UNCHANGED <<server, idb, pull, lost, late>>
        /\ shell' = Put(shell, [g \in {c.file} |-> c.session])
        /\ cached' = IF c.full THEN Keep(cached, {c.file}) \cup Rewritten(c.file, c.events)
                     ELSE cached \cup c.events
        /\ behind' = behind \cup
             (IF c.meta < srcFile[c.file].meta \/ c.days # idb.lookback THEN {c.file} ELSE {})
        /\ gone' = IF c.full THEN gone \cup {c.file} ELSE gone
  BY DEF StoreChat
<1>2. /\ UNCHANGED <<stored, srcFile, muted, touching, late>>
      /\ \A f : Listed(f)' <=> Listed(f)
      /\ \A f, d : Session(f, d)' = Session(f, d) /\ (Recent(f, d)' <=> Recent(f, d))
  BY <1>1, ServerStays DEF server
<1>3. /\ c.file \in Sources /\ c.events \subseteq stored
      /\ c.meta \in Nat /\ c.meta <= srcFile[c.file].meta
      /\ c.meta = srcFile[c.file].meta /\ c.file \notin touching =>
           Listed(c.file) /\ c.session = Session(c.file, c.days)
      /\ srcFile[c.file].meta \in Nat
  BY DEF ChatFits, ServerShape
<1>4. /\ DOMAIN shell' = DOMAIN shell \cup {c.file} /\ shell'[c.file] = c.session
      /\ \A f \in DOMAIN shell : f # c.file => shell'[f] = shell[f]
  BY <1>1 DEF Put
<1>5. ASSUME NEW f \in Sources, Cleared(f)' PROVE Cleared(f) /\ (Agreed(f) => Agreed(f)')
  <2>1. Cleared(f)
    BY <1>1, <1>2, <1>5 DEF Cleared
  <2>2. CASE f # c.file
    BY <1>1, <1>2, <1>4, <2>1, <2>2 DEF Agreed
  <2>3. CASE f = c.file
    <3>1. c.meta = srcFile[f].meta /\ c.days = idb.lookback /\ f \notin touching
      BY <1>1, <1>2, <1>3, <1>5, <2>3 DEF Cleared
    <3> QED BY <1>1, <1>2, <1>3, <1>4, <2>1, <2>3, <3>1 DEF Agreed
  <2> QED BY <2>1, <2>2, <2>3
<1>6. \A e : Wanted(e)' => Wanted(e) /\ (e \in cached => e \in cached')
  <2>1. \A e : Wanted(e)' => Wanted(e) /\ e.file \notin gone'
    BY <1>1, <1>2 DEF Wanted, Visible, Shown, InReach
  <2> QED BY <1>1, <2>1 DEF Keep
<1>7. cached' \subseteq stored /\ DOMAIN shell' \subseteq Sources
  BY <1>1, <1>3, <1>4 DEF EventsFit, ListFits, Keep, Rewritten
<1>8. ChatFits'
  BY <1>1 DEF ChatFits
<1> QED BY <1>1, <1>5, <1>6, <1>7, <1>8, CacheMoves

LEMMA StartPullFits ==
    ASSUME FeedInv, NEW kind \in {"meta", "forward", "recent"}, StartPull(kind)
    PROVE  FeedInv'
<1> USE DEF FeedInv
<1> DEFINE m == IF idb.lookback = lookback THEN idb
                ELSE [Forgotten(idb) EXCEPT !.lookback = lookback]
           mode == ModeFor(kind, m)
<1>1. /\ UNCHANGED <<server, shell, cached, lookback, chat, behind, gone, late>>
      /\ UNCHANGED <<stored, srcFile, muted, touching>>
      /\ ~Pulling
      /\ \A f : Listed(f)' <=> Listed(f)
      /\ \A f, d : Session(f, d)' = Session(f, d) /\ (Recent(f, d)' <=> Recent(f, d))
      /\ \A c : RevReached(c)' <=> RevReached(c)
      /\ \A c : MetaReached(c)' <=> MetaReached(c)
      /\ ServerShape' /\ Clocks'
  BY ServerStays DEF StartPull, server, Pulling
<1>2. /\ m = [cursor |-> idb.cursor, back |-> m.back, more |-> m.more, mcur |-> m.mcur,
              lookback |-> lookback]
      /\ m = idb \/ (m.back = NoBack /\ m.mcur = 0)
  <2>1. idb = [cursor |-> idb.cursor, back |-> idb.back, more |-> idb.more,
               mcur |-> idb.mcur, lookback |-> idb.lookback]
    BY DEF ClientShape
  <2>2. Forgotten(idb) = [cursor |-> idb.cursor, back |-> NoBack, more |-> FALSE, mcur |-> 0,
                          lookback |-> idb.lookback]
    BY <2>1, ForgottenShape
  <2>3. CASE idb.lookback = lookback
    BY <2>1, <2>3
  <2>4. CASE idb.lookback # lookback
    <3> DEFINE old == Forgotten(idb)
    <3>1. old = [cursor |-> idb.cursor, back |-> NoBack, more |-> old.more, mcur |-> 0,
                 lookback |-> idb.lookback]
      BY <2>2
    <3>2. m = [old EXCEPT !.lookback = lookback]
      BY <2>4
    <3> HIDE DEF old, m
    <3> QED BY <3>1, <3>2
  <2> QED BY <2>3, <2>4
<1>3. /\ mode \in {"meta", "forward", "recent", "backfill"}
      /\ mode = "backfill" => m = idb /\ idb.back # NoBack
  <2>1. mode = "backfill" => m.back # NoBack
    BY DEF ModeFor, Resumable
  <2> HIDE DEF m
  <2> QED BY <1>2, <2>1 DEF ModeFor
<1>4. /\ idb' = m
      /\ pull' = [step |-> FirstStep(mode), mode |-> mode, days |-> lookback, batch |-> 1,
                  cursor |-> m.cursor, back |-> m.back, mcur |-> m.mcur, resp |-> Nothing]
      /\ lost' = IF m.mcur = 0 THEN {} ELSE lost
  BY DEF StartPull
<1> HIDE DEF m, mode
<1>5. /\ FirstStep(mode) \in {"ask", "rows", "keys"}
      /\ FirstStep(mode) = "ask" <=> mode = "recent"
      /\ FirstStep(mode) = "keys" <=> mode = "meta"
  BY <1>3 DEF FirstStep
<1>6. RespShape(Nothing) /\ Nothing.events = {}
  BY DEF Nothing, Response, RespShape
<1>7. m.cursor = idb.cursor /\ m.lookback = lookback
  BY <1>2
<1>8. ClientShape'
  <2>1. BackShape(NoBack)
    BY DEF BackShape, NoBack
  <2>2. BackShape(m.back)
    BY <1>2, <2>1 DEF ClientShape
  <2>3. /\ BackShape(idb'.back) /\ BackShape(pull'.back) /\ RespShape(pull'.resp)
        /\ idb' = [cursor |-> idb'.cursor, back |-> idb'.back, more |-> idb'.more,
                   mcur |-> idb'.mcur, lookback |-> idb'.lookback]
        /\ pull'.days = idb'.lookback
    BY <1>2, <1>4, <1>6, <1>7, <2>2
  <2> QED BY <1>3, <1>4, <1>5, <2>3 DEF ClientShape, Pulling, BackShape, RespShape
<1>9. Cursors'
  <2>1. RevReached(idb.cursor) /\ MetaReached(idb.mcur) /\ MetaReached(0)
    BY DEF Cursors, MetaReached
  <2> QED BY <1>1, <1>2, <1>4, <1>7, <2>1 DEF Cursors, Pulling
<1>10. m.mcur > 0 => idb' = idb /\ lost' = lost
  BY <1>2, <1>4
<1>11. \A c : m.mcur > 0 => (UpTo(c) => UpTo(c)')
  BY <1>1, <1>10 DEF UpTo, Cleared, Agreed
<1>12. ListFits'
  BY <1>1, <1>4, <1>10, <1>11 DEF ListFits
<1>13. PullListFits'
  <2>1. m.mcur > 0 => UpTo(m.mcur)
    BY <1>4, <1>10 DEF ListFits
  <2> QED BY <1>4, <1>5, <1>11, <2>1 DEF PullListFits, Holding
<1>14. ChatFits'
  BY <1>1 DEF ChatFits
<1>15. idb' = idb => \A low, high : HoldsAll(low, high, cached) => HoldsAll(low, high, cached)'
  BY <1>1 DEF HoldsAll, Wanted, Visible, Shown, InReach
<1>16. m.back # NoBack => idb' = idb
  BY <1>2, <1>4
<1>17. EventsFit'
  BY <1>1, <1>4, <1>15, <1>16 DEF EventsFit
<1>18. PullEventsFit'
  <2>1. mode = "backfill" => HoldsAll(pull.back.before, idb.cursor, cached)'
    BY <1>1, <1>3, <1>4, <1>15 DEF EventsFit
  <2> QED BY <1>1, <1>4, <1>5, <1>6, <1>7, <2>1 DEF PullEventsFit, Holding
<1> QED BY <1>1, <1>8, <1>9, <1>12, <1>13, <1>14, <1>17, <1>18

\* Apply: what it takes from the response, by the mode of the pull.
LEMMA ApplyDoes ==
    ASSUME FeedInv, Apply
    PROVE  \E out, aged :
      /\ \/ pull' = Idle
         \/ /\ pull' = [step |-> FirstStep(pull.mode), mode |-> pull.mode, days |-> pull.days,
                        batch |-> pull'.batch, cursor |-> pull.cursor, back |-> pull.back,
                        mcur |-> pull.mcur, resp |-> Nothing]
            /\ pull.mode # "recent"
      /\ LET sh == Without(Put(shell, pull.resp.sessions), out)
         IN  /\ shell' = Without(sh, aged)
             /\ \A f \in aged : f \in DOMAIN sh /\ ~InSight(sh[f].seen, pull.days)
      /\ \A e \in cached \cup pull.resp.events :
           InReach(e, pull.days) /\ e.file \notin out \cup aged => e \in cached'
      /\ cached' \subseteq cached \cup pull.resp.events
      /\ gone' = (IF pull.mode = "recent" THEN gone \ DOMAIN pull.resp.sessions
                  ELSE gone \cup out) \cup aged
      /\ pull.mode # "meta" => out = {}
      /\ pull.mode = "meta" /\ ~pull.resp.full => out = pull.resp.dead
      /\ pull.resp.full => out = DOMAIN shell \ DOMAIN pull.resp.sessions
<1> DEFINE r == pull.resp
           vanished == IF r.full THEN DOMAIN shell \ DOMAIN r.sessions ELSE {}
           out == r.dead \cup vanished
           es == Keep(cached, out) \cup r.events
           sh == Without(Put(shell, r.sessions), out)
           kept == IF pull.mode = "recent" THEN gone \ DOMAIN r.sessions ELSE gone \cup out
           again == pull.mode # "recent" /\ r.more /\ pull.batch < MaxBatches
           aged == IF again THEN {} ELSE Aged(sh, pull.days)
<1>1. /\ pull.step = "apply" /\ Pulling /\ Holding /\ ClientShape /\ PullListFits
  BY DEF Apply, FeedInv, Pulling, Holding
<1>2. /\ r.full \/ pull.mode # "meta" => r.dead = {}
      /\ r.full => pull.mode = "meta"
  BY <1>1 DEF PullListFits
<1>3. /\ pull.mode # "meta" => out = {}
      /\ pull.mode = "meta" /\ ~r.full => out = r.dead
      /\ r.full => out = DOMAIN shell \ DOMAIN r.sessions
  BY <1>2
<1>4. /\ shell' = IF again THEN sh ELSE Without(sh, Aged(sh, pull.days))
      /\ cached' = IF again THEN es ELSE Pruned(es, sh, pull.days)
      /\ gone' = IF again THEN kept ELSE kept \cup Aged(sh, pull.days)
      /\ pull' = IF again THEN [pull EXCEPT !.step = FirstStep(pull.mode), !.batch = @ + 1,
                                            !.resp = Nothing]
                 ELSE Idle
  BY DEF Apply
<1>5. /\ shell' = Without(sh, aged)
      /\ \A f \in aged : f \in DOMAIN sh /\ ~InSight(sh[f].seen, pull.days)
      /\ gone' = kept \cup aged
  <2>1. sh = Without(sh, {})
    <3>1. sh = [f \in DOMAIN Put(shell, r.sessions) \ out |-> Put(shell, r.sessions)[f]]
      BY DEF Without
    <3> HIDE DEF out
    <3> QED BY <3>1 DEF Without
  <2> HIDE DEF sh, again, kept
  <2> QED BY <1>4, <2>1 DEF Aged
<1>6. /\ \A e \in cached \cup r.events :
           InReach(e, pull.days) /\ e.file \notin out \cup aged => e \in cached'
      /\ cached' \subseteq cached \cup r.events
  <2>1. /\ \A e \in cached \cup r.events : e.file \notin out => e \in es
        /\ es \subseteq cached \cup r.events
    BY DEF Keep
  <2> HIDE DEF es, out, sh, again
  <2>2. again => cached' = es
    BY <1>4
  <2>3. ~again => cached' = Pruned(es, sh, pull.days) /\ aged = Aged(sh, pull.days)
    BY <1>4
  <2> HIDE DEF aged
  <2> QED BY <2>1, <2>2, <2>3 DEF Pruned, Keep
<1>7. \/ pull' = Idle
      \/ /\ pull' = [step |-> FirstStep(pull.mode), mode |-> pull.mode, days |-> pull.days,
                     batch |-> pull'.batch, cursor |-> pull.cursor, back |-> pull.back,
                     mcur |-> pull.mcur, resp |-> Nothing]
         /\ pull.mode # "recent"
  <2>1. CASE ~again
    BY <1>4, <2>1
  <2>2. CASE again
    <3>1. pull' = [pull EXCEPT !.step = FirstStep(pull.mode), !.batch = @ + 1, !.resp = Nothing]
      BY <1>4, <2>2
    <3>2. pull' = [step |-> FirstStep(pull.mode), mode |-> pull.mode, days |-> pull.days,
                   batch |-> pull.batch + 1, cursor |-> pull.cursor, back |-> pull.back,
                   mcur |-> pull.mcur, resp |-> Nothing]
      BY <1>1, <3>1 DEF ClientShape
    <3>3. pull'.batch = pull.batch + 1
      BY <3>2
    <3> QED BY <2>2, <3>2, <3>3
  <2> QED BY <2>1, <2>2
<1> HIDE DEF out, es, again, aged
<1> QED BY <1>3, <1>5, <1>6, <1>7

LEMMA ApplyFits ==
    ASSUME FeedInv, Apply
    PROVE  FeedInv'
<1> USE DEF FeedInv
<1> DEFINE r == pull.resp
<1>1. /\ UNCHANGED <<server, stored, srcFile, muted, touching, behind, lost, late, chat>>
      /\ pull.step = "apply" /\ Pulling /\ Holding
      /\ \A f : Listed(f)' <=> Listed(f)
      /\ \A f, d : Session(f, d)' = Session(f, d) /\ (Recent(f, d)' <=> Recent(f, d))
      /\ \A c : RevReached(c)' <=> RevReached(c)
      /\ \A c : MetaReached(c)' <=> MetaReached(c)
      /\ ServerShape' /\ Clocks'
      /\ ClientShape /\ Cursors /\ PullListFits /\ PullEventsFit
  BY ServerStays DEF Apply, server, Pulling, Holding
<1>2. PICK out, aged :
      /\ \/ pull' = Idle
         \/ /\ pull' = [step |-> FirstStep(pull.mode), mode |-> pull.mode, days |-> pull.days,
                        batch |-> pull'.batch, cursor |-> pull.cursor, back |-> pull.back,
                        mcur |-> pull.mcur, resp |-> Nothing]
            /\ pull.mode # "recent"
      /\ LET sh == Without(Put(shell, r.sessions), out)
         IN  /\ shell' = Without(sh, aged)
             /\ \A f \in aged : f \in DOMAIN sh /\ ~InSight(sh[f].seen, pull.days)
      /\ \A e \in cached \cup r.events :
           InReach(e, pull.days) /\ e.file \notin out \cup aged => e \in cached'
      /\ cached' \subseteq cached \cup r.events
      /\ gone' = (IF pull.mode = "recent" THEN gone \ DOMAIN r.sessions ELSE gone \cup out)
                 \cup aged
      /\ pull.mode # "meta" => out = {}
      /\ pull.mode = "meta" /\ ~r.full => out = r.dead
      /\ r.full => out = DOMAIN shell \ DOMAIN r.sessions
  BY ApplyDoes
<1>3. /\ pull.mode \in {"meta", "forward", "recent", "backfill"}
      /\ pull.days = idb.lookback /\ BackShape(pull.back) /\ BackShape(idb.back)
  BY <1>1 DEF ClientShape
<1>4. /\ idb' = [cursor |-> idb'.cursor, back |-> idb'.back, more |-> idb'.more,
                 mcur |-> idb'.mcur, lookback |-> idb.lookback]
      /\ idb'.cursor = IF pull.mode \in {"forward", "recent"} THEN pull.cursor ELSE idb.cursor
      /\ idb'.back = IF pull.mode \in {"recent", "backfill"} THEN pull.back ELSE idb.back
      /\ idb'.mcur = IF pull.mode = "meta" THEN pull.mcur ELSE idb.mcur
  <2> DEFINE c == CursorAfter(pull)
             b == IF pull.mode \in {"recent", "backfill"} THEN pull.back ELSE idb.back
             n == IF pull.mode \in {"recent", "backfill"} THEN pull.resp.more ELSE idb.more
             k == IF pull.mode = "meta" THEN pull.mcur ELSE idb.mcur
  <2>1. idb = [cursor |-> idb.cursor, back |-> idb.back, more |-> idb.more,
               mcur |-> idb.mcur, lookback |-> idb.lookback]
    BY <1>1 DEF ClientShape
  <2>2. idb' = [idb EXCEPT !.cursor = c, !.back = b, !.more = n, !.mcur = k]
    BY DEF Apply, StoredBy
  <2> HIDE DEF c, b, n, k
  <2>3. idb' = [cursor |-> c, back |-> b, more |-> n, mcur |-> k, lookback |-> idb.lookback]
    BY <2>1, <2>2
  <2>4. idb'.cursor = c /\ idb'.back = b /\ idb'.more = n /\ idb'.mcur = k
    BY <2>3
  <2> QED BY <2>3, <2>4 DEF c, b, k, CursorAfter
<1>5. idb'.lookback = idb.lookback
  BY <1>4
<1>6. /\ FirstStep(pull.mode) = "rows" <=> pull.mode \in {"forward", "backfill"}
      /\ FirstStep(pull.mode) = "keys" <=> pull.mode = "meta"
      /\ FirstStep(pull.mode) = "ask" <=> pull.mode = "recent"
      /\ FirstStep(pull.mode) \in {"ask", "rows", "keys"}
  BY <1>3 DEF FirstStep
<1>7. RespShape(Nothing) /\ Nothing.events = {}
  BY DEF Nothing, Response, RespShape
<1>8. Pulling' =>
        /\ pull' = [step |-> FirstStep(pull.mode), mode |-> pull.mode, days |-> pull.days,
                    batch |-> pull'.batch, cursor |-> pull.cursor, back |-> pull.back,
                    mcur |-> pull.mcur, resp |-> Nothing]
        /\ pull.mode # "recent"
  BY <1>2 DEF Pulling, Idle
<1>9. ClientShape'
  <2>1. BackShape(idb'.back)
    BY <1>3, <1>4
  <2>2. pull'.step \in {"idle", "ask", "rows", "keys", "sessions", "apply"}
    BY <1>2, <1>6 DEF Idle
  <2> QED BY <1>3, <1>4, <1>5, <1>6, <1>7, <1>8, <2>1, <2>2
          DEF ClientShape, Pulling, BackShape, RespShape
<1>10. Cursors'
  BY <1>1, <1>4, <1>8 DEF Cursors, Pulling
<1>11. /\ r.keys \subseteq Sources
       /\ DOMAIN r.sessions \cup r.dead \subseteq r.keys
       /\ r.full => pull.mode = "meta" /\ r.keys = Sources
       /\ \A f \in r.keys : Cleared(f) /\ (\/ srcFile[f].meta <= idb.mcur
                                           \/ pull.mode = "meta" /\ srcFile[f].meta <= pull.mcur)
            => ReadRight(f)
       /\ pull.mode = "meta" => \A f \in Sources \ r.keys :
            Cleared(f) /\ srcFile[f].meta <= pull.mcur => Agreed(f)
  BY <1>1 DEF PullListFits
<1>12. /\ DOMAIN shell' = ((DOMAIN shell \cup DOMAIN r.sessions) \ out) \ aged
       /\ \A f \in DOMAIN shell' : shell'[f] = IF f \in DOMAIN r.sessions THEN r.sessions[f]
                                               ELSE shell[f]
       /\ \A f \in aged :
            ~InSight((IF f \in DOMAIN r.sessions THEN r.sessions[f] ELSE shell[f]).seen, pull.days)
  <2> DEFINE sh == Without(Put(shell, r.sessions), out)
  <2>1. /\ DOMAIN sh = (DOMAIN shell \cup DOMAIN r.sessions) \ out
        /\ \A f \in DOMAIN sh : sh[f] = IF f \in DOMAIN r.sessions THEN r.sessions[f] ELSE shell[f]
    BY DEF Put, Without
  <2>2. /\ shell' = Without(sh, aged)
        /\ \A f \in aged : f \in DOMAIN sh /\ ~InSight(sh[f].seen, pull.days)
    BY <1>2
  <2> HIDE DEF sh
  <2>3. DOMAIN shell' = DOMAIN sh \ aged /\ \A f \in DOMAIN shell' : shell'[f] = sh[f]
    BY <2>2 DEF Without
  <2>4. \A f \in aged :
          ~InSight((IF f \in DOMAIN r.sessions THEN r.sessions[f] ELSE shell[f]).seen, pull.days)
    BY <2>1, <2>2
  <2> QED BY <2>1, <2>3, <2>4
<1>13. ASSUME NEW f \in Sources, Cleared(f),
              \/ pull.mode = "meta" /\ srcFile[f].meta <= pull.mcur
              \/ pull.mode # "meta" /\ srcFile[f].meta <= idb.mcur /\ UpTo(idb.mcur)
       PROVE  Agreed(f)'
  <2> SUFFICES ASSUME Recent(f, idb.lookback)
               PROVE  IF Listed(f)
                      THEN f \in DOMAIN shell' /\ shell'[f] = Session(f, idb.lookback)
                      ELSE f \notin DOMAIN shell'
    BY <1>1, <1>5 DEF Agreed
  <2>3. \A s : s = Session(f, idb.lookback) => InSight(s.seen, pull.days)
    <3>1. Session(f, idb.lookback).seen = srcFile[f].seen
      BY DEF Session
    <3> QED BY <1>3, <3>1 DEF Recent
  <2>1. CASE f \in r.keys
    <3>1. ReadRight(f)
      BY <1>11, <1>13, <2>1
    <3>2. /\ f \in DOMAIN r.sessions <=> Listed(f)
          /\ Listed(f) => r.sessions[f] = Session(f, idb.lookback)
          /\ pull.mode = "meta" /\ ~r.full => (f \in r.dead <=> ~Listed(f))
      BY <1>3, <3>1 DEF ReadRight
    <3>3. CASE Listed(f)
      <4>1. f \notin out
        BY <1>2, <3>2, <3>3
      <4>2. f \notin aged
        BY <1>12, <2>3, <3>2, <3>3
      <4> QED BY <1>12, <3>2, <3>3, <4>1, <4>2
    <3>4. CASE ~Listed(f)
      <4>1. f \notin DOMAIN shell'
        <5>1. CASE pull.mode = "meta"
          BY <1>2, <1>12, <3>2, <3>4, <5>1
        <5>2. CASE pull.mode # "meta"
          <6>1. Agreed(f)
            BY <1>13, <5>2 DEF UpTo
          <6> QED BY <1>12, <3>2, <3>4, <6>1 DEF Agreed
        <5> QED BY <5>1, <5>2
      <4> QED BY <3>4, <4>1
    <3> QED BY <3>3, <3>4
  <2>2. CASE f \notin r.keys
    <3>1. Agreed(f)
      <4>1. CASE pull.mode = "meta"
        BY <1>11, <1>13, <2>2, <4>1
      <4>2. CASE pull.mode # "meta"
        BY <1>13, <4>2 DEF UpTo
      <4> QED BY <4>1, <4>2
    <3>2. f \notin out /\ f \notin DOMAIN r.sessions
      BY <1>2, <1>11, <2>2
    <3>3. Listed(f) => f \in DOMAIN shell /\ shell[f] = Session(f, idb.lookback) /\ f \notin aged
      BY <1>12, <2>3, <3>1, <3>2 DEF Agreed
    <3>4. ~Listed(f) => f \notin DOMAIN shell
      BY <3>1 DEF Agreed
    <3> QED BY <1>12, <3>2, <3>3, <3>4
  <2> QED BY <2>1, <2>2
<1>14. /\ pull.mode # "meta" /\ UpTo(idb.mcur) => \A f \in Sources :
            Cleared(f) /\ srcFile[f].meta <= idb.mcur => Agreed(f)'
       /\ \A f : Cleared(f)' <=> Cleared(f)
  <2>1. \A f : Cleared(f)' <=> Cleared(f)
    BY <1>1 DEF Cleared
  <2> QED BY <1>13, <2>1
<1>15. ListFits'
  <2>1. DOMAIN shell' \subseteq Sources
    BY <1>11, <1>12 DEF ListFits
  <2>2. ASSUME idb'.mcur > 0 PROVE UpTo(idb.mcur)'
    <3>1. CASE pull.mode = "meta"
      BY <1>1, <1>4, <1>13, <1>14, <3>1 DEF UpTo
    <3>2. CASE pull.mode # "meta"
      BY <1>1, <1>4, <1>14, <2>2, <3>2 DEF UpTo, ListFits
    <3> QED BY <3>1, <3>2
  <2> QED BY <2>1, <2>2 DEF ListFits
<1>16. Pulling' => PullListFits'
  <2>1. pull.mode = "meta" /\ Pulling' => UpTo(pull.mcur)'
    BY <1>1, <1>8, <1>13, <1>14 DEF UpTo
  <2> QED BY <1>6, <1>8, <2>1 DEF PullListFits, Holding
<1>17. ChatFits'
  BY <1>1 DEF ChatFits
<1>18. ASSUME NEW e \in stored, Wanted(e)'
       PROVE  /\ e \in Visible(idb.lookback) /\ e.rev \notin late /\ InReach(e, pull.days)
              /\ e.file \notin aged
              /\ pull.mode = "recent" => e.file \notin out
              /\ pull.mode # "recent" => e.file \notin gone /\ e.file \notin out
              /\ pull.mode = "recent" => e.file \notin gone \/ e.file \in DOMAIN r.sessions
  BY <1>1, <1>2, <1>3, <1>5, <1>18 DEF Wanted, Visible, Shown, InReach
<1>19. ASSUME pull.mode # "recent", NEW low, NEW high, NEW S, S \subseteq cached \cup r.events,
              HoldsAll(low, high, S)
       PROVE  HoldsAll(low, high, cached)'
  <2> SUFFICES ASSUME NEW e \in stored, Wanted(e)', low <= e.rev, e.rev <= high
               PROVE  e \in cached'
    BY <1>1 DEF HoldsAll
  <2>1. e \in S
    BY <1>18, <1>19 DEF Wanted, HoldsAll
  <2> QED BY <1>2, <1>18, <1>19, <2>1
<1>20. cached' \subseteq stored'
  BY <1>1, <1>2 DEF EventsFit, PullEventsFit
<1>21. /\ pull.mode = "forward" => HoldsAll(idb.cursor + 1, pull.cursor, r.events)
       /\ pull.mode = "backfill" => HoldsAll(pull.back.before, idb.cursor, cached \cup r.events)
       /\ pull.mode = "recent" =>
            /\ HoldsAll(pull.back.before, pull.cursor, r.events)
            /\ \A e \in stored : Stays(e) /\ e.file \in r.keys => e \in r.events
  BY <1>1 DEF PullEventsFit
<1>22. ASSUME idb'.back # NoBack PROVE HoldsAll(idb.back.before, idb.cursor, cached)'
  <2>1. CASE pull.mode = "meta"
    <3>1. HoldsAll(idb.back.before, idb.cursor, cached)
      BY <1>4, <1>22, <2>1 DEF EventsFit
    <3> QED BY <1>4, <1>19, <2>1, <3>1 DEF HoldsAll
  <2>2. CASE pull.mode = "forward"
    <3>1. HoldsAll(idb.back.before, pull.cursor, cached \cup r.events)
      <4> SUFFICES ASSUME NEW e \in stored, Wanted(e), idb.back.before <= e.rev,
                          e.rev <= pull.cursor
                   PROVE  e \in cached \cup r.events
        BY DEF HoldsAll
      <4>1. HoldsAll(idb.back.before, idb.cursor, cached)
        BY <1>4, <1>22, <2>2 DEF EventsFit
      <4>2. e.rev \in Nat /\ idb.cursor \in Nat
        BY <1>1 DEF Cursors, RevReached, ServerShape, Numbered
      <4>3. e.rev <= idb.cursor \/ idb.cursor + 1 <= e.rev
        BY <4>2
      <4> QED BY <1>21, <2>2, <4>1, <4>3 DEF HoldsAll
    <3> QED BY <1>4, <1>19, <2>2, <3>1 DEF HoldsAll
  <2>3. CASE pull.mode = "backfill"
    BY <1>4, <1>19, <1>21, <2>3 DEF HoldsAll
  <2>4. CASE pull.mode = "recent"
    <3> SUFFICES ASSUME NEW e \in stored, Wanted(e)', pull.back.before <= e.rev,
                        e.rev <= pull.cursor
                 PROVE  e \in cached'
      BY <1>1, <1>4, <2>4 DEF HoldsAll
    <3>1. e \in r.events
      <4>1. CASE e.file \notin gone
        BY <1>18, <1>21, <2>4, <4>1 DEF HoldsAll, Wanted
      <4>2. CASE e.file \in DOMAIN r.sessions
        <5>1. Stays(e)
          BY <1>18 DEF Stays, Visible, Shown
        <5> QED BY <1>11, <1>21, <2>4, <4>2, <5>1
      <4> QED BY <1>18, <2>4, <4>1, <4>2
    <3> QED BY <1>2, <1>18, <2>4, <3>1
  <2> QED BY <1>3, <2>1, <2>2, <2>3, <2>4
<1>23. EventsFit'
  BY <1>20, <1>22 DEF EventsFit
<1>24. Pulling' => PullEventsFit'
  <2>1. Pulling' /\ pull.mode = "backfill" => HoldsAll(pull.back.before, idb.cursor, cached)'
    <3> SUFFICES ASSUME Pulling', pull.mode = "backfill"
                 PROVE  HoldsAll(pull.back.before, idb.cursor, cached)'
      OBVIOUS
    <3>1. pull'.back = pull.back /\ idb'.cursor = idb.cursor
      BY <1>4, <1>8
    <3>2. \A low, high : HoldsAll(low, high, cached \cup r.events) => HoldsAll(low, high, cached)'
      BY <1>19
    <3> QED BY <1>21, <3>1, <3>2 DEF HoldsAll
  <2> QED BY <1>4, <1>6, <1>7, <1>8, <2>1 DEF PullEventsFit, Holding
<1> QED BY <1>1, <1>9, <1>10, <1>15, <1>16, <1>17, <1>23, <1>24

----------------------------------------------------------------------------
(* SyncFeed: the invariant is inductive and implies the properties *)

LEMMA FeedInvInit ==
    ASSUME FeedInit PROVE FeedInv
<1> USE DEF FeedInit
<1>1. ServerShape
  <2>1. IsFiniteSet(stored)
    BY FS_EmptySet
  <2> QED BY <2>1 DEF ServerShape, Numbered
<1>2. ClientShape
  BY DEF ClientShape, Idle, Pulling, BackShape, NoBack
<1>3. Clocks
  BY DEF Clocks
<1>4. Cursors
  BY DEF Cursors, RevReached, MetaReached, Pulling, Idle
<1>5. ListFits
  BY DEF ListFits
<1>6. ~Pulling
  BY DEF Pulling, Idle
<1>7. ChatFits /\ EventsFit
  BY DEF ChatFits, EventsFit
<1> QED BY <1>1, <1>2, <1>3, <1>4, <1>5, <1>6, <1>7 DEF FeedInv

LEMMA FeedInvStep ==
    ASSUME FeedInv, [FeedNext]_feedVars PROVE FeedInv'
<1>1. ASSUME NEW f \in Sources, Begin(f) PROVE FeedInv'
  BY <1>1, BeginFits
<1>2. ASSUME NEW f \in Sources, Exclude(f) PROVE FeedInv'
  BY <1>2, ExcludeFits
<1>3. ASSUME NEW f \in Sources, Touch(f) PROVE FeedInv'
  BY <1>3, TouchFits
<1>4. ASSUME NEW t \in writing, Commit(t) PROVE FeedInv'
  BY <1>4, CommitFits
<1>5. ASSUME NEW kind \in {"meta", "forward", "recent"}, StartPull(kind) PROVE FeedInv'
  BY <1>5, StartPullFits
<1>6. CASE AskHighWater
  BY <1>6, AskFits
<1>7. CASE RowsForward
  BY <1>7, RowsForwardFits
<1>8. CASE RowsBack
  BY <1>8, RowsBackFits
<1>9. CASE Keys
  BY <1>9, KeysFits
<1>10. CASE Sessions
  BY <1>10, SessionsFits
<1>11. CASE Apply
  BY <1>11, ApplyFits
<1>12. CASE PullFails \/ ResetCursors \/ SetRetention
  BY <1>12, CacheStepsFit
<1>13. ASSUME NEW f \in Sources, NEW n \in Windows, ReadChat(f, n) PROVE FeedInv'
  BY <1>13, ReadChatFits
<1>14. CASE StoreChat
  BY <1>14, StoreChatFits
<1>15. CASE UNCHANGED feedVars
  <2>1. UNCHANGED <<server, late, behind, gone, lost, pull, idb, cached, shell, chat>>
    BY <1>15 DEF feedVars, client, history
  <2>2. /\ UNCHANGED <<stored, srcFile, muted, touching>>
        /\ \A g : Listed(g)' <=> Listed(g)
        /\ \A g, d : Session(g, d)' = Session(g, d) /\ (Recent(g, d)' <=> Recent(g, d))
    BY <2>1, ServerStays DEF server
  <2>3. \A f \in Sources : Cleared(f)' => Cleared(f) /\ (Agreed(f) => Agreed(f)')
    BY <2>1, <2>2 DEF Cleared, Agreed
  <2>4. \A e : Wanted(e)' => Wanted(e)
    BY <2>1, <2>2 DEF Wanted, Visible, Shown, InReach
  <2>5. ChatFits' /\ cached' \subseteq stored /\ DOMAIN shell' \subseteq Sources
    BY <2>1, <2>2 DEF FeedInv, ChatFits, EventsFit, ListFits
  <2> QED BY <2>1, <2>3, <2>4, <2>5, CacheMoves
<1> QED BY <1>1, <1>2, <1>3, <1>4, <1>5, <1>6, <1>7, <1>8, <1>9, <1>10, <1>11, <1>12, <1>13,
           <1>14, <1>15 DEF FeedNext

LEMMA FeedInvImplies ==
    ASSUME FeedInv
    PROVE  ShellUpToCursor /\ NoEventSkipped /\ CacheHitIsWhole
<1> USE DEF FeedInv
<1>1. ShellUpToCursor
  BY DEF ShellUpToCursor, ListFits, UpTo, Cleared
<1>2. NoEventSkipped
  BY DEF NoEventSkipped, EventsFit, HoldsAll, Wanted, Visible
<1>3. CacheHitIsWhole
  <2> SUFFICES ASSUME NEW f \in DOMAIN shell \ (behind \cup touching \cup lost),
                      Reached(f, lookback),
                      idb.mcur > 0, srcFile[f].meta <= idb.mcur, idb.lookback = lookback,
                      \A e \in CachedOf(f) : InReach(e, lookback) /\ e.gen = srcFile[f].gen,
                      CacheHit(f)
               PROVE  EventsOf(f, lookback) \subseteq CachedOf(f)
    BY DEF CacheHitIsWhole
  <2>1. f \in Sources
    BY DEF ListFits
  <2>2. Agreed(f)
    BY <1>1, <2>1 DEF ShellUpToCursor
  <2>3. shell[f] = Session(f, lookback)
    BY <2>1, <2>2 DEF Agreed, Reached
  <2>4. Cardinality(CachedOf(f)) >= Cardinality(Counted(f, lookback))
    BY <2>3 DEF CacheHit, Session
  <2>5. CachedOf(f) \in SUBSET Counted(f, lookback)
    BY DEF EventsFit, CachedOf, Counted
  <2>6. IsFiniteSet(Counted(f, lookback))
    <3>1. Counted(f, lookback) \in SUBSET stored /\ IsFiniteSet(stored)
      BY DEF Counted, ServerShape, Numbered
    <3> QED BY <3>1, FS_Subset
  <2>7. /\ Cardinality(CachedOf(f)) <= Cardinality(Counted(f, lookback))
        /\ Cardinality(CachedOf(f)) = Cardinality(Counted(f, lookback))
             => CachedOf(f) = Counted(f, lookback)
        /\ Cardinality(CachedOf(f)) \in Nat /\ Cardinality(Counted(f, lookback)) \in Nat
    BY <2>5, <2>6, FS_Subset, FS_CardinalityType
  <2>8. CachedOf(f) = Counted(f, lookback)
    BY <2>4, <2>7
  <2> QED BY <2>8 DEF EventsOf, Visible, Shown, Counted
<1> QED BY <1>1, <1>2, <1>3

LEMMA FeedInvHolds == FeedSpec => []FeedInv
<1>1. FeedInit => FeedInv
  BY FeedInvInit
<1>2. FeedInv /\ [FeedNext]_feedVars => FeedInv'
  BY FeedInvStep
<1> QED BY <1>1, <1>2, PTL DEF FeedSpec

\* The list of the chats that the retention reaches is right up to its cursor, however
\* pulls, the pages of a delta, failures, exclusions and changes of the retention
\* interleave; but for entries that a shorter retention took while the cursor stayed, and
\* for what came late (syncMetadata, applySync, pruneCacheBefore).
THEOREM ListUpToCursor == FeedSpec => []ShellUpToCursor
<1>1. FeedInv => ShellUpToCursor
  BY FeedInvImplies
<1> QED BY <1>1, FeedInvHolds, PTL

\* Between its two cursors the browser holds every event that the server shows: pages of
\* any size, in both directions, and lost answers leave none out (storeEventCursor,
\* advanceBackfillCursor).
THEOREM NoneSkipped == FeedSpec => []NoEventSkipped
<1>1. FeedInv => NoEventSkipped
  BY FeedInvImplies
<1> QED BY <1>1, FeedInvHolds, PTL

\* A chat whose cached events are as many as its entry says is cached whole
\* (useSessionEventsCache).
THEOREM HitIsWhole == FeedSpec => []CacheHitIsWhole
<1>1. FeedInv => CacheHitIsWhole
  BY FeedInvImplies
<1> QED BY <1>1, FeedInvHolds, PTL

----------------------------------------------------------------------------
(* Transcript *)

\* An echo stands beside what it repeats: the entry of the response item, which is no
\* echo of anything, so that two entries never leave each other out.
LEMMA OneOfTwoStays ==
    ASSUME NEW entries, NEW i \in DOMAIN entries
    PROVE  Left(entries, i) \/ ShownBeside(entries, i)
<1> SUFFICES ASSUME ~Left(entries, i) PROVE ShownBeside(entries, i)
  OBVIOUS
<1>1. PICK j \in {i - 1, i + 1} \cap DOMAIN entries : IsEcho(entries[i], entries[j])
  BY DEF Left
<1>2. entries[j].source.rawType = <<"response", "item">> /\ entries[j].shown = entries[i].shown
  BY <1>1 DEF IsEcho
<1>3. entries[j].source.rawType # <<"event", "msg">>
  BY <1>2
<1>4. Left(entries, j)
  BY <1>3 DEF Left, IsEcho
<1>5. QED
  BY <1>1, <1>2, <1>4 DEF ShownBeside

\* No message is lost to the search for echoes (flatten of transform.ts), whatever lines
\* were written and whichever parsers made events of them: of what it leaves out, the
\* entry beside it shows the same, and is not left out in its turn.
THEOREM EchoesAreShown == TranscriptSpec => []NoMessageVanishes
<1>1. NoMessageVanishes
  BY OneOfTwoStays DEF NoMessageVanishes, AllShown
<1>2. QED
  BY <1>1, PTL

----------------------------------------------------------------------------
(* Numbers and lists *)

\* A set of numbers has a least one.
LEMMA LeastNumber ==
    ASSUME NEW S \in SUBSET Nat, S # {}
    PROVE  \E m \in S : \A n \in S : m <= n
<1> DEFINE below == {0..n : n \in S}
<1>1. below \subseteq FiniteSubsetsOf(Nat) /\ below # {}
  <2>1. \A n \in S : IsFiniteSet(0..n) /\ 0..n \subseteq Nat
    BY FS_Interval
  <2> QED BY <2>1 DEF FiniteSubsetsOf
<1>2. PICK b \in below : \A c \in below : ~(<<c, b>> \in StrictSubsetOrdering(Nat))
  <2> HIDE DEF below
  <2> QED BY <1>1, FS_StrictSubsetOrderingWellFounded, WFMin
<1>3. PICK m \in S : b = 0..m
  OBVIOUS
<1>4. ASSUME NEW n \in S, n < m PROVE FALSE
  <2>1. 0..n \subseteq 0..m /\ m \in 0..m /\ m \notin 0..n
    BY <1>4
  <2>2. 0..n \in below /\ 0..n \in SUBSET Nat /\ 0..m \in SUBSET Nat
    OBVIOUS
  <2>3. <<0..n, 0..m>> \in StrictSubsetOrdering(Nat)
    BY <2>1, <2>2 DEF StrictSubsetOrdering
  <2> QED BY <1>2, <1>3, <2>2, <2>3
<1> QED BY <1>4

\* S has lo, and of a number up to the last the next one too: it has them all.
GoesFrom(lo, last, S) == lo \in S /\ \A i \in lo..last : i \in S /\ i # last => i + 1 \in S

LEMMA ToTheLast ==
    ASSUME NEW S, NEW lo \in Nat, NEW last \in Nat, GoesFrom(lo, last, S)
    PROVE  lo..last \subseteq S
<1> DEFINE gaps == {i \in lo..last : i \notin S}
<1>1. SUFFICES ASSUME gaps # {} PROVE FALSE
  OBVIOUS
<1>2. gaps \in SUBSET Nat
  OBVIOUS
<1>3. PICK m \in gaps : \A n \in gaps : m <= n
  <2> HIDE DEF gaps
  <2> QED BY <1>1, <1>2, LeastNumber
<1>4. m \in lo..last /\ m # lo /\ m \in Nat /\ m \notin S
  BY DEF GoesFrom
<1>5. m - 1 \in lo..last /\ ~(m <= m - 1) /\ (m - 1) + 1 = m /\ m - 1 # last
  BY <1>4
<1>6. m - 1 \in S
  BY <1>3, <1>5
<1> QED BY <1>4, <1>5, <1>6 DEF GoesFrom

\* A set of numbers has the least one that Min says.
LEMMA LeastIsMin ==
    ASSUME NEW S \in SUBSET Nat, S # {}
    PROVE  Min(S) \in S /\ \A n \in S : Min(S) <= n
<1>1. \E m \in S : \A n \in S : m <= n
  BY LeastNumber
<1> QED BY <1>1 DEF Min

\* f says what the first lists of s are, one after the other.
Joins(f, s, T) ==
    /\ f \in [0..Len(s) -> Seq(T)] /\ f[0] = <<>>
    /\ \A i \in 1..Len(s) : f[i] = f[i - 1] \o s[i]

\* It can be said of any lists.
LEMMA JoinsExist ==
    ASSUME NEW T, NEW s \in Seq(Seq(T))
    PROVE  \E f : Joins(f, s, T)
<1> DEFINE n == Len(s)
           reached == {m \in 0..n : \E f \in [0..m -> Seq(T)] :
                          f[0] = <<>> /\ \A i \in 1..m : f[i] = f[i - 1] \o s[i]}
<1>0. n \in Nat /\ \A i \in 1..n : s[i] \in Seq(T)
  BY ElementOfSeq, LenProperties
<1>1. 0 \in reached
  <2> DEFINE f == [i \in 0..0 |-> <<>>]
  <2>1. f \in [0..0 -> Seq(T)] /\ f[0] = <<>> /\ 1..0 = {} /\ 0 \in 0..n
    BY <1>0
  <2> HIDE DEF f
  <2> QED BY <2>1
<1>2. ASSUME NEW m \in 0..n, m \in reached, m # n
      PROVE  m + 1 \in reached
  <2>1. PICK f \in [0..m -> Seq(T)] : f[0] = <<>> /\ \A i \in 1..m : f[i] = f[i - 1] \o s[i]
    BY <1>2
  <2> DEFINE g == [i \in 0 .. m + 1 |-> IF i = m + 1 THEN f[m] \o s[m + 1] ELSE f[i]]
  <2>2. m \in 0..m /\ m + 1 \in 0..n /\ m + 1 \in 1..n
    BY <1>0, <1>2
  <2>3. f[m] \o s[m + 1] \in Seq(T)
    BY <1>0, <2>2, ConcatProperties
  <2>4. g \in [0 .. m + 1 -> Seq(T)]
    <3>1. \A i \in 0 .. m + 1 : i # m + 1 => i \in 0..m
      OBVIOUS
    <3> QED BY <2>3, <3>1
  <2>5. g[0] = <<>>
    BY <2>1
  <2>6. ASSUME NEW i \in 1 .. m + 1
        PROVE  g[i] = g[i - 1] \o s[i]
    <3>1. i \in 0 .. m + 1 /\ i - 1 \in 0 .. m + 1 /\ i - 1 # m + 1
      OBVIOUS
    <3>2. CASE i = m + 1
      BY <3>1, <3>2
    <3>3. CASE i # m + 1
      <4>1. i \in 1..m
        BY <3>3
      <4> QED BY <2>1, <3>1, <3>3, <4>1
    <3> QED BY <3>2, <3>3
  <2> HIDE DEF g
  <2> QED BY <2>2, <2>4, <2>5, <2>6
<1>3. n \in reached
  <2>1. n \in 0..n
    BY <1>0
  <2> HIDE DEF reached
  <2>2. GoesFrom(0, n, reached)
    BY <1>1, <1>2 DEF GoesFrom
  <2> HIDE DEF n
  <2> QED BY <1>0, <2>1, <2>2, ToTheLast
<1>4. PICK f \in [0..n -> Seq(T)] : f[0] = <<>> /\ \A i \in 1..n : f[i] = f[i - 1] \o s[i]
  BY <1>3
<1> QED BY <1>4 DEF Joins

\* FlattenSeq is the last of them.
LEMMA FlatJoins ==
    ASSUME NEW T, NEW s \in Seq(Seq(T)), NEW f, Joins(f, s, T)
    PROVE  FlattenSeq(s) = f[Len(s)]
<1> DEFINE n == Len(s)
           Step(g, i) == IF i = 1 THEN s[i] ELSE g[i - 1] \o s[i]
<1>0. n \in Nat /\ \A i \in 1..n : s[i] \in Seq(T)
  BY ElementOfSeq, LenProperties
<1>1. CASE n = 0
  <2>1. s = <<>>
    BY <1>1, EmptySeq
  <2> QED BY <1>1, <2>1 DEF FlattenSeq, Joins
<1>2. CASE n # 0
  <2> DEFINE at == CHOOSE g : g = [i \in 1..n |-> Step(g, i)]
             h == [i \in 1..n |-> f[i]]
  <2>1. h = [i \in 1..n |-> Step(h, i)]
    <3>1. ASSUME NEW i \in 1..n PROVE f[i] = Step(h, i)
      <4>1. f[i] = f[i - 1] \o s[i]
        BY DEF Joins
      <4>2. CASE i = 1
        <5>1. i - 1 = 0
          BY <4>2
        <5>2. f[0] = <<>> /\ <<>> \o s[i] = s[i]
          BY <1>0, ConcatEmptySeq DEF Joins
        <5> QED BY <4>1, <4>2, <5>1, <5>2
      <4>3. CASE i # 1
        <5>1. i - 1 \in 1..n
          BY <1>0, <4>3
        <5> QED BY <4>1, <4>3, <5>1
      <4> QED BY <4>2, <4>3
    <3> QED BY <3>1
  <2>2. at = [i \in 1..n |-> Step(at, i)]
    <3> HIDE DEF h
    <3>1. \E g : g = [i \in 1..n |-> Step(g, i)]
      BY <2>1
    <3> QED BY <3>1
  <2>3. FlattenSeq(s) = at[n]
    BY <1>2 DEF FlattenSeq
  <2> DEFINE S == {i \in 1..n : at[i] = f[i]}
  <2> HIDE DEF at
  <2>4. 1 \in S
    <3>1. 1 \in 1..n
      BY <1>0, <1>2
    <3>2. at[1] = s[1] /\ h[1] = s[1]
      BY <2>1, <2>2, <3>1
    <3> QED BY <3>1, <3>2
  <2>5. ASSUME NEW i \in 1..n, i \in S, i # n PROVE i + 1 \in S
    <3>1. i + 1 \in 1..n /\ i + 1 # 1 /\ (i + 1) - 1 = i
      BY <1>0, <2>5
    <3>2. at[i + 1] = at[i] \o s[i + 1] /\ h[i + 1] = h[i] \o s[i + 1]
      BY <2>1, <2>2, <3>1
    <3> QED BY <2>5, <3>1, <3>2
  <2>6. n \in S
    <3> HIDE DEF S
    <3>1. GoesFrom(1, n, S)
      BY <2>4, <2>5 DEF GoesFrom
    <3>2. n \in 1..n
      BY <1>0, <1>2
    <3> HIDE DEF n
    <3> QED BY <1>0, <3>1, <3>2, ToTheLast
  <2> QED BY <2>3, <2>6
<1> QED BY <1>1, <1>2

\* g makes one thing of one, and a list of a list.
Maps(g, M, T) == g \in [M -> T]
Mapped(g, s) == [j \in DOMAIN s |-> g[s[j]]]

LEMMA MappedIsASeq ==
    ASSUME NEW M, NEW T, NEW g, Maps(g, M, T), NEW s \in Seq(M)
    PROVE  Mapped(g, s) \in Seq(T) /\ Len(Mapped(g, s)) = Len(s)
<1>1. Len(s) \in Nat /\ DOMAIN s = 1..Len(s) /\ \A j \in 1..Len(s) : s[j] \in M
  BY LenProperties, ElementOfSeq
<1>2. Mapped(g, s) \in [1..Len(s) -> T]
  BY <1>1 DEF Mapped, Maps
<1>3. Mapped(g, s) \in Seq(T)
  BY <1>1, <1>2, SeqDef
<1> QED BY <1>1, <1>2, <1>3, LenProperties

LEMMA MappedConcat ==
    ASSUME NEW M, NEW T, NEW g, Maps(g, M, T), NEW s \in Seq(M), NEW t \in Seq(M)
    PROVE  Mapped(g, s \o t) = Mapped(g, s) \o Mapped(g, t)
<1> DEFINE u == s \o t
           gs == Mapped(g, s)
           gt == Mapped(g, t)
<1>1. /\ u \in Seq(M) /\ Len(u) = Len(s) + Len(t) /\ Len(s) \in Nat /\ Len(t) \in Nat
      /\ \A i \in 1 .. Len(s) + Len(t) : u[i] = IF i <= Len(s) THEN s[i] ELSE t[i - Len(s)]
  BY ConcatProperties, LenProperties
<1>2. /\ gs \in Seq(T) /\ Len(gs) = Len(s) /\ gt \in Seq(T) /\ Len(gt) = Len(t)
      /\ Mapped(g, u) \in Seq(T) /\ Len(Mapped(g, u)) = Len(u)
  <2>1. gs \in Seq(T) /\ Len(gs) = Len(s)
    BY MappedIsASeq
  <2>2. gt \in Seq(T) /\ Len(gt) = Len(t)
    BY MappedIsASeq
  <2> HIDE DEF u
  <2>3. Mapped(g, u) \in Seq(T) /\ Len(Mapped(g, u)) = Len(u)
    BY <1>1, MappedIsASeq
  <2> QED BY <2>1, <2>2, <2>3
<1>3. /\ gs \o gt \in Seq(T) /\ Len(gs \o gt) = Len(s) + Len(t)
      /\ \A i \in 1 .. Len(s) + Len(t) :
            (gs \o gt)[i] = IF i <= Len(s) THEN gs[i] ELSE gt[i - Len(s)]
  <2> HIDE DEF gs, gt
  <2> QED BY <1>2, ConcatProperties
<1>4. /\ \A j \in 1..Len(s) : gs[j] = g[s[j]]
      /\ \A j \in 1..Len(t) : gt[j] = g[t[j]]
      /\ \A j \in 1..Len(u) : Mapped(g, u)[j] = g[u[j]]
  BY <1>1, LenProperties DEF Mapped
<1> HIDE DEF u, gs, gt
<1>5. ASSUME NEW i \in 1 .. Len(s) + Len(t)
      PROVE  Mapped(g, u)[i] = (gs \o gt)[i]
  <2>1. CASE i <= Len(s)
    <3>1. i \in 1..Len(s) /\ i \in 1..Len(u)
      BY <1>1, <2>1
    <3>2. u[i] = s[i] /\ (gs \o gt)[i] = gs[i]
      BY <1>1, <1>3, <2>1
    <3>3. Mapped(g, u)[i] = g[u[i]] /\ gs[i] = g[s[i]]
      BY <1>4, <3>1
    <3> QED BY <3>2, <3>3
  <2>2. CASE ~(i <= Len(s))
    <3>1. i - Len(s) \in 1..Len(t) /\ i \in 1..Len(u)
      BY <1>1, <2>2
    <3>2. u[i] = t[i - Len(s)] /\ (gs \o gt)[i] = gt[i - Len(s)]
      BY <1>1, <1>3, <2>2
    <3>3. Mapped(g, u)[i] = g[u[i]]
      BY <1>4, <3>1
    <3>4. gt[i - Len(s)] = g[t[i - Len(s)]]
      BY <1>4, <3>1
    <3> QED BY <3>2, <3>3, <3>4
  <2> QED BY <2>1, <2>2
<1>6. Mapped(g, u) = gs \o gt
  <2> HIDE DEF Mapped
  <2> QED BY <1>1, <1>2, <1>3, <1>5, SeqEqual
<1> QED BY <1>6 DEF u, gs, gt

LEMMA MappedOne ==
    ASSUME NEW M, NEW T, NEW g, Maps(g, M, T), NEW m \in M
    PROVE  Mapped(g, <<m>>) = <<g[m]>>
<1>1. <<m>> = [j \in 1..1 |-> m] /\ <<g[m]>> = [j \in 1..1 |-> g[m]]
  OBVIOUS
<1> QED BY <1>1 DEF Mapped, Maps

\* Of every list of L, the list of R beside it is what g makes of it.
Follows(R, L, g, M, T) ==
    /\ L \in Seq(Seq(M)) /\ R \in Seq(Seq(T)) /\ Len(R) = Len(L)
    /\ \A i \in 1..Len(L) : R[i] = Mapped(g, L[i])

\* So is then the whole of the one of the whole of the other.
LEMMA FlatFollows ==
    ASSUME NEW M, NEW T, NEW g, Maps(g, M, T), NEW L, NEW R,
           Follows(R, L, g, M, T)
    PROVE  FlattenSeq(L) \in Seq(M) /\ FlattenSeq(R) = Mapped(g, FlattenSeq(L))
<1> DEFINE n == Len(L)
<1>1. /\ L \in Seq(Seq(M)) /\ R \in Seq(Seq(T)) /\ Len(R) = n /\ n \in Nat
      /\ \A i \in 1..n : R[i] = Mapped(g, L[i]) /\ L[i] \in Seq(M)
  BY LenProperties, ElementOfSeq DEF Follows
<1>2. PICK l : Joins(l, L, M)
  BY <1>1, JoinsExist
<1>3. PICK r : Joins(r, R, T)
  BY <1>1, JoinsExist
<1>4. FlattenSeq(L) = l[n] /\ FlattenSeq(R) = r[n]
  BY <1>1, <1>2, <1>3, FlatJoins
<1> HIDE DEF n
<1>5. /\ l[0] = <<>> /\ \A i \in 1..n : l[i] = l[i - 1] \o L[i]
      /\ r[0] = <<>> /\ \A i \in 1..n : r[i] = r[i - 1] \o R[i]
      /\ \A i \in 0..n : l[i] \in Seq(M)
  BY <1>1, <1>2, <1>3 DEF Joins, n
<1> DEFINE S == {i \in 0..n : r[i] = Mapped(g, l[i])}
<1>6. 0 \in S
  <2>1. Mapped(g, <<>>) = <<>>
    BY DEF Mapped
  <2>2. 0 \in 0..n
    BY <1>1
  <2> QED BY <1>5, <2>1, <2>2
<1>7. ASSUME NEW i \in 0..n, i \in S, i # n PROVE i + 1 \in S
  <2>1. i + 1 \in 0..n /\ i + 1 \in 1..n /\ (i + 1) - 1 = i
    BY <1>1, <1>7
  <2>2. Mapped(g, l[i] \o L[i + 1]) = Mapped(g, l[i]) \o Mapped(g, L[i + 1])
    <3>1. l[i] \in Seq(M) /\ L[i + 1] \in Seq(M)
      BY <1>1, <1>5, <2>1
    <3>2. \A x, y \in Seq(M) : Mapped(g, x \o y) = Mapped(g, x) \o Mapped(g, y)
      BY MappedConcat
    <3> QED BY <3>1, <3>2
  <2>3. r[i + 1] = r[i] \o R[i + 1] /\ l[i + 1] = l[i] \o L[i + 1]
    BY <1>5, <2>1
  <2> QED BY <1>1, <1>7, <2>1, <2>2, <2>3
<1>8. n \in S
  <2> HIDE DEF S
  <2>1. GoesFrom(0, n, S)
    BY <1>6, <1>7 DEF GoesFrom
  <2>2. n \in 0..n
    BY <1>1
  <2> QED BY <1>1, <2>1, <2>2, ToTheLast
<1> QED BY <1>1, <1>4, <1>5, <1>8

\* A list of which one is made of each is as long.
LEMMA FlatOnes ==
    ASSUME NEW T, NEW s \in Seq(T)
    PROVE  FlattenSeq([j \in DOMAIN s |-> <<s[j]>>]) = s
<1> DEFINE n == Len(s)
           ones == [j \in DOMAIN s |-> <<s[j]>>]
<1>1. n \in Nat /\ DOMAIN s = 1..n /\ \A j \in 1..n : s[j] \in T
  BY LenProperties, ElementOfSeq
<1>2. ones \in Seq(Seq(T)) /\ Len(ones) = n
  <2>1. ones \in [1..n -> Seq(T)]
    BY <1>1
  <2>2. ones \in Seq(Seq(T))
    BY <1>1, <2>1, SeqDef
  <2> QED BY <1>1, <2>1, <2>2, LenProperties
<1>3. PICK f : Joins(f, ones, T)
  BY <1>2, JoinsExist
<1>4. FlattenSeq(ones) = f[n]
  BY <1>2, <1>3, FlatJoins
<1>5. f[0] = <<>> /\ \A i \in 1..n : f[i] = f[i - 1] \o <<s[i]>>
  BY <1>1, <1>2, <1>3 DEF Joins
<1> HIDE DEF n, ones
<1> DEFINE S == {i \in 0..n : f[i] = SubSeq(s, 1, i)}
<1>6. 0 \in S
  <2>1. SubSeq(s, 1, 0) = <<>>
    BY SubSeqEmpty
  <2>2. 0 \in 0..n
    BY <1>1
  <2> QED BY <1>5, <2>1, <2>2
<1>7. ASSUME NEW i \in 0..n, i \in S, i # n PROVE i + 1 \in S
  <2>1. i + 1 \in 0..n /\ i + 1 \in 1..n /\ (i + 1) - 1 = i /\ 1 \in 1..n /\ i + 1 \in 1 .. i + 1
    BY <1>1, <1>7
  <2>2. SubSeq(s, 1, i + 1) = SubSeq(s, 1, i) \o <<s[i + 1]>>
    BY <1>1, <2>1, SubSeqRecursiveSecond DEF n
  <2>3. f[i + 1] = f[i] \o <<s[i + 1]>>
    BY <1>5, <2>1
  <2> QED BY <1>7, <2>1, <2>2, <2>3
<1>8. n \in S
  <2> HIDE DEF S
  <2>1. GoesFrom(0, n, S)
    BY <1>6, <1>7 DEF GoesFrom
  <2>2. n \in 0..n
    BY <1>1
  <2> QED BY <1>1, <2>1, <2>2, ToTheLast
<1>9. SubSeq(s, 1, n) = s
  BY SubSeqFull DEF n
<1> QED BY <1>4, <1>8, <1>9 DEF ones

\* What reading the thoughts makes of a row.
LEMMA RowRead ==
    ASSUME NEW kind, NEW role, NEW text, NEW id, NEW err
    PROVE  ThoughtRead(Row(kind, role, text, id, err))
              = Row(kind, role, IF kind = "thinking" THEN ReadableText(text) ELSE text, id, err)
<1> DEFINE row == Row(kind, role, text, id, err)
           read == ReadableText(text)
<1>1. /\ row = [kind |-> kind, role |-> role, text |-> text, id |-> id, err |-> err]
      /\ row.kind = kind /\ row.text = text
  BY DEF Row
<1>2. CASE kind = "thinking"
  <2>1. ThoughtRead(row) = [row EXCEPT !.text = read]
    BY <1>1, <1>2 DEF ThoughtRead
  <2> HIDE DEF read
  <2>2. [row EXCEPT !.text = read]
           = [kind |-> kind, role |-> role, text |-> read, id |-> id, err |-> err]
    BY <1>1
  <2> QED BY <1>2, <2>1, <2>2 DEF Row, read
<1>3. CASE kind # "thinking"
  BY <1>1, <1>3 DEF ThoughtRead
<1> QED BY <1>2, <1>3

\* A part is nothing to both clients or one row to both.
PartShown(p, d, tr) ==
    \/ LegacyPart(p) = <<>> /\ RowOf(tr, p) = <<>>
    \/ \E m, r : LegacyPart(p) = <<m>> /\ RowOf(tr, p) = <<ThoughtRead(r)>>
                   /\ FlatPart(d, m) = <<r>>

\* So it is with the roles of a text alike.
SameRole(p, d, tr) == p.kind = "text" => tr = d /\ d # "none"

LEMMA PartAlike ==
    ASSUME NEW p, NEW d, NEW tr, SameRole(p, d, tr)
    PROVE  PartShown(p, d, tr)
<1> USE DEF PartShown, SameRole
<1>1. CASE p.kind = "text"
  <2> DEFINE m == [type |-> "text", text |-> p.text]
             r == Row("text", d, ReadableText(p.text), NoId, FALSE)
  <2>1. LegacyPart(p) = <<m>> /\ FlatPart(d, m) = <<r>>
    BY <1>1 DEF LegacyPart, FlatPart
  <2>2. RowOf(tr, p) = <<r>>
    BY <1>1 DEF RowOf
  <2>3. ThoughtRead(r) = r
    BY RowRead
  <2> HIDE DEF m, r
  <2> QED BY <2>1, <2>2, <2>3
<1>2. CASE p.kind = "thinking"
  <2> DEFINE m == [type |-> "thinking", thinking |-> p.text]
             r == Row("thinking", "none", p.text, NoId, FALSE)
  <2>1. LegacyPart(p) = <<m>> /\ FlatPart(d, m) = <<r>>
    BY <1>2 DEF LegacyPart, FlatPart
  <2>2. RowOf(tr, p) = <<Row("thinking", "none", ReadableText(p.text), NoId, FALSE)>>
    BY <1>2 DEF RowOf
  <2>3. ThoughtRead(r) = Row("thinking", "none", ReadableText(p.text), NoId, FALSE)
    BY RowRead
  <2> HIDE DEF m, r
  <2> QED BY <2>1, <2>2, <2>3
<1>3. CASE p.kind = "tool_call"
  <2> DEFINE m == [type |-> "tool_use", id |-> p.id]
             r == Row("tool_use", "none", "", p.id, FALSE)
  <2>1. LegacyPart(p) = <<m>> /\ FlatPart(d, m) = <<r>>
    BY <1>3 DEF LegacyPart, FlatPart
  <2>2. RowOf(tr, p) = <<r>>
    BY <1>3 DEF RowOf
  <2>3. ThoughtRead(r) = r
    BY RowRead
  <2> HIDE DEF m, r
  <2> QED BY <2>1, <2>2, <2>3
<1>4. CASE p.kind = "tool_result"
  <2> DEFINE m == [type |-> "tool_result", tool_use_id |-> p.id, content |-> p.out,
                   is_error |-> p.err]
             r == Row("tool_result", "none", p.out, p.id, p.err)
  <2>1. LegacyPart(p) = <<m>> /\ FlatPart(d, m) = <<r>>
    BY <1>4 DEF LegacyPart, FlatPart
  <2>2. RowOf(tr, p) = <<r>>
    BY <1>4 DEF RowOf
  <2>3. ThoughtRead(r) = r
    BY RowRead
  <2> HIDE DEF m, r
  <2> QED BY <2>1, <2>2, <2>3
<1>5. CASE p.kind \notin {"text", "thinking", "tool_call", "tool_result"}
  BY <1>5 DEF LegacyPart, RowOf
<1> QED BY <1>1, <1>2, <1>3, <1>4, <1>5

\* So it is when the older client has the normalized part itself.
LEMMA NormalizedAlike ==
    ASSUME NEW p, NEW tr
    PROVE  \/ FlatNormalized(tr, p) = <<>> /\ RowOf(tr, p) = <<>>
           \/ \E r : FlatNormalized(tr, p) = <<r>> /\ RowOf(tr, p) = <<ThoughtRead(r)>>
<1>1. CASE p.kind = "thinking"
  <2> DEFINE r == Row("thinking", "none", p.text, NoId, FALSE)
  <2>1. FlatNormalized(tr, p) = <<r>>
    BY <1>1 DEF FlatNormalized
  <2>2. RowOf(tr, p) = <<Row("thinking", "none", ReadableText(p.text), NoId, FALSE)>>
    BY <1>1 DEF RowOf
  <2>3. ThoughtRead(r) = Row("thinking", "none", ReadableText(p.text), NoId, FALSE)
    BY RowRead
  <2> HIDE DEF r
  <2> QED BY <2>1, <2>2, <2>3
<1>2. CASE p.kind # "thinking"
  <2>1. FlatNormalized(tr, p) = RowOf(tr, p)
    BY <1>2 DEF FlatNormalized
  <2>2. RowOf(tr, p) = <<>> \/ \E r : RowOf(tr, p) = <<r>> /\ ThoughtRead(r) = r
    <3>1. CASE p.kind = "text"
      <4> DEFINE r == Row("text", tr, ReadableText(p.text), NoId, FALSE)
      <4>1. RowOf(tr, p) \in {<<>>, <<r>>}
        BY <3>1 DEF RowOf
      <4>2. ThoughtRead(r) = r
        BY RowRead
      <4> HIDE DEF r
      <4> QED BY <4>1, <4>2
    <3>2. CASE p.kind = "tool_call"
      <4> DEFINE r == Row("tool_use", "none", "", p.id, FALSE)
      <4>1. RowOf(tr, p) = <<r>>
        BY <3>2 DEF RowOf
      <4>2. ThoughtRead(r) = r
        BY RowRead
      <4> HIDE DEF r
      <4> QED BY <4>1, <4>2
    <3>3. CASE p.kind = "tool_result"
      <4> DEFINE r == Row("tool_result", "none", p.out, p.id, p.err)
      <4>1. RowOf(tr, p) = <<r>>
        BY <3>3 DEF RowOf
      <4>2. ThoughtRead(r) = r
        BY RowRead
      <4> HIDE DEF r
      <4> QED BY <4>1, <4>2
    <3>4. CASE p.kind \notin {"text", "thinking", "tool_call", "tool_result"}
      BY <3>4 DEF RowOf
    <3> QED BY <1>2, <3>1, <3>2, <3>3, <3>4
  <2> QED BY <2>1, <2>2
<1> QED BY <1>1, <1>2

\* What the i-th part is to one client, and to the other: nothing, or a row and what g
\* makes of it.
Paired(L, R, n, g, M) ==
    /\ L = [i \in 1..n |-> L[i]] /\ R = [i \in 1..n |-> R[i]]
    /\ \A i \in 1..n : \/ L[i] = <<>> /\ R[i] = <<>>
                       \/ \E m \in M : L[i] = <<m>> /\ R[i] = <<g[m]>>

LEMMA FlatPaired ==
    ASSUME NEW M, NEW T, NEW g, Maps(g, M, T), NEW n \in Nat, NEW L, NEW R, Paired(L, R, n, g, M)
    PROVE  FlattenSeq(L) \in Seq(M) /\ FlattenSeq(R) = Mapped(g, FlattenSeq(L))
<1>1. ASSUME NEW i \in 1..n
      PROVE  L[i] \in Seq(M) /\ R[i] \in Seq(T) /\ R[i] = Mapped(g, L[i])
  <2>1. CASE L[i] = <<>> /\ R[i] = <<>>
    <3>1. Mapped(g, <<>>) = <<>>
      BY DEF Mapped
    <3> QED BY <2>1, <3>1, EmptySeq
  <2>2. CASE \E m \in M : L[i] = <<m>> /\ R[i] = <<g[m]>>
    <3>1. PICK m \in M : L[i] = <<m>> /\ R[i] = <<g[m]>>
      BY <2>2
    <3>2. Mapped(g, <<m>>) = <<g[m]>>
      BY MappedOne
    <3>3. g[m] \in T
      BY DEF Maps
    <3> QED BY <3>1, <3>2, <3>3
  <2> QED BY <2>1, <2>2 DEF Paired
<1>2. L = [i \in 1..n |-> L[i]] /\ R = [i \in 1..n |-> R[i]] /\ DOMAIN L = 1..n /\ DOMAIN R = 1..n
  <2>1. L = [i \in 1..n |-> L[i]] /\ R = [i \in 1..n |-> R[i]]
    BY DEF Paired
  <2> QED BY <2>1
<1>3. L \in Seq(Seq(M)) /\ Len(L) = n
  <2>1. L \in [1..n -> Seq(M)]
    BY <1>1, <1>2
  <2> QED BY <1>2, <2>1, SeqDef, LenProperties
<1>4. R \in Seq(Seq(T)) /\ Len(R) = n
  <2>1. R \in [1..n -> Seq(T)]
    BY <1>1, <1>2
  <2> QED BY <1>2, <2>1, SeqDef, LenProperties
<1>5. Follows(R, L, g, M, T)
  BY <1>1, <1>3, <1>4 DEF Follows
<1> QED BY <1>5, FlatFollows

\* Parts of which the texts have the same role to both clients.
PartsAlike(parts, d, tr) ==
    /\ parts \in Seq(ToSet(parts))
    /\ \A i \in DOMAIN parts : parts[i].kind = "text" => tr = d /\ d # "none"

\* What the older client makes of the older form of parts is what the server makes of them,
\* when its thoughts are read.
LEMMA AlikeParts ==
    ASSUME NEW parts, NEW d, NEW tr, PartsAlike(parts, d, tr)
    PROVE  LET content == Each(parts, LegacyPart)
           IN  ThoughtsRead(FlattenSeq([j \in DOMAIN content |-> FlatPart(d, content[j])]))
                  = FlattenSeq([i \in DOMAIN parts |-> RowOf(tr, parts[i])])
<1> DEFINE n == Len(parts)
           L == [i \in DOMAIN parts |-> LegacyPart(parts[i])]
           R == [i \in DOMAIN parts |-> RowOf(tr, parts[i])]
           M == {L[i][1] : i \in {k \in 1..n : L[k] # <<>>}}
           h == [m \in M |-> FlatPart(d, m)[1]]
           H == {h[m] : m \in M}
           g == [m \in M |-> ThoughtRead(h[m])]
           T == {g[m] : m \in M}
<1>1. n \in Nat /\ DOMAIN parts = 1..n
  BY LenProperties DEF PartsAlike
<1>2. ASSUME NEW i \in 1..n
      PROVE  \/ L[i] = <<>> /\ R[i] = <<>>
             \/ L[i][1] \in M /\ L[i] = <<L[i][1]>> /\ R[i] = <<g[L[i][1]]>>
                  /\ FlatPart(d, L[i][1]) = <<h[L[i][1]]>>
  <2> DEFINE p == parts[i]
  <2>1. L[i] = LegacyPart(p) /\ R[i] = RowOf(tr, p)
    BY <1>1
  <2>2. SameRole(p, d, tr)
    BY <1>1 DEF PartsAlike, SameRole
  <2> HIDE DEF L, R, p
  <2>3. CASE LegacyPart(p) = <<>> /\ RowOf(tr, p) = <<>>
    BY <2>1, <2>3
  <2>4. CASE \E m, r : LegacyPart(p) = <<m>> /\ RowOf(tr, p) = <<ThoughtRead(r)>>
                         /\ FlatPart(d, m) = <<r>>
    <3>1. PICK m, r : LegacyPart(p) = <<m>> /\ RowOf(tr, p) = <<ThoughtRead(r)>>
                         /\ FlatPart(d, m) = <<r>>
      BY <2>4
    <3>2. L[i] = <<m>> /\ R[i] = <<ThoughtRead(r)>> /\ L[i][1] = m /\ L[i] # <<>>
      BY <2>1, <3>1
    <3>3. m \in M
      BY <3>2
    <3>4. h[m] = r /\ g[m] = ThoughtRead(r)
      <4> HIDE DEF M
      <4>1. h[m] = FlatPart(d, m)[1] /\ g[m] = ThoughtRead(h[m])
        BY <3>3
      <4> HIDE DEF g, h
      <4>2. h[m] = r
        BY <3>1, <4>1
      <4> QED BY <4>1, <4>2
    <3> HIDE DEF M, g, h
    <3> QED BY <3>1, <3>2, <3>3, <3>4
  <2>5. PartShown(p, d, tr)
    BY <2>2, PartAlike
  <2> HIDE DEF M, g, h
  <2> QED BY <2>3, <2>4, <2>5 DEF PartShown
<1>3. Maps(g, M, T) /\ Maps(h, M, H)
  BY DEF Maps
<1>4. L = [i \in 1..n |-> L[i]] /\ R = [i \in 1..n |-> R[i]]
  BY <1>1
<1>5. \A m \in M : g[m] = ThoughtRead(h[m])
  OBVIOUS
<1>6. \A m \in M : FlatPart(d, m) = <<h[m]>>
  <2>1. ASSUME NEW m \in M PROVE FlatPart(d, m) = <<h[m]>>
    <3>1. PICK i \in 1..n : L[i] # <<>> /\ m = L[i][1]
      BY <2>1
    <3> HIDE DEF M, L, R, g, h
    <3> QED BY <1>2, <3>1
  <2> QED BY <2>1
<1> HIDE DEF M, T, L, R, g, h, H
<1>7. Paired(L, R, n, g, M)
  BY <1>2, <1>4 DEF Paired
<1> DEFINE content == FlattenSeq(L)
           u == Mapped(h, content)
<1>8. content \in Seq(M) /\ FlattenSeq(R) = Mapped(g, content)
  BY <1>1, <1>3, <1>7, FlatPaired
<1> HIDE DEF content
<1>9. DOMAIN content = 1..Len(content) /\ \A j \in DOMAIN content : content[j] \in M
  BY <1>8, LenProperties, ElementOfSeq
<1>10. u \in Seq(H)
  BY <1>3, <1>8, MappedIsASeq
<1>11. [j \in DOMAIN content |-> FlatPart(d, content[j])] = [j \in DOMAIN u |-> <<u[j]>>]
  BY <1>6, <1>9 DEF Mapped
<1>12. ThoughtsRead(u) = Mapped(g, content)
  BY <1>5, <1>9 DEF ThoughtsRead, Mapped
<1> HIDE DEF u
<1>13. FlattenSeq([j \in DOMAIN u |-> <<u[j]>>]) = u
  BY <1>10, FlatOnes
<1>14. Each(parts, LegacyPart) = content
  BY DEF Each, content, L
<1> QED BY <1>8, <1>11, <1>12, <1>13, <1>14 DEF R

\* So it is with the normalized parts themselves.
LEMMA AlikeNormalized ==
    ASSUME NEW parts, parts \in Seq(ToSet(parts)), NEW tr
    PROVE  ThoughtsRead(FlattenSeq([i \in DOMAIN parts |-> FlatNormalized(tr, parts[i])]))
              = FlattenSeq([i \in DOMAIN parts |-> RowOf(tr, parts[i])])
<1> DEFINE n == Len(parts)
           L == [i \in DOMAIN parts |-> FlatNormalized(tr, parts[i])]
           R == [i \in DOMAIN parts |-> RowOf(tr, parts[i])]
           M == {L[i][1] : i \in {k \in 1..n : L[k] # <<>>}}
           g == [r \in M |-> ThoughtRead(r)]
           T == {g[r] : r \in M}
<1>1. n \in Nat /\ DOMAIN parts = 1..n
  BY LenProperties
<1>2. ASSUME NEW i \in 1..n
      PROVE  (L[i] = <<>> /\ R[i] = <<>>) \/ \E r \in M : L[i] = <<r>> /\ R[i] = <<g[r]>>
  <2> DEFINE p == parts[i]
  <2>1. L[i] = FlatNormalized(tr, p) /\ R[i] = RowOf(tr, p)
    BY <1>1
  <2> HIDE DEF L, R, p
  <2>2. CASE FlatNormalized(tr, p) = <<>> /\ RowOf(tr, p) = <<>>
    BY <2>1, <2>2
  <2>3. CASE \E r : FlatNormalized(tr, p) = <<r>> /\ RowOf(tr, p) = <<ThoughtRead(r)>>
    <3>1. PICK r : FlatNormalized(tr, p) = <<r>> /\ RowOf(tr, p) = <<ThoughtRead(r)>>
      BY <2>3
    <3>2. L[i] = <<r>> /\ R[i] = <<ThoughtRead(r)>> /\ L[i][1] = r /\ L[i] # <<>>
      BY <2>1, <3>1
    <3>3. r \in M
      BY <3>2
    <3>4. g[r] = ThoughtRead(r)
      <4> HIDE DEF M
      <4> QED BY <3>3
    <3> HIDE DEF M, g
    <3> QED BY <3>2, <3>3, <3>4
  <2> QED BY <2>2, <2>3, NormalizedAlike
<1>3. Maps(g, M, T)
  BY DEF Maps
<1>4. L = [i \in 1..n |-> L[i]] /\ R = [i \in 1..n |-> R[i]]
  BY <1>1
<1>5. \A r \in M : g[r] = ThoughtRead(r)
  OBVIOUS
<1> HIDE DEF M, T, L, R, g
<1>6. Paired(L, R, n, g, M)
  BY <1>2, <1>4 DEF Paired
<1> DEFINE rows == FlattenSeq(L)
<1>7. rows \in Seq(M) /\ FlattenSeq(R) = Mapped(g, rows)
  BY <1>1, <1>3, <1>6, FlatPaired
<1> HIDE DEF rows
<1>8. \A j \in DOMAIN rows : rows[j] \in M
  BY <1>7, LenProperties, ElementOfSeq
<1>9. ThoughtsRead(rows) = Mapped(g, rows)
  BY <1>5, <1>8 DEF ThoughtsRead, Mapped
<1> QED BY <1>7, <1>9 DEF rows, L, R

----------------------------------------------------------------------------
(* What the parsers make of a line *)

ToolKinds == {"thinking", "tool_call", "tool_result"}

\* An event of these kinds says nothing as text.
Textless(e) ==
    e.kind \in ToolKinds =>
        \A i \in DOMAIN e.parts : "kind" \in DOMAIN e.parts[i] => e.parts[i].kind # "text"

LEMMA KindForTextless ==
    ASSUME NEW role, NEW parts, NEW type, KindFor(role, parts, type) \in ToolKinds
    PROVE  \A i \in DOMAIN parts : parts[i].kind # "text"
<1>1. PICK kind \in ToolKinds : All(parts, kind)
  BY DEF KindFor, ToolKinds
<1> QED BY <1>1 DEF All, ToolKinds

LEMMA AsThinkingTextless ==
    ASSUME NEW parts, NEW i \in DOMAIN AsThinking(parts), "kind" \in DOMAIN AsThinking(parts)[i]
    PROVE  AsThinking(parts)[i].kind # "text"
<1> DEFINE p == parts[i]
           q == IF p.kind = "text" THEN [p EXCEPT !.kind = "thinking"] ELSE p
<1>1. AsThinking(parts)[i] = q
  BY DEF AsThinking
<1>2. CASE p.kind = "text"
  <2>1. q = [p EXCEPT !.kind = "thinking"]
    BY <1>2
  <2>2. DOMAIN q = DOMAIN p
    BY <2>1
  <2> HIDE DEF p, q
  <2>3. "kind" \in DOMAIN p
    BY <1>1, <2>2
  <2>4. q.kind = "thinking"
    BY <2>1, <2>3
  <2> QED BY <1>1, <2>4
<1>3. CASE p.kind # "text"
  BY <1>1, <1>3
<1> QED BY <1>2, <1>3

LEMMA CallTextless ==
    ASSUME NEW o, NEW kind, NEW role, NEW display, NEW source
    PROVE  /\ Textless(CodexEventOf(kind, role, CallPart(o), display, source))
           /\ Textless(CodexEventOf(kind, role, ResultPart(o), display, source))
<1>1. DOMAIN CallPart(o) = {1} /\ CallPart(o)[1].kind = "tool_call"
  BY DEF CallPart
<1>2. DOMAIN ResultPart(o) = {1} /\ ResultPart(o)[1].kind = "tool_result"
  <2>1. ASSUME NEW id, NEW out, NEW err
        PROVE  LET parts == <<[kind |-> "tool_result", id |-> id, out |-> out, err |-> err]>>
               IN  DOMAIN parts = {1} /\ parts[1].kind = "tool_result"
    OBVIOUS
  <2> QED BY <2>1, Zenon DEF ResultPart
<1>3. ASSUME NEW parts PROVE CodexEventOf(kind, role, parts, display, source).parts = parts
  BY DEF CodexEventOf
<1> QED BY <1>1, <1>2, <1>3 DEF Textless

LEMMA KindForEvent ==
    ASSUME NEW role, NEW parts, NEW type, NEW display, NEW source
    PROVE  Textless(CodexEventOf(KindFor(role, parts, type), role, parts, display, source))
  BY KindForTextless DEF Textless, CodexEventOf

LEMMA OtherKind ==
    ASSUME NEW kind, kind \notin ToolKinds, NEW role, NEW parts, NEW display, NEW source
    PROVE  Textless(CodexEventOf(kind, role, parts, display, source))
  BY DEF Textless, CodexEventOf

LEMMA FramingTextless ==
    ASSUME NEW types
    PROVE  FramingKind(types) \notin ToolKinds
  BY DEF FramingKind, ToolKinds

\* One of five.
LEMMA ChoiceTextless ==
    ASSUME NEW type, NEW t, NEW C, NEW R, NEW u, NEW a, Textless(a), NEW b, Textless(b),
           NEW c, Textless(c), NEW d, Textless(d), NEW e, Textless(e)
    PROVE  Textless(CASE type = t -> a [] type \in C -> b [] type \in R -> c
                      [] type = u -> d [] OTHER -> e)
  OBVIOUS

LEMMA ItemTextless ==
    ASSUME NEW item, NEW source
    PROVE  Textless(ItemEvent(item, source))
<1> DEFINE type == First(item, <<"type">>, NoType)
           role == NormalizeRole(First(item, <<"role">>, ""))
           parts == Normalize(First(item, <<"content">>, <<>>))
           summary == AsThinking(Normalize(First(item, <<"summary", "content", "text">>, <<>>)))
<1>1. Textless(CodexEventOf(KindFor(role, parts, type), role, parts,
                            role \in {"user", "assistant"} /\ parts # <<>>, source))
  <2> HIDE DEF type, role, parts
  <2> QED BY KindForEvent
<1>2. Textless(CodexEventOf("thinking", "assistant", summary, summary # <<>>, source))
  <2> DEFINE e == CodexEventOf("thinking", "assistant", summary, summary # <<>>, source)
  <2>1. e.parts = summary
    BY DEF CodexEventOf
  <2> HIDE DEF e
  <2>2. \A i \in DOMAIN summary : "kind" \in DOMAIN summary[i] => summary[i].kind # "text"
    BY AsThinkingTextless
  <2> HIDE DEF summary
  <2> QED BY <2>1, <2>2 DEF Textless, e
<1>3. "event" \notin ToolKinds
  BY DEF ToolKinds
<1>4. Textless(CodexEventOf("event", "system", EventPart(item), FALSE, source))
  BY <1>3, OtherKind
<1>5. /\ Textless(CodexEventOf("tool_call", "tool", CallPart(item), TRUE, source))
      /\ Textless(CodexEventOf("tool_result", "tool", ResultPart(item), TRUE, source))
  BY CallTextless
<1> QED BY <1>1, <1>2, <1>4, <1>5, ChoiceTextless, Zenon DEF ItemEvent

LEMMA EnvelopeChoice ==
    ASSUME NEW P, NEW Q, NEW R, NEW S, NEW T, P \/ Q \/ R \/ S \/ T,
           NEW a, Textless(a), NEW b, Textless(b), NEW c, Textless(c), NEW d, Textless(d),
           NEW e, Textless(e)
    PROVE  Textless(CASE P -> a [] Q -> b [] R -> c [] S -> d [] T -> e)
  OBVIOUS

LEMMA EnvelopeTextless ==
    ASSUME NEW o, IsEnvelope(o)
    PROVE  Textless(EnvelopeEvent(o))
<1> DEFINE payload == Payload(o)
           type == First(payload, <<"type">>, KindOf(o))
           source == [SourceOf(o) EXCEPT !.rawKind = type]
           role == IF type = <<"agent", "message">> THEN "assistant" ELSE "user"
           parts == Normalize(First(payload, <<"message", "content", "text">>, <<>>))
<1>1. Textless(ItemEvent(payload, source))
  <2> HIDE DEF payload, source
  <2> QED BY ItemTextless
<1>2. Textless(CodexEventOf(FramingKind({TypeOf(o)}), "system", EventPart(payload), FALSE, source))
  <2> HIDE DEF payload, source
  <2> QED BY FramingTextless, OtherKind
<1>3. Textless(CodexEventOf(KindFor(role, parts, type), role, parts, parts # <<>>, source))
  <2> HIDE DEF role, parts, type, source
  <2> QED BY KindForEvent
<1>4. /\ Textless(CodexEventOf("tool_call", "tool", CallPart(payload), TRUE, source))
      /\ Textless(CodexEventOf("tool_result", "tool", ResultPart(payload), TRUE, source))
  <2> HIDE DEF payload, source
  <2> QED BY CallTextless
<1>5. \/ TypeOf(o) = <<"response", "item">>
      \/ TypeOf(o) \in Framing
      \/ TypeOf(o) = <<"event", "msg">> /\ type \in Spoken
      \/ TypeOf(o) = <<"event", "msg">> /\ type = ExecBegin
      \/ TypeOf(o) = <<"event", "msg">> /\ type = ExecEnd
  BY Zenon DEF IsEnvelope
<1> QED BY <1>1, <1>2, <1>3, <1>4, <1>5, EnvelopeChoice, Zenon DEF EnvelopeEvent

Readings == {"envelope", "session", "item", "output", "call", "result", "user", "assistant",
             "role", "event"}

\* The reading that is taken is one that applies.
LEMMA ReadingApplies ==
    ASSUME NEW o
    PROVE  /\ ReadingOf(o) \in Readings
           /\ ReadingOf(o) = "envelope" => IsEnvelope(o)
           /\ ReadingOf(o) = "role" => RoleOf(o) # "system"
<1> DEFINE S == {i \in DOMAIN CodexReadings :
                   Applies(CodexReadings[i], o, TypeOf(o), {TypeOf(o), KindOf(o)})}
<1>1. DOMAIN CodexReadings = 1..10 /\ CodexReadings[10] = "event"
  BY DEF CodexReadings
<1>2. \A i \in 1..10 : CodexReadings[i] \in Readings
  BY DEF CodexReadings, Readings
<1>3. Applies("event", o, TypeOf(o), {TypeOf(o), KindOf(o)})
  BY DEF Applies
<1>4. 10 \in S /\ S \in SUBSET Nat
  BY <1>1, <1>3
<1>5. ReadingOf(o) = CodexReadings[Min(S)]
  BY DEF ReadingOf
<1>6. Min(S) \in S
  <2> HIDE DEF S
  <2> QED BY <1>4, LeastIsMin
<1>7. /\ Min(S) \in 1..10
      /\ Applies(ReadingOf(o), o, TypeOf(o), {TypeOf(o), KindOf(o)})
  BY <1>1, <1>5, <1>6
<1>8. /\ Applies("envelope", o, TypeOf(o), {TypeOf(o), KindOf(o)}) => IsEnvelope(o)
      /\ Applies("role", o, TypeOf(o), {TypeOf(o), KindOf(o)}) => RoleOf(o) # "system"
  BY DEF Applies
<1> QED BY <1>2, <1>5, <1>7, <1>8

LEMMA KeptTextless ==
    ASSUME NEW o, NEW types
    PROVE  Textless(KeptAsData(o)) /\ Textless([KeptAsData(o) EXCEPT !.kind = FramingKind(types)])
<1> DEFINE e == KeptAsData(o)
           f == [e EXCEPT !.kind = FramingKind(types)]
<1>1. e.kind = "event" /\ "kind" \in DOMAIN e
  BY DEF KeptAsData, CodexEventOf
<1> HIDE DEF e
<1>2. f.kind = FramingKind(types)
  BY <1>1
<1> HIDE DEF f
<1>3. Textless(e) /\ Textless(f)
  BY <1>1, <1>2, FramingTextless DEF Textless, ToolKinds
<1> QED BY <1>3 DEF e, f

LEMMA SpeechTextless ==
    ASSUME NEW parts, NEW source
    PROVE  Textless(SpeechOf(parts, source))
<1> DEFINE kind == IF All(parts, "thinking") THEN "thinking" ELSE "message"
           e == CodexEventOf(kind, "assistant", parts, parts # <<>>, source)
<1>1. SpeechOf(parts, source) = e
  BY Zenon DEF SpeechOf, MessageOf
<1>2. CASE All(parts, "thinking")
  <2>1. \A i \in DOMAIN parts : parts[i].kind # "text"
    BY <1>2 DEF All
  <2>2. e.parts = parts
    BY DEF CodexEventOf
  <2> HIDE DEF e
  <2> QED BY <1>1, <2>1, <2>2 DEF Textless
<1>3. CASE ~All(parts, "thinking")
  <2>1. kind \notin ToolKinds
    BY <1>3 DEF ToolKinds
  <2> HIDE DEF kind
  <2> QED BY <1>1, <2>1, OtherKind
<1> QED BY <1>2, <1>3

\* What each reading makes of a line.
LEMMA CodexEventIs ==
    ASSUME NEW o
    PROVE  LET reading == ReadingOf(o)
               types == {TypeOf(o), KindOf(o)}
               source == SourceOf(o)
           IN  /\ reading = "envelope" => CodexEvent(o) = EnvelopeEvent(o)
               /\ reading = "session" =>
                     CodexEvent(o) = [KeptAsData(o) EXCEPT !.kind = FramingKind(types)]
               /\ reading = "item" => CodexEvent(o) = ItemEvent(o.item, source)
               /\ reading = "output" =>
                     CodexEvent(o) = RoleMessage("assistant", Entries(o), TypeOf(o), source)
               /\ reading = "call" =>
                     CodexEvent(o) = CodexEventOf("tool_call", "tool", CallPart(o), TRUE, source)
               /\ reading = "result" =>
                     CodexEvent(o) =
                        CodexEventOf("tool_result", "tool", ResultPart(o), TRUE, source)
               /\ reading = "user" =>
                     CodexEvent(o) = MessageOf("message", "user",
                                               Said(o, <<"content", "text", "input">>), source)
               /\ reading = "assistant" =>
                     CodexEvent(o) =
                        SpeechOf(Heard(types, Said(o, <<"content", "text", "summary">>)), source)
               /\ reading = "role" =>
                     CodexEvent(o) = RoleMessage(RoleOf(o), Held(o), TypeOf(o), source)
               /\ reading = "event" => CodexEvent(o) = KeptAsData(o)
<1> DEFINE reading == ReadingOf(o)
           types == {TypeOf(o), KindOf(o)}
           source == SourceOf(o)
           a == EnvelopeEvent(o)
           b == [KeptAsData(o) EXCEPT !.kind = FramingKind(types)]
           c == ItemEvent(o.item, source)
           d == RoleMessage("assistant", Entries(o), TypeOf(o), source)
           e == CodexEventOf("tool_call", "tool", CallPart(o), TRUE, source)
           f == CodexEventOf("tool_result", "tool", ResultPart(o), TRUE, source)
           g == MessageOf("message", "user", Said(o, <<"content", "text", "input">>), source)
           h == SpeechOf(Heard(types, Said(o, <<"content", "text", "summary">>)), source)
           i == RoleMessage(RoleOf(o), Held(o), TypeOf(o), source)
           j == KeptAsData(o)
           event == CodexEvent(o)
<1>1. event = CASE reading = "envelope" -> a [] reading = "session" -> b
                [] reading = "item" -> c [] reading = "output" -> d
                [] reading = "call" -> e [] reading = "result" -> f
                [] reading = "user" -> g [] reading = "assistant" -> h
                [] reading = "role" -> i [] reading = "event" -> j
  BY Zenon DEF CodexEvent, EventAs
<1> HIDE DEF reading, a, b, c, d, e, f, g, h, i, j, event
<1>2. /\ (reading = "envelope" => event = a) /\ (reading = "session" => event = b)
      /\ (reading = "item" => event = c) /\ (reading = "output" => event = d)
      /\ (reading = "call" => event = e) /\ (reading = "result" => event = f)
      /\ (reading = "user" => event = g) /\ (reading = "assistant" => event = h)
      /\ (reading = "role" => event = i) /\ (reading = "event" => event = j)
  BY <1>1
<1> QED BY <1>2, Zenon DEF reading, a, b, c, d, e, f, g, h, i, j, event

LEMMA CodexTextless ==
    ASSUME NEW o
    PROVE  Textless(CodexEvent(o))
<1> DEFINE types == {TypeOf(o), KindOf(o)}
           source == SourceOf(o)
           parts == Said(o, <<"content", "text", "input">>)
           reading == ReadingOf(o)
<1>1. reading \in Readings
  BY ReadingApplies
<1>2. reading = "envelope" => Textless(CodexEvent(o))
  BY ReadingApplies, EnvelopeTextless, CodexEventIs
<1>3. reading \in {"session", "event"} => Textless(CodexEvent(o))
  <2>1. Textless([KeptAsData(o) EXCEPT !.kind = FramingKind(types)]) /\ Textless(KeptAsData(o))
    <3> HIDE DEF types
    <3> QED BY KeptTextless
  <2> QED BY <2>1, CodexEventIs
<1>4. reading = "item" => Textless(CodexEvent(o))
  <2>1. Textless(ItemEvent(o.item, source))
    BY ItemTextless
  <2> QED BY <2>1, CodexEventIs
<1>5. reading \in {"output", "role"} => Textless(CodexEvent(o))
  <2>1. ASSUME NEW role, NEW told PROVE Textless(RoleMessage(role, told, TypeOf(o), source))
    BY KindForEvent, Zenon DEF RoleMessage, MessageOf
  <2> QED BY <2>1, CodexEventIs
<1>6. reading \in {"call", "result"} => Textless(CodexEvent(o))
  <2>1. /\ Textless(CodexEventOf("tool_call", "tool", CallPart(o), TRUE, source))
        /\ Textless(CodexEventOf("tool_result", "tool", ResultPart(o), TRUE, source))
    BY CallTextless
  <2> QED BY <2>1, CodexEventIs
<1>7. reading = "user" => Textless(CodexEvent(o))
  <2>1. "message" \notin ToolKinds
    BY DEF ToolKinds
  <2>2. Textless(MessageOf("message", "user", parts, source))
    BY <2>1, OtherKind, Zenon DEF MessageOf
  <2> QED BY <2>2, CodexEventIs
<1>8. reading = "assistant" => Textless(CodexEvent(o))
  <2>1. ASSUME NEW told PROVE Textless(SpeechOf(told, source))
    BY SpeechTextless
  <2> QED BY <2>1, CodexEventIs
<1> QED BY <1>1, <1>2, <1>3, <1>4, <1>5, <1>6, <1>7, <1>8 DEF Readings

LEMMA ParseTextless ==
    ASSUME NEW line
    PROVE  Textless(Parse(line))
<1> DEFINE o == line.object
<1>1. Textless(ClaudeEvent(o))
  <2>1. \E role, parts, type :
            ClaudeEvent(o).kind = KindFor(role, parts, type) /\ ClaudeEvent(o).parts = parts
    BY DEF ClaudeEvent
  <2> QED BY <2>1, KindForTextless DEF Textless
<1>2. Textless(GeminiEvent(o))
  <2>1. \E role, parts, type :
            GeminiEvent(o).kind = KindFor(role, parts, type) /\ GeminiEvent(o).parts = parts
    BY DEF GeminiEvent
  <2> QED BY <2>1, KindForTextless DEF Textless
<1>3. Textless(UnknownEvent(o))
  <2>1. UnknownEvent(o).kind = "event"
    BY DEF UnknownEvent
  <2> QED BY <2>1 DEF Textless, ToolKinds
<1>4. Textless(CodexEvent(o))
  BY CodexTextless
<1> QED BY <1>1, <1>2, <1>3, <1>4 DEF Parse

----------------------------------------------------------------------------
(* What the two clients show *)

\* The older client shows nothing of an event that is not displayed.
LEMMA HiddenIsNotShown ==
    ASSUME NEW e, ~e.display
    PROVE  FlattenEvent(RawMessage(e)) = <<>>
<1> DEFINE content == Each(e.parts, LegacyPart)
           raw == RawOf(e, content)
<1>1. RawMessage(e) = raw
  BY DEF RawMessage
<1> HIDE DEF content
<1>2. raw.role = "none" /\ raw.normalized = e
  BY DEF RawOf
<1> HIDE DEF raw
<1> QED BY <1>1, <1>2 DEF FlattenEvent

\* What is displayed is as it was for the repair.
LEMMA ShownIsRepaired ==
    ASSUME NEW e, e.display
    PROVE  LegacyRaw(e) = RawMessage(e)
<1>1. Repaired(e) = e
  BY DEF Repaired
<1> QED BY <1>1 DEF LegacyRaw

\* A text that is shown has the same role to both clients.
LEMMA RolesAlike ==
    ASSUME NEW e, Textless(e), DisplayRole(e) # "none",
           NEW i \in DOMAIN e.parts, "kind" \in DOMAIN e.parts[i], e.parts[i].kind = "text"
    PROVE  TextRole(e.role) = DisplayRole(e)
<1>1. e.kind \notin ToolKinds
  BY DEF Textless
<1> QED BY <1>1 DEF DisplayRole, TextRole, ToolKinds

\* Of one field, the first that is there.
LEMMA FirstOfOne ==
    ASSUME NEW o, NEW f, NEW d
    PROVE  First(o, <<f>>, d) = IF f \in DOMAIN o THEN o[f] ELSE d
<1> DEFINE present == {i \in DOMAIN <<f>> : <<f>>[i] \in DOMAIN o}
<1>1. /\ present = {i \in {1} : f \in DOMAIN o}
      /\ First(o, <<f>>, d) = IF present = {} THEN d ELSE o[<<f>>[Min(present)]]
  BY DEF First
<1>2. CASE f \in DOMAIN o
  <2>1. present = {1}
    BY <1>1, <1>2
  <2> HIDE DEF present
  <2>2. Min(present) = 1
    BY <2>1, LeastIsMin
  <2> QED BY <1>1, <1>2, <2>1, <2>2
<1>3. CASE f \notin DOMAIN o
  BY <1>1, <1>3
<1> QED BY <1>2, <1>3

LEMMA KeptIs ==
    ASSUME NEW o
    PROVE  /\ KeptAsData(o).kind = "event" /\ KeptAsData(o).display = FALSE
           /\ KeptAsData(o).source = SourceOf(o)
           /\ KeptAsData(o).source.provider = "codex" /\ KeptAsData(o).source.rawType = TypeOf(o)
           /\ KeptAsData(o).parts = <<[kind |-> "event", data |-> CompactData(o)]>>
<1>1. SourceOf(o).provider = "codex" /\ SourceOf(o).rawType = TypeOf(o)
  BY DEF SourceOf
<1> QED BY <1>1 DEF KeptAsData, CodexEventOf, EventPart

\* What the last reading keeps of a line is the whole of it.
LEMMA RestoredIs ==
    ASSUME NEW line, line.provider = "codex", TypedByType(line)
    PROVE  Restored(KeptAsData(line.object)) = line.object
<1> DEFINE o == line.object
           e == KeptAsData(o)
           data == CompactData(o)
           part == [kind |-> "event", data |-> data]
<1>1. /\ o = [f \in DOMAIN o |-> o[f]] /\ "type" \in DOMAIN o
      /\ "kind" \notin DOMAIN o /\ "event" \notin DOMAIN o
  BY DEF TypedByType
<1>2. DOMAIN data = DOMAIN o \ {"type"} /\ \A f \in DOMAIN data : data[f] = o[f]
  BY <1>1 DEF CompactData
<1>3. e.parts = <<part>> /\ e.source.rawType = TypeOf(o)
  BY KeptIs
<1>4. TypeOf(o) = o.type
  <2>1. ASSUME NEW d PROVE First(o, <<"type">>, d) = o.type
    BY <1>1, FirstOfOne
  <2> QED BY <2>1 DEF TypeOf
<1> HIDE DEF o
<1>5. DataOf(e) = data
  <2>1. "data" \in DOMAIN part /\ part.data = data
    OBVIOUS
  <2> HIDE DEF e, data, part
  <2>2. First(part, <<"data">>, <<>>) = data
    BY <2>1, FirstOfOne
  <2>3. e.parts # <<>> /\ e.parts[1] = part
    BY <1>3
  <2> QED BY <2>2, <2>3 DEF DataOf
<1> HIDE DEF data, e
<1>6. Restored(e) = [f \in DOMAIN data \cup {"type"} |->
                       IF f \in DOMAIN data THEN data[f] ELSE e.source.rawType]
  BY <1>5 DEF Restored
<1>7. Restored(e) = [f \in DOMAIN o |-> o[f]]
  <2>1. DOMAIN data \cup {"type"} = DOMAIN o
    BY <1>1, <1>2
  <2>2. ASSUME NEW f \in DOMAIN o
        PROVE  (IF f \in DOMAIN data THEN data[f] ELSE e.source.rawType) = o[f]
    BY <1>2, <1>3, <1>4
  <2> QED BY <1>6, <2>1, <2>2
<1> QED BY <1>1, <1>7 DEF o, e

\* Only of a role without a name is an event made by its content.
LEMMA NoEvent ==
    ASSUME NEW role, role # "system", NEW parts, parts \in Seq(ToSet(parts)), NEW type
    PROVE  KindFor(role, parts, type) # "event"
<1>1. ASSUME NEW kind \in {"thinking", "tool_call", "tool_result"}, All(parts, kind)
      PROVE  parts[1].kind # "event"
  <2>1. 1 \in DOMAIN parts
    BY <1>1, EmptySeq, LenProperties DEF All
  <2> QED BY <1>1, <2>1 DEF All
<1> QED BY <1>1 DEF KindFor

\* What the parser hides, the repair of older events leaves hidden.
StaysHidden(line) == ~Parse(line).display => ~Repaired(Parse(line)).display

LEMMA HiddenStays ==
    ASSUME NEW line, PartsListed(line), TypedByType(line), ItemStaysHidden(line)
    PROVE  StaysHidden(line)
<1> DEFINE o == line.object
           p == Parse(line)
           types == {TypeOf(o), KindOf(o)}
           source == SourceOf(o)
           reading == ReadingOf(o)
<1> SUFFICES ASSUME ~p.display, Repaired(p) # p
             PROVE  ~Repaired(p).display
  <2> HIDE DEF p
  <2>1. Repaired(p) = p => (~p.display => ~Repaired(p).display)
    OBVIOUS
  <2> QED BY <2>1 DEF StaysHidden, p
<1>1. /\ p.source.provider = "codex" /\ p.kind = "event"
      /\ Repaired(p) = CodexEvent(Restored(p))
  <2> HIDE DEF p
  <2> QED BY DEF Repaired
<1>2. line.provider = "codex"
  <2>1. /\ ClaudeEvent(o).source.provider = "claude" /\ GeminiEvent(o).source.provider = "gemini"
        /\ UnknownEvent(o).source.provider = "unknown"
    BY DEF ClaudeEvent, GeminiEvent, UnknownEvent
  <2> QED BY <1>1, <2>1 DEF Parse
<1>3. p = CodexEvent(o)
  BY <1>2 DEF Parse
<1>4. p.parts \in Seq(ToSet(p.parts))
  BY DEF PartsListed
<1> HIDE DEF p
<1>5. reading \in Readings
  BY ReadingApplies
<1>6. CASE reading \in {"envelope", "item"}
  BY <1>2, <1>6 DEF ItemStaysHidden, p
<1>7. CASE reading = "event"
  <2>1. p = KeptAsData(o)
    BY <1>3, <1>7, CodexEventIs
  <2>2. Restored(p) = o
    BY <1>2, <2>1, RestoredIs
  <2> QED BY <1>1, <1>3, <2>2
<1>8. CASE reading = "session"
  <2> DEFINE kept == KeptAsData(o)
  <2>1. p = [kept EXCEPT !.kind = FramingKind(types)]
    BY <1>3, <1>8, CodexEventIs
  <2>2. "kind" \in DOMAIN kept
    BY DEF KeptAsData, CodexEventOf
  <2> HIDE DEF kept, types
  <2>3. p.kind = FramingKind(types)
    BY <2>1, <2>2
  <2> QED BY <1>1, <2>3 DEF FramingKind
<1>9. CASE reading \in {"output", "role"}
  <2>1. PICK role, told : role # "system" /\ p = RoleMessage(role, told, TypeOf(o), source)
    BY <1>3, <1>9, CodexEventIs, ReadingApplies
  <2>2. p.kind = KindFor(role, told, TypeOf(o)) /\ p.parts = told
    BY <2>1 DEF RoleMessage, MessageOf, CodexEventOf
  <2> QED BY <1>1, <1>4, <2>1, <2>2, NoEvent
<1>10. CASE reading \in {"call", "result"}
  <2>1. \E kind, parts : p = CodexEventOf(kind, "tool", parts, TRUE, source)
    BY <1>3, <1>10, CodexEventIs
  <2> QED BY <1>1, <2>1 DEF CodexEventOf
<1>11. CASE reading = "user"
  <2>1. \E parts : p = MessageOf("message", "user", parts, source)
    BY <1>3, <1>11, CodexEventIs
  <2> QED BY <1>1, <2>1 DEF MessageOf, CodexEventOf
<1>12. CASE reading = "assistant"
  <2>1. \E parts : p = SpeechOf(parts, source)
    BY <1>3, <1>12, CodexEventIs
  <2> QED BY <1>1, <2>1 DEF SpeechOf, MessageOf, CodexEventOf
<1> QED BY <1>5, <1>6, <1>7, <1>8, <1>9, <1>10, <1>11, <1>12 DEF Readings

\* The two clients show the same of a line, when thoughts are read as texts are.
LEMMA LineAlike ==
    ASSUME NEW line, PartsListed(line), StaysHidden(line)
    PROVE  RowsOf(Parse(line)) = ThoughtsRead(FlattenEvent(LegacyRaw(Parse(line))))
<1> DEFINE e == Parse(line)
           tr == TextRole(e.role)
           d == DisplayRole(e)
           rows == FlattenSeq([i \in DOMAIN e.parts |-> RowOf(tr, e.parts[i])])
           content == Each(e.parts, LegacyPart)
           raw == RawOf(e, content)
<1>1. CASE ~e.display
  <2>1. RowsOf(e) = <<>>
    BY <1>1 DEF RowsOf
  <2>2. ~Repaired(e).display
    BY <1>1 DEF StaysHidden
  <2> HIDE DEF e
  <2>3. LegacyRaw(e) = RawMessage(Repaired(e))
    BY DEF LegacyRaw
  <2>4. FlattenEvent(RawMessage(Repaired(e))) = <<>>
    BY <2>2, HiddenIsNotShown
  <2>5. ThoughtsRead(<<>>) = <<>>
    BY DEF ThoughtsRead
  <2> QED BY <2>1, <2>3, <2>4, <2>5 DEF e
<1>2. CASE e.display
  <2>1. RowsOf(e) = rows
    BY <1>2, Zenon DEF RowsOf, Each
  <2>2. LegacyRaw(e) = raw
    <3> HIDE DEF e
    <3> QED BY <1>2, ShownIsRepaired, Zenon DEF RawMessage
  <2>3. /\ Textless(e) /\ e.parts \in Seq(ToSet(e.parts))
        /\ \A i \in DOMAIN e.parts : "kind" \in DOMAIN e.parts[i]
    BY ParseTextless DEF PartsListed
  <2> HIDE DEF e
  <2>4. raw.content = content /\ raw.normalized = e /\ raw.role \in {d, "none"}
    <3> HIDE DEF content, d
    <3>1. raw = [role |-> IF e.display /\ content # <<>> THEN DisplayRole(e) ELSE "none",
                 content |-> content, normalized |-> e]
      BY Zenon DEF RawOf
    <3> HIDE DEF raw
    <3>2. raw.content = content /\ raw.normalized = e
          /\ raw.role = IF e.display /\ content # <<>> THEN DisplayRole(e) ELSE "none"
      BY <3>1
    <3> QED BY <3>2 DEF d
  <2> HIDE DEF raw
  <2>5. CASE raw.role = "none"
    <3> DEFINE n == raw.normalized
    <3>1. n = e
      BY <2>4
    <3>2. n.display
      BY <1>2, <3>1
    <3>3. FlattenEvent(raw)
             = FlattenSeq([i \in DOMAIN n.parts |-> FlatNormalized(TextRole(n.role), n.parts[i])])
      BY <2>5, <3>2 DEF FlattenEvent, Each
    <3> HIDE DEF n
    <3>4. FlattenEvent(raw) = FlattenSeq([i \in DOMAIN e.parts |-> FlatNormalized(tr, e.parts[i])])
      BY <3>1, <3>3
    <3>5. ThoughtsRead(FlattenEvent(raw)) = rows
      <4> HIDE DEF tr
      <4> QED BY <2>3, <3>4, AlikeNormalized
    <3> QED BY <2>1, <2>2, <3>5 DEF e
  <2>6. CASE raw.role # "none"
    <3>1. FlattenEvent(raw) = FlattenSeq([j \in DOMAIN content |-> FlatPart(d, content[j])])
      <4>1. FlattenEvent(raw)
               = FlattenSeq([j \in DOMAIN raw.content |-> FlatPart(raw.role, raw.content[j])])
        BY <2>6 DEF FlattenEvent, Each
      <4>2. raw.role = d /\ raw.content = content
        BY <2>4, <2>6
      <4> HIDE DEF d, content
      <4> QED BY <4>1, <4>2
    <3>2. PartsAlike(e.parts, d, tr)
      <4>1. ASSUME NEW i \in DOMAIN e.parts, e.parts[i].kind = "text"
            PROVE  tr = d /\ d # "none"
        <5>1. d # "none"
          BY <2>4, <2>6
        <5> QED BY <2>3, <4>1, <5>1, RolesAlike
      <4> HIDE DEF d, tr
      <4> QED BY <2>3, <4>1 DEF PartsAlike
    <3>3. ThoughtsRead(FlattenSeq([j \in DOMAIN content |-> FlatPart(d, content[j])])) = rows
      <4> HIDE DEF d, tr
      <4> QED BY <3>2, AlikeParts
    <3> QED BY <2>1, <2>2, <3>1, <3>3 DEF e
  <2> QED BY <2>5, <2>6
<1> QED BY <1>1, <1>2

\* What was made of a line, by the parsers of then or of today.
Events == {Parse(line) : line \in Lines} \cup {ParseOld(line) : line \in Lines}
LogFits ==
    /\ log \in Seq(Lines) /\ made \in Seq(Events) /\ Len(made) = Len(log)
    /\ \A i \in 1..Len(log) : made[i] \in {Parse(log[i]), ParseOld(log[i])}

LEMMA LogInductive == TranscriptSpec => []LogFits
<1>1. TranscriptInit => LogFits
  BY EmptySeq DEF TranscriptInit, LogFits
<1>2. LogFits /\ [TranscriptNext]_transcriptVars => LogFits'
  <2> SUFFICES ASSUME LogFits, [TranscriptNext]_transcriptVars PROVE LogFits'
    OBVIOUS
  <2>1. ASSUME NEW line \in Lines, Written(line) PROVE LogFits'
    <3> DEFINE x == IF parser = "new" THEN Parse(line) ELSE ParseOld(line)
    <3>1. log' = Append(log, line) /\ made' = Append(made, x)
      BY <2>1 DEF Written
    <3>2. x \in {Parse(line), ParseOld(line)} /\ x \in Events
      BY DEF Events
    <3> HIDE DEF x
    <3>3. log \in Seq(Lines) /\ made \in Seq(Events) /\ Len(made) = Len(log) /\ Len(log) \in Nat
      BY LenProperties DEF LogFits
    <3>4. /\ log' \in Seq(Lines) /\ Len(log') = Len(log) + 1
          /\ \A i \in 1 .. Len(log) : log'[i] = log[i]
          /\ log'[Len(log) + 1] = line
      BY <3>1, <3>3, AppendProperties
    <3>5. /\ made' \in Seq(Events) /\ Len(made') = Len(log) + 1
          /\ \A i \in 1 .. Len(log) : made'[i] = made[i]
          /\ made'[Len(log) + 1] = x
      BY <3>1, <3>2, <3>3, AppendProperties
    <3>6. ASSUME NEW i \in 1 .. Len(log) + 1
          PROVE  made'[i] \in {Parse(log'[i]), ParseOld(log'[i])}
      <4>1. CASE i = Len(log) + 1
        BY <3>2, <3>4, <3>5, <4>1
      <4>2. CASE i # Len(log) + 1
        <5>1. i \in 1..Len(log)
          BY <3>3, <4>2
        <5> QED BY <3>4, <3>5, <5>1 DEF LogFits
      <4> QED BY <4>1, <4>2
    <3> QED BY <3>4, <3>5, <3>6 DEF LogFits
  <2>2. CASE Upgraded
    BY <2>2 DEF Upgraded, LogFits
  <2>3. CASE UNCHANGED transcriptVars
    BY <2>3 DEF transcriptVars, LogFits
  <2> QED BY <2>1, <2>2, <2>3 DEF TranscriptNext
<1> QED BY <1>1, <1>2, PTL DEF TranscriptSpec

\* The two clients of one conversation show the same of an event that today's parsers have
\* made, whatever lines and notices there are: render.ts and, over the older form of
\* v2-read-model.ts, transform.ts make the same rows of it, but for thinking that is a
\* notice, which only render.ts reads.  The content of a line is a list, a line of Codex is
\* typed by its "type", and an item that is hidden is no message by itself.
THEOREM ClientsShowAlike ==
    ASSUME \A line \in Lines : PartsListed(line) /\ TypedByType(line) /\ ItemStaysHidden(line)
    PROVE  TranscriptSpec => []ShownAlike
<1>1. LogFits => ShownAlike
  <2> SUFFICES ASSUME LogFits, NEW i \in DOMAIN made, made[i] = Parse(log[i])
               PROVE  RowsOf(made[i]) = ThoughtsRead(FlattenEvent(LegacyRaw(made[i])))
    BY DEF ShownAlike
  <2>1. log[i] \in Lines
    <3>1. i \in 1..Len(log)
      BY LenProperties DEF LogFits
    <3> QED BY <3>1, ElementOfSeq DEF LogFits
  <2> DEFINE line == log[i]
  <2>2. PartsListed(line) /\ TypedByType(line) /\ ItemStaysHidden(line)
    BY <2>1
  <2> HIDE DEF line
  <2>3. RowsOf(Parse(line)) = ThoughtsRead(FlattenEvent(LegacyRaw(Parse(line))))
    BY <2>2, HiddenStays, LineAlike
  <2> QED BY <2>3 DEF line
<1> QED BY <1>1, LogInductive, PTL

\* The older client shows an old event of a line as it shows today's, or neither.
LEMMA LineRepaired ==
    ASSUME NEW line, TypedByType(line), PayloadRepaired(line)
    PROVE  \/ Entry(ParseOld(line)) = Entry(Parse(line))
           \/ ~Parse(line).display /\ Entry(ParseOld(line)).shown = <<>>
<1> DEFINE o == line.object
           p == Parse(line)
           e == KeptAsData(o)
<1> SUFFICES ASSUME ParseOld(line) # p
             PROVE  \/ Entry(ParseOld(line)) = Entry(p)
                    \/ ~p.display /\ Entry(ParseOld(line)).shown = <<>>
  OBVIOUS
<1>1. line.provider = "codex" /\ "payload" \in DOMAIN o /\ ParseOld(line) = e
  BY DEF ParseOld
<1>2. p = CodexEvent(o)
  BY <1>1 DEF Parse
<1>3. e.kind = "event" /\ ~e.display /\ e.source.provider = "codex" /\ e.source.rawType = o.type
  <2>1. "type" \in DOMAIN o
    BY <1>1 DEF TypedByType
  <2>2. TypeOf(o) = o.type
    <3>1. ASSUME NEW d PROVE First(o, <<"type">>, d) = o.type
      BY <2>1, FirstOfOne
    <3> QED BY <3>1 DEF TypeOf
  <2> HIDE DEF o
  <2>3. e.kind = "event" /\ e.display = FALSE /\ e.source.provider = "codex"
        /\ e.source.rawType = TypeOf(o)
    BY KeptIs
  <2> QED BY <2>2, <2>3
<1>4. Restored(e) = o
  BY <1>1, RestoredIs
<1>5. o.type \in RepairedTypes \/ ~p.display
  BY <1>1 DEF PayloadRepaired
<1>6. \A x : Entry(x).shown = FlattenEvent(LegacyRaw(x))
  BY DEF Entry, EntryOf
<1> HIDE DEF o, p, e
<1>7. CASE o.type \in RepairedTypes
  <2>1. LegacyRaw(e) = RawMessage(p)
    BY <1>2, <1>3, <1>4, <1>7 DEF Repaired, LegacyRaw
  <2>2. CASE p.display
    <3>1. LegacyRaw(p) = RawMessage(p)
      BY <2>2, ShownIsRepaired
    <3> QED BY <1>1, <2>1, <3>1 DEF Entry
  <2>3. CASE ~p.display
    <3>1. FlattenEvent(RawMessage(p)) = <<>>
      BY <2>3, HiddenIsNotShown
    <3> QED BY <1>1, <1>6, <2>1, <2>3, <3>1
  <2> QED BY <2>2, <2>3
<1>8. CASE o.type \notin RepairedTypes
  <2>1. LegacyRaw(e) = RawMessage(e)
    BY <1>3, <1>8 DEF Repaired, LegacyRaw
  <2>2. FlattenEvent(RawMessage(e)) = <<>>
    BY <1>3, HiddenIsNotShown
  <2> QED BY <1>1, <1>5, <1>6, <1>8, <2>1, <2>2
<1> QED BY <1>7, <1>8

\* What an old agent made of a line is enough for the older client to show what today's
\* parsers would have made of it (repairLegacyCodexPayloadEvent), for any lines that are
\* typed by their "type", where only repaired types come with a payload that is displayed.
THEOREM OldLinesShown ==
    ASSUME \A line \in Lines : TypedByType(line) /\ PayloadRepaired(line)
    PROVE  TranscriptSpec => []OldLinesRepaired
<1>1. LogFits => OldLinesRepaired
  <2> SUFFICES ASSUME LogFits, NEW i \in DOMAIN made
               PROVE  \/ Entry(made[i]) = Entry(Parse(log[i]))
                      \/ ~Parse(log[i]).display /\ Entry(made[i]).shown = <<>>
    BY DEF OldLinesRepaired
  <2>1. log[i] \in Lines /\ made[i] \in {Parse(log[i]), ParseOld(log[i])}
    <3>1. i \in 1..Len(log)
      BY LenProperties DEF LogFits
    <3> QED BY <3>1, ElementOfSeq DEF LogFits
  <2> DEFINE line == log[i]
  <2>2. TypedByType(line) /\ PayloadRepaired(line)
    BY <2>1
  <2> HIDE DEF line
  <2>3. \/ Entry(ParseOld(line)) = Entry(Parse(line))
        \/ ~Parse(line).display /\ Entry(ParseOld(line)).shown = <<>>
    BY <2>2, LineRepaired
  <2> QED BY <2>1, <2>3 DEF line
<1> QED BY <1>1, LogInductive, PTL

----------------------------------------------------------------------------
(* Lists of lists *)

\* What is in a list of lists is in one of the lists.
LEMMA FlatMembers ==
    ASSUME NEW T, NEW s \in Seq(Seq(T))
    PROVE  /\ FlattenSeq(s) \in Seq(T)
           /\ \A i \in 1..Len(s) : ToSet(s[i]) \subseteq ToSet(FlattenSeq(s))
<1> DEFINE n == Len(s)
<1>1. n \in Nat /\ \A i \in 1..n : s[i] \in Seq(T)
  BY ElementOfSeq, LenProperties
<1>2. PICK f : Joins(f, s, T)
  BY JoinsExist
<1>3. FlattenSeq(s) = f[n]
  BY <1>2, FlatJoins
<1> HIDE DEF n
<1>4. /\ f[0] = <<>> /\ \A i \in 1..n : f[i] = f[i - 1] \o s[i]
      /\ \A i \in 0..n : f[i] \in Seq(T)
  BY <1>2 DEF Joins, n
<1>5. ASSUME NEW i \in 1..n
      PROVE  ToSet(s[i]) \subseteq ToSet(f[i]) /\ ToSet(f[i - 1]) \subseteq ToSet(f[i])
  <2> DEFINE a == f[i - 1]
             b == s[i]
  <2>1. a \in Seq(T) /\ b \in Seq(T) /\ f[i] = a \o b
    <3>1. i - 1 \in 0..n
      BY <1>1
    <3> QED BY <1>1, <1>4, <3>1
  <2> HIDE DEF a, b
  <2>2. /\ Len(a) \in Nat /\ Len(b) \in Nat /\ DOMAIN a = 1..Len(a) /\ DOMAIN b = 1..Len(b)
        /\ DOMAIN (a \o b) = 1 .. Len(a) + Len(b)
        /\ \A k \in 1 .. Len(a) + Len(b) :
              (a \o b)[k] = IF k <= Len(a) THEN a[k] ELSE b[k - Len(a)]
    BY <2>1, ConcatProperties, LenProperties
  <2>3. ASSUME NEW k \in 1..Len(a) PROVE a[k] \in ToSet(a \o b)
    <3>1. k \in 1 .. Len(a) + Len(b) /\ (a \o b)[k] = a[k]
      BY <2>2
    <3> QED BY <2>2, <3>1 DEF ToSet
  <2>4. ASSUME NEW k \in 1..Len(b) PROVE b[k] \in ToSet(a \o b)
    <3>1. Len(a) + k \in 1 .. Len(a) + Len(b) /\ ~(Len(a) + k <= Len(a)) /\ (Len(a) + k) - Len(a) = k
      BY <2>2
    <3>2. (a \o b)[Len(a) + k] = b[k]
      BY <2>2, <3>1
    <3> QED BY <2>2, <3>1, <3>2 DEF ToSet
  <2>5. ToSet(a) \subseteq ToSet(a \o b) /\ ToSet(b) \subseteq ToSet(a \o b)
    BY <2>2, <2>3, <2>4 DEF ToSet
  <2> QED BY <2>1, <2>5 DEF a, b
<1>6. ASSUME NEW i \in 1..n
      PROVE  ToSet(s[i]) \subseteq ToSet(f[n])
  <2> DEFINE S == {k \in i..n : ToSet(s[i]) \subseteq ToSet(f[k])}
  <2>1. i \in S
    <3>1. i \in i..n
      BY <1>1
    <3> QED BY <1>5, <3>1
  <2>2. ASSUME NEW k \in i..n, k \in S, k # n PROVE k + 1 \in S
    <3>1. k + 1 \in 1..n /\ k + 1 \in i..n /\ (k + 1) - 1 = k
      BY <1>1, <2>2
    <3> QED BY <1>5, <2>2, <3>1
  <2>3. n \in S
    <3> HIDE DEF S
    <3>1. GoesFrom(i, n, S)
      BY <2>1, <2>2 DEF GoesFrom
    <3>2. n \in i..n /\ i \in Nat
      BY <1>1
    <3> QED BY <1>1, <3>1, <3>2, ToTheLast
  <2> QED BY <2>3
<1> QED BY <1>1, <1>3, <1>4, <1>6 DEF n

----------------------------------------------------------------------------
(* ClientLogs *)

FlushStates == [at : {"idle", "memory", "load", "send", "delete"}, logs : SUBSET Nat]
Additions == [log : 1..MaxLogs, at : {"put", "count", "trim"}, extra : Int, late : BOOLEAN]

\* A batch of the store: no more than Batch logs.
Small(logs) == IsFiniteSet(logs) /\ \A l \in logs : Cardinality({m \in logs : m < l}) < Batch

FlushFits(t) ==
    /\ Len(sending[t]) <= Batch
    /\ Small(flusher[t].logs)
    /\ flusher[t].at \notin {"send", "delete"} => flusher[t].logs = {}
    /\ flusher[t].at = "delete" =>
          \A l \in flusher[t].logs : l \in 1..MaxLogs => appLogs[l] > 0

\* A log is with the server, was dropped by a limit or with its page, or waits in the store;
\* or a tab has it in its memory, or on its way into the store.
Stored(l) == appLogs[l] > 0 \/ l \in dropped \/ l \in queue
WithTab(t, l) ==
    \/ l \in ToSet(memory[t])
    \/ \E a \in adding[t] : a.log = l /\ a.at = "put" /\ ~a.late

LogsShape ==
    /\ logged \in 0..MaxLogs
    /\ queue \in SUBSET (1..MaxLogs)
    /\ adding \in [Tabs -> SUBSET Additions]
    /\ memory \in [Tabs -> Seq(Nat)] /\ sending \in [Tabs -> Seq(Nat)]
    /\ flusher \in [Tabs -> FlushStates]
    /\ appLogs \in [1..MaxLogs -> Nat]

NoneLost == \A l \in 1..logged : Stored(l) \/ \E t \in Tabs : WithTab(t, l)

LogsInv == LogsShape /\ NoneLost /\ \A t \in Tabs : FlushFits(t)


\* The first n of a list.
LEMMA FirstOfList ==
    ASSUME NEW s \in Seq(Nat), NEW n \in Nat
    PROVE  /\ FirstOf(s, n) \in Seq(Nat) /\ Len(FirstOf(s, n)) <= n
           /\ Len(s) <= n => FirstOf(s, n) = s
<1> DEFINE k == IF Len(s) < n THEN Len(s) ELSE n
<1>1. Len(s) \in Nat /\ k \in Nat /\ k <= Len(s) /\ k <= n /\ (Len(s) <= n => k = Len(s))
  BY LenProperties
<1>2. FirstOf(s, n) = SubSeq(s, 1, k)
  BY DEF FirstOf
<1> HIDE DEF k
<1>3. SubSeq(s, 1, k) \in Seq(Nat) /\ Len(SubSeq(s, 1, k)) = k
  <2>1. \A i \in 1..k : i \in 1..Len(s)
    BY <1>1
  <2> QED BY <1>1, <2>1, SubSeqProperties
<1>4. SubSeq(s, 1, Len(s)) = s
  BY SubSeqFull
<1> QED BY <1>1, <1>2, <1>3, <1>4

\* The n oldest logs of a store: each has fewer than n older ones among them.
LEMMA OldestFew ==
    ASSUME NEW logs \in SUBSET Nat, IsFiniteSet(logs), NEW n \in Nat
    PROVE  /\ OldestOf(logs, n) \subseteq logs /\ IsFiniteSet(OldestOf(logs, n))
           /\ \A l \in OldestOf(logs, n) : Cardinality({m \in OldestOf(logs, n) : m < l}) < n
<1> DEFINE old == OldestOf(logs, n)
<1>1. old \subseteq logs /\ \A l \in old : Cardinality({m \in logs : m < l}) < n
  BY DEF OldestOf
<1>2. IsFiniteSet(old)
  BY <1>1, FS_Subset
<1>3. ASSUME NEW l \in old PROVE Cardinality({m \in old : m < l}) < n
  <2> DEFINE A == {m \in old : m < l}
             B == {m \in logs : m < l}
  <2>1. A \subseteq B /\ B \subseteq logs
    BY <1>1
  <2>2. Cardinality(B) < n
    BY <1>1
  <2> HIDE DEF A, B
  <2>3. IsFiniteSet(B)
    BY <2>1, FS_Subset
  <2>4. Cardinality(A) <= Cardinality(B) /\ Cardinality(A) \in Nat /\ Cardinality(B) \in Nat
    BY <2>1, <2>3, FS_Subset, FS_CardinalityType
  <2>5. Cardinality(A) < n
    BY <2>2, <2>4
  <2> QED BY <2>5 DEF A
<1> QED BY <1>1, <1>2, <1>3

\* A batch is inserted whole.
LEMMA OldestAll ==
    ASSUME NEW logs \in SUBSET Nat, Small(logs), Batch <= ServerBatch
    PROVE  OldestOf(logs, ServerBatch) = logs
<1>1. Batch \in Nat /\ ServerBatch \in Nat
  BY LogsAssumption
<1>2. ASSUME NEW l \in logs PROVE Cardinality({m \in logs : m < l}) < ServerBatch
  <2> DEFINE A == {m \in logs : m < l}
  <2>1. Cardinality(A) < Batch /\ A \subseteq logs /\ IsFiniteSet(logs)
    BY DEF Small
  <2> HIDE DEF A
  <2>2. Cardinality(A) \in Nat
    BY <2>1, FS_Subset, FS_CardinalityType
  <2>3. Cardinality(A) < ServerBatch
    BY <1>1, <2>1, <2>2
  <2> QED BY <2>3 DEF A
<1> QED BY <1>2 DEF OldestOf

\* What flushMemoryLogs leaves: everything that was not sent.
LEMMA UnsentStays ==
    ASSUME NEW t \in Tabs, memory[t] \in Seq(Nat), NEW ok \in BOOLEAN
    PROVE  /\ Unsent(t, ok) \in Seq(Nat)
           /\ \A l \in ToSet(memory[t]) :
                 (ok /\ Contains(sending[t], l)) \/ l \in ToSet(Unsent(t, ok))
<1> DEFINE m == memory[t]
           sent(l) == ok /\ Contains(sending[t], l)
           s == [i \in DOMAIN m |-> IF sent(m[i]) THEN <<>> ELSE <<m[i]>>]
<1>1. Unsent(t, ok) = FlattenSeq(s)
  BY DEF Unsent
<1>2. /\ m \in Seq(Nat) /\ Len(m) \in Nat /\ DOMAIN m = 1..Len(m)
      /\ \A i \in 1..Len(m) : m[i] \in Nat
  BY LenProperties, ElementOfSeq
<1> HIDE DEF m, sent
<1>3. \A i \in 1..Len(m) : (IF sent(m[i]) THEN <<>> ELSE <<m[i]>>) \in Seq(Nat)
  BY <1>2
<1>4. s \in Seq(Seq(Nat)) /\ Len(s) = Len(m)
  <2> DEFINE n == Len(m)
  <2>1. n \in Nat /\ s \in [1..n -> Seq(Nat)]
    BY <1>2, <1>3
  <2> HIDE DEF s, n
  <2>2. s \in Seq(Seq(Nat))
    BY <2>1, SeqDef
  <2>3. Len(s) = n
    BY <2>1, <2>2, LenProperties
  <2> QED BY <2>2, <2>3 DEF n
<1>5. FlattenSeq(s) \in Seq(Nat) /\ \A i \in 1..Len(m) : ToSet(s[i]) \subseteq ToSet(FlattenSeq(s))
  <2> HIDE DEF s
  <2> QED BY <1>4, FlatMembers
<1>6. ASSUME NEW i \in 1..Len(m), ~sent(m[i]) PROVE m[i] \in ToSet(FlattenSeq(s))
  <2>1. s[i] = <<m[i]>>
    BY <1>2, <1>6
  <2>2. m[i] \in ToSet(s[i])
    <3>1. \A x : x \in ToSet(<<x>>)
      BY DEF ToSet
    <3> QED BY <2>1, <3>1
  <2> HIDE DEF s
  <2> QED BY <1>5, <2>2
<1>7. \A l \in ToSet(m) : sent(l) \/ l \in ToSet(FlattenSeq(s))
  BY <1>2, <1>6 DEF ToSet
<1> QED BY <1>1, <1>5, <1>7 DEF m, sent

\* A batch that settles takes nothing away, and one that is answered is there as far as
\* the server accepts it.
LEMMA PostAdds ==
    ASSUME NEW inserted, NEW ok \in BOOLEAN, appLogs \in [1..MaxLogs -> Nat],
           Post(inserted, ok)
    PROVE  /\ appLogs' \in [1..MaxLogs -> Nat]
           /\ \A l \in 1..MaxLogs : appLogs[l] > 0 => appLogs'[l] > 0
           /\ ok => \A l \in 1..MaxLogs : l \in inserted[ServerBatch] => appLogs'[l] > 0
<1>1. PICK n \in 0..ServerBatch :
         /\ ok => n = ServerBatch
         /\ appLogs' = [l \in DOMAIN appLogs |->
                           appLogs[l] + (IF l \in inserted[n] THEN 1 ELSE 0)]
  BY DEF Post
<1>2. \A l \in 1..MaxLogs : appLogs[l] \in Nat /\ appLogs'[l] = appLogs[l] + (IF l \in inserted[n] THEN 1 ELSE 0)
  BY <1>1
<1>3. appLogs' \in [1..MaxLogs -> Nat]
  BY <1>1
<1> QED BY <1>1, <1>2, <1>3

\* Where a list is longer, what it held is still there.
LEMMA Appended ==
    ASSUME NEW s \in Seq(Nat), NEW l \in Nat
    PROVE  /\ Append(s, l) \in Seq(Nat) /\ l \in ToSet(Append(s, l))
           /\ ToSet(s) \subseteq ToSet(Append(s, l))
<1>1. /\ Len(s) \in Nat /\ DOMAIN s = 1..Len(s) /\ Append(s, l) \in Seq(Nat)
      /\ DOMAIN Append(s, l) = 1 .. Len(s) + 1
      /\ Append(s, l)[Len(s) + 1] = l
      /\ \A i \in 1..Len(s) : i \in 1 .. Len(s) + 1 /\ Append(s, l)[i] = s[i]
  BY LenProperties, AppendProperties
<1>2. Len(s) + 1 \in 1 .. Len(s) + 1
  BY <1>1
<1> QED BY <1>1, <1>2 DEF ToSet

\* The states of the flushes after a step that takes nothing out of app_logs.
Rows(before, after) == \A l \in 1..MaxLogs : before[l] > 0 => after[l] > 0

LEMMA FitsAsBefore ==
    ASSUME NEW u \in Tabs, FlushFits(u), Rows(appLogs, appLogs'),
           Len(sending'[u]) <= Batch, flusher'[u] = flusher[u]
    PROVE  FlushFits(u)'
BY DEF FlushFits, Small, Rows

\* A flush that has no batch of the store.
LEMMA FitsWithout ==
    ASSUME NEW u \in Tabs, Len(sending'[u]) <= Batch,
           flusher'[u].logs = {}, flusher'[u].at # "delete"
    PROVE  FlushFits(u)'
<1>1. IsFiniteSet({})
  BY FS_EmptySet
<1> QED BY <1>1 DEF FlushFits, Small

\* The store is finite.
LEMMA StoreFinite ==
    ASSUME LogsShape
    PROVE  queue \in SUBSET Nat /\ IsFiniteSet(queue)
<1>1. MaxLogs \in Nat
  BY LogsAssumption
<1>2. IsFiniteSet(1..MaxLogs)
  BY <1>1, FS_Interval
<1>3. queue \subseteq 1..MaxLogs
  BY DEF LogsShape
<1>4. IsFiniteSet(queue)
  BY <1>2, <1>3, FS_Subset
<1> QED BY <1>1, <1>3, <1>4

\* What a step has to show of the logs.
LEMMA StillThere ==
    ASSUME NoneLost, logged' = logged,
           \A l \in 1..logged : Stored(l) => Stored(l)',
           \A l \in 1..logged : \A u \in Tabs : WithTab(u, l) => WithTab(u, l)' \/ Stored(l)'
    PROVE  NoneLost'
BY DEF NoneLost

\* flushMemoryLogs takes its batch.
LEMMA MemoryTaken ==
    ASSUME LogsInv, NEW t \in Tabs, NEW m \in Seq(Nat), TakesMemory(t, m)
    PROVE  /\ sending' \in [Tabs -> Seq(Nat)]
           /\ \A u \in Tabs : Len(sending'[u]) <= Batch
<1>1. /\ sending \in [Tabs -> Seq(Nat)] /\ \A u \in Tabs : Len(sending[u]) <= Batch
  BY DEF LogsInv, LogsShape, FlushFits
<1>2. Batch \in Nat
  BY LogsAssumption
<1>3. FirstOf(m, Batch) \in Seq(Nat) /\ Len(FirstOf(m, Batch)) <= Batch
  BY <1>2, FirstOfList
<1>4. sending' = sending \/ sending' = [sending EXCEPT ![t] = FirstOf(m, Batch)]
  BY DEF TakesMemory
<1> QED BY <1>1, <1>3, <1>4

\* queueMemoryLog: the log is there, and what the limit shifted out is dropped.
LEMMA InMemory ==
    ASSUME LogsInv, NEW t \in Tabs, NEW l \in Nat, ToMemory(t, l)
    PROVE  /\ memory' \in [Tabs -> Seq(Nat)] /\ sending' \in [Tabs -> Seq(Nat)]
           /\ \A u \in Tabs : Len(sending'[u]) <= Batch
           /\ l \in ToSet(memory'[t]) \cup dropped' /\ dropped \subseteq dropped'
           /\ \A u \in Tabs : ToSet(memory[u]) \subseteq ToSet(memory'[u]) \cup dropped'
<1> DEFINE m == Append(memory[t], l)
           kept == IF Len(m) > MemoryMax THEN Tail(m) ELSE m
<1>1. memory \in [Tabs -> Seq(Nat)]
  BY DEF LogsInv, LogsShape
<1>2. m \in Seq(Nat) /\ l \in ToSet(m) /\ ToSet(memory[t]) \subseteq ToSet(m)
  BY <1>1, Appended
<1>3. /\ memory' = [memory EXCEPT ![t] = kept]
      /\ dropped' = dropped \cup (ToSet(m) \ ToSet(kept)) /\ TakesMemory(t, kept)
  BY DEF ToMemory
<1> HIDE DEF m
<1>4. kept \in Seq(Nat)
  <2>1. CASE Len(m) > MemoryMax
    <3>1. m # <<>>
      <4>1. MemoryMax \in Nat
        BY LogsAssumption
      <4> QED BY <1>2, <2>1, <4>1, EmptySeq
    <3>2. Tail(m) \in Seq(Nat)
      BY <1>2, <3>1, HeadTailProperties
    <3> QED BY <2>1, <3>2
  <2>2. CASE ~(Len(m) > MemoryMax)
    BY <1>2, <2>2
  <2> QED BY <2>1, <2>2
<1> HIDE DEF kept
<1>5. sending' \in [Tabs -> Seq(Nat)] /\ \A u \in Tabs : Len(sending'[u]) <= Batch
  BY <1>3, <1>4, MemoryTaken
<1>6. ASSUME NEW u \in Tabs PROVE ToSet(memory[u]) \subseteq ToSet(memory'[u]) \cup dropped'
  <2>1. CASE u = t
    <3>1. memory'[u] = kept /\ memory[u] = memory[t]
      BY <1>1, <1>3, <2>1
    <3> QED BY <1>2, <1>3, <3>1
  <2>2. CASE u # t
    <3>1. memory'[u] = memory[u]
      BY <1>1, <1>3, <2>2
    <3> QED BY <3>1
  <2> QED BY <2>1, <2>2
<1>7. memory' \in [Tabs -> Seq(Nat)] /\ memory'[t] = kept
  BY <1>1, <1>3, <1>4
<1>8. l \in ToSet(memory'[t]) \cup dropped' /\ dropped \subseteq dropped'
  BY <1>2, <1>3, <1>7
<1> QED BY <1>5, <1>6, <1>7, <1>8

\* flushClientLogs up to its first await touches no batch of the store.
LEMMA Begun ==
    ASSUME LogsInv, NEW t \in Tabs, FlushBegins(t), appLogs' = appLogs
    PROVE  /\ flusher' \in [Tabs -> FlushStates] /\ sending' \in [Tabs -> Seq(Nat)]
           /\ \A u \in Tabs : FlushFits(u)'
<1>1. /\ flusher \in [Tabs -> FlushStates] /\ sending \in [Tabs -> Seq(Nat)]
      /\ memory \in [Tabs -> Seq(Nat)] /\ \A u \in Tabs : FlushFits(u) /\ Len(sending[u]) <= Batch
  BY DEF LogsInv, LogsShape, FlushFits
<1>2. Rows(appLogs, appLogs')
  BY DEF Rows
<1>3. CASE flusher' = flusher /\ sending' = sending
  BY <1>1, <1>2, <1>3, FitsAsBefore
<1>4. CASE ~(flusher[t].at # "idle" \/ ~reachable)
  <2> DEFINE to == CASE sending[t] = <<>> /\ memory[t] # <<>> -> "memory"
                     [] off[t] -> "idle"
                     [] OTHER -> "load"
  <2>1. TakesMemory(t, memory[t]) /\ flusher' = [flusher EXCEPT ![t].at = to]
    BY <1>4 DEF FlushBegins
  <2>2. to \in {"memory", "idle", "load"}
    BY Zenon
  <2> HIDE DEF to
  <2>3. sending' \in [Tabs -> Seq(Nat)] /\ \A u \in Tabs : Len(sending'[u]) <= Batch
    BY <1>1, <2>1, MemoryTaken
  <2>4. flusher[t].logs = {}
    BY <1>1, <1>4 DEF FlushFits
  <2>5. flusher' \in [Tabs -> FlushStates]
    BY <1>1, <2>1, <2>2 DEF FlushStates
  <2>6. flusher'[t].logs = {} /\ flusher'[t].at = to
    BY <1>1, <2>1, <2>4 DEF FlushStates
  <2>7. ASSUME NEW u \in Tabs, u # t PROVE flusher'[u] = flusher[u]
    BY <1>1, <2>1, <2>7
  <2>8. ASSUME NEW u \in Tabs PROVE FlushFits(u)'
    <3>1. CASE u = t
      BY <2>2, <2>3, <2>6, <3>1, FitsWithout
    <3>2. CASE u # t
      BY <1>1, <1>2, <2>3, <2>7, <3>2, FitsAsBefore
    <3> QED BY <3>1, <3>2
  <2> QED BY <2>3, <2>5, <2>8
<1> QED BY <1>3, <1>4 DEF FlushBegins

\* A new log goes into the memory of its tab, or into its store.
LEMMA LogMadeKeeps ==
    ASSUME LogsInv, NEW t \in Tabs, LogMade(t)
    PROVE  LogsInv'
<1>1. LogsShape /\ NoneLost /\ \A u \in Tabs : FlushFits(u)
  BY DEF LogsInv
<1>2. /\ logged < MaxLogs /\ logged' = logged + 1 /\ logged \in Nat /\ logged' \in 0..MaxLogs
      /\ queue' = queue /\ flusher' = flusher /\ appLogs' = appLogs
  BY <1>1, LogsAssumption DEF LogMade, LogsShape
<1>3. Rows(appLogs, appLogs')
  BY <1>2 DEF Rows
<1>4. ASSUME NEW l \in 1..logged' PROVE l \in 1..logged \/ l = logged'
  BY <1>2
<1>5. CASE ToMemory(t, logged') /\ UNCHANGED adding
  <2>1. /\ memory' \in [Tabs -> Seq(Nat)] /\ sending' \in [Tabs -> Seq(Nat)]
        /\ \A u \in Tabs : Len(sending'[u]) <= Batch
        /\ logged' \in ToSet(memory'[t]) \cup dropped' /\ dropped \subseteq dropped'
        /\ \A u \in Tabs : ToSet(memory[u]) \subseteq ToSet(memory'[u]) \cup dropped'
    <3>1. logged' \in Nat
      BY <1>2
    <3>2. \A k \in Nat : ToMemory(t, k) =>
             /\ memory' \in [Tabs -> Seq(Nat)] /\ sending' \in [Tabs -> Seq(Nat)]
             /\ \A u \in Tabs : Len(sending'[u]) <= Batch
             /\ k \in ToSet(memory'[t]) \cup dropped' /\ dropped \subseteq dropped'
             /\ \A u \in Tabs : ToSet(memory[u]) \subseteq ToSet(memory'[u]) \cup dropped'
      BY InMemory
    <3> QED BY <1>5, <3>1, <3>2
  <2>2. LogsShape'
    BY <1>1, <1>2, <1>5, <2>1 DEF LogsShape
  <2>3. \A u \in Tabs : FlushFits(u)'
    BY <1>1, <1>2, <1>3, <2>1, FitsAsBefore
  <2>4. \A l \in 1..logged : Stored(l) => Stored(l)'
    BY <1>2, <2>1 DEF Stored
  <2>5. \A l \in 1..logged : \A u \in Tabs : WithTab(u, l) => WithTab(u, l)' \/ Stored(l)'
    BY <1>5, <2>1 DEF WithTab, Stored
  <2>6. WithTab(t, logged)' \/ Stored(logged)'
    BY <2>1 DEF WithTab, Stored
  <2>7. NoneLost'
    BY <1>1, <1>4, <2>4, <2>5, <2>6 DEF NoneLost
  <2> QED BY <2>2, <2>3, <2>7 DEF LogsInv
<1>6. CASE /\ adding' = [adding EXCEPT ![t] = @ \cup
                            {[log |-> logged', at |-> "put", extra |-> 0, late |-> FALSE]}]
           /\ UNCHANGED <<memory, sending, dropped>>
  <2> DEFINE a == [log |-> logged', at |-> "put", extra |-> 0, late |-> FALSE]
  <2>1. a \in Additions /\ a.log = logged' /\ a.at = "put" /\ ~a.late
    BY <1>2 DEF Additions
  <2> HIDE DEF a
  <2>2. adding' = [adding EXCEPT ![t] = adding[t] \cup {a}]
    BY <1>6 DEF a
  <2>3. adding \in [Tabs -> SUBSET Additions]
    BY <1>1 DEF LogsShape
  <2>4. adding' \in [Tabs -> SUBSET Additions] /\ a \in adding'[t]
    BY <2>1, <2>2, <2>3
  <2>5. \A u \in Tabs : adding[u] \subseteq adding'[u]
    BY <2>2, <2>3
  <2>6. LogsShape'
    BY <1>1, <1>2, <1>6, <2>4 DEF LogsShape
  <2>7. \A u \in Tabs : FlushFits(u)'
    <3>1. \A u \in Tabs : Len(sending'[u]) <= Batch
      BY <1>1, <1>6 DEF FlushFits
    <3> QED BY <1>1, <1>2, <1>3, <3>1, FitsAsBefore
  <2>8. \A l \in 1..logged : Stored(l) => Stored(l)'
    BY <1>2, <1>6 DEF Stored
  <2>9. \A l \in 1..logged : \A u \in Tabs : WithTab(u, l) => WithTab(u, l)'
    BY <1>6, <2>5 DEF WithTab
  <2>10. WithTab(t, logged)'
    BY <2>1, <2>4 DEF WithTab
  <2>11. NoneLost'
    BY <1>1, <1>4, <2>8, <2>9, <2>10 DEF NoneLost
  <2> QED BY <2>6, <2>7, <2>11 DEF LogsInv
<1> QED BY <1>5, <1>6 DEF LogMade

\* The flush that flushClientLogs begins.
LEMMA FlushCalledKeeps ==
    ASSUME LogsInv, NEW t \in Tabs, FlushCalled(t)
    PROVE  LogsInv'
<1>1. /\ FlushBegins(t)
      /\ UNCHANGED <<logged, queue, adding, memory, off, reachable, appLogs, dropped, logMishaps>>
  BY DEF FlushCalled
<1>2. LogsShape'
  BY <1>1, Begun DEF LogsInv, LogsShape
<1>3. \A u \in Tabs : FlushFits(u)'
  BY <1>1, Begun
<1>4. NoneLost'
  BY <1>1 DEF LogsInv, NoneLost, Stored, WithTab
<1> QED BY <1>2, <1>3, <1>4 DEF LogsInv

\* A log on its way into the store is put there; a full store drops its oldest.
LEMMA AddsKeeps ==
    ASSUME LogsInv, NEW t \in Tabs, NEW a \in adding[t], Adds(t, a)
    PROVE  LogsInv'
<1>1. LogsShape /\ NoneLost /\ \A u \in Tabs : FlushFits(u)
  BY DEF LogsInv
<1>2. /\ adding \in [Tabs -> SUBSET Additions] /\ a \in Additions
      /\ queue \in SUBSET (1..MaxLogs) /\ IsFiniteSet(queue) /\ a.log \in 1..MaxLogs
  BY <1>1, StoreFinite DEF LogsShape, Additions
<1>3. /\ logged' = logged /\ memory' = memory /\ appLogs' = appLogs
  BY DEF Adds
<1>4. Rows(appLogs, appLogs')
  BY <1>3 DEF Rows
<1>5. /\ flusher' \in [Tabs -> FlushStates] /\ sending' \in [Tabs -> Seq(Nat)]
      /\ \A u \in Tabs : FlushFits(u)'
  <2>1. CASE FlushBegins(t)
    BY <1>3, <2>1, Begun
  <2>2. CASE flusher' = flusher /\ sending' = sending
    <3>1. \A u \in Tabs : Len(sending'[u]) <= Batch
      BY <1>1, <2>2 DEF FlushFits
    <3>2. \A u \in Tabs : FlushFits(u)'
      BY <1>1, <1>4, <2>2, <3>1, FitsAsBefore
    <3> QED BY <1>1, <2>2, <3>2 DEF LogsShape
  <2> QED BY <2>1, <2>2 DEF Adds
<1>6. CASE /\ a.at = "put" /\ queue' = queue \cup {a.log} /\ dropped' = dropped
           /\ adding' = [adding EXCEPT ![t] = (@ \ {a}) \cup {[a EXCEPT !.at = "count"]}]
  <2> DEFINE b == [a EXCEPT !.at = "count"]
  <2>1. b \in Additions
    BY <1>2 DEF Additions
  <2> HIDE DEF b
  <2>2. adding' = [adding EXCEPT ![t] = (adding[t] \ {a}) \cup {b}]
    BY <1>6 DEF b
  <2>3. adding' \in [Tabs -> SUBSET Additions]
    BY <1>2, <2>1, <2>2
  <2>4. \A u \in Tabs : adding[u] \ {a} \subseteq adding'[u]
    BY <1>2, <2>2
  <2>5. queue' \in SUBSET (1..MaxLogs)
    BY <1>2, <1>6
  <2>6. LogsShape'
    BY <1>1, <1>3, <1>5, <2>3, <2>5 DEF LogsShape
  <2>7. \A l \in 1..logged : Stored(l) => Stored(l)'
    BY <1>3, <1>6 DEF Stored
  <2>8. \A l \in 1..logged : \A u \in Tabs : WithTab(u, l) => WithTab(u, l)' \/ Stored(l)'
    BY <1>3, <1>6, <2>4 DEF WithTab, Stored
  <2> QED BY <1>1, <1>3, <1>5, <2>6, <2>7, <2>8, StillThere DEF LogsInv
<1>7. CASE /\ a.at # "put" /\ queue' \subseteq queue /\ queue \subseteq queue' \cup dropped'
           /\ dropped \subseteq dropped'
           /\ \E B \in SUBSET Additions : adding' = [adding EXCEPT ![t] = (adding[t] \ {a}) \cup B]
  <2>1. PICK B \in SUBSET Additions : adding' = [adding EXCEPT ![t] = (adding[t] \ {a}) \cup B]
    BY <1>7
  <2>2. adding' \in [Tabs -> SUBSET Additions]
    BY <1>2, <2>1
  <2>3. \A u \in Tabs : adding[u] \ {a} \subseteq adding'[u]
    BY <1>2, <2>1
  <2>4. queue' \in SUBSET (1..MaxLogs)
    BY <1>2, <1>7
  <2>5. LogsShape'
    BY <1>1, <1>3, <1>5, <2>2, <2>4 DEF LogsShape
  <2>6. \A l \in 1..logged : Stored(l) => Stored(l)'
    BY <1>3, <1>7 DEF Stored
  <2>7. \A l \in 1..logged : \A u \in Tabs : WithTab(u, l) => WithTab(u, l)'
    BY <1>3, <1>7, <2>3 DEF WithTab
  <2> QED BY <1>1, <1>3, <1>5, <2>5, <2>6, <2>7, StillThere DEF LogsInv
<1>8. CASE /\ a.at = "count" /\ Cardinality(queue) > QueueMax
           /\ adding' = [adding EXCEPT ![t] = (@ \ {a}) \cup
                 {[a EXCEPT !.at = "trim", !.extra = Cardinality(queue) - QueueMax]}]
           /\ UNCHANGED <<queue, flusher, sending, dropped>>
  <2> DEFINE b == [a EXCEPT !.at = "trim", !.extra = Cardinality(queue) - QueueMax]
  <2>1. Cardinality(queue) \in Nat /\ QueueMax \in Nat
    BY <1>2, FS_CardinalityType, LogsAssumption
  <2>2. Cardinality(queue) - QueueMax \in Int
    BY <2>1
  <2>3. b \in Additions
    BY <1>2, <2>2 DEF Additions
  <2> HIDE DEF b
  <2>4. adding' = [adding EXCEPT ![t] = (adding[t] \ {a}) \cup {b}]
    BY <1>8 DEF b
  <2> QED BY <1>7, <1>8, <2>3, <2>4
<1>9. CASE adding' = [adding EXCEPT ![t] = @ \ {a}]
  <2>1. adding' = [adding EXCEPT ![t] = (adding[t] \ {a}) \cup {}]
    BY <1>9
  <2>2. {} \in SUBSET Additions
    OBVIOUS
  <2>3. CASE a.at = "count" /\ UNCHANGED <<queue, dropped>>
    BY <1>7, <2>1, <2>2, <2>3
  <2>4. CASE a.at = "trim" /\ \E old \in SUBSET queue : queue' = queue \ old /\ dropped' = dropped \cup old
    BY <1>7, <2>1, <2>2, <2>4
  <2>5. OldestOf(queue, a.extra) \in SUBSET queue
    BY DEF OldestOf
  <2> QED BY <1>6, <1>8, <2>3, <2>4, <2>5 DEF Adds
<1>10. \/ adding' = [adding EXCEPT ![t] = @ \ {a}]
       \/ /\ a.at = "put" /\ queue' = queue \cup {a.log} /\ dropped' = dropped
          /\ adding' = [adding EXCEPT ![t] = (@ \ {a}) \cup {[a EXCEPT !.at = "count"]}]
       \/ /\ a.at = "count" /\ Cardinality(queue) > QueueMax
          /\ adding' = [adding EXCEPT ![t] = (@ \ {a}) \cup
                 {[a EXCEPT !.at = "trim", !.extra = Cardinality(queue) - QueueMax]}]
          /\ UNCHANGED <<queue, flusher, sending, dropped>>
  BY DEF Adds
<1> QED BY <1>6, <1>8, <1>9, <1>10

\* The store fails a log, or is slow: the log is in the memory of its tab too.
LEMMA AddFailsKeeps ==
    ASSUME LogsInv, NEW t \in Tabs, NEW a \in adding[t], AddFails(t, a)
    PROVE  LogsInv'
<1>1. LogsShape /\ NoneLost /\ \A u \in Tabs : FlushFits(u)
  BY DEF LogsInv
<1>2. adding \in [Tabs -> SUBSET Additions] /\ a \in Additions /\ a.log \in Nat
  BY <1>1, LogsAssumption DEF LogsShape, Additions
<1>3. /\ logged' = logged /\ queue' = queue /\ appLogs' = appLogs /\ flusher' = flusher
  BY DEF AddFails
<1>4. Rows(appLogs, appLogs')
  BY <1>3 DEF Rows
<1>5. PICK B \in SUBSET Additions : adding' = [adding EXCEPT ![t] = (adding[t] \ {a}) \cup B]
  <2>1. [a EXCEPT !.late = TRUE] \in Additions
    BY <1>2 DEF Additions
  <2>2. \/ adding' = [adding EXCEPT ![t] = (@ \ {a}) \cup {[a EXCEPT !.late = TRUE]}]
        \/ adding' = [adding EXCEPT ![t] = @ \ {a}]
    BY DEF AddFails
  <2>3. {} \in SUBSET Additions /\ (adding[t] \ {a}) \cup {} = adding[t] \ {a}
    OBVIOUS
  <2> QED BY <2>1, <2>2, <2>3
<1>6. adding' \in [Tabs -> SUBSET Additions] /\ \A u \in Tabs : adding[u] \ {a} \subseteq adding'[u]
  BY <1>2, <1>5
<1>7. \A u \in Tabs : u # t => adding'[u] = adding[u]
  BY <1>2, <1>5
<1>8. /\ memory' \in [Tabs -> Seq(Nat)] /\ sending' \in [Tabs -> Seq(Nat)]
      /\ \A u \in Tabs : Len(sending'[u]) <= Batch
      /\ dropped \subseteq dropped' /\ (a.late \/ a.log \in ToSet(memory'[t]) \cup dropped')
      /\ \A u \in Tabs : ToSet(memory[u]) \subseteq ToSet(memory'[u]) \cup dropped'
  <2>1. CASE a.late /\ UNCHANGED <<memory, sending, dropped, off>>
    BY <1>1, <2>1 DEF LogsShape, FlushFits
  <2>2. CASE ToMemory(t, a.log)
    <3>1. \A k \in Nat : ToMemory(t, k) =>
             /\ memory' \in [Tabs -> Seq(Nat)] /\ sending' \in [Tabs -> Seq(Nat)]
             /\ \A u \in Tabs : Len(sending'[u]) <= Batch
             /\ k \in ToSet(memory'[t]) \cup dropped' /\ dropped \subseteq dropped'
             /\ \A u \in Tabs : ToSet(memory[u]) \subseteq ToSet(memory'[u]) \cup dropped'
      BY InMemory
    <3> QED BY <1>2, <2>2, <3>1
  <2> QED BY <2>1, <2>2 DEF AddFails
<1>9. LogsShape'
  BY <1>1, <1>3, <1>6, <1>8 DEF LogsShape
<1>10. \A u \in Tabs : FlushFits(u)'
  BY <1>1, <1>3, <1>4, <1>8, FitsAsBefore
<1>11. \A l \in 1..logged : Stored(l) => Stored(l)'
  BY <1>3, <1>8 DEF Stored
<1>12. ASSUME NEW l \in 1..logged, NEW u \in Tabs, WithTab(u, l) PROVE WithTab(u, l)' \/ Stored(l)'
  <2>1. CASE l \in ToSet(memory[u])
    BY <1>8, <2>1 DEF WithTab, Stored
  <2>2. CASE \E b \in adding[u] : b.log = l /\ b.at = "put" /\ ~b.late
    <3>1. PICK b \in adding[u] : b.log = l /\ b.at = "put" /\ ~b.late
      BY <2>2
    <3>2. CASE b \in adding'[u]
      BY <3>1, <3>2 DEF WithTab
    <3>3. CASE b \notin adding'[u]
      <4>1. u = t /\ b = a
        BY <1>6, <1>7, <3>1, <3>3
      <4> QED BY <1>8, <3>1, <4>1 DEF WithTab, Stored
    <3> QED BY <3>2, <3>3
  <2> QED BY <1>12, <2>1, <2>2 DEF WithTab
<1> QED BY <1>1, <1>3, <1>9, <1>10, <1>11, <1>12, StillThere DEF LogsInv

\* The answer to a batch of the memory.
LEMMA MemorySentKeeps ==
    ASSUME LogsInv, NEW t \in Tabs, NEW ok \in BOOLEAN, MemorySent(t, ok), Batch <= ServerBatch
    PROVE  LogsInv'
<1>1. LogsShape /\ NoneLost /\ \A u \in Tabs : FlushFits(u)
  BY DEF LogsInv
<1>2. /\ memory \in [Tabs -> Seq(Nat)] /\ sending \in [Tabs -> Seq(Nat)]
      /\ flusher \in [Tabs -> FlushStates] /\ appLogs \in [1..MaxLogs -> Nat]
  BY <1>1 DEF LogsShape
<1>3. /\ logged' = logged /\ queue' = queue /\ adding' = adding /\ dropped' = dropped
      /\ Post(InTurn(sending[t]), ok)
      /\ memory' = [memory EXCEPT ![t] = Unsent(t, ok)]
      /\ sending' = [sending EXCEPT ![t] = <<>>]
  BY DEF MemorySent
<1>4. /\ appLogs' \in [1..MaxLogs -> Nat] /\ Rows(appLogs, appLogs')
      /\ ok => \A l \in 1..MaxLogs : l \in InTurn(sending[t])[ServerBatch] => appLogs'[l] > 0
  <2>1. \A ins : Post(ins, ok) =>
           /\ appLogs' \in [1..MaxLogs -> Nat]
           /\ \A l \in 1..MaxLogs : appLogs[l] > 0 => appLogs'[l] > 0
           /\ ok => \A l \in 1..MaxLogs : l \in ins[ServerBatch] => appLogs'[l] > 0
    BY <1>2, PostAdds
  <2> QED BY <1>3, <2>1 DEF Rows
<1>5. InTurn(sending[t])[ServerBatch] = ToSet(sending[t])
  <2>1. Len(sending[t]) <= Batch /\ Len(sending[t]) \in Nat
    BY <1>1, <1>2, LenProperties DEF FlushFits
  <2>2. Batch \in Nat /\ ServerBatch \in Nat
    BY LogsAssumption
  <2>3. Len(sending[t]) <= ServerBatch
    BY <2>1, <2>2
  <2>4. FirstOf(sending[t], ServerBatch) = sending[t]
    BY <1>2, <2>2, <2>3, FirstOfList
  <2>5. ServerBatch \in 0..ServerBatch
    BY <2>2
  <2> QED BY <2>4, <2>5 DEF InTurn
<1>6. /\ Unsent(t, ok) \in Seq(Nat)
      /\ \A l \in ToSet(memory[t]) : (ok /\ Contains(sending[t], l)) \/ l \in ToSet(Unsent(t, ok))
  BY <1>2, UnsentStays
<1>7. \A l : Contains(sending[t], l) => l \in ToSet(sending[t])
  <2>1. DOMAIN sending[t] = 1..Len(sending[t])
    BY <1>2, LenProperties
  <2> QED BY <2>1 DEF Contains, ToSet
<1>8. memory' \in [Tabs -> Seq(Nat)] /\ sending' \in [Tabs -> Seq(Nat)]
  BY <1>2, <1>3, <1>6
<1>9. \A u \in Tabs : Len(sending'[u]) <= Batch
  <2>1. Len(<<>>) <= Batch
    BY LogsAssumption
  <2> QED BY <1>1, <1>2, <1>3, <2>1 DEF FlushFits
<1>10. flusher' \in [Tabs -> FlushStates] /\ \A u \in Tabs : FlushFits(u)'
  <2>1. CASE flusher' = flusher
    BY <1>1, <1>2, <1>4, <1>9, <2>1, FitsAsBefore
  <2>2. CASE flusher[t].at = "memory"
    <3> DEFINE to == IF ok /\ ~off[t] THEN "load" ELSE "idle"
    <3>1. flusher' = [flusher EXCEPT ![t].at = to] /\ to \in {"load", "idle"}
      BY <2>2 DEF MemorySent
    <3> HIDE DEF to
    <3>2. flusher[t].logs = {}
      BY <1>1, <2>2 DEF FlushFits
    <3>3. flusher' \in [Tabs -> FlushStates]
      BY <1>2, <3>1 DEF FlushStates
    <3>4. flusher'[t].logs = {} /\ flusher'[t].at = to
      BY <1>2, <3>1, <3>2 DEF FlushStates
    <3>5. ASSUME NEW u \in Tabs, u # t PROVE flusher'[u] = flusher[u]
      BY <1>2, <3>1, <3>5
    <3>6. ASSUME NEW u \in Tabs PROVE FlushFits(u)'
      <4>1. CASE u = t
        BY <1>9, <3>1, <3>4, <4>1, FitsWithout
      <4>2. CASE u # t
        BY <1>1, <1>4, <1>9, <3>5, <4>2, FitsAsBefore
      <4> QED BY <4>1, <4>2
    <3> QED BY <3>3, <3>6
  <2> QED BY <2>1, <2>2 DEF MemorySent
<1>11. LogsShape'
  BY <1>1, <1>3, <1>4, <1>8, <1>10 DEF LogsShape
<1>12. logged \in Nat /\ \A l \in 1..logged : l \in 1..MaxLogs
  BY <1>1, LogsAssumption DEF LogsShape
<1>13. \A l \in 1..logged : Stored(l) => Stored(l)'
  BY <1>3, <1>4, <1>12 DEF Stored, Rows
<1>14. ASSUME NEW l \in 1..logged, NEW u \in Tabs, WithTab(u, l) PROVE WithTab(u, l)' \/ Stored(l)'
  <2>1. CASE l \in ToSet(memory[t]) /\ u = t
    <3>1. CASE ok /\ Contains(sending[t], l)
      <4>1. appLogs'[l] > 0
        BY <1>4, <1>5, <1>7, <1>12, <3>1
      <4> QED BY <4>1 DEF Stored
    <3>2. CASE l \in ToSet(Unsent(t, ok))
      BY <1>2, <1>3, <2>1, <3>2 DEF WithTab
    <3> QED BY <1>6, <2>1, <3>1, <3>2
  <2>2. CASE l \in ToSet(memory[u]) /\ u # t
    <3>1. memory'[u] = memory[u]
      BY <1>2, <1>3, <2>2
    <3> QED BY <2>2, <3>1 DEF WithTab
  <2>3. CASE \E b \in adding[u] : b.log = l /\ b.at = "put" /\ ~b.late
    BY <1>3, <2>3 DEF WithTab
  <2> QED BY <1>14, <2>1, <2>2, <2>3 DEF WithTab
<1> QED BY <1>1, <1>3, <1>10, <1>11, <1>13, <1>14, StillThere DEF LogsInv

\* A flush of t moves on, with a batch that is small and is not taken for a sent one.
LEMMA FlushMoves ==
    ASSUME LogsInv, NEW t \in Tabs, NEW at \in {"idle", "send"}, NEW logs \in SUBSET Nat,
           Small(logs), at = "idle" => logs = {},
           flusher' = [flusher EXCEPT ![t] = [at |-> at, logs |-> logs]],
           sending' = sending, Rows(appLogs, appLogs')
    PROVE  flusher' \in [Tabs -> FlushStates] /\ \A u \in Tabs : FlushFits(u)'
<1>1. /\ flusher \in [Tabs -> FlushStates]
      /\ \A u \in Tabs : FlushFits(u) /\ Len(sending'[u]) <= Batch
  BY DEF LogsInv, LogsShape, FlushFits
<1>2. flusher' \in [Tabs -> FlushStates]
  BY <1>1 DEF FlushStates
<1>3. flusher'[t].at = at /\ flusher'[t].logs = logs
  BY <1>1
<1>4. ASSUME NEW u \in Tabs PROVE FlushFits(u)'
  <2>1. CASE u = t
    BY <1>1, <1>3, <2>1 DEF FlushFits, Small
  <2>2. CASE u # t
    <3>1. flusher'[u] = flusher[u]
      BY <1>1, <2>2
    <3> QED BY <1>1, <3>1, FitsAsBefore
  <2> QED BY <2>1, <2>2
<1> QED BY <1>2, <1>4

LEMMA NothingSmall == Small({})
BY FS_EmptySet DEF Small

\* A flush of t ends.
LEMMA FlushEnds ==
    ASSUME LogsInv, NEW t \in Tabs, flusher' = [flusher EXCEPT ![t] = NoFlush],
           sending' = sending, Rows(appLogs, appLogs')
    PROVE  flusher' \in [Tabs -> FlushStates] /\ \A u \in Tabs : FlushFits(u)'
<1>1. flusher' = [flusher EXCEPT ![t] = [at |-> "idle", logs |-> {}]]
  BY DEF NoFlush
<1>2. \A at \in {"idle", "send"}, logs \in SUBSET Nat :
         /\ Small(logs) /\ (at = "idle" => logs = {})
         /\ flusher' = [flusher EXCEPT ![t] = [at |-> at, logs |-> logs]]
         => flusher' \in [Tabs -> FlushStates] /\ \A u \in Tabs : FlushFits(u)'
  BY FlushMoves
<1> QED BY <1>1, <1>2, NothingSmall

\* A batch of the store is read.
LEMMA LoadsKeeps ==
    ASSUME LogsInv, NEW t \in Tabs, Loads(t)
    PROVE  LogsInv'
<1>1. /\ UNCHANGED <<logged, queue, adding, memory, sending, appLogs, dropped>>
      /\ flusher' = [flusher EXCEPT ![t] = IF queue = {} THEN NoFlush
                                     ELSE [at |-> "send", logs |-> OldestOf(queue, Batch)]]
  BY DEF Loads
<1>2. Rows(appLogs, appLogs')
  BY <1>1 DEF Rows
<1>3. flusher' \in [Tabs -> FlushStates] /\ \A u \in Tabs : FlushFits(u)'
  <2>1. CASE queue = {}
    BY <1>1, <1>2, <2>1, FlushEnds
  <2>2. CASE queue # {}
    <3> DEFINE old == OldestOf(queue, Batch)
    <3>1. queue \in SUBSET Nat /\ IsFiniteSet(queue) /\ Batch \in Nat
      BY StoreFinite, LogsAssumption DEF LogsInv
    <3>2. old \in SUBSET Nat /\ Small(old)
      BY <3>1, OldestFew DEF Small
    <3>3. flusher' = [flusher EXCEPT ![t] = [at |-> "send", logs |-> old]]
      BY <1>1, <2>2
    <3> HIDE DEF old
    <3>4. \A at \in {"idle", "send"}, logs \in SUBSET Nat :
             /\ Small(logs) /\ (at = "idle" => logs = {})
             /\ flusher' = [flusher EXCEPT ![t] = [at |-> at, logs |-> logs]]
             => flusher' \in [Tabs -> FlushStates] /\ \A u \in Tabs : FlushFits(u)'
      BY <1>1, <1>2, FlushMoves
    <3> QED BY <3>2, <3>3, <3>4
  <2> QED BY <2>1, <2>2
<1>4. LogsShape'
  BY <1>1, <1>3 DEF LogsInv, LogsShape
<1>5. NoneLost'
  BY <1>1 DEF LogsInv, NoneLost, Stored, WithTab
<1> QED BY <1>3, <1>4, <1>5 DEF LogsInv

\* The answer to a batch of the store: every log of it has its row.
LEMMA QueueSentKeeps ==
    ASSUME LogsInv, NEW t \in Tabs, NEW ok \in BOOLEAN, QueueSent(t, ok), Batch <= ServerBatch
    PROVE  LogsInv'
<1>1. LogsShape /\ NoneLost /\ \A u \in Tabs : FlushFits(u)
  BY DEF LogsInv
<1>2. flusher \in [Tabs -> FlushStates] /\ appLogs \in [1..MaxLogs -> Nat]
  BY <1>1 DEF LogsShape
<1>3. /\ UNCHANGED <<logged, queue, adding, memory, sending, dropped>>
      /\ flusher[t].at = "send" /\ Post(ByAge(flusher[t].logs), ok)
      /\ flusher' = [flusher EXCEPT ![t] = AfterSend(t, ok)]
  BY DEF QueueSent
<1>4. /\ appLogs' \in [1..MaxLogs -> Nat] /\ Rows(appLogs, appLogs')
      /\ ok => \A l \in 1..MaxLogs : l \in ByAge(flusher[t].logs)[ServerBatch] => appLogs'[l] > 0
  <2>1. \A ins : Post(ins, ok) =>
           /\ appLogs' \in [1..MaxLogs -> Nat]
           /\ \A l \in 1..MaxLogs : appLogs[l] > 0 => appLogs'[l] > 0
           /\ ok => \A l \in 1..MaxLogs : l \in ins[ServerBatch] => appLogs'[l] > 0
    BY <1>2, PostAdds
  <2> QED BY <1>3, <2>1 DEF Rows
<1>5. flusher[t].logs \in SUBSET Nat /\ Small(flusher[t].logs)
  BY <1>1, <1>2 DEF FlushStates, FlushFits
<1>6. ByAge(flusher[t].logs)[ServerBatch] = flusher[t].logs
  <2>1. OldestOf(flusher[t].logs, ServerBatch) = flusher[t].logs
    BY <1>5, OldestAll
  <2>2. ServerBatch \in 0..ServerBatch
    BY LogsAssumption
  <2> QED BY <2>1, <2>2 DEF ByAge
<1>7. flusher' \in [Tabs -> FlushStates] /\ \A u \in Tabs : FlushFits(u)'
  <2>1. CASE ~ok
    BY <1>3, <1>4, <2>1, FlushEnds DEF AfterSend
  <2>2. CASE ok
    <3>1. flusher' = [flusher EXCEPT ![t].at = "delete"]
      BY <1>2, <1>3, <2>2 DEF AfterSend
    <3>2. flusher' \in [Tabs -> FlushStates]
      BY <1>2, <3>1 DEF FlushStates
    <3>3. flusher'[t].at = "delete" /\ flusher'[t].logs = flusher[t].logs
      BY <1>2, <3>1 DEF FlushStates
    <3>4. \A u \in Tabs : Len(sending'[u]) <= Batch
      BY <1>1, <1>3 DEF FlushFits
    <3>5. ASSUME NEW u \in Tabs PROVE FlushFits(u)'
      <4>1. CASE u = t
        <5>1. \A l \in flusher[t].logs : l \in 1..MaxLogs => appLogs'[l] > 0
          BY <1>4, <1>6, <2>2
        <5> QED BY <1>5, <3>3, <3>4, <4>1, <5>1 DEF FlushFits, Small
      <4>2. CASE u # t
        <5>1. flusher'[u] = flusher[u]
          BY <1>2, <3>1, <4>2
        <5> QED BY <1>1, <1>4, <3>4, <5>1, FitsAsBefore
      <4> QED BY <4>1, <4>2
    <3> QED BY <3>2, <3>5
  <2> QED BY <2>1, <2>2
<1>8. LogsShape'
  BY <1>1, <1>3, <1>4, <1>7 DEF LogsShape
<1>9. \A l \in 1..logged : l \in 1..MaxLogs
  BY <1>1, LogsAssumption DEF LogsShape
<1>10. \A l \in 1..logged : Stored(l) => Stored(l)'
  BY <1>3, <1>4, <1>9 DEF Stored, Rows
<1>11. \A l \in 1..logged : \A u \in Tabs : WithTab(u, l) => WithTab(u, l)'
  BY <1>3 DEF WithTab
<1> QED BY <1>1, <1>3, <1>7, <1>8, <1>10, <1>11, StillThere DEF LogsInv

\* What is deleted has been sent.
LEMMA StoreEmptied ==
    ASSUME LogsInv, NEW t \in Tabs, flusher[t].at \in {"load", "delete"},
           queue' \in {queue, queue \ flusher[t].logs},
           flusher' = [flusher EXCEPT ![t] = NoFlush],
           UNCHANGED <<logged, adding, memory, sending, appLogs, dropped>>
    PROVE  LogsInv'
<1>1. LogsShape /\ NoneLost /\ FlushFits(t)
  BY DEF LogsInv
<1>2. Rows(appLogs, appLogs')
  BY DEF Rows
<1>3. flusher' \in [Tabs -> FlushStates] /\ \A u \in Tabs : FlushFits(u)'
  BY <1>2, FlushEnds
<1>4. LogsShape'
  BY <1>1, <1>3 DEF LogsShape
<1>5. \A l \in 1..logged : l \in 1..MaxLogs
  BY <1>1, LogsAssumption DEF LogsShape
<1>6. \A l \in flusher[t].logs : l \in 1..MaxLogs => appLogs[l] > 0
  BY <1>1 DEF FlushFits
<1>7. \A l \in 1..logged : Stored(l) => Stored(l)'
  BY <1>5, <1>6 DEF Stored
<1>8. \A l \in 1..logged : \A u \in Tabs : WithTab(u, l) => WithTab(u, l)'
  BY DEF WithTab
<1> QED BY <1>1, <1>3, <1>4, <1>7, <1>8, StillThere DEF LogsInv

LEMMA DeletesKeeps ==
    ASSUME LogsInv, NEW t \in Tabs, Deletes(t) \/ StoreFails(t)
    PROVE  LogsInv'
BY StoreEmptied DEF Deletes, StoreFails

\* The page goes: what was in its memory only, or had not reached the store, is dropped.
LEMMA PageLeftKeeps ==
    ASSUME LogsInv, NEW t \in Tabs, PageLeft(t)
    PROVE  LogsInv'
<1>1. LogsShape /\ NoneLost /\ \A u \in Tabs : FlushFits(u)
  BY DEF LogsInv
<1>2. /\ memory \in [Tabs -> Seq(Nat)] /\ sending \in [Tabs -> Seq(Nat)]
      /\ adding \in [Tabs -> SUBSET Additions] /\ flusher \in [Tabs -> FlushStates]
  BY <1>1 DEF LogsShape
<1> DEFINE open == {a.log : a \in {b \in adding[t] : b.at = "put"}}
<1>3. PICK kept \in SUBSET open :
         /\ queue' = queue \cup kept
         /\ dropped' = dropped \cup (ToSet(memory[t]) \ queue) \cup (open \ kept)
  BY DEF PageLeft
<1>4. /\ logged' = logged /\ appLogs' = appLogs
      /\ adding' = [adding EXCEPT ![t] = {}] /\ memory' = [memory EXCEPT ![t] = <<>>]
      /\ sending' = [sending EXCEPT ![t] = <<>>] /\ flusher' = [flusher EXCEPT ![t] = NoFlush]
  BY DEF PageLeft
<1>5. open \subseteq 1..MaxLogs
  BY <1>2 DEF Additions
<1>6. \A a \in adding[t] : a.at = "put" => a.log \in open
  OBVIOUS
<1> HIDE DEF open
<1>7. Rows(appLogs, appLogs')
  BY <1>4 DEF Rows
<1>8. \A u \in Tabs : Len(sending'[u]) <= Batch
  <2>1. Len(<<>>) <= Batch
    BY LogsAssumption
  <2> QED BY <1>1, <1>2, <1>4, <2>1 DEF FlushFits
<1>9. flusher' \in [Tabs -> FlushStates]
  BY <1>2, <1>4 DEF FlushStates, NoFlush
<1>10. ASSUME NEW u \in Tabs PROVE FlushFits(u)'
  <2>1. CASE u = t
    <3>1. flusher'[u].logs = {} /\ flusher'[u].at # "delete"
      BY <1>2, <1>4, <2>1 DEF NoFlush
    <3> QED BY <1>8, <3>1, FitsWithout
  <2>2. CASE u # t
    <3>1. flusher'[u] = flusher[u]
      BY <1>2, <1>4, <2>2
    <3> QED BY <1>1, <1>7, <1>8, <3>1, FitsAsBefore
  <2> QED BY <2>1, <2>2
<1>11. LogsShape'
  <2>1. queue' \in SUBSET (1..MaxLogs)
    BY <1>1, <1>3, <1>5 DEF LogsShape
  <2>2. adding' \in [Tabs -> SUBSET Additions] /\ memory' \in [Tabs -> Seq(Nat)]
        /\ sending' \in [Tabs -> Seq(Nat)]
    BY <1>2, <1>4
  <2> QED BY <1>1, <1>4, <1>9, <2>1, <2>2 DEF LogsShape
<1>12. \A l \in 1..logged : Stored(l) => Stored(l)'
  BY <1>3, <1>4 DEF Stored
<1>13. ASSUME NEW l \in 1..logged, NEW u \in Tabs, WithTab(u, l) PROVE WithTab(u, l)' \/ Stored(l)'
  <2>1. CASE u # t
    <3>1. memory'[u] = memory[u] /\ adding'[u] = adding[u]
      BY <1>2, <1>4, <2>1
    <3> QED BY <1>13, <3>1 DEF WithTab
  <2>2. CASE u = t /\ l \in ToSet(memory[t])
    BY <1>3, <2>2 DEF Stored
  <2>3. CASE u = t /\ \E a \in adding[t] : a.log = l /\ a.at = "put" /\ ~a.late
    BY <1>3, <1>6, <2>3 DEF Stored
  <2> QED BY <1>13, <2>1, <2>2, <2>3 DEF WithTab
<1> QED BY <1>1, <1>4, <1>10, <1>11, <1>12, <1>13, StillThere DEF LogsInv

\* What changes none of the queues.
LEMMA LogsRest ==
    ASSUME LogsInv,
           UNCHANGED <<logged, queue, adding, memory, sending, flusher, appLogs, dropped>>
    PROVE  LogsInv'
BY DEF LogsInv, LogsShape, NoneLost, Stored, WithTab, FlushFits, Small

\* No log is lost: from its call on, a log is with the server, was dropped by a limit or
\* with its page, is in the store, or is with a tab that still has to put or to send it
\* (client-logs.ts).  The batches of the browser are no larger than what the server takes
\* of one: FLUSH_BATCH_SIZE and MAX_LOGS_PER_BATCH are both 100.
THEOREM LogsAreKept ==
    ASSUME Batch <= ServerBatch
    PROVE  LogsSpec => []NoneLost
<1>1. LogsInit => LogsInv
  <2>1. SUFFICES ASSUME LogsInit PROVE LogsInv
    OBVIOUS
  <2>2. /\ logged \in 0..MaxLogs /\ queue = 1..logged /\ adding = [t \in Tabs |-> {}]
         /\ memory = [t \in Tabs |-> <<>>] /\ sending = [t \in Tabs |-> <<>>]
         /\ flusher = [t \in Tabs |-> [at |-> "idle", logs |-> {}]]
         /\ appLogs = [l \in 1..MaxLogs |-> 0]
    BY <2>1 DEF LogsInit, NoFlush
  <2>3. MaxLogs \in Nat /\ Batch \in Nat /\ <<>> \in Seq(Nat) /\ Len(<<>>) = 0
    BY LogsAssumption
  <2>4. LogsShape
    <3>1. queue \in SUBSET (1..MaxLogs) /\ appLogs \in [1..MaxLogs -> Nat]
      BY <2>2, <2>3
    <3>2. flusher \in [Tabs -> FlushStates]
      BY <2>2 DEF FlushStates
    <3>3. adding \in [Tabs -> SUBSET Additions]
      BY <2>2
    <3>4. memory \in [Tabs -> Seq(Nat)] /\ sending \in [Tabs -> Seq(Nat)]
      BY <2>2, <2>3
    <3> QED BY <2>2, <3>1, <3>2, <3>3, <3>4 DEF LogsShape
  <2>5. NoneLost
    BY <2>2 DEF NoneLost, Stored
  <2>6. ASSUME NEW u \in Tabs PROVE FlushFits(u)
    <3>1. sending[u] = <<>> /\ flusher[u].at = "idle" /\ flusher[u].logs = {}
      BY <2>2
    <3> QED BY <2>3, <3>1, NothingSmall DEF FlushFits
  <2> QED BY <2>4, <2>5, <2>6 DEF LogsInv
<1>2. LogsInv /\ [LogsNext]_logVars => LogsInv'
  <2>1. SUFFICES ASSUME LogsInv, [LogsNext]_logVars PROVE LogsInv'
    OBVIOUS
  <2>2. CASE UNCHANGED logVars
    BY <2>1, <2>2, LogsRest DEF logVars
  <2>3. CASE Network
    BY <2>1, <2>3, LogsRest DEF Network
  <2>4. ASSUME NEW t \in Tabs, LogMade(t) \/ FlushCalled(t) PROVE LogsInv'
    BY <2>1, <2>4, LogMadeKeeps, FlushCalledKeeps
  <2>5. ASSUME NEW t \in Tabs, Reenabled(t) PROVE LogsInv'
    BY <2>1, <2>5, LogsRest DEF Reenabled
  <2>6. ASSUME NEW t \in Tabs, Loads(t) \/ Deletes(t) \/ StoreFails(t) \/ PageLeft(t)
        PROVE  LogsInv'
    BY <2>1, <2>6, LoadsKeeps, DeletesKeeps, PageLeftKeeps
  <2>7. ASSUME NEW t \in Tabs, NEW a \in adding[t], Adds(t, a) \/ AddFails(t, a)
        PROVE  LogsInv'
    BY <2>1, <2>7, AddsKeeps, AddFailsKeeps
  <2>8. ASSUME NEW t \in Tabs, NEW ok \in BOOLEAN, MemorySent(t, ok) \/ QueueSent(t, ok)
        PROVE  LogsInv'
    BY <2>1, <2>8, MemorySentKeeps, QueueSentKeeps
  <2> QED BY <2>1, <2>2, <2>3, <2>4, <2>5, <2>6, <2>7, <2>8 DEF LogsNext, LogsStep
<1>3. LogsInv => NoneLost
  BY DEF LogsInv
<1> QED BY <1>1, <1>2, <1>3, PTL DEF LogsSpec

=============================================================================

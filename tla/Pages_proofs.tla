---------------------------- MODULE Pages_proofs ----------------------------
(***************************************************************************)
(* For any files, rows, writers, lost links and failed queries: the types  *)
(* of TickPull, and that a scope at rest has caught up with everything it  *)
(* was told.  For any chats, pages and turns of the legacy page: the       *)
(* window of EventWindow has no hole, and the chosen chat stays open.      *)
(***************************************************************************)
EXTENDS TickPull, EventWindow, Integers, FiniteSetTheorems, WellFoundedInduction, TLAPS

USE TickPullAssumption

\* The parts of the invariant: the table and the listener, ...
ServerFits ==
    /\ nextRev \in 1..(MaxRows + 1)
    /\ writers \subseteq [rev : 1..MaxRows, file : Files, reports : BOOLEAN]
    /\ table \subseteq Rows /\ mv \subseteq table
    /\ toReport \subseteq Files /\ pendingFiles \subseteq Files
    /\ pendingMaxRev \in Revs /\ lastSeen \in Revs /\ polled \in Revs \cup {NoPoll}
    /\ armed \in BOOLEAN /\ refreshing \in BOOLEAN /\ refreshAgain \in BOOLEAN
    /\ snapshot \subseteq table

\* ... the link, on which only rows of the table travel, ...
LinkFits ==
    /\ link \in {"down", "open"} /\ hello \in Revs \cup {NoHello, Received}
    /\ serving \subseteq Queries /\ down \in Seq(Frames)
    /\ \A q \in serving : q.rows \subseteq table
    /\ \A i \in DOMAIN down : down[i].op = "query.ok" => down[i].reply.rows \subseteq table
    /\ drops \in 0..MaxDrops /\ faults \in 0..MaxFaults

\* ... and a scope: what a pull implies, and that a scope at rest is not behind.
ScopeFits(sc) ==
    /\ sc \in ScopeStates
    /\ sc.awaiting => sc.inFlight /\ sc.landing = NoReply
    /\ sc.landing # NoReply => sc.inFlight
    /\ sc.inFlight \/ sc.rerun => sc.started
    /\ sc.started /\ ~sc.inFlight /\ ~sc.rerun => sc.synced >= sc.known

ScopesFit ==
    /\ scopes = [s \in Scopes |-> scopes[s]]
    /\ \A s \in Scopes : ScopeFits(scopes[s]) /\ scopes[s].landing.rows \subseteq table
    /\ have \in [Scopes -> SUBSET table]

IInv == ServerFits /\ LinkFits /\ ScopesFit

LEMMA Implies == IInv => TypeOK /\ RestsCaughtUp
<1> SUFFICES ASSUME IInv PROVE TypeOK /\ RestsCaughtUp
  OBVIOUS
<1>1. RestsCaughtUp
  BY DEF IInv, ScopesFit, ScopeFits, RestsCaughtUp
<1>2. scopes \in [Scopes -> ScopeStates]
  BY DEF IInv, ScopesFit, ScopeFits
<1>3. \A s \in Scopes :
        LET sc == scopes[s]
        IN  /\ sc.awaiting => sc.inFlight /\ sc.landing = NoReply
            /\ sc.landing # NoReply => sc.inFlight
            /\ sc.inFlight => sc.started
  BY DEF IInv, ScopesFit, ScopeFits
<1>4. TypeOK
  BY <1>2, <1>3 DEF IInv, ServerFits, LinkFits, ScopesFit, TypeOK
<1> QED BY <1>1, <1>4

----------------------------------------------------------------------------
(* The highest revision of a set of rows *)

\* Revisions are bounded, so every set of rows has a highest one (or none, and 0).
LEMMA HighestType ==
    ASSUME NEW T \in SUBSET Rows
    PROVE  Highest(T) \in Revs
<1> DEFINE revs == {0} \cup {r.rev : r \in T}
           bounds == {m \in Nat : \A n \in revs : n <= m}
<1>1. revs \subseteq Revs
  BY DEF Rows, Revs
<1>2. MaxRows \in bounds
  BY <1>1 DEF Revs
<1>3. PICK m \in bounds : \A n \in bounds : m <= n
  <2> DEFINE below == {0..n : n \in bounds}
  <2>1. below \subseteq FiniteSubsetsOf(Nat) /\ below # {}
    <3>1. \A n \in bounds : IsFiniteSet(0..n) /\ 0..n \subseteq Nat
      BY FS_Interval
    <3> QED BY <3>1, <1>2 DEF FiniteSubsetsOf
  <2>2. PICK b \in below : \A c \in below : ~(<<c, b>> \in StrictSubsetOrdering(Nat))
    <3> HIDE DEF below
    <3> QED BY <2>1, FS_StrictSubsetOrderingWellFounded, WFMin
  <2>3. PICK m \in bounds : b = 0..m
    OBVIOUS
  <2>4. ASSUME NEW n \in bounds, n < m PROVE FALSE
    <3>1. 0..n \subseteq 0..m /\ m \in 0..m /\ m \notin 0..n
      BY <2>4
    <3>2. 0..n \in below /\ 0..n \in SUBSET Nat /\ 0..m \in SUBSET Nat
      OBVIOUS
    <3>3. <<0..n, 0..m>> \in StrictSubsetOrdering(Nat)
      BY <3>1, <3>2 DEF StrictSubsetOrdering
    <3> QED BY <2>2, <2>3, <3>2, <3>3
  <2>5. bounds \subseteq Nat
    OBVIOUS
  <2> HIDE DEF bounds
  <2>6. \A n \in bounds : m <= n
    BY <2>3, <2>4, <2>5
  <2> QED BY <2>3, <2>6
<1>5. m \in revs
  <2>1. SUFFICES ASSUME m \notin revs PROVE FALSE
    OBVIOUS
  <2>2. m # 0 /\ m - 1 \in Nat
    BY <2>1
  <2>3. \A n \in revs : n \in Nat /\ n <= m /\ n # m
    BY <2>1, <1>1 DEF Revs
  <2>4. m - 1 \in bounds
    <3>1. \A n \in revs : n <= m - 1
      <4> HIDE DEF revs
      <4> QED BY <2>2, <2>3
    <3> QED BY <2>2, <3>1
  <2> QED BY <2>4, <2>2, <1>3
<1>6. \E h \in revs : \A r \in T : r.rev <= h
  BY <1>5
<1> QED BY <1>6, <1>1 DEF Highest

LEMMA MostType ==
    ASSUME NEW a \in Revs \cup {1}, NEW b \in Revs \cup {1, -1}
    PROVE  /\ Most(a, b) \in Revs \cup {1}
           /\ Most(a, b) >= a /\ Most(a, b) >= b
           /\ a \in Revs /\ b \in Revs \cup {-1} => Most(a, b) \in Revs
BY DEF Most, Revs

----------------------------------------------------------------------------
(* Operations on a scope *)

\* A scope that starts a pull, or lets the pull in flight be followed by another.
LEMMA RunFits ==
    ASSUME NEW sc \in ScopeStates, sc.started,
           sc.awaiting => sc.inFlight /\ sc.landing = NoReply,
           sc.landing # NoReply => sc.inFlight
    PROVE  ScopeFits(Run(sc)) /\ Run(sc).landing = sc.landing
<1>1. CASE sc.inFlight
  BY <1>1 DEF Run, ScopeFits, ScopeStates
<1>2. CASE ~sc.inFlight
  BY <1>2 DEF Run, Send, ScopeFits, ScopeStates
<1> QED BY <1>1, <1>2

\* What a scope learns leaves it a scope, perhaps behind.
LEMMA KnowFits ==
    ASSUME NEW sc, ScopeFits(sc), NEW max \in Revs
    PROVE  /\ Know(sc, max) \in ScopeStates
           /\ Know(sc, max) = [sc EXCEPT !.known = Know(sc, max).known]
<1>1. Most(sc.known, max) \in Revs \cup {1}
  BY MostType DEF ScopeFits, ScopeStates
<1> QED BY <1>1 DEF Know, ScopeFits, ScopeStates

LEMMA HelloFits ==
    ASSUME NEW sc, ScopeFits(sc), NEW max \in Revs
    PROVE  ScopeFits(HelloOk(sc, max)) /\ HelloOk(sc, max).landing = sc.landing
<1>1. CASE ~sc.started
  BY <1>1 DEF HelloOk
<1>2. CASE sc.started
  <2> DEFINE k == Know(sc, max)
  <2>1. k \in ScopeStates /\ k = [sc EXCEPT !.known = k.known]
    BY KnowFits
  <2>2. /\ k.started /\ k.landing = sc.landing
        /\ k.awaiting => k.inFlight /\ k.landing = NoReply
        /\ k.landing # NoReply => k.inFlight
    BY <1>2, <2>1 DEF ScopeFits, ScopeStates
  <2>3. HelloOk(sc, max) = Run(k)
    BY <1>2 DEF HelloOk
  <2> HIDE DEF k
  <2> QED BY <2>1, <2>2, <2>3, RunFits
<1> QED BY <1>1, <1>2

LEMMA TickFits ==
    ASSUME NEW sc, ScopeFits(sc), sc.started, NEW max \in Revs
    PROVE  ScopeFits(Tick(sc, max)) /\ Tick(sc, max).landing = sc.landing
<1> DEFINE k == Know(sc, max)
<1>1. k \in ScopeStates /\ k = [sc EXCEPT !.known = k.known]
  BY KnowFits
<1>2. /\ k.started /\ k.landing = sc.landing /\ k.inFlight = sc.inFlight
      /\ k.awaiting => k.inFlight /\ k.landing = NoReply
      /\ k.landing # NoReply => k.inFlight
  BY <1>1 DEF ScopeFits, ScopeStates
<1>3. Tick(sc, max) = IF k.inFlight THEN [k EXCEPT !.retry = TRUE]
                      ELSE IF k.synced < k.known THEN Run(k) ELSE k
  BY DEF Tick
<1> HIDE DEF k
<1>4. CASE k.inFlight
  BY <1>1, <1>2, <1>3, <1>4 DEF ScopeFits, ScopeStates
<1>5. CASE ~k.inFlight /\ k.synced < k.known
  BY <1>1, <1>2, <1>3, <1>5, RunFits
<1>6. CASE ~k.inFlight /\ ~(k.synced < k.known)
  <2>1. k.synced >= k.known
    BY <1>1, <1>6 DEF ScopeStates, Revs
  <2> QED BY <1>1, <1>2, <1>3, <1>6, <2>1 DEF ScopeFits
<1> QED BY <1>4, <1>5, <1>6

\* An answer to the attempt in flight.
LEMMA AnswerFits ==
    ASSUME NEW sc, ScopeFits(sc), sc.awaiting, NEW s \in Scopes, NEW reply \in Replies
    PROVE  ScopeFits(Answered(s, sc, reply)) /\ Answered(s, sc, reply).landing = reply
<1>1. Most(sc.synced, reply.max) \in Revs
  BY MostType DEF Replies, ScopeFits, ScopeStates
<1> QED BY <1>1 DEF Answered, ScopeFits, ScopeStates

\* The end of a pull, and an attempt that is given up.
LEMMA EndFits ==
    ASSUME NEW sc, ScopeFits(sc)
    PROVE  /\ sc.landing # NoReply =>
                ScopeFits(Ended(Stored(sc))) /\ Ended(Stored(sc)).landing = NoReply
           /\ sc.awaiting =>
                /\ ScopeFits([sc EXCEPT !.awaiting = FALSE])
                /\ ScopeFits([sc EXCEPT !.awaiting = FALSE, !.attempt = @ + 1])
<1> USE DEF ScopeFits, ScopeStates
<1>2. ASSUME sc.landing # NoReply
      PROVE  ScopeFits(Ended(Stored(sc))) /\ Ended(Stored(sc)).landing = NoReply
  <2>1. Most(sc.synced, sc.landing.max) \in Revs
    BY MostType DEF Replies
  <2>2. NoReply \in Replies
    BY DEF NoReply, Replies
  <2>3. Stored(sc) \in ScopeStates
    BY <2>1, <2>2 DEF Stored
  <2>4. Stored(sc).started /\ ~Stored(sc).inFlight /\ Stored(sc).landing = NoReply
        /\ ~Stored(sc).awaiting
    BY <1>2 DEF Stored
  <2>5. Stored(sc).synced \in Int /\ Stored(sc).known \in Int
    BY <2>3 DEF Revs
  <2> DEFINE t == Stored(sc)
  <2> HIDE DEF t
  <2> DEFINE b == t.rerun \/ Behind(t)
  <2>6. b \in BOOLEAN
    BY <2>3 DEF t, Behind
  <2>7. Ended(t) = [t EXCEPT !.retry = FALSE, !.rerun = b]
    BY DEF Ended
  <2>8. ~b => t.synced >= t.known
    BY <2>5 DEF t, Behind
  <2> HIDE DEF b
  <2>9. t \in ScopeStates /\ t.started /\ ~t.inFlight /\ ~t.awaiting /\ t.landing = NoReply
    BY <2>3, <2>4 DEF t
  <2>10. ScopeFits(Ended(t)) /\ Ended(t).landing = NoReply
    BY <2>6, <2>7, <2>8, <2>9
  <2> QED BY <2>10 DEF t
<1>3. ASSUME sc.awaiting
      PROVE  /\ ScopeFits([sc EXCEPT !.awaiting = FALSE])
             /\ ScopeFits([sc EXCEPT !.awaiting = FALSE, !.attempt = @ + 1])
  <2>1. sc.attempt + 1 \in Nat
    OBVIOUS
  <2>2. ScopeFits([sc EXCEPT !.awaiting = FALSE])
    BY <1>3
  <2>3. ScopeFits([sc EXCEPT !.awaiting = FALSE, !.attempt = @ + 1])
    BY <1>3, <2>1
  <2> QED BY <2>2, <2>3
<1> HIDE DEF ScopeFits, ScopeStates
<1> QED BY <1>2, <1>3
----------------------------------------------------------------------------
(* Frames, queries, and all scopes together *)

\* A longer table keeps everything that was said of it.
LEMMA TableGrows ==
    ASSUME LinkFits, ScopesFit, table \subseteq table',
           UNCHANGED <<linkVars, clientVars>>
    PROVE  LinkFits' /\ ScopesFit'
<1> USE DEF linkVars, clientVars
<1>1. LinkFits'
  BY DEF LinkFits
<1>2. ScopesFit'
  BY DEF ScopesFit
<1> QED BY <1>1, <1>2

\* What a frame of each kind carries.
LEMMA FrameKinds ==
    ASSUME NEW f \in Frames
    PROVE  /\ f.op \in {"tick", "hello.ok", "query.ok", "query.err"}
           /\ f.op \in {"tick", "hello.ok"} => f.max \in Revs
           /\ f.op \in {"query.ok", "query.err"} => f.scope \in Scopes
           /\ f.op = "query.ok" => f.reply \in Replies
<1>1. CASE f \in [op : {"tick"}, max : Revs, files : SUBSET Files]
  <2>1. f.op = "tick" /\ f.max \in Revs
    BY <1>1
  <2> QED BY <2>1
<1>2. CASE f \in [op : {"hello.ok"}, max : Revs]
  <2>1. f.op = "hello.ok" /\ f.max \in Revs
    BY <1>2
  <2> QED BY <2>1
<1>3. CASE f \in [op : {"query.ok"}, scope : Scopes, attempt : Nat, reply : Replies]
  <2>1. f.op = "query.ok" /\ f.scope \in Scopes /\ f.reply \in Replies
    BY <1>3
  <2> QED BY <2>1
<1>4. CASE f \in [op : {"query.err"}, scope : Scopes, attempt : Nat]
  <2>1. f.op = "query.err" /\ f.scope \in Scopes
    BY <1>4
  <2> QED BY <2>1
<1> QED BY <1>1, <1>2, <1>3, <1>4 DEF Frames

LEMMA AppendFits ==
    ASSUME LinkFits, NEW f \in Frames, UNCHANGED table,
           f.op = "query.ok" => f.reply.rows \subseteq table,
           down' = Append(down, f)
    PROVE  /\ down' \in Seq(Frames)
           /\ \A i \in DOMAIN down' : down'[i].op = "query.ok" => down'[i].reply.rows \subseteq table'
<1>1. down \in Seq(Frames)
  BY DEF LinkFits
<1>2. ASSUME NEW i \in DOMAIN down', down'[i].op = "query.ok"
      PROVE  down'[i].reply.rows \subseteq table'
  <2>1. CASE i = Len(down) + 1
    <3>1. down'[i] = f
      BY <1>1, <2>1
    <3> QED BY <1>2, <3>1
  <2>2. CASE i # Len(down) + 1
    <3>1. i \in DOMAIN down /\ down'[i] = down[i]
      BY <1>1, <2>2
    <3> QED BY <1>2, <3>1 DEF LinkFits
  <2> QED BY <2>1, <2>2
<1>3. down' \in Seq(Frames)
  BY <1>1
<1> QED BY <1>2, <1>3

LEMMA TailFits ==
    ASSUME LinkFits, down # <<>>, down' = Tail(down), UNCHANGED table
    PROVE  /\ down' \in Seq(Frames) /\ Head(down) \in Frames
           /\ Head(down).op = "query.ok" => Head(down).reply.rows \subseteq table
           /\ \A i \in DOMAIN down' : down'[i].op = "query.ok" => down'[i].reply.rows \subseteq table'
<1>1. down \in Seq(Frames)
  BY DEF LinkFits
<1>2. Head(down) = down[1] /\ 1 \in DOMAIN down /\ down[1] \in Frames
  BY <1>1
<1>3. \A i \in DOMAIN down' : i + 1 \in DOMAIN down /\ down'[i] = down[i + 1]
  BY <1>1
<1> QED BY <1>1, <1>2, <1>3 DEF LinkFits

\* Scopes that fit send queries that fit, and keep their rows.
LEMMA SendsFit ==
    ASSUME LinkFits, ScopesFit, NEW new, Sends(new), UNCHANGED <<table, have>>,
           new = [s \in Scopes |-> new[s]],
           \A s \in Scopes : ScopeFits(new[s]) /\ new[s].landing = scopes[s].landing
    PROVE  /\ ScopesFit'
           /\ serving' \subseteq Queries /\ \A q \in serving' : q.rows \subseteq table'
<1>1. scopes' = new
  BY DEF Sends
<1>2. ScopesFit'
  BY <1>1 DEF ScopesFit, ScopeFits
<1>3. \A s \in Scopes : new[s].attempt \in Nat
  BY DEF ScopeFits, ScopeStates
<1>4. \A s \in Scopes :
        [scope |-> s, attempt |-> new[s].attempt, stage |-> "rows", rows |-> {}, max |-> 0]
          \in Queries
  BY <1>3 DEF Queries, Revs
<1>5. ASSUME NEW q \in serving' PROVE q \in Queries /\ q.rows \subseteq table'
  <2>1. CASE q \in serving
    BY <2>1 DEF LinkFits
  <2>2. CASE q \notin serving
    <3>1. PICK s \in Scopes :
            q = [scope |-> s, attempt |-> new[s].attempt, stage |-> "rows", rows |-> {},
                 max |-> 0]
      BY <2>2 DEF Sends
    <3> QED BY <1>4, <3>1
  <2> QED BY <2>1, <2>2
<1> QED BY <1>2, <1>5

\* One scope changes and nothing is sent.
LEMMA OneScopeFits ==
    ASSUME ScopesFit, NEW s \in Scopes, NEW sc, ScopeFits(sc), UNCHANGED table,
           sc.landing.rows \subseteq table,
           scopes' = [scopes EXCEPT ![s] = sc], have' \in [Scopes -> SUBSET table]
    PROVE  ScopesFit'
<1>1. \A t \in Scopes : scopes'[t] = IF t = s THEN sc ELSE scopes[t]
  BY DEF ScopesFit
<1>2. scopes' = [t \in Scopes |-> scopes'[t]]
  BY DEF ScopesFit
<1>3. \A t \in Scopes : ScopeFits(scopes[t])' 
  BY <1>1 DEF ScopesFit, ScopeFits
<1> QED BY <1>1, <1>2, <1>3 DEF ScopesFit
----------------------------------------------------------------------------
LEMMA Initially == Init => IInv
<1> SUFFICES ASSUME Init PROVE IInv
  OBVIOUS
<1>1. ServerFits
  <2>1. /\ nextRev \in 1..(MaxRows + 1) /\ pendingMaxRev \in Revs /\ lastSeen \in Revs
        /\ polled \in Revs \cup {NoPoll}
    BY DEF Init, Revs, NoPoll
  <2>2. armed \in BOOLEAN /\ refreshing \in BOOLEAN /\ refreshAgain \in BOOLEAN
    BY DEF Init
  <2>3. /\ writers = {} /\ table = {} /\ mv = {}
        /\ toReport = {} /\ pendingFiles = {} /\ snapshot = {}
    BY DEF Init
  <2> QED BY <2>1, <2>2, <2>3 DEF ServerFits
<1>2. LinkFits
  BY DEF Init, LinkFits, Revs, NoHello
<1>3. ScopesFit
  <2>1. IdleScope \in ScopeStates
    BY DEF IdleScope, ScopeStates, NoReply, Replies, Revs
  <2>2. ASSUME NEW b \in BOOLEAN
        PROVE  /\ ScopeFits([IdleScope EXCEPT !.started = b])
               /\ [IdleScope EXCEPT !.started = b].landing.rows = {}
    <3> DEFINE sc == [IdleScope EXCEPT !.started = b]
    <3>1. sc \in ScopeStates
      BY <2>1 DEF ScopeStates
    <3>2. ~sc.awaiting /\ ~sc.inFlight /\ ~sc.rerun /\ sc.landing = NoReply /\ sc.synced = 0 /\ sc.known = 0
      BY DEF IdleScope
    <3>3. NoReply.rows = {}
      BY DEF NoReply
    <3> HIDE DEF sc
    <3>4. ScopeFits(sc) /\ sc.landing.rows = {}
      BY <3>1, <3>2, <3>3 DEF ScopeFits
    <3> QED BY <3>4 DEF sc
  <2>3. \A s \in Scopes : scopes[s] = [IdleScope EXCEPT !.started = (s = "sidebar")]
    BY DEF Init
  <2>4. scopes = [s \in Scopes |-> scopes[s]] /\ have \in [Scopes -> SUBSET table]
    BY DEF Init
  <2>5. \A s \in Scopes : (s = "sidebar") \in BOOLEAN
    OBVIOUS
  <2> QED BY <2>2, <2>3, <2>4, <2>5 DEF ScopesFit
<1> QED BY <1>1, <1>2, <1>3 DEF IInv

\* What the listener and the table need is untouched.
LEMMA ServerIdle ==
    ASSUME ServerFits, UNCHANGED <<dbVars, listenerVars, mvVars>>
    PROVE  ServerFits'
BY DEF ServerFits, dbVars, listenerVars, mvVars

LEMMA ScopesIdle ==
    ASSUME ScopesFit, UNCHANGED <<table, scopes, have>>
    PROVE  ScopesFit'
BY DEF ScopesFit, ScopeFits

LEMMA LinkIdle ==
    ASSUME LinkFits, UNCHANGED <<linkVars, table, faults>>
    PROVE  LinkFits'
BY DEF LinkFits, linkVars

LEMMA WriterKeeps == IInv /\ WriterStep => IInv'
<1> SUFFICES ASSUME IInv, WriterStep PROVE IInv'
  OBVIOUS
<1> USE DEF IInv
<1>1. ASSUME NEW f \in Files, NEW reports \in BOOLEAN, Insert(f, reports) PROVE IInv'
  <2>1. nextRev' \in 1..(MaxRows + 1)
    BY <1>1 DEF Insert, ServerFits
  <2>2. [rev |-> nextRev, file |-> f, reports |-> reports]
          \in [rev : 1..MaxRows, file : Files, reports : BOOLEAN]
    BY <1>1 DEF Insert, ServerFits
  <2>3. ServerFits'
    BY <1>1, <2>1, <2>2 DEF Insert, ServerFits, listenerVars, mvVars
  <2> QED BY <1>1, <2>3, TableGrows DEF Insert
<1>2. ASSUME NEW w \in writers, CommitWrite(w) PROVE IInv'
  <2>1. w.rev \in 1..MaxRows /\ w.file \in Files
    BY DEF ServerFits
  <2>2. [rev |-> w.rev, file |-> w.file] \in Rows
    BY <2>1 DEF Rows
  <2>3. ServerFits'
    BY <1>2, <2>1, <2>2 DEF CommitWrite, ServerFits, listenerVars, mvVars
  <2> QED BY <1>2, <2>3, TableGrows DEF CommitWrite
<1>3. ASSUME NEW w \in writers, RollBack(w) PROVE IInv'
  <2>1. ServerFits'
    BY <1>3 DEF RollBack, ServerFits, listenerVars, mvVars
  <2> QED BY <1>3, <2>1, TableGrows DEF RollBack
<1> QED BY <1>1, <1>2, <1>3 DEF WriterStep

LEMMA ListenerKeeps ==
    ASSUME IInv,
           \/ \E f \in Files : Report(f)
           \/ PollReads \/ PollCompares \/ Flush \/ RefreshEnds
    PROVE  IInv'
<1> USE DEF IInv
<1>1. ASSUME NEW f \in Files, Report(f) PROVE IInv'
  <2>1. ServerFits'
    BY <1>1 DEF Report, ServerFits, mvVars
  <2> QED BY <1>1, <2>1, TableGrows DEF Report
<1>2. ASSUME PollReads PROVE IInv'
  <2>1. Highest(table) \in Revs
    BY HighestType DEF ServerFits
  <2>2. ServerFits'
    BY <1>2, <2>1 DEF PollReads, ServerFits, dbVars, mvVars
  <2> QED BY <1>2, <2>2, TableGrows DEF PollReads, dbVars
<1>3. ASSUME PollCompares PROVE IInv'
  <2>1. polled \in Revs /\ lastSeen \in Revs /\ pendingMaxRev \in Revs
    BY <1>3 DEF PollCompares, ServerFits
  <2>2. Most(pendingMaxRev, polled) \in Revs
    BY <2>1, MostType
  <2>3. pendingMaxRev' \in Revs
    BY <1>3, <2>1, <2>2 DEF PollCompares
  <2>4. armed' \in BOOLEAN
    BY <1>3 DEF PollCompares, ServerFits, Moved
  <2>5. ServerFits'
    BY <1>3, <2>3, <2>4 DEF PollCompares, ServerFits, dbVars, mvVars
  <2> QED BY <1>3, <2>5, TableGrows DEF PollCompares, dbVars
<1>4. ASSUME Flush PROVE IInv'
  <2>1. UNCHANGED <<dbVars, polled, mv, link, hello, serving, drops, clientVars>>
    BY <1>4 DEF Flush, mvVars
  <2>2. Most(lastSeen, pendingMaxRev) \in Revs
    BY MostType DEF ServerFits
  <2>3. /\ pendingFiles' \subseteq Files /\ pendingMaxRev' \in Revs /\ lastSeen' \in Revs
    BY <1>4, <2>2 DEF Flush, ServerFits, Revs
  <2>4. /\ armed' \in BOOLEAN /\ refreshing' \in BOOLEAN /\ refreshAgain' \in BOOLEAN
        /\ snapshot' \subseteq table
    BY <1>4 DEF Flush, ServerFits, mvVars, ScheduleRefresh, StartRefresh
  <2>5. ServerFits'
    BY <2>1, <2>3, <2>4 DEF ServerFits, dbVars
  <2>6. LinkFits'
    <3> DEFINE f == [op |-> "tick", max |-> pendingMaxRev, files |-> Hint(pendingFiles)]
    <3>1. f \in Frames
      <4>1. Hint(pendingFiles) \in SUBSET Files
        BY DEF Hint, ServerFits
      <4> QED BY <4>1 DEF Frames, ServerFits
    <3>2. f.op # "query.ok"
      OBVIOUS
    <3>3. down' = down \/ down' = Append(down, f)
      BY <1>4 DEF Flush
    <3>4. UNCHANGED table
      BY <2>1 DEF dbVars
    <3> HIDE DEF f
    <3>5. CASE down' = down
      BY <2>1, <3>5 DEF LinkFits, dbVars, clientVars
    <3>6. CASE down' = Append(down, f)
      <4>1. /\ down' \in Seq(Frames)
            /\ \A i \in DOMAIN down' :
                 down'[i].op = "query.ok" => down'[i].reply.rows \subseteq table'
        BY <3>1, <3>2, <3>4, <3>6, AppendFits
      <4> QED BY <2>1, <4>1 DEF LinkFits, dbVars, clientVars
    <3> QED BY <3>3, <3>5, <3>6
  <2> QED BY <2>1, <2>5, <2>6, ScopesIdle DEF dbVars, clientVars
<1>5. ASSUME RefreshEnds PROVE IInv'
  <2>1. ServerFits'
    BY <1>5 DEF RefreshEnds, ServerFits, dbVars, listenerVars
  <2> QED BY <1>5, <2>1, TableGrows DEF RefreshEnds, dbVars
<1> QED BY <1>1, <1>2, <1>3, <1>4, <1>5
LEMMA SocketKeeps ==
    ASSUME IInv, Connect \/ Drop \/ ReadHello \/ AnswerHello
    PROVE  IInv'
<1> USE DEF IInv
<1>0. UNCHANGED <<dbVars, listenerVars, mvVars, clientVars>>
  BY DEF Connect, Drop, ReadHello, AnswerHello
<1>1. ServerFits' /\ ScopesFit' /\ UNCHANGED <<table, faults>>
  BY <1>0, ServerIdle, ScopesIdle DEF dbVars, clientVars
<1>2. CASE Connect
  BY <1>1, <1>2 DEF Connect, LinkFits
<1>3. CASE Drop
  <2>1. down' \in Seq(Frames) /\ DOMAIN down' = {}
    BY <1>3 DEF Drop
  <2>2. drops' \in 0..MaxDrops
    BY <1>3 DEF Drop, LinkFits
  <2>3. link' = "down" /\ hello' = NoHello /\ serving' = {}
    BY <1>3 DEF Drop
  <2> QED BY <1>1, <2>1, <2>2, <2>3 DEF LinkFits
<1>4. CASE ReadHello
  <2>1. Highest(table) \in Revs /\ 0 \in Revs
    BY HighestType DEF ServerFits, Revs
  <2> QED BY <1>1, <1>4, <2>1 DEF ReadHello, LinkFits
<1>5. CASE AnswerHello
  <2> DEFINE f == [op |-> "hello.ok", max |-> hello]
  <2>1. f \in Frames
    BY <1>5 DEF AnswerHello, LinkFits, Frames, NoHello, Received
  <2>2. f.op # "query.ok"
    OBVIOUS
  <2>3. down' = Append(down, f) /\ UNCHANGED table
    BY <1>1, <1>5 DEF AnswerHello
  <2> HIDE DEF f
  <2>4. /\ down' \in Seq(Frames)
        /\ \A i \in DOMAIN down' : down'[i].op = "query.ok" => down'[i].reply.rows \subseteq table'
    BY <2>1, <2>2, <2>3, AppendFits
  <2>5. hello' = NoHello /\ UNCHANGED <<link, serving, drops>>
    BY <1>5 DEF AnswerHello
  <2> QED BY <1>1, <2>4, <2>5 DEF LinkFits
<1> QED BY <1>1, <1>2, <1>3, <1>4, <1>5

LEMMA QueryKeeps ==
    ASSUME IInv, NEW q \in serving,
           QueryRows(q) \/ QueryMax(q) \/ QueryAnswer(q) \/ QueryFails(q)
    PROVE  IInv'
<1> USE DEF IInv
<1>0. /\ UNCHANGED <<dbVars, listenerVars, mvVars>>
      /\ UNCHANGED <<table, scopes, have, link, hello, drops>>
  BY DEF QueryRows, QueryMax, QueryAnswer, QueryFails, dbVars, clientVars
<1>1. ServerFits' /\ ScopesFit'
  BY <1>0, ServerIdle, ScopesIdle
<1>2. q \in Queries /\ q.rows \subseteq table
  BY DEF LinkFits
<1>3. table \subseteq Rows /\ mv \subseteq table
  BY DEF ServerFits
<1>4. CASE QueryRows(q)
  <2> DEFINE rows == IF q.scope = "chat" THEN {r \in table : r.file = Chat} ELSE mv
             n == [q EXCEPT !.stage = "max", !.rows = rows]
  <2>1. rows \subseteq table
    BY <1>3
  <2>2. n \in Queries /\ n.rows \subseteq table
    <3> HIDE DEF rows
    <3> QED BY <1>2, <1>3, <2>1 DEF Queries
  <2>3. serving' = (serving \ {q}) \cup {n} /\ UNCHANGED <<down, faults>>
    BY <1>4 DEF QueryRows, clientVars
  <2> HIDE DEF n
  <2> QED BY <1>0, <1>1, <2>2, <2>3 DEF LinkFits
<1>5. CASE QueryMax(q)
  <2> DEFINE n == [q EXCEPT !.stage = "answer", !.max = Highest(table)]
  <2>1. Highest(table) \in Revs
    BY <1>3, HighestType
  <2>2. n \in Queries /\ n.rows \subseteq table
    BY <1>2, <2>1 DEF Queries
  <2>3. serving' = (serving \ {q}) \cup {n} /\ UNCHANGED <<down, faults>>
    BY <1>5 DEF QueryMax, clientVars
  <2> HIDE DEF n
  <2> QED BY <1>0, <1>1, <2>2, <2>3 DEF LinkFits
<1>6. CASE QueryAnswer(q)
  <2> DEFINE f == [op |-> "query.ok", scope |-> q.scope, attempt |-> q.attempt,
                   reply |-> [max |-> q.max, rows |-> q.rows]]
  <2>1. f \in Frames /\ f.reply.rows \subseteq table
    <3>1. q.scope \in Scopes /\ q.attempt \in Nat /\ q.max \in Revs /\ q.rows \in SUBSET Rows
      BY <1>2 DEF Queries
    <3> QED BY <1>2, <3>1 DEF Frames, Replies
  <2>2. down' = Append(down, f) /\ serving' = serving \ {q} /\ UNCHANGED faults
    BY <1>6 DEF QueryAnswer, clientVars
  <2> HIDE DEF f
  <2>3. /\ down' \in Seq(Frames)
        /\ \A i \in DOMAIN down' : down'[i].op = "query.ok" => down'[i].reply.rows \subseteq table'
    BY <1>0, <2>1, <2>2, AppendFits
  <2> QED BY <1>0, <1>1, <2>2, <2>3 DEF LinkFits
<1>7. CASE QueryFails(q)
  <2> DEFINE f == [op |-> "query.err", scope |-> q.scope, attempt |-> q.attempt]
  <2>1. f \in Frames /\ f.op # "query.ok"
    BY <1>2 DEF Frames, Queries
  <2>2. down' = Append(down, f) /\ serving' = serving \ {q}
    BY <1>7 DEF QueryFails
  <2>3. faults' \in 0..MaxFaults
    BY <1>7 DEF QueryFails, LinkFits
  <2> HIDE DEF f
  <2>4. /\ down' \in Seq(Frames)
        /\ \A i \in DOMAIN down' : down'[i].op = "query.ok" => down'[i].reply.rows \subseteq table'
    BY <1>0, <2>1, <2>2, AppendFits
  <2> QED BY <1>0, <1>1, <2>2, <2>3, <2>4 DEF LinkFits
<1> QED BY <1>4, <1>5, <1>6, <1>7

LEMMA ReceiveKeeps == IInv /\ Receive => IInv'
<1> SUFFICES ASSUME IInv, Receive PROVE IInv'
  OBVIOUS
<1> USE DEF IInv
<1> DEFINE f == Head(down)
<1>1. /\ UNCHANGED <<dbVars, listenerVars, mvVars>>
      /\ UNCHANGED <<table, link, hello, drops, have, faults>>
      /\ down # <<>> /\ down' = Tail(down)
  BY DEF Receive, dbVars
<1>2. ServerFits'
  BY <1>1, ServerIdle
<1>3. /\ f \in Frames
      /\ f.op = "query.ok" => f.reply.rows \subseteq table
      /\ down' \in Seq(Frames)
      /\ \A i \in DOMAIN down' : down'[i].op = "query.ok" => down'[i].reply.rows \subseteq table'
  BY <1>1, TailFits
<1>4. SUFFICES ScopesFit' /\ serving' \subseteq Queries
               /\ \A q \in serving' : q.rows \subseteq table'
  BY <1>1, <1>2, <1>3 DEF LinkFits
<1>5. ASSUME UNCHANGED serving
      PROVE  serving' \subseteq Queries /\ \A q \in serving' : q.rows \subseteq table'
  BY <1>1, <1>5 DEF LinkFits
<1> HIDE DEF f
<1>6. CASE f.op = "hello.ok"
  <2> DEFINE new == [s \in Scopes |-> HelloOk(scopes[s], f.max)]
  <2>1. f.max \in Revs
    BY <1>3, <1>6, FrameKinds
  <2>2. \A s \in Scopes : ScopeFits(new[s]) /\ new[s].landing = scopes[s].landing
    BY <2>1, HelloFits DEF ScopesFit
  <2>3. Sends(new)
    BY <1>6 DEF Receive, f
  <2>4. new = [s \in Scopes |-> new[s]]
    OBVIOUS
  <2> HIDE DEF new
  <2> QED BY <1>1, <2>2, <2>3, <2>4, SendsFit
<1>7. CASE f.op = "tick"
  <2> DEFINE new == [s \in Scopes |-> IF Interested(s, f.files)
                                      THEN Tick(scopes[s], f.max) ELSE scopes[s]]
  <2>1. f.max \in Revs
    BY <1>3, <1>7, FrameKinds
  <2>2. ASSUME NEW s \in Scopes
        PROVE  ScopeFits(new[s]) /\ new[s].landing = scopes[s].landing
    <3>1. ScopeFits(scopes[s])
      BY DEF ScopesFit
    <3>2. CASE Interested(s, f.files)
      <4>1. scopes[s].started
        BY <3>2 DEF Interested
      <4> QED BY <2>1, <3>1, <3>2, <4>1, TickFits
    <3>3. CASE ~Interested(s, f.files)
      BY <3>1, <3>3
    <3> QED BY <3>2, <3>3
  <2>3. Sends(new)
    BY <1>7 DEF Receive, f
  <2>4. new = [s \in Scopes |-> new[s]]
    OBVIOUS
  <2> HIDE DEF new
  <2> QED BY <1>1, <2>2, <2>3, <2>4, SendsFit
<1>8. CASE f.op \in {"query.ok", "query.err"} /\ Awaited(f)
  <2>1. UNCHANGED serving
    BY <1>8 DEF Receive, f
  <2>2. f.scope \in Scopes /\ scopes[f.scope].awaiting /\ ScopeFits(scopes[f.scope])
    BY <1>3, <1>8, FrameKinds DEF Awaited, ScopesFit
  <2>3. have' \in [Scopes -> SUBSET table] /\ UNCHANGED table
    BY <1>1 DEF ScopesFit
  <2>4. CASE f.op = "query.ok"
    <3> DEFINE sc == Answered(f.scope, scopes[f.scope], f.reply)
    <3>1. f.reply \in Replies /\ f.reply.rows \subseteq table
      BY <1>3, <2>4, FrameKinds
    <3>2. ScopeFits(sc) /\ sc.landing.rows \subseteq table
      BY <2>2, <3>1, AnswerFits
    <3>3. scopes' = [scopes EXCEPT ![f.scope] = sc]
      BY <1>8, <2>4 DEF Receive, f
    <3> HIDE DEF sc
    <3>4. ScopesFit'
      BY <2>2, <2>3, <3>2, <3>3, OneScopeFits
    <3> QED BY <1>5, <2>1, <3>4
  <2>5. CASE f.op = "query.err"
    <3> DEFINE sc == [scopes[f.scope] EXCEPT !.awaiting = FALSE]
    <3>1. ScopeFits(sc) /\ sc.landing.rows \subseteq table
      BY <2>2, EndFits DEF ScopesFit, ScopeFits, ScopeStates
    <3>2. scopes' = [scopes EXCEPT ![f.scope] = sc]
      BY <1>8, <2>5 DEF Receive, f
    <3> HIDE DEF sc
    <3>3. ScopesFit'
      BY <2>2, <2>3, <3>1, <3>2, OneScopeFits
    <3> QED BY <1>5, <2>1, <3>3
  <2> QED BY <1>8, <2>4, <2>5
<1>9. CASE f.op \in {"query.ok", "query.err"} /\ ~Awaited(f)
  <2>1. UNCHANGED <<scopes, serving>>
    BY <1>9 DEF Receive, f
  <2> QED BY <1>1, <1>5, <2>1, ScopesIdle
<1> QED BY <1>3, <1>6, <1>7, <1>8, <1>9, FrameKinds
LEMMA ScopeKeeps ==
    ASSUME IInv,
           \/ OpenChat
           \/ \E s \in Scopes : Land(s) \/ Rerun(s) \/ Resend(s) \/ AttemptTimesOut(s)
    PROVE  IInv'
<1> USE DEF IInv
<1>0. /\ UNCHANGED <<dbVars, listenerVars, mvVars>>
      /\ UNCHANGED <<table, link, hello, down, drops>>
  BY DEF OpenChat, Land, Rerun, Resend, AttemptTimesOut, dbVars, linkVars
<1>1. ServerFits'
  BY <1>0, ServerIdle
<1>2. \A s \in Scopes : ScopeFits(scopes[s]) /\ scopes[s] \in ScopeStates
  BY DEF ScopesFit, ScopeFits
\* A scope s that becomes sc and sends.
<1>3. ASSUME NEW s \in Scopes, NEW sc, ScopeFits(sc), sc.landing = scopes[s].landing,
             Sends([scopes EXCEPT ![s] = sc]), UNCHANGED <<have, faults>>
      PROVE  IInv'
  <2> DEFINE new == [scopes EXCEPT ![s] = sc]
  <2>1. new = [t \in Scopes |-> new[t]]
    BY DEF ScopesFit
  <2>2. \A t \in Scopes : ScopeFits(new[t]) /\ new[t].landing = scopes[t].landing
    BY <1>2, <1>3 DEF ScopesFit
  <2>3. Sends(new)
    BY <1>3
  <2> HIDE DEF new
  <2>4. /\ ScopesFit'
        /\ serving' \subseteq Queries /\ \A q \in serving' : q.rows \subseteq table'
    BY <1>0, <1>3, <2>1, <2>2, <2>3, SendsFit
  <2> QED BY <1>0, <1>1, <1>3, <2>4 DEF LinkFits
<1>4. ASSUME NEW s \in Scopes, Land(s) PROVE IInv'
  <2> DEFINE sc == Ended(Stored(scopes[s]))
  <2>1. scopes[s].landing # NoReply
    BY <1>4 DEF Land
  <2>2. ScopeFits(sc) /\ sc.landing = NoReply
    BY <1>2, <2>1, EndFits
  <2>3. scopes' = [scopes EXCEPT ![s] = sc]
    BY <1>4 DEF Land
  <2>4. have' \in [Scopes -> SUBSET table]
    BY <1>4 DEF Land, ScopesFit
  <2> HIDE DEF sc
  <2>5. sc.landing.rows \subseteq table
    BY <2>2 DEF NoReply
  <2>6. ScopesFit'
    BY <1>0, <2>2, <2>3, <2>4, <2>5, OneScopeFits
  <2> QED BY <1>1, <1>4, <2>6, LinkIdle DEF Land, dbVars
<1>5. ASSUME NEW s \in Scopes, Rerun(s) PROVE IInv'
  <2>1. scopes[s].started
    BY <1>2, <1>5 DEF Rerun, ScopeFits
  <2> DEFINE sc == [scopes[s] EXCEPT !.rerun = FALSE]
  <2>2. /\ sc \in ScopeStates /\ sc.started /\ sc.landing = scopes[s].landing
        /\ sc.awaiting => sc.inFlight /\ sc.landing = NoReply
        /\ sc.landing # NoReply => sc.inFlight
    BY <1>2, <2>1 DEF ScopeFits, ScopeStates
  <2>3. Sends([scopes EXCEPT ![s] = Run(sc)])
    BY <1>5 DEF Rerun
  <2> HIDE DEF sc
  <2>4. ScopeFits(Run(sc)) /\ Run(sc).landing = scopes[s].landing
    BY <2>2, RunFits
  <2> QED BY <1>3, <1>5, <2>3, <2>4 DEF Rerun
<1>6. ASSUME NEW s \in Scopes, Resend(s) PROVE IInv'
  <2>1. /\ ScopeFits(Send(scopes[s])) /\ Send(scopes[s]).landing = scopes[s].landing
    BY <1>2, <1>6 DEF Resend, Send, ScopeFits, ScopeStates
  <2> QED BY <1>3, <1>6, <2>1 DEF Resend
<1>7. ASSUME NEW s \in Scopes, AttemptTimesOut(s) PROVE IInv'
  <2>1. scopes[s].awaiting
    BY <1>7 DEF AttemptTimesOut
  <2>2. scopes[s].landing.rows \subseteq table /\ have \in [Scopes -> SUBSET table]
    BY DEF ScopesFit
  <2>3. UNCHANGED <<serving, have>> /\ faults' \in 0..MaxFaults
    <3>1. faults \in 0..MaxFaults
      BY DEF LinkFits
    <3> QED BY <1>7, <3>1 DEF AttemptTimesOut, linkVars
  <2>4. CASE scopes' = [scopes EXCEPT ![s].awaiting = FALSE]
    <3> DEFINE sc == [scopes[s] EXCEPT !.awaiting = FALSE]
    <3>1. ScopeFits(sc) /\ sc.landing = scopes[s].landing
      <4>1. sc.landing = scopes[s].landing
        BY <1>2 DEF ScopeStates
      <4> QED BY <1>2, <2>1, <4>1, EndFits
    <3>2. scopes' = [scopes EXCEPT ![s] = sc]
      BY <2>4
    <3> HIDE DEF sc
    <3>3. ScopesFit'
      BY <1>0, <2>2, <2>3, <3>1, <3>2, OneScopeFits
    <3> QED BY <1>0, <1>1, <2>3, <3>3 DEF LinkFits
  <2>5. CASE scopes' = [scopes EXCEPT ![s].awaiting = FALSE, ![s].attempt = @ + 1]
    <3> DEFINE sc == [scopes[s] EXCEPT !.awaiting = FALSE, !.attempt = @ + 1]
    <3>1. ScopeFits(sc) /\ sc.landing = scopes[s].landing
      <4>1. sc.landing = scopes[s].landing
        BY <1>2 DEF ScopeStates
      <4> QED BY <1>2, <2>1, <4>1, EndFits
    <3>2. scopes' = [scopes EXCEPT ![s] = sc]
      BY <1>2, <2>5 DEF ScopesFit, ScopeStates
    <3> HIDE DEF sc
    <3>3. ScopesFit'
      BY <1>0, <2>2, <2>3, <3>1, <3>2, OneScopeFits
    <3> QED BY <1>0, <1>1, <2>3, <3>3 DEF LinkFits
  <2> QED BY <1>7, <2>4, <2>5 DEF AttemptTimesOut
<1>8. ASSUME OpenChat PROVE IInv'
  <2> DEFINE heard == IF "sidebar" \in Scopes THEN scopes["sidebar"].known ELSE 0
             sc == [IdleScope EXCEPT !.started = TRUE, !.known = Most(heard, 1)]
  <2>1. heard \in Revs \cup {1}
    BY <1>2 DEF ScopeStates, Revs
  <2>2. Most(heard, 1) \in Revs \cup {1}
    <3> HIDE DEF heard
    <3> QED BY <2>1, MostType
  <2>3. /\ sc \in ScopeStates /\ sc.started /\ ~sc.awaiting /\ ~sc.inFlight
        /\ sc.landing = NoReply
    <3>1. IdleScope \in ScopeStates
      BY DEF IdleScope, ScopeStates, NoReply, Replies, Revs
    <3>2. PICK n \in Revs \cup {1} : n = Most(heard, 1)
      BY <2>2
    <3>3. sc = [IdleScope EXCEPT !.started = TRUE, !.known = n]
      BY <3>2
    <3>4. [IdleScope EXCEPT !.started = TRUE, !.known = n] \in ScopeStates
      BY <3>1 DEF ScopeStates
    <3> HIDE DEF sc, heard
    <3> QED BY <3>3, <3>4 DEF IdleScope
  <2> HIDE DEF sc
  <2>4. ScopeFits(Run(sc)) /\ Run(sc).landing = NoReply
    BY <2>3, RunFits
  <2>5. scopes["chat"].landing = NoReply
    BY <1>2, <1>8 DEF OpenChat, ScopeFits, ScopesFit
  <2> QED BY <1>3, <1>8, <2>4, <2>5 DEF OpenChat, sc
<1> QED BY <1>4, <1>5, <1>6, <1>7, <1>8

LEMMA Preserved == IInv /\ [Next]_vars => IInv'
<1> SUFFICES ASSUME IInv, [Next]_vars PROVE IInv'
  OBVIOUS
<1>1. CASE WriterStep
  BY <1>1, WriterKeeps
<1>2. CASE ServerStep
  BY <1>2, ListenerKeeps, SocketKeeps, QueryKeeps DEF ServerStep
<1>3. CASE ClientStep
  BY <1>3, SocketKeeps, ReceiveKeeps, ScopeKeeps DEF ClientStep
<1>4. CASE Drop
  BY <1>4, SocketKeeps
<1>5. CASE UNCHANGED vars
  <2>1. /\ UNCHANGED <<dbVars, listenerVars, mvVars>>
        /\ UNCHANGED <<linkVars, table, faults, scopes, have>>
    BY <1>5 DEF vars, dbVars, clientVars
  <2> QED BY <2>1, ServerIdle, LinkIdle, ScopesIdle DEF IInv
<1> QED BY <1>1, <1>2, <1>3, <1>4, <1>5 DEF Next

LEMMA Inductive == Spec => []IInv
BY Initially, Preserved, PTL DEF Spec

----------------------------------------------------------------------------
\* Every variable of the pipeline keeps the shape the code gives it; what the views
\* show, what travels and what a browser has are rows of the table
\* (sync-v3/ws-server.ts, views-store-v4.ts).
THEOREM TypeCorrect == Spec => []TypeOK
<1>1. IInv => TypeOK
  BY Implies
<1> QED BY <1>1, Inductive, PTL

\* However ticks, hellos, late answers, failures, timeouts and lost links are mixed, a
\* scope that does not pull and has no timer to pull is not behind a revision it was
\* told of (pendingRetry, maybeKick and the finally blocks of views-store-v4.ts).
THEOREM RestIsCaughtUp == Spec => []RestsCaughtUp
<1>1. IInv => RestsCaughtUp
  BY Implies
<1> QED BY <1>1, Inductive, PTL

----------------------------------------------------------------------------
(* EventWindow: sets of events *)

\* A set of whole numbers between 1 and n has a least and a greatest element.
LEMMA Ends ==
    ASSUME NEW n \in Nat, NEW S \in SUBSET (1..n), S # {}
    PROVE  /\ Min(S) \in S /\ \A y \in S : Min(S) <= y
           /\ Max(S) \in S /\ \A y \in S : Max(S) >= y
<1> DEFINE From(x) == {k \in S : k <= x}
           To(x) == {k \in S : k >= x}
           from == {From(x) : x \in S}
           to == {To(x) : x \in S}
<1>0. \A x \in S : x \in Int
  OBVIOUS
<1>1. IsFiniteSet(S)
  <2>1. IsFiniteSet(1..n)
    BY FS_Interval
  <2> QED BY <2>1, FS_Subset
<1>2. ASSUME NEW x \in S
      PROVE  From(x) \in FiniteSubsetsOf(S) /\ To(x) \in FiniteSubsetsOf(S)
  <2>1. From(x) \in SUBSET S /\ To(x) \in SUBSET S
    OBVIOUS
  <2> HIDE DEF From, To
  <2> QED BY <1>1, <2>1, FS_Subset DEF FiniteSubsetsOf
<1>3. /\ from \subseteq FiniteSubsetsOf(S) /\ from # {}
      /\ to \subseteq FiniteSubsetsOf(S) /\ to # {}
  <2> HIDE DEF From, To
  <2> QED BY <1>2
<1>4. PICK a \in from : \A b \in from : ~(<<b, a>> \in StrictSubsetOrdering(S))
  <2> HIDE DEF from, to
  <2> QED BY <1>3, FS_StrictSubsetOrderingWellFounded, WFMin
<1>5. PICK c \in to : \A b \in to : ~(<<b, c>> \in StrictSubsetOrdering(S))
  <2> HIDE DEF from, to
  <2> QED BY <1>3, FS_StrictSubsetOrderingWellFounded, WFMin
<1>6. \E x \in S : \A y \in S : x <= y
  <2>1. PICK x \in S : a = From(x)
    BY <1>4
  <2>2. ASSUME NEW y \in S, ~(x <= y) PROVE FALSE
    <3>0. x <= x /\ ~(x <= y) /\ \A k \in S : k <= y => k <= x
      BY <1>0, <2>2
    <3>1. From(y) \subseteq From(x) /\ x \in From(x) /\ x \notin From(y)
      BY <3>0
    <3>2. <<From(y), From(x)>> \in StrictSubsetOrdering(S)
      BY <3>1 DEF StrictSubsetOrdering
    <3> QED BY <1>4, <2>1, <3>2
  <2> QED BY <2>2
<1>7. \E x \in S : \A y \in S : x >= y
  <2>1. PICK x \in S : c = To(x)
    BY <1>5
  <2>2. ASSUME NEW y \in S, ~(x >= y) PROVE FALSE
    <3>0. x >= x /\ ~(x >= y) /\ \A k \in S : k >= y => k >= x
      BY <1>0, <2>2
    <3>1. To(y) \subseteq To(x) /\ x \in To(x) /\ x \notin To(y)
      BY <3>0
    <3>2. <<To(y), To(x)>> \in StrictSubsetOrdering(S)
      BY <3>1 DEF StrictSubsetOrdering
    <3> QED BY <1>5, <2>1, <3>2
  <2> QED BY <2>2
<1> QED BY <1>6, <1>7 DEF Min, Max

\* What is left of a window without holes when one of its ends is cut has none.
LEMMA CutIsWhole ==
    ASSUME NEW n \in Nat, NEW S \in SUBSET (1..n), NEW k \in Nat, Whole(S)
    PROVE  Whole(Greatest(S, k)) /\ Whole(Least(S, k))
<1>0. \A x \in S : x \in Int
  OBVIOUS
<1>1. IsFiniteSet(S)
  <2>1. IsFiniteSet(1..n)
    BY FS_Interval
  <2> QED BY <2>1, FS_Subset
<1>2. ASSUME NEW x \in Greatest(S, k), NEW y \in Greatest(S, k), NEW z \in x..y
      PROVE  z \in Greatest(S, k)
  <2>0. x \in S /\ y \in S
    BY <1>2 DEF Greatest
  <2>1. z \in S /\ {w \in S : w > z} \subseteq {w \in S : w > x}
    <3>1. z \in S
      BY <1>2, <2>0 DEF Whole
    <3>2. x <= z /\ z <= y /\ \A w \in S : w > z => w > x
      BY <1>0, <1>2, <2>0
    <3> QED BY <3>1, <3>2
  <2>2. /\ IsFiniteSet({w \in S : w > x}) /\ IsFiniteSet({w \in S : w > z})
        /\ Cardinality({w \in S : w > z}) <= Cardinality({w \in S : w > x})
        /\ Cardinality({w \in S : w > x}) \in Nat /\ Cardinality({w \in S : w > z}) \in Nat
    <3>1. IsFiniteSet({w \in S : w > x})
      BY <1>1, FS_Subset
    <3> QED BY <2>1, <3>1, FS_Subset, FS_CardinalityType
  <2>3. Cardinality({w \in S : w > x}) < k
    BY <1>2 DEF Greatest
  <2> QED BY <2>1, <2>2, <2>3 DEF Greatest
<1>3. ASSUME NEW x \in Least(S, k), NEW y \in Least(S, k), NEW z \in x..y
      PROVE  z \in Least(S, k)
  <2>0. x \in S /\ y \in S
    BY <1>3 DEF Least
  <2>1. z \in S /\ {w \in S : w < z} \subseteq {w \in S : w < y}
    <3>1. z \in S
      BY <1>3, <2>0 DEF Whole
    <3>2. x <= z /\ z <= y /\ \A w \in S : w < z => w < y
      BY <1>0, <1>3, <2>0
    <3> QED BY <3>1, <3>2
  <2>2. /\ IsFiniteSet({w \in S : w < y}) /\ IsFiniteSet({w \in S : w < z})
        /\ Cardinality({w \in S : w < z}) <= Cardinality({w \in S : w < y})
        /\ Cardinality({w \in S : w < y}) \in Nat /\ Cardinality({w \in S : w < z}) \in Nat
    <3>1. IsFiniteSet({w \in S : w < y})
      BY <1>1, FS_Subset
    <3> QED BY <2>1, <3>1, FS_Subset, FS_CardinalityType
  <2>3. Cardinality({w \in S : w < y}) < k
    BY <1>3 DEF Least
  <2> QED BY <2>1, <2>2, <2>3 DEF Least
<1> QED BY <1>2, <1>3 DEF Whole

\* Two pages that meet make one without holes.
LEMMA MeetIsWhole ==
    ASSUME NEW n \in Nat, NEW A \in SUBSET (1..n), NEW B \in SUBSET (1..n), Whole(A),
           NEW at \in A, Whole(B \cup {at})
    PROVE  Whole(A \cup B)
BY DEF Whole

----------------------------------------------------------------------------
(* The invariant *)

\* A window e shows events there are, when k says how many there are, without a hole
\* that was not noted.
WindowFits(e, k) ==
    /\ e.chat \in Chats /\ e.events \in SUBSET (1..k[e.chat])
    /\ Whole(e.events) \/ e.patched

LoadFits(l, k) == l.on => /\ l.chat \in Chats /\ l.at \in 1..k[l.chat] /\ l.from \in Nat

\* What the server has, what was brought of it, ...
EventsFit ==
    /\ count \in [Chats -> Nat] /\ fed \in [Chats -> Nat]
    /\ DOMAIN cache = Chats /\ \A c \in Chats : cache[c] \in SUBSET (1..count[c])

\* ... what is on its way, ...
RequestsFit ==
    /\ LoadFits(older, count) /\ LoadFits(newer, count)
    /\ DOMAIN refresh = Chats /\ \A c \in Chats : refresh[c].on => refresh[c].from \in Nat
    /\ sync.from \in [Chats -> Nat]

\* ... and what is shown.
PagesFit ==
    /\ EventsFit /\ RequestsFit
    /\ chosen \in Chats /\ active.chat \in Chats
    /\ WindowFits(ev, count)

----------------------------------------------------------------------------
(* The operators *)

LEMMA StateFits ==
    ASSUME EventsFit, NEW c \in Chats, NEW S \in SUBSET (1..count[c]), NEW w, NEW m
    PROVE  WindowFits(EventState(c, S, w, m), count) /\ EventState(c, S, w, m).chat = c
BY DEF EventState, WindowOf, WindowFits

\* A page that is merged into a window leaves one that fits.
LEMMA MergeFits ==
    ASSUME EventsFit, NEW e, WindowFits(e, count), NEW l, NEW S \in SUBSET (1..count[e.chat]),
           NEW more, NEW at \in e.events, at = l.at
    PROVE  /\ WindowFits(Prepended(e, S, more, Patched(e, l, S)), count)
           /\ WindowFits(Appended(e, S, more, Patched(e, l, S)), count)
<1> DEFINE all == e.events \cup S
<1>1. count[e.chat] \in Nat /\ all \in SUBSET (1..count[e.chat]) /\ WindowMax \in Nat
  BY PagesAssumption DEF EventsFit, WindowFits
<1>2. /\ Least(all, WindowMax) \in SUBSET (1..count[e.chat])
      /\ Greatest(all, WindowMax) \in SUBSET (1..count[e.chat])
  BY <1>1 DEF Least, Greatest
<1>3. \/ Patched(e, l, S)
      \/ Whole(Least(all, WindowMax)) /\ Whole(Greatest(all, WindowMax))
  <2>1. SUFFICES ASSUME ~Patched(e, l, S)
                 PROVE  Whole(Least(all, WindowMax)) /\ Whole(Greatest(all, WindowMax))
    OBVIOUS
  <2>2. Whole(e.events) /\ Whole(S \cup {at}) /\ e.events \in SUBSET (1..count[e.chat])
    BY <2>1 DEF Patched, WindowFits
  <2>3. Whole(all)
    BY <1>1, <2>2, MeetIsWhole
  <2> QED BY <1>1, <2>3, CutIsWhole
<1> QED BY <1>2, <1>3 DEF Prepended, Appended, WindowOf, WindowFits

LEMMA PageFits ==
    ASSUME EventsFit, NEW e, WindowFits(e, count), NEW l, NEW more, NEW S,
           e.chat = l.chat => S \in SUBSET (1..count[l.chat])
    PROVE  /\ WindowFits(WithOlder(e, l, S, more), count) /\ WithOlder(e, l, S, more).chat = e.chat
           /\ WindowFits(WithNewer(e, l, S, more), count) /\ WithNewer(e, l, S, more).chat = e.chat
<1>1. count[e.chat] \in Nat /\ e.events \in SUBSET (1..count[e.chat])
  BY DEF EventsFit, WindowFits
<1>2. ASSUME e.events # {} PROVE Min(e.events) \in e.events /\ Max(e.events) \in e.events
  BY <1>1, <1>2, Ends
<1>3. ASSUME NEW w, NEW o, NEW n
      PROVE  /\ WindowFits(WindowOf(e.chat, e.events, w, o, n, e.patched), count)
             /\ WindowOf(e.chat, e.events, w, o, n, e.patched).chat = e.chat
  BY DEF WindowOf, WindowFits
<1>4. /\ WindowFits(WithOlder(e, l, S, more), count)
      /\ WithOlder(e, l, S, more).chat = e.chat
  <2>1. CASE ~StartsAt(e, l)
    BY <2>1 DEF WithOlder
  <2>2. CASE StartsAt(e, l) /\ S = {}
    BY <2>2, <1>3 DEF WithOlder
  <2>3. CASE StartsAt(e, l) /\ S # {}
    <3>1. S \in SUBSET (1..count[e.chat]) /\ l.at \in e.events
      BY <2>3, <1>2 DEF StartsAt
    <3>2. WindowFits(Prepended(e, S, more, Patched(e, l, S)), count)
      BY <3>1, MergeFits
    <3>3. Prepended(e, S, more, Patched(e, l, S)).chat = e.chat
      BY DEF Prepended, WindowOf
    <3> QED BY <2>3, <3>2, <3>3 DEF WithOlder
  <2> QED BY <2>1, <2>2, <2>3
<1>5. /\ WindowFits(WithNewer(e, l, S, more), count)
      /\ WithNewer(e, l, S, more).chat = e.chat
  <2>1. CASE ~EndsAt(e, l)
    BY <2>1 DEF WithNewer
  <2>2. CASE EndsAt(e, l) /\ S = {}
    BY <2>2, <1>3 DEF WithNewer
  <2>3. CASE EndsAt(e, l) /\ S # {}
    <3>1. S \in SUBSET (1..count[e.chat]) /\ l.at \in e.events
      BY <2>3, <1>2 DEF EndsAt
    <3>2. WindowFits(Appended(e, S, more, Patched(e, l, S)), count)
      BY <3>1, MergeFits
    <3>3. Appended(e, S, more, Patched(e, l, S)).chat = e.chat
      BY DEF Appended, WindowOf
    <3> QED BY <2>3, <3>2, <3>3 DEF WithNewer
  <2> QED BY <2>1, <2>2, <2>3
<1> QED BY <1>4, <1>5

LEMMA ShowFits ==
    ASSUME EventsFit, NEW c \in Chats, NEW n, NEW e, WindowFits(e, count), Show(c, n, e)
    PROVE  active'.chat = c /\ WindowFits(ev', count) /\ ev'.chat = c
<1>1. {} \in SUBSET (1..count[c])
  OBVIOUS
<1> QED BY <1>1, StateFits DEF Show

\* What a load asks for, and the cached pages next to the window.
LEMMA LoadsFit ==
    ASSUME PagesFit, Shown
    PROVE  /\ Min(ev.events) \in 1..count[active.chat] /\ Max(ev.events) \in 1..count[active.chat]
           /\ \A by : /\ LoadFits(Load(Min(ev.events), by), count)
                      /\ LoadFits(Load(Max(ev.events), by), count)
<1>1. ev.events \in SUBSET (1..count[active.chat]) /\ ev.events # {}
  BY DEF PagesFit, WindowFits, Shown
<1>2. count[active.chat] \in Nat /\ active.chat \in Chats
  BY DEF PagesFit, EventsFit
<1>3. Min(ev.events) \in ev.events /\ Max(ev.events) \in ev.events
  BY <1>1, <1>2, Ends
<1> QED BY <1>1, <1>2, <1>3 DEF LoadFits, Load

----------------------------------------------------------------------------
(* The steps *)

LEMMA NewEventFits ==
    ASSUME PagesFit, NEW c \in Chats, NewEvent(c) PROVE PagesFit'
<1>1. /\ count' \in [Chats -> Nat]
      /\ \A d \in Chats : count[d] \in Nat /\ count'[d] \in Nat /\ count[d] <= count'[d]
  BY DEF PagesFit, EventsFit, NewEvent
<1>2. \A d \in Chats : 1..count[d] \subseteq 1..count'[d]
  BY <1>1
<1>3. UNCHANGED <<fed, cache, chosen, window, loads, sync>>
  BY DEF NewEvent
<1>4. EventsFit'
  BY <1>1, <1>2, <1>3 DEF PagesFit, EventsFit
<1>5. LoadFits(older, count') /\ LoadFits(newer, count')
  BY <1>2 DEF PagesFit, RequestsFit, LoadFits
<1>6. RequestsFit'
  BY <1>3, <1>5 DEF PagesFit, RequestsFit, loads, LoadFits
<1>7. WindowFits(ev, count')
  BY <1>2 DEF PagesFit, WindowFits
<1> QED BY <1>3, <1>4, <1>6, <1>7 DEF PagesFit, WindowFits, window

\* Steps that leave the server and the requests alone.
LEMMA SameLoads ==
    ASSUME UNCHANGED <<count, older, newer, refresh, sync>>, RequestsFit PROVE RequestsFit'
BY DEF RequestsFit, LoadFits

LEMMA OpenFits ==
    ASSUME PagesFit, NEW c \in Chats, Open(c) PROVE PagesFit'
<1>1. Show(c, list[c], ev) /\ chosen' = c /\ UNCHANGED <<count, fed, cache, loads, sync>>
  BY DEF Open
<1>2. active'.chat = c /\ WindowFits(ev', count)
  BY <1>1, ShowFits DEF PagesFit
<1>3. EventsFit' /\ RequestsFit'
  BY <1>1, SameLoads DEF PagesFit, EventsFit, loads
<1> QED BY <1>1, <1>2, <1>3 DEF PagesFit, WindowFits

LEMMA LoadOlderFits ==
    ASSUME PagesFit, LoadOlder PROVE PagesFit'
<1> DEFINE S == CachedBefore
           l == Load(Min(ev.events), "user")
<1>1. Shown /\ UNCHANGED <<count, fed, cache, chosen, active, newer, refresh, sync>>
  BY DEF LoadOlder, Keep
<1>2. S \in SUBSET (1..count[active.chat]) /\ l.chat = active.chat
  BY DEF CachedBefore, Greatest, PagesFit, EventsFit, Load
<1>3. /\ ev' \in {WithOlder(ev, l, S, Cardinality(S) >= Page), ev}
      /\ older' \in {older, l}
  BY DEF LoadOlder, Keep
<1>4. WindowFits(ev', count)
  <2>1. WindowFits(WithOlder(ev, l, S, Cardinality(S) >= Page), count)
    <3> HIDE DEF S, l
    <3> QED BY <1>2, PageFits DEF PagesFit
  <2> QED BY <1>3, <2>1 DEF PagesFit
<1>5. LoadFits(older', count)
  BY <1>1, <1>3, LoadsFit DEF PagesFit, RequestsFit
<1> QED BY <1>1, <1>4, <1>5 DEF PagesFit, EventsFit, RequestsFit, WindowFits, LoadFits

LEMMA LoadNewerFits ==
    ASSUME PagesFit, LoadNewer PROVE PagesFit'
<1> DEFINE S == CachedAfter(cache)
           l == Load(Max(ev.events), "user")
           lc == Load(Max(ev.events), "cache")
<1>1. Shown /\ UNCHANGED <<count, fed, cache, chosen, active, older, refresh, sync>>
  BY DEF LoadNewer, Keep
<1>2. S \in SUBSET (1..count[active.chat]) /\ lc.chat = active.chat
  BY DEF CachedAfter, Least, PagesFit, EventsFit, Load
<1>3. /\ ev' \in {WithNewer(ev, lc, S, Cardinality(S) >= Page), ev}
      /\ newer' \in {newer, l}
  BY DEF LoadNewer, Keep, Followed
<1>4. WindowFits(ev', count)
  <2>1. WindowFits(WithNewer(ev, lc, S, Cardinality(S) >= Page), count)
    <3> HIDE DEF S, lc
    <3> QED BY <1>2, PageFits DEF PagesFit
  <2> QED BY <1>3, <2>1 DEF PagesFit
<1>5. LoadFits(newer', count)
  BY <1>1, <1>3, LoadsFit DEF PagesFit, RequestsFit
<1> QED BY <1>1, <1>4, <1>5 DEF PagesFit, EventsFit, RequestsFit, WindowFits, LoadFits

\* A page from the server goes into the cache and, if it still meets it, the window.
LEMMA PageArrives ==
    ASSUME PagesFit, NEW c \in Chats, NEW S \in SUBSET (1..count[c]), NEW n, NEW e,
           WindowFits(e, count), Show(c, n, e),
           cache' = [cache EXCEPT ![c] = @ \cup S], UNCHANGED <<count, fed>>
    PROVE  EventsFit' /\ active'.chat = c /\ WindowFits(ev', count')
<1>1. active'.chat = c /\ WindowFits(ev', count)
  BY ShowFits DEF PagesFit
<1> QED BY <1>1 DEF PagesFit, EventsFit

LEMMA IdleIsOff == Idle.on = FALSE
BY DEF Idle

LEMMA OlderArrivesFits ==
    ASSUME PagesFit, OlderArrives PROVE PagesFit'
<1>1. older.chat \in Chats /\ older.at \in 1..count[older.chat] /\ older.from \in Nat
  BY DEF PagesFit, RequestsFit, LoadFits, OlderArrives
<1>2. PICK n \in Answers(older.chat, older.from) :
        /\ Show(older.chat, n, WithOlder(ev, older, BeforePage(older.at).events,
                                         BeforePage(older.at).more))
        /\ cache' = [cache EXCEPT ![older.chat] = @ \cup BeforePage(older.at).events]
  BY DEF OlderArrives
<1>3. older' = Idle /\ UNCHANGED <<count, fed, chosen, newer, refresh, sync>>
  BY DEF OlderArrives
<1> DEFINE S == BeforePage(older.at).events
<1>4. S \in SUBSET (1..count[older.chat])
  <2>1. count[older.chat] \in Nat
    BY <1>1 DEF PagesFit, EventsFit
  <2>2. S = Greatest(1 .. older.at - 1, Page)
    BY DEF BeforePage, PageOf
  <2> QED BY <1>1, <2>1, <2>2 DEF Greatest
<1> HIDE DEF S
<1>5. WindowFits(WithOlder(ev, older, S, BeforePage(older.at).more), count)
  BY <1>4, PageFits DEF PagesFit
<1>6. EventsFit' /\ active'.chat = older.chat /\ WindowFits(ev', count')
  BY <1>1, <1>2, <1>3, <1>4, <1>5, PageArrives DEF S
<1>7. RequestsFit'
  BY <1>3, IdleIsOff DEF PagesFit, RequestsFit, LoadFits
<1> QED BY <1>1, <1>3, <1>6, <1>7 DEF PagesFit, WindowFits

LEMMA NewerArrivesFits ==
    ASSUME PagesFit, NewerArrives PROVE PagesFit'
<1>1. newer.chat \in Chats /\ newer.at \in 1..count[newer.chat] /\ newer.from \in Nat
  BY DEF PagesFit, RequestsFit, LoadFits, NewerArrives
<1>2. PICK n \in Answers(newer.chat, newer.from) :
        /\ Show(newer.chat, n, WithNewer(ev, newer, AfterPage(newer.at, n).events,
                                         AfterPage(newer.at, n).more))
        /\ cache' = [cache EXCEPT ![newer.chat] = @ \cup AfterPage(newer.at, n).events]
  BY DEF NewerArrives
<1>3. newer' = Idle /\ UNCHANGED <<count, fed, chosen, older, refresh, sync>>
  BY DEF NewerArrives
<1> DEFINE S == AfterPage(newer.at, n).events
<1>4. S \in SUBSET (1..count[newer.chat])
  <2>1. count[newer.chat] \in Nat
    BY <1>1 DEF PagesFit, EventsFit
  <2>2. S = Least(newer.at + 1 .. n, Page) /\ n \in newer.from .. count[newer.chat]
    BY <1>2 DEF AfterPage, PageOf, Answers
  <2> QED BY <1>1, <2>1, <2>2 DEF Least
<1> HIDE DEF S
<1>5. WindowFits(WithNewer(ev, newer, S, AfterPage(newer.at, n).more), count)
  BY <1>4, PageFits DEF PagesFit
<1>6. EventsFit' /\ active'.chat = newer.chat /\ WindowFits(ev', count')
  BY <1>1, <1>2, <1>3, <1>4, <1>5, PageArrives DEF S
<1>7. RequestsFit'
  BY <1>3, IdleIsOff DEF PagesFit, RequestsFit, LoadFits
<1> QED BY <1>1, <1>3, <1>6, <1>7 DEF PagesFit, WindowFits

LEMMA LoadFailsFits ==
    ASSUME PagesFit, LoadFails PROVE PagesFit'
<1>1. UNCHANGED <<count, fed, cache, chosen, active, ev, sync>>
  BY DEF LoadFails, window
<1>2. /\ older' \in {older, Idle} /\ newer' \in {newer, Idle}
      /\ DOMAIN refresh' = Chats
      /\ \A c \in Chats : refresh'[c] \in {refresh[c], Idle}
  BY DEF LoadFails, PagesFit, RequestsFit
<1>3. RequestsFit'
  BY <1>1, <1>2, IdleIsOff DEF PagesFit, RequestsFit, LoadFits
<1> QED BY <1>1, <1>3 DEF PagesFit, EventsFit, WindowFits

LEMMA RefreshFits ==
    ASSUME PagesFit, NEW c \in Chats, RefreshArrives(c) PROVE PagesFit'
<1>1. /\ refresh[c].on /\ refresh' = [refresh EXCEPT ![c] = Idle]
      /\ UNCHANGED <<count, fed, chosen, older, newer, sync>>
  BY DEF RefreshArrives
<1>2. RequestsFit'
  BY <1>1, IdleIsOff DEF PagesFit, RequestsFit, LoadFits
<1>3. CASE ~StillOpen(c)
  <2>1. UNCHANGED <<cache, active, ev>>
    BY <1>3 DEF RefreshArrives, Keep
  <2> QED BY <1>1, <1>2, <2>1 DEF PagesFit, EventsFit, WindowFits
<1>4. CASE StillOpen(c)
  <2>1. PICK n, S, w, m :
          /\ n \in Answers(c, refresh[c].from) /\ S \subseteq 1..n
          /\ Show(c, n, EventState(c, S, w, m))
          /\ \/ cache' = [cache EXCEPT ![c] = @ \cup S]
             \/ cache' = [cache EXCEPT ![c] = CacheAfter(c, n)]
    <3>1. PICK n \in Answers(c, refresh[c].from) :
            LET p == IF refresh[c].page THEN RecentPage(n) ELSE PageOf(1 .. n, FALSE)
            IN  /\ Show(c, n, EventState(c, p.events, refresh[c].page, p.more))
                /\ cache' = [cache EXCEPT ![c] = IF refresh[c].page THEN @ \cup p.events
                                                ELSE CacheAfter(c, n)]
      BY <1>4 DEF RefreshArrives
    <3> DEFINE p == IF refresh[c].page THEN RecentPage(n) ELSE PageOf(1 .. n, FALSE)
    <3>2. p.events \in SUBSET (1..n)
      BY DEF RecentPage, PageOf, Greatest
    <3>3. \/ cache' = [cache EXCEPT ![c] = @ \cup p.events]
          \/ cache' = [cache EXCEPT ![c] = CacheAfter(c, n)]
      BY <3>1
    <3>4. Show(c, n, EventState(c, p.events, refresh[c].page, p.more))
      BY <3>1
    <3> HIDE DEF p
    <3> QED BY <3>2, <3>3, <3>4
  <2>2. 1..n \subseteq 1..count[c] /\ S \in SUBSET (1..count[c])
    <3>1. n \in Int /\ n <= count[c] /\ count[c] \in Nat
      <4>1. n \in refresh[c].from .. count[c]
        BY <2>1 DEF Answers
      <4> QED BY <1>1, <4>1 DEF PagesFit, EventsFit, RequestsFit
    <3> QED BY <2>1, <3>1
  <2>3. WindowFits(EventState(c, S, w, m), count)
    BY <2>2, StateFits DEF PagesFit
  <2>4. active'.chat = c /\ WindowFits(ev', count)
    BY <2>1, <2>3, ShowFits DEF PagesFit
  <2>5. EventsFit'
    <3>1. CacheAfter(c, n) \in SUBSET (1..count[c])
      BY <2>2 DEF CacheAfter
    <3>2. \A d \in Chats : cache'[d] \in SUBSET (1..count[d])
      <4>1. /\ DOMAIN cache = Chats /\ \A d \in Chats : cache[d] \in SUBSET (1..count[d])
        BY DEF PagesFit, EventsFit
      <4>2. cache' = [cache EXCEPT ![c] = cache[c] \cup S]
            \/ cache' = [cache EXCEPT ![c] = CacheAfter(c, n)]
        BY <2>1
      <4> QED BY <2>2, <3>1, <4>1, <4>2
    <3> QED BY <1>1, <2>1, <3>2 DEF PagesFit, EventsFit
  <2> QED BY <1>1, <1>2, <2>4, <2>5 DEF PagesFit, WindowFits
<1> QED BY <1>3, <1>4

LEMMA CacheReadFits ==
    ASSUME PagesFit, CacheRead PROVE PagesFit'
<1>1. UNCHANGED <<count, fed, cache, chosen, active, older, newer, sync>>
  BY DEF CacheRead
<1>2. PICK S \in {Greatest(cache[active.chat], Initial), {}} :
        /\ ev' = IF S # {} /\ ~Shown THEN CacheWindow(active.chat, S, active.n) ELSE ev
        /\ refresh' = refresh \/ Refresh(active.chat, active.n, "effect")
  BY DEF CacheRead
<1>3. S \in SUBSET (1..count[active.chat])
  BY DEF Greatest, PagesFit, EventsFit
<1>4. WindowFits(CacheWindow(active.chat, S, active.n), count)
  BY <1>3, StateFits DEF CacheWindow, PagesFit
<1>5. WindowFits(ev', count)
  BY <1>2, <1>4 DEF PagesFit
<1>6. RequestsFit'
  BY <1>1, <1>2 DEF PagesFit, RequestsFit, EventsFit, LoadFits, Refresh
<1> QED BY <1>1, <1>5, <1>6 DEF PagesFit, EventsFit, WindowFits

\* syncNow begins, goes on or ends.
LEMMA SyncFits ==
    ASSUME PagesFit, NEW kind, NEW s, s.from \in [Chats -> Nat]
    PROVE  /\ Called(s, kind).from \in [Chats -> Nat] /\ SyncEnded(s).from \in [Chats -> Nat]
           /\ Await.from \in [Chats -> Nat]
BY PagesAssumption DEF Called, SyncEnded, Await, Begun, NoSync, SyncAt, PagesFit, EventsFit,
   RequestsFit

LEMMA SyncStepsFit ==
    ASSUME PagesFit, UNCHANGED <<count, fed, cache, chosen, window, loads>>,
           sync'.from \in [Chats -> Nat]
    PROVE  PagesFit'
BY DEF PagesFit, EventsFit, RequestsFit, WindowFits, LoadFits, window, loads

LEMMA PullFits ==
    ASSUME PagesFit, PullArrives PROVE PagesFit'
<1>1. PICK m \in [Chats -> UNION {0 .. count[c] : c \in Chats}] :
        /\ \A c \in Chats : m[c] \in Answers(c, sync.from[c])
        /\ list' = Listed(m) /\ (PullMeta(m) \/ PullEvents(m))
  BY DEF PullArrives
<1>2. UNCHANGED <<count, chosen, older>>
  BY DEF PullArrives
<1>3. sync'.from \in [Chats -> Nat]
  <2>1. sync' \in {Await, SyncEnded(sync)}
    BY <1>1 DEF PullMeta, PullEvents
  <2> QED BY <2>1, SyncFits DEF PagesFit, RequestsFit
<1>4. /\ m \in [Chats -> Nat] /\ \A c \in Chats : 1..m[c] \subseteq 1..count[c]
  BY <1>1 DEF Answers, PagesFit, EventsFit, RequestsFit
<1>5. active.chat \in Chats /\ chosen \in Chats /\ WindowFits(ev, count)
  BY DEF PagesFit
<1>6. refresh' = refresh \/ \E n \in Nat : Refresh(active.chat, n, "sync")
  BY <1>1, <1>4, <1>5 DEF PullMeta, PullEvents
<1>7. DOMAIN refresh' = Chats /\ \A c \in Chats : refresh'[c].on => refresh'[c].from \in Nat
  <2>1. CASE refresh' = refresh
    BY <2>1 DEF PagesFit, RequestsFit
  <2>2. ASSUME NEW n \in Nat, Refresh(active.chat, n, "sync")
        PROVE  DOMAIN refresh' = Chats /\ \A c \in Chats : refresh'[c].on => refresh'[c].from \in Nat
    <3>1. count[active.chat] \in Nat
      BY <1>5 DEF PagesFit, EventsFit
    <3> QED BY <1>5, <2>2, <3>1 DEF Refresh, PagesFit, RequestsFit
  <2> QED BY <1>6, <2>1, <2>2
<1>8. CASE PullMeta(m)
  <2>1. UNCHANGED <<fed, cache, newer>>
    BY <1>8 DEF PullMeta
  <2>2. PICK c \in Chats, n \in Nat : Show(c, n, ev)
    BY <1>4, <1>5, <1>8 DEF PullMeta, Routed
  <2>3. active'.chat \in Chats /\ WindowFits(ev', count)
    BY <2>2, <1>5, ShowFits DEF PagesFit
  <2> QED BY <1>2, <1>3, <1>7, <2>1, <2>3 DEF PagesFit, EventsFit, RequestsFit, WindowFits,
            LoadFits
<1>9. CASE PullEvents(m)
  <2>1. fed' = m /\ cache' = [d \in Chats |-> cache[d] \cup (fed[d] + 1 .. m[d])]
    BY <1>9 DEF PullEvents
  <2>2. EventsFit'
    BY <1>2, <1>4, <2>1 DEF PagesFit, EventsFit
  <2> DEFINE S == CachedAfter(cache')
             e == Followed(S)
  <2>3. S \in SUBSET (1..count[active.chat])
    BY <1>2, <1>5, <2>2 DEF CachedAfter, Least, EventsFit
  <2>4. WindowFits(e, count) /\ e.chat = ev.chat
    <3> DEFINE l == Load(Max(ev.events), "cache")
    <3>1. l.chat = active.chat
      BY DEF Load
    <3> HIDE DEF S, l
    <3>2. ev.chat = l.chat => S \in SUBSET (1..count[l.chat])
      BY <2>3, <3>1
    <3>3. EventsFit
      BY DEF PagesFit
    <3>4. /\ WindowFits(WithNewer(ev, l, S, Cardinality(S) >= Page), count)
          /\ WithNewer(ev, l, S, Cardinality(S) >= Page).chat = ev.chat
      BY <1>5, <3>2, <3>3, PageFits
    <3> QED BY <3>4 DEF Followed, l
  <2>5. active'.chat \in Chats /\ WindowFits(ev', count)
    <3> HIDE DEF e
    <3>1. \E f \in {e, ev} : Routed(Listed(m), f) \/ Keep(f)
      BY <1>9 DEF PullEvents, e
    <3>2. PICK f \in {e, ev} : Routed(Listed(m), f) \/ Keep(f)
      BY <3>1
    <3>3. WindowFits(f, count)
      BY <1>5, <2>4
    <3>4. CASE Keep(f)
      BY <1>5, <3>3, <3>4 DEF Keep
    <3>5. CASE Show(chosen, Listed(m)[chosen], f)
      BY <1>5, <3>3, <3>5, ShowFits DEF PagesFit
    <3> QED BY <3>2, <3>4, <3>5 DEF Routed
  <2>6. LoadFits(newer', count)
    <3>1. newer' = newer \/ (Shown /\ newer' = Load(Max(ev.events), "sync"))
      BY <1>9 DEF PullEvents
    <3> QED BY <3>1, LoadsFit DEF PagesFit, RequestsFit
  <2> QED BY <1>2, <1>3, <1>7, <2>2, <2>5, <2>6 DEF PagesFit, RequestsFit, WindowFits, LoadFits
<1> QED BY <1>1, <1>8, <1>9

----------------------------------------------------------------------------
(* The theorems *)

\* Of finitely many chats one has the most events.
LEMMA SomeChatHasMost == \E c \in Chats : \A d \in Chats : Start[c] >= Start[d]
<1> DEFINE Above(c) == {d \in Chats : Start[d] > Start[c]}
           sets == {Above(c) : c \in Chats}
<1>1. ASSUME NEW c \in Chats PROVE Above(c) \in FiniteSubsetsOf(Chats)
  <2>1. Above(c) \in SUBSET Chats
    OBVIOUS
  <2> HIDE DEF Above
  <2> QED BY <2>1, FS_Subset, PagesAssumption DEF FiniteSubsetsOf
<1>2. sets \subseteq FiniteSubsetsOf(Chats) /\ sets # {}
  <2> HIDE DEF Above
  <2> QED BY <1>1, PagesAssumption
<1>3. PICK a \in sets : \A b \in sets : ~(<<b, a>> \in StrictSubsetOrdering(Chats))
  <2> HIDE DEF sets
  <2> QED BY <1>2, FS_StrictSubsetOrderingWellFounded, WFMin
<1>4. PICK c \in Chats : a = Above(c)
  BY <1>3
<1>5. ASSUME NEW d \in Chats, ~(Start[c] >= Start[d]) PROVE FALSE
  <2>1. /\ Start[d] > Start[c] /\ ~(Start[d] > Start[d])
        /\ \A e \in Chats : Start[e] > Start[d] => Start[e] > Start[c]
    BY <1>5, PagesAssumption
  <2>2. Above(d) \subseteq Above(c) /\ d \in Above(c) /\ d \notin Above(d)
    BY <2>1
  <2>3. <<Above(d), Above(c)>> \in StrictSubsetOrdering(Chats)
    BY <2>2 DEF StrictSubsetOrdering
  <2> QED BY <1>3, <1>4, <2>3
<1> QED BY <1>5

LEMMA PageInitFits == PageInit => PagesFit
<1> SUFFICES ASSUME PageInit PROVE PagesFit
  OBVIOUS
<1>1. chosen \in Chats
  BY SomeChatHasMost DEF PageInit
<1>2. count \in [Chats -> Nat] /\ \A c \in Chats : 1..Start[c] \subseteq 1..count[c]
  <2>1. count \in {Start, [Start EXCEPT ![chosen] = Start[chosen] + 1]}
    BY DEF PageInit
  <2>2. /\ count \in [Chats -> Nat]
        /\ \A c \in Chats : Start[c] \in Nat /\ count[c] \in Nat /\ Start[c] <= count[c]
    BY <1>1, <2>1, PagesAssumption
  <2> QED BY <2>2
<1>3. EventsFit
  BY <1>2, PagesAssumption DEF PageInit, EventsFit
<1>4. {} \in SUBSET (1..count[chosen])
  OBVIOUS
<1>5. WindowFits(ev, count)
  BY <1>1, <1>3, <1>4, StateFits DEF PageInit
<1>6. RequestsFit
  BY PagesAssumption, IdleIsOff DEF PageInit, RequestsFit, LoadFits, NoSync, SyncAt
<1> QED BY <1>1, <1>3, <1>5, <1>6 DEF PagesFit, PageInit

LEMMA PageNextFits == PagesFit /\ [PageNext]_pageVars => PagesFit'
<1> SUFFICES ASSUME PagesFit, [PageNext]_pageVars PROVE PagesFit'
  OBVIOUS
<1>1. CASE UNCHANGED pageVars
  BY <1>1 DEF pageVars, window, loads, PagesFit, EventsFit, RequestsFit, WindowFits, LoadFits
<1>2. sync.from \in [Chats -> Nat]
  BY DEF PagesFit, RequestsFit
<1>3. ASSUME PullFails \/ SyncGoesOn \/ Poll \/ Timer \/ Hide \/ Return PROVE PagesFit'
  <2>1. UNCHANGED <<count, fed, cache, chosen, window, loads>>
    BY <1>3 DEF PullFails, SyncGoesOn, Poll, Timer, Hide, Return
  <2>2. \/ sync' \in {sync, SyncEnded(sync)}
        \/ \E k \in {"meta", "event"} : sync' = Called(sync, k)
        \/ sync' = Called(Called(sync, "event"), "meta")
    BY <1>3 DEF PullFails, SyncGoesOn, Poll, Timer, Hide, Return
  <2>3. sync'.from \in [Chats -> Nat]
    BY <1>2, <2>2, SyncFits
  <2> QED BY <2>1, <2>3, SyncStepsFit
<1> QED BY <1>1, <1>3, NewEventFits, OpenFits, RefreshFits, LoadOlderFits, LoadNewerFits,
          LoadFailsFits, OlderArrivesFits, NewerArrivesFits, CacheReadFits, PullFits DEF PageNext

\* Whatever pages arrive when, from the cache or the server, and wherever the window is
\* cut (mergeEventWindow), what is shown has no hole that a cached page did not bring.
THEOREM NoHoles == PageSpec => []WindowWhole
<1>1. PagesFit => WindowWhole
  BY DEF PagesFit, WindowFits, WindowWhole
<1> QED BY <1>1, PageInitFits, PageNextFits, PTL DEF PageSpec

\* The chat that the user chose last stays open whatever answers come late, unless a page
\* of history opened another (loadOlderEventWindow, loadNewerEventWindow).
THEOREM ChosenIsOpen == PageSpec => []ChosenStaysOpen
<1>1. PageInit => ChosenStaysOpen
  BY DEF PageInit, ChosenStaysOpen
<1>2. ChosenStaysOpen /\ [PageNext]_pageVars => ChosenStaysOpen'
  <2> SUFFICES ASSUME ChosenStaysOpen, [PageNext]_pageVars PROVE ChosenStaysOpen'
    OBVIOUS
  <2>1. CASE UNCHANGED <<active, chosen, reopened>>
    BY <2>1 DEF ChosenStaysOpen
  <2>2. ASSUME NEW c \in Chats, Open(c) PROVE ChosenStaysOpen'
    BY <2>2 DEF Open, Show, ChosenStaysOpen
  <2>3. ASSUME NEW c \in Chats, RefreshArrives(c) PROVE ChosenStaysOpen'
    <3>1. UNCHANGED chosen /\ Track(FALSE)
      BY <2>3 DEF RefreshArrives
    <3>2. \/ active' = active
          \/ active.chat = c /\ \E n : active' = [chat |-> c, n |-> n]
      BY <2>3 DEF RefreshArrives, StillOpen, Show, Keep
    <3>3. active'.chat = active.chat
      BY <3>2
    <3> QED BY <3>1, <3>3 DEF Track, ChosenStaysOpen
  <2>4. ASSUME OlderArrives \/ NewerArrives PROVE ChosenStaysOpen'
    BY <2>4 DEF OlderArrives, NewerArrives, Track, ChosenStaysOpen
  <2>5. ASSUME PullArrives PROVE ChosenStaysOpen'
    <3>1. PICK m \in [Chats -> UNION {0 .. count[c] : c \in Chats}] : PullMeta(m) \/ PullEvents(m)
      BY <2>5 DEF PullArrives
    <3>2. active'.chat \in {active.chat, chosen}
      <4>1. CASE PullMeta(m)
        <5>1. \/ active' = [chat |-> chosen, n |-> m[chosen]]
              \/ active' = [chat |-> active.chat, n |-> m[active.chat]]
          BY <4>1 DEF PullMeta, Routed, Show
        <5> QED BY <5>1
      <4>2. CASE PullEvents(m)
        <5>1. \/ active' = active
              \/ active' = [chat |-> chosen, n |-> Listed(m)[chosen]]
          BY <4>2 DEF PullEvents, Routed, Show, Keep
        <5> QED BY <5>1
      <4> QED BY <3>1, <4>1, <4>2
    <3> QED BY <2>5, <3>2 DEF PullArrives, Track, ChosenStaysOpen
  <2>6. ASSUME \/ \E c \in Chats : NewEvent(c)
               \/ LoadOlder \/ LoadNewer \/ LoadFails \/ CacheRead \/ PullFails
               \/ SyncGoesOn \/ Poll \/ Timer \/ Hide \/ Return \/ UNCHANGED pageVars
        PROVE  UNCHANGED <<active, chosen, reopened>>
    BY <2>6 DEF NewEvent, LoadOlder, LoadNewer, LoadFails, CacheRead, PullFails, SyncGoesOn, Poll,
       Timer, Hide, Return, Keep, window, pageVars
  <2> QED BY <2>1, <2>2, <2>3, <2>4, <2>5, <2>6 DEF PageNext
<1> QED BY <1>1, <1>2, PTL DEF PageSpec
=============================================================================

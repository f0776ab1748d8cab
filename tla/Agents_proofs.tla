--------------------------- MODULE Agents_proofs ---------------------------
(***************************************************************************)
(* Proofs about what runs on the host of the chats.  The launcher: no two  *)
(* launchers run agents at once while nobody removes the lock file of a    *)
(* live one, and no release directory holds another version.  The first    *)
(* agent: what its position has passed the server holds word for word, but *)
(* for what it drops: events whose insert failed, and those of a file made *)
(* anew whose numbers an earlier content has taken.                        *)
(***************************************************************************)
EXTENDS Launcher, LegacyAgent, FiniteSetTheorems, WellFoundedInduction, TLAPS

----------------------------------------------------------------------------
(* The launcher *)

\* Places of a launcher that has not made the lock file, or has given it away.
Outside == {"off", "open", "read", "clear", "reopen"}

\* Processes are records.
Processes ==
    /\ DOMAIN proc = Launchers /\ proc = [p \in Launchers |-> proc[p]]
    /\ \A p \in Launchers : {"pc", "once", "child", "stopping"} \subseteq DOMAIN proc[p]

\* Who is past the lock has made the file that is there.
Makers == ~breached => \A p \in Launchers : proc[p].pc \notin Outside => lock.made = p

LauncherInv == Processes /\ breached \in BOOLEAN /\ Makers

\* A step of one launcher changes the process of that one alone.
Changed(p) == \A q \in Launchers : q # p => proc'[q] = proc[q]

LEMMA BecomesFits ==
    ASSUME Processes, NEW p \in Launchers, NEW fields, Become(p, fields)
    PROVE  /\ Processes' /\ Changed(p)
           /\ "pc" \in DOMAIN fields => proc'[p].pc = fields.pc
           /\ "pc" \notin DOMAIN fields => proc'[p].pc = proc[p].pc
BY DEF Processes, Become, Changed

LEMMA GoesFits ==
    ASSUME Processes, NEW p \in Launchers, NEW place, Goto(p, place)
    PROVE  Processes' /\ Changed(p) /\ proc'[p].pc = place
BY BecomesFits DEF Goto

LEMMA EndsFits ==
    ASSUME Processes, NEW p \in Launchers, proc' = [proc EXCEPT ![p] = Ended]
    PROVE  Processes' /\ Changed(p) /\ proc'[p].pc = "off"
BY DEF Processes, Changed, Ended

\* What a step may do to the lock file, and where it then may be: it leaves the file
\* alone and stays on its side, makes it where there was none, or removes it.
LEMMA LockFits ==
    ASSUME LauncherInv, NEW p \in Launchers, Processes', Changed(p), breached' \in BOOLEAN,
           \/ /\ lock'.made = lock.made /\ breached' = breached
              /\ proc[p].pc \in Outside => proc'[p].pc \in Outside
           \/ lock = NoLock /\ lock'.made = p /\ breached' = breached
           \/ Removes(p) /\ proc'[p].pc \in Outside
           \/ lock' = AfterDeath(lock, p) /\ breached' = breached /\ proc'[p].pc \in Outside
    PROVE  LauncherInv'
<1> SUFFICES ASSUME ~breached', NEW q \in Launchers, proc'[q].pc \notin Outside
             PROVE  lock'.made = q
  BY DEF LauncherInv, Makers
<1>1. CASE /\ lock'.made = lock.made /\ breached' = breached
           /\ proc[p].pc \in Outside => proc'[p].pc \in Outside
  BY <1>1 DEF LauncherInv, Makers, Changed
<1>2. CASE lock = NoLock /\ lock'.made = p /\ breached' = breached
  BY <1>2, LauncherAssumption DEF LauncherInv, Makers, Changed, NoLock, None
<1>3. CASE Removes(p) /\ proc'[p].pc \in Outside
  BY <1>3 DEF LauncherInv, Makers, Changed, Removes
<1>4. CASE lock' = AfterDeath(lock, p) /\ breached' = breached /\ proc'[p].pc \in Outside
  BY <1>4 DEF LauncherInv, Makers, Changed, AfterDeath
<1> QED BY <1>1, <1>2, <1>3, <1>4

LEMMA EndedIs ==
    /\ DOMAIN Ended = {"pc", "once", "manifest", "child", "active", "previous", "bad", "stopping"}
    /\ Ended.pc = "off"
BY DEF Ended

LEMMA LauncherInitially == LauncherInit => LauncherInv
<1> SUFFICES ASSUME LauncherInit PROVE LauncherInv
  OBVIOUS
<1>1. Processes
  BY EndedIs DEF LauncherInit, Processes
<1>2. breached \in BOOLEAN /\ Makers
  BY EndedIs DEF LauncherInit, Makers, Outside
<1> QED BY <1>1, <1>2 DEF LauncherInv

LEMMA RefusedFits ==
    ASSUME LauncherInv, NEW p \in Launchers, Refused(p)
    PROVE  LauncherInv'
BY EndsFits, LockFits DEF Refused, LauncherInv, Removes, Outside

LEMMA ThrowsFits ==
    ASSUME LauncherInv, NEW p \in Launchers, Throws(p), proc[p].pc \notin Outside
    PROVE  LauncherInv'
<1>1. CASE proc[p].once
  BY <1>1, EndsFits, LockFits DEF Throws, LauncherInv, Removes, Outside
<1>2. CASE ~proc[p].once
  <2>1. Become(p, [pc |-> "error", child |-> Revived(p)]) /\ UNCHANGED <<lock, breached>>
    BY <1>2 DEF Throws
  <2> QED BY <2>1, BecomesFits, LockFits DEF LauncherInv, Outside
<1> QED BY <1>1, <1>2

LEMMA LauncherKeeps == LauncherInv /\ [LauncherNext]_launcherVars => LauncherInv'
<1> SUFFICES ASSUME LauncherInv, [LauncherNext]_launcherVars PROVE LauncherInv'
  OBVIOUS
<1> USE DEF LauncherInv
<1>1. CASE UNCHANGED launcherVars
  BY <1>1 DEF launcherVars, Processes, Makers
<1>2. CASE BuildFails \/ \E b \in Builds : Deploy(b)
  BY <1>2 DEF BuildFails, Deploy, Processes, Makers
<1>3. ASSUME NEW p \in Launchers,
             LauncherStep(p) \/ Launch(p) \/ FetchFails(p) \/ AgentExits(p)
             \/ TenSeconds(p) \/ Signal(p) \/ Killed(p)
      PROVE  LauncherInv'
  <2>1. CASE Launch(p)
    <3>1. PICK once \in BOOLEAN :
             proc' = [proc EXCEPT ![p] = [Ended EXCEPT !.pc = "open", !.once = once]]
      BY <2>1 DEF Launch
    <3>2. [Ended EXCEPT !.pc = "open", !.once = once].pc = "open"
          /\ DOMAIN [Ended EXCEPT !.pc = "open", !.once = once] = DOMAIN Ended
      BY DEF Ended
    <3>3. Processes' /\ Changed(p) /\ proc'[p].pc = "open"
      BY <3>1, <3>2, EndedIs DEF Processes, Changed
    <3> QED BY <2>1, <3>3, LockFits DEF Launch, Outside
  <2>2. CASE TakeLock(p)
    BY <2>2, GoesFits, LockFits DEF TakeLock, Exclusive
  <2>3. CASE WritePid(p)
    <3>1. lock'.made = lock.made
      BY <2>3 DEF WritePid
    <3> QED BY <2>3, <3>1, GoesFits, LockFits DEF WritePid, At, Outside
  <2>4. CASE Occupied(p)
    BY <2>4, GoesFits, LockFits DEF Occupied, At, Outside
  <2>5. CASE ReadOwner(p)
    <3>1. CASE lock.text = "dead"
      BY <2>5, <3>1, GoesFits, LockFits DEF ReadOwner, At, Outside
    <3>2. CASE lock.text # "dead"
      BY <2>5, <3>2, RefusedFits DEF ReadOwner
    <3> QED BY <3>1, <3>2
  <2>6. CASE ClearStale(p)
    BY <2>6, GoesFits, LockFits DEF ClearStale, Outside, Removes
  <2>7. CASE Beaten(p)
    BY <2>7, RefusedFits DEF Beaten
  <2>8. CASE FetchManifest(p)
    <3>1. CASE server.broken
      BY <2>8, <3>1, ThrowsFits DEF FetchManifest, At, Outside
    <3>2. CASE ~server.broken
      BY <2>8, <3>2, BecomesFits, LockFits DEF FetchManifest, At, Outside
    <3> QED BY <3>1, <3>2
  <2>9. CASE FetchFails(p)
    BY <2>9, ThrowsFits DEF FetchFails, Outside
  <2>10. CASE EnsureRelease(p)
    BY <2>10, GoesFits, LockFits DEF EnsureRelease, At, Outside
  <2>11. CASE Download(p)
    <3>1. CASE server.broken \/ ~Verified(p)
      BY <2>11, <3>1, ThrowsFits DEF Download, At, Outside
    <3>2. CASE ~(server.broken \/ ~Verified(p))
      BY <2>11, <3>2, GoesFits, LockFits DEF Download, At, Outside
    <3> QED BY <3>1, <3>2
  <2>12. CASE Apply(p)
    <3>1. CASE proc[p].once
      BY <2>12, <3>1, EndsFits, LockFits DEF Apply, Outside, Removes
    <3>2. CASE ~proc[p].once
      <4>1. \E fields : Become(p, fields) /\ UNCHANGED <<lock, breached>>
        BY <2>12, <3>2 DEF Apply
      <4>2. Processes' /\ Changed(p)
        BY <4>1, BecomesFits
      <4> QED BY <2>12, <4>1, <4>2, LockFits DEF Apply, At, Outside
    <3> QED BY <3>1, <3>2
  <2>13. CASE Relink(p)
    BY <2>13, BecomesFits, LockFits DEF Relink, At, Outside
  <2>14. CASE ChildExit(p)
    <3>1. \E fields : Become(p, fields) /\ UNCHANGED <<lock, breached>>
      BY <2>14 DEF ChildExit
    <3> QED BY <2>14, <3>1, BecomesFits, LockFits DEF ChildExit, At, Outside
  <2>15. CASE Restart(p)
    BY <2>15, BecomesFits, LockFits DEF Restart, At, Outside
  <2>16. CASE Timer(p)
    BY <2>16, GoesFits, LockFits DEF Timer, At, Outside
  <2>17. CASE AgentExits(p) \/ TenSeconds(p)
    <3>1. Processes' /\ Changed(p) /\ proc'[p].pc = proc[p].pc
      BY <2>17 DEF AgentExits, TenSeconds, Processes, Changed
    <3> QED BY <2>17, <3>1, LockFits DEF AgentExits, TenSeconds
  <2>18. CASE Signal(p)
    BY <2>18, BecomesFits, LockFits DEF Signal
  <2>19. CASE ShutdownEnds(p)
    BY <2>19, EndsFits, LockFits DEF ShutdownEnds, Outside, Removes
  <2>20. CASE Killed(p)
    BY <2>20, EndsFits, LockFits DEF Killed, Outside
  <2> QED BY <1>3, <2>1, <2>2, <2>3, <2>4, <2>5, <2>6, <2>7, <2>8, <2>9, <2>10, <2>11, <2>12,
             <2>13, <2>14, <2>15, <2>16, <2>17, <2>18, <2>19, <2>20 DEF LauncherStep
<1> QED BY <1>1, <1>2, <1>3 DEF LauncherNext

\* OneRunner: launchers that supervise agents at the same time are at most one, for any
\* number of launchers, kills, refusals and take-overs of a dead lock, as long as no
\* launcher has removed the lock file of a live one (acquireLock, releaseLock).
THEOREM RunsAlone == LauncherSpec => []OneRunner
<1>1. LauncherInv => OneRunner
  <2> SUFFICES ASSUME LauncherInv, ~breached
               PROVE  Cardinality({p \in Launchers : InLoop(p)}) <= 1
    BY DEF OneRunner
  <2> DEFINE runners == {p \in Launchers : InLoop(p)}
  <2>1. \A p \in runners : p = lock.made
    BY DEF LauncherInv, Makers, InLoop, Outside
  <2>2. runners \subseteq {lock.made}
    BY <2>1
  <2>3. IsFiniteSet({lock.made}) /\ Cardinality({lock.made}) = 1
    BY FS_Singleton
  <2> HIDE DEF runners
  <2>4. Cardinality(runners) <= 1
    BY <2>2, <2>3, FS_Subset
  <2> QED BY <2>4 DEF runners
<1> QED BY <1>1, LauncherInitially, LauncherKeeps, PTL DEF LauncherSpec

\* NamedRelease, for any builds and any number of deployments between the manifest and
\* the bytes (ensureRelease).
THEOREM HoldsItsVersion == LauncherSpec => []NamedRelease
<1> DEFINE Inv == releases = [v \in Versions |-> releases[v]] /\ NamedRelease
<1>1. LauncherInit => Inv
  BY DEF LauncherInit, NamedRelease
<1>2. ASSUME Inv, [LauncherNext]_launcherVars PROVE Inv'
  <2>1. CASE UNCHANGED releases
    BY <2>1, <1>2 DEF NamedRelease
  <2>2. ASSUME NEW p \in Launchers, EnsureRelease(p) PROVE Inv'
    BY <2>2, <1>2 DEF EnsureRelease, NamedRelease
  <2>3. ASSUME NEW p \in Launchers, Download(p) PROVE Inv'
    BY <2>3, <1>2 DEF Download, Verified, NamedRelease
  <2> QED BY <1>2, <2>1, <2>2, <2>3 DEF LauncherNext, LauncherStep, launcherVars, Deploy,
        BuildFails, Launch, TakeLock, WritePid, Occupied, ReadOwner, ClearStale, Beaten,
        FetchManifest, FetchFails, Apply, Relink, ChildExit, Restart, Timer, AgentExits,
        TenSeconds, Signal, ShutdownEnds, Killed
<1> QED BY <1>1, <1>2, PTL DEF LauncherSpec

----------------------------------------------------------------------------
(* The first agent *)

\* A set of whole numbers between two bounds has a greatest one.
LEMMA Greatest ==
    ASSUME NEW a \in Int, NEW b \in Int, NEW S \in SUBSET (a..b), S # {}
    PROVE  \E n \in S : \A k \in S : k <= n
<1> DEFINE above == {n..b : n \in S}
<1>1. above \subseteq FiniteSubsetsOf(Int) /\ above # {}
  <2>1. \A n \in S : IsFiniteSet(n..b) /\ n..b \subseteq Int
    BY FS_Interval
  <2> QED BY <2>1 DEF FiniteSubsetsOf
<1>2. PICK m \in above : \A c \in above : ~(<<c, m>> \in StrictSubsetOrdering(Int))
  <2> HIDE DEF above
  <2> QED BY <1>1, FS_StrictSubsetOrderingWellFounded, WFMin
<1>3. PICK n \in S : m = n..b
  OBVIOUS
<1>4. ASSUME NEW k \in S, k > n PROVE FALSE
  <2>1. k..b \subseteq n..b /\ n \in n..b /\ n \notin k..b
    BY <1>4
  <2>2. <<k..b, n..b>> \in StrictSubsetOrdering(Int)
    BY <2>1 DEF StrictSubsetOrdering
  <2> QED BY <1>2, <1>3, <2>2
<1> QED BY <1>3, <1>4

\* The first n lines of a file are in such a set as "passed".
Covered(S, f, n) == \A i \in 1..n : i \in Blank \/ \E l : <<f, l>> \in S /\ l[1] = i

\* A line is where PositionNeverAhead wants it.
Kept(f, l) == Stores(f, l) \/ Taken(f, l)

Positions == [PathSet -> Nat \cup {Unknown}]

Numbers ==
    /\ tree = [f \in PathSet |-> tree[f]]
    /\ \A f \in PathSet :
          /\ tree[f] = [content |-> tree[f].content, len |-> tree[f].len, there |-> tree[f].there]
          /\ tree[f].len \in Nat /\ tree[f].content \in Nat
    /\ mem \in Positions /\ saved \in Positions /\ listed \in Positions

Sessions ==
    /\ sessions = [f \in PathSet |-> sessions[f]]
    /\ \A f \in PathSet : sessions[f] = [known |-> sessions[f].known,
                               deleted |-> sessions[f].deleted, lines |-> sessions[f].lines]

\* Lines are numbered, of the content c of their file or of an earlier one.
Upto(c, lines) == \A l \in lines : l = <<l[1], l[2]>> /\ l[2] \in Nat /\ l[2] <= c

\* What was read so far is of no later content than the file has now.
ReadSoFar ==
    \A f \in PathSet :
       /\ Upto(tree[f].content, sessions[f].lines)
       /\ \A r \in wire : r.file = f => Upto(tree[f].content, r.lines)

\* What the agent waits for has the lines of one content, and nothing that the server has or
\* may get is of a later one.
LastRead(c) ==
    /\ c \in Nat /\ c <= tree[post.file].content
    /\ \A l \in post.lines : l = <<l[1], c>>
    /\ Upto(c, sessions[post.file].lines)
    /\ \A r \in wire : r.file = post.file => Upto(c, r.lines)

\* What the request waited for will have covered, and has if it was answered.
PostCovers ==
    post # NoPost /\ post.file \in PathSet =>
        /\ post.upto \in Nat \cup {Unknown}
        /\ \A i \in 1..post.upto :
              \/ i \in Blank
              \/ \E l : <<post.file, l>> \in passed /\ l[1] = i
              \/ \E l \in post.lines : l[1] = i
        /\ answered => \A l \in post.lines : Kept(post.file, l)
        /\ \E c : LastRead(c)

PassedKept ==
    /\ \A p \in passed : p = <<p[1], p[2]>>
    /\ \A f \in PathSet : \A l : <<f, l>> \in passed => Kept(f, l)

LegacyInv ==
    /\ Numbers /\ Sessions /\ ReadSoFar /\ PostCovers /\ PassedKept
    /\ \A f \in PathSet : Covered(passed, f, mem[f]) /\ Covered(passed, f, saved[f])

\* The position of a file that is not known is zero.
LEMMA KnownCovered ==
    ASSUME Numbers, NEW f \in PathSet, Covered(passed, f, mem[f])
    PROVE  Known(f) \in Nat /\ Covered(passed, f, Known(f))
<1>1. CASE mem[f] = Unknown
  <2>1. Known(f) = 0 /\ 1..0 = {}
    BY <1>1 DEF Known
  <2> QED BY <2>1 DEF Covered
<1>2. CASE mem[f] # Unknown
  <2>1. Known(f) = mem[f] /\ mem[f] \in Nat
    BY <1>2 DEF Known, Numbers, Positions
  <2> QED BY <2>1
<1> QED BY <1>1, <1>2

LEMMA LegacyImplies == LegacyInv => PositionNeverAhead
<1> SUFFICES ASSUME LegacyInv, NEW f \in PathSet
             PROVE  /\ \A i \in 1..Known(f) : i \in Blank \/ \E p \in passed : p[1] = f /\ p[2][1] = i
                    /\ \A p \in passed : p[1] = f => Stores(f, p[2]) \/ Taken(f, p[2])
  BY DEF PositionNeverAhead
<1>1. Covered(passed, f, Known(f))
  BY KnownCovered DEF LegacyInv
<1>2. ASSUME NEW i \in 1..Known(f), i \notin Blank
      PROVE  \E p \in passed : p[1] = f /\ p[2][1] = i
  <2>1. PICK l : <<f, l>> \in passed /\ l[1] = i
    BY <1>1, <1>2 DEF Covered
  <2>2. <<f, l>>[1] = f /\ <<f, l>>[2] = l
    OBVIOUS
  <2> QED BY <2>1, <2>2
<1>3. ASSUME NEW p \in passed, p[1] = f PROVE Kept(f, p[2])
  <2>1. <<f, p[2]>> \in passed
    BY <1>3 DEF LegacyInv, PassedKept
  <2> QED BY <2>1 DEF LegacyInv, PassedKept
<1> QED BY <1>2, <1>3 DEF Kept

\* What a request brings is kept, if the server has nothing later under its numbers, and
\* what is kept stays so, whatever it ingests.
LEMMA KeptStay ==
    ASSUME Sessions, ReadSoFar, NEW r \in wire, Ingest(r)
    PROVE  /\ Sessions' /\ ReadSoFar'
           /\ \A f \in PathSet : \A l : Kept(f, l) => Kept(f, l)'
           /\ \A f \in PathSet : \A l \in sessions'[f].lines :
                 l \in sessions[f].lines \/ (r.file = f /\ l \in r.lines)
           /\ \A c \in Nat : r.file \in PathSet /\ Upto(c, sessions[r.file].lines)
                       /\ (\A l \in r.lines : l = <<l[1], c>>)
                       => \A l \in r.lines : Kept(r.file, l)'
<1>1. PICK bad \in {{}} \cup {{l} : l \in r.lines} :
        /\ refusedRows' = refusedRows \cup {<<r.file, l>> : l \in bad}
        /\ sessions' = [sessions EXCEPT ![r.file] =
              [known |-> TRUE, deleted |-> @.deleted \/ r.deleted,
               lines |-> Inserted(@.lines, r.lines \ bad)]]
  BY DEF Ingest
<1>2. Sessions'
  BY <1>1 DEF Sessions
<1>3. \A f \in PathSet : sessions[f].lines \subseteq sessions'[f].lines
  BY <1>1 DEF Sessions, Inserted
<1>4. refusedRows \subseteq refusedRows'
  BY <1>1
<1>5. \A f \in PathSet : \A l : Kept(f, l) => Kept(f, l)'
  BY <1>3, <1>4 DEF Kept, Stores, Taken
<1>6. ASSUME NEW f \in PathSet, NEW l \in sessions'[f].lines
      PROVE  l \in sessions[f].lines \/ (r.file = f /\ l \in r.lines)
  <2>1. CASE r.file = f
    <3>1. sessions'[f].lines = Inserted(sessions[f].lines, r.lines \ bad)
      BY <2>1, <1>1 DEF Sessions
    <3> QED BY <2>1, <3>1 DEF Inserted
  <2>2. CASE r.file # f
    BY <2>2, <1>1 DEF Sessions
  <2> QED BY <2>1, <2>2
<1>7. ReadSoFar'
  <2>4. tree' = tree
    BY DEF Ingest
  <2> SUFFICES ASSUME NEW f \in PathSet
               PROVE  /\ Upto(tree[f].content, sessions'[f].lines)
                      /\ \A q \in wire' : q.file = f => Upto(tree[f].content, q.lines)
    BY <2>4 DEF ReadSoFar, Upto
  <2>1. Upto(tree[f].content, sessions[f].lines)
        /\ \A q \in wire : q.file = f => Upto(tree[f].content, q.lines)
    BY DEF ReadSoFar
  <2>2. wire' \subseteq wire
    BY DEF Ingest
  <2>3. Upto(tree[f].content, sessions'[f].lines)
    BY <1>6, <2>1 DEF Upto
  <2> QED BY <2>1, <2>2, <2>3
<1>8. ASSUME NEW c \in Nat, r.file \in PathSet, Upto(c, sessions[r.file].lines),
             \A l \in r.lines : l = <<l[1], c>>, NEW l \in r.lines
      PROVE  Kept(r.file, l)'
  <2> DEFINE old == sessions[r.file].lines
  <2>1. sessions'[r.file].lines = Inserted(old, r.lines \ bad)
    BY <1>1, <1>8 DEF Sessions
  <2>2. CASE l \in bad
    BY <2>2, <1>1 DEF Kept, Stores
  <2>3. CASE l \notin bad /\ \A k \in old : k[1] # l[1]
    <3>1. l \in sessions'[r.file].lines
      BY <2>1, <2>3 DEF Inserted
    <3> QED BY <3>1 DEF Kept, Stores
  <2>4. CASE \E k \in old : k[1] = l[1]
    <3>1. PICK k \in old : k[1] = l[1]
      BY <2>4
    <3>2. k \in sessions'[r.file].lines
      BY <1>3, <1>8
    <3>3. k = <<k[1], k[2]>> /\ k[2] \in Nat /\ k[2] <= c
      BY <1>8 DEF Upto
    <3>4. l = <<l[1], c>> /\ l[2] = c
      <4>1. l = <<l[1], c>>
        BY <1>8
      <4>2. <<l[1], c>>[2] = c
        OBVIOUS
      <4> QED BY <4>1, <4>2
    <3>5. CASE k[2] = c
      <4>1. k = l
        BY <3>1, <3>3, <3>4, <3>5
      <4> QED BY <3>2, <4>1 DEF Kept, Stores
    <3>6. CASE k[2] # c
      <4>1. k[2] < l[2]
        BY <3>3, <3>4, <3>6, <1>8 DEF Upto
      <4> QED BY <3>1, <3>2, <4>1 DEF Kept, Taken
    <3> QED BY <3>5, <3>6
  <2> QED BY <2>2, <2>3, <2>4
<1> QED BY <1>2, <1>5, <1>6, <1>7, <1>8

LEMMA LegacyInitially == LegacyInit => LegacyInv
<1> SUFFICES ASSUME LegacyInit PROVE LegacyInv
  OBVIOUS
<1>1. Numbers /\ Sessions /\ PostCovers /\ PassedKept
  BY DEF LegacyInit, Numbers, Sessions, PostCovers, PassedKept, Positions
<1>2. ReadSoFar
  BY DEF LegacyInit, ReadSoFar, Upto
<1>3. \A f \in PathSet : Covered(passed, f, mem[f]) /\ Covered(passed, f, saved[f])
  BY DEF LegacyInit, Covered, Unknown
<1> QED BY <1>1, <1>2, <1>3 DEF LegacyInv

\* A step that leaves the server and what was passed alone keeps what is kept.
LEMMA KeptAlone ==
    ASSUME UNCHANGED <<sessions, refusedRows, passed>>
    PROVE  /\ Sessions => Sessions'
           /\ PassedKept => PassedKept'
           /\ \A f, l : Kept(f, l)' = Kept(f, l)
BY DEF Stores, Taken, Kept, Sessions, PassedKept

\* So does one that sends nothing, and leaves the files as they are or makes them anew,
\* with what is known to have been read.
LEMMA ReadStay ==
    ASSUME ReadSoFar, Numbers, UNCHANGED sessions, wire' \subseteq wire,
           \A f \in PathSet : tree'[f].content \in Nat /\ tree[f].content <= tree'[f].content
    PROVE  ReadSoFar'
BY DEF ReadSoFar, Upto, Numbers

\* What a read finds begins where the position is and ends at a whole number.
LEMMA ReadFits ==
    ASSUME Numbers, NEW f \in PathSet
    PROVE  From(f) \in Nat /\ ReadTo(f) \in Nat /\ From(f) <= Known(f)
<1> DEFINE from == From(f)
           fits == {n \in from..listed[f] :
                       /\ n <= from + LinesPerRead /\ n <= tree[f].len
                       /\ \A i \in from + 1..n : i \notin Long}
<1>1. from \in Nat /\ from <= Known(f)
  BY DEF Numbers, Positions, From, Known, Unknown
<1>2. ReadTo(f) = IF fits = {} THEN from ELSE CHOOSE n \in fits : \A k \in fits : k <= n
  BY DEF ReadTo
<1>3. fits \in SUBSET (from..listed[f]) /\ from \in Int /\ listed[f] \in Int
  BY <1>1 DEF Numbers, Positions, Unknown
<1> HIDE DEF from, fits
<1>4. ReadTo(f) \in Nat
  <2>1. CASE fits = {}
    BY <2>1, <1>1, <1>2
  <2>2. CASE fits # {}
    <3>1. \E n \in fits : \A k \in fits : k <= n
      BY <2>2, <1>3, Greatest
    <3>2. ReadTo(f) \in fits
      BY <2>2, <3>1, <1>2
    <3>3. \A n \in from..listed[f] : n \in Nat
      BY <1>1, <1>3
    <3> QED BY <3>2, <3>3, <1>3
  <2> QED BY <2>1, <2>2
<1> QED BY <1>1, <1>4 DEF from

\* What readAppend reads: the lines up to the new position that are not passed yet.
LEMMA ReadAppendFits ==
    ASSUME LegacyInv, ReadAppend
    PROVE  LegacyInv'
<1> USE DEF LegacyInv
<1> DEFINE f == Head(todo)
           upto == ReadTo(f)
           rows == (From(f) + 1..upto) \ Blank
<1>1. UNCHANGED <<tree, saved, listed, sessions, refusedRows, passed>> /\ answered' = FALSE
  BY DEF ReadAppend
<1>2. Sessions' /\ PassedKept'
  BY <1>1, KeptAlone
<1>3. f \in PathSet => \A i \in 1..upto : i \in Blank \/ i \in rows
                                          \/ \E l : <<f, l>> \in passed /\ l[1] = i
  <2> HIDE DEF f, upto
  <2> SUFFICES ASSUME f \in PathSet, NEW i \in 1..upto, i \notin Blank, i \notin rows
               PROVE  \E l : <<f, l>> \in passed /\ l[1] = i
    OBVIOUS
  <2> USE DEF f, upto
  <2>1. From(f) \in Nat /\ upto \in Nat /\ From(f) <= Known(f)
    BY ReadFits
  <2>2. Known(f) \in Nat /\ Covered(passed, f, Known(f))
    BY KnownCovered
  <2>3. i \in 1..Known(f)
    BY <2>1, <2>2
  <2> QED BY <2>2, <2>3 DEF Covered
<1>4. CASE rows = {}
  <2>1. /\ mem' = [mem EXCEPT ![f] =
              IF upto > From(f) \/ listed[f] = From(f) THEN upto ELSE Known(f)]
        /\ UNCHANGED <<post, wire>>
    BY <1>4 DEF ReadAppend
  <2>2. mem' \in Positions
    BY <2>1, ReadFits DEF Numbers, Positions, Known, Unknown
  <2>3. f \in PathSet => Covered(passed, f, upto) /\ Covered(passed, f, Known(f))
    <3>1. f \in PathSet => Covered(passed, f, Known(f))
      BY KnownCovered
    <3>2. f \in PathSet => Covered(passed, f, upto)
      BY <1>3, <1>4 DEF Covered
    <3> QED BY <3>1, <3>2
  <2>4. \A g \in PathSet : Covered(passed, g, mem'[g])
    BY <2>1, <2>3 DEF Numbers, Positions
  <2>5. PostCovers'
    BY <1>1, <2>1, post = NoPost DEF ReadAppend, PostCovers
  <2>6. ReadSoFar'
    BY <1>1, <2>1 DEF ReadSoFar, Upto
  <2>7. Numbers'
    BY <1>1, <2>2 DEF Numbers
  <2>8. \A g \in PathSet : Covered(passed', g, mem'[g]) /\ Covered(passed', g, saved'[g])
    BY <1>1, <2>4
  <2> QED BY <1>2, <2>5, <2>6, <2>7, <2>8
<1>5. CASE rows # {}
  <2>0. PICK c : c = tree[f].content
    OBVIOUS
  <2> DEFINE lines == {<<i, c>> : i \in rows}
  <2>1. /\ post' = [file |-> f, deleted |-> FALSE, upto |-> upto, lines |-> lines]
        /\ wire' = wire \cup {post'} /\ UNCHANGED mem
    BY <1>5, <2>0 DEF ReadAppend
  <2>2. f \in PathSet => upto \in Nat /\ c \in Nat
    BY <2>0, ReadFits DEF Numbers
  <2>3. \A i \in rows : \E l \in lines : l[1] = i
    <3>1. \A i \in rows : <<i, c>> \in lines /\ <<i, c>>[1] = i
      OBVIOUS
    <3> HIDE DEF rows, lines
    <3> QED BY <3>1
  <2>4. \A l \in lines : l = <<l[1], c>> /\ l = <<l[1], l[2]>> /\ l[2] = c
    <3> HIDE DEF rows
    <3> QED OBVIOUS
  <2> HIDE DEF lines
  <2>5. f \in PathSet => Upto(c, lines)
    BY <2>2, <2>4 DEF Upto
  <2>6. ReadSoFar'
    <3> SUFFICES ASSUME NEW g \in PathSet
                 PROVE  /\ Upto(tree[g].content, sessions[g].lines)
                        /\ \A r \in wire' : r.file = g => Upto(tree[g].content, r.lines)
      BY <1>1 DEF ReadSoFar, Upto
    <3>1. /\ Upto(tree[g].content, sessions[g].lines)
          /\ \A r \in wire : r.file = g => Upto(tree[g].content, r.lines)
      BY DEF ReadSoFar
    <3>2. post'.file = g => Upto(tree[g].content, post'.lines)
      <4>1. post'.file = f /\ post'.lines = lines
        BY <2>1
      <4> HIDE DEF f
      <4> QED BY <2>0, <2>5, <4>1
    <3> QED BY <2>1, <3>1, <3>2
  <2>7. PostCovers'
    <3> SUFFICES ASSUME f \in PathSet
                 PROVE  /\ upto \in Nat
                        /\ \A i \in 1..upto : \/ i \in Blank
                                              \/ \E l : <<f, l>> \in passed /\ l[1] = i
                                              \/ \E l \in lines : l[1] = i
                        /\ LastRead(c)'
      <4>1. post'.file = f /\ post'.lines = lines /\ post'.upto = upto
        BY <2>1
      <4> HIDE DEF f, upto, LastRead
      <4> QED BY <1>1, <4>1 DEF PostCovers
    <3>1. post'.file = f /\ post'.lines = lines
      BY <2>1
    <3>2. c <= tree[f].content /\ c \in Nat
      BY <2>0, <2>2
    <3>3. Upto(c, sessions[f].lines) /\ \A r \in wire : r.file = f => Upto(c, r.lines)
      BY <2>0 DEF ReadSoFar
    <3>4. \A r \in wire' : r.file = f => Upto(c, r.lines)
      BY <2>1, <2>5, <3>1, <3>3
    <3>5. LastRead(c)'
      <4> HIDE DEF f
      <4> QED BY <1>1, <2>4, <3>1, <3>2, <3>3, <3>4 DEF LastRead, Upto
    <3> QED BY <1>3, <2>2, <2>3, <3>5
  <2>8. Numbers'
    BY <1>1, <2>1 DEF Numbers
  <2>9. \A g \in PathSet : Covered(passed', g, mem'[g]) /\ Covered(passed', g, saved'[g])
    BY <1>1, <2>1
  <2> QED BY <1>2, <2>6, <2>7, <2>8, <2>9
<1> QED BY <1>4, <1>5

\* A step that waits for nothing, and one that goes on waiting, with nothing sent.
LEMMA WaitStay ==
    ASSUME LegacyInv, UNCHANGED <<tree, sessions, refusedRows, passed>>,
           \/ post' = NoPost /\ wire' \subseteq wire
           \/ UNCHANGED <<post, answered, wire>>
           \/ UNCHANGED post /\ answered' = FALSE /\ wire' = wire \cup {post} /\ post # NoPost
    PROVE  Sessions' /\ ReadSoFar' /\ PostCovers' /\ PassedKept'
<1> USE DEF LegacyInv
<1>1. Sessions' /\ PassedKept'
  BY KeptAlone
<1>2. CASE post' = NoPost /\ wire' \subseteq wire
  BY <1>1, <1>2, ReadStay DEF PostCovers, Numbers
<1>3. CASE UNCHANGED <<post, answered, wire>>
  <2>1. ReadSoFar'
    BY <1>3, ReadStay DEF Numbers
  <2>2. \A c : LastRead(c) => LastRead(c)'
    BY <1>3 DEF LastRead
  <2>3. \A f, l : Kept(f, l)' = Kept(f, l)
    BY KeptAlone
  <2>4. PostCovers'
    BY <1>3, <2>2, <2>3 DEF PostCovers
  <2> QED BY <1>1, <2>1, <2>4
<1>4. CASE UNCHANGED post /\ answered' = FALSE /\ wire' = wire \cup {post} /\ post # NoPost
  <2>1. post.file \in PathSet => \E c : LastRead(c) /\ LastRead(c)' /\ Upto(c, post.lines)
    <3> SUFFICES ASSUME post.file \in PathSet
                 PROVE  \E c : LastRead(c) /\ LastRead(c)' /\ Upto(c, post.lines)
      OBVIOUS
    <3>1. PICK c : LastRead(c)
      BY <1>4 DEF PostCovers
    <3>2. Upto(c, post.lines)
      <4>1. \A l \in post.lines : l = <<l[1], c>> /\ c \in Nat
        BY <3>1 DEF LastRead
      <4> QED BY <4>1 DEF Upto
    <3>3. LastRead(c)'
      BY <1>4, <3>1, <3>2 DEF LastRead, Upto
    <3> QED BY <3>1, <3>2, <3>3
  <2>2. ReadSoFar'
    <3> SUFFICES ASSUME NEW g \in PathSet
                 PROVE  /\ Upto(tree[g].content, sessions[g].lines)
                        /\ \A r \in wire' : r.file = g => Upto(tree[g].content, r.lines)
      BY DEF ReadSoFar, Upto
    <3>1. /\ Upto(tree[g].content, sessions[g].lines)
          /\ \A r \in wire : r.file = g => Upto(tree[g].content, r.lines)
      BY DEF ReadSoFar
    <3>2. post.file = g => Upto(tree[g].content, post.lines)
      <4> SUFFICES ASSUME post.file = g PROVE Upto(tree[g].content, post.lines)
        OBVIOUS
      <4>1. PICK c : LastRead(c) /\ Upto(c, post.lines)
        BY <2>1
      <4>2. c \in Nat /\ c <= tree[g].content /\ tree[g].content \in Nat
        BY <4>1 DEF LastRead, Numbers
      <4> QED BY <4>1, <4>2 DEF Upto
    <3> QED BY <1>4, <3>1, <3>2
  <2>3. PostCovers'
    BY <1>4, <2>1 DEF PostCovers
  <2> QED BY <1>1, <2>2, <2>3
<1> QED BY <1>2, <1>3, <1>4

\* A file changes, and no content of it comes back.
Changes(f, c, n, there) ==
    /\ tree' = [tree EXCEPT ![f] = [content |-> c, len |-> n, there |-> there]]
    /\ tree[f].content <= c /\ UNCHANGED <<mem, saved, listed>>

LEMMA FileFits ==
    ASSUME Numbers, NEW f \in PathSet, NEW c \in Nat, NEW n \in Nat, NEW there,
           Changes(f, c, n, there)
    PROVE  /\ Numbers'
           /\ \A g \in PathSet : tree'[g].content \in Nat /\ tree[g].content <= tree'[g].content
<1> DEFINE t == [content |-> c, len |-> n, there |-> there]
<1>1. t = [content |-> t.content, len |-> t.len, there |-> t.there] /\ t.content = c /\ t.len = n
  OBVIOUS
<1> HIDE DEF t
<1>2. /\ tree' = [g \in PathSet |-> tree'[g]] /\ tree'[f] = t
      /\ \A g \in PathSet : g # f => tree'[g] = tree[g]
  BY DEF Changes, Numbers, t
<1>3. ASSUME NEW g \in PathSet
      PROVE  /\ tree'[g] = [content |-> tree'[g].content, len |-> tree'[g].len,
                            there |-> tree'[g].there]
             /\ tree'[g].len \in Nat /\ tree'[g].content \in Nat
             /\ tree[g].content <= tree'[g].content
  <2>1. CASE g = f
    BY <1>1, <1>2, <2>1 DEF Changes
  <2>2. CASE g # f
    BY <1>2, <2>2 DEF Numbers
  <2> QED BY <2>1, <2>2
<1> QED BY <1>2, <1>3 DEF Numbers, Changes

LEMMA LegacyKeeps == LegacyInv /\ [LegacyNext]_legacyVars => LegacyInv'
<1> SUFFICES ASSUME LegacyInv, [LegacyNext]_legacyVars PROVE LegacyInv'
  OBVIOUS
<1> USE DEF LegacyInv
<1>1. CASE UNCHANGED legacyVars
  <2>1. UNCHANGED <<tree, mem, saved, listed, post, answered, wire, sessions, refusedRows, passed>>
    BY <1>1 DEF legacyVars, scanState
  <2>2. Sessions' /\ ReadSoFar' /\ PostCovers' /\ PassedKept'
    BY <2>1, WaitStay
  <2> QED BY <2>1, <2>2 DEF Numbers
<1>2. ASSUME NEW f \in PathSet, Grow(f) \/ Write(f) \/ Remove(f) PROVE LegacyInv'
  <2>1. UNCHANGED <<mem, saved, listed, post, answered, wire, sessions, refusedRows, passed>>
    BY <1>2 DEF Grow, Write, Remove, scanState
  <2>2. Numbers' /\ \A g \in PathSet : tree'[g].content \in Nat
                                       /\ tree[g].content <= tree'[g].content
    <3>1. CASE Grow(f)
      <4> DEFINE c == tree[f].content
                 n == tree[f].len
                 there == tree[f].there
      <4>1. tree[f] = [content |-> c, len |-> n, there |-> there] /\ c \in Nat /\ n + 1 \in Nat
        BY DEF Numbers
      <4> HIDE DEF c, n, there
      <4>2. [tree[f] EXCEPT !.len = @ + 1] = [content |-> c, len |-> n + 1, there |-> there]
            /\ tree[f].content = c
        BY <4>1
      <4>3. tree' = [tree EXCEPT ![f] = [content |-> c, len |-> n + 1, there |-> there]]
        <5>1. tree' = [tree EXCEPT ![f] = [tree[f] EXCEPT !.len = @ + 1]]
          BY <3>1, Zenon DEF Grow
        <5> HIDE DEF Numbers
        <5> QED BY <4>2, <5>1, Zenon
      <4>4. Changes(f, c, n + 1, there)
        BY <2>1, <4>1, <4>2, <4>3 DEF Changes
      <4> QED BY <4>1, <4>4, FileFits
    <3>2. CASE Write(f)
      <4>1. PICK n \in 0..MaxPathLines[f] :
              tree' = [tree EXCEPT ![f] = [content |-> @.content + 1, len |-> n, there |-> TRUE]]
        BY <3>2 DEF Write
      <4>2. n \in Nat
        BY <4>1, LegacyAssumption DEF PathSet
      <4>3. tree[f].content \in Nat /\ tree[f].content + 1 \in Nat
        BY DEF Numbers
      <4>4. Changes(f, tree[f].content + 1, n, TRUE)
        BY <2>1, <4>1, <4>3 DEF Changes, Numbers
      <4> QED BY <4>2, <4>3, <4>4, FileFits
    <3>3. CASE Remove(f)
      <4>1. tree[f].content \in Nat /\ 0 \in Nat
        BY DEF Numbers
      <4>2. Changes(f, tree[f].content, 0, FALSE)
        BY <2>1, <3>3, <4>1 DEF Remove, Changes, Numbers
      <4> QED BY <4>1, <4>2, FileFits
    <3> QED BY <1>2, <3>1, <3>2, <3>3
  <2>3. /\ Sessions' /\ PassedKept'
        /\ \A g \in PathSet : Covered(passed', g, mem'[g]) /\ Covered(passed', g, saved'[g])
    BY <2>1, KeptAlone
  <2>4. ReadSoFar'
    BY <2>1, <2>2, ReadStay
  <2>5. PostCovers'
    <3>1. post.file \in PathSet => \A c : LastRead(c) => LastRead(c)'
      BY <2>1, <2>2 DEF LastRead, Upto, Numbers
    <3> QED BY <2>1, <3>1, KeptAlone DEF PostCovers
  <2> QED BY <2>2, <2>3, <2>4, <2>5
<1>3. CASE ListFiles \/ ReadThrows
  <2>1. UNCHANGED <<tree, mem, saved, post, answered, wire, sessions, refusedRows, passed>>
    BY <1>3 DEF ListFiles, ReadThrows
  <2>2. listed' \in Positions
    BY <1>3 DEF ListFiles, ReadThrows, Positions, Numbers
  <2>3. Sessions' /\ ReadSoFar' /\ PostCovers' /\ PassedKept'
    BY <2>1, WaitStay
  <2> QED BY <2>1, <2>2, <2>3 DEF Numbers
<1>4. CASE ReadAppend
  BY <1>4, ReadAppendFits
<1>5. CASE FilesRead \/ SavePositions
  <2>1. UNCHANGED <<tree, mem, listed, post, answered, wire, sessions, refusedRows, passed>>
        /\ saved' \in {saved, mem}
    BY <1>5 DEF FilesRead, SavePositions
  <2>2. Sessions' /\ ReadSoFar' /\ PostCovers' /\ PassedKept'
    BY <2>1, WaitStay
  <2> QED BY <2>1, <2>2 DEF Numbers
<1>6. CASE ReportDeleted
  <2>1. /\ UNCHANGED <<tree, mem, saved, listed, sessions, refusedRows, passed>>
        /\ post' = [file |-> Head(todo), deleted |-> TRUE, upto |-> Unknown, lines |-> {}]
        /\ wire' = wire \cup {post'} /\ answered' = FALSE
    BY <1>6 DEF ReportDeleted
  <2>0. PICK g : g = Head(todo)
    OBVIOUS
  <2>2. post'.file = g /\ post'.upto = Unknown /\ post'.lines = {}
    BY <2>0, <2>1
  <2>3. ReadSoFar'
    BY <2>1, <2>2 DEF ReadSoFar, Upto
  <2>4. g \in PathSet => \E c : LastRead(c)'
    <3> SUFFICES ASSUME g \in PathSet PROVE \E c : LastRead(c)'
      OBVIOUS
    <3>1. PICK c : c = tree[g].content
      OBVIOUS
    <3>2. c \in Nat /\ c <= c
      BY <3>1 DEF Numbers
    <3>3. Upto(c, sessions[g].lines) /\ Upto(c, {})
          /\ \A r \in wire : r.file = g => Upto(c, r.lines)
      BY <3>1 DEF ReadSoFar, Upto
    <3>4. \A r \in wire' : r.file = g => Upto(c, r.lines)
      BY <2>1, <2>2, <3>3
    <3>5. LastRead(c)'
      BY <2>1, <2>2, <3>1, <3>2, <3>3, <3>4 DEF LastRead
    <3> QED BY <3>5
  <2>5. PostCovers'
    BY <2>1, <2>2, <2>4 DEF PostCovers, Unknown
  <2>6. /\ Sessions' /\ PassedKept'
        /\ \A h \in PathSet : Covered(passed', h, mem'[h]) /\ Covered(passed', h, saved'[h])
    BY <2>1, KeptAlone
  <2> QED BY <2>1, <2>3, <2>5, <2>6 DEF Numbers
<1>7. CASE PostOk
  <2>1. /\ UNCHANGED <<tree, saved, listed, wire, sessions, refusedRows>>
        /\ post # NoPost /\ answered /\ post' = NoPost
        /\ mem' = [mem EXCEPT ![post.file] = post.upto]
        /\ passed' = passed \cup {<<post.file, l>> : l \in post.lines}
    BY <1>7 DEF PostOk
  <2>2. mem' \in Positions
    BY <2>1 DEF Numbers, Positions, PostCovers
  <2>3. \A f \in PathSet : \A n : Covered(passed, f, n) => Covered(passed', f, n)
    BY <2>1 DEF Covered
  <2>4. post.file \in PathSet => Covered(passed', post.file, post.upto)
    <3> SUFFICES ASSUME post.file \in PathSet, NEW i \in 1..post.upto, i \notin Blank
                 PROVE  \E l : <<post.file, l>> \in passed' /\ l[1] = i
      BY DEF Covered
    <3> QED BY <2>1 DEF PostCovers
  <2>5. \A g \in PathSet : Covered(passed', g, mem'[g]) /\ Covered(passed', g, saved'[g])
    <3>1. ASSUME NEW g \in PathSet PROVE Covered(passed', g, mem'[g]) /\ Covered(passed', g, saved'[g])
      <4>1. CASE g = post.file
        <5>1. mem'[g] = post.upto
          BY <2>1, <4>1 DEF Numbers, Positions
        <5> QED BY <2>1, <2>3, <2>4, <4>1, <5>1
      <4>2. CASE g # post.file
        <5>1. mem'[g] = mem[g]
          BY <2>1, <4>2 DEF Numbers, Positions
        <5> QED BY <2>1, <2>3, <5>1
      <4> QED BY <4>1, <4>2
    <3> QED BY <3>1
  <2>6. PassedKept'
    <3>1. \A p \in passed' : p = <<p[1], p[2]>>
      BY <2>1 DEF PassedKept
    <3>2. ASSUME NEW f \in PathSet, NEW l, <<f, l>> \in passed' PROVE Kept(f, l)
      <4>1. CASE <<f, l>> \in passed
        BY <4>1 DEF PassedKept
      <4>2. CASE \E m \in post.lines : <<f, l>> = <<post.file, m>>
        BY <2>1, <4>2 DEF PostCovers
      <4> QED BY <2>1, <3>2, <4>1, <4>2
    <3>3. \A f, l : Kept(f, l)' = Kept(f, l)
      BY <2>1 DEF Kept, Stores, Taken
    <3> QED BY <3>1, <3>2, <3>3 DEF PassedKept
  <2>7. ReadSoFar' /\ Sessions'
    BY <2>1 DEF ReadSoFar, Upto, Sessions
  <2> QED BY <2>1, <2>2, <2>5, <2>6, <2>7 DEF Numbers, PostCovers
<1>8. CASE PostAgain
  <2>1. /\ UNCHANGED <<tree, mem, saved, listed, post, sessions, refusedRows, passed>>
        /\ answered' = FALSE /\ wire' = wire \cup {post} /\ post # NoPost
    BY <1>8 DEF PostAgain
  <2>2. Sessions' /\ ReadSoFar' /\ PostCovers' /\ PassedKept'
    BY <2>1, WaitStay
  <2> QED BY <2>1, <2>2 DEF Numbers
<1>9. CASE PostFails \/ AgentDies
  <2>1. /\ UNCHANGED <<tree, saved, listed, sessions, refusedRows, passed>> /\ post' = NoPost
        /\ mem' \in {mem, saved} /\ wire' \subseteq wire
    BY <1>9 DEF PostFails, AgentDies, AsBefore
  <2>2. Sessions' /\ ReadSoFar' /\ PostCovers' /\ PassedKept'
    BY <2>1, WaitStay
  <2> QED BY <2>1, <2>2 DEF Numbers
<1>10. ASSUME NEW r \in wire, Ingest(r) PROVE LegacyInv'
  <2>1. /\ UNCHANGED <<tree, mem, saved, listed, post, passed>>
        /\ answered' = (answered \/ r = post) /\ wire' = wire \ {r}
    BY <1>10 DEF Ingest
  <2>2. Numbers' /\ \A g \in PathSet : Covered(passed', g, mem'[g]) /\ Covered(passed', g, saved'[g])
    BY <2>1 DEF Numbers
  <2>3. Sessions' /\ ReadSoFar'
    BY <1>10, KeptStay
  <2>4. \A f \in PathSet : \A l : Kept(f, l) => Kept(f, l)'
    BY <1>10, KeptStay
  <2>5. PassedKept'
    BY <2>1, <2>4 DEF PassedKept
  <2>6. PostCovers'
    <3> SUFFICES ASSUME post # NoPost, post.file \in PathSet
                 PROVE  /\ answered' => \A l \in post.lines : Kept(post.file, l)'
                        /\ \E c : LastRead(c)'
      BY <2>1 DEF PostCovers
    <3>1. PICK c : LastRead(c)
      BY DEF PostCovers
    <3>2. c \in Nat /\ Upto(c, sessions[post.file].lines)
      BY <3>1 DEF LastRead
    <3>3. \A l \in sessions'[post.file].lines :
            l \in sessions[post.file].lines \/ (r.file = post.file /\ l \in r.lines)
      BY <1>10, KeptStay
    <3>4. LastRead(c)'
      BY <2>1, <3>1, <3>3 DEF LastRead, Upto
    <3>5. r = post => \A l \in post.lines : Kept(post.file, l)'
      <4> SUFFICES ASSUME r = post PROVE \A l \in r.lines : Kept(r.file, l)'
        BY <2>1
      <4>1. \A l \in r.lines : l = <<l[1], c>>
        BY <3>1 DEF LastRead
      <4>2. r.file \in PathSet /\ Upto(c, sessions[r.file].lines)
        BY <3>2
      <4>3. \A d \in Nat : r.file \in PathSet /\ Upto(d, sessions[r.file].lines)
                       /\ (\A l \in r.lines : l = <<l[1], d>>)
                       => \A l \in r.lines : Kept(r.file, l)'
        BY <1>10, KeptStay
      <4>4. c \in Nat
        BY <3>2
      <4> HIDE DEF Upto, LastRead
      <4> QED BY <4>1, <4>2, <4>3, <4>4, Zenon
    <3>6. answered => \A l \in post.lines : Kept(post.file, l)'
      <4>1. answered => \A l \in post.lines : Kept(post.file, l)
        BY DEF PostCovers
      <4> QED BY <2>1, <2>4, <4>1
    <3> QED BY <2>1, <3>4, <3>5, <3>6
  <2> QED BY <2>2, <2>3, <2>5, <2>6
<1> QED BY <1>1, <1>2, <1>3, <1>4, <1>5, <1>6, <1>7, <1>8, <1>9, <1>10
     DEF LegacyNext, AgentWorks

\* PositionNeverAhead, for any files, through lost answers, requests made again, refused
\* rows, truncations, files made anew and crashes (scanAndFlush, ingestBatch).
THEOREM NothingSkipped == LegacySpec => []PositionNeverAhead
BY LegacyInitially, LegacyKeeps, LegacyImplies, PTL DEF LegacySpec
=============================================================================

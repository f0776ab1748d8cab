------------------------------ MODULE Launcher ------------------------------
(***************************************************************************)
(* The self-updating launcher of the agent (apps/agent/clo.ts) and the     *)
(* part of the server that publishes releases to it                        *)
(* (apps/backend/clo-bootstrap.ts).                                        *)
(*                                                                         *)
(* Launchers of one home directory share the lock file, the releases and   *)
(* the link "current".  "clo run" polls the manifest, installs the release *)
(* it names, points the link at it and keeps an agent running from the     *)
(* link; "clo update-once" installs and ends.  An agent that exits in its  *)
(* first ten seconds after an update is rolled back, and its version is    *)
(* not tried again by this process.                                        *)
(*                                                                         *)
(* Abstractions.  A build stands for its bytes and their sha256; two       *)
(* builds may carry one version, as when GIT_SHA is unset ("dev").  A pid  *)
(* is its process; it becomes "dead" when that process ends and is not     *)
(* reused.  What happens to the files of migrateOldState is left out.      *)
(***************************************************************************)
EXTENDS Integers, FiniteSets

CONSTANTS
    Builds,          \* [v |-> version, n |-> which bytes, works |-> BOOLEAN]
    Launchers,       \* "svc", restarted by systemd, and others started by hand
    MaxDeploys,      \* bound: deployments of the server
    MaxHands,        \* bound: commands started by hand
    MaxUpdateMishaps \* bound: failed requests and builds, agents that crash or
                     \* are told to stop, launchers killed or stopped

ASSUME LauncherAssumption ==
    "svc" \in Launchers /\ "none" \notin Launchers /\ Builds # {}

VARIABLES
    server,      \* what is deployed, and whether its cached build failed
    releases,    \* version -> build in releases/<version>, or NoBuild
    link,        \* version the link "current" points at
    lock,        \* runner.lock: which process made the file, and its text
    proc,        \* launcher -> its process
    breached,    \* a live process lost its lock file to another one
    deploys, hands, updateMishaps

launcherVars ==
    <<server, releases, link, lock, proc, breached, deploys, hands, updateMishaps>>

None == "none"
Versions == {b.v : b \in Builds}
NoBuild == [v |-> None, n |-> 0, works |-> FALSE]
NoChild == [build |-> NoBuild, state |-> "none", young |-> FALSE]
NoLock == [made |-> None, text |-> None]
Ended == [pc |-> "off", once |-> FALSE, manifest |-> NoBuild, child |-> NoChild,
          active |-> None, previous |-> None, bad |-> {}, stopping |-> FALSE]

UpdateMishap == updateMishaps < MaxUpdateMishaps /\ updateMishaps' = updateMishaps + 1

LauncherInit ==
    /\ server \in [build : Builds, broken : BOOLEAN]
    /\ releases = [v \in Versions |-> NoBuild]
    /\ link = None
    /\ lock = NoLock
    /\ proc = [p \in Launchers |-> Ended]
    /\ breached = FALSE
    /\ deploys = 0 /\ hands = 0 /\ updateMishaps = 0

At(p, place) == proc[p].pc = place
Become(p, fields) ==
    proc' = [proc EXCEPT ![p] =
                [f \in DOMAIN @ |-> IF f \in DOMAIN fields THEN fields[f] ELSE @[f]]]
Goto(p, place) == Become(p, [pc |-> place])

----------------------------------------------------------------------------
(* The server *)

\* The artifacts are cached per process: a deployment builds anew.
Deploy(b) ==
    /\ deploys < MaxDeploys
    /\ deploys' = deploys + 1
    /\ server' = [build |-> b, broken |-> FALSE]
    /\ UNCHANGED <<releases, link, lock, proc, breached, hands, updateMishaps>>

\* A build that fails leaves a rejected promise in the cache.
BuildFails ==
    /\ ~server.broken
    /\ UpdateMishap
    /\ server' = [server EXCEPT !.broken = TRUE]
    /\ UNCHANGED <<releases, link, lock, proc, breached, deploys, hands>>

----------------------------------------------------------------------------
(* The lock file *)

Launch(p) ==
    /\ At(p, "off")
    /\ \E once \in IF p = "svc" THEN {FALSE} ELSE BOOLEAN :
          proc' = [proc EXCEPT ![p] = [Ended EXCEPT !.pc = "open", !.once = once]]
    /\ hands' = IF p = "svc" THEN hands ELSE hands + 1
    /\ p # "svc" => hands < MaxHands
    /\ UNCHANGED <<server, releases, link, lock, breached, deploys, updateMishaps>>

\* Without the flag "x" the file is opened and truncated.
NotExclusive == TRUE

\* open(LOCK_PATH, "wx") succeeds only where there is no file.
Exclusive == lock = NoLock

TakeLock(p) ==
    /\ \/ At(p, "open") \/ At(p, "reopen")
    /\ Exclusive
    /\ lock' = [made |-> p, text |-> "blank"]
    /\ Goto(p, "write")
    /\ UNCHANGED <<server, releases, link, breached, deploys, hands, updateMishaps>>

\* Through the handle: the text goes to the file this process made.
WritePid(p) ==
    /\ At(p, "write")
    /\ lock' = IF lock.made = p THEN [lock EXCEPT !.text = p] ELSE lock
    /\ Goto(p, "fetch")
    /\ UNCHANGED <<server, releases, link, breached, deploys, hands, updateMishaps>>

\* The process ends: a pid it wrote is now that of a dead process.
AfterDeath(l, p) ==
    [made |-> IF l.made = p THEN "gone" ELSE l.made,
     text |-> IF l.text = p THEN "dead" ELSE l.text]

\* releaseLock removes the file whoever made it.
Removes(p) ==
    /\ lock' = NoLock
    /\ breached' = (breached \/ lock.made \in Launchers \ {p})

\* acquireLock throws: "run" ends with an error, "update-once" still runs its
\* finally block.
Refused(p) ==
    /\ proc' = [proc EXCEPT ![p] = Ended]
    /\ IF proc[p].once THEN Removes(p) ELSE UNCHANGED <<lock, breached>>

Occupied(p) ==
    /\ At(p, "open")
    /\ ~Exclusive
    /\ Goto(p, "read")
    /\ UNCHANGED <<server, releases, link, lock, breached, deploys, hands,
                   updateMishaps>>

\* An empty file reads as pid 0, which always counts as alive.
ReadOwner(p) ==
    /\ At(p, "read")
    /\ IF lock.text = "dead"
       THEN Goto(p, "clear") /\ UNCHANGED <<lock, breached>>
       ELSE Refused(p)
    /\ UNCHANGED <<server, releases, link, deploys, hands, updateMishaps>>

ClearStale(p) ==
    /\ At(p, "clear")
    /\ Removes(p)
    /\ Goto(p, "reopen")
    /\ UNCHANGED <<server, releases, link, deploys, hands, updateMishaps>>

Beaten(p) ==
    /\ At(p, "reopen")
    /\ ~Exclusive
    /\ Refused(p)
    /\ UNCHANGED <<server, releases, link, deploys, hands, updateMishaps>>

----------------------------------------------------------------------------
(* Installing a release *)

\* An exception in the loop: an agent is started when there is no child.
Spawned(v) ==
    [build |-> IF v = None THEN NoBuild ELSE releases[v],
     state |-> "up", young |-> TRUE]
Revived(p) ==
    IF proc[p].child.state = "none" /\ proc[p].active # None
    THEN Spawned(link) ELSE proc[p].child

Throws(p) ==
    IF proc[p].once
    THEN proc' = [proc EXCEPT ![p] = Ended] /\ Removes(p)
    ELSE Become(p, [pc |-> "error", child |-> Revived(p)]) /\ UNCHANGED <<lock, breached>>

Supervising(p) == ~proc[p].once /\ ~proc[p].stopping

FetchManifest(p) ==
    /\ At(p, "fetch")
    /\ IF server.broken
       THEN Throws(p)
       ELSE /\ Become(p, [pc |-> IF server.build.v \in proc[p].bad THEN "nap"
                                 ELSE "ensure",
                          manifest |-> server.build])
            /\ UNCHANGED <<lock, breached>>
    /\ UNCHANGED <<server, releases, link, deploys, hands, updateMishaps>>

FetchFails(p) ==
    /\ proc[p].pc \in {"fetch", "download"}
    /\ UpdateMishap
    /\ Throws(p)
    /\ UNCHANGED <<server, releases, link, deploys, hands>>

\* ensureRelease: the bytes on disk are the manifest's, or are removed.
EnsureRelease(p) ==
    LET m == proc[p].manifest
        whole == releases[m.v] = m IN
    /\ At(p, "ensure")
    /\ Goto(p, IF whole THEN "apply" ELSE "download")
    /\ releases' = IF whole THEN releases ELSE [releases EXCEPT ![m.v] = NoBuild]
    /\ UNCHANGED <<server, link, lock, breached, deploys, hands, updateMishaps>>

\* The sha256 of the bytes that came is the manifest's.
Verified(p) == server.build = proc[p].manifest

\* The bundle's address names no version: it serves what is deployed now.
Download(p) ==
    /\ At(p, "download")
    /\ IF server.broken \/ ~Verified(p)
       THEN Throws(p) /\ UNCHANGED releases
       ELSE /\ releases' = [releases EXCEPT ![proc[p].manifest.v] = server.build]
            /\ Goto(p, "apply")
            /\ UNCHANGED <<lock, breached>>
    /\ UNCHANGED <<server, link, deploys, hands, updateMishaps>>

----------------------------------------------------------------------------
(* Keeping the agent running *)

\* update-once ends with the link; run replaces the agent of another version.
Apply(p) ==
    LET v == proc[p].manifest.v IN
    /\ At(p, "apply")
    /\ IF proc[p].once
       THEN /\ link' = v
            /\ proc' = [proc EXCEPT ![p] = Ended]
            /\ Removes(p)
       ELSE /\ IF proc[p].active # v
               THEN Become(p, [pc |-> "relink", previous |-> proc[p].active,
                               child |-> NoChild])
               ELSE Become(p, [pc |-> "race",
                               child |-> IF proc[p].child.state = "none"
                                         THEN Spawned(link) ELSE proc[p].child])
            /\ UNCHANGED <<link, lock, breached>>
    /\ UNCHANGED <<server, releases, deploys, hands, updateMishaps>>

\* switchToVersion, its child being stopped: link, activeVersion, new agent.
\* After a roll-back the loop fetches the manifest again.
Relink(p) ==
    LET v == IF proc[p].manifest.v \in proc[p].bad THEN proc[p].previous
             ELSE proc[p].manifest.v IN
    /\ At(p, "relink")
    /\ link' = v
    /\ Become(p, [pc |-> IF proc[p].manifest.v \in proc[p].bad THEN "fetch" ELSE "race",
                  active |-> v, child |-> Spawned(v)])
    /\ UNCHANGED <<server, releases, lock, breached, deploys, hands, updateMishaps>>

\* Rolls back with nothing to go back to.
RollsBackAlways(p) == proc[p].child.young

\* An exit in the first ten seconds condemns the version when there is another
\* to go back to.
RollsBack(p) ==
    /\ proc[p].child.young
    /\ proc[p].previous # None
    /\ proc[p].previous # proc[p].active

\* raceChildOrTimer answers "child-exit", handleChildExit.
ChildExit(p) ==
    /\ At(p, "race")
    /\ proc[p].child.state = "exited"
    /\ Supervising(p)
    /\ IF RollsBack(p)
       THEN Become(p, [pc |-> "relink", bad |-> proc[p].bad \cup {proc[p].active},
                       child |-> NoChild])
       ELSE Become(p, [pc |-> "pause", child |-> NoChild])
    /\ UNCHANGED <<server, releases, link, lock, breached, deploys, hands,
                   updateMishaps>>

\* The two seconds before a restart.
Restart(p) ==
    /\ At(p, "pause")
    /\ Become(p, [pc |-> "fetch", child |-> Spawned(link)])
    /\ UNCHANGED <<server, releases, link, lock, breached, deploys, hands,
                   updateMishaps>>

\* A timer ends: of the race, of an error, or the wait under a bad version.
Timer(p) ==
    /\ proc[p].pc \in {"race", "error", "nap"}
    /\ At(p, "race") => proc[p].child.state # "exited"
    /\ Supervising(p)
    /\ Goto(p, "fetch")
    /\ UNCHANGED <<server, releases, link, lock, breached, deploys, hands,
                   updateMishaps>>

----------------------------------------------------------------------------
(* Agents and launchers that end *)

AgentExits(p) ==
    /\ proc[p].child.state = "up"
    /\ IF proc[p].child.build.works THEN UpdateMishap ELSE UNCHANGED updateMishaps
    /\ proc' = [proc EXCEPT ![p].child.state = "exited"]
    /\ UNCHANGED <<server, releases, link, lock, breached, deploys, hands>>

TenSeconds(p) ==
    /\ proc[p].child.young
    /\ proc[p].child.build.works
    /\ proc' = [proc EXCEPT ![p].child.young = FALSE]
    /\ UNCHANGED <<server, releases, link, lock, breached, deploys, hands,
                   updateMishaps>>

\* SIGTERM: shutdown takes the child; the loop goes on until the process ends.
Signal(p) ==
    /\ proc[p].pc \notin {"off", "open", "write", "read", "clear", "reopen"}
    /\ Supervising(p)
    /\ UpdateMishap
    /\ Become(p, [stopping |-> TRUE, child |-> NoChild])
    /\ UNCHANGED <<server, releases, link, lock, breached, deploys, hands>>

ShutdownEnds(p) ==
    /\ proc[p].stopping
    /\ proc' = [proc EXCEPT ![p] = Ended]
    /\ Removes(p)
    /\ UNCHANGED <<server, releases, link, deploys, hands, updateMishaps>>

Killed(p) ==
    /\ ~At(p, "off")
    /\ UpdateMishap
    /\ proc' = [proc EXCEPT ![p] = Ended]
    /\ lock' = AfterDeath(lock, p)
    /\ UNCHANGED <<server, releases, link, breached, deploys, hands>>

LauncherStep(p) ==
    \/ TakeLock(p) \/ WritePid(p) \/ Occupied(p) \/ ReadOwner(p) \/ ClearStale(p)
    \/ Beaten(p) \/ FetchManifest(p) \/ EnsureRelease(p) \/ Download(p) \/ Apply(p)
    \/ Relink(p) \/ ChildExit(p) \/ Restart(p) \/ Timer(p) \/ ShutdownEnds(p)

LauncherNext ==
    \/ \E b \in Builds : Deploy(b)
    \/ BuildFails
    \/ \E p \in Launchers :
          LauncherStep(p) \/ Launch(p) \/ FetchFails(p) \/ AgentExits(p)
          \/ TenSeconds(p) \/ Signal(p) \/ Killed(p)

\* Timers, answers and file operations come; systemd restarts its service; an
\* agent that does not work exits.
LauncherFairness ==
    /\ WF_launcherVars(Launch("svc"))
    /\ \A p \in Launchers :
          /\ WF_launcherVars(LauncherStep(p))
          /\ WF_launcherVars(AgentExits(p) /\ updateMishaps' = updateMishaps)

LauncherSpec == LauncherInit /\ [][LauncherNext]_launcherVars /\ LauncherFairness

----------------------------------------------------------------------------
InLoop(p) ==
    /\ ~proc[p].once
    /\ proc[p].pc \notin {"off", "open", "write", "read", "clear", "reopen"}

\* The lock keeps two launchers from running agents at once, also when a killed
\* one left its file behind - as long as none removed the file of a live one,
\* which update-once does when it is refused, and two that take over the same
\* dead lock may (acquireLock, releaseLock).
OneRunner == ~breached => Cardinality({p \in Launchers : InLoop(p)}) <= 1

\* A release directory never holds the bytes of another version, though the
\* bundle is served by whatever is deployed when it is asked for (ensureRelease).
NamedRelease == \A v \in Versions : releases[v] # NoBuild => releases[v].v = v

\* A lock file whose maker died before writing its pid is never taken over.
Wedged == lock = [made |-> "gone", text |-> "blank"]

Serves(p) ==
    \/ proc[p].child.state = "up" /\ proc[p].child.build.v = server.build.v
    \/ server.build.v \in proc[p].bad /\ proc[p].active \in Versions \ {server.build.v}

\* Once deployments stop, an agent of the deployed version is left running, or the
\* version before it is put back if it was condemned - unless the build fails, the
\* deployed version does not work, the lock is wedged, or two launchers turn one
\* link to and fro (run).
ServedRuns ==
    <>[](\/ server.broken
         \/ ~server.build.works
         \/ Wedged
         \/ breached
         \/ \E p \in Launchers : Serves(p))
=============================================================================

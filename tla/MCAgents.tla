------------------------------ MODULE MCAgents ------------------------------
(* What runs on the host of the chats, for TLC: the agent that follows a file *)
(* which is rotated, the launcher that keeps an agent running, and the first  *)
(* agent.  They share no state; a behaviour is one of the three, the others   *)
(* stay at their initial state.                                               *)
EXTENDS AgentSync, Launcher, LegacyAgent

CONSTANT f1  \* the file that is rotated

VARIABLE part  \* "sync", "launcher" or "legacy"

\* A version that works, one that does not, and its repair under the same name.
First == [v |-> "1", n |-> 1, works |-> TRUE]
MCBuilds == {
    First, [v |-> "2", n |-> 1, works |-> FALSE], [v |-> "2", n |-> 2, works |-> TRUE]}

\* A file with a blank line and one that is too long, made anew once; and one that a
\* scan comes to after it.
MCPaths == <<"x", "y">>
MCPathLines == [x |-> 3, y |-> 1]
MCContents == [x |-> 2, y |-> 1]

Syncing == part = "sync"
Launching == part = "launcher"
Following == part = "legacy"

MCInit ==
    /\ Init /\ LauncherInit /\ LegacyInit
    /\ part \in {"sync", "launcher", "legacy"}
    /\ server = [build |-> First, broken |-> ~Launching]

MCNext ==
    /\ \/ Syncing /\ Next /\ UNCHANGED <<launcherVars, legacyVars>>
       \/ Launching /\ LauncherNext /\ UNCHANGED <<vars, legacyVars>>
       \/ Following /\ LegacyNext /\ UNCHANGED <<vars, launcherVars>>
    /\ UNCHANGED part

\* Fairness, LauncherFairness and LegacyFairness, each in its own part.
MCFairness ==
    /\ SF_vars(Syncing /\ GoodScan)
    /\ WF_vars(Syncing /\ AgentStep /\ pc # "idle")
    /\ WF_vars(Syncing /\ ServerStep)
    /\ WF_launcherVars(Launching /\ Launch("svc"))
    /\ \A p \in Launchers :
         /\ WF_launcherVars(Launching /\ LauncherStep(p))
         /\ WF_launcherVars(Launching /\ AgentExits(p) /\ updateMishaps' = updateMishaps)
    /\ WF_legacyVars(Following /\ AgentWorks)
    /\ WF_legacyVars(Following /\ \E r \in wire : Ingest(r))

MCSpec ==
    /\ MCInit /\ [][MCNext]_<<vars, launcherVars, legacyVars, part>>
    /\ MCFairness
=============================================================================

------------------------------- MODULE MCChat -------------------------------
(* What a page shows and what it reports, for TLC: the window of the open    *)
(* chat, the list on the screen that shows one, and the logs of the page.  A *)
(* behaviour is one of the three, the others stay at their initial state.    *)
EXTENDS MCChatWindow, MCChatView, ClientLogs

VARIABLES
    part,   \* "window", "view" or "logs"
    open    \* the tabs that log: two without mishaps, or one with all of them

MCInit ==
    /\ Init /\ LogsInit /\ ViewInit
    /\ part \in {"window", "view", "logs"}
    /\ part # "view" => Items(list) = {}
    /\ \/ part # "logs" /\ open = {} /\ logged = 0 /\ logMishaps = 0
       \/ part = "logs" /\ open = Tabs /\ logged = 1 /\ logMishaps = MaxMishaps
       \/ part = "logs" /\ open = {"t"} /\ logged = 0 /\ logMishaps = 0

MCNext ==
    /\ \/ part = "window" /\ Next /\ UNCHANGED <<viewVars, logVars>>
       \/ part = "view" /\ ViewNext /\ UNCHANGED <<vars, logVars>>
       \/ part = "logs" /\ LogsStep(open) /\ UNCHANGED <<vars, viewVars>>
    /\ UNCHANGED <<part, open>>

\* Fairness, and what the property needs of LogsFairness, each in its own part.
Window == part = "window"
Logs == part = "logs"
MCFairness ==
    /\ WF_vars(Window /\ PullStep) /\ WF_vars(Window /\ StrayStep) /\ WF_vars(Window /\ Rerun)
    /\ WF_vars(Window /\ OlderStep) /\ WF_vars(Window /\ (ReadTail \/ ShowTail))
    /\ WF_vars(Window /\ \E files \in SUBSET untold : Tick(files))
    /\ WF_logVars(Logs /\ ~reachable /\ Network)
    /\ WF_logVars(Logs /\ \E t \in open : Reenabled(t))
    /\ WF_logVars(Logs /\ \E t \in open : Deletes(t))
    /\ WF_logVars(Logs /\ \E t \in open : MemorySent(t, TRUE))
    /\ WF_logVars(Logs /\ \E t \in open : QueueSent(t, TRUE))
    /\ WF_logVars(Logs /\ \E t \in open : \E a \in adding[t] : Adds(t, a))
    /\ \A t \in Tabs :
        /\ WF_logVars(Logs /\ t \in open /\ FlushCalled(t))
        /\ WF_logVars(Logs /\ t \in open /\ Loads(t))

MCSpec == MCInit /\ [][MCNext]_<<vars, viewVars, logVars, part, open>> /\ MCFairness
=============================================================================

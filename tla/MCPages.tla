------------------------------- MODULE MCPages -------------------------------
(* The open chat of the two pages, for TLC: the scope of frontend-v3 that    *)
(* ticks keep up to date (main is the chat that is open), and the window of  *)
(* frontend, which stream and poll keep up to date.  A behaviour is one of   *)
(* the two, the other stays at its initial state.                            *)
EXTENDS TickPull, EventWindow

CONSTANTS main, other

VARIABLE part   \* "ticks" or "window"

\* Three events in a chat that is read by pages, one in a chat that is read whole.
MCStart == [c \in Chats |-> IF c = main THEN 3 ELSE 1]

MCInit ==
    /\ Init /\ PageInit
    /\ part \in {"ticks", "window"}
    /\ hidden = (part = "ticks")
    /\ hidden => count = Start /\ cache = [c \in Chats |-> {}]

Ticks == part = "ticks" /\ UNCHANGED <<pageVars, part>>
Win == part = "window" /\ UNCHANGED <<vars, part>>

MCNext == (Ticks /\ Next) \/ (Win /\ PageNext)

\* What the two pages need of Fairness and PageFairness.  Of two actions that belong to
\* different parts only one is ever enabled, so one condition covers both.
all == <<vars, pageVars, part>>
MCFairness ==
    /\ WF_all(\/ Ticks /\ (ReadHello \/ AnswerHello)
              \/ Win /\ (Poll \/ PullArrives \/ SyncGoesOn))
    /\ WF_all(\/ Ticks /\ \E q \in serving : QueryRows(q) \/ QueryMax(q) \/ QueryAnswer(q)
              \/ Win /\ CacheRead)
    /\ WF_all(\/ Ticks /\ (Connect \/ Receive)
              \/ Win /\ \E c \in Chats : RefreshArrives(c))
    /\ WF_all(\/ Ticks /\ \E s \in Scopes : Land(s) \/ Resend(s)
              \/ Win /\ OlderArrives)
    /\ WF_all(\/ Ticks /\ \E s \in Scopes : Rerun(s)
              \/ Win /\ NewerArrives)
    /\ WF_all(Ticks /\ \E s \in Scopes : AttemptTimesOut(s))

MCSpec == MCInit /\ [][MCNext]_all /\ MCFairness
==============================================================================

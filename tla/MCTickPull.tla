----------------------------- MODULE MCTickPull -----------------------------
\* TickPull for TLC with the sidebar alone: main is the one chat, and the rows of it come
\* from another process.
EXTENDS TickPull

CONSTANT main

\* Next without Report and OpenChat: no append is reported where there is no appender, and
\* no chat is opened.  The scope of an open chat, with both, is MCPages'.
MCNext ==
    \/ WriterStep
    \/ PollReads \/ PollCompares \/ Flush \/ RefreshEnds \/ ReadHello \/ AnswerHello
    \/ \E q \in serving : QueryRows(q) \/ QueryMax(q) \/ QueryAnswer(q) \/ QueryFails(q)
    \/ Connect \/ Receive
    \/ \E s \in Scopes : Land(s) \/ Rerun(s) \/ Resend(s) \/ AttemptTimesOut(s)
    \/ Drop

MCSpec == Init /\ [][MCNext]_vars /\ Fairness
=============================================================================

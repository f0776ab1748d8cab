------------------------------ MODULE ClientLogs ------------------------------
(* The logs of the legacy page on their way to the server                     *)
(* (frontend/client-logs.ts): a log goes to the clientLogs store of the       *)
(* browser, which all tabs share, or, while IndexedDB does not answer, to the *)
(* memory of its tab; flushClientLogs sends batches of both, and              *)
(* handleClientLogRequest (backend/app-logs.ts) inserts them one by one.      *)
(*                                                                            *)
(* A log is its number: createdAt grows with it.                              *)
EXTENDS Integers, Sequences, FiniteSets, SequencesExt, FiniteSetsExt

CONSTANTS
    Tabs,        \* the tabs of the browser
    MaxLogs,     \* bound: logs made
    QueueMax,    \* MAX_QUEUED_LOGS
    MemoryMax,   \* MEMORY_LOG_LIMIT
    Batch,       \* FLUSH_BATCH_SIZE
    ServerBatch, \* MAX_LOGS_PER_BATCH
    MaxMishaps   \* bound: failures, time-outs, reloads and losses of the network

ASSUME LogsAssumption ==
    /\ MaxLogs \in Nat /\ MaxMishaps \in Nat
    /\ {QueueMax, MemoryMax, Batch, ServerBatch} \subseteq Nat \ {0}

VARIABLES
    logged,      \* logs made so far
    queue,       \* the store clientLogs
    adding,      \* adding[t]: the calls of enqueueLog; late: their caller has timed out
    memory,      \* memory[t]: memoryLogs
    sending,     \* sending[t]: the batch of flushMemoryLogs; empty: memoryFlushing is false
    flusher,     \* flusher[t]: where flushClientLogs is, and its batch
    off,         \* off[t]: now < idbLoggingDisabledUntil
    reachable,   \* navigator.onLine
    appLogs,     \* appLogs[l]: how often app_logs holds the log
    dropped,     \* history: logs that a limit or the end of their page dropped
    logMishaps

logVars == <<logged, queue, adding, memory, sending, flusher, off, reachable, appLogs,
             dropped, logMishaps>>

NoFlush == [at |-> "idle", logs |-> {}]

LogsInit ==
    /\ logged \in 0..MaxLogs /\ queue = 1..logged   \* an earlier page left them
    /\ dropped = {} /\ logMishaps \in 0..MaxMishaps /\ reachable = TRUE
    /\ adding = [t \in Tabs |-> {}]
    /\ memory = [t \in Tabs |-> <<>>] /\ sending = [t \in Tabs |-> <<>>]
    /\ flusher = [t \in Tabs |-> NoFlush] /\ off = [t \in Tabs |-> FALSE]
    /\ appLogs = [l \in 1..MaxLogs |-> 0]

Mishap == logMishaps < MaxMishaps /\ logMishaps' = logMishaps + 1

FirstOf(s, n) == SubSeq(s, 1, IF Len(s) < n THEN Len(s) ELSE n)
OldestOf(logs, n) == {l \in logs : Cardinality({m \in logs : m < l}) < n}

\* flushMemoryLogs takes its batch, when no other call has one.
TakesMemory(t, m) ==
    sending' = IF reachable /\ sending[t] = <<>> THEN [sending EXCEPT ![t] = FirstOf(m, Batch)]
                                               ELSE sending

\* queueMemoryLog, and the flushMemoryLogs that follows it.
ToMemory(t, l) ==
    LET m == Append(memory[t], l)
        kept == IF Len(m) > MemoryMax THEN Tail(m) ELSE m
    IN  /\ memory' = [memory EXCEPT ![t] = kept]
        /\ dropped' = dropped \cup (ToSet(m) \ ToSet(kept))
        /\ TakesMemory(t, kept)

\* logClientEvent: enqueueLogWithFallback.
LogMade(t) ==
    /\ logged < MaxLogs /\ logged' = logged + 1
    /\ \/ /\ off[t] /\ ToMemory(t, logged') /\ UNCHANGED adding
       \/ /\ ~off[t]
          /\ adding' = [adding EXCEPT ![t] = @ \cup
                            {[log |-> logged', at |-> "put", extra |-> 0, late |-> FALSE]}]
          /\ UNCHANGED <<memory, sending, dropped>>
    /\ UNCHANGED <<queue, flusher, off, reachable, appLogs, logMishaps>>

\* flushClientLogs up to its first await: the memory first, then IndexedDB.
FlushBegins(t) ==
    IF flusher[t].at # "idle" \/ ~reachable THEN UNCHANGED <<flusher, sending>>
    ELSE /\ TakesMemory(t, memory[t])
         /\ flusher' = [flusher EXCEPT ![t].at =
                CASE sending[t] = <<>> /\ memory[t] # <<>> -> "memory"
                  [] off[t] -> "idle"
                  [] OTHER -> "load"]

\* The interval of ten seconds, the online event, the end of syncNow.
FlushCalled(t) ==
    /\ FlushBegins(t) /\ flusher' # flusher
    /\ UNCHANGED <<logged, queue, adding, memory, off, reachable, appLogs,
                   dropped, logMishaps>>

\* enqueueLog and trimQueuedLogs: three transactions.  Unless its caller has timed out,
\* or the log is of level debug, a flush follows.
Adds(t, a) ==
    /\ \/ /\ a.at = "put" /\ queue' = queue \cup {a.log}
          /\ adding' = [adding EXCEPT ![t] = (@ \ {a}) \cup {[a EXCEPT !.at = "count"]}]
          /\ UNCHANGED <<flusher, sending, dropped>>
       \/ /\ a.at = "count" /\ Cardinality(queue) > QueueMax
          /\ adding' = [adding EXCEPT ![t] = (@ \ {a}) \cup
                {[a EXCEPT !.at = "trim", !.extra = Cardinality(queue) - QueueMax]}]
          /\ UNCHANGED <<queue, flusher, sending, dropped>>
       \/ /\ \/ a.at = "count" /\ Cardinality(queue) <= QueueMax /\ UNCHANGED <<queue, dropped>>
             \/ /\ a.at = "trim"
                /\ LET old == OldestOf(queue, a.extra)
                   IN  queue' = queue \ old /\ dropped' = dropped \cup old
          /\ adding' = [adding EXCEPT ![t] = @ \ {a}]
          /\ \/ ~a.late /\ FlushBegins(t)
             \/ UNCHANGED <<flusher, sending>>
    /\ UNCHANGED <<logged, memory, off, reachable, appLogs, logMishaps>>

\* It fails, or takes more than 1.2 seconds and goes on: the log goes to the memory too.
AddFails(t, a) ==
    /\ Mishap
    /\ \/ ~a.late /\ adding' = [adding EXCEPT ![t] = (@ \ {a}) \cup {[a EXCEPT !.late = TRUE]}]
       \/ adding' = [adding EXCEPT ![t] = @ \ {a}]
    /\ \/ a.late /\ UNCHANGED <<memory, sending, dropped, off>>
       \/ ~a.late /\ ToMemory(t, a.log) /\ off' = [off EXCEPT ![t] = TRUE]
    /\ UNCHANGED <<logged, queue, flusher, reachable, appLogs>>

\* Thirty seconds later.
Reenabled(t) ==
    /\ off[t] /\ off' = [off EXCEPT ![t] = FALSE]
    /\ UNCHANGED <<logged, queue, adding, memory, sending, flusher, reachable, appLogs,
                   dropped, logMishaps>>

\* handleClientLogRequest inserts the logs of a batch in their order, up to ServerBatch:
\* what app_logs has of it after the first n.
InTurn(s) == [n \in 0..ServerBatch |-> ToSet(FirstOf(s, n))]
ByAge(logs) == [n \in 0..ServerBatch |-> OldestOf(logs, n)]

\* sendLogs: all rows are inserted and the answer arrives; or the network or an insert fails.
Post(inserted, ok) ==
    \E n \in 0..ServerBatch :
       /\ ok => n = ServerBatch
       /\ appLogs' = [l \in DOMAIN appLogs |->
                         appLogs[l] + (IF l \in inserted[n] THEN 1 ELSE 0)]
       /\ (ok /\ UNCHANGED logMishaps) \/ (~ok /\ Mishap)

\* What flushMemoryLogs leaves in the memory.
Unsent(t, ok) ==
    LET sent(l) == ok /\ Contains(sending[t], l)
    IN  FlattenSeq([i \in DOMAIN memory[t] |->
                        IF sent(memory[t][i]) THEN <<>> ELSE <<memory[t][i]>>])

\* flushMemoryLogs settles; a flushClientLogs that awaits it goes on to IndexedDB or fails too.
MemorySent(t, ok) ==
    /\ sending[t] # <<>> /\ Post(InTurn(sending[t]), ok)
    /\ memory' = [memory EXCEPT ![t] = Unsent(t, ok)]
    /\ sending' = [sending EXCEPT ![t] = <<>>]
    /\ flusher' = IF flusher[t].at # "memory" THEN flusher
                ELSE [flusher EXCEPT ![t].at = IF ok /\ ~off[t] THEN "load" ELSE "idle"]
    /\ UNCHANGED <<logged, queue, adding, off, reachable, dropped>>

\* loadQueuedLogs.
Loads(t) ==
    /\ flusher[t].at = "load"
    /\ flusher' = [flusher EXCEPT ![t] = IF queue = {} THEN NoFlush
                                     ELSE [at |-> "send", logs |-> OldestOf(queue, Batch)]]
    /\ UNCHANGED <<logged, queue, adding, memory, sending, off, reachable, appLogs,
                   dropped, logMishaps>>

\* sendLogs of what the store held; its finally.
AfterAnySend(t, ok) == [flusher[t] EXCEPT !.at = "delete"]   \* mutant: whatever the answer
AfterSend(t, ok) == IF ok THEN [flusher[t] EXCEPT !.at = "delete"] ELSE NoFlush

QueueSent(t, ok) ==
    /\ flusher[t].at = "send" /\ Post(ByAge(flusher[t].logs), ok)
    /\ flusher' = [flusher EXCEPT ![t] = AfterSend(t, ok)]
    /\ UNCHANGED <<logged, queue, adding, memory, sending, off, reachable, dropped>>

\* deleteQueuedLogs, with the ids of what was sent.
Deletes(t) ==
    /\ flusher[t].at = "delete" /\ queue' = queue \ flusher[t].logs
    /\ flusher' = [flusher EXCEPT ![t] = NoFlush]
    /\ UNCHANGED <<logged, adding, memory, sending, off, reachable, appLogs,
                   dropped, logMishaps>>

\* Load or delete fail, or time out (a delete may still commit): IndexedDB is off.
StoreFails(t) ==
    /\ Mishap /\ flusher[t].at \in {"load", "delete"}
    /\ queue' \in {queue, queue \ flusher[t].logs}
    /\ flusher' = [flusher EXCEPT ![t] = NoFlush] /\ off' = [off EXCEPT ![t] = TRUE]
    /\ UNCHANGED <<logged, adding, memory, sending, reachable, appLogs, dropped>>

Network ==
    /\ reachable' = ~reachable /\ (reachable => Mishap) /\ (~reachable => UNCHANGED logMishaps)
    /\ UNCHANGED <<logged, queue, adding, memory, sending, flusher, off,
                   appLogs, dropped>>

\* The page is loaded again: the store stays, and a put that had begun may still commit.
PageLeft(t) ==
    /\ Mishap
    /\ LET open == {a.log : a \in {b \in adding[t] : b.at = "put"}}
       IN  \E kept \in SUBSET open :
             /\ queue' = queue \cup kept
             /\ dropped' = dropped \cup (ToSet(memory[t]) \ queue) \cup (open \ kept)
    /\ adding' = [adding EXCEPT ![t] = {}]
    /\ memory' = [memory EXCEPT ![t] = <<>>] /\ sending' = [sending EXCEPT ![t] = <<>>]
    /\ flusher' = [flusher EXCEPT ![t] = NoFlush] /\ off' = [off EXCEPT ![t] = FALSE]
    /\ UNCHANGED <<logged, reachable, appLogs>>

LogsStep(tabs) ==
    \/ \E t \in tabs :
          \/ LogMade(t) \/ FlushCalled(t) \/ Reenabled(t) \/ Loads(t) \/ Deletes(t)
          \/ StoreFails(t) \/ PageLeft(t)
          \/ \E a \in adding[t] : Adds(t, a) \/ AddFails(t, a)
          \/ \E ok \in BOOLEAN : MemorySent(t, ok) \/ QueueSent(t, ok)
    \/ Network

LogsNext == LogsStep(Tabs)

\* Timers fire, transactions end, the network comes back and requests settle; one that
\* settles may fail, up to the bound on logMishaps.
LogsFairness ==
    /\ WF_logVars(~reachable /\ Network)
    /\ \A t \in Tabs :
         /\ WF_logVars(FlushCalled(t)) /\ WF_logVars(Reenabled(t))
         /\ WF_logVars(Loads(t)) /\ WF_logVars(Deletes(t))
         /\ WF_logVars(\E a \in adding[t] : Adds(t, a))
         /\ WF_logVars(MemorySent(t, TRUE)) /\ WF_logVars(QueueSent(t, TRUE))

LogsSpec == LogsInit /\ [][LogsNext]_logVars /\ LogsFairness

-----------------------------------------------------------------------------
\* Every log reaches the server, however requests and transactions fail, two tabs share
\* the queue and a call times out half done, unless one of the two limits dropped it or
\* its page was left before IndexedDB had it.  (Logs are finite in number: in the end all
\* that were made have arrived.)
LogsArrive == <>[](\A l \in 1..logged : appLogs[l] > 0 \/ l \in dropped)
=============================================================================

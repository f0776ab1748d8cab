-------------------------- MODULE RuntimeRegistry --------------------------
(***************************************************************************)
(* Agent processes of one host and the table agent_runtimes.               *)
(*                                                                         *)
(* Every hello, and every append or inventory upload, first registers its  *)
(* runtime (registerAgentRuntime in apps/backend/sync-engine.ts) in one    *)
(* READ COMMITTED transaction of up to four statements.  Statements of     *)
(* different transactions interleave; a statement sees committed rows; row *)
(* locks are held to the end of the transaction.  The answer decides       *)
(* whether the agent loop (apps/agent/v2/run.ts) goes on or stops.         *)
(*                                                                         *)
(* Abstractions.  A process start is a runtime of its own (randomUUID).    *)
(* "Seen in the last 30 seconds" is one bit per row that a commit sets and *)
(* Age clears.  The server works on one call of a runtime at a time: a     *)
(* poll waits until an abandoned call of the same runtime has ended.       *)
(***************************************************************************)
EXTENDS Integers, FiniteSets

CONSTANTS
    Runtimes,   \* processes that are ever started on the host
    Takeovers,  \* those started with --takeover (the default of clo.ts)
    MaxMishaps  \* bound: times that a live runtime is not seen for 30 seconds, a
                \* call is abandoned, a process dies or an admin asks for a shutdown

ASSUME RegistryAssumption ==
    /\ Takeovers \subseteq Runtimes
    /\ MaxMishaps \in Nat

VARIABLES
    agent,   \* runtime -> where its loop is
    txn,     \* runtime -> the registration the server is executing for it
    rows,    \* agent_runtimes, committed
    mishaps  \* what the bound counts

vars == <<agent, txn, rows, mishaps>>

Mishap == mishaps < MaxMishaps /\ mishaps' = mishaps + 1

NoTxn == [stage |-> "none", takeover |-> FALSE, marks |-> {}, condemned |-> FALSE,
          awaited |-> FALSE]
NoRow == [known |-> FALSE, status |-> "active", requested |-> FALSE, fresh |-> FALSE]

Running(r) == agent[r] \in {"sleep", "hello", "ready", "append"}

Open(r) == rows[r].known /\ rows[r].status = "active" /\ ~rows[r].requested
\* What the first select counts as an active runtime.
Active(r) == Open(r) /\ rows[r].fresh

Init ==
    /\ agent = [r \in Runtimes |-> "new"]
    /\ txn = [r \in Runtimes |-> NoTxn]
    /\ rows = [r \in Runtimes |-> NoRow]
    /\ mishaps = 0

----------------------------------------------------------------------------
(* The agent loop *)

Start(r) ==
    /\ agent[r] = "new"
    /\ agent' = [agent EXCEPT ![r] = "sleep"]
    /\ UNCHANGED <<txn, rows, mishaps>>

Call(r, from, to, takeover) ==
    /\ agent[r] = from /\ txn[r] = NoTxn
    /\ agent' = [agent EXCEPT ![r] = to]
    /\ txn' = [txn EXCEPT ![r] =
         [NoTxn EXCEPT !.stage = "select", !.takeover = takeover, !.awaited = TRUE]]
    /\ UNCHANGED <<rows, mishaps>>

\* fetchServerSyncPolicy: every hello of the process repeats its takeover.
Hello(r) == Call(r, "sleep", "hello", r \in Takeovers)

\* An inventory or append upload: its body has no takeover.
Append(r) == Call(r, "ready", "append", FALSE)

\* The scan ends.
Rest(r) ==
    /\ agent[r] = "ready"
    /\ agent' = [agent EXCEPT ![r] = "sleep"]
    /\ UNCHANGED <<txn, rows, mishaps>>

\* The agent stops waiting: hello after 1.5 s (uploads stay disabled for this
\* scan), an upload on a network error (it may be sent again).
GiveUp(r) ==
    /\ txn[r].awaited /\ Mishap
    /\ agent' = [agent EXCEPT ![r] = IF @ = "hello" THEN "sleep" ELSE "ready"]
    /\ txn' = [txn EXCEPT ![r].awaited = FALSE]
    /\ UNCHANGED rows

\* The process dies; the server finishes what it was sent.
Crash(r) ==
    /\ Running(r) /\ Mishap
    /\ agent' = [agent EXCEPT ![r] = "crashed"]
    /\ txn' = [txn EXCEPT ![r].awaited = FALSE]
    /\ UNCHANGED rows

\* A runtime is not seen for 30 seconds: it is gone, or busy, or cut off.
Age(r) ==
    /\ rows[r].fresh
    /\ \/ ~Running(r) /\ UNCHANGED mishaps
       \/ Running(r) /\ Mishap
    /\ rows' = [rows EXCEPT ![r].fresh = FALSE]
    /\ UNCHANGED <<agent, txn>>

\* What the awaited answer does to the loop.  Only a refused hello ends it: a
\* refused upload is an error like any other, and the next poll says hello.
Answered(state, answer) ==
    CASE answer = "continue" -> "ready"
      [] answer \in {"reject", "shutdown"} ->
             IF state = "hello" THEN "stopped" ELSE "sleep"
      [] answer = "error" -> IF state = "hello" THEN "sleep" ELSE "ready"

Finish(r, answer) ==
    /\ txn' = [txn EXCEPT ![r] = NoTxn]
    /\ agent' = IF txn[r].awaited
                THEN [agent EXCEPT ![r] = Answered(@, answer)]
                ELSE agent

----------------------------------------------------------------------------
(* registerAgentRuntime, statement by statement *)

\* select the other active runtimes; without takeover their presence is a 409.
SelectActive(r) ==
    /\ txn[r].stage = "select"
    /\ LET found == \E o \in Runtimes \ {r} : Active(o)
       IN  IF found /\ ~txn[r].takeover
           THEN Finish(r, "reject")
           ELSE /\ txn' = [txn EXCEPT ![r].stage = IF found THEN "replace" ELSE "self"]
                /\ UNCHANGED agent
    /\ UNCHANGED <<rows, mishaps>>

\* The altered form: updates do not wait for each other.
NeverLocked(o, r) == FALSE
\* Rows a transaction has updated stay locked until it ends.
Locked(o, r) == \E x \in Runtimes \ {r} : o \in txn[x].marks

\* update: every other open runtime of the host, seen recently or not.
Replace(r) ==
    /\ txn[r].stage = "replace"
    /\ LET others == {o \in Runtimes \ {r} : Open(o)}
       IN  /\ \A o \in others : ~Locked(o, r)
           /\ txn' = [txn EXCEPT ![r].stage = "self", ![r].marks = others]
    /\ UNCHANGED <<agent, rows, mishaps>>

\* The altered form: a runtime that takes over does not look at its own row.
LookAway(r) == r \notin Takeovers /\ rows[r].requested
\* Whether this runtime itself was asked to shut down.
ReadsShutdown(r) == rows[r].requested

SelectSelf(r) ==
    /\ txn[r].stage = "self"
    /\ txn' = [txn EXCEPT ![r].stage = "upsert", ![r].condemned = ReadsShutdown(r)]
    /\ UNCHANGED <<agent, rows, mishaps>>

\* The altered form: a conflict takes the status this transaction computed.
Revive(row, condemned) ==
    [row EXCEPT !.known = TRUE, !.fresh = TRUE,
                !.status = IF condemned THEN "shutdown" ELSE "active"]
\* insert ... on conflict: an existing row keeps its status.
Upsert(row, condemned) ==
    IF row.known THEN [row EXCEPT !.fresh = TRUE] ELSE Revive(row, condemned)

\* The upsert and the commit.
Commit(r) ==
    /\ txn[r].stage = "upsert" /\ ~Locked(r, r)
    /\ rows' = [o \in Runtimes |->
         CASE o = r -> Upsert(rows[r], txn[r].condemned)
           [] o \in txn[r].marks ->
                [rows[o] EXCEPT !.status = "shutdown", !.requested = TRUE]
           [] OTHER -> rows[o]]
    /\ Finish(r, IF txn[r].condemned THEN "shutdown" ELSE "continue")
    /\ UNCHANGED mishaps

\* Postgres ends a deadlock by aborting one of the transactions: a 500.
Abort(r) ==
    /\ \E S \in SUBSET Runtimes :
         /\ r \in S
         /\ \A x \in S : txn[x].stage = "upsert" /\ \E y \in S \ {x} : x \in txn[y].marks
    /\ Finish(r, "error")
    /\ UNCHANGED <<rows, mishaps>>

\* requestAgentRuntimeShutdown, a statement of its own.
AdminShutdown(r) ==
    /\ rows[r].known /\ ~Locked(r, r) /\ Mishap
    /\ rows' = [rows EXCEPT ![r].status = "shutdown", ![r].requested = TRUE]
    /\ UNCHANGED <<agent, txn>>

----------------------------------------------------------------------------
Server(r) == SelectActive(r) \/ Replace(r) \/ SelectSelf(r) \/ Commit(r) \/ Abort(r)

Next == \E r \in Runtimes :
    \/ Start(r) \/ Hello(r) \/ Append(r) \/ Rest(r) \/ GiveUp(r) \/ Crash(r) \/ Age(r)
    \/ Server(r) \/ AdminShutdown(r)

Spec == Init /\ [][Next]_vars

\* A started process polls for ever and a scan has finitely many uploads; the
\* server executes what it was sent, and Postgres hands a row lock to the
\* transaction that waits for it.  Nothing is assumed of starts, crashes, stalls
\* and lost answers.
Fairness == \A r \in Runtimes :
    /\ WF_vars(Hello(r)) /\ SF_vars(Rest(r))
    /\ WF_vars(Server(r)) /\ SF_vars(Commit(r))

FairSpec == Spec /\ Fairness

----------------------------------------------------------------------------
(* Properties *)

Txns == [stage : {"none", "select", "replace", "self", "upsert"}, takeover : BOOLEAN,
         marks : SUBSET Runtimes, condemned : BOOLEAN, awaited : BOOLEAN]
Rows == [known : BOOLEAN, status : {"active", "shutdown"}, requested : BOOLEAN,
         fresh : BOOLEAN]

TypeOK ==
    /\ agent \in [Runtimes ->
         {"new", "sleep", "hello", "ready", "append", "stopped", "crashed"}]
    /\ txn \in [Runtimes -> Txns]
    /\ rows \in [Runtimes -> Rows]
    /\ \A r \in Runtimes : txn[r].awaited => agent[r] \in {"hello", "append"}
    /\ mishaps \in 0..MaxMishaps

\* A runtime once asked to shut down never counts as active again, also when the
\* request commits between its own registration's read and write.
StatusAgrees == \A r \in Runtimes : rows[r].requested <=> rows[r].status = "shutdown"

\* No two transactions mark the same runtime: its replaced_by_runtime_id is the
\* runtime that really replaced it.
OneReplacer ==
    \A r, s \in Runtimes : r # s => txn[r].marks \cap txn[s].marks = {}

\* A process that was asked to shut down stops, unless it dies first.
ShutdownObeyed == <>[](\A r \in Runtimes : rows[r].requested => ~Running(r))

=============================================================================

------------------------------ MODULE RenderRows ------------------------------
(***************************************************************************)
(* How the render rows follow the events of one file: the append handler's *)
(* loop over the events of a request (apps/backend/sync-engine.ts), the    *)
(* ingest hook it calls (sync-v3/ingest-hook.ts), the conversion of an     *)
(* event into rows (sync-v3/render.ts), and the script that writes the     *)
(* rows again for stored events (scripts/backfill-render-items.ts).        *)
(*                                                                         *)
(* Statements of the two transactions interleave under READ COMMITTED: a   *)
(* delete works on the rows its snapshot shows, and waits for those that   *)
(* the other transaction has changed; an insert waits for a key that the   *)
(* other one has changed and then updates what it finds.  Appends to one   *)
(* file exclude each other: each updates the file's row first.             *)
(*                                                                         *)
(* Abstractions.  A part that only holds other parts stands for them; the  *)
(* payload of a row is the revision of the event it was rendered from.     *)
(* The model starts from any request of one or two events; an agent sends  *)
(* a request again until it is accepted.                                   *)
(***************************************************************************)
EXTENDS Integers, Sequences, FiniteSets

CONSTANTS
    Events,    \* ids of agent_normalized_events, in the order of the file's lines
    Bodies,    \* normalized contents an event may have
    Batch,     \* events per transaction of the backfill (--batch)
    MaxRevs,   \* bound: events upserted
    MaxFills,  \* bound: backfills started although no rows are missing
    MaxFaults  \* bound: times the conversion breaks, and backfills interrupted

PartKinds == {"text", "thinking", "tool_call", "tool_result", "event", "refused"}
Contents == [display : BOOLEAN, role : {"user", "assistant", "none"}, parts : Seq(PartKinds)]

ASSUME RenderRowsAssumption ==
    /\ Events \subseteq Nat \ {0} /\ IsFiniteSet(Events)
    /\ Bodies \subseteq Contents
    /\ Batch \in Nat \ {0}
    /\ MaxRevs \in Nat /\ MaxFills \in Nat /\ MaxFaults \in Nat

VARIABLES
    events,   \* agent_normalized_events, committed: set of [event, body, rev]
    items,    \* agent_render_items, committed: set of [id, event, part, kind, display, rev]
    request,  \* the append the agent sends until it is accepted: Seq of [event, body]
    txn,      \* "append" and "fill" -> the open transaction
    lastId,   \* the backfill's lastId
    broken,   \* TRUE: the deployed conversion throws
    nextRev, fills, faults,
    failed,   \* history: events whose last upsert went without its rows
    raced     \* history: events that an append and the backfill wrote at once

vars == <<events, items, request, txn, lastId, broken, nextRev, fills, faults, failed, raced>>

\* todo: events to write; upserts: event rows written; snapshot: ids of the rows that
\* the delete under way sees; old, new: rows deleted or updated, and written; left:
\* rows still to insert; done, hurt: events done with, and those without their rows;
\* met (history): its events that the other transaction wrote meanwhile.
NoTxn == [stage |-> "idle", todo |-> <<>>, upserts |-> {}, snapshot |-> {}, old |-> {},
          new |-> {}, left |-> {}, done |-> {}, hurt |-> {}, met |-> {}]

Other(t) == IF t = "append" THEN "fill" ELSE "append"
EventsOf(t) == txn[t].done \cup {txn[t].todo[i].event : i \in DOMAIN txn[t].todo}

Init ==
    /\ events = {} /\ items = {} /\ request = <<>>
    /\ txn = [t \in {"append", "fill"} |-> NoTxn]
    /\ lastId = 0 /\ broken = FALSE
    /\ nextRev = 1 /\ fills = 0 /\ faults = 0
    /\ failed = {} /\ raced = {}

----------------------------------------------------------------------------
(* eventToRenderRows *)

\* Text needs somebody who says it; a part of another kind becomes no row.
Rendered(role, kind) ==
    kind \in {"thinking", "tool_call", "tool_result", "refused"} \/ (kind = "text" /\ role # "none")

ItemKind(part) ==
    CASE part = "text" -> "t" [] part = "thinking" -> "th" [] part = "tool_call" -> "tu"
      [] OTHER -> "tr"

\* The parts of an event that become rows, and their numbers.
Kept(e) == {i \in DOMAIN e.body.parts : Rendered(e.body.role, e.body.parts[i])}
NumberOf(e, i) == Cardinality({j \in Kept(e) : j < i})

RenderRow(e, part, kind, display) ==
    [event |-> e.event, part |-> part, kind |-> kind, display |-> display, rev |-> e.rev]

\* A hidden event is one empty row; otherwise rows are numbered as they come.
Rows(e) ==
    IF ~e.body.display
    THEN {RenderRow(e, 0, "t", FALSE)}
    ELSE {RenderRow(e, NumberOf(e, i), ItemKind(e.body.parts[i]), TRUE) : i \in Kept(e)}

\* Postgres does not take the payload of this row as jsonb (a text that was cut
\* inside a surrogate pair).
Refused(e, row) ==
    /\ e.body.display
    /\ \E i \in Kept(e) : NumberOf(e, i) = row.part /\ e.body.parts[i] = "refused"

----------------------------------------------------------------------------
(* The append handler *)

\* The agent sends some events in the order of their lines.
Requests ==
    {<<[event |-> e, body |-> b]>> : e \in Events, b \in Bodies} \cup
    {<<[event |-> p[1], body |-> b], [event |-> p[2], body |-> c]>> :
        p \in {q \in Events \X Events : q[1] < q[2]}, b \in Bodies, c \in Bodies}

Send ==
    /\ request = <<>>
    /\ request' \in Requests
    /\ nextRev + Len(request') <= MaxRevs + 1
    /\ UNCHANGED <<events, items, txn, lastId, broken, nextRev, fills, faults, failed, raced>>

\* Numbers drawn from sync_event_revision_seq by a transaction that is rolled back are
\* given out again, which nobody can tell.
BeginAppend ==
    /\ request # <<>> /\ txn["append"] = NoTxn
    /\ txn' = [txn EXCEPT !["append"] = [NoTxn EXCEPT !.stage = "event",
         !.todo = [i \in DOMAIN request |->
             [event |-> request[i].event, body |-> request[i].body, rev |-> nextRev + i - 1]]]]
    /\ UNCHANGED <<events, items, request, lastId, broken, nextRev, fills, faults, failed, raced>>

\* The next event of a transaction, or its commit.
NextEvent(x) == [x EXCEPT !.todo = Tail(@), !.done = @ \cup {Head(x.todo).event},
                          !.stage = IF Len(x.todo) = 1 THEN "commit" ELSE "event"]

\* The error is swallowed; the event goes without rows, or keeps its old ones.
Swallowed(x) == [NextEvent(x) EXCEPT !.hurt = @ \cup {Head(x.todo).event}]

\* insert ... on conflict do update of the event, and the conversion; one that gives
\* no row leaves the old rows of the event alone.
UpsertEvent ==
    LET x == txn["append"]  e == Head(x.todo)
        y == [x EXCEPT !.upserts = {u \in @ : u.event # e.event} \cup {e}]
    IN  /\ x.stage = "event"
        /\ txn' = [txn EXCEPT !["append"] =
             IF broken THEN Swallowed(y)
             ELSE IF Rows(e) = {} THEN NextEvent(y)
             ELSE [y EXCEPT !.stage = "delete"]]
        /\ UNCHANGED <<events, items, request, lastId, broken, nextRev, fills, faults, failed,
                       raced>>

----------------------------------------------------------------------------
(* bulkInsertRenderRows, in either transaction *)

Committed(e) == {r \in items : r.event = e}

BeginDelete(t) ==
    LET x == txn[t]  e == Head(x.todo)
    IN  /\ x.stage = "delete"
        /\ txn' = [txn EXCEPT ![t] = [x EXCEPT !.stage = "deleting",
                              !.snapshot = {r.id : r \in Committed(e.event) \ x.old}]]
        /\ UNCHANGED <<events, items, request, lastId, broken, nextRev, fills, faults, failed,
                       raced>>

\* The altered form: rows are only inserted or updated.
Nothing(x) == {}
\* The rows of the snapshot that are still there, as they are now.
Found(x) == {r \in items : r.id \in x.snapshot}

EndDelete(t) ==
    LET x == txn[t]
    IN  /\ x.stage = "deleting"
        /\ Found(x) \cap txn[Other(t)].old = {}
        /\ txn' = [txn EXCEPT ![t] = [x EXCEPT !.stage = "insert", !.old = @ \cup Found(x),
                              !.snapshot = {}, !.left = Rows(Head(x.todo))]]
        /\ UNCHANGED <<events, items, request, lastId, broken, nextRev, fills, faults, failed,
                       raced>>

SameKey(r, s) == r.event = s.event /\ r.part = s.part

\* A row id that no row has.
FreshId ==
    LET used == {r.id : r \in items \cup txn["append"].new \cup txn["fill"].new}
                \cup txn["append"].snapshot \cup txn["fill"].snapshot
    IN  CHOOSE n \in 1..(Cardinality(used) + 1) : n \notin used

AsStored(row, id) == [id |-> id, event |-> row.event, part |-> row.part, kind |-> row.kind,
                      display |-> row.display, rev |-> row.rev]

\* The row to insert next.
FirstOf(rows) == {row \in rows : \A r \in rows : row.part <= r.part}

\* Transaction x with the row written, in the place of those it is in conflict with.
Written(x, row, conflict) ==
    LET id == IF conflict = {} THEN FreshId ELSE (CHOOSE r \in conflict : TRUE).id
    IN  [x EXCEPT !.left = @ \ {row}, !.old = @ \cup conflict,
                  !.new = @ \cup {AsStored(row, id)}]

InsertRow(t) ==
    \E row \in FirstOf(txn[t].left) :
        LET y == Written(txn[t], row, {r \in items \ txn[t].old : SameKey(r, row)})
        IN  /\ txn[t].stage = "insert" /\ ~Refused(Head(txn[t].todo), row)
            /\ \A r \in txn[Other(t)].old \cup txn[Other(t)].new : ~SameKey(r, row)
            /\ txn' = [txn EXCEPT ![t] = IF y.left = {} THEN NextEvent(y) ELSE y]
            /\ UNCHANGED <<events, items, request, lastId, broken, nextRev, fills, faults,
                           failed, raced>>

RefusedNext(t) ==
    /\ txn[t].stage = "insert"
    /\ \E row \in FirstOf(txn[t].left) : Refused(Head(txn[t].todo), row)

\* The hook swallows the error, but Postgres has aborted the transaction: the next
\* statement fails, the handler answers 500 and the agent will send it again.
AppendFails ==
    /\ RefusedNext("append")
    /\ txn' = [txn EXCEPT !["append"] = NoTxn]
    /\ UNCHANGED <<events, items, request, lastId, broken, nextRev, fills, faults, failed,
                   raced>>

Overwritten(t) == {r \in items : r \notin txn[t].old} \cup txn[t].new

\* The end of transaction t, followed by n.
Commit(t, n) ==
    LET x == txn[t]  both == x.done \cap EventsOf(Other(t))
    IN  /\ x.stage = "commit"
        /\ items' = Overwritten(t)
        /\ raced' = (raced \ (x.done \ x.hurt)) \cup both \cup (x.done \cap x.met)
        /\ failed' = (failed \ x.done) \cup x.hurt
        /\ txn' = [s \in DOMAIN txn |->
                      IF s = t THEN n ELSE [txn[s] EXCEPT !.met = @ \cup both]]

CommitAppend ==
    /\ Commit("append", NoTxn)
    /\ events' = {e \in events : e.event \notin txn["append"].done} \cup txn["append"].upserts
    /\ request' = <<>> /\ nextRev' = nextRev + Len(request)
    /\ UNCHANGED <<lastId, broken, fills, faults>>

----------------------------------------------------------------------------
(* The backfill script *)

\* It is run when rows are missing, and sometimes when none are.
StartFill ==
    /\ txn["fill"] = NoTxn /\ ~broken
    /\ \/ failed # {} /\ UNCHANGED fills
       \/ failed = {} /\ fills < MaxFills /\ fills' = fills + 1
    /\ txn' = [txn EXCEPT !["fill"] = [NoTxn EXCEPT !.stage = "read"]]
    /\ UNCHANGED <<events, items, request, lastId, broken, nextRev, faults, failed, raced>>

\* The next events of the table, read outside of any transaction.
NextEvents ==
    LET rest == {e \in events : e.event > lastId}
    IN  {e \in rest : Cardinality({d \in rest : d.event < e.event}) < Batch}

ReadBatch ==
    /\ txn["fill"].stage = "read"
    /\ IF NextEvents = {}
       THEN txn' = [txn EXCEPT !["fill"] = NoTxn] /\ lastId' = 0
       ELSE \E batch \in [1..Cardinality(NextEvents) -> NextEvents] :
             /\ \A i, j \in DOMAIN batch : i < j => batch[i].event < batch[j].event
             /\ txn' = [txn EXCEPT !["fill"] = [NoTxn EXCEPT !.stage = "event", !.todo = batch]]
             /\ UNCHANGED lastId
    /\ UNCHANGED <<events, items, request, broken, nextRev, fills, faults, failed, raced>>

FillEvent ==
    LET x == txn["fill"]
    IN  /\ x.stage = "event"
        /\ txn' = [txn EXCEPT !["fill"] = IF Rows(Head(x.todo)) = {} THEN NextEvent(x)
                                          ELSE [x EXCEPT !.stage = "delete"]]
        /\ UNCHANGED <<events, items, request, lastId, broken, nextRev, fills, faults, failed,
                       raced>>

\* The id of the batch's last event.
LastOf(x) == CHOOSE e \in x.done : \A d \in x.done : d <= e

CommitBatch ==
    /\ Commit("fill", [NoTxn EXCEPT !.stage = "read"])
    /\ lastId' = LastOf(txn["fill"])
    /\ UNCHANGED <<events, request, broken, nextRev, fills, faults>>

\* The script ends and its transaction is rolled back; the next run starts at the
\* beginning or, with --from, after the last batch that was committed.
Exit ==
    /\ txn' = [txn EXCEPT !["fill"] = NoTxn]
    /\ lastId' \in {0, lastId}
    /\ UNCHANGED <<events, items, request, broken, nextRev, fills, failed, raced>>

FillFails == RefusedNext("fill") /\ Exit /\ UNCHANGED faults
Interrupt == txn["fill"] # NoTxn /\ faults < MaxFaults /\ faults' = faults + 1 /\ Exit

----------------------------------------------------------------------------
(* A deployment breaks the conversion, another one repairs it. *)
Break ==
    /\ ~broken /\ faults < MaxFaults
    /\ broken' = TRUE /\ faults' = faults + 1
    /\ UNCHANGED <<events, items, request, txn, lastId, nextRev, fills, failed, raced>>
Repair ==
    /\ broken /\ broken' = FALSE
    /\ UNCHANGED <<events, items, request, txn, lastId, nextRev, fills, faults, failed, raced>>

AppendStep == BeginAppend \/ UpsertEvent \/ AppendFails \/ CommitAppend
FillStep == ReadBatch \/ FillEvent \/ FillFails \/ CommitBatch
HookStep(t) == BeginDelete(t) \/ EndDelete(t) \/ InsertRow(t)

Next ==
    \/ Send \/ AppendStep \/ StartFill \/ FillStep \/ Interrupt \/ Break \/ Repair
    \/ \E t \in {"append", "fill"} : HookStep(t)

Spec == Init /\ [][Next]_vars

\* Requests and scripts run on, a statement that waits for a row is queued for it, and
\* the backfill is run while rows are missing.  Nothing is assumed of new requests, of
\* faults, and of the repair of a broken conversion.
Fairness ==
    /\ SF_vars(AppendStep \/ HookStep("append"))
    /\ SF_vars(FillStep \/ HookStep("fill"))
    /\ WF_vars(StartFill)

FairSpec == Spec /\ Fairness

----------------------------------------------------------------------------
(* Properties *)

Keyed(S) == \A r, s \in S : SameKey(r, s) => r = s

TypeOK ==
    /\ events \subseteq [event : Events, body : Bodies, rev : 1..MaxRevs]
    /\ items \subseteq [id : Nat, event : Events, part : Nat, kind : {"t", "th", "tu", "tr"},
                        display : BOOLEAN, rev : 1..MaxRevs]
    /\ Keyed(items) /\ \A r, s \in items : r.id = s.id => r = s
    /\ \A e, d \in events : e.event = d.event => e = d
    /\ failed \cup raced \subseteq Events /\ lastId \in {0} \cup Events
    /\ request \in {<<>>} \cup Requests
    /\ broken \in BOOLEAN /\ nextRev \in 1..(MaxRevs + 1)
    /\ fills \in 0..MaxFills /\ faults \in 0..MaxFaults
    /\ \A t \in {"append", "fill"} : txn[t].stage \in
         {"idle", "read", "event", "delete", "deleting", "insert", "commit"}

\* The rows of an event are those of its stored version.
Reflects(e) ==
    {[event |-> r.event, part |-> r.part, kind |-> r.kind, display |-> r.display,
      rev |-> r.rev] : r \in Committed(e.event)} = Rows(e)

\* ingest-hook.ts:66: "render rows always reflect the current normalized version".
\* They do for every event that has rows, whatever the backfill does with other
\* events and wherever it is interrupted, unless the hook failed or the backfill
\* wrote the same event at the same time.
RowsReflectEvent ==
    \A e \in events : Rows(e) # {} /\ e.event \notin failed \cup raced => Reflects(e)

=============================================================================

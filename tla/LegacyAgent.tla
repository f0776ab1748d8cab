---------------------------- MODULE LegacyAgent ----------------------------
(***************************************************************************)
(* The first agent, still reachable as "legacy-run" (apps/agent/main.ts),  *)
(* and the endpoint it posts to (ingestBatch in apps/backend/server.ts).   *)
(*                                                                         *)
(* A scan lists the files, reads what each has grown by since the position *)
(* it remembers, posts it, and moves the position when the answer came;    *)
(* files it remembers and no longer finds are posted as deleted.  The      *)
(* positions are saved after a whole scan.  The server keeps a line it has *)
(* under a number, whatever is sent under that number later, and a session *)
(* it was told is deleted.                                                 *)
(*                                                                         *)
(* Abstractions.  A file is a content and a number of complete lines; byte *)
(* offsets are counted in lines, which have one length.  Line i of every   *)
(* content is an event, blank, or longer than a read.  A file that goes    *)
(* while the files are being listed, whose stat then ends the scan, is one *)
(* that goes before it is read.                                            *)
(***************************************************************************)
EXTENDS Integers, Sequences

CONSTANTS
    Paths,            \* sequence of the files, in the order a scan takes them
    Blank, Long,      \* line numbers that are blank, or longer than a read
    LinesPerRead,        \* lines that one read holds
    MaxPathLines,     \* bounds, for each file: its lines, and how often it is made
    MaxContents,
    MaxLegacyMishaps  \* bound: answers lost, requests given up, rows refused, crashes

ASSUME LegacyAssumption == MaxPathLines \in [{Paths[i] : i \in DOMAIN Paths} -> Nat]

VARIABLES
    tree,       \* file -> [content, len, there]
    mem, saved, \* positions: file -> lines read, or Unknown; in memory, on disk
    step,       \* where the scan is
    listed,     \* file -> size when it was listed, or Unknown
    todo,       \* files the scan has still to read or to report as deleted
    post,       \* the request the agent waits for, or NoPost
    wire,       \* requests the server may still execute
    answered,   \* the request it waits for was answered
    sessions,   \* file -> [known, deleted, lines]; a line is <<number, content>>
    refusedRows,\* <<file, line>> of events whose insert failed
    passed,     \* history: <<file, line>> the position was moved over, as it was read
    unowned,    \* files the server was told of and the agent has forgotten
    legacyMishaps

scanState == <<mem, saved, step, listed, todo, post, answered>>
legacyVars == <<tree, scanState, wire, sessions, refusedRows, passed, unowned, legacyMishaps>>

Unknown == -1
NoPost == [file |-> "none"]
PathSet == {Paths[i] : i \in DOMAIN Paths}
Ordered(S) == SelectSeq(Paths, LAMBDA f : f \in S)

LegacyMishap == legacyMishaps < MaxLegacyMishaps /\ legacyMishaps' = legacyMishaps + 1

LegacyInit ==
    /\ tree = [f \in PathSet |-> [content |-> 0, len |-> 0, there |-> FALSE]]
    /\ mem = [f \in PathSet |-> Unknown] /\ saved = mem
    /\ step = "idle" /\ listed = mem /\ todo = << >> /\ post = NoPost /\ answered = FALSE
    /\ wire = {} /\ refusedRows = {} /\ passed = {} /\ unowned = {} /\ legacyMishaps = 0
    /\ sessions = [f \in PathSet |-> [known |-> FALSE, deleted |-> FALSE, lines |-> {}]]

----------------------------------------------------------------------------
(* The files *)

Grow(f) ==
    /\ tree[f].there /\ tree[f].len < MaxPathLines[f]
    /\ tree' = [tree EXCEPT ![f].len = @ + 1]
    /\ UNCHANGED <<scanState, wire, sessions, refusedRows, passed, unowned, legacyMishaps>>

\* A file is made, or made anew with another content.
Write(f) ==
    /\ tree[f].content < MaxContents[f]
    /\ \E n \in 0..MaxPathLines[f] :
          tree' = [tree EXCEPT ![f] =
                      [content |-> @.content + 1, len |-> n, there |-> TRUE]]
    /\ UNCHANGED <<scanState, wire, sessions, refusedRows, passed, unowned, legacyMishaps>>

Remove(f) ==
    /\ tree[f].there
    /\ tree' = [tree EXCEPT ![f] = [content |-> @.content, len |-> 0, there |-> FALSE]]
    /\ UNCHANGED <<scanState, wire, sessions, refusedRows, passed, unowned, legacyMishaps>>

----------------------------------------------------------------------------
(* A scan *)

ListFiles ==
    LET there == {f \in PathSet : tree[f].there} IN
    /\ step = "idle"
    /\ step' = "files"
    /\ todo' = Ordered(there)
    /\ listed' = [f \in PathSet |-> IF f \in there THEN tree[f].len ELSE Unknown]
    /\ UNCHANGED <<tree, mem, saved, post, answered, wire, sessions, refusedRows,
                   passed, unowned, legacyMishaps>>

Known(f) == IF mem[f] = Unknown THEN 0 ELSE mem[f]

\* A position beyond the size: the file was truncated, and is read from its start.
From(f) == IF listed[f] < Known(f) THEN 0 ELSE Known(f)

\* Whole lines the read finds: not more than were listed, than a read holds, than
\* there are now, and none from a line that is longer than a read.
ReadTo(f) ==
    LET from == From(f)
        fits == {n \in from..listed[f] :
                    /\ n <= from + LinesPerRead /\ n <= tree[f].len
                    /\ \A i \in from + 1..n : i \notin Long}
    IN  IF fits = {} THEN from ELSE CHOOSE n \in fits : \A k \in fits : k <= n

\* The file is opened unless its size is the position.
Opens(f) == listed[f] # From(f)

\* readAppend, and what scanAndFlush does with it: without an event the position
\* is moved at once, and left alone when there was no whole line.
ReadAppend ==
    LET f == Head(todo)
        from == From(f)
        upto == ReadTo(f)
        rows == (from + 1..upto) \ Blank
    IN
    /\ step = "files" /\ todo # << >> /\ post = NoPost
    /\ Opens(f) => tree[f].there
    /\ IF rows = {}
       THEN /\ mem' = [mem EXCEPT ![f] =
                          IF upto > from \/ listed[f] = from THEN upto ELSE Known(f)]
            /\ todo' = Tail(todo)
            /\ UNCHANGED <<post, wire>>
       ELSE /\ post' = [file |-> f, deleted |-> FALSE, upto |-> upto,
                        lines |-> {<<i, tree[f].content>> : i \in rows}]
            /\ wire' = wire \cup {post'}
            /\ UNCHANGED <<mem, todo>>
    /\ answered' = FALSE
    /\ UNCHANGED <<tree, saved, step, listed, sessions, refusedRows, passed, unowned,
                   legacyMishaps>>

\* A listed file is gone when it is opened: the read throws, which ends the scan.
ReadThrows ==
    /\ step = "files" /\ todo # << >> /\ post = NoPost
    /\ Opens(Head(todo)) /\ ~tree[Head(todo)].there
    /\ step' = "idle" /\ todo' = << >>
    /\ UNCHANGED <<tree, mem, saved, listed, post, answered, wire, sessions, refusedRows,
                   passed, unowned, legacyMishaps>>

\* All files are read: those that are remembered and were not listed.
FilesRead ==
    /\ step = "files" /\ todo = << >>
    /\ step' = "deleted"
    /\ todo' = Ordered({f \in PathSet : mem[f] # Unknown /\ listed[f] = Unknown})
    /\ UNCHANGED <<tree, mem, saved, listed, post, answered, wire, sessions,
                   refusedRows, passed, unowned, legacyMishaps>>

ReportDeleted ==
    /\ step = "deleted" /\ todo # << >> /\ post = NoPost
    /\ post' = [file |-> Head(todo), deleted |-> TRUE, upto |-> Unknown, lines |-> {}]
    /\ wire' = wire \cup {post'}
    /\ answered' = FALSE
    /\ UNCHANGED <<tree, mem, saved, step, listed, todo, sessions, refusedRows, passed,
                   unowned, legacyMishaps>>

\* The answer: the position moves, or the file is forgotten.
PostOk ==
    /\ post # NoPost /\ answered
    /\ mem' = [mem EXCEPT ![post.file] = post.upto]
    /\ passed' = passed \cup {<<post.file, l>> : l \in post.lines}
    /\ post' = NoPost /\ answered' = FALSE
    /\ todo' = Tail(todo)
    /\ UNCHANGED <<tree, saved, step, listed, wire, sessions, refusedRows, unowned,
                   legacyMishaps>>

\* The next of the eight attempts, the answer of the last one being lost.
PostAgain ==
    /\ post # NoPost
    /\ post \notin wire
    /\ LegacyMishap
    /\ wire' = wire \cup {post} /\ answered' = FALSE
    /\ UNCHANGED <<tree, mem, saved, step, listed, todo, post, sessions, refusedRows,
                   passed, unowned>>

\* A file is forgotten although the server was not told.
ForgottenAnyway == IF post.deleted THEN [mem EXCEPT ![post.file] = Unknown] ELSE mem

\* Positions after a request that failed.
AsBefore == mem

ToldOf == {f \in PathSet : sessions[f].known} \cup {r.file : r \in wire}

\* All attempts failed, and the request did or did not reach the server.  Reading
\* ends the scan, unsaved; a deletion is left for the next one.
PostFails ==
    /\ post # NoPost
    /\ LegacyMishap
    /\ IF post.deleted
       THEN todo' = Tail(todo) /\ UNCHANGED step
       ELSE todo' = << >> /\ step' = "idle"
    /\ unowned' = unowned \cup {f \in ToldOf : mem[f] = Unknown}
    /\ mem' = AsBefore
    /\ wire' \in {wire, wire \ {post}}
    /\ post' = NoPost /\ answered' = FALSE
    /\ UNCHANGED <<tree, saved, listed, sessions, refusedRows, passed>>

SavePositions ==
    /\ step = "deleted" /\ todo = << >> /\ post = NoPost
    /\ saved' = mem
    /\ step' = "idle"
    /\ UNCHANGED <<tree, mem, listed, todo, post, answered, wire, sessions, refusedRows,
                   passed, unowned, legacyMishaps>>

AgentDies ==
    /\ LegacyMishap
    /\ mem' = saved
    /\ unowned' = unowned \cup {f \in ToldOf : saved[f] = Unknown}
    /\ wire' \in {wire, wire \ {post}}
    /\ step' = "idle" /\ todo' = << >> /\ post' = NoPost /\ answered' = FALSE
    /\ UNCHANGED <<tree, saved, listed, sessions, refusedRows, passed>>

----------------------------------------------------------------------------
(* The server *)

\* What the server would keep if a batch replaced the rows of its session.
InsertedAnew(old, new) == new

\* on conflict (session_db_id, source_line_no) do nothing.
Inserted(old, new) == old \cup {l \in new : \A k \in old : k[1] # l[1]}

\* ingestBatch: the session row, whose tombstone is never cleared, and its events;
\* one whose insert fails is rolled back to its savepoint and left out.
Ingest(r) ==
    /\ r \in wire
    /\ wire' = wire \ {r}
    /\ answered' = (answered \/ r = post)
    /\ \E bad \in {{}} \cup {{l} : l \in r.lines} :
          /\ IF bad = {} THEN UNCHANGED legacyMishaps ELSE LegacyMishap
          /\ refusedRows' = refusedRows \cup {<<r.file, l>> : l \in bad}
          /\ sessions' = [sessions EXCEPT ![r.file] =
                [known |-> TRUE, deleted |-> @.deleted \/ r.deleted,
                 lines |-> Inserted(@.lines, r.lines \ bad)]]
    /\ UNCHANGED <<tree, mem, saved, step, listed, todo, post, passed, unowned>>

----------------------------------------------------------------------------
AgentWorks ==
    \/ ListFiles \/ ReadAppend \/ ReadThrows \/ FilesRead \/ ReportDeleted \/ PostOk
    \/ SavePositions

LegacyNext ==
    \/ \E f \in PathSet : Grow(f) \/ Write(f) \/ Remove(f)
    \/ AgentWorks \/ PostAgain \/ PostFails \/ AgentDies
    \/ \E r \in wire : Ingest(r)

\* The agent polls for ever, and the server executes what it was sent.
LegacyFairness ==
    /\ WF_legacyVars(AgentWorks)
    /\ WF_legacyVars(\E r \in wire : Ingest(r))

LegacySpec == LegacyInit /\ [][LegacyNext]_legacyVars /\ LegacyFairness

----------------------------------------------------------------------------
\* The server has a line of a file, or its insert has failed.
Stores(f, l) == l \in sessions[f].lines \/ <<f, l>> \in refusedRows

\* An earlier content of the file has left a line under that number.
Taken(f, l) == \E k \in sessions[f].lines : k[1] = l[1] /\ k[2] < l[2]

\* The position is only moved over lines that were read and answered for, and what it was
\* moved over is held by the server, word for word, through lost answers, repeated requests,
\* truncations and crashes.  Two exceptions are dropped for good (scanAndFlush, ingestBatch):
\* an event whose insert failed, and one of a file made anew whose number an earlier content
\* has taken.  What a file made anew holds below a position that it is not shorter than
\* was never read, and nothing is said of it.
PositionNeverAhead ==
    \A f \in PathSet :
       /\ \A i \in 1..Known(f) : i \in Blank \/ \E p \in passed : p[1] = f /\ p[2][1] = i
       /\ \A p \in passed : p[1] = f => Stores(f, p[2]) \/ Taken(f, p[2])

\* A file that was never made anew ends with every line before the first over-long
\* one on the server; a session of one that is gone ends deleted, unless the agent
\* failed before it remembered the file.
FilesFollowed ==
    <>[](\A f \in PathSet :
           IF tree[f].there
           THEN tree[f].content = 1 =>
                  \A i \in 1..tree[f].len :
                     (\A k \in 1..i : k \notin Long) /\ i \notin Blank =>
                        Stores(f, <<i, 1>>) /\ ~sessions[f].deleted
           ELSE sessions[f].known /\ f \notin unowned => sessions[f].deleted)
=============================================================================

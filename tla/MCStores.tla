------------------------------ MODULE MCStores ------------------------------
(* What is stored and derived, for TLC: the render rows of the server, the   *)
(* audio it imports, the recordings a browser caches for it, and the draft   *)
(* of a chat on both sides.  They share nothing; a behaviour is one of the   *)
(* four, the others stay as they start.                                      *)
EXTENDS RenderRows, AudioImport, AudioOutbox, Drafts

CONSTANTS a, junk

VARIABLE part  \* "rows", "import", "outbox" or "drafts"

\* An answer with a tool call, a message of the system, one that says nothing, and
\* the result of a tool.  An event may have now one content and now another, so that
\* its rows appear, disappear and change their kind.
Answer == [display |-> TRUE, role |-> "assistant", parts |-> <<"event", "text", "tool_call">>]
Hidden == [display |-> FALSE, role |-> "none", parts |-> <<"text">>]
Silent == [display |-> TRUE, role |-> "none", parts |-> <<"text", "event">>]
Result == [display |-> TRUE, role |-> "user", parts |-> <<"tool_result">>]
\* A tool result whose text was cut in an unlucky place.
Cut == [display |-> TRUE, role |-> "user", parts |-> <<"refused">>]

MCEvents == {1, 2}
MCBodies == {Answer, Hidden, Silent, Result, Cut}

\* One upload: a part that is not audio, and a recording.
MCParts == {<<junk, a>>}

\* An edit of p while q connects again; p alone, with everything that may go wrong;
\* p alone, opening the chat twice.
Reopened == [browsers |-> {"p"}, linked |-> {"p"}, mishaps |-> {}, opens |-> 2]
MCScenes == {
    [browsers |-> {"p", "q"}, linked |-> {"p"}, mishaps |-> {}, opens |-> 1],
    [browsers |-> {"p"}, linked |-> {"p"}, opens |-> 1,
     mishaps |-> {"p"} \X {"request", "socket", "reload", "wake"}],
    Reopened}

MCInit ==
    /\ Init /\ ImportInit /\ OutboxInit /\ DraftsInit
    /\ part \in {"rows", "import", "outbox", "drafts"} /\ (part # "import" => dataDir)
    /\ part # "drafts" => scene = Reopened

MCNext ==
    /\ \/ part = "rows" /\ Next /\ UNCHANGED <<importVars, outboxVars, draftVars>>
       \/ part = "import" /\ ImportNext /\ UNCHANGED <<vars, outboxVars, draftVars>>
       \/ part = "outbox" /\ OutboxNext /\ UNCHANGED <<vars, importVars, draftVars>>
       \/ part = "drafts" /\ DraftsNext /\ UNCHANGED <<vars, importVars, outboxVars>>
    /\ UNCHANGED <<part, scene>>

\* ImportFairness, OutboxFairness and DraftsFairness, each in its own part.
Importing == part = "import"
Recording == part = "outbox"
Drafting == part = "drafts"
MCFairness ==
    /\ WF_importVars(Importing /\ ResumeStep)
    /\ \A j \in 1..MaxJobs : WF_importVars(Importing /\ JobRuns(j))
    /\ \A p \in Panels :
        /\ WF_outboxVars(Recording /\ CacheChunk(p)) /\ WF_outboxVars(Recording /\ Finish(p))
        /\ WF_outboxVars(Recording /\ Uploading(p))
    /\ WF_draftVars(Drafting /\ \E r \in reqs : ServerStep(r))
    /\ \A b \in Browsers :
        /\ WF_draftVars(Drafting /\ \E r \in reqs : AnswerArrives(b, r))
        /\ WF_draftVars(Drafting /\ \E e \in enq[b] : Enqueued(b, e))
        /\ WF_draftVars(Drafting /\ \E w \in waiting[b] : GoesOn(b, w))
        /\ WF_draftVars(Drafting /\ TimerFires(b)) /\ WF_draftVars(Drafting /\ Opened(b))
        /\ WF_draftVars(Drafting /\ YjsSocketOpens(b))

MCSpec ==
    /\ MCInit /\ [][MCNext]_<<vars, importVars, outboxVars, draftVars, part, scene>>
    /\ MCFairness
=============================================================================

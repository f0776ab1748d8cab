------------------------------ MODULE MCSafety ------------------------------
(* What is checked for safety alone, for TLC: an agent that fills the        *)
(* server's store; a browser that follows the server's feed, whose writers   *)
(* are more hostile than one agent; what the sync library does with files    *)
(* and says of paths; what the lines of a conversation look like in the two  *)
(* browser clients; and the link of the client store.  A behaviour is one of *)
(* the six, the others stay at their initial state.                          *)
EXTENDS AgentSync, SyncFeed, SyncCore, Policy, Transcript, StoreLink, TLC

CONSTANTS f1, m1, m2, w1, w2

VARIABLE part  \* "agent", "feed", "files", "paths", "transcript" or "link"

\* What is asked of the policy: one rule with any of the patterns, or two that overlap.
LOCAL a == <<"a">>
LOCAL ab == <<"a", "b">>
Words(S, n) == UNION {[1..k -> S] : k \in 1..n}
Under(root, S) == [root : {root}, segments : S]
MCHomeDir == <<<<"h">>>>
Globs == {AnyDepth, <<"*", "b">>, a, <<"a", "*">>, <<"?">>}
Patterns ==
    UNION {Under("absolute", Words(Globs, 2)), Under("home", {<<AnyDepth>>}),
           Under("relative", Words(Globs, 2) \cup {<<a, AnyDepth, <<"*", "b">>>>})}
Overlapping == Under("absolute", {<<AnyDepth>>}) \cup Under("relative", {<<a>>, <<<<"*", "b">>>>})
MCCases ==
    [path : UNION {Under("absolute", Words({a, ab}, 3) \cup {<<<<"*", "a", "b">>>>}),
                   Under("relative", Words({a, ab}, 2)), Under("home", {<<a>>})},
     rules : {<<[pattern |-> p, action |-> "ignore", mode |-> ""]>> : p \in Patterns}]
    \cup
    [path : Under("absolute", Words({a, ab}, 1)),
     rules : [1..2 -> [pattern : Overlapping, action : {"ignore", "noise", ""}, mode : {"", "append"}]]]

\* What agents write: the record types of the parsers' tests, and some they only cope with.
LOCAL Text(text) == [type |-> <<"text">>, text |-> text]
LOCAL Plain(text) == <<[text |-> text]>>
LOCAL Call == [type |-> <<"tool", "use">>, id |-> "c"]
LOCAL Failure == [type |-> <<"tool", "result">>, tool_use_id |-> "c", content |-> "t",
                  is_error |-> TRUE]
MCNotices == [n \in {"notice"} |-> "t"]
LOCAL Of(provider, objects) == [provider : {provider}, object : objects]
LOCAL Enveloped(type, payloads) == [type : {type}, payload : payloads]
LOCAL Told(role, parts) == [type |-> <<"message">>, role |-> role, content |-> parts]
LOCAL Reasoned(summary) == [type |-> <<"reasoning">>, summary |-> summary]
LOCAL Output == [type |-> <<"function", "call", "output">>, call_id |-> "c", output |-> "t"]
LOCAL Began == [type |-> ExecBegin, call_id |-> "c"]
LOCAL Ended == [type |-> ExecEnd, call_id |-> "c", stdout |-> "t", exit_code |-> 1]
LOCAL CodexItems ==
    {Told("user", Plain("t")), Told("assistant", <<[type |-> <<"output", "text">>, text |-> "t"]>>),
     Told("developer", Plain("t")), Told("assistant", Plain("")), Output,
     Reasoned(<<[type |-> <<"summary", "text">>, text |-> "t"]>>), Reasoned(<<>>),
     Told("user", Plain("notice")), Reasoned(<<[type |-> <<"summary", "text">>, text |-> "notice"]>>),
     [type |-> <<"function", "call">>, id |-> "i", call_id |-> "c"],
     [type |-> <<"web", "search", "call">>]}
LOCAL CodexMessages ==
    {[type |-> <<"user", "message">>, message |-> Plain("t")],
     [type |-> <<"agent", "message">>, message |-> Plain("t")],
     [type |-> <<"agent", "message">>, message |-> Plain("")],
     [type |-> <<"user", "message">>, message |-> Plain("notice")],
     [type |-> <<"agent", "reasoning">>, text |-> Plain("t")],
     [type |-> <<"token", "count">>], Began, Ended}
LOCAL CodexTopLevel ==
    {[type |-> <<"user", "message">>, spoken |-> Plain("t")],
     [type |-> <<"agent", "message">>, spoken |-> Plain("t")],
     [type |-> <<"reasoning">>, text |-> Plain("t")], Output, Began, Ended,
     [type |-> <<"response">>, entries |-> <<Told("assistant", Plain("t")), Output>>],
     [type |-> <<"item", "completed">>, item |-> Told("assistant", Plain("t"))],
     [type |-> <<"x">>, role |-> "user", content |-> Plain("t")], [type |-> <<"x">>]}
MCLines ==
    Of("codex", Enveloped(<<"response", "item">>, CodexItems)
                \cup Enveloped(<<"event", "msg">>, CodexMessages)
                \cup Enveloped(<<"session", "meta">>, {[id |-> "s"]})
                \cup Enveloped(<<"compacted">>, {[text |-> "t"]}) \cup CodexTopLevel)
    \cup
    Of("claude", UNION {[type : {<<role>>}, message : [role : {role}, content : {<<Text("t")>>,
                    <<Text("")>>, <<[type |-> <<"thinking">>, thinking |-> "t"], Call>>, <<Failure>>,
                    <<[type |-> <<"image">>], Text("t")>>}]] : role \in {"user", "assistant"}}
                 \cup {[type |-> <<"system">>, content |-> <<Text("t")>>],
                       [type |-> <<"summary">>]})
    \cup
    Of("gemini", [role : {"user", "model", "function"}, parts : {Plain("t"), <<Call>>, <<Failure>>}]
                 \cup {[content |-> <<[type |-> <<"thinking">>, text |-> "t"], Text("t")>>],
                       [content |-> <<[type |-> <<"thinking">>, text |-> "notice"], Text("notice")>>],
                       [text |-> <<[type |-> <<"thinking">>, text |-> "t"]>>]})
    \cup Of("aider", {[type |-> <<"user">>, content |-> Plain("t")]})

\* They are such lines as Browser_proofs speaks of.
ASSUME MCLinesAssumption ==
    \A line \in MCLines :
        PartsListed(line) /\ TypedByType(line) /\ ItemStaysHidden(line) /\ PayloadRepaired(line)

\* Only after two lines that may echo each other there is a third.
LOCAL Utterances ==
    {[type |-> <<role, "message">>, message |-> Plain("t")] : role \in {"user", "agent"}}
MCEchoes ==
    Of("codex", Enveloped(<<"event", "msg">>, Utterances \cup {[type |-> <<"token", "count">>]})
                \cup Enveloped(<<"response", "item">>, CodexItems))

MCInit ==
    /\ Init /\ FeedInit /\ CoreInit /\ PolicyInit /\ TranscriptInit /\ LinkInit
    /\ part \in {"agent", "feed", "files", "paths", "transcript", "link"}
    /\ part # "files" => id = [inode |-> 1, dev |-> 1]
    /\ part # "transcript" => parser = "new"
    /\ part # "feed" => lookback = Short

MCNext ==
    /\ \/ part = "agent" /\ Next /\ UNCHANGED <<feedVars, coreVars, asked, transcriptVars, linkVars>>
       \/ /\ part = "feed" /\ FeedNext
          /\ (feedMishaps' > 0 => settings' = 0 /\ lookback' = Short)
          /\ UNCHANGED <<vars, coreVars, asked, transcriptVars, linkVars>>
       \/ part = "files" /\ CoreNext /\ UNCHANGED <<vars, feedVars, asked, transcriptVars, linkVars>>
       \/ /\ part = "paths" /\ PolicyNext
          /\ UNCHANGED <<vars, feedVars, coreVars, transcriptVars, linkVars>>
       \/ /\ part = "transcript" /\ (Len(log) = 2 => \A i \in {1, 2} : log[i] \in MCEchoes)
          /\ TranscriptNext /\ UNCHANGED <<vars, feedVars, coreVars, asked, linkVars>>
       \/ part = "link" /\ LinkNext /\ UNCHANGED <<vars, feedVars, coreVars, asked, transcriptVars>>
    /\ UNCHANGED part

MCSpec == MCInit /\ [][MCNext]_<<vars, feedVars, coreVars, asked, transcriptVars, linkVars, part>>

\* The chats of the feed are interchangeable: no definition names one.
Symmetry == Permutations(Sources)
=============================================================================

------------------------------- MODULE Transcript -------------------------------
(***************************************************************************)
(* What becomes of a line of a conversation: the parsers of an agent       *)
(* (packages/parsers, apps/agent/v2/upload.ts) make an event of it, the    *)
(* server makes render rows of the event for one browser client            *)
(* (apps/backend/sync-v3/render.ts) and, when it is read, a message of the *)
(* older form for the other (normalizedEventToLegacyRaw of                 *)
(* v2-read-model.ts), whose transcript is flattened by                     *)
(* apps/frontend/chat-transcript/transform.ts.                             *)
(*                                                                         *)
(* A line is a JSON object: a record of the fields it has.  The name of a  *)
(* type is the sequence of its words; a string in place of content is one  *)
(* part without a type.  A text may be the notice of a subagent, of which  *)
(* only its status is read.  Left out: timestamps, names and inputs of     *)
(* tools, the cut of long outputs, markdown, notices whose status is       *)
(* blank, and the id that is made up for a call without one.               *)
(***************************************************************************)
EXTENDS Naturals, Sequences, SequencesExt

CONSTANTS
    Lines,    \* the lines that may be written: set of [provider, object]
    Notices,  \* [text of a subagent's notice -> its status]
    MaxLog    \* bound: lines of a conversation

VARIABLES
    log,      \* the lines of the conversation, in their order
    made,     \* agent_normalized_events: what was made of each line
    parser    \* the parsers of the agent that is running: "old" or "new"

transcriptVars == <<log, made, parser>>

\* o.f1 ?? o.f2 ?? ... ?? default
First(o, fields, default) ==
    LET present == {i \in DOMAIN fields : fields[i] \in DOMAIN o}
    IN  IF present = {} THEN default ELSE o[fields[Min(present)]]

\* type.includes(word)
Mentions(type, word) ==
    \E i \in 1 .. Len(type) - Len(word) + 1 : SubSeq(type, i, i + Len(word) - 1) = word
AnyMentions(types, words) == \E t \in types, w \in words : Mentions(t, w)

NoType == <<>>
NoId == ""

Each(s, Op(_)) == FlattenSeq([i \in DOMAIN s |-> Op(s[i])])

----------------------------------------------------------------------------
(* content.ts, common.ts *)

NormalizeRole(role) ==
    CASE role \in {"user", "human"} -> "user"
      [] role \in {"assistant", "model", "agent"} -> "assistant"
      [] role \in {"tool", "function"} -> "tool"
      [] OTHER -> "system"

\* A role may be given by a type, which has one word then.
RoleOfType(type) == IF Len(type) = 1 THEN NormalizeRole(type[1]) ELSE "system"

TextPart(text) == IF text = "" THEN <<>> ELSE <<[kind |-> "text", text |-> text]>>
ThinkingPart(text) == IF text = "" THEN <<>> ELSE <<[kind |-> "thinking", text |-> text]>>
EventPart(data) == <<[kind |-> "event", data |-> data]>>

TextTypes == {<<"text">>, <<"input", "text">>, <<"output", "text">>, <<"summary", "text">>}
ThinkingTypes == {<<"thinking">>, <<"reasoning">>, <<"reasoning", "text">>}
CallTypes == {<<"tool", "use">>, <<"server", "tool", "use">>, <<"function", "call">>,
              <<"tool", "call">>}
ResultTypes == {<<"tool", "result">>, <<"function", "call", "output">>, <<"tool", "output">>}
ImageTypes == {<<"image">>, <<"image", "url">>, <<"input", "image">>}

NormalizeContentPart(part) ==
    LET type == First(part, <<"type">>, NoType) IN
    CASE type \in TextTypes -> TextPart(First(part, <<"text">>, ""))
      [] type \in ThinkingTypes -> ThinkingPart(First(part, <<"thinking", "text", "content">>, ""))
      [] type \in CallTypes ->
            <<[kind |-> "tool_call", id |-> First(part, <<"id", "tool_use_id", "call_id">>, NoId)]>>
      [] type \in ResultTypes ->
            <<[kind |-> "tool_result", id |-> First(part, <<"tool_use_id", "id", "call_id">>, NoId),
               out |-> First(part, <<"content", "output", "result">>, ""),
               err |-> First(part, <<"is_error", "isError", "error">>, FALSE)]>>
      [] type \in ImageTypes -> EventPart(part)
      [] OTHER -> IF "text" \in DOMAIN part THEN TextPart(part.text) ELSE EventPart(part)

Normalize(content) == Each(content, NormalizeContentPart)

All(parts, kind) == parts # <<>> /\ \A i \in DOMAIN parts : parts[i].kind = kind

KindFor(role, parts, type) ==
    IF Mentions(type, <<"session">>) THEN "session"
    ELSE IF Mentions(type, <<"turn">>) THEN "turn"
    ELSE IF Mentions(type, <<"meta">>) THEN "meta"
    ELSE IF \E kind \in {"thinking", "tool_call", "tool_result"} : All(parts, kind)
         THEN parts[1].kind
         ELSE IF role = "system" THEN "event" ELSE "message"

\* normalizeClaudeRecord
ClaudeEvent(o) ==
    LET message == First(o, <<"message">>, <<>>)
        type == First(o, <<"type">>, NoType)
        role == IF "role" \in DOMAIN message THEN NormalizeRole(message.role) ELSE RoleOfType(type)
        parts == Normalize(First(message, <<"content">>, First(o, <<"content">>, <<>>)))
    IN  [kind |-> KindFor(role, parts, type), role |-> role, parts |-> parts,
         display |-> role # "system" /\ parts # <<>>,
         source |-> [provider |-> "claude", rawType |-> type,
                    rawKind |-> First(o, <<"kind">>, First(message, <<"type">>, type))]]

\* normalizeGeminiRecord
GeminiEvent(o) ==
    LET type == First(o, <<"type">>, NoType)
        role == NormalizeRole(First(o, <<"role">>, ""))
        parts == Normalize(First(o, <<"parts", "content", "text">>, <<>>))
    IN  [kind |-> KindFor(role, parts, type), role |-> role, parts |-> parts,
         display |-> parts # <<>>,
         source |-> [provider |-> "gemini", rawType |-> type, rawKind |-> type]]

\* normalizeUnknownRecord, and what comes of a line that is no JSON.
UnknownEvent(o) ==
    [kind |-> "event", role |-> "system", parts |-> EventPart(o), display |-> FALSE,
     source |-> [provider |-> "unknown", rawType |-> First(o, <<"type">>, NoType),
                 rawKind |-> First(o, <<"type">>, NoType)]]

----------------------------------------------------------------------------
(* codex.ts *)

Item(o) == First(o, <<"item">>, <<>>)
Message(o) == First(o, <<"message">>, <<>>)
Payload(o) == First(o, <<"payload">>, <<>>)
TypeOf(o) == First(o, <<"type">>, First(Item(o), <<"type">>, First(Message(o), <<"type">>, NoType)))
KindOf(o) == First(o, <<"kind", "event">>,
                First(Item(o), <<"type">>, First(Message(o), <<"type">>, TypeOf(o))))
SourceOf(o) == [provider |-> "codex", rawType |-> TypeOf(o), rawKind |-> KindOf(o)]

CodexEventOf(kind, role, parts, display, source) ==
    [kind |-> kind, role |-> role, parts |-> parts, display |-> display, source |-> source]

\* compactEventData
CompactData(o) == [f \in DOMAIN o \ {"type", "kind", "event"} |-> o[f]]

CallPart(o) == <<[kind |-> "tool_call", id |-> First(o, <<"call_id", "tool_call_id", "id">>, NoId)]>>

\* codexToolResultPart
ResultPart(o) ==
    <<[kind |-> "tool_result", id |-> First(o, <<"call_id", "tool_call_id", "id">>, NoId),
       out |-> First(o, <<"output", "formatted_output", "aggregated_output", "stdout", "content",
                          "result">>, ""),
       err |-> First(o, <<"is_error", "isError", "error">>,
                  First(o, <<"status">>, "") = "failed" \/ First(o, <<"exit_code">>, 0) # 0)]>>

AsThinking(parts) ==
    [i \in DOMAIN parts |-> IF parts[i].kind = "text" THEN [parts[i] EXCEPT !.kind = "thinking"]
                            ELSE parts[i]]

ItemCalls == {<<"function", "call">>, <<"tool", "call">>, <<"custom", "tool", "call">>,
              <<"tool", "search", "call">>}
ItemResults == {<<"function", "call", "output">>, <<"tool", "result">>,
                <<"custom", "tool", "call", "output">>, <<"tool", "search", "output">>}

\* normalizeCodexItem
ItemEvent(item, source) ==
    LET type == First(item, <<"type">>, NoType)
        role == NormalizeRole(First(item, <<"role">>, ""))
        parts == Normalize(First(item, <<"content">>, <<>>))
        summary == AsThinking(Normalize(First(item, <<"summary", "content", "text">>, <<>>)))
    IN  CASE type = <<"message">> ->
               CodexEventOf(KindFor(role, parts, type), role, parts,
                            role \in {"user", "assistant"} /\ parts # <<>>, source)
          [] type \in ItemCalls -> CodexEventOf("tool_call", "tool", CallPart(item), TRUE, source)
          [] type \in ItemResults ->
               CodexEventOf("tool_result", "tool", ResultPart(item), TRUE, source)
          [] type = <<"reasoning">> ->
               CodexEventOf("thinking", "assistant", summary, summary # <<>>, source)
          [] OTHER -> CodexEventOf("event", "system", EventPart(item), FALSE, source)

\* normalizeCodexOutputItem
OutputParts(entry) ==
    LET type == First(entry, <<"type">>, NoType) IN
    CASE type = <<"message">> -> Normalize(First(entry, <<"content">>, <<>>))
      [] type \in ItemCalls -> CallPart(entry)
      [] type \in ItemResults -> ResultPart(entry)
      [] type = <<"reasoning">> ->
            AsThinking(Normalize(First(entry, <<"summary", "content", "text">>, <<>>)))
      [] OTHER -> Normalize(First(entry, <<"content", "text">>, <<>>))

\* normalizeCodexPayloadEnvelope: some types of payload it leaves to what follows.
Spoken == {<<"user", "message">>, <<"agent", "message">>}
ExecBegin == <<"exec", "command", "begin">>
ExecEnd == <<"exec", "command", "end">>
Framing == {<<"session", "meta">>, <<"turn", "context">>, <<"compacted">>}

FramingKind(types) ==
    IF AnyMentions(types, {<<"turn">>}) THEN "turn"
    ELSE IF AnyMentions(types, {<<"meta">>}) THEN "meta" ELSE "session"

IsEnvelope(o) ==
    LET type == First(Payload(o), <<"type">>, KindOf(o)) IN
    /\ "payload" \in DOMAIN o
    /\ \/ TypeOf(o) = <<"response", "item">>
       \/ TypeOf(o) = <<"event", "msg">> /\ type \in Spoken \cup {ExecBegin, ExecEnd}
       \/ TypeOf(o) \in Framing

EnvelopeEvent(o) ==
    LET payload == Payload(o)
        type == First(payload, <<"type">>, KindOf(o))
        source == [SourceOf(o) EXCEPT !.rawKind = type]
        role == IF type = <<"agent", "message">> THEN "assistant" ELSE "user"
        parts == Normalize(First(payload, <<"message", "content", "text">>, <<>>))
    IN  CASE TypeOf(o) = <<"response", "item">> -> ItemEvent(payload, source)
          [] TypeOf(o) \in Framing ->
               CodexEventOf(FramingKind({TypeOf(o)}), "system", EventPart(payload), FALSE, source)
          [] TypeOf(o) = <<"event", "msg">> /\ type \in Spoken ->
               CodexEventOf(KindFor(role, parts, type), role, parts, parts # <<>>, source)
          [] TypeOf(o) = <<"event", "msg">> /\ type = ExecBegin ->
               CodexEventOf("tool_call", "tool", CallPart(payload), TRUE, source)
          [] TypeOf(o) = <<"event", "msg">> /\ type = ExecEnd ->
               CodexEventOf("tool_result", "tool", ResultPart(payload), TRUE, source)

\* isSessionLike, isCodexToolCall, isCodexToolResult, isCodexUserMessage,
\* isCodexAssistantMessage, of the type and the kind.
IsSession(types) ==
    \/ AnyMentions(types, {<<"session">>, <<"turn", "context">>, <<"meta">>})
    \/ types \cap {<<"turn">>, <<"context">>} # {}
IsCall(types) == AnyMentions(types, {<<"tool", "call">>, <<"function", "call">>,
                                     <<"tool", "search", "call">>, ExecBegin})
IsResult(types) == AnyMentions(types, {<<"tool", "result">>, <<"function", "call", "output">>,
    <<"tool", "search", "output">>, <<"tool", "output">>, <<"exec", "command", "output">>, ExecEnd})
IsUser(type, types) ==
    type \in {<<"user">>, <<"input", "text">>} \/ AnyMentions(types, {<<"user", "message">>})
IsAssistant(type, types) ==
    \/ type = <<"assistant">> \/ Mentions(type, <<"output", "text">>)
    \/ AnyMentions(types, {<<"assistant", "message">>, <<"agent", "message">>,
                           <<"model", "output">>, <<"reasoning">>})

RoleOf(o) == NormalizeRole(First(o, <<"role">>, First(Message(o), <<"role">>, "")))

\* The readings of a line in the order in which they are tried: the first that
\* applies is taken.
CodexReadings == <<"envelope", "session", "item", "output", "call", "result", "user", "assistant",
              "role", "event">>

Applies(reading, o, type, types) ==
    CASE reading = "envelope" -> IsEnvelope(o)
      [] reading = "session" -> IsSession(types)
      [] reading = "item" -> "item" \in DOMAIN o
      [] reading = "output" -> "entries" \in DOMAIN o
      [] reading = "call" -> IsCall(types)
      [] reading = "result" -> IsResult(types)
      [] reading = "user" -> IsUser(type, types)
      [] reading = "assistant" -> IsAssistant(type, types)
      [] reading = "role" -> RoleOf(o) # "system"
      [] reading = "event" -> TRUE

ReadingOf(o) ==
    CodexReadings[Min({i \in DOMAIN CodexReadings :
                         Applies(CodexReadings[i], o, TypeOf(o), {TypeOf(o), KindOf(o)})})]

\* The last reading: it keeps the line as data, and hides it.
KeptAsData(o) ==
    CodexEventOf("event", "system", EventPart(CompactData(o)), FALSE, SourceOf(o))

\* o.message, a string or an object, before the other fields
Said(o, fields) ==
    Normalize(First(o, <<"spoken">>, First(Message(o), <<"content">>, First(o, fields, <<>>))))

\* What a record says that holds several entries, or a message of some role.
Entries(o) == Each(First(o, <<"entries">>, <<>>), OutputParts)
Held(o) ==
    Normalize(First(Message(o), <<"content">>, First(o, <<"content", "text", "spoken">>, <<>>)))

\* The content of an assistant's record that mentions reasoning is thinking.
Heard(types, told) == IF AnyMentions(types, {<<"reasoning">>}) THEN AsThinking(told) ELSE told

MessageOf(kind, role, parts, source) == CodexEventOf(kind, role, parts, parts # <<>>, source)
SpeechOf(parts, source) ==
    MessageOf(IF All(parts, "thinking") THEN "thinking" ELSE "message", "assistant", parts, source)
RoleMessage(role, parts, type, source) ==
    MessageOf(KindFor(role, parts, type), role, parts, source)

EventAs(reading, o, type, types, source) ==
    CASE reading = "envelope" -> EnvelopeEvent(o)
      [] reading = "session" -> [KeptAsData(o) EXCEPT !.kind = FramingKind(types)]
      [] reading = "item" -> ItemEvent(o.item, source)
      [] reading = "output" -> RoleMessage("assistant", Entries(o), type, source)
      [] reading = "call" -> CodexEventOf("tool_call", "tool", CallPart(o), TRUE, source)
      [] reading = "result" -> CodexEventOf("tool_result", "tool", ResultPart(o), TRUE, source)
      [] reading = "user" ->
            MessageOf("message", "user", Said(o, <<"content", "text", "input">>), source)
      [] reading = "assistant" ->
            SpeechOf(Heard(types, Said(o, <<"content", "text", "summary">>)), source)
      [] reading = "role" -> RoleMessage(RoleOf(o), Held(o), type, source)
      [] reading = "event" -> KeptAsData(o)

\* normalizeCodexRecord
CodexEvent(o) == EventAs(ReadingOf(o), o, TypeOf(o), {TypeOf(o), KindOf(o)}, SourceOf(o))

\* normalizeTranscriptRecord with the provider of the file
Parse(line) ==
    CASE line.provider = "claude" -> ClaudeEvent(line.object)
      [] line.provider = "codex" -> CodexEvent(line.object)
      [] line.provider = "gemini" -> GeminiEvent(line.object)
      [] OTHER -> UnknownEvent(line.object)

\* Earlier parsers knew no envelopes, as the tests of v2-read-model.ts show their events.
ParseOld(line) ==
    IF line.provider = "codex" /\ "payload" \in DOMAIN line.object
    THEN KeptAsData(line.object) ELSE Parse(line)

----------------------------------------------------------------------------
(* render.ts: the rows of an event that are displayed *)

\* readableText: both clients have it
ReadableText(text) == IF text \in DOMAIN Notices THEN Notices[text] ELSE text

Row(kind, role, text, id, err) ==
    [kind |-> kind, role |-> role, text |-> text, id |-> id, err |-> err]

TextRole(role) ==
    CASE role = "assistant" -> "assistant" [] role \in {"user", "tool"} -> "user" [] OTHER -> "none"

\* appendContentPart, of a part as the parsers make it
RowOf(role, part) ==
    CASE part.kind = "text" ->
           IF role = "none" THEN <<>>
           ELSE <<Row("text", role, ReadableText(part.text), NoId, FALSE)>>
      [] part.kind = "thinking" ->
           <<Row("thinking", "none", ReadableText(part.text), NoId, FALSE)>>
      [] part.kind = "tool_call" -> <<Row("tool_use", "none", "", part.id, FALSE)>>
      [] part.kind = "tool_result" ->
           <<Row("tool_result", "none", part.out, part.id, part.err)>>
      [] OTHER -> <<>>

\* eventToRenderRows
RowsOf(event) ==
    IF ~event.display THEN <<>>
    ELSE Each(event.parts, LAMBDA part : RowOf(TextRole(event.role), part))

----------------------------------------------------------------------------
(* v2-read-model.ts: the older form of an event *)

RepairedTypes == {<<"response", "item">>, <<"event", "msg">>, <<"session", "meta">>,
                  <<"turn", "context">>}

\* The data of the first part, if it is an event's.
DataOf(event) == IF event.parts # <<>> THEN First(event.parts[1], <<"data">>, <<>>) ELSE <<>>

\* An altered form: the data is taken for the whole line.
RestoredBare(event) == DataOf(event)

\* The line again, as far as it was kept.
Restored(event) ==
    LET data == DataOf(event)
    IN  [f \in DOMAIN data \cup {"type"} |->
            IF f \in DOMAIN data THEN data[f] ELSE event.source.rawType]

\* repairLegacyCodexPayloadEvent
Repaired(event) ==
    IF /\ event.source.provider = "codex" /\ event.kind = "event" /\ ~event.display
       /\ event.source.rawType \in RepairedTypes
    THEN CodexEvent(Restored(event)) ELSE event

\* An altered form: the mark of an error is not found under its new name.
LegacyPartUnmarked(part) ==
    CASE part.kind = "text" -> <<[type |-> "text", text |-> part.text]>>
      [] part.kind = "thinking" -> <<[type |-> "thinking", thinking |-> part.text]>>
      [] part.kind = "tool_call" -> <<[type |-> "tool_use", id |-> part.id]>>
      [] part.kind = "tool_result" ->
            <<[type |-> "tool_result", tool_use_id |-> part.id, content |-> part.out,
               is_error |-> FALSE]>>
      [] OTHER -> <<>>

\* legacyContentPart
LegacyPart(part) ==
    CASE part.kind = "text" -> <<[type |-> "text", text |-> part.text]>>
      [] part.kind = "thinking" -> <<[type |-> "thinking", thinking |-> part.text]>>
      [] part.kind = "tool_call" -> <<[type |-> "tool_use", id |-> part.id]>>
      [] part.kind = "tool_result" ->
            <<[type |-> "tool_result", tool_use_id |-> part.id, content |-> part.out,
               is_error |-> part.err]>>
      [] OTHER -> <<>>

\* displayRole
DisplayRole(event) ==
    IF event.role = "assistant" \/ event.kind \in {"thinking", "tool_call"} THEN "assistant"
    ELSE IF event.role \in {"user", "tool"} \/ event.kind = "tool_result" THEN "user"
    ELSE "none"

\* normalizedEventToLegacyRaw: a message, or only the normalized event
RawOf(normalized, content) ==
    [role |-> IF normalized.display /\ content # <<>> THEN DisplayRole(normalized) ELSE "none",
     content |-> content, normalized |-> normalized]
RawMessage(normalized) == RawOf(normalized, Each(normalized.parts, LegacyPart))
LegacyRaw(event) == RawMessage(Repaired(event))

----------------------------------------------------------------------------
(* transform.ts: the transcript of the older client *)

\* appendContentPart, of a part of a message: thinking stays as it is
FlatPart(role, part) ==
    CASE part.type = "text" -> <<Row("text", role, ReadableText(part.text), NoId, FALSE)>>
      [] part.type = "thinking" -> <<Row("thinking", "none", part.thinking, NoId, FALSE)>>
      [] part.type = "tool_use" -> <<Row("tool_use", "none", "", part.id, FALSE)>>
      [] part.type = "tool_result" ->
            <<Row("tool_result", "none", part.content, part.tool_use_id, part.is_error)>>

\* appendContentPart, of a part of a normalized event
FlatNormalized(role, part) ==
    IF part.kind = "thinking" THEN <<Row("thinking", "none", part.text, NoId, FALSE)>>
    ELSE RowOf(role, part)

\* flattenEvent: the message, else the normalized event if it is to be displayed
FlattenEvent(raw) ==
    IF raw.role # "none" THEN Each(raw.content, LAMBDA part : FlatPart(raw.role, part))
    ELSE IF raw.normalized.display
         THEN Each(raw.normalized.parts,
                   LAMBDA part : FlatNormalized(TextRole(raw.normalized.role), part))
         ELSE <<>>

\* An altered form: whichever of the two comes second.
EchoOfEither(entry, neighbour) ==
    /\ entry.source.provider = "codex" /\ neighbour.source.provider = "codex"
    /\ entry.shown # <<>> /\ entry.shown = neighbour.shown

\* isCodexMessageEcho and sameTextParts
IsEcho(entry, neighbour) ==
    /\ entry.source.provider = "codex" /\ neighbour.source.provider = "codex"
    /\ entry.source.rawType = <<"event", "msg">> /\ entry.source.rawKind \in Spoken
    /\ neighbour.source.rawType = <<"response", "item">>
    /\ entry.shown # <<>> /\ entry.shown = neighbour.shown
    /\ \A i \in DOMAIN entry.shown : entry.shown[i].kind = "text"

\* flatten
EntryOf(raw) == [source |-> raw.normalized.source, shown |-> FlattenEvent(raw)]
Entry(event) == EntryOf(LegacyRaw(event))
Left(entries, i) ==
    \A j \in {i - 1, i + 1} \cap DOMAIN entries : ~IsEcho(entries[i], entries[j])
ShownBeside(entries, i) ==
    \E j \in {i - 1, i + 1} \cap DOMAIN entries :
        Left(entries, j) /\ entries[j].shown = entries[i].shown
AllShown(entries) == \A i \in DOMAIN entries : Left(entries, i) \/ ShownBeside(entries, i)

----------------------------------------------------------------------------
(* Specification *)

\* An agent is installed; a later one has the parsers of today.
TranscriptInit == log = <<>> /\ made = <<>> /\ parser \in {"old", "new"}

\* normalizeRecord: a line that was written is parsed and sent.
Written(line) ==
    /\ Len(log) < MaxLog
    /\ \A i \in DOMAIN log : log[i].provider = line.provider
    /\ log' = Append(log, line)
    /\ made' = Append(made, IF parser = "new" THEN Parse(line) ELSE ParseOld(line))
    /\ UNCHANGED parser

Upgraded ==
    /\ parser = "old" /\ parser' = "new"
    /\ UNCHANGED <<log, made>>

TranscriptNext == Upgraded \/ \E line \in Lines : Written(line)

TranscriptSpec == TranscriptInit /\ [][TranscriptNext]_transcriptVars

----------------------------------------------------------------------------
(* Properties *)

\* The parts of what the parser makes of a line are a list, as the content in a line is.
PartsListed(line) ==
    LET parts == Parse(line).parts
    IN  parts \in Seq(ToSet(parts)) /\ \A i \in DOMAIN parts : "kind" \in DOMAIN parts[i]

\* A line of Codex is typed by "type", and neither by "kind" nor by "event".
TypedByType(line) ==
    line.provider = "codex" =>
        /\ line.object = [f \in DOMAIN line.object |-> line.object[f]]
        /\ "type" \in DOMAIN line.object /\ DOMAIN line.object \cap {"kind", "event"} = {}

\* An item that the parser hides is no message when it is taken for a line of its own.
ItemStaysHidden(line) ==
    /\ line.provider = "codex" /\ ReadingOf(line.object) \in {"envelope", "item"}
    /\ ~Parse(line).display
    => ~Repaired(Parse(line)).display

\* What comes with a payload has one of the repaired types, or is not displayed.
PayloadRepaired(line) ==
    line.provider = "codex" /\ "payload" \in DOMAIN line.object =>
        line.object.type \in RepairedTypes \/ ~Parse(line).display

\* A row of which the thinking is read as a text is.
ThoughtRead(row) ==
    IF row.kind = "thinking" THEN [row EXCEPT !.text = ReadableText(@)] ELSE row
ThoughtsRead(rows) == [i \in DOMAIN rows |-> ThoughtRead(rows[i])]

\* The two clients show the same of an event that today's parsers have made, part by part,
\* with the same roles, texts, ids and errors (render.ts calls itself a port of
\* transform.ts), but for one thing: a notice that comes as thinking is read by render.ts
\* (line 136) and shown as it is by transform.ts (line 63).  The way over the older form
\* loses nothing and adds nothing.
ShownAlike ==
    \A i \in DOMAIN made : made[i] = Parse(log[i]) =>
        RowsOf(made[i]) = ThoughtsRead(FlattenEvent(LegacyRaw(made[i])))

\* The older client shows a line that an old agent has parsed as if a new one had: what
\* the older parsers kept of it is enough (repairLegacyCodexPayloadEvent).
OldLinesRepaired ==
    \A i \in DOMAIN made :
        \/ Entry(made[i]) = Entry(Parse(log[i]))
        \/ ~Parse(log[i]).display /\ Entry(made[i]).shown = <<>>

\* No message is lost to the search for echoes: what is left out of the transcript is
\* still shown, word for word, by the entry beside it (flatten).
NoMessageVanishes == AllShown([i \in DOMAIN made |-> Entry(made[i])])
=============================================================================

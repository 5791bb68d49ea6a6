------------------------------ MODULE Response ------------------------------
(***************************************************************************)
(* One chat request between the engine and its client                      *)
(* (products/serve/src/server/http.rs): the task `translate`, which reads  *)
(* the engine's events, drives a HarmonyParser and sends response events   *)
(* on a bounded channel, and the reader of that channel, the body of an    *)
(* SSE response or non_stream_response.                                    *)
(*                                                                         *)
(* The engine is the environment.  It writes tokens up to the budget or a  *)
(* stop token and sends one terminal event, or is dropped without one.  An *)
(* event is produced when the task receives it: what waits in the engine's *)
(* channel changes nothing for the task.  Of the event channel itself      *)
(* Engine.tla is the model.                                                *)
(***************************************************************************)
EXTENDS HarmonyParser

CONSTANTS
  None,
  ResponseCapacity,  \* bound of the channel of response events (64)
  Budgets,           \* bound: max_new_tokens of a request
  Headers,           \* bound: the headers that the model may write
  BodyTokens,        \* bound: the tokens of text it may write in a body
  MaxBody            \* bound: tokens of a body

ASSUME ResponseAssumption ==
  /\ ResponseCapacity \in Nat \ {0}
  /\ Budgets \subseteq Nat /\ MaxBody \in Nat
  /\ Headers \subseteq Seq(Tokens) /\ BodyTokens \subseteq Fields \cup Halves

VARIABLES
  streamed, includeUsage, budget,  \* the request
  engine,      \* whether the request is queued, written or over
  written,     \* the tokens that the engine has sent
  parser,
  task,        \* what translate is doing
  outbox,      \* response events it still has to send
  ending,      \* how it ends when they are sent
  stopReason,  \* stop_reason: what the parser's Done said
  responses,   \* the channel of response events
  cancelled,   \* the guard has cancelled the request
  client,      \* the reader
  received,    \* what it has read
  answer       \* the answer to a request without stream

request == <<streamed, includeUsage, budget>>
reader == <<client, received, answer>>
vars == <<request, engine, written, parser, task, outbox, ending, stopReason,
          responses, cancelled, reader>>

Reasons == {"stop", "tool_calls", "length"}

Chunk ==
  [kind : {"Role", "Usage", "Done", "Failure"}]
    \cup [kind : {"Content", "Reasoning", "ToolCall"}, text : Seq(Letters)]
    \cup [kind : {"Terminal"}, reason : Reasons]

TypeOK ==
  /\ {streamed, includeUsage, cancelled} \subseteq BOOLEAN
  /\ budget \in Budgets
  /\ engine \in {"queued", "running", "over"}
  /\ written \in Seq(Tokens) /\ Len(written) <= budget
  /\ parser.kind \in {"Header", "Content", "ExpectStart", "Terminal", "Truncated", "Failed"}
  /\ task \in {"waiting", "sending", "ended"}
  /\ outbox \in Seq(Chunk) /\ (task = "sending" <=> outbox # << >>)
  /\ ending \in {"none", "complete", "told", "failed"}
  /\ stopReason \in {None, "Return", "ToolCall", "Length"}
  /\ responses \in Seq(Chunk) /\ Len(responses) <= ResponseCapacity
  /\ client \in {"reading", "answered", "gone"}
  /\ received \in Seq(Chunk)
  /\ answer \in {None, "response", "error"}

RoleChunk == [kind |-> "Role"]
FailureChunk == [kind |-> "Failure"]

Init ==
  /\ streamed \in BOOLEAN /\ includeUsage \in BOOLEAN
  /\ budget \in Budgets
  /\ engine = "queued"
  /\ written = << >>
  /\ parser = NewParser
  /\ task = "sending"
  /\ outbox = <<RoleChunk>>
  /\ ending = "none"
  /\ stopReason = None
  /\ responses = << >>
  /\ cancelled = FALSE
  /\ client = "reading"
  /\ received = << >>
  /\ answer = None

-----------------------------------------------------------------------------
(* What becomes of the parser's events.                                    *)

\* map_harmony_event.
Mapped(event) ==
  CASE event.kind = "ContentDelta" ->
         <<[kind |-> IF event.channel = "final" THEN "Content" ELSE "Reasoning",
            text |-> event.text]>>
    [] event.kind = "ToolCall" -> <<[kind |-> "ToolCall", text |-> event.text]>>
    [] OTHER -> << >>

Chunks(events) == FlattenSeq([i \in DOMAIN events |-> Mapped(events[i])])

StopReasonAfter(events) ==
  IF events # << >> /\ Last(events).kind = "Done" THEN Last(events).reason ELSE stopReason

\* The slip calls every stop token a stop.
StopReasonName(reason) == IF reason = "Length" THEN "length" ELSE "stop"
FinishReason(reason) ==
  CASE reason = "Return" -> "stop" [] reason = "ToolCall" -> "tool_calls" [] reason = "Length" -> "length"

\* The task sends these, and ends in this way behind them.
Sends(chunks, end) ==
  /\ outbox' = chunks
  /\ ending' = end
  /\ task' = IF chunks = << >> THEN "waiting" ELSE "sending"

Fails == Sends(<<FailureChunk>>, "failed")

-----------------------------------------------------------------------------
(* Events of the engine, as translate receives them.                       *)

Listening == task = "waiting" /\ engine # "over"

\* Admission: the request gets its pages and its place.
Admit ==
  /\ engine = "queued"
  /\ engine' = "running"
  /\ UNCHANGED <<request, written, parser, task, outbox, ending, stopReason, responses,
                 cancelled, reader>>

Stopped == written # << >> /\ IsStopToken(Last(written))
IsComplete == Stopped \/ Len(written) = budget

\* The bounds of what the model writes.
MayWrite(token) ==
  CASE parser.kind = "Header" ->
         \/ token \in {"MESSAGE", "START", "RETURN"}
         \/ \E header \in Headers : IsPrefix(Append(parser.tokens, token), header)
    [] parser.kind = "Content" ->
         \/ token \in Delimiters \cup {"OTHER"}
         \/ token \in BodyTokens /\ Len(parser.content) + Len(parser.pending) < MaxBody
    [] OTHER -> token \in {"START", "CALL", "text"}

Raw(token) ==
  /\ Listening /\ engine = "running" /\ ~IsComplete
  /\ MayWrite(token)
  /\ written' = Append(written, token)
  /\ \E result \in Process(parser, token) :
       /\ parser' = result.parser
       /\ IF result.ok
          THEN /\ Sends(Chunks(result.events), "none")
               /\ stopReason' = StopReasonAfter(result.events)
          ELSE Fails /\ UNCHANGED stopReason
  /\ UNCHANGED <<request, engine, responses, cancelled, reader>>

\* The parser must agree with the engine on how the completion ended.
Complete ==
  /\ Listening /\ engine = "running" /\ IsComplete
  /\ engine' = "over"
  /\ LET result   == IF Stopped THEN Finish(parser) ELSE Truncate(parser)
         observed == IF Stopped THEN stopReason ELSE StopReasonAfter(result.events)
         reason   == Last(result.events).reason
         deltas   == IF Stopped THEN << >> ELSE Chunks(result.events)
     IN  /\ parser' = result.parser
         /\ IF result.ok
            THEN /\ stopReason' = observed
                 /\ IF observed # None /\ observed # reason
                    THEN Sends(Append(deltas, FailureChunk), "failed")
                    ELSE Sends(deltas \o <<[kind |-> "Terminal", reason |-> FinishReason(reason)]>>
                                 \o (IF includeUsage THEN <<[kind |-> "Usage"]>> ELSE << >>)
                                 \o <<[kind |-> "Done"]>>, "complete")
            ELSE Fails /\ UNCHANGED stopReason
  /\ UNCHANGED <<request, written, responses, cancelled, reader>>

\* Cancelled or Failed.
Told ==
  /\ Listening
  /\ engine' = "over"
  /\ Sends(<<FailureChunk>>, "told")
  /\ UNCHANGED <<request, written, parser, stopReason, responses, cancelled, reader>>

\* The engine's sender is dropped without a terminal event.
Dropped ==
  /\ Listening
  /\ engine' = "over"
  /\ Fails
  /\ UNCHANGED <<request, written, parser, stopReason, responses, cancelled, reader>>

-----------------------------------------------------------------------------
(* Sending.  The task notices that its reader has left only here.          *)

\* The outcome of these sends is ignored.
IsIgnored(chunk) == chunk.kind \in {"Done", "Failure"}

\* The guard is armed unless the engine's terminal event has been dealt with.  The slip
\* disarms it whenever the client has been told.
EndsTold(end) ==
  /\ task' = "ended"
  /\ outbox' = << >>
  /\ cancelled' = (end = "abandoned")

Ends(end) ==
  /\ task' = "ended"
  /\ outbox' = << >>
  /\ cancelled' = (end \notin {"complete", "told"})

Sent ==
  IF Len(outbox) > 1
  THEN outbox' = Tail(outbox) /\ UNCHANGED <<task, cancelled>>
  ELSE IF ending = "none"
  THEN outbox' = << >> /\ task' = "waiting" /\ UNCHANGED cancelled
  ELSE Ends(ending)

Send ==
  /\ task = "sending"
  /\ client = "reading" /\ Len(responses) < ResponseCapacity
  /\ responses' = Append(responses, Head(outbox))
  /\ Sent
  /\ UNCHANGED <<request, engine, written, parser, ending, stopReason, reader>>

\* The slip tries again.
SendIsRetried == task = "sending" /\ client # "reading" /\ UNCHANGED vars

SendFails ==
  /\ task = "sending"
  /\ client # "reading"
  /\ IF IsIgnored(Head(outbox)) THEN Sent ELSE Ends("abandoned")
  /\ UNCHANGED <<request, engine, written, parser, ending, stopReason, responses, reader>>

-----------------------------------------------------------------------------
(* The reader.                                                             *)

\* Without a stream a failure is answered at once.
Read ==
  /\ client = "reading" /\ responses # << >>
  /\ received' = Append(received, Head(responses))
  /\ LET failed == ~streamed /\ Head(responses).kind = "Failure"
     IN  /\ client' = IF failed THEN "answered" ELSE client
         /\ answer' = IF failed THEN "error" ELSE answer
         /\ responses' = IF failed THEN << >> ELSE Tail(responses)
  /\ UNCHANGED <<request, engine, written, parser, task, outbox, ending, stopReason, cancelled>>

\* The channel is closed and empty.
Assemble ==
  /\ client = "reading" /\ responses = << >> /\ task = "ended"
  /\ client' = "answered"
  /\ answer' = IF streamed THEN answer
               ELSE IF \E i \in DOMAIN received : received[i].kind = "Terminal" THEN "response" ELSE "error"
  /\ UNCHANGED <<request, engine, written, parser, task, outbox, ending, stopReason,
                 responses, cancelled, received>>

\* The client disconnects.
Leave ==
  /\ client = "reading"
  /\ client' = "gone"
  /\ responses' = << >>
  /\ UNCHANGED <<request, engine, written, parser, task, outbox, ending, stopReason,
                 cancelled, received, answer>>

Over == task = "ended" /\ client # "reading" /\ UNCHANGED vars

Next ==
  \/ Admit \/ Complete \/ Told \/ Dropped \/ Send \/ SendFails
  \/ \E token \in Tokens : Raw(token)
  \/ Read \/ Assemble \/ Leave
  \/ Over

Spec == Init /\ [][Next]_vars

\* The task runs, the engine works, and a request without stream is read by the
\* server itself.  Nothing is assumed of the reader of a stream.
TaskFairness == WF_vars(Send \/ SendFails) /\ WF_vars(~streamed /\ Read) /\ WF_vars(Assemble)
EngineFairness == WF_vars(Admit \/ Complete \/ \E token \in Tokens : Raw(token))

FairSpec == Spec /\ TaskFairness /\ EngineFairness

-----------------------------------------------------------------------------
(* Properties.                                                             *)

\* All that was sent, while the reader is there.
Emitted == received \o responses \o outbox

\* The text of the completion as one would read it off all tokens at once: what stands
\* between a MESSAGE and the next special token, with the channel named behind the last
\* CHANNEL, unless the header behind the last START names a tool.
LastBefore(i, marks) ==
  LET before == {j \in 1 .. i - 1 : written[j] \in marks}
  IN  IF before = {} THEN 0 ELSE CHOOSE j \in before : \A k \in before : k <= j

IsBody(i) ==
  /\ written[i] \notin Special
  /\ LET mark == LastBefore(i, Special) IN mark # 0 /\ written[mark] = "MESSAGE"

Addressed(i) ==
  \E j \in LastBefore(i, {"START"}) + 1 .. LastBefore(i, {"MESSAGE"}) : written[j] = "to"

KindOf(i) == IF written[LastBefore(i, {"CHANNEL"}) + 1] = "final" THEN "Content" ELSE "Reasoning"

Readable ==
  FlattenSeq([i \in DOMAIN written |->
    IF IsBody(i) /\ ~Addressed(i)
    THEN [j \in DOMAIN Spelling(written[i]) |-> <<KindOf(i), Spelling(written[i])[j]>>]
    ELSE << >>])

Streamed ==
  FlattenSeq([i \in DOMAIN Emitted |->
    IF Emitted[i].kind \in {"Content", "Reasoning"}
    THEN [j \in DOMAIN Emitted[i].text |-> <<Emitted[i].kind, Emitted[i].text[j]>>]
    ELSE << >>])

Matches(byte, read) == byte = read \/ (byte = "replacement" /\ read = "lead")

\* Parsed token by token, split over chunks and batched in two places, the completion
\* reaches the client as it reads when taken as a whole: the same characters under the
\* same headings in the same order, none of a body that is addressed to a tool, each
\* chunk in whole characters, and nothing is missing but a character of which the rest is
\* missing too.
StreamIsText ==
  client # "gone" =>
    /\ Len(Streamed) <= Len(Readable)
    /\ \A i \in DOMAIN Streamed :
         Streamed[i][1] = Readable[i][1] /\ Matches(Streamed[i][2], Readable[i][2])
    /\ \A i \in DOMAIN Emitted :
         Emitted[i].kind \in {"Content", "Reasoning"} => Emitted[i].text # << >> /\ IsUtf8(Emitted[i].text)
    /\ LET missing == SubSeq(Readable, Len(Streamed) + 1, Len(Readable))
       IN  /\ parser.kind \in {"Header", "ExpectStart", "Terminal"} => missing = << >>
           /\ parser.kind \in {"Content", "Truncated"} =>
                \/ missing = << >>
                \/ missing[1][2] = "lead" /\ (Len(missing) = 1 \/ missing[2][2] # "trail")

\* A tool call is handed over whole: only behind the CALL that closed it, with all of its
\* body for arguments, and only if that is JSON.  Such a CALL is always handed over.
ToolCallIsWhole ==
  client # "gone" =>
    /\ (\E i \in DOMAIN Emitted : Emitted[i].kind = "ToolCall")
         <=> written # << >> /\ Last(written) = "CALL" /\ parser.kind = "Terminal"
    /\ \A i \in DOMAIN Emitted : Emitted[i].kind = "ToolCall" =>
         LET call == Len(written)
             body == FlattenSeq([j \in 1 .. call - 1 - LastBefore(call, {"MESSAGE"}) |->
                       Spelling(written[LastBefore(call, {"MESSAGE"}) + j])])
         IN  /\ Emitted[i].text \in Json
             /\ Len(Emitted[i].text) = Len(body)
             /\ \A j \in DOMAIN body : Matches(Emitted[i].text[j], body[j])

\* Text and tool calls reach the client as they were written, and parser, channel and
\* completion stay within their bounds.
StreamExact == TypeOK /\ StreamIsText /\ ToolCallIsWhole

\* Engine and parser judge the same tokens, one by what may follow, the other by what has
\* been said.  Between two events they agree on whether the completion has stopped and
\* why, so that the task never finds that they do not (http.rs:438).
ParserAgrees ==
  task = "waiting" /\ engine # "over" =>
    /\ parser.kind \in {"Header", "Content", "ExpectStart", "Terminal"}
    /\ parser.kind = "Terminal" <=> Stopped
    /\ stopReason = IF parser.kind = "Terminal" THEN parser.reason ELSE None

\* Whatever the engine still works on when the task is over has been cancelled, and
\* nothing is cancelled under a client who is being served.
GuardIsExact ==
  /\ task = "ended" /\ engine # "over" => cancelled
  /\ cancelled => client = "gone" \/ \E i \in DOMAIN Emitted : Emitted[i].kind = "Failure"

\* The stages of the response as its reader sees them.
StageOf ==
  IF received = << >> THEN "new"
  ELSE CASE Last(received).kind \in {"Role", "Content", "Reasoning"} -> "open"
         [] Last(received).kind = "ToolCall" -> "called"
         [] Last(received).kind = "Terminal" -> "closed"
         [] Last(received).kind = "Usage"    -> "billed"
         [] Last(received).kind = "Done"     -> "done"
         [] Last(received).kind = "Failure"  -> "failed"

ReasonOf ==
  LET terminals == {i \in DOMAIN received : received[i].kind = "Terminal"}
  IN  IF terminals = {} THEN None ELSE received[CHOOSE i \in terminals : TRUE].reason

Stream == INSTANCE ChatStream WITH stage <- StageOf, reason <- ReasonOf

\* What the reader reads, from translate through the channel, is a chat stream, and the
\* answer without stream is made of a complete one or is an error.
ImplementsStream == Stream!Spec

\* The task comes to an end, whatever model, engine and reader do, unless somebody holds
\* on to a stream and does not read it.
ResponseEnds ==
  <>(task = "ended") \/ <>[](streamed /\ client = "reading" /\ Len(responses) = ResponseCapacity)
=============================================================================

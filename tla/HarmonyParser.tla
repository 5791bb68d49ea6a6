--------------------------- MODULE HarmonyParser ---------------------------
(***************************************************************************)
(* The incremental parser of a completion in the Harmony format            *)
(* (products/serve/src/gpt_oss/protocol.rs, HarmonyParser): a value and    *)
(* the operations on it, without variables.  A response task owns one.     *)
(*                                                                         *)
(* A token is a special one or one of text.  What text a token spells is   *)
(* abstracted to what the parser tells apart: in a header one token stands *)
(* for one field, and in a body for one character or for half of a         *)
(* character whose encoding is split between two tokens.  What serde_json  *)
(* accepts is a constant.                                                  *)
(***************************************************************************)
EXTENDS Naturals, Sequences, SequencesExt

CONSTANT Json    \* the bodies that are valid JSON

Delimiters == {"END", "RETURN", "CALL"}
Special == Delimiters \cup {"START", "CHANNEL", "CONSTRAIN", "MESSAGE", "OTHER"}
Channels == {"analysis", "commentary", "final"}
Fields == Channels \cup {"assistant", "to", "json", "text"}
Halves == {"lead", "trail", "seam"}
Tokens == Special \cup Fields \cup Halves

\* The slip forgets that a tool call stops the generation too.
IsReturn(token) == token = "RETURN"
IsStopToken(token) == token \in {"RETURN", "CALL"}

-----------------------------------------------------------------------------
(* Text.  A "lead" needs a "trail" behind it; "seam" ends one character    *)
(* and begins the next.                                                    *)

Spelling(token) == IF token = "seam" THEN <<"trail", "lead">> ELSE <<token>>

\* What text is made of: what tokens spell, and what the decoder puts for a character that
\* was not completed.
Letters == Tokens \cup {"replacement"}

Dangles(bytes) == bytes # << >> /\ Last(bytes) = "lead"

IsBroken(bytes) ==
  \E i \in DOMAIN bytes :
    \/ bytes[i] = "trail" /\ (i = 1 \/ bytes[i - 1] # "lead")
    \/ bytes[i] = "lead" /\ i < Len(bytes) /\ bytes[i + 1] # "trail"

IsUtf8(bytes) == ~IsBroken(bytes) /\ ~Dangles(bytes)

\* take_valid_utf8_prefix, which refuses what IsBroken.
ValidPrefix(bytes) == IF Dangles(bytes) THEN Front(bytes) ELSE bytes
ValidRest(bytes) == IF Dangles(bytes) THEN <<"lead">> ELSE << >>

\* The tokenizer's decoder holds back no more than a character that is not complete;
\* whether it does is its own affair.  Finished inside one, it gives what it holds or a
\* replacement character.
DecoderPush(held, token) ==
  LET bytes == held \o Spelling(token)
  IN  {[released |-> bytes, held |-> << >>],
       [released |-> ValidPrefix(bytes), held |-> ValidRest(bytes)]}

DecoderFinish(held) == IF held = << >> THEN {<< >>} ELSE {held, <<"replacement">>}

-----------------------------------------------------------------------------
(* parse_header.                                                           *)

Malformed == [channel |-> "none", recipient |-> FALSE, type |-> "none"]

ParseHeader(tokens, implicit) ==
  LET marks      == {i \in DOMAIN tokens : tokens[i] = "CHANNEL"}
      mark       == CHOOSE i \in marks : TRUE
      author     == SubSeq(tokens, 1, mark - 1)
      metadata   == SubSeq(tokens, mark + 1, Len(tokens))
      constrains == {i \in DOMAIN metadata : metadata[i] = "CONSTRAIN"}
      constrain  == CHOOSE i \in constrains : \A j \in constrains : i <= j
      fields     == IF constrains = {} THEN metadata ELSE SubSeq(metadata, 1, constrain - 1)
      type       == SubSeq(metadata, constrain + 1, Len(metadata))
      named      == author = <<"assistant", "to">>
      recipient  == named \/ Len(fields) = 2
  IN  IF /\ \E i \in DOMAIN tokens : marks = {i}
         /\ IF implicit THEN author = << >> ELSE author = <<"assistant">> \/ named
         /\ constrains # {} => Len(type) = 1 /\ type[1] \in Fields
         /\ fields # << >> /\ fields[1] \in Channels
         /\ Len(fields) = 1 \/ fields = <<fields[1], "to">>
         /\ ~(named /\ Len(fields) = 2)
         /\ recipient <=> constrains # {}
         /\ recipient => fields[1] = "commentary"
      THEN [channel |-> fields[1], recipient |-> recipient,
            type |-> IF constrains = {} THEN "none" ELSE type[1]]
      ELSE Malformed

-----------------------------------------------------------------------------
(* States and events.                                                      *)

Header(implicit, tokens) == [kind |-> "Header", implicit |-> implicit, tokens |-> tokens]
Content(header, content, pending, held) ==
  [kind |-> "Content", header |-> header, content |-> content, pending |-> pending, held |-> held]
ExpectStart == [kind |-> "ExpectStart"]
Terminal(reason) == [kind |-> "Terminal", reason |-> reason]
Truncated == [kind |-> "Truncated"]
Failed == [kind |-> "Failed"]

NewParser == Header(TRUE, << >>)

Delta(channel, text) == [kind |-> "ContentDelta", channel |-> channel, text |-> text]
Message(channel, content) == [kind |-> "Message", channel |-> channel, text |-> content]
ToolCall(arguments) == [kind |-> "ToolCall", text |-> arguments]
Done(reason) == [kind |-> "Done", reason |-> reason]

\* What a call returns: the parser it leaves, and events or an error.
Ok(parser, events) == [parser |-> parser, events |-> events, ok |-> TRUE]
Err(parser) == [parser |-> parser, events |-> << >>, ok |-> FALSE]

\* Text is an event at once, unless it is addressed to a tool.  The slip goes by the
\* channel.
ChannelDeltas(header, text) ==
  IF text = << >> \/ header.channel = "analysis" THEN << >> ELSE <<Delta(header.channel, text)>>
Deltas(header, text) ==
  IF text = << >> \/ header.recipient THEN << >> ELSE <<Delta(header.channel, text)>>

-----------------------------------------------------------------------------
(* process.                                                                *)

InHeader(parser, token) ==
  IF token = "MESSAGE"
  THEN LET header == ParseHeader(parser.tokens, parser.implicit)
       IN  IF header = Malformed THEN Err(Failed) ELSE Ok(Content(header, << >>, << >>, << >>), << >>)
  ELSE IF token \in Delimiters \cup {"START"} THEN Err(Failed)
  ELSE Ok(Header(parser.implicit, Append(parser.tokens, token)), << >>)

\* close_message.  The slip takes the arguments as they are.
CloseUnchecked(delimiter, header, content, events) ==
  IF delimiter = "END" /\ header.channel # "final"
  THEN Ok(ExpectStart, Append(events, Message(header.channel, content)))
  ELSE IF delimiter = "RETURN" /\ header.channel = "final"
  THEN Ok(Terminal("Return"), events \o <<Message(header.channel, content), Done("Return")>>)
  ELSE IF delimiter = "CALL" /\ header.recipient
  THEN Ok(Terminal("ToolCall"), events \o <<ToolCall(content), Done("ToolCall")>>)
  ELSE Err(Failed)

CloseMessage(delimiter, header, content, events) ==
  IF delimiter = "END" /\ header.channel # "final" /\ ~header.recipient
  THEN Ok(ExpectStart, Append(events, Message(header.channel, content)))
  ELSE IF delimiter = "RETURN" /\ header.channel = "final" /\ ~header.recipient /\ header.type = "none"
  THEN Ok(Terminal("Return"), events \o <<Message(header.channel, content), Done("Return")>>)
  ELSE IF /\ delimiter = "CALL" /\ header.channel = "commentary" /\ header.recipient
          /\ header.type = "json" /\ content \in Json
  THEN Ok(Terminal("ToolCall"), events \o <<ToolCall(content), Done("ToolCall")>>)
  ELSE Err(Failed)

InContent(parser, token) ==
  IF token \in Delimiters
  THEN {LET bytes == parser.pending \o tail
        IN  IF IsUtf8(bytes)
            THEN CloseMessage(token, parser.header, parser.content \o bytes,
                              Deltas(parser.header, bytes))
            ELSE Err(Failed) : tail \in DecoderFinish(parser.held)}
  ELSE IF token \in Special THEN {Err(Failed)}
  ELSE {LET bytes == parser.pending \o pushed.released
            text  == ValidPrefix(bytes)
        IN  IF IsBroken(bytes) THEN Err(Failed)
            ELSE Ok(Content(parser.header, parser.content \o text, ValidRest(bytes), pushed.held),
                    Deltas(parser.header, text)) : pushed \in DecoderPush(parser.held, token)}

\* A set, since the decoder has a choice.
Process(parser, token) ==
  CASE parser.kind = "Header"      -> {InHeader(parser, token)}
    [] parser.kind = "Content"     -> InContent(parser, token)
    [] parser.kind = "ExpectStart" -> {IF token = "START" THEN Ok(Header(FALSE, << >>), << >>) ELSE Err(Failed)}
    [] OTHER                       -> {Err(parser)}

\* finish leaves the parser as it is.
Finish(parser) ==
  IF parser.kind = "Terminal" THEN Ok(parser, <<Done(parser.reason)>>) ELSE Err(parser)

\* truncate neither completes a message nor finishes the decoder.
Truncate(parser) ==
  CASE parser.kind = "Content" ->
         IF ~parser.header.recipient /\ IsBroken(parser.pending) THEN Err(Failed)
         ELSE Ok(Truncated, Append(Deltas(parser.header, ValidPrefix(parser.pending)), Done("Length")))
    [] parser.kind \in {"Header", "ExpectStart"} -> Ok(Truncated, <<Done("Length")>>)
    [] OTHER -> Err(parser)
=============================================================================

--------------------------- MODULE ResponseProofs ---------------------------
(***************************************************************************)
(* Theorems about Response: for every channel bound, every budget, every   *)
(* completion and whatever is taken for JSON, parser and engine agree, the *)
(* guard is exact, what is read is a chat stream, and the text that was    *)
(* sent is the text that was written.                                      *)
(***************************************************************************)
EXTENDS Response, TLAPS, NaturalsInduction, WellFoundedInduction

\* A sequence, of whatever.
IsSeq(s) == \E S : s \in Seq(S)

HasFailure(s) == \E i \in DOMAIN s : s[i].kind = "Failure"

\* Parser and engine, before the engine's last event and while nothing has failed.
Agree ==
  engine # "over" /\ ending = "none" =>
    /\ parser.kind \in {"Header", "Content", "ExpectStart", "Terminal"}
    /\ parser.kind = "Terminal" <=> Stopped
    /\ stopReason = IF parser.kind = "Terminal" THEN parser.reason ELSE None

\* A task that waits has not made up its mind; one that fails has its failure to send; one
\* that disarms the guard has had the engine's last event.
Endings ==
  /\ ending \in {"none", "complete", "told", "failed"}
  /\ task \in {"waiting", "sending", "ended"}
  /\ task = "waiting" /\ engine # "over" => ending = "none"
  /\ ending = "failed" => task = "ended" \/ (task = "sending" /\ outbox = <<FailureChunk>>)
  /\ ending \in {"complete", "told"} => engine = "over"

FailureSeen == client = "gone" \/ HasFailure(received) \/ HasFailure(responses)

Guarded ==
  /\ client \in {"reading", "answered", "gone"}
  /\ task = "ended" => outbox = << >> /\ (cancelled \/ engine = "over")
  /\ cancelled => task = "ended" /\ FailureSeen
  /\ client = "answered" => task = "ended" \/ HasFailure(received)

IInv ==
  /\ IsSeq(written) /\ IsSeq(responses) /\ IsSeq(received)
  /\ Agree
  /\ Endings
  /\ Guarded

-----------------------------------------------------------------------------
(* Sequences.                                                              *)

\* The empty sequence is one.
LEMMA EmptyIsSeq == \E S : << >> \in Seq(S)
<1>1. << >> \in Seq({}) OBVIOUS
<1>2. QED BY <1>1

\* What appending does to a sequence of anything.
LEMMA Appended ==
  ASSUME NEW s, IsSeq(s), NEW e
  PROVE  /\ IsSeq(Append(s, e))
         /\ Append(s, e) # << >>
         /\ Last(Append(s, e)) = e
         /\ HasFailure(Append(s, e)) <=> HasFailure(s) \/ e.kind = "Failure"
<1>1. PICK S : s \in Seq(S) BY DEF IsSeq
<1>2. DEFINE T == S \cup {e}
<1>3. s \in Seq(T) BY <1>1
<1>4. Append(s, e) \in Seq(T) BY <1>3
<1>5. /\ Len(s) \in Nat /\ DOMAIN s = 1 .. Len(s)
      /\ Len(Append(s, e)) = Len(s) + 1
      /\ DOMAIN Append(s, e) = 1 .. Len(s) + 1
      /\ \A i \in 1 .. Len(s) : Append(s, e)[i] = s[i]
      /\ Append(s, e)[Len(s) + 1] = e
  BY <1>3
<1>6. QED BY <1>4, <1>5 DEF IsSeq, HasFailure, Last

\* What reading the first element does.
LEMMA Rest ==
  ASSUME NEW s, IsSeq(s), s # << >>
  PROVE  /\ IsSeq(Tail(s))
         /\ HasFailure(s) => Head(s).kind = "Failure" \/ HasFailure(Tail(s))
<1>1. PICK S : s \in Seq(S) BY DEF IsSeq
<1>2. Tail(s) \in Seq(S) BY <1>1
<1>3. /\ Len(s) \in Nat \ {0} /\ DOMAIN s = 1 .. Len(s)
      /\ DOMAIN Tail(s) = 1 .. Len(s) - 1
      /\ \A i \in 1 .. Len(s) - 1 : Tail(s)[i] = s[i + 1]
      /\ Head(s) = s[1]
  BY <1>1
<1>4. ASSUME HasFailure(s), Head(s).kind # "Failure"
      PROVE  HasFailure(Tail(s))
  <2>1. PICK i \in DOMAIN s : s[i].kind = "Failure" BY <1>4 DEF HasFailure
  <2>2. i # 1 BY <2>1, <1>3, <1>4
  <2>3. i - 1 \in 1 .. Len(s) - 1 /\ Tail(s)[i - 1] = s[i] BY <2>1, <2>2, <1>3
  <2>4. QED BY <2>1, <2>3, <1>3 DEF HasFailure
<1>5. QED BY <1>2, <1>4 DEF IsSeq

\* A failure in one of two sequences is one in both together.
LEMMA Joined ==
  ASSUME NEW s, NEW t, IsSeq(s), IsSeq(t)
  PROVE  HasFailure(s) \/ HasFailure(t) => HasFailure(s \o t \o << >>)
<1>1. PICK S, T : s \in Seq(S) /\ t \in Seq(T) BY DEF IsSeq
<1>2. DEFINE U == S \cup T
<1>3. s \in Seq(U) /\ t \in Seq(U) BY <1>1
<1>4. s \o t \in Seq(U) BY <1>3
<1>5. s \o t \o << >> = s \o t BY <1>4
<1>6. /\ Len(s) \in Nat /\ DOMAIN s = 1 .. Len(s)
      /\ Len(t) \in Nat /\ DOMAIN t = 1 .. Len(t)
      /\ DOMAIN (s \o t) = 1 .. Len(s) + Len(t)
      /\ \A i \in 1 .. Len(s) : (s \o t)[i] = s[i]
      /\ \A i \in 1 .. Len(t) : (s \o t)[i + Len(s)] = t[i]
  BY <1>3
<1>7. QED
  <2>1. CASE HasFailure(s)
    BY <2>1, <1>5, <1>6 DEF HasFailure
  <2>2. CASE HasFailure(t)
    <3>1. PICK i \in DOMAIN t : t[i].kind = "Failure" BY <2>2 DEF HasFailure
    <3>2. i + Len(s) \in DOMAIN (s \o t) /\ (s \o t)[i + Len(s)].kind = "Failure" BY <3>1, <1>6
    <3>3. QED BY <3>2, <1>5 DEF HasFailure
  <2>3. QED BY <2>1, <2>2

-----------------------------------------------------------------------------
(* The parser.                                                             *)

\* What a call that succeeds says of the token that it was given: the parser is terminal
\* just behind a stop token, and then its last event is Done, with its reason.
Judged(result, token) ==
  /\ result.parser.kind \in {"Header", "Content", "ExpectStart", "Terminal"}
  /\ result.parser.kind = "Terminal" <=> IsStopToken(token)
  /\ IF result.parser.kind = "Terminal"
     THEN result.events # << >> /\ Last(result.events) = Done(result.parser.reason)
     ELSE result.events = << >> \/ Last(result.events).kind # "Done"

\* Text makes one event or none.
LEMMA DeltasAre ==
  ASSUME NEW header, NEW text
  PROVE  Deltas(header, text) = << >> \/ Deltas(header, text) = <<Delta(header.channel, text)>>
BY DEF Deltas

LEMMA DeltasAreSeq ==
  ASSUME NEW header, NEW text
  PROVE  IsSeq(Deltas(header, text))
<1>1. CASE Deltas(header, text) = << >>
  BY <1>1, EmptyIsSeq DEF IsSeq
<1>2. CASE Deltas(header, text) = <<Delta(header.channel, text)>>
  <2>1. <<Delta(header.channel, text)>> \in Seq({Delta(header.channel, text)}) OBVIOUS
  <2>2. QED BY <1>2, <2>1 DEF IsSeq
<1>3. QED BY <1>1, <1>2, DeltasAre

\* Two events behind others.
LEMMA TwoMore ==
  ASSUME NEW s, IsSeq(s), NEW a, NEW b
  PROVE  s \o <<a, b>> # << >> /\ Last(s \o <<a, b>>) = b
<1>1. PICK S : s \in Seq(S) BY DEF IsSeq
<1>2. DEFINE T == S \cup {a, b}
<1>3. s \in Seq(T) /\ <<a, b>> \in Seq(T) BY <1>1
<1>4. /\ Len(s \o <<a, b>>) = Len(s) + 2
      /\ (s \o <<a, b>>)[Len(s) + 2] = b
      /\ Len(s) \in Nat
  BY <1>3
<1>5. s \o <<a, b>> # << >> BY <1>4
<1>6. QED BY <1>4, <1>5 DEF Last

\* A message is closed as its delimiter says.
LEMMA ClosedAsJudged ==
  ASSUME NEW delimiter \in Delimiters, NEW header, NEW content, NEW text,
         CloseMessage(delimiter, header, content, Deltas(header, text)).ok
  PROVE  Judged(CloseMessage(delimiter, header, content, Deltas(header, text)), delimiter)
<1> DEFINE events == Deltas(header, text)
           result == CloseMessage(delimiter, header, content, events)
<1>1. CASE delimiter = "END"
  <2>1. result = Ok(ExpectStart, Append(events, Message(header.channel, content)))
    BY <1>1 DEF CloseMessage, Err
  <2>2. result.events = Append(events, Message(header.channel, content)) /\ result.parser.kind = "ExpectStart"
    BY <2>1 DEF Ok, ExpectStart
  <2>3. Last(result.events).kind = "Message" BY <2>2, DeltasAreSeq, Appended DEF Message
  <2>4. QED BY <1>1, <2>2, <2>3 DEF Judged, IsStopToken
<1>2. CASE delimiter = "RETURN"
  <2>1. result = Ok(Terminal("Return"), events \o <<Message(header.channel, content), Done("Return")>>)
    BY <1>2 DEF CloseMessage, Err
  <2>2. /\ result.events = events \o <<Message(header.channel, content), Done("Return")>>
        /\ result.parser.kind = "Terminal" /\ result.parser.reason = "Return"
    BY <2>1 DEF Ok, Terminal
  <2>3. result.events # << >> /\ Last(result.events) = Done("Return") BY <2>2, DeltasAreSeq, TwoMore
  <2>4. QED BY <1>2, <2>2, <2>3 DEF Judged, IsStopToken
<1>3. CASE delimiter = "CALL"
  <2>1. result = Ok(Terminal("ToolCall"), events \o <<ToolCall(content), Done("ToolCall")>>)
    BY <1>3 DEF CloseMessage, Err
  <2>2. /\ result.events = events \o <<ToolCall(content), Done("ToolCall")>>
        /\ result.parser.kind = "Terminal" /\ result.parser.reason = "ToolCall"
    BY <2>1 DEF Ok, Terminal
  <2>3. result.events # << >> /\ Last(result.events) = Done("ToolCall") BY <2>2, DeltasAreSeq, TwoMore
  <2>4. QED BY <1>3, <2>2, <2>3 DEF Judged, IsStopToken
<1>4. QED BY <1>1, <1>2, <1>3 DEF Delimiters

\* Whatever the decoder does, a token is judged as the engine judges it.
LEMMA ProcessedAsJudged ==
  ASSUME NEW p, p.kind \in {"Header", "Content", "ExpectStart"}, NEW token,
         NEW result \in Process(p, token), result.ok
  PROVE  Judged(result, token)
<1>1. CASE p.kind = "Header"
  <2>1. result = InHeader(p, token) BY <1>1 DEF Process
  <2>2. CASE token = "MESSAGE"
    <3>1. PICK header : result = Ok(Content(header, << >>, << >>, << >>), << >>)
      BY <2>1, <2>2 DEF InHeader, Err
    <3>2. result.parser.kind = "Content" /\ result.events = << >> BY <3>1 DEF Ok, Content
    <3>3. QED BY <2>2, <3>2 DEF Judged, IsStopToken
  <2>3. CASE token # "MESSAGE"
    <3>1. /\ result = Ok(Header(p.implicit, Append(p.tokens, token)), << >>)
          /\ token \notin Delimiters
      BY <2>1, <2>3 DEF InHeader, Err
    <3>2. result.parser.kind = "Header" /\ result.events = << >> BY <3>1 DEF Ok, Header
    <3>3. QED BY <3>1, <3>2 DEF Judged, IsStopToken, Delimiters
  <2>4. QED BY <2>2, <2>3
<1>2. CASE p.kind = "Content"
  <2>1. result \in InContent(p, token) BY <1>2 DEF Process
  <2>2. CASE token \in Delimiters
    <3>1. PICK tail \in DecoderFinish(p.held) :
            result = LET bytes == p.pending \o tail
                     IN  IF IsUtf8(bytes)
                         THEN CloseMessage(token, p.header, p.content \o bytes, Deltas(p.header, bytes))
                         ELSE Err(Failed)
      BY <2>1, <2>2 DEF InContent
    <3>2. PICK content, text : result = CloseMessage(token, p.header, content, Deltas(p.header, text))
      BY <3>1 DEF Err
    <3>3. QED BY <2>2, <3>2, ClosedAsJudged
  <2>3. CASE token \notin Delimiters
    <3>1. token \notin Special BY <2>1, <2>3 DEF InContent, Err
    <3>2. PICK pushed \in DecoderPush(p.held, token) :
            result = LET bytes == p.pending \o pushed.released
                         text  == ValidPrefix(bytes)
                     IN  IF IsBroken(bytes) THEN Err(Failed)
                         ELSE Ok(Content(p.header, p.content \o text, ValidRest(bytes), pushed.held),
                                 Deltas(p.header, text))
      BY <2>1, <2>3, <3>1 DEF InContent
    <3>3. PICK text, content, pending, held :
            result = Ok(Content(p.header, content, pending, held), Deltas(p.header, text))
      BY <3>2 DEF Err
    <3>4. result.parser.kind = "Content" /\ result.events = Deltas(p.header, text)
      BY <3>3 DEF Ok, Content
    <3>5. result.events = << >> \/ Last(result.events).kind # "Done"
      BY <3>4, DeltasAre DEF Last, Delta
    <3>6. QED BY <2>3, <3>4, <3>5 DEF Judged, IsStopToken, Delimiters
  <2>4. QED BY <2>2, <2>3
<1>3. CASE p.kind = "ExpectStart"
  <2>1. result = IF token = "START" THEN Ok(Header(FALSE, << >>), << >>) ELSE Err(Failed)
    BY <1>3 DEF Process
  <2>2. token = "START" /\ result.parser.kind = "Header" /\ result.events = << >>
    BY <2>1 DEF Err, Ok, Header
  <2>3. QED BY <2>2 DEF Judged, IsStopToken
<1>4. QED BY <1>1, <1>2, <1>3

\* A parser that has not stopped can fail to be cut off, but not disagree.
LEMMA CutOff ==
  ASSUME NEW p, Truncate(p).ok
  PROVE  Truncate(p).events # << >> /\ Last(Truncate(p).events) = Done("Length")
<1>1. CASE p.kind = "Content"
  <2>1. Truncate(p) = Ok(Truncated, Append(Deltas(p.header, ValidPrefix(p.pending)), Done("Length")))
    BY <1>1 DEF Truncate, Err
  <2>2. Truncate(p).events = Append(Deltas(p.header, ValidPrefix(p.pending)), Done("Length"))
    BY <2>1 DEF Ok
  <2>3. IsSeq(Deltas(p.header, ValidPrefix(p.pending))) BY DeltasAreSeq
  <2>4. QED BY <2>2, <2>3, Appended
<1>2. CASE p.kind \in {"Header", "ExpectStart"}
  <2>1. Truncate(p) = Ok(Truncated, <<Done("Length")>>) BY <1>2 DEF Truncate
  <2>2. QED BY <2>1 DEF Ok, Last
<1>3. CASE p.kind \notin {"Content", "Header", "ExpectStart"}
  BY <1>3 DEF Truncate, Err
<1>4. QED BY <1>1, <1>2, <1>3

-----------------------------------------------------------------------------
(* One lemma per action.                                                   *)

LEMMA InitInv == Init => IInv
<1> SUFFICES ASSUME Init PROVE IInv OBVIOUS
<1>1. IsSeq(written) /\ IsSeq(responses) /\ IsSeq(received)
  BY EmptyIsSeq DEF Init, IsSeq
<1>2. Agree
  BY DEF Init, Agree, Stopped, NewParser, Header
<1>3. Endings BY DEF Init, Endings
<1>4. Guarded BY DEF Init, Guarded
<1>5. QED BY <1>1, <1>2, <1>3, <1>4 DEF IInv

LEMMA AdmitInv == IInv /\ Admit => IInv'
BY DEF IInv, Admit, request, reader, Agree, Stopped, Endings, Guarded, FailureSeen, HasFailure, IsSeq

\* Until the task ends, the guard is left alone.
LEMMA ListeningKeepsGuard ==
  ASSUME Guarded, Listening, task' \in {"waiting", "sending"},
         UNCHANGED <<responses, cancelled, reader>>
  PROVE  Guarded'
BY DEF Guarded, Listening, reader, FailureSeen, HasFailure

LEMMA RawInv ==
  ASSUME IInv, NEW token \in Tokens, Raw(token)
  PROVE  IInv'
<1> USE DEF IInv
<1>1. /\ engine = "running" /\ task = "waiting" /\ ending = "none" /\ ~Stopped
      /\ parser.kind \in {"Header", "Content", "ExpectStart"} /\ stopReason = None
  BY DEF Raw, Listening, Endings, Agree, IsComplete
<1>2. PICK result \in Process(parser, token) :
        /\ parser' = result.parser
        /\ IF result.ok
           THEN /\ Sends(Chunks(result.events), "none")
                /\ stopReason' = StopReasonAfter(result.events)
           ELSE Fails /\ UNCHANGED stopReason
  BY DEF Raw
<1>3. /\ written' = Append(written, token)
      /\ UNCHANGED <<engine, responses, cancelled, client, received, answer>>
  BY DEF Raw, reader
<1>4. IsSeq(written') /\ (Stopped' <=> IsStopToken(token))
  BY <1>3, Appended DEF Stopped
<1>5. IsSeq(responses') /\ IsSeq(received')
  BY <1>3
<1>6. Agree' /\ Endings' /\ task' \in {"waiting", "sending"}
  <2>1. CASE result.ok
    <3>1. Judged(result, token) BY <1>1, <1>2, <2>1, ProcessedAsJudged
    <3>2. ending' = "none" /\ task' \in {"waiting", "sending"} /\ stopReason' = StopReasonAfter(result.events)
      BY <1>2, <2>1 DEF Sends
    <3>3. Endings' BY <3>2 DEF Endings
    <3>4. stopReason' = IF result.parser.kind = "Terminal" THEN result.parser.reason ELSE None
      BY <1>1, <3>1, <3>2 DEF StopReasonAfter, Judged, Done
    <3>5. Agree' BY <1>2, <1>4, <3>1, <3>4 DEF Agree, Judged
    <3>6. QED BY <3>2, <3>3, <3>5
  <2>2. CASE ~result.ok
    <3>1. ending' = "failed" /\ task' = "sending" /\ outbox' = <<FailureChunk>>
      BY <1>2, <2>2 DEF Fails, Sends
    <3>2. QED BY <3>1 DEF Agree, Endings
  <2>3. QED BY <2>1, <2>2
<1>7. Guarded' BY <1>3, <1>6, ListeningKeepsGuard DEF Raw, reader
<1>8. QED BY <1>4, <1>5, <1>6, <1>7

\* The branch in which parser and engine disagree is never taken.
LEMMA CompleteInv == IInv /\ Complete => IInv'
<1> SUFFICES ASSUME IInv, Complete PROVE IInv' OBVIOUS
<1> USE DEF IInv
<1>1. /\ task = "waiting" /\ engine = "running" /\ engine' = "over" /\ ending = "none"
      /\ UNCHANGED <<written, responses, cancelled, client, received, answer>>
  BY DEF Complete, Listening, reader, Endings
<1>2. Endings' /\ task' \in {"waiting", "sending"}
  <2>1. CASE Stopped
    <3>1. parser.kind = "Terminal" /\ stopReason = parser.reason BY <1>1, <2>1 DEF Agree
    <3>2. Finish(parser) = Ok(parser, <<Done(parser.reason)>>) BY <3>1 DEF Finish
    <3>3. /\ Finish(parser).ok
          /\ Last(Finish(parser).events).reason = stopReason
      BY <3>1, <3>2 DEF Ok, Last, Done
    <3>4. ending' = "complete" /\ task' \in {"waiting", "sending"}
      BY <2>1, <3>3 DEF Complete, Sends
    <3>5. QED BY <1>1, <3>4 DEF Endings
  <2>2. CASE ~Stopped /\ Truncate(parser).ok
    <3>1. Truncate(parser).events # << >> /\ Last(Truncate(parser).events) = Done("Length")
      BY <2>2, CutOff
    <3>2. StopReasonAfter(Truncate(parser).events) = Last(Truncate(parser).events).reason
      BY <3>1 DEF StopReasonAfter, Done
    <3>3. ending' = "complete" /\ task' \in {"waiting", "sending"}
      BY <2>2, <3>2 DEF Complete, Sends
    <3>4. QED BY <1>1, <3>3 DEF Endings
  <2>3. CASE ~Stopped /\ ~Truncate(parser).ok
    <3>1. ending' = "failed" /\ task' = "sending" /\ outbox' = <<FailureChunk>>
      BY <2>3 DEF Complete, Fails, Sends
    <3>2. QED BY <1>1, <3>1 DEF Endings
  <2>4. QED BY <2>1, <2>2, <2>3
<1>3. Guarded' BY <1>1, <1>2, ListeningKeepsGuard DEF Complete, reader
<1>4. Agree' BY <1>1 DEF Agree
<1>5. QED BY <1>1, <1>2, <1>3, <1>4

\* Told and Dropped: one disarms the guard when it is done, the other does not.
LEMMA EndToldInv == IInv /\ (Told \/ Dropped) => IInv'
<1> SUFFICES ASSUME IInv, Told \/ Dropped PROVE IInv' OBVIOUS
<1> USE DEF IInv
<1>1. /\ Listening /\ engine' = "over" /\ ending' \in {"told", "failed"}
      /\ task' = "sending" /\ outbox' = <<FailureChunk>>
      /\ UNCHANGED <<written, responses, cancelled, client, received, answer>>
  BY DEF Told, Dropped, Fails, Sends, reader
<1>2. Agree' /\ Endings' BY <1>1 DEF Agree, Endings
<1>3. Guarded' BY <1>1, ListeningKeepsGuard DEF reader
<1>4. QED BY <1>1, <1>2, <1>3

\* What a send does when it is over, successful or ignored: if it ends a failure, then
\* the failure was what it sent.
LEMMA SentEnds ==
  ASSUME Endings, Guarded, task = "sending", Sent, UNCHANGED <<engine, ending>>
  PROVE  /\ Endings'
         /\ task' = "ended" => outbox' = << >> /\ (cancelled' \/ engine' = "over")
         /\ cancelled' => task' = "ended" /\ outbox = <<FailureChunk>>
<1>1. ~cancelled BY DEF Guarded
<1>2. Len(<<FailureChunk>>) = 1 OBVIOUS
<1>3. CASE Len(outbox) > 1
  <2>1. ending # "failed"
    <3>1. SUFFICES ASSUME ending = "failed" PROVE FALSE OBVIOUS
    <3>2. outbox = <<FailureChunk>> BY <3>1 DEF Endings
    <3>3. Len(outbox) = 1 BY <1>2, <3>2
    <3>4. QED BY <1>3, <3>3
  <2>2. task' = "sending" /\ cancelled' = cancelled BY <1>3 DEF Sent
  <2>3. QED BY <1>1, <2>1, <2>2 DEF Endings
<1>4. CASE ~(Len(outbox) > 1) /\ ending = "none"
  <2>1. task' = "waiting" /\ cancelled' = cancelled BY <1>4 DEF Sent
  <2>2. QED BY <1>1, <1>4, <2>1 DEF Endings
<1>5. CASE ~(Len(outbox) > 1) /\ ending # "none"
  <2>1. task' = "ended" /\ outbox' = << >> /\ cancelled' = (ending \notin {"complete", "told"})
    BY <1>5 DEF Sent, Ends
  <2>2. ending \in {"complete", "told", "failed"} BY <1>5 DEF Endings
  <2>3. QED BY <2>1, <2>2 DEF Endings
<1>6. QED BY <1>3, <1>4, <1>5

LEMMA SendInv == IInv /\ Send => IInv'
<1> SUFFICES ASSUME IInv, Send PROVE IInv' OBVIOUS
<1> USE DEF IInv
<1>1. /\ task = "sending" /\ client = "reading" /\ Sent
      /\ responses' = Append(responses, Head(outbox))
      /\ UNCHANGED <<engine, written, parser, ending, stopReason, client, received>>
  BY DEF Send, reader
<1>2. IsSeq(responses') /\ (Head(outbox).kind = "Failure" => HasFailure(responses)')
  BY <1>1, Appended
<1>3. Agree' BY <1>1 DEF Agree, Stopped
<1>4. Endings' BY <1>1, SentEnds
<1>5. Guarded'
  <2>1. cancelled' => Head(outbox).kind = "Failure"
    BY <1>1, SentEnds DEF FailureChunk
  <2>2. QED BY <1>1, <1>2, <2>1, SentEnds DEF Guarded, FailureSeen
<1>6. QED BY <1>1, <1>2, <1>3, <1>4, <1>5

LEMMA SendFailsInv == IInv /\ SendFails => IInv'
<1> SUFFICES ASSUME IInv, SendFails PROVE IInv' OBVIOUS
<1> USE DEF IInv
<1>1. /\ task = "sending" /\ client # "reading"
      /\ UNCHANGED <<engine, written, parser, ending, stopReason, responses, client, received>>
  BY DEF SendFails, reader
<1>2. client = "gone" \/ HasFailure(received) BY <1>1 DEF Guarded
<1>3. FailureSeen' /\ (client' = "answered" => HasFailure(received)')
  BY <1>1, <1>2 DEF FailureSeen, HasFailure, Guarded
<1>4. Agree' BY <1>1 DEF Agree, Stopped
<1>5. CASE IsIgnored(Head(outbox))
  <2>1. Sent BY <1>5 DEF SendFails
  <2>2. Endings' BY <1>1, <2>1, SentEnds
  <2>3. Guarded' BY <1>1, <1>3, <2>1, SentEnds DEF Guarded
  <2>4. QED BY <1>1, <1>4, <2>2, <2>3
<1>6. CASE ~IsIgnored(Head(outbox))
  <2>1. task' = "ended" /\ outbox' = << >> /\ cancelled' = TRUE
    BY <1>6 DEF SendFails, Ends
  <2>2. Endings' BY <1>1, <2>1 DEF Endings
  <2>3. Guarded' BY <1>1, <1>3, <2>1 DEF Guarded
  <2>4. QED BY <1>1, <1>4, <2>2, <2>3
<1>7. QED BY <1>5, <1>6

LEMMA ReadInv == IInv /\ Read => IInv'
<1> SUFFICES ASSUME IInv, Read PROVE IInv' OBVIOUS
<1> USE DEF IInv
<1>1. /\ client = "reading" /\ responses # << >>
      /\ received' = Append(received, Head(responses))
      /\ UNCHANGED <<engine, written, parser, task, outbox, ending, stopReason, cancelled>>
  BY DEF Read
<1>2. \/ client' = "answered" /\ responses' = << >> /\ Head(responses).kind = "Failure"
      \/ client' = "reading" /\ responses' = Tail(responses)
  BY <1>1 DEF Read
<1>3. IsSeq(received') BY <1>1, Appended
<1>4. HasFailure(received) \/ Head(responses).kind = "Failure" => HasFailure(received)'
  BY <1>1, Appended
<1>5. IsSeq(responses') BY <1>1, <1>2, Rest, EmptyIsSeq DEF IsSeq
<1>6. HasFailure(responses) => HasFailure(received)' \/ HasFailure(responses)'
  BY <1>1, <1>2, <1>4, Rest
<1>7. Agree' /\ Endings' BY <1>1 DEF Agree, Stopped, Endings
<1>8. Guarded' BY <1>1, <1>2, <1>4, <1>6 DEF Guarded, FailureSeen
<1>9. QED BY <1>1, <1>3, <1>5, <1>7, <1>8

LEMMA AssembleInv == IInv /\ Assemble => IInv'
BY DEF IInv, Assemble, request, Agree, Stopped, Endings, Guarded, FailureSeen, HasFailure, IsSeq

LEMMA LeaveInv == IInv /\ Leave => IInv'
<1> SUFFICES ASSUME IInv, Leave PROVE IInv' OBVIOUS
<1>1. IsSeq(responses') BY EmptyIsSeq DEF Leave, IsSeq
<1>2. QED BY <1>1 DEF IInv, Leave, request, Agree, Stopped, Endings, Guarded, FailureSeen

LEMMA StutterInv == IInv /\ UNCHANGED vars => IInv'
BY DEF IInv, vars, request, reader, Agree, Stopped, Endings, Guarded, FailureSeen, HasFailure, IsSeq

LEMMA NextInv == IInv /\ [Next]_vars => IInv'
<1> SUFFICES ASSUME IInv, [Next]_vars PROVE IInv' OBVIOUS
<1>1. CASE Admit BY <1>1, AdmitInv
<1>2. CASE Complete BY <1>2, CompleteInv
<1>3. CASE Told \/ Dropped BY <1>3, EndToldInv
<1>4. CASE Send BY <1>4, SendInv
<1>5. CASE SendFails BY <1>5, SendFailsInv
<1>6. ASSUME NEW token \in Tokens, Raw(token) PROVE IInv' BY <1>6, RawInv
<1>7. CASE Read BY <1>7, ReadInv
<1>8. CASE Assemble BY <1>8, AssembleInv
<1>9. CASE Leave BY <1>9, LeaveInv
<1>10. CASE Over \/ UNCHANGED vars BY <1>10, StutterInv DEF Over
<1>11. QED BY <1>1, <1>2, <1>3, <1>4, <1>5, <1>6, <1>7, <1>8, <1>9, <1>10 DEF Next

\* The inductive invariant holds throughout.
THEOREM Invariance == Spec => []IInv
<1>1. QED BY InitInv, NextInv, PTL DEF Spec

-----------------------------------------------------------------------------
(* The theorems.                                                           *)

\* Between two events, parser and engine agree on whether the completion has stopped,
\* and why.
THEOREM ParserAlwaysAgrees == Spec => []ParserAgrees
<1>1. IInv => ParserAgrees BY DEF IInv, Agree, Endings, ParserAgrees
<1>2. QED BY <1>1, Invariance, PTL

\* Whatever is left over when the task ends is cancelled, and nothing is cancelled under a
\* client who is being served.
THEOREM GuardIsAlwaysExact == Spec => []GuardIsExact
<1>1. ASSUME IInv, cancelled, client # "gone"
      PROVE  \E i \in DOMAIN Emitted : Emitted[i].kind = "Failure"
  <2>1. outbox = << >> /\ (HasFailure(received) \/ HasFailure(responses))
    BY <1>1 DEF IInv, Guarded, FailureSeen
  <2>2. HasFailure(Emitted) BY <1>1, <2>1, Joined DEF IInv, Emitted
  <2>3. QED BY <2>2 DEF HasFailure
<1>2. IInv => GuardIsExact BY <1>1 DEF IInv, Guarded, GuardIsExact
<1>3. QED BY <1>2, Invariance, PTL

-----------------------------------------------------------------------------
(* What the parser's events tell the client.                               *)

\* Concatenation under a name of its own, for a prover that expands the operator.
Join(s, t) == s \o t

Joins(f, seqs) ==
  f = [i \in 1 .. Len(seqs) |-> IF i = 1 THEN seqs[i] ELSE Join(f[i - 1], seqs[i])]

\* What FlattenSeq chooses.
LEMMA Flatten ==
  ASSUME NEW seqs, Len(seqs) # 0
  PROVE  FlattenSeq(seqs) = (CHOOSE f : Joins(f, seqs))[Len(seqs)]
BY DEF FlattenSeq, Joins, Join

\* FlattenSeq is a recursive function.  For as few sequences as the parser returns events
\* it can be written out.
LEMMA FlattenFew ==
  ASSUME NEW seqs, NEW n \in 1 .. 3, n = Len(seqs)
  PROVE  /\ n = 1 => FlattenSeq(seqs) = seqs[1]
         /\ n = 2 => FlattenSeq(seqs) = Join(seqs[1], seqs[2])
         /\ n = 3 => FlattenSeq(seqs) = Join(Join(seqs[1], seqs[2]), seqs[3])
<1>t. PICK two, three : two = Join(seqs[1], seqs[2]) /\ three = Join(two, seqs[3]) BY Zenon
<1> DEFINE c == [i \in 1 .. n |-> IF i = 1 THEN seqs[1] ELSE IF i = 2 THEN two ELSE three]
           d == [i \in 1 .. n |-> IF i = 1 THEN seqs[i] ELSE Join(c[i - 1], seqs[i])]
           g == CHOOSE f : Joins(f, seqs)
<1>1. /\ 2 - 1 = 1 /\ 3 - 1 = 2 /\ 2 # 1 /\ 3 # 1 /\ 3 # 2
      /\ n = 1 \/ n = 2 \/ n = 3
      /\ 1 \in 1 .. n /\ (n > 1 => 2 \in 1 .. n) /\ (n > 2 => 3 \in 1 .. n)
      /\ \A i \in 1 .. n : i = 1 \/ (i = 2 /\ n > 1) \/ (i = 3 /\ n > 2 /\ n > 1)
      /\ (n = 2 => n > 1) /\ (n = 3 => n > 2)
  <2> HIDE DEF c, d, g
  <2>1. QED BY ONLY n \in 1 .. 3, SMT
<1>2. /\ c[1] = seqs[1] /\ (n > 1 => c[2] = two) /\ (n > 2 => c[3] = three)
  BY <1>1, Zenon
<1>3. /\ d[1] = seqs[1] /\ (n > 1 => d[2] = Join(c[1], seqs[2])) /\ (n > 2 => d[3] = Join(c[2], seqs[3]))
  <2>1. d[1] = seqs[1] BY <1>1, Zenon
  <2>2. n > 1 => d[2] = Join(c[2 - 1], seqs[2]) BY <1>1, Zenon
  <2>3. n > 2 => d[3] = Join(c[3 - 1], seqs[3]) BY <1>1, Zenon
  <2> HIDE DEF c, d
  <2>4. QED BY <1>1, <2>1, <2>2, <2>3, Zenon
<1>4. c = d
  <2>1. c = [i \in 1 .. n |-> c[i]] BY Zenon
  <2> HIDE DEF c
  <2>2. d = [i \in 1 .. n |-> d[i]] BY ONLY TRUE
  <2> HIDE DEF c, d
  <2>3. \A i \in 1 .. n : c[i] = d[i]
    <3>1. n > 2 => n > 1 BY <1>1, Zenon
    <3>2. QED BY <1>t, <3>1, <1>1, <1>2, <1>3, Zenon
  <2>4. QED BY <2>1, <2>2, <2>3, Zenon
<1>5. Joins(g, seqs)
  <2>1. d = [i \in 1 .. Len(seqs) |-> IF i = 1 THEN seqs[i] ELSE Join(c[i - 1], seqs[i])]
    BY Zenon
  <2> HIDE DEF c, d
  <2>2. Joins(c, seqs) BY <1>4, <2>1, Zenon DEF Joins
  <2>3. QED BY <2>2, Zenon
<1>6. FlattenSeq(seqs) = g[n]
  <2>1. n # 0 BY ONLY n \in 1 .. 3, SMT
  <2>2. QED BY <2>1, Flatten, Zenon
<1> HIDE DEF c, d, g
<1>7. ASSUME NEW i \in 1 .. n PROVE g[i] = IF i = 1 THEN seqs[i] ELSE Join(g[i - 1], seqs[i])
  BY <1>5, Zenon DEF Joins
<1>8. g[1] = seqs[1]
  BY <1>1, <1>7, Zenon
<1>9. n > 1 => g[2] = two
  <2>1. n > 1 => g[2] = Join(g[2 - 1], seqs[2]) BY <1>1, <1>7, Zenon
  <2>2. QED BY <1>t, <1>1, <1>8, <2>1, Zenon
<1>10. n > 2 => g[3] = three
  <2>1. n > 2 => g[3] = Join(g[3 - 1], seqs[3]) BY <1>1, <1>7, Zenon
  <2>2. n > 2 => g[2] = two BY <1>1, <1>9, Zenon
  <2>3. QED BY <1>t, <1>1, <2>1, <2>2, Zenon
<1>11. QED BY <1>t, <1>1, <1>6, <1>8, <1>9, <1>10, Zenon

\* What the events of a call tell the client: text, or nothing.
SaysText(chunks) ==
  \/ chunks = << >>
  \/ \E kind \in {"Content", "Reasoning"} : \E text : chunks = <<[kind |-> kind, text |-> text]>>

CallsTool(chunks) == \E text : chunks = <<[kind |-> "ToolCall", text |-> text]>>

\* The chunks of as many events as a call returns.
LEMMA ChunksOfFew ==
  ASSUME NEW events, NEW n \in 1 .. 3, NEW S, events \in Seq(S), Len(events) = n
  PROVE  /\ n = 1 => Chunks(events) = Mapped(events[1])
         /\ n = 2 => Chunks(events) = Join(Mapped(events[1]), Mapped(events[2]))
         /\ n = 3 => Chunks(events) = Join(Join(Mapped(events[1]), Mapped(events[2])), Mapped(events[3]))
<1> DEFINE seqs == [i \in DOMAIN events |-> Mapped(events[i])]
           M == {Mapped(events[i]) : i \in 1 .. n}
<1>1. DOMAIN events = 1 .. n /\ n \in Nat BY SMT
<1>2. seqs \in Seq(M) /\ Len(seqs) = n
  <2>1. \A i \in 1 .. n : Mapped(events[i]) \in M OBVIOUS
  <2>2. seqs \in [1 .. n -> M]
    <3> HIDE DEF M
    <3>1. QED BY <1>1, <2>1, Zenon
  <2> HIDE DEF seqs, M
  <2>3. QED BY <1>1, <2>2
<1>3. seqs[1] = Mapped(events[1]) /\ (n > 1 => seqs[2] = Mapped(events[2])) /\ (n > 2 => seqs[3] = Mapped(events[3]))
  <2>1. 1 \in 1 .. n /\ (n > 1 => 2 \in 1 .. n) /\ (n > 2 => 3 \in 1 .. n) BY SMT
  <2>2. QED BY <1>1, <2>1, Zenon
<1>4. Chunks(events) = FlattenSeq(seqs) BY Zenon DEF Chunks
<1> HIDE DEF seqs
<1>5. /\ n = 1 => FlattenSeq(seqs) = seqs[1]
      /\ n = 2 => FlattenSeq(seqs) = Join(seqs[1], seqs[2])
      /\ n = 3 => FlattenSeq(seqs) = Join(Join(seqs[1], seqs[2]), seqs[3])
  <2>1. n = Len(seqs) BY <1>2
  <2>2. QED BY ONLY <2>1, n \in 1 .. 3, FlattenFew, Zenon
<1>6. (n = 2 => n > 1) /\ (n = 3 => n > 2 /\ n > 1) /\ (n = 1 \/ n = 2 \/ n = 3)
  BY ONLY n \in 1 .. 3, SMT
<1>7. QED BY <1>3, <1>4, <1>5, <1>6, Zenon

\* Nothing before or behind.
LEMMA JoinsNothing ==
  ASSUME NEW s, IsSeq(s)
  PROVE  Join(<< >>, s) = s /\ Join(s, << >>) = s
<1>1. PICK S : s \in Seq(S) BY DEF IsSeq
<1>2. << >> \o s = s /\ s \o << >> = s BY <1>1
<1>3. QED BY <1>2 DEF Join

\* Nothing is a sequence, and so is one.
LEMMA NothingIsSeq == IsSeq(<< >>)
BY EmptyIsSeq DEF IsSeq

LEMMA OneIsSeq == ASSUME NEW x PROVE IsSeq(<<x>>)
<1>1. <<x>> \in Seq({x}) OBVIOUS
<1>2. QED BY <1>1 DEF IsSeq

\* What becomes of a delta, of a message and of a Done.
LEMMA Mappings ==
  ASSUME NEW x
  PROVE  /\ x.kind = "ContentDelta" => SaysText(Mapped(x)) /\ IsSeq(Mapped(x))
         /\ x.kind \in {"Message", "Done"} => Mapped(x) = << >>
         /\ x.kind = "ToolCall" => Mapped(x) = <<[kind |-> "ToolCall", text |-> x.text]>>
<1>1. ASSUME x.kind = "ContentDelta" PROVE SaysText(Mapped(x)) /\ IsSeq(Mapped(x))
  <2>1. Mapped(x) = <<[kind |-> IF x.channel = "final" THEN "Content" ELSE "Reasoning", text |-> x.text]>>
    BY <1>1 DEF Mapped
  <2>2. (IF x.channel = "final" THEN "Content" ELSE "Reasoning") \in {"Content", "Reasoning"} OBVIOUS
  <2>3. QED BY <2>1, <2>2, OneIsSeq, Zenon DEF SaysText
<1>2. x.kind \in {"Message", "Done"} => Mapped(x) = << >> BY DEF Mapped
<1>3. x.kind = "ToolCall" => Mapped(x) = <<[kind |-> "ToolCall", text |-> x.text]>> BY DEF Mapped
<1>4. QED BY <1>1, <1>2, <1>3

IsSilent(event) == event.kind \in {"Message", "Done"}
IsSaid(event) == event.kind = "ContentDelta" \/ IsSilent(event)

\* A delta and what closes a message give a text or nothing.
LEMMA TextOf ==
  ASSUME NEW x, IsSaid(x),
         NEW y, IsSilent(y), NEW z, IsSilent(z)
  PROVE  /\ SaysText(Chunks(<< >>))
         /\ SaysText(Chunks(<<x>>)) /\ SaysText(Chunks(<<x, y>>)) /\ SaysText(Chunks(<<x, y, z>>))
<1> DEFINE m == Mapped(x)
<1>1. SaysText(m) /\ IsSeq(m) BY Mappings, NothingIsSeq DEF SaysText, IsSaid, IsSilent
<1>2. Mapped(y) = << >> /\ Mapped(z) = << >> BY Mappings DEF IsSilent
<1> HIDE DEF m
<1>3. Join(m, << >>) = m BY <1>1, JoinsNothing
<1>4. Chunks(<< >>) = << >>
  <2>1. [i \in DOMAIN << >> |-> Mapped(<< >>[i])] = << >> OBVIOUS
  <2>2. Len(<< >>) = 0 OBVIOUS
  <2>3. Chunks(<< >>) = FlattenSeq(<< >>) BY <2>1, Zenon DEF Chunks
  <2>4. FlattenSeq(<< >>) = << >> BY <2>2, Zenon DEF FlattenSeq
  <2>5. QED BY <2>3, <2>4, Zenon
<1>5. Chunks(<<x>>) = m
  <2>1. <<x>> \in Seq({x}) /\ Len(<<x>>) = 1 /\ <<x>>[1] = x OBVIOUS
  <2>2. 1 \in 1 .. 3 OBVIOUS
  <2>3. Chunks(<<x>>) = Mapped(<<x>>[1]) BY ONLY <2>1, <2>2, ChunksOfFew, Zenon
  <2>4. QED BY <2>1, <2>3, Zenon DEF m
<1>6. Chunks(<<x, y>>) = m
  <2>1. <<x, y>> \in Seq({x, y}) /\ Len(<<x, y>>) = 2 /\ <<x, y>>[1] = x /\ <<x, y>>[2] = y OBVIOUS
  <2>2. 2 \in 1 .. 3 OBVIOUS
  <2>3. Chunks(<<x, y>>) = Join(Mapped(<<x, y>>[1]), Mapped(<<x, y>>[2]))
    BY ONLY <2>1, <2>2, ChunksOfFew, Zenon
  <2>4. Chunks(<<x, y>>) = Join(m, << >>) BY <2>1, <2>3, <1>2, Zenon DEF m
  <2>5. QED BY <1>3, <2>4
<1>7. Chunks(<<x, y, z>>) = m
  <2>1. /\ <<x, y, z>> \in Seq({x, y, z}) /\ Len(<<x, y, z>>) = 3
        /\ <<x, y, z>>[1] = x /\ <<x, y, z>>[2] = y /\ <<x, y, z>>[3] = z OBVIOUS
  <2>2. 3 \in 1 .. 3 OBVIOUS
  <2>3. Chunks(<<x, y, z>>) =
          Join(Join(Mapped(<<x, y, z>>[1]), Mapped(<<x, y, z>>[2])), Mapped(<<x, y, z>>[3]))
    BY ONLY <2>1, <2>2, ChunksOfFew, Zenon
  <2>4. Chunks(<<x, y, z>>) = Join(Join(m, << >>), << >>) BY <2>1, <2>3, <1>2, Zenon DEF m
  <2>5. QED BY <1>3, <2>4
<1>8. QED BY <1>1, <1>4, <1>5, <1>6, <1>7 DEF SaysText

\* The same for the events by themselves.
LEMMA TextOfOne ==
  ASSUME NEW x, IsSaid(x)
  PROVE  SaysText(Chunks(<< >>)) /\ SaysText(Chunks(<<x>>))
<1> DEFINE y == Done("Return")
<1>1. IsSilent(y) BY DEF Done, IsSaid, IsSilent
<1> HIDE DEF y
<1>2. QED BY ONLY <1>1, IsSaid(x), TextOf, Zenon

LEMMA TextOfTwo ==
  ASSUME NEW x, IsSaid(x), NEW y, IsSilent(y)
  PROVE  SaysText(Chunks(<<x, y>>))
BY TextOf, Zenon

LEMMA TextOfThree ==
  ASSUME NEW x, IsSaid(x),
         NEW y, IsSilent(y), NEW z, IsSilent(z)
  PROVE  SaysText(Chunks(<<x, y, z>>))
BY TextOf, Zenon

\* A CALL hands its tool call over, and the Done behind it says nothing.
LEMMA CallOf ==
  ASSUME NEW content, NEW reason
  PROVE  CallsTool(Chunks(<<ToolCall(content), Done(reason)>>))
<1> DEFINE x == ToolCall(content)
           y == Done(reason)
           m == <<[kind |-> "ToolCall", text |-> content]>>
<1>1. Mapped(x) = m /\ Mapped(y) = << >> BY Mappings DEF ToolCall, Done
<1>2. Join(m, << >>) = m BY OneIsSeq, JoinsNothing
<1> HIDE DEF x, y, m
<1>3. <<x, y>> \in Seq({x, y}) /\ Len(<<x, y>>) = 2 /\ <<x, y>>[1] = x /\ <<x, y>>[2] = y OBVIOUS
<1>4. Chunks(<<x, y>>) = Join(m, << >>)
  <2>1. 2 \in 1 .. 3 OBVIOUS
  <2>2. Chunks(<<x, y>>) = Join(Mapped(<<x, y>>[1]), Mapped(<<x, y>>[2]))
    BY ONLY <1>3, <2>1, ChunksOfFew, Zenon
  <2>3. QED BY <1>1, <1>3, <2>2, Zenon
<1>5. QED BY <1>2, <1>4 DEF CallsTool, x, y, m

\* Few events behind few.
LEMMA Behind ==
  ASSUME NEW s, NEW x, NEW y, s = << >> \/ s = <<x>>
  PROVE  Append(s, y) = <<y>> \/ Append(s, y) = <<x, y>>
<1>1. << >> \in Seq({y}) OBVIOUS
<1>2. Append(<< >>, y) = <<y>> BY <1>1
<1>3. Append(<<x>>, y) = <<x, y>>
  <2>1. <<x, y>> = Append(<<x>>, y) OBVIOUS
  <2>2. QED BY <2>1, Zenon
<1>4. QED BY ONLY <1>2, <1>3, s = << >> \/ s = <<x>>, Zenon

LEMMA TwoBehind ==
  ASSUME NEW x, NEW y, NEW z
  PROVE  Join(<< >>, <<y, z>>) = <<y, z>> /\ Join(<<x>>, <<y, z>>) = <<x, y, z>>
<1> DEFINE S == {x, y, z}
<1>1. /\ << >> \in Seq(S) /\ <<x>> \in Seq(S) /\ <<y>> \in Seq(S)
      /\ <<x, y>> \in Seq(S) /\ <<y, z>> \in Seq(S) /\ x \in S /\ y \in S /\ z \in S
  OBVIOUS
<1>2. << >> \o <<y, z>> = <<y, z>> BY <1>1
<1>3. <<x>> \o <<y, z>> = <<x, y, z>>
  <2>1. <<y, z>> = Append(<<y>>, z) /\ <<x, y, z>> = Append(Append(<<x>>, y), z) OBVIOUS
  <2>2. <<x>> \o Append(<<y>>, z) = Append(<<x>> \o <<y>>, z) BY <1>1
  <2>3. <<x>> \o Append(<< >>, y) = Append(<<x>> \o << >>, y) BY <1>1
  <2>4. <<x>> \o << >> = <<x>> BY <1>1
  <2>5. <<y>> = Append(<< >>, y) BY <1>1
  <2> HIDE DEF S
  <2>6. QED BY <2>1, <2>2, <2>3, <2>4, <2>5, Zenon
<1>4. QED BY <1>2, <1>3 DEF Join

\* What a call that succeeds tells the client: a tool call just when it closes one, and
\* text at most otherwise.
Speaks(result) ==
  IF result.parser.kind = "Terminal" /\ result.parser.reason = "ToolCall"
  THEN CallsTool(Chunks(result.events))
  ELSE /\ SaysText(Chunks(result.events))
       /\ result.parser.kind = "Terminal" => result.parser.reason = "Return"

\* Closing a message speaks of it.
LEMMA ClosedSpeaks ==
  ASSUME NEW delimiter \in Delimiters, NEW header, NEW content, NEW text,
         CloseMessage(delimiter, header, content, Deltas(header, text)).ok
  PROVE  Speaks(CloseMessage(delimiter, header, content, Deltas(header, text)))
<1> DEFINE events == Deltas(header, text)
           result == CloseMessage(delimiter, header, content, events)
           x == Delta(header.channel, text)
           y == Message(header.channel, content)
           z == Done("Return")
<1>1. events = << >> \/ events = <<x>> BY DeltasAre
<1>2. /\ IsSaid(x) /\ IsSaid(y)
      /\ IsSilent(y) /\ IsSilent(z)
  BY DEF Delta, Message, Done, IsSaid, IsSilent
<1>3. CASE delimiter = "END"
  <2>1. result = Ok(ExpectStart, Append(events, y))
    BY <1>3 DEF CloseMessage, Err
  <2>2. result.events = Append(events, y) /\ result.parser.kind = "ExpectStart"
    BY <2>1 DEF Ok, ExpectStart
  <2> HIDE DEF events, result, x, y, z
  <2>3. result.events = <<y>> \/ result.events = <<x, y>>
    <3>1. Append(events, y) = <<y>> \/ Append(events, y) = <<x, y>> BY ONLY <1>1, Behind, Zenon
    <3>2. QED BY ONLY <2>2, <3>1, Zenon
  <2>4. SaysText(Chunks(<<y>>)) /\ SaysText(Chunks(<<x, y>>))
    BY ONLY <1>2, TextOfOne, TextOfTwo, Zenon
  <2>5. QED BY <2>2, <2>3, <2>4 DEF Speaks, result, events
<1>4. CASE delimiter = "RETURN"
  <2>1. result = Ok(Terminal("Return"), events \o <<y, z>>)
    BY <1>4 DEF CloseMessage, Err
  <2>2. /\ result.events = events \o <<y, z>>
        /\ result.parser.kind = "Terminal" /\ result.parser.reason = "Return"
    BY <2>1 DEF Ok, Terminal
  <2> HIDE DEF events, result, x, y, z
  <2>3. result.events = <<y, z>> \/ result.events = <<x, y, z>>
    <3>1. Join(<< >>, <<y, z>>) = <<y, z>> /\ Join(<<x>>, <<y, z>>) = <<x, y, z>> BY TwoBehind
    <3>2. result.events = Join(events, <<y, z>>) BY <2>2 DEF Join
    <3>3. QED BY ONLY <1>1, <3>1, <3>2, Zenon
  <2>4. SaysText(Chunks(<<y, z>>)) /\ SaysText(Chunks(<<x, y, z>>))
    BY ONLY <1>2, TextOfTwo, TextOfThree, Zenon
  <2>5. QED BY <2>2, <2>3, <2>4 DEF Speaks, result, events
<1>5. CASE delimiter = "CALL"
  <2>1. result = Ok(Terminal("ToolCall"), events \o <<ToolCall(content), Done("ToolCall")>>) /\ header.recipient
    BY <1>5 DEF CloseMessage, Err
  <2>2. /\ result.events = events \o <<ToolCall(content), Done("ToolCall")>>
        /\ result.parser.kind = "Terminal" /\ result.parser.reason = "ToolCall"
    BY <2>1 DEF Ok, Terminal
  <2>3. events = << >> BY <2>1 DEF Deltas
  <2> HIDE DEF events, result
  <2>4. result.events = <<ToolCall(content), Done("ToolCall")>> 
    <3>1. <<ToolCall(content), Done("ToolCall")>> \in Seq({ToolCall(content), Done("ToolCall")}) OBVIOUS
    <3>2. << >> \o <<ToolCall(content), Done("ToolCall")>> = <<ToolCall(content), Done("ToolCall")>> BY <3>1
    <3>3. QED BY ONLY <2>2, <2>3, <3>2, Zenon
  <2>5. CallsTool(Chunks(result.events)) BY <2>4, CallOf
  <2>6. QED BY <2>2, <2>5 DEF Speaks, result, events
<1>6. QED BY <1>3, <1>4, <1>5 DEF Delimiters

\* A token that is taken speaks.
LEMMA ProcessedSpeaks ==
  ASSUME NEW p, p.kind \in {"Header", "Content", "ExpectStart"}, NEW token,
         NEW result \in Process(p, token), result.ok
  PROVE  Speaks(result)
<1> DEFINE z == Done("Return")
<1>1. SaysText(Chunks(<< >>))
  <2>1. IsSaid(z) BY DEF Done, IsSaid, IsSilent
  <2>2. QED BY ONLY <2>1, TextOfOne, Zenon
<1>2. CASE p.kind = "Header"
  <2>1. result = InHeader(p, token) BY <1>2 DEF Process
  <2>2. CASE token = "MESSAGE"
    <3>1. PICK header : result = Ok(Content(header, << >>, << >>, << >>), << >>)
      BY <2>1, <2>2 DEF InHeader, Err
    <3>2. result.parser.kind = "Content" /\ result.events = << >> BY <3>1 DEF Ok, Content
    <3>3. QED BY <1>1, <3>2 DEF Speaks
  <2>3. CASE token # "MESSAGE"
    <3>1. result = Ok(Header(p.implicit, Append(p.tokens, token)), << >>)
      BY <2>1, <2>3 DEF InHeader, Err
    <3>2. result.parser.kind = "Header" /\ result.events = << >> BY <3>1 DEF Ok, Header
    <3>3. QED BY <1>1, <3>2 DEF Speaks
  <2>4. QED BY <2>2, <2>3
<1>3. CASE p.kind = "Content"
  <2>1. result \in InContent(p, token) BY <1>3 DEF Process
  <2>2. CASE token \in Delimiters
    <3>1. PICK tail \in DecoderFinish(p.held) :
            result = LET bytes == p.pending \o tail
                     IN  IF IsUtf8(bytes)
                         THEN CloseMessage(token, p.header, p.content \o bytes, Deltas(p.header, bytes))
                         ELSE Err(Failed)
      BY <2>1, <2>2 DEF InContent
    <3>2. PICK content, text : result = CloseMessage(token, p.header, content, Deltas(p.header, text))
      BY <3>1 DEF Err
    <3>3. QED BY <2>2, <3>2, ClosedSpeaks
  <2>3. CASE token \notin Delimiters
    <3>1. token \notin Special BY <2>1, <2>3 DEF InContent, Err
    <3>2. PICK pushed \in DecoderPush(p.held, token) :
            result = LET bytes == p.pending \o pushed.released
                         text  == ValidPrefix(bytes)
                     IN  IF IsBroken(bytes) THEN Err(Failed)
                         ELSE Ok(Content(p.header, p.content \o text, ValidRest(bytes), pushed.held),
                                 Deltas(p.header, text))
      BY <2>1, <2>3, <3>1 DEF InContent
    <3>3. PICK text, content, pending, held :
            result = Ok(Content(p.header, content, pending, held), Deltas(p.header, text))
      BY <3>2 DEF Err
    <3>4. result.parser.kind = "Content" /\ result.events = Deltas(p.header, text)
      BY <3>3 DEF Ok, Content
    <3>5. SaysText(Chunks(result.events))
      <4> DEFINE x == Delta(p.header.channel, text)
      <4>1. IsSaid(x) BY DEF Delta, IsSaid, IsSilent
      <4>2. result.events = << >> \/ result.events = <<x>> BY <3>4, DeltasAre
      <4> HIDE DEF x
      <4>3. SaysText(Chunks(<<x>>)) BY ONLY <4>1, TextOfOne, Zenon
      <4>4. QED BY ONLY <1>1, <4>2, <4>3, Zenon
    <3>6. QED BY <3>4, <3>5 DEF Speaks
  <2>4. QED BY <2>2, <2>3
<1>4. CASE p.kind = "ExpectStart"
  <2>1. result = IF token = "START" THEN Ok(Header(FALSE, << >>), << >>) ELSE Err(Failed)
    BY <1>4 DEF Process
  <2>2. result.parser.kind = "Header" /\ result.events = << >>
    BY <2>1 DEF Err, Ok, Header
  <2>3. QED BY <1>1, <2>2 DEF Speaks
<1>5. QED BY <1>2, <1>3, <1>4

\* Cut off, the parser gives the text it has.
LEMMA CutOffSpeaks ==
  ASSUME NEW p, Truncate(p).ok
  PROVE  SaysText(Chunks(Truncate(p).events))
<1> DEFINE y == Done("Length")
<1>1. CASE p.kind = "Content"
  <2> DEFINE x == Delta(p.header.channel, ValidPrefix(p.pending))
  <2>1. Truncate(p) = Ok(Truncated, Append(Deltas(p.header, ValidPrefix(p.pending)), y))
    BY <1>1 DEF Truncate, Err
  <2>2. Truncate(p).events = Append(Deltas(p.header, ValidPrefix(p.pending)), y)
    BY <2>1 DEF Ok
  <2>3. /\ IsSaid(x) /\ IsSaid(y)
        /\ IsSilent(y)
    BY DEF Delta, Done, IsSaid, IsSilent
  <2>4. Deltas(p.header, ValidPrefix(p.pending)) = << >> \/ Deltas(p.header, ValidPrefix(p.pending)) = <<x>>
    BY DeltasAre
  <2> HIDE DEF x, y
  <2>5. Truncate(p).events = <<y>> \/ Truncate(p).events = <<x, y>>
    BY ONLY <2>2, <2>4, Behind, Zenon
  <2>6. SaysText(Chunks(<<y>>)) /\ SaysText(Chunks(<<x, y>>)) BY ONLY <2>3, TextOfOne, TextOfTwo, Zenon
  <2>7. QED BY <2>5, <2>6, Zenon
<1>2. CASE p.kind \in {"Header", "ExpectStart"}
  <2>1. Truncate(p) = Ok(Truncated, <<y>>) BY <1>2 DEF Truncate
  <2>2. Truncate(p).events = <<y>> /\ IsSaid(y) BY <2>1 DEF Ok, Done, IsSaid, IsSilent
  <2> HIDE DEF y
  <2>3. SaysText(Chunks(<<y>>)) BY ONLY <2>2, TextOfOne, Zenon
  <2>4. QED BY <2>2, <2>3, Zenon
<1>3. CASE p.kind \notin {"Content", "Header", "ExpectStart"}
  BY <1>3 DEF Truncate, Err
<1>4. QED BY <1>1, <1>2, <1>3

-----------------------------------------------------------------------------
(* The order of a stream.                                                  *)

Talk == {"Role", "Content", "Reasoning"}

\* What may follow an event of a stream.
Follows(a, b, bill) ==
  \/ a.kind \in Talk /\ b.kind \in {"Content", "Reasoning", "ToolCall"}
  \/ a.kind \in Talk \cup {"ToolCall"} /\ b.kind = "Failure"
  \/ /\ a.kind \in Talk \cup {"ToolCall"} /\ b.kind = "Terminal" /\ b.reason \in Reasons
     /\ b.reason = "tool_calls" <=> a.kind = "ToolCall"
  \/ a.kind = "Terminal" /\ bill /\ b.kind = "Usage"
  \/ a.kind = (IF bill THEN "Usage" ELSE "Terminal") /\ b.kind = "Done"

InOrder(s, bill) ==
  /\ \A i \in DOMAIN s : i = 1 => s[i].kind = "Role"
  /\ \A i \in DOMAIN s : i > 1 => Follows(s[i - 1], s[i], bill)
  /\ \A i, j \in DOMAIN s : i < j /\ s[i].kind = "Terminal" => s[j].kind \in {"Usage", "Done"}

\* A stream so far.
Stands(s, bill) == IsSeq(s) /\ s # << >> /\ InOrder(s, bill)

\* Sequences of anything, once more: what Appended and Joined do not say.
LEMMA Facts ==
  ASSUME NEW s, IsSeq(s)
  PROVE  /\ Len(s) \in Nat /\ DOMAIN s = 1 .. Len(s)
         /\ s # << >> <=> Len(s) > 0
         /\ s # << >> => Last(s) = s[Len(s)] /\ Head(s) = s[1]
<1>1. PICK S : s \in Seq(S) BY DEF IsSeq
<1>2. QED BY <1>1 DEF Last

LEMMA AppendFacts ==
  ASSUME NEW s, IsSeq(s), NEW e
  PROVE  /\ IsSeq(Append(s, e))
         /\ Len(Append(s, e)) = Len(s) + 1
         /\ \A i \in 1 .. Len(s) : Append(s, e)[i] = s[i]
         /\ Append(s, e)[Len(s) + 1] = e
         /\ s \o <<e>> = Append(s, e)
<1>1. PICK S : s \in Seq(S) BY DEF IsSeq
<1> DEFINE T == S \cup {e}
<1>2. s \in Seq(T) /\ e \in T BY <1>1
<1>3. Append(s, e) \in Seq(T) BY <1>2
<1>4. s \o <<e>> = Append(s, e)
  <2>1. << >> \in Seq(T) BY <1>2
  <2>2. <<e>> = Append(<< >>, e) BY <2>1
  <2>3. s \o Append(<< >>, e) = Append(s \o << >>, e) BY <1>2, <2>1
  <2>4. s \o << >> = s BY <1>2
  <2> HIDE DEF T
  <2>5. QED BY ONLY <2>2, <2>3, <2>4, Zenon
<1>5. QED BY <1>2, <1>3, <1>4 DEF IsSeq

LEMMA JoinFacts ==
  ASSUME NEW s, NEW t, NEW u, IsSeq(s), IsSeq(t), IsSeq(u)
  PROVE  /\ IsSeq(s \o t)
         /\ (s \o t) \o u = s \o (t \o u)
         /\ s \o << >> = s /\ << >> \o s = s
         /\ Len(s \o t) = Len(s) + Len(t)
         /\ \A i \in 1 .. Len(s) : (s \o t)[i] = s[i]
         /\ \A i \in 1 .. Len(t) : (s \o t)[Len(s) + i] = t[i]
<1>1. PICK S, T, U : s \in Seq(S) /\ t \in Seq(T) /\ u \in Seq(U) BY DEF IsSeq
<1> DEFINE V == S \cup T \cup U
<1>2. s \in Seq(V) /\ t \in Seq(V) /\ u \in Seq(V) BY <1>1
<1>3. s \o t \in Seq(V) BY <1>2
<1>4. (s \o t) \o u = s \o (t \o u) BY <1>2
<1>5. s \o << >> = s /\ << >> \o s = s BY <1>2
<1>6. QED BY <1>2, <1>3, <1>4, <1>5 DEF IsSeq

LEMMA HeadAndTail ==
  ASSUME NEW s, IsSeq(s), s # << >>
  PROVE  /\ s = <<Head(s)>> \o Tail(s) /\ IsSeq(Tail(s))
         /\ (Tail(s) # << >> <=> Len(s) > 1)
<1>1. PICK S : s \in Seq(S) BY DEF IsSeq
<1>2. Tail(s) \in Seq(S) BY <1>1
<1>3. s = <<Head(s)>> \o Tail(s) BY <1>1
<1>4. Tail(s) # << >> <=> Len(s) > 1
  <2>1. IsSeq(Tail(s)) BY <1>2 DEF IsSeq
  <2>2. Tail(s) # << >> <=> Len(Tail(s)) > 0 BY <2>1, Facts
  <2>3. Len(Tail(s)) = Len(s) - 1 /\ Len(s) \in Nat BY <1>1
  <2>4. QED BY <2>2, <2>3
<1>5. QED BY <1>2, <1>3, <1>4 DEF IsSeq

\* Moving on the first of what waits changes nothing of what was sent.
LEMMA MovingOn ==
  ASSUME NEW s, NEW t, IsSeq(s), IsSeq(t), t # << >>
  PROVE  Append(s, Head(t)) \o Tail(t) = s \o t
<1>1. IsSeq(<<Head(t)>>) /\ IsSeq(Tail(t)) BY OneIsSeq, HeadAndTail
<1>2. s \o (<<Head(t)>> \o Tail(t)) = (s \o <<Head(t)>>) \o Tail(t) BY <1>1, JoinFacts
<1>3. s \o <<Head(t)>> = Append(s, Head(t)) BY AppendFacts
<1>4. <<Head(t)>> \o Tail(t) = t BY HeadAndTail
<1>5. QED BY ONLY <1>2, <1>3, <1>4, Zenon

\* One more event.
LEMMA Extends ==
  ASSUME NEW s, NEW bill, Stands(s, bill), NEW e, Follows(Last(s), e, bill)
  PROVE  Stands(s \o <<e>>, bill) /\ Last(s \o <<e>>) = e
<1> DEFINE t == Append(s, e)
           n == Len(s)
<1>1. IsSeq(s) /\ s # << >> /\ InOrder(s, bill) BY DEF Stands
<1>2. n \in Nat /\ n > 0 /\ DOMAIN s = 1 .. n /\ Last(s) = s[n] BY <1>1, Facts
<1>3. /\ IsSeq(t) /\ Len(t) = n + 1 /\ s \o <<e>> = t
      /\ \A i \in 1 .. n : t[i] = s[i]
      /\ t[n + 1] = e
  BY <1>1, AppendFacts
<1> HIDE DEF t, n
<1>4. t # << >> /\ Last(t) = e /\ DOMAIN t = 1 .. n + 1 BY <1>2, <1>3, Facts
<1>5. ASSUME NEW i \in 1 .. n + 1, i = 1 PROVE t[i].kind = "Role"
  BY <1>1, <1>2, <1>3, <1>5 DEF InOrder
<1>6. ASSUME NEW i \in 1 .. n + 1, i > 1 PROVE Follows(t[i - 1], t[i], bill)
  <2>1. CASE i = n + 1
    <3>1. t[i - 1] = Last(s) /\ t[i] = e BY <1>2, <1>3, <2>1
    <3>2. QED BY <3>1
  <2>2. CASE i # n + 1
    <3>1. i \in 1 .. n /\ i - 1 \in 1 .. n BY <1>2, <1>6, <2>2
    <3>2. t[i - 1] = s[i - 1] /\ t[i] = s[i] BY <1>3, <3>1
    <3>3. Follows(s[i - 1], s[i], bill) BY <1>1, <1>2, <1>6, <3>1 DEF InOrder
    <3>4. QED BY <3>2, <3>3
  <2>3. QED BY <2>1, <2>2
<1>7. ASSUME NEW i \in 1 .. n + 1, NEW j \in 1 .. n + 1, i < j, t[i].kind = "Terminal"
      PROVE  t[j].kind \in {"Usage", "Done"}
  <2>1. i \in 1 .. n /\ t[i] = s[i] BY <1>2, <1>3, <1>7
  <2>2. CASE j # n + 1
    <3>1. j \in 1 .. n /\ t[j] = s[j] BY <1>2, <1>3, <2>2
    <3>2. QED BY <1>1, <1>2, <1>7, <2>1, <3>1 DEF InOrder
  <2>3. CASE j = n + 1
    <3>1. Last(s).kind \in {"Terminal", "Usage", "Done"}
      <4>1. CASE i = n BY <1>2, <1>7, <2>1, <4>1
      <4>2. CASE i # n
        <5>1. i < n /\ n \in 1 .. n BY <1>2, <2>1, <4>2
        <5>2. QED BY <1>1, <1>2, <1>7, <2>1, <5>1 DEF InOrder
      <4>3. QED BY <4>1, <4>2
    <3>2. e.kind \in {"Usage", "Done"} BY <3>1 DEF Follows, Talk
    <3>3. QED BY <1>3, <2>3, <3>2
  <2>4. QED BY <2>2, <2>3
<1>8. InOrder(t, bill)
  BY <1>4, <1>5, <1>6, <1>7 DEF InOrder
<1>9. QED BY <1>3, <1>4, <1>8 DEF Stands

-----------------------------------------------------------------------------
(* What is said.                                                           *)

Saying(s, p) ==
  IF p.kind = "Terminal" /\ p.reason = "ToolCall"
  THEN Last(s).kind = "ToolCall"
  ELSE Last(s).kind \in Talk /\ (p.kind = "Terminal" => p.reason = "Return")

\* To a reader who is there, an orderly stream has been sent, which the parser may go on
\* with until it has ended.
Heard ==
  /\ answer = None
  /\ ~streamed => ~HasFailure(received)
  /\ Stands(Emitted, includeUsage)
  /\ IF ending = "none" THEN task # "ended" /\ Saying(Emitted, parser)
     ELSE Last(Emitted).kind \in {"Done", "Failure"}

Spoken ==
  /\ IInv
  /\ IsSeq(outbox) /\ (task = "sending" <=> outbox # << >>)
  /\ streamed => answer = None
  /\ client = "reading" => Heard

\* One lemma per action for Spoken, and for what several of them do.
LEMMA InitSpoken == Init => Spoken
<1> SUFFICES ASSUME Init PROVE Spoken OBVIOUS
<1>1. /\ received = << >> /\ responses = << >> /\ outbox = <<RoleChunk>> /\ task = "sending"
      /\ ending = "none" /\ parser = NewParser /\ answer = None /\ client = "reading"
  BY DEF Init
<1>2. IsSeq(outbox) /\ outbox # << >> BY <1>1, OneIsSeq
<1>3. Emitted = outbox
  <2>1. IsSeq(received) /\ IsSeq(responses) BY <1>1, NothingIsSeq
  <2>2. received \o responses = << >> BY <1>1, <2>1, JoinFacts
  <2>3. << >> \o outbox = outbox BY <1>2, <2>1, <1>1, JoinFacts
  <2>4. QED BY <2>2, <2>3 DEF Emitted
<1>4. Len(outbox) = 1 /\ outbox[1].kind = "Role" BY <1>1 DEF RoleChunk
<1>5. Stands(outbox, includeUsage) /\ Last(outbox).kind = "Role"
  <2>1. DOMAIN outbox = 1 .. 1 /\ Last(outbox) = outbox[1] BY <1>2, <1>4, Facts
  <2>2. InOrder(outbox, includeUsage) BY <1>4, <2>1 DEF InOrder
  <2>3. QED BY <1>2, <1>4, <2>1, <2>2 DEF Stands
<1>6. ~HasFailure(received) BY <1>1 DEF HasFailure
<1>7. Saying(Emitted, parser) BY <1>1, <1>3, <1>5 DEF Saying, Talk, NewParser, Header
<1>8. Heard BY <1>1, <1>3, <1>5, <1>6, <1>7 DEF Heard
<1>9. QED BY <1>1, <1>2, <1>8, InitInv DEF Spoken

\* While the task waits there is nothing it has yet to send, and what it then takes on is
\* what is sent next.
LEMMA TakenOn ==
  ASSUME Spoken, task = "waiting", UNCHANGED <<received, responses>>, IsSeq(outbox')
  PROVE  IsSeq(Emitted) /\ Emitted' = Emitted \o outbox'
<1>1. outbox = << >> /\ IsSeq(received) /\ IsSeq(responses) BY DEF Spoken, IInv
<1>2. IsSeq(received \o responses) BY <1>1, NothingIsSeq, JoinFacts
<1>3. Emitted = received \o responses BY <1>1, <1>2, JoinFacts, NothingIsSeq DEF Emitted
<1>4. QED BY <1>2, <1>3 DEF Emitted

\* Telling of a failure is in order as long as nothing has ended.
LEMMA Failing ==
  ASSUME Spoken, Listening, ending = "none", Sends(<<FailureChunk>>, "failed") \/ Sends(<<FailureChunk>>, "told"),
         UNCHANGED <<request, responses, reader>>
  PROVE  /\ IsSeq(outbox') /\ (task' = "sending" <=> outbox' # << >>)
         /\ client = "reading" => Heard'
<1>1. task = "waiting" /\ outbox' = <<FailureChunk>> /\ task' = "sending" /\ ending' \in {"failed", "told"}
  BY DEF Listening, Sends
<1>2. IsSeq(outbox') BY <1>1, OneIsSeq
<1>3. Emitted' = Emitted \o <<FailureChunk>> BY <1>1, <1>2, TakenOn DEF reader
<1>4. ASSUME client = "reading" PROVE Heard'
  <2>1. Heard BY <1>4 DEF Spoken
  <2>2. Follows(Last(Emitted), FailureChunk, includeUsage)
    BY <2>1 DEF Heard, Saying, Follows, FailureChunk
  <2>3. Stands(Emitted', includeUsage) /\ Last(Emitted') = FailureChunk
    BY <1>3, <2>1, <2>2, Extends DEF Heard
  <2>4. QED BY <1>1, <2>1, <2>3 DEF Heard, FailureChunk, request, reader, HasFailure
<1>5. QED BY <1>1, <1>2, <1>4

\* What is said goes on in order.
LEMMA Talking ==
  ASSUME NEW s, NEW bill, Stands(s, bill), Last(s).kind \in Talk,
         NEW chunks, SaysText(chunks)
  PROVE  /\ IsSeq(chunks)
         /\ Stands(s \o chunks, bill) /\ Last(s \o chunks).kind \in Talk
<1>1. CASE chunks = << >>
  <2>1. IsSeq(s) /\ s \o << >> = s BY NothingIsSeq, JoinFacts DEF Stands
  <2>2. QED BY <1>1, <2>1, NothingIsSeq
<1>2. CASE \E kind \in {"Content", "Reasoning"} : \E text : chunks = <<[kind |-> kind, text |-> text]>>
  <2>1. PICK kind \in {"Content", "Reasoning"} :
          \E text : chunks = <<[kind |-> kind, text |-> text]>>
    BY <1>2
  <2>2. PICK text : chunks = <<[kind |-> kind, text |-> text]>> BY <2>1
  <2> DEFINE e == [kind |-> kind, text |-> text]
  <2>3. e.kind = kind /\ chunks = <<e>> BY <2>2
  <2>4. Follows(Last(s), e, bill) BY <2>3 DEF Follows
  <2> HIDE DEF e
  <2>5. Stands(s \o <<e>>, bill) /\ Last(s \o <<e>>) = e BY <2>4, Extends
  <2>6. QED BY <2>3, <2>5, OneIsSeq DEF Talk
<1>3. QED BY <1>1, <1>2 DEF SaysText

\* A tool call may be what is said next.
LEMMA Calling ==
  ASSUME NEW s, NEW bill, Stands(s, bill), Last(s).kind \in Talk,
         NEW chunks, CallsTool(chunks)
  PROVE  /\ IsSeq(chunks)
         /\ Stands(s \o chunks, bill) /\ Last(s \o chunks).kind = "ToolCall"
<1>1. PICK text : chunks = <<[kind |-> "ToolCall", text |-> text]>> BY DEF CallsTool
<1> DEFINE e == [kind |-> "ToolCall", text |-> text]
<1>2. e.kind = "ToolCall" /\ chunks = <<e>> BY <1>1
<1>3. Follows(Last(s), e, bill) BY <1>2 DEF Follows
<1> HIDE DEF e
<1>4. Stands(s \o <<e>>, bill) /\ Last(s \o <<e>>) = e BY <1>3, Extends
<1>5. QED BY <1>2, <1>4, OneIsSeq

\* Either way a sequence.
LEMMA ChunksAreSeq ==
  ASSUME NEW chunks, SaysText(chunks) \/ CallsTool(chunks)
  PROVE  IsSeq(chunks)
BY NothingIsSeq, OneIsSeq DEF SaysText, CallsTool

\* A token goes on with what the parser says of it, or fails.
LEMMA RawSpoken ==
  ASSUME Spoken, NEW token \in Tokens, Raw(token)
  PROVE  Spoken'
<1>1. /\ engine = "running" /\ task = "waiting" /\ Listening /\ ending = "none"
      /\ parser.kind \in {"Header", "Content", "ExpectStart"}
  BY DEF Spoken, IInv, Raw, Listening, Endings, Agree, IsComplete
<1>2. PICK result \in Process(parser, token) :
        /\ parser' = result.parser
        /\ IF result.ok THEN Sends(Chunks(result.events), "none") ELSE Fails
  BY DEF Raw
<1>3. UNCHANGED <<request, responses, reader>> BY DEF Raw
<1>4. IInv' BY RawInv DEF Spoken
<1>5. CASE ~result.ok
  <2>1. Sends(<<FailureChunk>>, "failed") BY <1>2, <1>5 DEF Fails
  <2>2. /\ IsSeq(outbox') /\ (task' = "sending" <=> outbox' # << >>)
        /\ client = "reading" => Heard'
    BY <1>1, <1>3, <2>1, Failing
  <2>3. QED BY <1>3, <1>4, <2>2 DEF Spoken, request, reader
<1>6. CASE result.ok
  <2> DEFINE chunks == Chunks(result.events)
  <2>1. Speaks(result) BY <1>1, <1>2, <1>6, ProcessedSpeaks
  <2>2. outbox' = chunks /\ ending' = "none" /\ task' = IF chunks = << >> THEN "waiting" ELSE "sending"
    BY <1>2, <1>6 DEF Sends
  <2>3. SaysText(chunks) \/ CallsTool(chunks) BY <2>1 DEF Speaks
  <2>4. IsSeq(chunks) BY <2>3, ChunksAreSeq
  <2> HIDE DEF chunks
  <2>5. Emitted' = Emitted \o chunks BY <1>1, <1>3, <2>2, <2>4, TakenOn DEF reader
  <2>6. ASSUME client = "reading" PROVE Heard'
    <3>1. Heard /\ Last(Emitted).kind \in Talk BY <1>1, <2>6 DEF Spoken, Heard, Saying
    <3>2. Stands(Emitted', includeUsage) /\ Saying(Emitted', parser')
      <4>1. CASE result.parser.kind = "Terminal" /\ result.parser.reason = "ToolCall"
        <5>1. CallsTool(chunks) BY <2>1, <4>1 DEF Speaks, chunks
        <5>2. QED BY <1>2, <2>5, <3>1, <4>1, <5>1, Calling DEF Heard, Saying
      <4>2. CASE ~(result.parser.kind = "Terminal" /\ result.parser.reason = "ToolCall")
        <5>1. SaysText(chunks) /\ (result.parser.kind = "Terminal" => result.parser.reason = "Return")
          BY <2>1, <4>2 DEF Speaks, chunks
        <5>2. QED BY <1>2, <2>5, <3>1, <4>2, <5>1, Talking DEF Heard, Saying
      <4>3. QED BY <4>1, <4>2
    <3>3. QED BY <1>1, <1>3, <2>2, <3>1, <3>2 DEF Heard, request, reader, HasFailure
  <2>7. QED BY <1>3, <1>4, <2>2, <2>4, <2>6 DEF Spoken, request, reader
<1>7. QED BY <1>5, <1>6

\* What closes a stream behind the last deltas: the reason, the usage if it was asked for,
\* and [DONE].
Closure(deltas, reason, bill) ==
  deltas \o <<[kind |-> "Terminal", reason |-> reason]>>
    \o (IF bill THEN <<[kind |-> "Usage"]>> ELSE << >>)
    \o <<[kind |-> "Done"]>>

\* Whatever it closes.
LEMMA ClosureIsSeq ==
  ASSUME NEW deltas, IsSeq(deltas), NEW reason, NEW bill
  PROVE  IsSeq(Closure(deltas, reason, bill)) /\ Closure(deltas, reason, bill) # << >>
<1> DEFINE terminal == [kind |-> "Terminal", reason |-> reason]
           usage == [kind |-> "Usage"]
           done == [kind |-> "Done"]
           two == IF bill THEN <<usage>> ELSE << >>
           most == deltas \o <<terminal>> \o two
<1>1. Closure(deltas, reason, bill) = most \o <<done>> BY DEF Closure
<1> HIDE DEF terminal, usage, done
<1>2. two = <<usage>> \/ two = << >> OBVIOUS
<1> HIDE DEF two
<1>3. IsSeq(<<terminal>>) /\ IsSeq(two) BY <1>2, OneIsSeq, NothingIsSeq
<1>4. IsSeq(deltas \o <<terminal>>) BY <1>3, JoinFacts
<1>5. IsSeq(most) BY <1>3, <1>4, JoinFacts
<1> HIDE DEF most
<1>6. most \o <<done>> = Append(most, done) /\ IsSeq(Append(most, done)) /\ Append(most, done) # << >>
  BY <1>5, AppendFacts, Appended
<1>7. QED BY <1>1, <1>6

\* The closure of a stream is in order.
LEMMA Closing ==
  ASSUME NEW e, IsSeq(e), NEW deltas, IsSeq(deltas), NEW bill, Stands(e \o deltas, bill),
         NEW reason \in Reasons,
         Last(e \o deltas).kind \in Talk \cup {"ToolCall"},
         reason = "tool_calls" <=> Last(e \o deltas).kind = "ToolCall"
  PROVE  /\ Stands(e \o Closure(deltas, reason, bill), bill)
         /\ Last(e \o Closure(deltas, reason, bill)).kind = "Done"
<1> DEFINE s == e \o deltas
           terminal == [kind |-> "Terminal", reason |-> reason]
           usage == [kind |-> "Usage"]
           done == [kind |-> "Done"]
           two == IF bill THEN <<usage>> ELSE << >>
           one == deltas \o <<terminal>>
           rest == (one \o two) \o <<done>>
<1>0. Closure(deltas, reason, bill) = rest BY DEF Closure
<1>1. /\ terminal.kind = "Terminal" /\ terminal.reason = reason
      /\ usage.kind = "Usage" /\ done.kind = "Done"
  OBVIOUS
<1>2. Follows(Last(s), terminal, bill) BY <1>1 DEF Follows
<1> HIDE DEF terminal, usage, done
<1>3. IsSeq(<<terminal>>) /\ IsSeq(<<done>>) /\ IsSeq(two)
  <2>1. two = <<usage>> \/ two = << >> OBVIOUS
  <2>2. IsSeq(<<usage>>) /\ IsSeq(<< >>) /\ IsSeq(<<terminal>>) /\ IsSeq(<<done>>)
    BY OneIsSeq, NothingIsSeq
  <2> HIDE DEF two
  <2>3. QED BY <2>1, <2>2
<1>4. Stands(s \o <<terminal>>, bill) /\ Last(s \o <<terminal>>) = terminal BY <1>2, Extends
<1>5. IsSeq(one) /\ IsSeq(one \o two) /\ e \o one = s \o <<terminal>>
  BY <1>3, JoinFacts
<1>6. e \o (one \o two) = (s \o <<terminal>>) \o two BY <1>3, <1>5, JoinFacts
<1>7. /\ Stands(e \o (one \o two), bill)
      /\ Last(e \o (one \o two)) = IF bill THEN usage ELSE terminal
  <2>1. CASE bill
    <3>1. Follows(terminal, usage, bill) BY <1>1, <2>1 DEF Follows
    <3>2. two = <<usage>> BY <2>1
    <3>3. QED BY <1>4, <1>6, <2>1, <3>1, <3>2, Extends
  <2>2. CASE ~bill
    <3>1. two = << >> /\ IsSeq(s \o <<terminal>>) BY <1>4, <2>2 DEF Stands
    <3>2. (s \o <<terminal>>) \o << >> = s \o <<terminal>> BY <3>1, NothingIsSeq, JoinFacts
    <3>3. QED BY <1>4, <1>6, <2>2, <3>1, <3>2
  <2>3. QED BY <2>1, <2>2
<1> HIDE DEF s, two, one
<1>8. Follows(Last(e \o (one \o two)), done, bill) BY <1>1, <1>7 DEF Follows
<1>9. e \o rest = (e \o (one \o two)) \o <<done>> BY <1>3, <1>5, JoinFacts
<1>10. Stands(e \o rest, bill) /\ Last(e \o rest) = done
  BY <1>7, <1>8, <1>9, Extends
<1> HIDE DEF rest
<1>11. QED BY <1>0, <1>1, <1>10

\* Closing is in order behind what the parser said last.
LEMMA Ending ==
  ASSUME Spoken, Listening, ending = "none", NEW deltas, IsSeq(deltas), NEW reason,
         Sends(Closure(deltas, reason, includeUsage), "complete"),
         client = "reading" =>
           /\ Stands(Emitted \o deltas, includeUsage)
           /\ reason \in Reasons
           /\ Last(Emitted \o deltas).kind \in Talk \cup {"ToolCall"}
           /\ reason = "tool_calls" <=> Last(Emitted \o deltas).kind = "ToolCall",
         UNCHANGED <<request, responses, reader>>
  PROVE  /\ IsSeq(outbox') /\ (task' = "sending" <=> outbox' # << >>)
         /\ client = "reading" => Heard'
<1> DEFINE rest == Closure(deltas, reason, includeUsage)
<1>1. IsSeq(rest) /\ rest # << >> BY ClosureIsSeq
<1>2. task = "waiting" /\ outbox' = rest /\ task' = "sending" /\ ending' = "complete"
  BY <1>1 DEF Listening, Sends
<1> HIDE DEF rest
<1>3. IsSeq(Emitted) /\ Emitted' = Emitted \o rest BY <1>1, <1>2, TakenOn DEF reader
<1>4. ASSUME client = "reading" PROVE Heard'
  <2>1. Stands(Emitted \o rest, includeUsage) /\ Last(Emitted \o rest).kind = "Done"
    BY <1>3, <1>4, Closing DEF rest
  <2>2. QED BY <1>2, <1>3, <1>4, <2>1 DEF Spoken, Heard, request, reader, HasFailure
<1>5. QED BY <1>1, <1>2, <1>4

\* The completion closes the stream for the reason that the parser gave, or fails.
LEMMA CompleteSpoken ==
  ASSUME Spoken, Complete
  PROVE  Spoken'
<1>1. /\ engine = "running" /\ task = "waiting" /\ Listening /\ ending = "none" /\ IsComplete
      /\ outbox = << >>
  BY DEF Spoken, IInv, Complete, Listening, Endings
<1>2. /\ parser.kind \in {"Header", "Content", "ExpectStart", "Terminal"}
      /\ parser.kind = "Terminal" <=> Stopped
      /\ stopReason = IF parser.kind = "Terminal" THEN parser.reason ELSE None
  BY <1>1 DEF Spoken, IInv, Agree
<1>3. UNCHANGED <<request, responses, reader>> BY DEF Complete
<1>4. IInv' BY CompleteInv DEF Spoken
<1>5. SUFFICES /\ IsSeq(outbox') /\ (task' = "sending" <=> outbox' # << >>)
               /\ client = "reading" => Heard'
  BY <1>3, <1>4 DEF Spoken, request, reader
<1>6. CASE Stopped
  <2> DEFINE reason == FinishReason(parser.reason)
  <2>1. parser.kind = "Terminal" /\ stopReason = parser.reason BY <1>2, <1>6
  <2>2. Finish(parser) = Ok(parser, <<Done(parser.reason)>>) BY <2>1 DEF Finish
  <2>3. Finish(parser).ok /\ Last(Finish(parser).events).reason = parser.reason
    BY <2>2 DEF Ok, Last, Done
  <2>4. Sends(Closure(<< >>, reason, includeUsage), "complete")
    BY <1>6, <2>1, <2>3 DEF Complete, Closure
  <2>5. ASSUME client = "reading"
        PROVE  /\ Stands(Emitted \o << >>, includeUsage)
               /\ reason \in Reasons
               /\ Last(Emitted \o << >>).kind \in Talk \cup {"ToolCall"}
               /\ reason = "tool_calls" <=> Last(Emitted \o << >>).kind = "ToolCall"
    <3>1. Heard /\ IsSeq(Emitted) BY <2>5 DEF Spoken, Heard, Stands
    <3>2. Emitted \o << >> = Emitted BY <3>1, NothingIsSeq, JoinFacts
    <3>3. Saying(Emitted, parser) BY <1>1, <3>1 DEF Heard
    <3>4. QED BY <2>1, <3>1, <3>2, <3>3 DEF Heard, Saying, FinishReason, Reasons, Talk
  <2> HIDE DEF reason
  <2>6. QED BY <1>1, <1>3, <2>4, <2>5, NothingIsSeq, Ending
<1>7. CASE ~Stopped /\ Truncate(parser).ok
  <2> DEFINE deltas == Chunks(Truncate(parser).events)
  <2>1. Truncate(parser).events # << >> /\ Last(Truncate(parser).events) = Done("Length")
    BY <1>7, CutOff
  <2>2. /\ StopReasonAfter(Truncate(parser).events) = "Length"
        /\ Last(Truncate(parser).events).reason = "Length"
    BY <2>1 DEF StopReasonAfter, Done
  <2>3. Sends(Closure(deltas, "length", includeUsage), "complete")
    BY <1>7, <2>2 DEF Complete, Closure, FinishReason
  <2>4. SaysText(deltas) BY <1>7, CutOffSpeaks
  <2> HIDE DEF deltas
  <2>5. IsSeq(deltas) BY <2>4, ChunksAreSeq
  <2>6. ASSUME client = "reading"
        PROVE  /\ Stands(Emitted \o deltas, includeUsage)
               /\ Last(Emitted \o deltas).kind \in Talk
    <3>1. Heard /\ Saying(Emitted, parser) BY <1>1, <2>6 DEF Spoken, Heard
    <3>2. Last(Emitted).kind \in Talk BY <1>2, <1>7, <3>1 DEF Saying
    <3>3. QED BY <2>4, <3>1, <3>2, Talking DEF Heard
  <2>7. "length" \in Reasons BY DEF Reasons
  <2>8. ASSUME client = "reading"
        PROVE  /\ Stands(Emitted \o deltas, includeUsage)
               /\ "length" \in Reasons
               /\ Last(Emitted \o deltas).kind \in Talk \cup {"ToolCall"}
               /\ "length" = "tool_calls" <=> Last(Emitted \o deltas).kind = "ToolCall"
    BY <2>6, <2>7, <2>8 DEF Talk
  <2>9. QED BY <1>1, <1>3, <2>3, <2>5, <2>8, Ending
<1>8. CASE ~Stopped /\ ~Truncate(parser).ok
  <2>1. Sends(<<FailureChunk>>, "failed") BY <1>8 DEF Complete, Fails
  <2>2. QED BY <1>1, <1>3, <2>1, Failing
<1>9. QED BY <1>6, <1>7, <1>8

\* Told of an end, or left without one, the client hears of a failure.
LEMMA EndToldSpoken ==
  ASSUME Spoken, Told \/ Dropped
  PROVE  Spoken'
<1>1. /\ Listening /\ ending = "none"
      /\ Sends(<<FailureChunk>>, "failed") \/ Sends(<<FailureChunk>>, "told")
      /\ UNCHANGED <<request, responses, reader>>
  BY DEF Told, Dropped, Fails, Listening, Spoken, IInv, Endings
<1>2. IInv' BY EndToldInv DEF Spoken
<1>3. /\ IsSeq(outbox') /\ (task' = "sending" <=> outbox' # << >>)
      /\ client = "reading" => Heard'
  BY <1>1, Failing
<1>4. QED BY <1>1, <1>2, <1>3 DEF Spoken, request, reader

\* A send that succeeds or is ignored takes the first event away.
LEMMA SentTakes ==
  ASSUME Spoken, task = "sending", Sent
  PROVE  /\ IsSeq(outbox') /\ outbox' = Tail(outbox) /\ (task' = "sending" <=> outbox' # << >>)
         /\ ending = "none" => task' # "ended"
<1>1. IsSeq(outbox) /\ outbox # << >> BY DEF Spoken
<1>2. IsSeq(Tail(outbox)) /\ (Tail(outbox) # << >> <=> Len(outbox) > 1) BY <1>1, HeadAndTail
<1>3. CASE Len(outbox) > 1
  <2>1. outbox' = Tail(outbox) /\ task' = task BY <1>3 DEF Sent
  <2>2. QED BY <1>2, <1>3, <2>1
<1>4. CASE ~(Len(outbox) > 1)
  <2>1. outbox' = << >> /\ task' \in {"waiting", "ended"} /\ (ending = "none" => task' = "waiting")
    BY <1>4 DEF Sent, Ends
  <2>2. QED BY <1>2, <1>4, <2>1
<1>5. QED BY <1>3, <1>4

\* A send moves an event on.
LEMMA SendSpoken ==
  ASSUME Spoken, Send
  PROVE  Spoken'
<1>1. /\ task = "sending" /\ client = "reading" /\ Sent
      /\ responses' = Append(responses, Head(outbox))
      /\ UNCHANGED <<request, parser, ending, reader>>
  BY DEF Send
<1>2. IInv' BY SendInv DEF Spoken
<1>3. /\ IsSeq(outbox') /\ outbox' = Tail(outbox) /\ (task' = "sending" <=> outbox' # << >>)
      /\ ending = "none" => task' # "ended"
  BY <1>1, SentTakes
<1>4. Emitted' = Emitted
  <2>1. /\ IsSeq(received) /\ IsSeq(responses) /\ IsSeq(outbox) /\ outbox # << >>
    BY <1>1 DEF Spoken, IInv
  <2> DEFINE s == received \o responses
             one == <<Head(outbox)>>
  <2>2. IsSeq(s) /\ IsSeq(one) BY <2>1, JoinFacts, OneIsSeq
  <2>3. Append(responses, Head(outbox)) = responses \o one BY <2>1, AppendFacts
  <2>4. received \o (responses \o one) = s \o one BY <2>1, <2>2, JoinFacts
  <2>5. s \o one = Append(s, Head(outbox)) BY <2>2, AppendFacts
  <2>6. Append(s, Head(outbox)) \o Tail(outbox) = s \o outbox BY <2>1, <2>2, MovingOn
  <2>7. received' = received BY <1>1 DEF reader
  <2>8. Emitted' = (received \o (responses \o one)) \o Tail(outbox) BY <1>1, <1>3, <2>3, <2>7 DEF Emitted
  <2>9. Emitted = s \o outbox BY DEF Emitted
  <2> HIDE DEF s, one
  <2>10. QED BY ONLY <2>4, <2>5, <2>6, <2>8, <2>9, Zenon
<1>5. Heard' BY <1>1, <1>3, <1>4 DEF Spoken, Heard, request, reader, HasFailure
<1>6. QED BY <1>1, <1>2, <1>3, <1>5 DEF Spoken, request, reader

\* A send that fails is heard by nobody.
LEMMA SendFailsSpoken ==
  ASSUME Spoken, SendFails
  PROVE  Spoken'
<1>1. /\ task = "sending" /\ client # "reading"
      /\ UNCHANGED <<request, reader>>
  BY DEF SendFails
<1>2. IInv' BY SendFailsInv DEF Spoken
<1>3. IsSeq(outbox') /\ (task' = "sending" <=> outbox' # << >>)
  <2>1. CASE Sent BY <1>1, <2>1, SentTakes
  <2>2. CASE Ends("abandoned") BY <2>2, NothingIsSeq DEF Ends
  <2>3. QED BY <2>1, <2>2 DEF SendFails
<1>4. QED BY <1>1, <1>2, <1>3 DEF Spoken, request, reader

\* What is read was the first of what waited to be read.
LEMMA ReadKeeps ==
  ASSUME Spoken, Read, client' = "reading"
  PROVE  /\ Emitted' = Emitted /\ answer' = answer
         /\ ~streamed => Head(responses).kind # "Failure"
<1>1. /\ responses # << >> /\ received' = Append(received, Head(responses))
      /\ responses' = Tail(responses) /\ answer' = answer /\ outbox' = outbox
      /\ ~streamed => Head(responses).kind # "Failure"
  BY DEF Read
<1>2. IsSeq(received) /\ IsSeq(responses) BY DEF Spoken, IInv
<1>3. Append(received, Head(responses)) \o Tail(responses) = received \o responses
  BY <1>1, <1>2, MovingOn
<1>4. QED BY <1>1, <1>3 DEF Emitted

\* Reading moves an event on too.
LEMMA ReadSpoken ==
  ASSUME Spoken, Read
  PROVE  Spoken'
<1>1. /\ client = "reading" /\ responses # << >>
      /\ received' = Append(received, Head(responses))
      /\ UNCHANGED <<request, parser, task, outbox, ending>>
  BY DEF Read
<1>2. IInv' BY ReadInv DEF Spoken
<1>3. streamed => answer' = None BY <1>1 DEF Read, Spoken
<1>4. ASSUME client' = "reading" PROVE Heard'
  <2>1. Emitted' = Emitted /\ answer' = answer /\ (~streamed => Head(responses).kind # "Failure")
    BY <1>4, ReadKeeps
  <2>2. Heard BY <1>1 DEF Spoken
  <2>3. IsSeq(received) BY DEF Spoken, IInv
  <2>4. HasFailure(received') <=> HasFailure(received) \/ Head(responses).kind = "Failure"
    BY <1>1, <2>3, Appended
  <2>5. ~streamed' => ~HasFailure(received)' BY <1>1, <2>1, <2>2, <2>4 DEF Heard, request, HasFailure
  <2>6. QED BY <1>1, <2>1, <2>2, <2>5 DEF Heard, request
<1>5. QED BY <1>1, <1>2, <1>3, <1>4 DEF Spoken, request

\* The steps together.
LEMMA NextSpoken == Spoken /\ [Next]_vars => Spoken'
<1> SUFFICES ASSUME Spoken, [Next]_vars PROVE Spoken' OBVIOUS
<1>0. IInv' BY NextInv DEF Spoken
<1>1. CASE Admit
  <2>1. UNCHANGED <<request, parser, task, outbox, ending, responses, reader>> BY <1>1 DEF Admit
  <2>2. QED BY <1>0, <2>1 DEF Spoken, Heard, Emitted, request, reader, HasFailure
<1>2. CASE Complete BY <1>2, CompleteSpoken
<1>3. CASE Told \/ Dropped BY <1>3, EndToldSpoken
<1>4. CASE Send BY <1>4, SendSpoken
<1>5. CASE SendFails BY <1>5, SendFailsSpoken
<1>6. ASSUME NEW token \in Tokens, Raw(token) PROVE Spoken' BY <1>6, RawSpoken
<1>7. CASE Read BY <1>7, ReadSpoken
<1>8. CASE Assemble
  <2>1. /\ client' = "answered" /\ UNCHANGED <<streamed, task, outbox>>
        /\ streamed => answer' = answer
    BY <1>8 DEF Assemble, request
  <2>2. QED BY <1>0, <2>1 DEF Spoken
<1>9. CASE Leave
  <2>1. client' = "gone" /\ UNCHANGED <<streamed, task, outbox, answer>> BY <1>9 DEF Leave, request
  <2>2. QED BY <1>0, <2>1 DEF Spoken
<1>10. CASE Over \/ UNCHANGED vars
  <2>1. UNCHANGED <<request, parser, task, outbox, ending, responses, reader>> BY <1>10 DEF Over, vars
  <2>2. QED BY <1>0, <2>1 DEF Spoken, Heard, Emitted, request, reader, HasFailure
<1>11. QED BY <1>1, <1>2, <1>3, <1>4, <1>5, <1>6, <1>7, <1>8, <1>9, <1>10 DEF Next

\* What is said holds throughout.
LEMMA AlwaysSpoken == Spec => []Spoken
<1>1. QED BY InitSpoken, NextSpoken, PTL DEF Spec

-----------------------------------------------------------------------------
(* The stream that is read.                                                *)

\* The stage is named by what was read last.
LEMMA Stages ==
  ASSUME IsSeq(received), received # << >>
  PROVE  /\ Last(received).kind \in Talk => StageOf = "open"
         /\ Last(received).kind = "ToolCall" => StageOf = "called"
         /\ Last(received).kind = "Terminal" => StageOf = "closed"
         /\ Last(received).kind = "Usage" => StageOf = "billed"
         /\ Last(received).kind = "Done" => StageOf = "done"
         /\ Last(received).kind = "Failure" => StageOf = "failed"
BY DEF StageOf, Talk

\* The same of the next state.
LEMMA StagesNext ==
  ASSUME NEW h, received' = Append(received, h), IsSeq(received)
  PROVE  /\ h.kind \in Talk => StageOf' = "open"
         /\ h.kind = "ToolCall" => StageOf' = "called"
         /\ h.kind = "Terminal" => StageOf' = "closed"
         /\ h.kind = "Usage" => StageOf' = "billed"
         /\ h.kind = "Done" => StageOf' = "done"
         /\ h.kind = "Failure" => StageOf' = "failed"
<1>1. received' # << >> /\ Last(received') = h BY Appended
<1>2. QED BY <1>1 DEF StageOf, Talk

\* What is read next may follow what was read last, and no reason was given before one.
LEMMA Reads ==
  ASSUME Spoken, Read
  PROVE  LET h == Head(responses)
         IN  /\ received' = Append(received, h) /\ IsSeq(received)
             /\ received = << >> => h.kind = "Role"
             /\ received # << >> => Follows(Last(received), h, includeUsage)
             /\ h.kind = "Terminal" => \A i \in DOMAIN received : received[i].kind # "Terminal"
<1> DEFINE h == Head(responses)
           n == Len(received)
           s == received \o responses
<1>1. /\ client = "reading" /\ responses # << >> /\ received' = Append(received, h)
  BY DEF Read
<1>2. IsSeq(received) /\ IsSeq(responses) /\ IsSeq(outbox) BY DEF Spoken, IInv
<1>3. InOrder(Emitted, includeUsage) /\ IsSeq(Emitted) BY <1>1 DEF Spoken, Heard, Stands
<1>4. /\ n \in Nat /\ Len(responses) \in Nat /\ Len(responses) > 0 /\ h = responses[1]
      /\ DOMAIN received = 1 .. n /\ (received # << >> <=> n > 0)
      /\ received # << >> => Last(received) = received[n]
  BY <1>1, <1>2, Facts
<1>5. /\ IsSeq(s) /\ Len(s) = n + Len(responses)
      /\ \A i \in 1 .. n : s[i] = received[i]
      /\ \A i \in 1 .. Len(responses) : s[n + i] = responses[i]
  BY <1>2, JoinFacts
<1>6. Emitted = s \o outbox BY DEF Emitted
<1> HIDE DEF s, h
<1>7. /\ Len(outbox) \in Nat /\ Len(Emitted) = Len(s) + Len(outbox)
      /\ \A i \in 1 .. Len(s) : Emitted[i] = s[i]
      /\ DOMAIN Emitted = 1 .. Len(Emitted)
  BY <1>2, <1>3, <1>5, <1>6, Facts, JoinFacts
<1>8. /\ n + 1 \in DOMAIN Emitted /\ Emitted[n + 1] = h
      /\ \A i \in 1 .. n : i \in DOMAIN Emitted /\ Emitted[i] = received[i]
  <2>1. 1 \in 1 .. Len(responses) /\ n + 1 \in 1 .. Len(s) BY <1>4, <1>5
  <2>2. s[n + 1] = h BY <1>4, <1>5, <2>1
  <2>3. \A i \in 1 .. n : i \in 1 .. Len(s) BY <1>4, <1>5
  <2>4. 1 .. Len(s) \subseteq DOMAIN Emitted BY <1>4, <1>5, <1>7
  <2>5. QED BY <1>5, <1>7, <2>1, <2>2, <2>3, <2>4
<1>9. received = << >> => h.kind = "Role"
  BY <1>3, <1>4, <1>8 DEF InOrder
<1>10. ASSUME received # << >> PROVE Follows(Last(received), h, includeUsage)
  <2>1. n + 1 > 1 /\ n \in 1 .. n /\ (n + 1) - 1 = n BY <1>4, <1>10
  <2>2. Follows(Emitted[(n + 1) - 1], Emitted[n + 1], includeUsage) BY <1>3, <1>8, <2>1 DEF InOrder
  <2>3. QED BY <1>4, <1>8, <1>10, <2>1, <2>2
<1>11. ASSUME h.kind = "Terminal", NEW i \in DOMAIN received, received[i].kind = "Terminal" PROVE FALSE
  <2>1. i \in 1 .. n /\ i < n + 1 BY <1>4, <1>11
  <2>2. Emitted[n + 1].kind \in {"Usage", "Done"} BY <1>3, <1>8, <1>11, <2>1 DEF InOrder
  <2>3. QED BY <1>8, <1>11, <2>2
<1>12. QED BY <1>1, <1>2, <1>9, <1>10, <1>11 DEF h

\* A reason is given once.
LEMMA ReasonsGiven ==
  ASSUME NEW h, IsSeq(received), received' = Append(received, h)
  PROVE  /\ h.kind # "Terminal" => ReasonOf' = ReasonOf
         /\ h.kind = "Terminal" /\ (\A i \in DOMAIN received : received[i].kind # "Terminal")
              => ReasonOf' = h.reason
<1> DEFINE n == Len(received)
           before == {i \in DOMAIN received : received[i].kind = "Terminal"}
           after == {i \in DOMAIN received' : received'[i].kind = "Terminal"}
<1>1. n \in Nat /\ DOMAIN received = 1 .. n BY Facts
<1>2. /\ IsSeq(received') /\ Len(received') = n + 1
      /\ \A i \in 1 .. n : received'[i] = received[i]
      /\ received'[n + 1] = h
  BY AppendFacts
<1>3. DOMAIN received' = 1 .. n + 1 BY <1>2, Facts
<1>4. ReasonOf = IF before = {} THEN None ELSE received[CHOOSE i \in before : TRUE].reason
  BY DEF ReasonOf
<1>5. ReasonOf' = IF after = {} THEN None ELSE received'[CHOOSE i \in after : TRUE].reason
  BY DEF ReasonOf
<1>6. ASSUME h.kind # "Terminal" PROVE ReasonOf' = ReasonOf
  <2>1. after = before BY <1>1, <1>2, <1>3, <1>6
  <2>2. ASSUME before # {} PROVE received'[CHOOSE i \in before : TRUE] = received[CHOOSE i \in before : TRUE]
    <3>1. (CHOOSE i \in before : TRUE) \in before BY <2>2
    <3>2. (CHOOSE i \in before : TRUE) \in 1 .. n BY <1>1, <3>1
    <3>3. QED BY <1>2, <3>2
  <2> DEFINE first == CHOOSE i \in before : TRUE
             first2 == CHOOSE i \in after : TRUE
  <2> HIDE DEF before, after
  <2>3. first2 = first BY <2>1
  <2>4. /\ ReasonOf = IF before = {} THEN None ELSE received[first].reason
        /\ ReasonOf' = IF after = {} THEN None ELSE received'[first2].reason
        /\ before # {} => received'[first] = received[first]
    BY <1>4, <1>5, <2>2
  <2> HIDE DEF first, first2
  <2>5. QED BY <2>1, <2>3, <2>4
<1>7. ASSUME h.kind = "Terminal", \A i \in DOMAIN received : received[i].kind # "Terminal"
      PROVE  ReasonOf' = h.reason
  <2>1. after = {n + 1} BY <1>1, <1>2, <1>3, <1>7
  <2>2. (CHOOSE i \in after : TRUE) = n + 1 BY <2>1
  <2> HIDE DEF after
  <2>3. QED BY <1>2, <1>5, <2>1, <2>2
<1>8. QED BY <1>6, <1>7

\* Who does not read leaves the stream as it is.
LEMMA NothingRead ==
  ASSUME UNCHANGED <<received, answer, streamed, includeUsage>>
  PROVE  UNCHANGED Stream!vars
BY DEF StageOf, ReasonOf, Stream!vars

\* Reading takes the stream one step further, or adds to a text.
LEMMA ReadImplements ==
  ASSUME Spoken, Read
  PROVE  [Stream!Next]_(Stream!vars)
<1> DEFINE h == Head(responses)
<1>1. /\ received' = Append(received, h) /\ IsSeq(received)
      /\ received = << >> => h.kind = "Role"
      /\ received # << >> => Follows(Last(received), h, includeUsage)
      /\ h.kind = "Terminal" => \A i \in DOMAIN received : received[i].kind # "Terminal"
  BY Reads
<1>2. /\ UNCHANGED <<streamed, includeUsage>>
      /\ answer' = IF ~streamed /\ h.kind = "Failure" THEN "error" ELSE answer
  BY DEF Read, request
<1>3. answer = None BY DEF Spoken, Heard, Read
<1> HIDE DEF h
<1>4. /\ h.kind \in Talk => StageOf' = "open"
      /\ h.kind = "ToolCall" => StageOf' = "called"
      /\ h.kind = "Terminal" => StageOf' = "closed"
      /\ h.kind = "Usage" => StageOf' = "billed"
      /\ h.kind = "Done" => StageOf' = "done"
      /\ h.kind = "Failure" => StageOf' = "failed"
  BY <1>1, StagesNext
<1>5. /\ h.kind # "Terminal" => ReasonOf' = ReasonOf
      /\ h.kind = "Terminal" => ReasonOf' = h.reason
  BY <1>1, ReasonsGiven
<1>6. CASE received = << >>
  <2>1. StageOf = "new" /\ StageOf' = "open" /\ ReasonOf' = ReasonOf /\ answer' = answer
    BY <1>1, <1>2, <1>4, <1>5, <1>6 DEF StageOf, Talk
  <2>2. QED BY <1>2, <2>1 DEF Stream!Next, Stream!Open, Stream!Becomes
<1>7. CASE received # << >>
  <2> DEFINE a == Last(received)
  <2>1. /\ a.kind \in Talk => StageOf = "open"
        /\ a.kind = "ToolCall" => StageOf = "called"
        /\ a.kind = "Terminal" => StageOf = "closed"
        /\ a.kind = "Usage" => StageOf = "billed"
    BY <1>1, <1>7, Stages
  <2>2. Follows(a, h, includeUsage) BY <1>1, <1>7
  <2> HIDE DEF a
  <2>3. CASE a.kind \in Talk /\ h.kind \in {"Content", "Reasoning"}
    <3>1. StageOf' = StageOf /\ ReasonOf' = ReasonOf /\ answer' = answer
      BY <1>2, <1>4, <1>5, <2>1, <2>3 DEF Talk
    <3>2. QED BY <1>2, <3>1 DEF Stream!vars
  <2>4. CASE a.kind \in Talk /\ h.kind = "ToolCall"
    <3>1. StageOf = "open" /\ StageOf' = "called" /\ ReasonOf' = ReasonOf /\ answer' = answer
      BY <1>2, <1>4, <1>5, <2>1, <2>4
    <3>2. QED BY <1>2, <3>1 DEF Stream!Next, Stream!Call, Stream!Becomes
  <2>5. CASE a.kind \in Talk \cup {"ToolCall"} /\ h.kind = "Failure"
    <3>1. /\ StageOf \in {"open", "called"} /\ StageOf' = "failed" /\ ReasonOf' = ReasonOf
          /\ answer' = IF streamed THEN None ELSE "error"
      BY <1>2, <1>3, <1>4, <1>5, <2>1, <2>5
    <3>2. QED BY <1>2, <3>1 DEF Stream!Next, Stream!Fail
  <2>6. CASE /\ a.kind \in Talk \cup {"ToolCall"} /\ h.kind = "Terminal" /\ h.reason \in Reasons
             /\ h.reason = "tool_calls" <=> a.kind = "ToolCall"
    <3>1. /\ StageOf \in {"open", "called"} /\ StageOf' = "closed" /\ answer' = answer
          /\ ReasonOf' \in Reasons /\ (ReasonOf' = "tool_calls" <=> StageOf = "called")
      BY <1>2, <1>4, <1>5, <2>1, <2>6 DEF Talk
    <3>2. QED BY <1>2, <3>1 DEF Stream!Next, Stream!Close, Stream!Becomes
  <2>7. CASE a.kind = "Terminal" /\ includeUsage /\ h.kind = "Usage"
    <3>1. StageOf = "closed" /\ StageOf' = "billed" /\ ReasonOf' = ReasonOf /\ answer' = answer
      BY <1>2, <1>4, <1>5, <2>1, <2>7
    <3>2. QED BY <1>2, <2>7, <3>1 DEF Stream!Next, Stream!Bill, Stream!Becomes
  <2>8. CASE a.kind = (IF includeUsage THEN "Usage" ELSE "Terminal") /\ h.kind = "Done"
    <3>1. /\ StageOf = IF includeUsage THEN "billed" ELSE "closed"
          /\ StageOf' = "done" /\ ReasonOf' = ReasonOf /\ answer' = answer
      BY <1>2, <1>4, <1>5, <2>1, <2>8
    <3>2. QED BY <1>2, <3>1 DEF Stream!Next, Stream!Finish, Stream!Becomes
  <2>9. QED BY <2>2, <2>3, <2>4, <2>5, <2>6, <2>7, <2>8 DEF Follows
<1>8. QED BY <1>6, <1>7

\* The answer without stream is made of a stream that was done.
LEMMA AssembleImplements ==
  ASSUME Spoken, Assemble
  PROVE  [Stream!Next]_(Stream!vars)
<1>1. /\ client = "reading" /\ responses = << >> /\ task = "ended"
      /\ UNCHANGED <<received, streamed, includeUsage>>
      /\ answer' = IF streamed THEN answer
                   ELSE IF \E i \in DOMAIN received : received[i].kind = "Terminal" THEN "response" ELSE "error"
  BY DEF Assemble, request
<1>2. StageOf' = StageOf /\ ReasonOf' = ReasonOf BY <1>1 DEF StageOf, ReasonOf
<1>3. CASE streamed
  BY <1>1, <1>2, <1>3 DEF Stream!vars
<1>4. CASE ~streamed
  <2>1. Heard /\ outbox = << >> BY <1>1 DEF Spoken
  <2>2. Emitted = received /\ IsSeq(received)
    <3>1. IsSeq(received) BY DEF Spoken, IInv
    <3>2. received \o << >> = received BY <3>1, NothingIsSeq, JoinFacts
    <3>3. QED BY <1>1, <2>1, <3>1, <3>2 DEF Emitted
  <2> DEFINE n == Len(received)
  <2>3. /\ received # << >> /\ InOrder(received, includeUsage) /\ ~HasFailure(received)
        /\ Last(received).kind \in {"Done", "Failure"} /\ answer = None
    BY <1>1, <1>4, <2>1, <2>2 DEF Heard, Stands
  <2>4. n \in Nat /\ n > 0 /\ DOMAIN received = 1 .. n /\ Last(received) = received[n]
    BY <2>2, <2>3, Facts
  <2> HIDE DEF n
  <2>5. n \in 1 .. n /\ received[n].kind = "Done" BY <2>3, <2>4 DEF HasFailure
  <2>6. n > 1 /\ Follows(received[n - 1], received[n], includeUsage)
    <3>1. n > 1 BY <2>3, <2>4, <2>5 DEF InOrder
    <3>2. QED BY <2>3, <2>4, <2>5, <3>1 DEF InOrder
  <2>7. n - 1 \in 1 .. n /\ received[n - 1].kind = IF includeUsage THEN "Usage" ELSE "Terminal"
    BY <2>4, <2>5, <2>6 DEF Follows
  <2>8. \E i \in DOMAIN received : received[i].kind = "Terminal"
    <3>1. CASE ~includeUsage BY <2>4, <2>7, <3>1
    <3>2. CASE includeUsage
      <4>1. received[n - 1].kind = "Usage" BY <2>7, <3>2
      <4>2. n - 1 > 1 BY <2>3, <2>4, <2>7, <4>1 DEF InOrder
      <4>3. Follows(received[(n - 1) - 1], received[n - 1], includeUsage)
        BY <2>3, <2>4, <2>7, <4>2 DEF InOrder
      <4>4. received[(n - 1) - 1].kind = "Terminal" BY <4>1, <4>3 DEF Follows
      <4>5. (n - 1) - 1 \in DOMAIN received BY <2>4, <4>2
      <4>6. QED BY <4>4, <4>5
    <3>3. QED BY <3>1, <3>2
  <2>9. StageOf = "done" BY <2>2, <2>3, <2>4, <2>5, Stages
  <2>10. QED BY <1>1, <1>2, <1>4, <2>3, <2>8, <2>9 DEF Stream!Next, Stream!Answer
<1>5. QED BY <1>3, <1>4

\* What is read of a response, from translate through the channel, is the stream that a
\* client is promised, and the answer without stream is made of a complete one or is an
\* error.
THEOREM StreamIsImplemented == Spec => ImplementsStream
<1>1. Init => Stream!Init
  <2>1. SUFFICES ASSUME Init PROVE Stream!Init OBVIOUS
  <2>2. received = << >> /\ answer = None /\ streamed \in BOOLEAN /\ includeUsage \in BOOLEAN
    BY <2>1 DEF Init
  <2>3. StageOf = "new" BY <2>2 DEF StageOf
  <2>4. ReasonOf = None BY <2>2 DEF ReasonOf
  <2>5. QED BY <2>2, <2>3, <2>4 DEF Stream!Init
<1>2. ASSUME Spoken, [Next]_vars PROVE [Stream!Next]_(Stream!vars)
  <2>1. CASE Read BY <1>2, <2>1, ReadImplements
  <2>2. CASE Assemble BY <1>2, <2>2, AssembleImplements
  <2>3. ASSUME \/ Admit \/ Complete \/ Told \/ Dropped \/ Send \/ SendFails \/ Leave \/ Over
               \/ (\E token \in Tokens : Raw(token)) \/ UNCHANGED vars
        PROVE  UNCHANGED <<received, answer, streamed, includeUsage>>
    BY <2>3 DEF Admit, Complete, Told, Dropped, Send, SendFails, Leave, Over, Raw, vars, request, reader
  <2>4. QED BY <1>2, <2>1, <2>2, <2>3, NothingRead DEF Next
<1>3. QED BY <1>1, <1>2, AlwaysSpoken, PTL DEF Spec, ImplementsStream, Stream!Spec

-----------------------------------------------------------------------------
(* What FlattenSeq makes of any number of sequences.                       *)

\* A set of naturals that is not empty has a smallest element.
LEMMA NatMin ==
  ASSUME NEW S \in SUBSET Nat, S # {}
  PROVE  \E n \in S : \A m \in S : n <= m
<1>1. PICK n \in S : \A m \in S : <<m, n>> \notin OpToRel(<, Nat)
  BY NatLessThanWellFounded, WFMin
<1>2. \A m \in S : ~(m < n) BY <1>1 DEF OpToRel
<1>3. QED BY <1>2

\* g joins the sequences of s, one after the other, up to the n-th.
Flattens(g, s, n) == g[0] = << >> /\ \A k \in 1 .. n : g[k] = Join(g[k - 1], s[k])

\* Every sequence of sequences can be flattened from the left.
LEMMA FlattensExists ==
  ASSUME NEW T, NEW s \in Seq(Seq(T))
  PROVE  \E g \in [0 .. Len(s) -> Seq(T)] : Flattens(g, s, Len(s))
<1> DEFINE n == Len(s)
           Def(m) == \E g \in [0 .. m -> Seq(T)] : Flattens(g, s, m)
           bad == {m \in 0 .. n : ~Def(m)}
<1>1. n \in Nat /\ \A k \in 1 .. n : s[k] \in Seq(T) OBVIOUS
<1>2. Def(0)
  <2> DEFINE one == [k \in 0 .. 0 |-> << >>]
  <2>1. << >> \in Seq(T) OBVIOUS
  <2>2. one \in [0 .. 0 -> Seq(T)] /\ one[0] = << >> /\ \A k \in 1 .. 0 : FALSE BY <2>1
  <2> HIDE DEF one
  <2>3. QED BY <2>2 DEF Flattens
<1>3. ASSUME NEW m \in 0 .. n, m + 1 <= n, Def(m) PROVE Def(m + 1)
  <2>1. PICK g \in [0 .. m -> Seq(T)] : Flattens(g, s, m) BY <1>3
  <2> DEFINE h == [k \in 0 .. m + 1 |-> IF k = m + 1 THEN Join(g[m], s[m + 1]) ELSE g[k]]
  <2>2. m + 1 \in 1 .. n /\ m \in 0 .. m /\ g[m] \in Seq(T) BY <1>1, <1>3
  <2>3. Join(g[m], s[m + 1]) \in Seq(T)
    <3>1. s[m + 1] \in Seq(T) BY <1>1, <2>2
    <3>2. QED BY <2>2, <3>1 DEF Join
  <2>4. h \in [0 .. m + 1 -> Seq(T)] BY <2>3
  <2>5. /\ h[0] = << >> /\ h[m + 1] = Join(g[m], s[m + 1])
        /\ \A k \in 0 .. m : h[k] = g[k]
    BY <1>1, <2>1 DEF Flattens
  <2> HIDE DEF h
  <2>6. ASSUME NEW k \in 1 .. m + 1 PROVE h[k] = Join(h[k - 1], s[k])
    <3>1. CASE k = m + 1 BY <3>1, <2>2, <2>5
    <3>2. CASE k # m + 1
      <4>1. k \in 1 .. m /\ k \in 0 .. m /\ k - 1 \in 0 .. m BY <1>1, <3>2
      <4>2. g[k] = Join(g[k - 1], s[k]) BY <2>1, <4>1 DEF Flattens
      <4>3. QED BY <4>1, <4>2, <2>5
    <3>3. QED BY <3>1, <3>2
  <2>7. QED BY <2>4, <2>5, <2>6 DEF Flattens
<1> HIDE DEF Def, n
<1>4. bad = {}
  <2> SUFFICES ASSUME bad # {} PROVE FALSE OBVIOUS
  <2>1. bad \in SUBSET Nat BY <1>1
  <2>2. PICK m \in bad : \A k \in bad : m <= k BY <2>1, NatMin
  <2>3. m # 0 BY <1>2, <2>2
  <2>4. m - 1 \in 0 .. n /\ m - 1 \notin bad /\ (m - 1) + 1 = m BY <1>1, <2>2, <2>3
  <2>5. QED BY <1>1, <1>3, <2>2, <2>4
<1>5. Def(n) BY <1>1, <1>4
<1>6. QED BY <1>5 DEF Def, n

\* FlattenSeq is where that ends.
LEMMA FlattensIs ==
  ASSUME NEW T, NEW s \in Seq(Seq(T)), NEW g, Flattens(g, s, Len(s))
  PROVE  FlattenSeq(s) = g[Len(s)]
<1> DEFINE n == Len(s)
           it == CHOOSE f : Joins(f, s)
<1>0. n \in Nat /\ \A k \in 1 .. n : s[k] \in Seq(T) OBVIOUS
<1>1. CASE n = 0
  <2>1. s = << >> BY <1>1
  <2>2. FlattenSeq(s) = s BY <1>1 DEF FlattenSeq
  <2>3. QED BY <1>1, <2>1, <2>2 DEF Flattens
<1>2. CASE n # 0
  <2>1. PICK h \in [0 .. n -> Seq(T)] : Flattens(h, s, n) BY FlattensExists
  <2> DEFINE f == [k \in 1 .. n |-> h[k]]
  <2>2. Joins(f, s)
    <3>1. ASSUME NEW k \in 1 .. n PROVE f[k] = IF k = 1 THEN s[k] ELSE Join(f[k - 1], s[k])
      <4>1. h[k] = Join(h[k - 1], s[k]) BY <2>1 DEF Flattens
      <4>2. CASE k = 1
        <5>1. h[k - 1] = << >> /\ s[k] \in Seq(T) BY <2>1, <1>0, <4>2 DEF Flattens
        <5>2. Join(<< >>, s[k]) = s[k] BY <5>1 DEF Join
        <5>3. QED BY <4>1, <4>2, <5>1, <5>2
      <4>3. CASE k # 1
        <5>1. k - 1 \in 1 .. n BY <1>0, <4>3
        <5>2. QED BY <4>1, <4>3, <5>1
      <4>4. QED BY <4>2, <4>3
    <3> HIDE DEF f
    <3>2. f = [k \in 1 .. n |-> f[k]] BY DEF f
    <3> HIDE DEF n
    <3>3. f = [k \in 1 .. n |-> IF k = 1 THEN s[k] ELSE Join(f[k - 1], s[k])]
      BY ONLY <3>1, <3>2
    <3>4. QED BY <3>3 DEF Joins, n
  <2>3. Joins(it, s) BY ONLY <2>2, Joins(it, s) \/ ~Joins(it, s)
  <2>4. FlattenSeq(s) = it[n] BY <1>2, Flatten
  <2> HIDE DEF it, f
  <2>5. it[1] = s[1] /\ \A k \in 2 .. n : it[k] = Join(it[k - 1], s[k])
    <3>1. it = [i \in 1 .. n |-> IF i = 1 THEN s[i] ELSE Join(it[i - 1], s[i])] BY <2>3 DEF Joins
    <3>2. 1 \in 1 .. n /\ \A k \in 2 .. n : k \in 1 .. n /\ k # 1 BY <1>0, <1>2
    <3> HIDE DEF n
    <3>3. it[1] = s[1] BY ONLY <3>1, <3>2
    <3>4. \A k \in 2 .. n : it[k] = Join(it[k - 1], s[k]) BY ONLY <3>1, <3>2
    <3>5. QED BY <3>3, <3>4
  <2> HIDE DEF n
  <2>6. \A k \in 1 .. n : it[k] = g[k]
    <3> DEFINE bad == {m \in 1 .. n : it[m] # g[m]}
    <3> SUFFICES ASSUME bad # {} PROVE FALSE OBVIOUS
    <3>1. bad \in SUBSET Nat OBVIOUS
    <3>2. PICK m \in bad : \A k \in bad : m <= k BY <3>1, NatMin
    <3>3. m # 1
      <4>1. 1 \in 1 .. n /\ s[1] \in Seq(T) BY <1>0, <1>2
      <4>2. g[1] = Join(g[1 - 1], s[1]) /\ 1 - 1 = 0 /\ g[0] = << >> BY <4>1 DEF Flattens, n
      <4>3. Join(<< >>, s[1]) = s[1] BY <4>1 DEF Join
      <4>4. QED BY <4>2, <4>3, <2>5, <3>2
    <3>4. m - 1 \in 1 .. n /\ m - 1 \notin bad /\ m \in 2 .. n BY <1>0, <3>2, <3>3
    <3>5. it[m] = Join(it[m - 1], s[m]) /\ g[m] = Join(g[m - 1], s[m]) BY <2>5, <3>4 DEF Flattens, n
    <3>6. QED BY <3>2, <3>4, <3>5
  <2>7. QED BY <1>0, <1>2, <2>4, <2>6 DEF n
<1>3. QED BY <1>1, <1>2

\* None, and one more.
LEMMA FlattenNone == FlattenSeq(<< >>) = << >>
BY DEF FlattenSeq

\* Flattening one sequence more puts it at the end.
LEMMA FlattenMore ==
  ASSUME NEW T, NEW s \in Seq(Seq(T)), NEW x \in Seq(T)
  PROVE  /\ FlattenSeq(s) \in Seq(T)
         /\ FlattenSeq(Append(s, x)) = FlattenSeq(s) \o x
<1> DEFINE n == Len(s)
           more == Append(s, x)
<1>1. PICK g \in [0 .. n -> Seq(T)] : Flattens(g, s, n) BY FlattensExists
<1>2. FlattenSeq(s) = g[n] BY <1>1, FlattensIs
<1>3. /\ n \in Nat /\ more \in Seq(Seq(T)) /\ Len(more) = n + 1
      /\ more[n + 1] = x /\ \A k \in 1 .. n : more[k] = s[k]
  OBVIOUS
<1> DEFINE h == [k \in 0 .. n + 1 |-> IF k = n + 1 THEN Join(g[n], x) ELSE g[k]]
<1> HIDE DEF n, more
<1>4. /\ h[0] = << >> /\ h[n + 1] = Join(g[n], x)
      /\ \A k \in 0 .. n : h[k] = g[k]
  BY <1>1, <1>3 DEF Flattens
<1> HIDE DEF h
<1>5. Flattens(h, more, n + 1)
  <2>1. ASSUME NEW k \in 1 .. n + 1 PROVE h[k] = Join(h[k - 1], more[k])
    <3>1. CASE k = n + 1 BY <3>1, <1>3, <1>4
    <3>2. CASE k # n + 1
      <4>1. k \in 1 .. n /\ k \in 0 .. n /\ k - 1 \in 0 .. n BY <1>3, <3>2
      <4>2. g[k] = Join(g[k - 1], s[k]) BY <1>1, <4>1 DEF Flattens
      <4>3. QED BY <1>3, <1>4, <4>1, <4>2
    <3>3. QED BY <3>1, <3>2
  <2>2. QED BY <1>4, <2>1 DEF Flattens
<1>6. FlattenSeq(more) = h[n + 1] BY <1>3, <1>5, FlattensIs
<1>7. g[n] \in Seq(T)
  <2>1. n \in 0 .. n BY <1>3
  <2>2. QED BY <1>1, <2>1
<1>8. QED BY <1>2, <1>4, <1>6, <1>7 DEF more, Join

-----------------------------------------------------------------------------
(* Text.                                                                   *)

\* What is held back of a character.
Partial == {<< >>, <<"lead">>}

\* What appending does to a sequence over a set.
LEMMA AppendIn ==
  ASSUME NEW T, NEW s \in Seq(T), NEW x \in T
  PROVE  /\ Append(s, x) \in Seq(T) /\ Len(Append(s, x)) = Len(s) + 1
         /\ Append(s, x)[Len(s) + 1] = x
         /\ \A i \in 1 .. Len(s) : Append(s, x)[i] = s[i]
OBVIOUS

\* The beginning of a character as a sequence.
LEMMA PartialIs ==
  ASSUME NEW T, "lead" \in T, NEW p \in Partial
  PROVE  p \in Seq(T)
<1>1. CASE p = << >> BY <1>1
<1>2. CASE p = <<"lead">>
  <2>1. <<"lead">> \in Seq(T) OBVIOUS
  <2>2. QED BY <1>2, <2>1
<1>3. QED BY <1>1, <1>2 DEF Partial

\* A token spells one character, half of one, or two halves.
LEMMA Spelt ==
  ASSUME NEW token \in Tokens
  PROVE  Spelling(token) \in Seq(Tokens) /\ Len(Spelling(token)) \in {1, 2}
<1>1. {"trail", "lead"} \subseteq Tokens BY DEF Tokens, Halves
<1>2. CASE token = "seam"
  <2>1. Spelling(token) = <<"trail", "lead">> BY <1>2 DEF Spelling
  <2>2. <<"trail", "lead">> \in Seq(Tokens) BY <1>1
  <2>3. QED BY <2>1, <2>2
<1>3. CASE token # "seam"
  <2>1. Spelling(token) = <<token>> BY <1>3 DEF Spelling
  <2>2. <<token>> \in Seq(Tokens) OBVIOUS
  <2>3. QED BY <2>1, <2>2
<1>4. QED BY <1>2, <1>3

\* What is valid of a text, and the rest of it.
LEMMA ValidParts ==
  ASSUME NEW T, "lead" \in T, NEW b \in Seq(T)
  PROVE  /\ ValidPrefix(b) \in Seq(T) /\ ValidRest(b) \in Partial
         /\ ValidPrefix(b) \o ValidRest(b) = b
         /\ ~IsBroken(b) => IsUtf8(ValidPrefix(b))
<1> DEFINE n == Len(b)
           f == Front(b)
<1>1. n \in Nat /\ DOMAIN b = 1 .. n OBVIOUS
<1>2. CASE ~Dangles(b)
  <2>1. ValidPrefix(b) = b /\ ValidRest(b) = << >> BY <1>2 DEF ValidPrefix, ValidRest
  <2>2. b \o << >> = b OBVIOUS
  <2>3. QED BY <1>2, <2>1, <2>2 DEF IsUtf8, Partial
<1>3. CASE Dangles(b)
  <2>1. ValidPrefix(b) = f /\ ValidRest(b) = <<"lead">> BY <1>3 DEF ValidPrefix, ValidRest
  <2>2. n > 0 /\ b[n] = "lead" BY <1>1, <1>3 DEF Dangles, Last
  <2>3. f = SubSeq(b, 1, n - 1) BY DEF Front
  <2>4. /\ f \in Seq(T) /\ Len(f) = n - 1 /\ DOMAIN f = 1 .. n - 1
        /\ \A i \in 1 .. n - 1 : f[i] = b[i]
    BY <1>1, <2>2, <2>3
  <2>5. f \o <<"lead">> = b
    <3> HIDE DEF f
    <3>1. IsSeq(f) BY <2>4 DEF IsSeq
    <3> HIDE DEF f
    <3>2. /\ Append(f, "lead") \in Seq(T) /\ Len(Append(f, "lead")) = n
          /\ \A i \in 1 .. n : Append(f, "lead")[i] = b[i]
      <4> DEFINE x == "lead"
      <4>1. x \in T OBVIOUS
      <4>2. b[n] = x BY <2>2
      <4> HIDE DEF x, n
      <4>3. /\ Append(f, x) \in Seq(T) /\ Len(Append(f, x)) = (n - 1) + 1
            /\ Append(f, x)[(n - 1) + 1] = x
            /\ \A i \in 1 .. n - 1 : Append(f, x)[i] = f[i]
        BY ONLY <2>4, <4>1, AppendIn
      <4>4. (n - 1) + 1 = n /\ 1 .. n = 1 .. n - 1 \cup {n} BY <1>1, <2>2
      <4>5. QED BY <2>4, <4>2, <4>3, <4>4 DEF x
    <3>3. f \o <<"lead">> = Append(f, "lead") BY <3>1, AppendFacts
    <3> DEFINE g == Append(f, "lead")
    <3>4. g = b
      <4> HIDE DEF g
      <4>1. g \in Seq(T) /\ Len(g) = n /\ \A i \in 1 .. n : g[i] = b[i] BY <3>2 DEF g
      <4>2. QED BY <4>1
    <3>5. QED BY ONLY <3>3, <3>4
  <2> HIDE DEF f, n
  <2>6. ASSUME ~IsBroken(b) PROVE IsUtf8(f)
    <3>1. ~IsBroken(f)
      <4>1. ASSUME NEW i \in 1 .. n - 1, f[i] = "trail", i = 1 \/ f[i - 1] # "lead" PROVE FALSE
        <5>1. i \in 1 .. n /\ b[i] = "trail" BY <1>1, <2>4, <4>1
        <5>2. i = 1 \/ b[i - 1] # "lead"
          <6>1. i # 1 => i - 1 \in 1 .. n - 1 BY <1>1
          <6>2. QED BY <2>4, <4>1, <6>1
        <5>3. QED BY <1>1, <2>6, <5>1, <5>2 DEF IsBroken
      <4>2. ASSUME NEW i \in 1 .. n - 1, f[i] = "lead", i < n - 1, f[i + 1] # "trail" PROVE FALSE
        <5>1. i \in 1 .. n /\ i < n /\ i + 1 \in 1 .. n - 1 BY <1>1, <4>2
        <5>2. b[i] = "lead" /\ b[i + 1] # "trail" BY <2>4, <4>2, <5>1
        <5>3. QED BY <1>1, <2>6, <5>1, <5>2 DEF IsBroken, n
      <4>3. QED BY <2>4, <4>1, <4>2 DEF IsBroken
    <3>2. ~Dangles(f)
      <4>1. SUFFICES ASSUME f # << >>, Last(f) = "lead" PROVE FALSE BY DEF Dangles
      <4>2. n - 1 > 0 BY <1>1, <2>4, <4>1
      <4>3. f[n - 1] = "lead" BY <2>4, <4>1 DEF Last
      <4>4. n - 1 \in 1 .. n /\ n - 1 < n /\ b[n - 1] = "lead" /\ (n - 1) + 1 = n
        BY <1>1, <2>4, <4>2, <4>3
      <4>5. b[(n - 1) + 1] # "trail" BY <2>2, <4>4
      <4>6. QED BY <1>1, <2>6, <4>4, <4>5 DEF IsBroken, n
    <3>3. QED BY <3>1, <3>2 DEF IsUtf8
  <2>7. QED BY <2>1, <2>4, <2>5, <2>6 DEF Partial
<1>4. Dangles(b) \/ ~Dangles(b) OBVIOUS
<1>5. QED BY ONLY <1>2, <1>3, <1>4

\* The decoder loses nothing.
LEMMA Pushing ==
  ASSUME NEW held \in Partial, NEW token \in Tokens, NEW pushed \in DecoderPush(held, token)
  PROVE  /\ pushed.released \in Seq(Tokens) /\ pushed.held \in Partial
         /\ pushed.released \o pushed.held = held \o Spelling(token)
<1> DEFINE bytes == held \o Spelling(token)
<1>1. "lead" \in Tokens BY DEF Tokens, Halves
<1>2. held \in Seq(Tokens) BY <1>1, PartialIs
<1>3. bytes \in Seq(Tokens) BY <1>2, Spelt
<1>4. pushed = [released |-> bytes, held |-> << >>]
        \/ pushed = [released |-> ValidPrefix(bytes), held |-> ValidRest(bytes)]
  BY DEF DecoderPush
<1> HIDE DEF bytes
<1>5. bytes \o << >> = bytes BY <1>3
<1>6. /\ ValidPrefix(bytes) \in Seq(Tokens) /\ ValidRest(bytes) \in Partial
      /\ ValidPrefix(bytes) \o ValidRest(bytes) = bytes
  BY <1>1, <1>3, ValidParts
<1>7. << >> \in Partial BY DEF Partial
<1>8. CASE pushed = [released |-> bytes, held |-> << >>]
  <2>1. pushed.released = bytes /\ pushed.held = << >> BY <1>8
  <2>2. QED BY <1>3, <1>5, <1>7, <2>1 DEF bytes
<1>9. CASE pushed = [released |-> ValidPrefix(bytes), held |-> ValidRest(bytes)]
  <2>1. pushed.released = ValidPrefix(bytes) /\ pushed.held = ValidRest(bytes) BY <1>9
  <2>2. QED BY <1>6, <2>1 DEF bytes
<1>10. QED BY <1>4, <1>8, <1>9

\* Finished, it has nothing left, or half a character to replace.
LEMMA Finishing ==
  ASSUME NEW pending \in Partial, NEW held \in Partial, NEW tail \in DecoderFinish(held),
         IsUtf8(pending \o tail)
  PROVE  /\ pending = << >> /\ pending \o tail = tail
         /\ (held = << >> /\ tail = << >>) \/ (held = <<"lead">> /\ tail = <<"replacement">>)
<1>1. held = << >> => tail = << >> BY DEF DecoderFinish
<1>2. held # << >> => held = <<"lead">> /\ tail \in {<<"lead">>, <<"replacement">>}
  BY DEF DecoderFinish, Partial
<1>3. tail \in {<< >>, <<"lead">>, <<"replacement">>} BY <1>1, <1>2
<1>4. pending = << >> => pending \o tail = tail BY <1>3
<1>5. tail # <<"lead">>
  <2>1. SUFFICES ASSUME tail = <<"lead">> PROVE FALSE OBVIOUS
  <2>2. pending \in Seq({"lead"}) BY PartialIs
  <2>3. Append(pending, "lead") \in Seq({"lead"}) /\ Len(Append(pending, "lead")) = Len(pending) + 1
        /\ Append(pending, "lead")[Len(pending) + 1] = "lead" /\ Len(pending) \in Nat
    BY <2>2
  <2>4a. pending \o <<"lead">> = Append(pending, "lead")
    <3>1. IsSeq(pending) BY <2>2 DEF IsSeq
    <3>2. QED BY <3>1, AppendFacts
  <2>3a. Append(pending, "lead") # << >> /\ Last(Append(pending, "lead")) = "lead"
    BY <2>3 DEF Last
  <2>4. QED BY <2>1, <2>4a, <2>3a DEF IsUtf8, Dangles
<1>6. pending # <<"lead">>
  <2>1. SUFFICES ASSUME pending = <<"lead">> PROVE FALSE OBVIOUS
  <2>2. CASE tail = << >>
    <3>1. pending \o tail = <<"lead">> BY <2>1, <2>2
    <3>2. <<"lead">> # << >> /\ Last(<<"lead">>) = "lead" BY DEF Last
    <3>3. QED BY <3>1, <3>2 DEF IsUtf8, Dangles
  <2>3. CASE tail = <<"replacement">>
    <3>1. pending \o tail = <<"lead", "replacement">>
      <4>1. IsSeq(<<"lead">>) BY OneIsSeq
      <4>2a. <<"lead">> \o <<"replacement">> = Append(<<"lead">>, "replacement")
        BY <4>1, AppendFacts
      <4> DEFINE one == <<"lead">>
                 two == <<"lead", "replacement">>
                 V == {"lead", "replacement"}
      <4>3. Append(one, "replacement") = two
        <5>1. one \in Seq(V) /\ Len(one) = 1 /\ one[1] = "lead" OBVIOUS
        <5>2. two \in Seq(V) /\ Len(two) = 2 /\ two[1] = "lead" /\ two[2] = "replacement" OBVIOUS
        <5>3. "replacement" \in V OBVIOUS
        <5> HIDE DEF one, two, V
        <5>4. /\ Append(one, "replacement") \in Seq(V) /\ Len(Append(one, "replacement")) = 2
              /\ Append(one, "replacement")[1] = "lead" /\ Append(one, "replacement")[2] = "replacement"
          <6> DEFINE x == "replacement"
          <6>1. x \in V BY <5>3
          <6> HIDE DEF x
          <6>2. /\ Append(one, x) \in Seq(V) /\ Len(Append(one, x)) = 1 + 1
                /\ Append(one, x)[1 + 1] = x /\ Append(one, x)[1] = one[1]
            <7>1. one \in Seq(V) BY <5>1
            <7>2. /\ Append(one, x) \in Seq(V) /\ Len(Append(one, x)) = Len(one) + 1
                  /\ Append(one, x)[Len(one) + 1] = x
                  /\ \A i \in 1 .. Len(one) : Append(one, x)[i] = one[i]
              BY ONLY <7>1, <6>1, AppendIn
            <7>3. Len(one) = 1 /\ 1 \in 1 .. 1 BY <5>1
            <7>4. QED BY ONLY <7>2, <7>3, Zenon
          <6>3. QED BY <5>1, <6>2 DEF x
        <5> DEFINE a == Append(one, "replacement")
        <5> HIDE DEF a
        <5>5. a \in Seq(V) /\ Len(a) = 2 /\ a[1] = "lead" /\ a[2] = "replacement" BY <5>4 DEF a
        <5>6. a = two BY <5>2, <5>5
        <5>7. QED BY <5>6 DEF a
      <4>2. QED BY <2>1, <2>3, <4>2a, <4>3
    <3> DEFINE b == <<"lead", "replacement">>
    <3>2. DOMAIN b = 1 .. 2 /\ Len(b) = 2 /\ b[1] = "lead" /\ b[1 + 1] = "replacement" OBVIOUS
    <3> HIDE DEF b
    <3>3. IsBroken(b) BY <3>2 DEF IsBroken
    <3>4. QED BY <3>1, <3>3 DEF IsUtf8, b
  <2>4. QED BY <1>3, <1>5, <2>2, <2>3
<1>7. QED BY <1>1, <1>2, <1>4, <1>5, <1>6 DEF Partial

-----------------------------------------------------------------------------
(* Text under its heading.                                                 *)

\* A piece of text under its heading.
Glyphs == {"Content", "Reasoning"} \X Letters

\* A text under a heading.
Titled(kind, s) == [j \in DOMAIN s |-> <<kind, s[j]>>]

\* What is shown is what is read, but for characters that are replaced.
Fits(s, r) ==
  Len(s) = Len(r) /\ \A i \in 1 .. Len(s) : s[i][1] = r[i][1] /\ Matches(s[i][2], r[i][2])

\* It is as long as the text, and every piece of it has the heading.
LEMMA TitledIs ==
  ASSUME NEW kind \in {"Content", "Reasoning"}, NEW s \in Seq(Letters)
  PROVE  /\ Titled(kind, s) \in Seq(Glyphs) /\ Len(Titled(kind, s)) = Len(s)
         /\ \A j \in 1 .. Len(s) : Titled(kind, s)[j][1] = kind /\ Titled(kind, s)[j][2] = s[j]
<1> DEFINE n == Len(s)
<1>1. n \in Nat /\ DOMAIN s = 1 .. n /\ \A j \in 1 .. n : s[j] \in Letters OBVIOUS
<1>2. \A j \in 1 .. n : <<kind, s[j]>> \in Glyphs BY <1>1 DEF Glyphs
<1>3. Titled(kind, s) = [j \in 1 .. n |-> <<kind, s[j]>>] BY <1>1 DEF Titled
<1> HIDE DEF n
<1>4. Titled(kind, s) \in [1 .. n -> Glyphs] BY <1>2, <1>3
<1>5. Titled(kind, s) \in Seq(Glyphs) /\ Len(Titled(kind, s)) = n BY <1>1, <1>4
<1>6. \A j \in 1 .. n : Titled(kind, s)[j] = <<kind, s[j]>> BY <1>3
<1>7. QED BY <1>5, <1>6 DEF n

\* Headings and concatenation commute.
LEMMA TitledJoin ==
  ASSUME NEW kind \in {"Content", "Reasoning"}, NEW s \in Seq(Letters), NEW t \in Seq(Letters)
  PROVE  Titled(kind, s \o t) = Titled(kind, s) \o Titled(kind, t)
<1> DEFINE a == Titled(kind, s)
           b == Titled(kind, t)
           c == Titled(kind, s \o t)
           m == Len(s)
           n == Len(t)
<1>1. /\ m \in Nat /\ n \in Nat /\ s \o t \in Seq(Letters) /\ Len(s \o t) = m + n
      /\ \A j \in 1 .. m : (s \o t)[j] = s[j]
      /\ \A j \in m + 1 .. m + n : (s \o t)[j] = t[j - m]
  OBVIOUS
<1>2. /\ a \in Seq(Glyphs) /\ Len(a) = m /\ DOMAIN s = 1 .. m
      /\ b \in Seq(Glyphs) /\ Len(b) = n /\ DOMAIN t = 1 .. n
      /\ c \in Seq(Glyphs) /\ Len(c) = m + n /\ DOMAIN (s \o t) = 1 .. m + n
  <2>1. /\ a \in Seq(Glyphs) /\ Len(a) = m BY TitledIs
  <2>2. /\ b \in Seq(Glyphs) /\ Len(b) = n BY TitledIs
  <2> DEFINE u == s \o t
  <2>0. u \in Seq(Letters) /\ Len(u) = m + n BY <1>1
  <2>4. DOMAIN s = 1 .. m /\ DOMAIN t = 1 .. n /\ DOMAIN u = 1 .. m + n BY <1>1
  <2> HIDE DEF a, b, u
  <2>3. Titled(kind, u) \in Seq(Glyphs) /\ Len(Titled(kind, u)) = m + n BY <2>0, TitledIs
  <2>5. QED BY <2>1, <2>2, <2>3, <2>4, <1>1 DEF u
<1>3. /\ \A j \in 1 .. m : a[j] = <<kind, s[j]>>
      /\ \A j \in 1 .. n : b[j] = <<kind, t[j]>>
      /\ \A j \in 1 .. m + n : c[j] = <<kind, (s \o t)[j]>>
  BY <1>2 DEF Titled
<1> HIDE DEF a, b, c, m, n
<1> DEFINE ab == a \o b
           st == s \o t
<1>4. /\ ab \in Seq(Glyphs) /\ Len(ab) = m + n
      /\ \A j \in 1 .. m : ab[j] = a[j]
      /\ \A j \in m + 1 .. m + n : ab[j] = b[j - m]
  BY <1>1, <1>2
<1>4a. /\ \A j \in 1 .. m : st[j] = s[j]
       /\ \A j \in m + 1 .. m + n : st[j] = t[j - m]
       /\ \A j \in 1 .. m + n : c[j] = <<kind, st[j]>>
  BY <1>1, <1>3
<1> HIDE DEF ab, st
<1>5. ASSUME NEW j \in 1 .. m + n PROVE ab[j] = c[j]
  <2>0. m \in Nat /\ n \in Nat BY <1>1
  <2>1. CASE j \in 1 .. m BY ONLY <2>0, <1>3, <1>4, <1>4a, <2>1, j \in 1 .. m + n
  <2>2. CASE j \in m + 1 .. m + n
    <3>1. j - m \in 1 .. n BY ONLY <2>0, <2>2
    <3>2. QED BY ONLY <2>0, <1>3, <1>4, <1>4a, <2>2, <3>1, j \in 1 .. m + n
  <2>3. QED BY ONLY <2>0, <2>1, <2>2, j \in 1 .. m + n
<1>6. ab = c BY ONLY <1>1, <1>2, <1>4, <1>5
<1>7. QED BY <1>6 DEF a, b, c, ab

\* Whatever is read fits itself.
LEMMA FitsSame == ASSUME NEW s PROVE Fits(s, s)
BY DEF Fits, Matches

\* What fits piece by piece fits as a whole.
LEMMA FitsJoin ==
  ASSUME NEW s \in Seq(Glyphs), NEW r \in Seq(Glyphs), Fits(s, r),
         NEW t \in Seq(Glyphs), NEW u \in Seq(Glyphs), Fits(t, u)
  PROVE  Fits(s \o t, r \o u)
<1> DEFINE m == Len(s)
           n == Len(t)
           st == s \o t
           ru == r \o u
<1>1. m \in Nat /\ n \in Nat /\ Len(r) = m /\ Len(u) = n BY DEF Fits
<1>2. /\ Len(st) = m + n /\ Len(ru) = m + n
      /\ \A j \in 1 .. m : st[j] = s[j] /\ ru[j] = r[j]
      /\ \A j \in m + 1 .. m + n : st[j] = t[j - m] /\ ru[j] = u[j - m]
  BY <1>1
<1>3. /\ \A j \in 1 .. m : s[j][1] = r[j][1] /\ Matches(s[j][2], r[j][2])
      /\ \A j \in 1 .. n : t[j][1] = u[j][1] /\ Matches(t[j][2], u[j][2])
  BY DEF Fits
<1> HIDE DEF m, n, st, ru
<1>4. ASSUME NEW j \in 1 .. m + n
      PROVE  st[j][1] = ru[j][1] /\ Matches(st[j][2], ru[j][2])
  <2>0. m \in Nat /\ n \in Nat BY <1>1
  <2>1. CASE j \in 1 .. m
    <3>1. st[j] = s[j] /\ ru[j] = r[j] BY <1>2, <2>1
    <3>2. QED BY <1>3, <2>1, <3>1
  <2>2. CASE j \in m + 1 .. m + n
    <3>1. j - m \in 1 .. n BY ONLY <2>0, <2>2
    <3>2. st[j] = t[j - m] /\ ru[j] = u[j - m] BY <1>2, <2>2
    <3>3. QED BY <1>3, <3>1, <3>2
  <2>3. QED BY ONLY <2>0, <2>1, <2>2, j \in 1 .. m + n
<1>5. QED BY <1>2, <1>4 DEF Fits, st, ru

-----------------------------------------------------------------------------
(* Headers.                                                                *)

\* What a legal header says: its channel is named behind its only CHANNEL, and it is
\* addressed to a tool if anything in it is.
HeaderOf(tokens, header) ==
  /\ header.channel \in Channels /\ header.recipient \in BOOLEAN
  /\ \E mark \in DOMAIN tokens :
       /\ mark + 1 \in DOMAIN tokens /\ tokens[mark] = "CHANNEL"
       /\ \A i \in DOMAIN tokens : tokens[i] = "CHANNEL" => i = mark
       /\ header.channel = tokens[mark + 1]
  /\ header.recipient <=> \E i \in DOMAIN tokens : tokens[i] = "to"

\* A header that is accepted has one CHANNEL, names the channel behind it, and has a
\* recipient if there is a "to" in it.
LEMMA HeaderSays ==
  ASSUME NEW tokens \in Seq(Tokens), NEW implicit \in BOOLEAN,
         ParseHeader(tokens, implicit) # Malformed
  PROVE  HeaderOf(tokens, ParseHeader(tokens, implicit))
<1> DEFINE header == ParseHeader(tokens, implicit)
           marks == {i \in DOMAIN tokens : tokens[i] = "CHANNEL"}
           mark == CHOOSE i \in marks : TRUE
           author == SubSeq(tokens, 1, mark - 1)
           metadata == SubSeq(tokens, mark + 1, Len(tokens))
           constrains == {i \in DOMAIN metadata : metadata[i] = "CONSTRAIN"}
           constrain == CHOOSE i \in constrains : \A j \in constrains : i <= j
           fields == IF constrains = {} THEN metadata ELSE SubSeq(metadata, 1, constrain - 1)
           type == SubSeq(metadata, constrain + 1, Len(metadata))
           named == author = <<"assistant", "to">>
           recipient == named \/ Len(fields) = 2
           legal == /\ \E i \in DOMAIN tokens : marks = {i}
                    /\ IF implicit THEN author = << >> ELSE author = <<"assistant">> \/ named
                    /\ constrains # {} => Len(type) = 1 /\ type[1] \in Fields
                    /\ fields # << >> /\ fields[1] \in Channels
                    /\ Len(fields) = 1 \/ fields = <<fields[1], "to">>
                    /\ ~(named /\ Len(fields) = 2)
                    /\ recipient <=> constrains # {}
                    /\ recipient => fields[1] = "commentary"
           n == Len(tokens)
<1>1. header = IF legal
               THEN [channel |-> fields[1], recipient |-> recipient,
                     type |-> IF constrains = {} THEN "none" ELSE type[1]]
               ELSE Malformed
  BY DEF ParseHeader
<1>2. legal BY <1>1
<1>3. header.channel = fields[1] /\ header.recipient = recipient
  <2> DEFINE kind == IF constrains = {} THEN "none" ELSE type[1]
  <2> HIDE DEF legal, fields, recipient, kind, header
  <2>1. header = [channel |-> fields[1], recipient |-> recipient, type |-> kind]
    BY <1>1, <1>2 DEF kind
  <2>2. QED BY ONLY <2>1
<1>4. n \in Nat /\ DOMAIN tokens = 1 .. n /\ \A i \in 1 .. n : tokens[i] \in Tokens OBVIOUS
<1>5. mark \in 1 .. n /\ marks = {mark} BY <1>2, <1>4
<1> HIDE DEF header, mark
<1>6. /\ metadata \in Seq(Tokens) /\ Len(metadata) = n - mark
      /\ \A j \in 1 .. n - mark : metadata[j] = tokens[mark + j]
  <2>1. mark + 1 \in 1 .. n + 1 BY <1>4, <1>5
  <2> DEFINE k == mark + 1
             l == Len(tokens)
  <2>2. k \in 1 .. l + 1 /\ l \in Nat BY <2>1, <1>4
  <2> HIDE DEF k, l
  <2>3. /\ SubSeq(tokens, k, l) \in Seq(Tokens) /\ Len(SubSeq(tokens, k, l)) = l - k + 1
        /\ \A j \in 1 .. l - k + 1 : SubSeq(tokens, k, l)[j] = tokens[k + j - 1]
    BY ONLY <2>2, tokens \in Seq(Tokens) DEF l
  <2>4. l - k + 1 = n - mark /\ \A j \in 1 .. n - mark : k + j - 1 = mark + j
    <3>1. l = n /\ k = mark + 1 /\ n \in Nat /\ mark \in Nat BY <1>4, <1>5 DEF l, k
    <3> HIDE DEF n
    <3>2. QED BY ONLY <3>1
  <2> HIDE DEF n
  <2>5. metadata = SubSeq(tokens, k, l) BY DEF k, l
  <2> HIDE DEF metadata
  <2>6. QED BY ONLY <2>3, <2>4, <2>5
<1>7. /\ author \in Seq(Tokens) /\ Len(author) = mark - 1
      /\ \A j \in 1 .. mark - 1 : author[j] = tokens[j]
  <2>1. mark \in Nat /\ mark - 1 \in Nat /\ mark - 1 <= n BY <1>4, <1>5
  <2> DEFINE k == mark - 1
  <2>2. k \in Nat /\ k <= Len(tokens) BY <2>1
  <2> HIDE DEF k
  <2>3. /\ SubSeq(tokens, 1, k) \in Seq(Tokens) /\ Len(SubSeq(tokens, 1, k)) = k
        /\ \A j \in 1 .. k : SubSeq(tokens, 1, k)[j] = tokens[j]
    BY ONLY <2>2, tokens \in Seq(Tokens)
  <2>4. QED BY <2>3 DEF k
<1> HIDE DEF author, metadata
<1>8. /\ fields \in Seq(Tokens) /\ Len(fields) <= n - mark
      /\ \A j \in 1 .. Len(fields) : fields[j] = metadata[j]
      /\ constrains = {} => fields = metadata
  <2>1. CASE constrains = {} BY <1>5, <1>6, <2>1
  <2>2. CASE constrains # {}
    <3>1. DOMAIN metadata = 1 .. n - mark BY <1>6
    <3>2. constrains \in SUBSET Nat BY <3>1
    <3>3. constrain \in constrains
      <4>1. \E i \in constrains : \A j \in constrains : i <= j BY ONLY <3>2, <2>2, NatMin, Zenon
      <4> HIDE DEF constrains
      <4>2. QED BY <4>1
    <3>4. constrain \in 1 .. n - mark BY <3>1, <3>3
    <3> HIDE DEF constrain
    <3>5. fields = SubSeq(metadata, 1, constrain - 1) BY <2>2
    <3>6. /\ SubSeq(metadata, 1, constrain - 1) \in Seq(Tokens)
          /\ Len(SubSeq(metadata, 1, constrain - 1)) = constrain - 1
          /\ \A j \in 1 .. constrain - 1 : SubSeq(metadata, 1, constrain - 1)[j] = metadata[j]
      BY <1>6, <1>5, <3>4
    <3> HIDE DEF fields, constrains
    <3>7. QED BY <3>4, <3>5, <3>6, <2>2, <1>5
  <2>3. QED BY <2>1, <2>2
<1> HIDE DEF fields
<1>9. Len(fields) \in Nat /\ Len(fields) > 0 /\ fields[1] = tokens[mark + 1] /\ mark + 1 \in 1 .. n
  <2>1. Len(fields) \in Nat /\ Len(fields) > 0 BY <1>2, <1>8
  <2>2. 1 \in 1 .. Len(fields) /\ 1 \in 1 .. n - mark BY <2>1, <1>8, <1>5
  <2>3. QED BY <1>5, <1>6, <1>8, <2>1, <2>2
<1>10. ASSUME recipient PROVE \E i \in 1 .. n : tokens[i] = "to"
  <2>1. CASE named
    <3>1. Len(<<"assistant", "to">>) = 2 /\ <<"assistant", "to">>[2] = "to" OBVIOUS
    <3>2. Len(author) = 2 /\ author[2] = "to" BY ONLY <2>1, <3>1
    <3>3. 2 \in 1 .. mark - 1 /\ 2 \in 1 .. n
      <4>1. mark - 1 = 2 /\ mark \in 1 .. n /\ n \in Nat BY <1>4, <1>5, <1>7, <3>2
      <4> HIDE DEF n
      <4>2. QED BY ONLY <4>1
    <3>4. QED BY <1>7, <3>2, <3>3
  <2>2. CASE Len(fields) = 2
    <3>1. fields = <<fields[1], "to">> BY <1>2, <2>2
    <3> DEFINE two == <<fields[1], "to">>
    <3>2. two[2] = "to" OBVIOUS
    <3> HIDE DEF two
    <3>3. fields[2] = "to" BY ONLY <3>1, <3>2 DEF two
    <3>4. 2 \in 1 .. Len(fields) /\ 2 \in 1 .. n - mark /\ mark + 2 \in 1 .. n BY <2>2, <1>8, <1>5
    <3>5. QED BY <1>6, <1>8, <3>3, <3>4
  <2>3. QED BY <1>10, <2>1, <2>2
<1>11. ASSUME ~recipient, NEW i \in 1 .. n, tokens[i] = "to" PROVE FALSE
  <2>1. constrains = {} /\ ~named /\ Len(fields) # 2 BY <1>2, <1>11
  <2>2. fields = metadata BY <2>1, <1>8
  <2>3. Len(fields) = 1
    <3>1. SUFFICES ASSUME Len(fields) # 1, fields = <<fields[1], "to">> PROVE FALSE BY <1>2
    <3> DEFINE two == <<fields[1], "to">>
    <3>2. Len(two) = 2 OBVIOUS
    <3> HIDE DEF two
    <3>3. Len(fields) = 2 BY ONLY <3>1, <3>2 DEF two
    <3>4. QED BY <2>1, <3>3
  <2>4. n - mark = 1 BY <2>2, <2>3, <1>6
  <2>5. i # mark BY <1>5, <1>11
  <2>6. i # mark + 1
    <3>1. "to" \notin Channels BY DEF Channels
    <3>2. QED BY <3>1, <1>2, <1>9, <1>11
  <2>7. i \in 1 .. mark - 1 BY <1>4, <1>5, <2>4, <2>5, <2>6
  <2>8. author[i] = "to" BY <1>7, <1>11, <2>7
  <2>9. author # << >> /\ Len(author) \in Nat BY <1>7, <2>7, <1>5
  <2>10. author = <<"assistant">>
    BY <1>2, <2>1, <2>9
  <2>11. Len(<<"assistant">>) = 1 /\ <<"assistant">>[1] = "assistant" OBVIOUS
  <2>12. mark - 1 = 1 /\ author[1] = "assistant" BY ONLY <2>10, <2>11, <1>7
  <2>13. i = 1 BY <2>7, <2>12
  <2>14. QED BY <2>8, <2>12, <2>13
<1>12. header.recipient \in BOOLEAN
  <2>1. recipient \in BOOLEAN OBVIOUS
  <2>2. QED BY <1>3, <2>1
<1>13. \A i \in 1 .. n : tokens[i] = "CHANNEL" => i = mark BY <1>4, <1>5
<1>14. tokens[mark] = "CHANNEL" BY <1>5
<1>15. fields[1] \in Channels BY <1>2
<1> HIDE DEF n, recipient, legal, marks
<1>16. QED BY <1>3, <1>4, <1>5, <1>9, <1>10, <1>11, <1>12, <1>13, <1>14, <1>15 DEF HeaderOf, header

-----------------------------------------------------------------------------
(* Readable, as a function of what is written.                             *)

\* The definitions of Readable and of what it is made of, for tokens w in place of the
\* variable: the last mark before the i-th token;
LastIn(w, i, marks) ==
  LET before == {j \in 1 .. i - 1 : w[j] \in marks}
  IN  IF before = {} THEN 0 ELSE CHOOSE j \in before : \A k \in before : k <= j

\* whether the token belongs to a body;
BodyIn(w, i) ==
  /\ w[i] \notin Special
  /\ LastIn(w, i, Special) # 0 /\ w[LastIn(w, i, Special)] = "MESSAGE"

\* whether that body is addressed to a tool;
AddressedIn(w, i) ==
  \E j \in LastIn(w, i, {"START"}) + 1 .. LastIn(w, i, {"MESSAGE"}) : w[j] = "to"

\* its heading;
KindIn(w, i) == IF w[LastIn(w, i, {"CHANNEL"}) + 1] = "final" THEN "Content" ELSE "Reasoning"

\* what there is to read of the token;
SegmentIn(w, i) ==
  IF BodyIn(w, i) /\ ~AddressedIn(w, i) THEN Titled(KindIn(w, i), Spelling(w[i])) ELSE << >>

\* and all there is to read.
ReadIn(w) == FlattenSeq([i \in DOMAIN w |-> SegmentIn(w, i)])

\* They say the same.
LEMMA ReadableIs == Readable = ReadIn(written)
<1>1. \A i : \A marks : LastBefore(i, marks) = LastIn(written, i, marks) BY DEF LastBefore, LastIn
<1>2. \A i : /\ IsBody(i) <=> BodyIn(written, i)
             /\ Addressed(i) <=> AddressedIn(written, i)
             /\ KindOf(i) = KindIn(written, i)
  BY <1>1 DEF IsBody, BodyIn, Addressed, AddressedIn, KindOf, KindIn
<1>3. \A i : Titled(KindIn(written, i), Spelling(written[i]))
               = [j \in DOMAIN Spelling(written[i]) |-> <<KindIn(written, i), Spelling(written[i])[j]>>]
  BY DEF Titled
<1>4. \A i : SegmentIn(written, i) =
        IF IsBody(i) /\ ~Addressed(i)
        THEN [j \in DOMAIN Spelling(written[i]) |-> <<KindOf(i), Spelling(written[i])[j]>>]
        ELSE << >>
  BY <1>2, <1>3 DEF SegmentIn
<1>5. [i \in DOMAIN written |-> SegmentIn(written, i)]
        = [i \in DOMAIN written |->
             IF IsBody(i) /\ ~Addressed(i)
             THEN [j \in DOMAIN Spelling(written[i]) |-> <<KindOf(i), Spelling(written[i])[j]>>]
             ELSE << >>]
  BY <1>4
<1>6. QED BY <1>5 DEF Readable, ReadIn

\* Where the last mark stands.
LEMMA LastInIs ==
  ASSUME NEW w, NEW i \in Nat \ {0}, NEW marks, NEW m \in 0 .. i - 1, m = 0 \/ w[m] \in marks,
         \A k \in m + 1 .. i - 1 : w[k] \notin marks
  PROVE  LastIn(w, i, marks) = m
<1> DEFINE before == {j \in 1 .. i - 1 : w[j] \in marks}
<1>1. \A j \in before : j <= m OBVIOUS
<1>2. CASE m = 0
  <2>1. before = {} BY <1>1, <1>2
  <2>2. QED BY <1>2, <2>1 DEF LastIn
<1>3. CASE m # 0
  <2>1. m \in before BY <1>3
  <2>2. LastIn(w, i, marks) = CHOOSE j \in before : \A k \in before : k <= j BY <2>1 DEF LastIn
  <2>3. before \subseteq Nat OBVIOUS
  <2> HIDE DEF before
  <2>4. \A j \in before : (\A k \in before : k <= j) => j = m BY <1>1, <2>1, <2>3
  <2>5. \E j \in before : \A k \in before : k <= j BY <1>1, <2>1
  <2>6. QED BY <2>2, <2>4, <2>5
<1>4. QED BY <1>2, <1>3

\* The last mark is one, it stands before i, and behind it there is none.
LEMMA LastInIsLast ==
  ASSUME NEW w, NEW i \in Nat \ {0}, NEW marks
  PROVE  /\ LastIn(w, i, marks) \in 0 .. i - 1
         /\ LastIn(w, i, marks) # 0 => w[LastIn(w, i, marks)] \in marks
         /\ \A k \in LastIn(w, i, marks) + 1 .. i - 1 : w[k] \notin marks
<1> DEFINE before == {j \in 1 .. i - 1 : w[j] \in marks}
           gaps == {g \in Nat : i - g \in before}
<1>1. CASE before = {}
  <2>1. LastIn(w, i, marks) = 0 BY <1>1 DEF LastIn
  <2>2. \A k \in 1 .. i - 1 : w[k] \notin marks BY <1>1
  <2>3. QED BY <2>1, <2>2
<1>2. CASE before # {}
  <2>1. PICK j \in before : TRUE BY <1>2
  <2>2. i - j \in Nat /\ i - (i - j) = j OBVIOUS
  <2>3. gaps # {} /\ gaps \in SUBSET Nat BY <2>1, <2>2
  <2>4. before \subseteq 1 .. i - 1 OBVIOUS
  <2> HIDE DEF before
  <2>5. PICK g \in gaps : \A h \in gaps : g <= h BY <2>3, NatMin
  <2>6. i - g \in before BY <2>5
  <2>7. ASSUME NEW k \in before PROVE k <= i - g
    <3>1. i - k \in Nat /\ i - (i - k) = k /\ k \in Nat BY <2>4
    <3>2. i - k \in gaps BY <3>1
    <3>3. g <= i - k /\ g \in Nat BY <2>5, <3>2
    <3>4. QED BY <3>1, <3>3
  <2> DEFINE l == LastIn(w, i, marks)
  <2>8. l = CHOOSE j_1 \in before : \A k \in before : k <= j_1
    BY <1>2 DEF LastIn, before
  <2>9. l \in before /\ \A k \in before : k <= l BY <2>6, <2>7, <2>8
  <2> HIDE DEF gaps, l
  <2>10. l \in 1 .. i - 1 /\ w[l] \in marks BY ONLY <2>9, Zenon DEF before
  <2>11. l \in 0 .. i - 1 BY ONLY <2>10, i \in Nat \ {0}
  <2>12. ASSUME NEW k \in l + 1 .. i - 1, w[k] \in marks PROVE FALSE
    <3>1. k \in 1 .. i - 1 BY ONLY <2>10, <2>12, i \in Nat \ {0}
    <3>2. k <= l BY ONLY <3>1, <2>12, <2>9, Zenon DEF before
    <3>3. QED BY ONLY <2>10, <3>2, <2>12, i \in Nat \ {0}
  <2>13. QED BY <2>10, <2>11, <2>12 DEF l
<1>3. QED BY <1>1, <1>2

\* What is written later does not move it.
LEMMA LastInStays ==
  ASSUME NEW w, NEW v, NEW i \in Nat \ {0}, NEW marks, \A j \in 1 .. i - 1 : v[j] = w[j]
  PROVE  LastIn(v, i, marks) = LastIn(w, i, marks)
<1> DEFINE a == {j \in 1 .. i - 1 : v[j] \in marks}
           b == {j \in 1 .. i - 1 : w[j] \in marks}
<1>1. a = b OBVIOUS
<1>2. /\ LastIn(v, i, marks) = IF a = {} THEN 0 ELSE CHOOSE j \in a : \A k \in a : k <= j
      /\ LastIn(w, i, marks) = IF b = {} THEN 0 ELSE CHOOSE j \in b : \A k \in b : k <= j
  BY DEF LastIn
<1> HIDE DEF a, b
<1>3. QED BY <1>1, <1>2

\* What is written later changes nothing of what there is to read of a token.
LEMMA SegmentStays ==
  ASSUME NEW w, NEW v, NEW i \in Nat \ {0}, \A j \in 1 .. i : v[j] = w[j]
  PROVE  SegmentIn(v, i) = SegmentIn(w, i)
<1>1. \A marks : /\ LastIn(v, i, marks) = LastIn(w, i, marks)
                 /\ LastIn(w, i, marks) \in 0 .. i - 1
  BY LastInStays, LastInIsLast
<1>2. BodyIn(v, i) <=> BodyIn(w, i)
  <2>1. LastIn(w, i, Special) # 0 => LastIn(w, i, Special) \in 1 .. i BY <1>1
  <2>2. i \in 1 .. i OBVIOUS
  <2>3. QED BY <1>1, <2>1, <2>2 DEF BodyIn
<1>3. AddressedIn(v, i) <=> AddressedIn(w, i)
  <2> DEFINE a == LastIn(w, i, {"START"})
             b == LastIn(w, i, {"MESSAGE"})
  <2>1. a \in 0 .. i - 1 /\ b \in 0 .. i - 1 BY <1>1
  <2>2. /\ AddressedIn(v, i) <=> \E j \in a + 1 .. b : v[j] = "to"
        /\ AddressedIn(w, i) <=> \E j \in a + 1 .. b : w[j] = "to"
    BY <1>1 DEF AddressedIn
  <2> HIDE DEF a, b
  <2>3. \A j \in a + 1 .. b : j \in 1 .. i BY <2>1
  <2>4. QED BY <2>2, <2>3
<1>4. KindIn(v, i) = KindIn(w, i)
  <2>1. LastIn(w, i, {"CHANNEL"}) + 1 \in 1 .. i BY <1>1
  <2>2. QED BY <1>1, <2>1 DEF KindIn
<1>5. v[i] = w[i] OBVIOUS
<1>6. QED BY <1>2, <1>3, <1>4, <1>5 DEF SegmentIn

\* What there is to read of a token is text under a heading.
LEMMA SegmentType ==
  ASSUME NEW w, NEW i, w[i] \in Tokens
  PROVE  SegmentIn(w, i) \in Seq(Glyphs)
<1>1. KindIn(w, i) \in {"Content", "Reasoning"} BY DEF KindIn
<1>2. Spelling(w[i]) \in Seq(Letters)
  <2>1. Spelling(w[i]) \in Seq(Tokens) BY Spelt
  <2>2. Tokens \subseteq Letters BY DEF Letters
  <2>3. QED BY <2>1, <2>2
<1>3. Titled(KindIn(w, i), Spelling(w[i])) \in Seq(Glyphs) BY <1>1, <1>2, TitledIs
<1>4. << >> \in Seq(Glyphs) OBVIOUS
<1>5. QED BY <1>3, <1>4 DEF SegmentIn

\* One more token to read.
LEMMA ReadMore ==
  ASSUME NEW w \in Seq(Tokens), NEW token \in Tokens
  PROVE  /\ ReadIn(w) \in Seq(Glyphs)
         /\ SegmentIn(Append(w, token), Len(w) + 1) \in Seq(Glyphs)
         /\ ReadIn(Append(w, token)) = ReadIn(w) \o SegmentIn(Append(w, token), Len(w) + 1)
<1> DEFINE n == Len(w)
           v == Append(w, token)
           s == [i \in 1 .. n |-> SegmentIn(w, i)]
           x == SegmentIn(v, n + 1)
<1>1. /\ n \in Nat /\ DOMAIN w = 1 .. n /\ \A i \in 1 .. n : w[i] \in Tokens
      /\ v \in Seq(Tokens) /\ DOMAIN v = 1 .. n + 1 /\ v[n + 1] = token
      /\ \A i \in 1 .. n : v[i] = w[i]
  OBVIOUS
<1> HIDE DEF n, v
<1>2. \A i \in 1 .. n : SegmentIn(w, i) \in Seq(Glyphs) BY <1>1, SegmentType
<1>3. x \in Seq(Glyphs) BY <1>1, SegmentType
<1>4. s \in Seq(Seq(Glyphs)) /\ Len(s) = n
  <2> DEFINE G == Seq(Glyphs)
  <2>1. \A i \in 1 .. n : SegmentIn(w, i) \in G BY <1>2
  <2> HIDE DEF G
  <2>2. s \in [1 .. n -> G] BY <2>1
  <2>3. s \in Seq(G) /\ Len(s) = n
    <3> HIDE DEF s
    <3>1. QED BY <1>1, <2>2
  <2>4. QED BY <2>3 DEF G
<1>5. [i \in DOMAIN v |-> SegmentIn(v, i)] = Append(s, x)
  <2> DEFINE G == Seq(Glyphs)
             t == Append(s, x)
             u == [i \in 1 .. n + 1 |-> SegmentIn(v, i)]
  <2>1. \A i \in 1 .. n : SegmentIn(v, i) = SegmentIn(w, i)
    <3> SUFFICES ASSUME NEW i \in 1 .. n PROVE SegmentIn(v, i) = SegmentIn(w, i) OBVIOUS
    <3>1. i \in Nat \ {0} /\ \A j \in 1 .. i : j \in 1 .. n BY <1>1
    <3>2. \A j \in 1 .. i : v[j] = w[j] BY <1>1, <3>1
    <3>3. QED BY <3>1, <3>2, SegmentStays
  <2>2. \A i \in 1 .. n : s[i] = SegmentIn(w, i) OBVIOUS
  <2>3. s \in Seq(G) /\ x \in G /\ Len(s) = n BY <1>3, <1>4
  <2> HIDE DEF s, G
  <2>4. /\ t \in Seq(G) /\ Len(t) = Len(s) + 1 /\ t[Len(s) + 1] = x
        /\ \A i \in 1 .. Len(s) : t[i] = s[i]
    BY <2>3, AppendIn
  <2>5. \A i \in 1 .. n + 1 : t[i] = SegmentIn(v, i)
    <3>1. x = SegmentIn(v, n + 1) OBVIOUS
    <3> HIDE DEF x, t
    <3>2. ASSUME NEW i \in 1 .. n + 1 PROVE t[i] = SegmentIn(v, i)
      <4>1. CASE i = n + 1 BY <2>3, <2>4, <3>1, <4>1
      <4>2. CASE i \in 1 .. n BY <2>1, <2>2, <2>3, <2>4, <4>2
      <4>3. n \in Nat BY <1>1
      <4>4. QED BY ONLY <4>1, <4>2, <4>3, i \in 1 .. n + 1
    <3>3. QED BY <3>2
  <2>6. DOMAIN t = 1 .. n + 1 /\ t = [i \in 1 .. n + 1 |-> t[i]]
    <3> HIDE DEF t
    <3>1. QED BY <2>3, <2>4
  <2> HIDE DEF t
  <2>7. t = u BY <2>5, <2>6
  <2>8. QED BY <1>1, <2>7 DEF t
<1>6. [i \in DOMAIN w |-> SegmentIn(w, i)] = s BY <1>1
<1> HIDE DEF s, x
<1>7. FlattenSeq(s) \in Seq(Glyphs) /\ FlattenSeq(Append(s, x)) = FlattenSeq(s) \o x
  BY <1>3, <1>4, FlattenMore
<1>8. ReadIn(w) = FlattenSeq(s) /\ ReadIn(v) = FlattenSeq(Append(s, x)) BY <1>5, <1>6 DEF ReadIn
<1>9. QED BY <1>3, <1>7, <1>8 DEF x, n, v

\* One more element of an indexed family.
LEMMA FlattenIndexed ==
  ASSUME NEW T, NEW n \in Nat, NEW f \in [1 .. n -> Seq(T)], NEW g,
         g = [i \in 1 .. n + 1 |-> g[i]], \A i \in 1 .. n : g[i] = f[i], g[n + 1] \in Seq(T)
  PROVE  FlattenSeq(f) \in Seq(T) /\ FlattenSeq(g) = FlattenSeq(f) \o g[n + 1]
<1> DEFINE G == Seq(T)
           x == g[n + 1]
           t == Append(f, x)
<1>1. f \in Seq(G) /\ Len(f) = n /\ x \in G
  <2> HIDE DEF G
  <2>1. f \in [1 .. n -> G] BY DEF G
  <2>2. QED BY <2>1 DEF G
<1> HIDE DEF G, x
<1>2. /\ t \in Seq(G) /\ Len(t) = Len(f) + 1 /\ t[Len(f) + 1] = x
      /\ \A i \in 1 .. Len(f) : t[i] = f[i]
  BY <1>1, AppendIn
<1> HIDE DEF t
<1>3. DOMAIN t = 1 .. n + 1 /\ t = [i \in 1 .. n + 1 |-> t[i]] BY <1>1, <1>2
<1>4. ASSUME NEW i \in 1 .. n + 1 PROVE t[i] = g[i]
  <2>1. CASE i = n + 1 BY <1>1, <1>2, <2>1 DEF x
  <2>2. CASE i \in 1 .. n BY <1>1, <1>2, <2>2
  <2>3. QED BY ONLY <2>1, <2>2, i \in 1 .. n + 1, n \in Nat
<1>5. t = g BY ONLY <1>3, <1>4, g = [i \in 1 .. n + 1 |-> g[i]]
<1>6. FlattenSeq(f) \in Seq(T) /\ FlattenSeq(Append(f, x)) = FlattenSeq(f) \o x
  <2>1. f \in Seq(Seq(T)) /\ x \in Seq(T) BY <1>1 DEF G
  <2>2. QED BY ONLY <2>1, FlattenMore
<1>7. QED BY <1>5, <1>6 DEF t, x

\* What the tokens behind a MESSAGE spell.
SpelledFrom(w, m) == FlattenSeq([j \in 1 .. Len(w) - m |-> Spelling(w[m + j])])

\* Behind the last token there is nothing.
LEMMA SpelledNone ==
  ASSUME NEW w, NEW m \in Nat, m = Len(w)
  PROVE  SpelledFrom(w, m) = << >>
<1>1. 1 .. Len(w) - m = {} OBVIOUS
<1>2. [j \in 1 .. Len(w) - m |-> Spelling(w[m + j])] = << >> BY <1>1
<1>3. QED BY <1>2, FlattenNone DEF SpelledFrom

\* One more token spells more of it.
LEMMA SpelledMore ==
  ASSUME NEW w \in Seq(Tokens), NEW token \in Tokens, NEW m \in 0 .. Len(w)
  PROVE  /\ SpelledFrom(w, m) \in Seq(Tokens)
         /\ SpelledFrom(Append(w, token), m) = SpelledFrom(w, m) \o Spelling(token)
<1> DEFINE v == Append(w, token)
           n == Len(w) - m
           f == [j \in 1 .. n |-> Spelling(w[m + j])]
           g == [j \in 1 .. n + 1 |-> Spelling(v[m + j])]
<1>1. /\ n \in Nat /\ Len(w) \in Nat /\ Len(v) = Len(w) + 1 /\ Len(v) - m = n + 1
      /\ v[Len(w) + 1] = token /\ m + (n + 1) = Len(w) + 1
      /\ \A j \in 1 .. n : m + j \in 1 .. Len(w)
      /\ \A i \in 1 .. Len(w) : v[i] = w[i] /\ w[i] \in Tokens
  OBVIOUS
<1> HIDE DEF n, v
<1>2. \A j \in 1 .. n : Spelling(w[m + j]) \in Seq(Tokens) BY <1>1, Spelt
<1>3. f \in [1 .. n -> Seq(Tokens)] BY <1>2
<1>4. g = [i \in 1 .. n + 1 |-> g[i]] /\ \A i \in 1 .. n : g[i] = f[i] BY <1>1
<1>5. g[n + 1] = Spelling(token) BY <1>1
<1>6. Spelling(token) \in Seq(Tokens) BY Spelt
<1>7. SpelledFrom(w, m) = FlattenSeq(f) BY DEF SpelledFrom, n
<1>8. SpelledFrom(v, m) = FlattenSeq(g) BY <1>1 DEF SpelledFrom
<1> HIDE DEF f, g
<1>9. FlattenSeq(f) \in Seq(Tokens) /\ FlattenSeq(g) = FlattenSeq(f) \o g[n + 1]
  <2>1. n \in Nat /\ g[n + 1] \in Seq(Tokens) BY <1>1, <1>5, <1>6
  <2>2. QED BY ONLY <2>1, <1>3, <1>4, FlattenIndexed
<1>10. QED BY <1>5, <1>7, <1>8, <1>9 DEF v

\* What a stream of chunks shows.
IsText(chunk) == chunk.kind \in {"Content", "Reasoning"}

\* What a chunk shows,
ShownOf(chunk) == IF IsText(chunk) THEN Titled(chunk.kind, chunk.text) ELSE << >>

\* what a stream shows,
Shown(e) == FlattenSeq([i \in DOMAIN e |-> ShownOf(e[i])])

\* and what makes a chunk of text a good one: whole characters, and some.
GoodChunk(chunk) ==
  IsText(chunk) => chunk.text \in Seq(Letters) /\ chunk.text # << >> /\ IsUtf8(chunk.text)

\* Streamed is what is shown of all that was sent.
LEMMA StreamedIs == Streamed = Shown(Emitted)
<1>1. \A i : ShownOf(Emitted[i]) =
        IF Emitted[i].kind \in {"Content", "Reasoning"}
        THEN [j \in DOMAIN Emitted[i].text |-> <<Emitted[i].kind, Emitted[i].text[j]>>]
        ELSE << >>
  BY DEF ShownOf, IsText, Titled
<1>2. [i \in DOMAIN Emitted |-> ShownOf(Emitted[i])]
        = [i \in DOMAIN Emitted |->
             IF Emitted[i].kind \in {"Content", "Reasoning"}
             THEN [j \in DOMAIN Emitted[i].text |-> <<Emitted[i].kind, Emitted[i].text[j]>>]
             ELSE << >>]
  BY <1>1
<1>3. QED BY <1>2 DEF Streamed, Shown

\* What a chunk shows is text under a heading.
LEMMA ShownOfType ==
  ASSUME NEW c, GoodChunk(c)
  PROVE  ShownOf(c) \in Seq(Glyphs)
<1>1. << >> \in Seq(Glyphs) OBVIOUS
<1>2. CASE IsText(c)
  <2>1. c.kind \in {"Content", "Reasoning"} /\ c.text \in Seq(Letters) BY <1>2 DEF IsText, GoodChunk
  <2>2. Titled(c.kind, c.text) \in Seq(Glyphs) BY <2>1, TitledIs
  <2>3. QED BY <1>2, <2>2 DEF ShownOf
<1>3. QED BY <1>1, <1>2 DEF ShownOf

\* One more chunk shows more.
LEMMA ShownMore ==
  ASSUME NEW e, IsSeq(e), \A i \in DOMAIN e : GoodChunk(e[i]), NEW c, GoodChunk(c)
  PROVE  /\ Shown(e) \in Seq(Glyphs) /\ ShownOf(c) \in Seq(Glyphs)
         /\ Shown(Append(e, c)) = Shown(e) \o ShownOf(c)
         /\ \A i \in DOMAIN Append(e, c) : GoodChunk(Append(e, c)[i])
<1> DEFINE n == Len(e)
           v == Append(e, c)
           f == [i \in 1 .. n |-> ShownOf(e[i])]
           g == [i \in 1 .. n + 1 |-> ShownOf(v[i])]
<1>1. n \in Nat /\ DOMAIN e = 1 .. n BY Facts
<1>2. IsSeq(v) /\ Len(v) = n + 1 /\ v[n + 1] = c /\ \A i \in 1 .. n : v[i] = e[i] BY AppendFacts
<1> HIDE DEF v, n
<1>3. DOMAIN v = 1 .. n + 1 BY <1>2, Facts
<1>4. \A i \in 1 .. n : ShownOf(e[i]) \in Seq(Glyphs) BY <1>1, ShownOfType
<1>5. ShownOf(c) \in Seq(Glyphs) BY ShownOfType
<1>6. f \in [1 .. n -> Seq(Glyphs)] BY <1>4
<1>7. g = [i \in 1 .. n + 1 |-> g[i]] /\ \A i \in 1 .. n : g[i] = f[i] BY <1>1, <1>2
<1>8. g[n + 1] = ShownOf(c) BY <1>1, <1>2
<1>9. Shown(e) = FlattenSeq(f) /\ Shown(v) = FlattenSeq(g) BY <1>1, <1>3 DEF Shown
<1> HIDE DEF f, g
<1>10. FlattenSeq(f) \in Seq(Glyphs) /\ FlattenSeq(g) = FlattenSeq(f) \o g[n + 1]
  BY ONLY <1>1, <1>5, <1>6, <1>7, <1>8, FlattenIndexed
<1>11. ASSUME NEW i \in 1 .. n + 1 PROVE GoodChunk(v[i])
  <2>1. CASE i = n + 1 BY <1>2, <2>1
  <2>2. CASE i \in 1 .. n BY <1>1, <1>2, <2>2
  <2>3. QED BY ONLY <1>1, <2>1, <2>2, i \in 1 .. n + 1
<1>12. QED BY <1>3, <1>5, <1>8, <1>9, <1>10, <1>11 DEF v

\* What shows no text shows nothing.
LEMMA ShownSilent ==
  ASSUME NEW e, IsSeq(e), \A i \in DOMAIN e : GoodChunk(e[i]), NEW c, ~IsText(c)
  PROVE  GoodChunk(c) /\ Shown(e) \in Seq(Glyphs) /\ Shown(Append(e, c)) = Shown(e)
<1>1. GoodChunk(c) BY DEF GoodChunk
<1>2. ShownOf(c) = << >> BY DEF ShownOf
<1>3. Shown(e) \in Seq(Glyphs) /\ Shown(Append(e, c)) = Shown(e) \o << >> BY <1>1, <1>2, ShownMore
<1>4. QED BY <1>1, <1>3

-----------------------------------------------------------------------------
(* What the parser's events say, word for word.                            *)

\* The heading of a body,
Title(header) == IF header.channel = "final" THEN "Content" ELSE "Reasoning"

\* and what the client is told of its text.
Says(header, text) ==
  IF text = << >> \/ header.recipient THEN << >> ELSE <<[kind |-> Title(header), text |-> text]>>

\* What closes a message adds nothing to the chunk of a delta.
LEMMA ChunksAre ==
  ASSUME NEW x, IsSeq(Mapped(x)), NEW y, IsSilent(y), NEW z, IsSilent(z)
  PROVE  /\ Chunks(<< >>) = << >>
         /\ Chunks(<<x>>) = Mapped(x) /\ Chunks(<<x, y>>) = Mapped(x) /\ Chunks(<<x, y, z>>) = Mapped(x)
<1> DEFINE m == Mapped(x)
<1>1. IsSeq(m) OBVIOUS
<1>2. Mapped(y) = << >> /\ Mapped(z) = << >> BY Mappings DEF IsSilent
<1> HIDE DEF m
<1>3. Join(m, << >>) = m BY <1>1, JoinsNothing
<1>4. Chunks(<< >>) = << >>
  <2>1. [i \in DOMAIN << >> |-> Mapped(<< >>[i])] = << >> OBVIOUS
  <2>2. Len(<< >>) = 0 OBVIOUS
  <2>3. Chunks(<< >>) = FlattenSeq(<< >>) BY <2>1, Zenon DEF Chunks
  <2>4. FlattenSeq(<< >>) = << >> BY <2>2, Zenon DEF FlattenSeq
  <2>5. QED BY <2>3, <2>4, Zenon
<1>5. Chunks(<<x>>) = m
  <2>1. <<x>> \in Seq({x}) /\ Len(<<x>>) = 1 /\ <<x>>[1] = x OBVIOUS
  <2>2. 1 \in 1 .. 3 OBVIOUS
  <2>3. Chunks(<<x>>) = Mapped(<<x>>[1]) BY ONLY <2>1, <2>2, ChunksOfFew, Zenon
  <2>4. QED BY <2>1, <2>3, Zenon DEF m
<1>6. Chunks(<<x, y>>) = m
  <2>1. <<x, y>> \in Seq({x, y}) /\ Len(<<x, y>>) = 2 /\ <<x, y>>[1] = x /\ <<x, y>>[2] = y OBVIOUS
  <2>2. 2 \in 1 .. 3 OBVIOUS
  <2>3. Chunks(<<x, y>>) = Join(Mapped(<<x, y>>[1]), Mapped(<<x, y>>[2]))
    BY ONLY <2>1, <2>2, ChunksOfFew, Zenon
  <2>4. Chunks(<<x, y>>) = Join(m, << >>) BY <2>1, <2>3, <1>2, Zenon DEF m
  <2>5. QED BY <1>3, <2>4
<1>7. Chunks(<<x, y, z>>) = m
  <2>1. /\ <<x, y, z>> \in Seq({x, y, z}) /\ Len(<<x, y, z>>) = 3
        /\ <<x, y, z>>[1] = x /\ <<x, y, z>>[2] = y /\ <<x, y, z>>[3] = z OBVIOUS
  <2>2. 3 \in 1 .. 3 OBVIOUS
  <2>3. Chunks(<<x, y, z>>) =
          Join(Join(Mapped(<<x, y, z>>[1]), Mapped(<<x, y, z>>[2])), Mapped(<<x, y, z>>[3]))
    BY ONLY <2>1, <2>2, ChunksOfFew, Zenon
  <2>4. Chunks(<<x, y, z>>) = Join(Join(m, << >>), << >>) BY <2>1, <2>3, <1>2, Zenon DEF m
  <2>5. QED BY <1>3, <2>4
<1>8. QED BY <1>1, <1>4, <1>5, <1>6, <1>7 DEF m

\* Deltas, with silent events behind them, say the text.
LEMMA DeltasSay ==
  ASSUME NEW header, NEW text, NEW y, IsSilent(y), NEW z, IsSilent(z)
  PROVE  /\ Chunks(Deltas(header, text)) = Says(header, text)
         /\ Chunks(Append(Deltas(header, text), y)) = Says(header, text)
         /\ Chunks(Join(Deltas(header, text), <<y, z>>)) = Says(header, text)
<1> DEFINE x == Delta(header.channel, text)
           d == Deltas(header, text)
           said == <<[kind |-> Title(header), text |-> text]>>
<1>1. Mapped(x) = said BY DEF Mapped, Delta, Title
<1>2. IsSeq(Mapped(x)) BY <1>1, OneIsSeq
<1>3. Mapped(y) = << >> BY Mappings DEF IsSilent
<1>4. IsSeq(Mapped(y)) BY <1>3, NothingIsSeq
<1>5. CASE text = << >> \/ header.recipient
  <2>1. d = << >> /\ Says(header, text) = << >> BY <1>5 DEF Deltas, Says
  <2> HIDE DEF d, x
  <2>2. Chunks(<< >>) = << >> /\ Chunks(<<y>>) = << >> /\ Chunks(<<y, z>>) = << >>
    BY ONLY <1>3, <1>4, IsSilent(z), ChunksAre, Zenon
  <2>3. Append(<< >>, y) = <<y>>
    <3>1. << >> \in Seq({y}) OBVIOUS
    <3>2. QED BY <3>1
  <2>4. Join(<< >>, <<y, z>>) = <<y, z>> BY TwoBehind, Zenon
  <2>5. QED BY ONLY <2>1, <2>2, <2>3, <2>4, Zenon DEF d
<1>6. CASE ~(text = << >> \/ header.recipient)
  <2>1. d = <<x>> /\ Says(header, text) = said BY <1>6 DEF Deltas, Says
  <2> HIDE DEF d, x, said
  <2>2. Chunks(<<x>>) = said /\ Chunks(<<x, y>>) = said /\ Chunks(<<x, y, z>>) = said
    <3>1. /\ Chunks(<<x>>) = Mapped(x) /\ Chunks(<<x, y>>) = Mapped(x)
          /\ Chunks(<<x, y, z>>) = Mapped(x)
      BY ONLY <1>2, IsSilent(y), IsSilent(z), ChunksAre, Zenon
    <3>2. QED BY ONLY <1>1, <3>1, Zenon
  <2>3. Append(<<x>>, y) = <<x, y>>
    <3>1. <<x, y>> = Append(<<x>>, y) OBVIOUS
    <3>2. QED BY <3>1, Zenon
  <2>4. Join(<<x>>, <<y, z>>) = <<x, y, z>> BY TwoBehind, Zenon
  <2>5. QED BY ONLY <2>1, <2>2, <2>3, <2>4, Zenon DEF d
<1>7. QED BY <1>5, <1>6

\* A tool call is one chunk.
LEMMA CallSays ==
  ASSUME NEW content, NEW reason
  PROVE  Chunks(<<ToolCall(content), Done(reason)>>) = <<[kind |-> "ToolCall", text |-> content]>>
<1> DEFINE x == ToolCall(content)
           y == Done(reason)
           m == <<[kind |-> "ToolCall", text |-> content]>>
<1>1. Mapped(x) = m /\ IsSilent(y) BY Mappings DEF ToolCall, Done, IsSilent
<1>2. IsSeq(m) BY OneIsSeq
<1> HIDE DEF x, y, m
<1>3. IsSeq(Mapped(x)) BY <1>1, <1>2
<1>4. Chunks(<<x, y>>) = Mapped(x) BY ONLY <1>1, <1>3, ChunksAre, Zenon
<1>5. QED BY <1>1, <1>4 DEF x, y, m

-----------------------------------------------------------------------------
(* Where the parser stands in what is written.                             *)

\* The tokens that no header goes on behind.
Marks == Delimiters \cup {"MESSAGE", "START"}

\* In a header, behind the START at s or in the first one.
HeaderFrom(w, s, e) ==
  /\ s = 0 \/ w[s] = "START"
  /\ \A k \in s + 1 .. e : w[k] \notin Marks

\* The parser has the tokens of a header that is not ended.
HeaderAt(w, p) ==
  /\ p.implicit \in BOOLEAN
  /\ \E s \in 0 .. Len(w) : HeaderFrom(w, s, Len(w)) /\ p.tokens = SubSeq(w, s + 1, Len(w))

\* In a body, behind the MESSAGE at m that ends the header from s.
BodyFrom(w, s, m, header) ==
  /\ HeaderFrom(w, s, m - 1) /\ HeaderOf(SubSeq(w, s + 1, m - 1), header)
  /\ w[m] = "MESSAGE"
  /\ \A k \in m + 1 .. Len(w) : w[k] \notin Special

\* Bytes that the parser, and the decoder, have not given out.
Unsaid(p) == p.pending \o p.held

\* The parser is in a body, of which it has everything, in what it has given out and in
\* what it has not.
ContentAt(w, p) ==
  /\ p.content \in Seq(Letters) /\ p.pending \in Partial /\ p.held \in Partial
  /\ \E m \in 1 .. Len(w) :
       /\ \E s \in 0 .. m - 1 : BodyFrom(w, s, m, p.header)
       /\ p.content \o Unsaid(p) = SpelledFrom(w, m)

\* Where the parser stands in what is written.
PlaceOf(w, p) ==
  /\ p.kind = "Header" => HeaderAt(w, p)
  /\ p.kind = "Content" => ContentAt(w, p)

\* A new parser stands before a header.
LEMMA PlaceFirst == PlaceOf(<< >>, NewParser)
<1>1. Len(<< >>) = 0 OBVIOUS
<1>2. SubSeq(<< >>, 0 + 1, Len(<< >>)) = << >>
  <2>1. << >> \in Seq({}) OBVIOUS
  <2>2. SubSeq(<< >>, 1, 0) = << >> BY <2>1
  <2>3. QED BY <1>1, <2>2
<1>3. HeaderFrom(<< >>, 0, Len(<< >>)) BY <1>1 DEF HeaderFrom
<1>4. /\ NewParser.kind = "Header" /\ NewParser.implicit = TRUE /\ NewParser.tokens = << >>
  BY DEF NewParser, Header
<1>5. 0 \in 0 .. Len(<< >>) BY <1>1
<1>6. HeaderAt(<< >>, NewParser) BY <1>2, <1>3, <1>4, <1>5 DEF HeaderAt
<1>7. QED BY <1>4, <1>6 DEF PlaceOf

\* Special tokens are not read.
LEMMA SegmentOfSpecial ==
  ASSUME NEW w, NEW i, w[i] \in Special
  PROVE  SegmentIn(w, i) = << >>
BY DEF SegmentIn, BodyIn

\* Neither are headers.
LEMMA SegmentOfHeader ==
  ASSUME NEW w \in Seq(Tokens), NEW token \in Tokens, NEW p, HeaderAt(w, p)
  PROVE  SegmentIn(Append(w, token), Len(w) + 1) = << >>
<1> DEFINE n == Len(w)
           v == Append(w, token)
           l == LastIn(v, n + 1, Special)
<1>1. n \in Nat /\ \A i \in 1 .. n : v[i] = w[i] OBVIOUS
<1>2. PICK s \in 0 .. n : HeaderFrom(w, s, n) BY DEF HeaderAt
<1>3. s = 0 \/ w[s] = "START" BY <1>2 DEF HeaderFrom
<1>4. \A k \in s + 1 .. n : w[k] \notin Marks BY <1>2 DEF HeaderFrom
<1>5. n + 1 \in Nat \ {0} BY <1>1
<1> HIDE DEF n, v
<1>6. /\ l \in 0 .. (n + 1) - 1
      /\ \A k \in l + 1 .. (n + 1) - 1 : v[k] \notin Special
  BY ONLY <1>5, LastInIsLast
<1> HIDE DEF l
<1>7. (n + 1) - 1 = n BY <1>1
<1>8. l # 0 => v[l] # "MESSAGE"
  <2> SUFFICES ASSUME l # 0, v[l] = "MESSAGE" PROVE FALSE OBVIOUS
  <2>1. l \in 1 .. n /\ w[l] = "MESSAGE" BY <1>1, <1>6, <1>7
  <2>2. l \notin s + 1 .. n
    <3>1. "MESSAGE" \in Marks BY DEF Marks
    <3>2. QED BY <1>4, <2>1, <3>1
  <2>3. l # s \/ s = 0 BY <1>3, <2>1
  <2>4. s # 0 /\ l < s BY <1>1, <2>1, <2>2, <2>3
  <2>5. s \in l + 1 .. n /\ s \in 1 .. n BY <1>1, <2>1, <2>4
  <2>6. v[s] = "START" /\ "START" \in Special BY <1>1, <1>3, <2>4, <2>5 DEF Special
  <2>7. QED BY <1>6, <1>7, <2>5, <2>6
<1>9. ~BodyIn(v, n + 1) BY <1>8 DEF BodyIn, l
<1>10. QED BY <1>9 DEF SegmentIn, v, n

\* A body is read under the title of its channel, unless it is addressed to a tool.
LEMMA SegmentOfBody ==
  ASSUME NEW w \in Seq(Tokens), NEW token \in Tokens, token \notin Special, NEW header,
         NEW m \in 1 .. Len(w), NEW s \in 0 .. m - 1, BodyFrom(w, s, m, header)
  PROVE  SegmentIn(Append(w, token), Len(w) + 1)
           = IF header.recipient THEN << >> ELSE Titled(Title(header), Spelling(token))
<1> DEFINE n == Len(w)
           v == Append(w, token)
           tokens == SubSeq(w, s + 1, m - 1)
<1>1. n \in Nat /\ v[n + 1] = token /\ \A i \in 1 .. n : v[i] = w[i] OBVIOUS
<1>2. n + 1 \in Nat \ {0} /\ (n + 1) - 1 = n /\ m \in 0 .. (n + 1) - 1 /\ s \in 0 .. (n + 1) - 1
      /\ m \in Nat /\ s \in Nat /\ m <= n /\ s < m
  BY <1>1
<1>3. /\ s = 0 \/ w[s] = "START"
      /\ \A k \in s + 1 .. m - 1 : w[k] \notin Marks
      /\ HeaderOf(tokens, header)
      /\ w[m] = "MESSAGE"
      /\ \A k \in m + 1 .. n : w[k] \notin Special
  BY DEF BodyFrom, HeaderFrom
<1>4. DOMAIN tokens = 1 .. m - 1 - s /\ \A j \in 1 .. m - 1 - s : tokens[j] = w[s + j]
  <2> DEFINE a == s + 1
             b == m - 1
  <2>1. a \in 1 .. b + 1 /\ b \in 0 .. Len(w) BY <1>2
  <2> HIDE DEF a, b
  <2>2. /\ DOMAIN SubSeq(w, a, b) = 1 .. b - a + 1
        /\ \A j \in 1 .. b - a + 1 : SubSeq(w, a, b)[j] = w[a + j - 1]
    BY ONLY <2>1, w \in Seq(Tokens)
  <2>3. b - a + 1 = m - 1 - s /\ \A j \in 1 .. m - 1 - s : a + j - 1 = s + j
    <3>1. b = m - 1 /\ a = s + 1 BY DEF a, b
    <3>2. QED BY ONLY <3>1, <1>2
  <2>4. tokens = SubSeq(w, a, b) BY DEF a, b
  <2> HIDE DEF tokens
  <2>5. QED BY ONLY <2>2, <2>3, <2>4
<1> HIDE DEF n, v, tokens
<1>5. /\ v[m] = "MESSAGE" /\ (s = 0 \/ v[s] = "START")
      /\ \A k \in m + 1 .. n : v[k] \notin Special
      /\ \A k \in s + 1 .. m - 1 : v[k] \notin Marks
  <2>1. m \in 1 .. n /\ (s # 0 => s \in 1 .. n) BY <1>1, <1>2
  <2>2. \A k \in m + 1 .. n : k \in 1 .. n BY <1>1, <1>2
  <2>3. \A k \in s + 1 .. m - 1 : k \in 1 .. n BY <1>1, <1>2
  <2>4. QED BY <1>1, <1>3, <2>1, <2>2, <2>3
<1>6. LastIn(v, n + 1, Special) = m /\ LastIn(v, n + 1, {"MESSAGE"}) = m
  <2>1. "MESSAGE" \in Special BY DEF Special
  <2>2. v[m] \in Special /\ v[m] \in {"MESSAGE"} BY <1>5, <2>1
  <2>3. \A k \in m + 1 .. (n + 1) - 1 : v[k] \notin Special /\ v[k] \notin {"MESSAGE"} BY <1>2, <1>5, <2>1
  <2>4. QED BY ONLY <1>2, <2>2, <2>3, LastInIs
<1>7. LastIn(v, n + 1, {"START"}) = s
  <2>1. s = 0 \/ v[s] \in {"START"} BY <1>5
  <2>2. ASSUME NEW k \in s + 1 .. (n + 1) - 1 PROVE v[k] \notin {"START"}
    <3>1. k \in s + 1 .. m - 1 \/ k = m \/ k \in m + 1 .. n BY <1>1, <1>2, <2>2
    <3>2. "START" \in Special /\ "START" \in Marks BY DEF Special, Marks
    <3>3. CASE k \in s + 1 .. m - 1
      <4>1. v[k] \notin Marks BY <1>5, <3>3
      <4>2. QED BY <3>2, <4>1
    <3>4. CASE k = m BY <1>5, <3>4
    <3>5. CASE k \in m + 1 .. n
      <4>1. v[k] \notin Special BY <1>5, <3>5
      <4>2. QED BY <3>2, <4>1
    <3>6. QED BY <3>1, <3>3, <3>4, <3>5
  <2>3. QED BY ONLY <1>2, <2>1, <2>2, LastInIs
<1>8. BodyIn(v, n + 1) BY <1>1, <1>2, <1>5, <1>6 DEF BodyIn
<1>9. AddressedIn(v, n + 1) <=> header.recipient
  <2>1. AddressedIn(v, n + 1) <=> \E j \in s + 1 .. m : v[j] = "to" BY <1>6, <1>7 DEF AddressedIn
  <2>2. header.recipient <=> \E j \in 1 .. m - 1 - s : tokens[j] = "to" BY <1>3, <1>4 DEF HeaderOf
  <2>3. ASSUME NEW j \in s + 1 .. m, v[j] = "to" PROVE \E i \in 1 .. m - 1 - s : tokens[i] = "to"
    <3>1. j # m BY <1>5, <2>3
    <3>2. j - s \in 1 .. m - 1 - s /\ s + (j - s) = j /\ j \in 1 .. n BY <1>1, <1>2, <2>3, <3>1
    <3>3. tokens[j - s] = "to" BY <1>1, <1>4, <2>3, <3>2
    <3>4. QED BY <3>2, <3>3
  <2>4. ASSUME NEW j \in 1 .. m - 1 - s, tokens[j] = "to" PROVE \E i \in s + 1 .. m : v[i] = "to"
    <3>1. s + j \in s + 1 .. m /\ s + j \in 1 .. n BY <1>1, <1>2
    <3>2. v[s + j] = "to" BY <1>1, <1>4, <2>4, <3>1
    <3>3. QED BY <3>1, <3>2
  <2>5. QED BY <2>1, <2>2, <2>3, <2>4
<1>10. KindIn(v, n + 1) = Title(header)
  <2>1. PICK mark \in 1 .. m - 1 - s :
          /\ mark + 1 \in 1 .. m - 1 - s /\ tokens[mark] = "CHANNEL"
          /\ \A j \in 1 .. m - 1 - s : tokens[j] = "CHANNEL" => j = mark
          /\ header.channel = tokens[mark + 1]
    BY <1>3, <1>4 DEF HeaderOf
  <2> DEFINE c == s + mark
  <2>2. /\ c \in 0 .. (n + 1) - 1 /\ c \in 1 .. n /\ c + 1 \in 1 .. n /\ c + 1 = s + (mark + 1)
        /\ c > s /\ c + 1 < m
    BY <1>1, <1>2, <2>1
  <2>3. v[c] = "CHANNEL" /\ v[c + 1] = header.channel
    <3>1. w[c] = tokens[mark] /\ w[s + (mark + 1)] = tokens[mark + 1] BY <1>4, <2>1
    <3>2. QED BY <1>1, <2>1, <2>2, <3>1
  <2>4. ASSUME NEW k \in c + 1 .. (n + 1) - 1 PROVE v[k] # "CHANNEL"
    <3>1. k \in s + 1 .. m - 1 \/ k = m \/ k \in m + 1 .. n BY <1>1, <1>2, <2>2, <2>4
    <3>2. CASE k \in s + 1 .. m - 1
      <4>1. k - s \in 1 .. m - 1 - s /\ s + (k - s) = k /\ k - s # mark /\ k \in 1 .. n
        BY <1>1, <1>2, <2>1, <2>2, <2>4, <3>2
      <4>2. tokens[k - s] # "CHANNEL" BY <2>1, <4>1
      <4>3. tokens[k - s] = v[k] BY <1>1, <1>4, <4>1
      <4>4. QED BY <4>2, <4>3
    <3>3. CASE k = m BY <1>5, <3>3
    <3>4. CASE k \in m + 1 .. n BY <1>5, <3>4 DEF Special
    <3>5. QED BY <3>1, <3>2, <3>3, <3>4
  <2> HIDE DEF c
  <2>5. v[c] \in {"CHANNEL"} /\ \A k \in c + 1 .. (n + 1) - 1 : v[k] \notin {"CHANNEL"} BY <2>3, <2>4
  <2>6. LastIn(v, n + 1, {"CHANNEL"}) = c BY ONLY <1>2, <2>2, <2>5, LastInIs
  <2>7. QED BY <2>3, <2>6 DEF KindIn, Title
<1>11. SegmentIn(v, n + 1) = IF header.recipient THEN << >> ELSE Titled(Title(header), Spelling(token))
  BY <1>1, <1>8, <1>9, <1>10 DEF SegmentIn
<1>12. QED BY <1>11 DEF v, n

-----------------------------------------------------------------------------
(* A step of the parser accounts for all text.                             *)

\* What is written, but neither shown nor lost.
Unread(p) ==
  IF p.kind = "Content" /\ ~p.header.recipient THEN Titled(Title(p.header), Unsaid(p)) ELSE << >>

\* At most one chunk, and what it shows.
Showing(chunks, told) ==
  \/ chunks = << >> /\ told = << >>
  \/ \E c : chunks = <<c>> /\ GoodChunk(c) /\ told = ShownOf(c)

\* What could not be shown before, and the token that is new, are shown or kept.
Accounts(segment, p, q, chunks) ==
  \E told \in Seq(Glyphs) : \E read \in Seq(Glyphs) :
    /\ Showing(chunks, told) /\ Fits(told, read)
    /\ Unread(p) \o segment = read \o Unread(q)

\* Nothing new, nothing shown, nothing kept.
LEMMA NothingToAccount ==
  ASSUME NEW p, Unread(p) = << >>, NEW q, Unread(q) = << >>
  PROVE  Accounts(<< >>, p, q, << >>)
<1> DEFINE e == << >>
<1>1. e \in Seq(Glyphs) /\ Showing(e, e) BY DEF Showing
<1>2. e \o e = e
  <2>1. IsSeq(e) BY NothingIsSeq
  <2> HIDE DEF e
  <2>2. QED BY <2>1, JoinFacts DEF e
<1>3. Fits(e, e) BY FitsSame
<1> HIDE DEF e
<1>4. Unread(p) = e /\ Unread(q) = e BY DEF e
<1>5. Unread(p) \o e = e \o Unread(q) BY ONLY <1>2, <1>4, Zenon
<1>6. Accounts(e, p, q, e) BY ONLY <1>1, <1>3, <1>5, Zenon DEF Accounts
<1>7. QED BY <1>6 DEF e

\* What a text says is shown under its title, unless it is addressed to a tool.
LEMMA SaysShows ==
  ASSUME NEW header, NEW text \in Seq(Letters), IsUtf8(text)
  PROVE  LET told == IF header.recipient THEN << >> ELSE Titled(Title(header), text)
         IN  told \in Seq(Glyphs) /\ Showing(Says(header, text), told)
<1> DEFINE titled == Titled(Title(header), text)
           c == [kind |-> Title(header), text |-> text]
           e == << >>
<1>0. e \in Seq(Glyphs) /\ Showing(e, e) BY DEF Showing
<1>1. Title(header) \in {"Content", "Reasoning"} BY DEF Title
<1>2. titled \in Seq(Glyphs) /\ Len(titled) = Len(text) BY <1>1, TitledIs
<1>3. CASE header.recipient
  <2>1. Says(header, text) = e BY <1>3 DEF Says
  <2>2. QED BY <1>0, <1>3, <2>1
<1>4. CASE ~header.recipient /\ text = << >>
  <2>1. Says(header, text) = e BY <1>4 DEF Says
  <2>2. Len(titled) = 0
    <3>1. Len(<< >>) = 0 OBVIOUS
    <3>2. QED BY <1>2, <1>4, <3>1
  <2> HIDE DEF titled
  <2>3. titled = e BY <1>2, <2>2
  <2> HIDE DEF e
  <2>4. QED BY <1>0, <1>4, <2>1, <2>3 DEF titled
<1>5. CASE ~header.recipient /\ text # << >>
  <2>1. Says(header, text) = <<c>> BY <1>5 DEF Says
  <2>2. c.kind = Title(header) /\ c.text = text OBVIOUS
  <2> HIDE DEF c, e
  <2>3. IsText(c) /\ GoodChunk(c) BY <1>1, <1>5, <2>2 DEF GoodChunk, IsText
  <2>4. ShownOf(c) = titled BY <2>2, <2>3 DEF ShownOf
  <2> HIDE DEF titled
  <2>5. Showing(Says(header, text), titled) BY <2>1, <2>3, <2>4 DEF Showing
  <2>6. QED BY <1>2, <1>5, <2>5 DEF titled
<1>6. QED BY <1>3, <1>4, <1>5

\* A token of text in a body leaves it a body.
LEMMA BodyGoesOn ==
  ASSUME NEW w \in Seq(Tokens), NEW token \in Tokens, token \notin Special, NEW header,
         NEW m \in 1 .. Len(w), NEW s \in 0 .. m - 1, BodyFrom(w, s, m, header)
  PROVE  m \in 1 .. Len(Append(w, token)) /\ BodyFrom(Append(w, token), s, m, header)
<1> DEFINE n == Len(w)
           v == Append(w, token)
           b == m - 1
           a == s + 1
<1>1. n \in Nat /\ Len(v) = n + 1 /\ v \in Seq(Tokens) /\ v[n + 1] = token /\ \A i \in 1 .. n : v[i] = w[i] OBVIOUS
<1>2. m \in Nat /\ s \in Nat /\ m <= n /\ m >= 1 /\ s < m BY <1>1
<1>3. SubSeq(v, a, b) = SubSeq(w, a, b)
  <2>1. /\ a \in Nat /\ b \in Nat /\ a >= 1 /\ b <= n /\ \A i \in a .. b : i \in 1 .. n
    BY <1>1, <1>2
  <2> HIDE DEF n, v, a, b
  <2>2. \A i \in a .. b : v[i] = w[i] BY <1>1, <2>1
  <2>3. /\ SubSeq(v, a, b) = [i \in 1 .. b - a + 1 |-> v[a + i - 1]]
        /\ SubSeq(w, a, b) = [i \in 1 .. b - a + 1 |-> w[a + i - 1]]
    BY <1>1, <2>1 DEF n
  <2>4. \A i \in 1 .. b - a + 1 : a + i - 1 \in a .. b BY ONLY <2>1
  <2>5. \A i \in 1 .. b - a + 1 : v[a + i - 1] = w[a + i - 1] BY ONLY <2>2, <2>4, Zenon
  <2>6. [i \in 1 .. b - a + 1 |-> v[a + i - 1]] = [i \in 1 .. b - a + 1 |-> w[a + i - 1]]
    BY ONLY <2>5, Zenon
  <2>7. QED BY ONLY <2>3, <2>6, Zenon
<1>4. SubSeq(v, s + 1, m - 1) = SubSeq(w, s + 1, m - 1) BY <1>3
<1> HIDE DEF n, v
<1>5. /\ s = 0 \/ w[s] = "START"
      /\ \A k \in s + 1 .. m - 1 : w[k] \notin Marks
      /\ HeaderOf(SubSeq(w, s + 1, m - 1), header)
      /\ w[m] = "MESSAGE"
      /\ \A k \in m + 1 .. n : w[k] \notin Special
  BY DEF BodyFrom, HeaderFrom, n
<1>6. (s # 0 => s \in 1 .. n) /\ m \in 1 .. n BY <1>1, <1>2
<1>7. \A k \in s + 1 .. m - 1 : k \in 1 .. n BY <1>1, <1>2
<1>8. HeaderFrom(v, s, m - 1) BY <1>1, <1>5, <1>6, <1>7 DEF HeaderFrom
<1>9. ASSUME NEW k \in m + 1 .. n + 1 PROVE v[k] \notin Special
  <2>1. CASE k = n + 1 BY <1>1, <2>1
  <2>2. CASE k \in m + 1 .. n
    <3>1. k \in 1 .. n BY <1>1, <1>2, <2>2
    <3>2. QED BY <1>1, <1>5, <2>2, <3>1
  <2>3. QED BY <1>1, <1>2, <2>1, <2>2
<1>10. BodyFrom(v, s, m, header) BY <1>1, <1>4, <1>5, <1>6, <1>8, <1>9 DEF BodyFrom
<1>11. m \in 1 .. n + 1 BY <1>1, <1>2
<1>12. QED BY <1>1, <1>10, <1>11 DEF v

\* A sequence over a set is a sequence.
LEMMA SeqIsSeq ==
  ASSUME NEW T, NEW s \in Seq(T)
  PROVE  IsSeq(s)
BY DEF IsSeq

\* The beginning of a character is text,
LEMMA PartialLetters ==
  ASSUME NEW a \in Partial
  PROVE  a \in Seq(Letters) /\ a \in Seq(Tokens) /\ IsSeq(a)
<1>1. "lead" \in Tokens /\ "lead" \in Letters BY DEF Letters, Tokens, Halves
<1>2. QED BY <1>1, PartialIs, SeqIsSeq

\* and so is what tokens spell.
LEMMA TokensLetters ==
  ASSUME NEW s \in Seq(Tokens)
  PROVE  s \in Seq(Letters) /\ IsSeq(s)
<1>1. Tokens \subseteq Letters BY DEF Letters
<1>2. s \in Seq(Letters) BY <1>1
<1>3. QED BY <1>2, SeqIsSeq

\* Concatenation associates, as a fact with a name.
IsRegrouped(s, t, u) == (s \o t) \o u = s \o (t \o u)

\* It does of all sequences.
LEMMA Associates ==
  ASSUME NEW s, NEW t, NEW u, IsSeq(s), IsSeq(t), IsSeq(u)
  PROVE  IsRegrouped(s, t, u)
BY JoinFacts DEF IsRegrouped

\* Concatenation stays within the set.
LEMMA JoinTyped ==
  ASSUME NEW T, NEW s \in Seq(T), NEW t \in Seq(T)
  PROVE  s \o t \in Seq(T)
OBVIOUS

\* A token of text.
LEMMA TextStep ==
  ASSUME NEW w \in Seq(Tokens), NEW p, p.kind = "Content", ContentAt(w, p),
         NEW token \in Tokens, token \notin Special,
         NEW result \in Process(p, token), result.ok
  PROVE  /\ result.parser.kind = "Content"
         /\ ContentAt(Append(w, token), result.parser)
         /\ Accounts(SegmentIn(Append(w, token), Len(w) + 1), p, result.parser, Chunks(result.events))
         /\ \A i \in DOMAIN Chunks(result.events) : Chunks(result.events)[i].kind # "ToolCall"
<1> DEFINE v == Append(w, token)
           spelled == Spelling(token)
           Bytes(pushed) == p.pending \o pushed.released
<1>1. result \in InContent(p, token) BY DEF Process
<1>2. token \notin Delimiters BY DEF Special
<1>3. PICK pushed \in DecoderPush(p.held, token) :
        result = LET bytes == p.pending \o pushed.released
                     text  == ValidPrefix(bytes)
                 IN  IF IsBroken(bytes) THEN Err(Failed)
                     ELSE Ok(Content(p.header, p.content \o text, ValidRest(bytes), pushed.held),
                             Deltas(p.header, text))
  BY <1>1, <1>2 DEF InContent
<1> DEFINE bytes == Bytes(pushed)
           text == ValidPrefix(bytes)
           rest == ValidRest(bytes)
           kept == pushed.held
           q == Content(p.header, p.content \o text, rest, kept)
<1>4. ~IsBroken(bytes) /\ result = Ok(q, Deltas(p.header, text)) BY <1>3 DEF Err
<1>5. result.parser = q /\ result.events = Deltas(p.header, text) BY <1>4 DEF Ok
<1>6. q.kind = "Content" /\ q.header = p.header /\ q.content = p.content \o text /\ q.pending = rest /\ q.held = kept
  BY DEF Content
<1>7. p.content \in Seq(Letters) /\ p.pending \in Partial /\ p.held \in Partial BY DEF ContentAt
<1>8. PICK m \in 1 .. Len(w) :
        /\ \E s \in 0 .. m - 1 : BodyFrom(w, s, m, p.header)
        /\ p.content \o Unsaid(p) = SpelledFrom(w, m)
  BY DEF ContentAt
<1>9. PICK s \in 0 .. m - 1 : BodyFrom(w, s, m, p.header) BY <1>8
<1>10. spelled \in Seq(Tokens) BY Spelt
<1>11. pushed.released \in Seq(Tokens) /\ kept \in Partial /\ pushed.released \o kept = p.held \o spelled
  BY <1>7, Pushing
<1>12. bytes \in Seq(Tokens)
  <2>1. p.pending \in Seq(Tokens) BY <1>7, PartialLetters
  <2>2. QED BY <1>11, <2>1, JoinTyped
<1> HIDE DEF v, q, spelled, Bytes
<1>13. text \in Seq(Tokens) /\ rest \in Partial /\ text \o rest = bytes /\ IsUtf8(text)
  <2>1. "lead" \in Tokens BY DEF Tokens, Halves
  <2> HIDE DEF bytes
  <2>2. QED BY ONLY <1>4, <1>12, <2>1, ValidParts
<1>14. bytes = p.pending \o pushed.released BY DEF Bytes
<1> HIDE DEF text, rest, kept, bytes
<1>15. text \in Seq(Letters) /\ spelled \in Seq(Letters) BY <1>10, <1>13, TokensLetters
<1>16. /\ p.pending \in Seq(Letters) /\ p.held \in Seq(Letters) /\ rest \in Seq(Letters) /\ kept \in Seq(Letters)
  BY <1>7, <1>11, <1>13, PartialLetters
<1>17. Unsaid(p) = p.pending \o p.held /\ Unsaid(q) = rest \o kept BY <1>6, Zenon DEF Unsaid
<1>18. Unsaid(p) \in Seq(Letters) /\ Unsaid(q) \in Seq(Letters) BY ONLY <1>16, <1>17, JoinTyped
<1>19. Unsaid(p) \o spelled = text \o Unsaid(q)
  <2>1. /\ IsSeq(p.pending) /\ IsSeq(p.held) /\ IsSeq(spelled) /\ IsSeq(pushed.released)
        /\ IsSeq(kept) /\ IsSeq(text) /\ IsSeq(rest)
    BY <1>10, <1>11, <1>13, <1>15, <1>16, SeqIsSeq
  <2>2. (p.pending \o p.held) \o spelled = text \o (rest \o kept)
    <3>1. IsRegrouped(p.pending, p.held, spelled) BY ONLY <2>1, Associates, Zenon
    <3>2. IsRegrouped(p.pending, pushed.released, kept) BY ONLY <2>1, Associates, Zenon
    <3>3. IsRegrouped(text, rest, kept) BY ONLY <2>1, Associates, Zenon
    <3>4. QED BY ONLY <1>11, <1>13, <1>14, <3>1, <3>2, <3>3, Zenon DEF IsRegrouped
  <2>3. QED BY ONLY <1>17, <2>2, Zenon
<1>20. ContentAt(v, q)
  <2>1. m \in 1 .. Len(v) /\ BodyFrom(v, s, m, p.header) BY <1>9, BodyGoesOn DEF v
  <2>2. SpelledFrom(v, m) = SpelledFrom(w, m) \o spelled
    <3>1. m \in 0 .. Len(w) OBVIOUS
    <3>2. QED BY <3>1, SpelledMore DEF v, spelled
  <2>3. /\ IsSeq(p.content) /\ IsSeq(Unsaid(p)) /\ IsSeq(spelled) /\ IsSeq(text) /\ IsSeq(Unsaid(q))
    BY <1>7, <1>15, <1>18, SeqIsSeq
  <2>4. IsRegrouped(p.content, Unsaid(p), spelled) BY ONLY <2>3, Associates, Zenon
  <2>5. IsRegrouped(p.content, text, Unsaid(q)) BY ONLY <2>3, Associates, Zenon
  <2>6. (p.content \o text) \o Unsaid(q) = SpelledFrom(v, m)
    BY ONLY <1>8, <1>19, <2>2, <2>4, <2>5, Zenon DEF IsRegrouped
  <2>7. q.content \o Unsaid(q) = SpelledFrom(v, m) BY ONLY <1>6, <2>6, Zenon
  <2>8. q.content \in Seq(Letters) BY ONLY <1>6, <1>7, <1>15, JoinTyped
  <2>9. q.pending \in Partial /\ q.held \in Partial BY ONLY <1>6, <1>11, <1>13, Zenon
  <2>10. BodyFrom(v, s, m, q.header) BY ONLY <1>6, <2>1, Zenon
  <2>11. QED BY ONLY <1>9, <2>1, <2>7, <2>8, <2>9, <2>10, Zenon DEF ContentAt
<1> DEFINE segment == SegmentIn(v, Len(w) + 1)
           title == Title(p.header)
           told == IF p.header.recipient THEN << >> ELSE Titled(title, text)
<1>21. segment = IF p.header.recipient THEN << >> ELSE Titled(title, spelled)
  BY <1>9, SegmentOfBody DEF v, spelled
<1>22. told \in Seq(Glyphs) /\ Showing(Says(p.header, text), told)
  BY ONLY <1>13, <1>15, SaysShows
<1>23. title \in {"Content", "Reasoning"} BY DEF Title
<1>24. Unread(p) \o segment = told \o Unread(q)
  <2> HIDE DEF title, segment
  <2>1. CASE p.header.recipient
    <3>1. Unread(p) = << >> /\ Unread(q) = << >> /\ segment = << >> /\ told = << >>
      BY <1>6, <1>21, <2>1 DEF Unread
    <3> HIDE DEF told
    <3>2. QED BY ONLY <3>1, Zenon
  <2>2. CASE ~p.header.recipient
    <3>1. /\ Unread(p) = Titled(title, Unsaid(p)) /\ Unread(q) = Titled(title, Unsaid(q))
          /\ segment = Titled(title, spelled) /\ told = Titled(title, text)
      BY <1>6, <1>21, <2>2 DEF Unread, title
    <3> HIDE DEF told
    <3>2. Titled(title, Unsaid(p) \o spelled) = Titled(title, Unsaid(p)) \o Titled(title, spelled)
      BY ONLY <1>15, <1>18, <1>23, TitledJoin
    <3>3. Titled(title, text \o Unsaid(q)) = Titled(title, text) \o Titled(title, Unsaid(q))
      BY ONLY <1>15, <1>18, <1>23, TitledJoin
    <3>4. QED BY ONLY <1>19, <3>1, <3>2, <3>3, Zenon
  <2>3. QED BY <2>1, <2>2
<1>25. Chunks(result.events) = Says(p.header, text)
  <2> DEFINE y == Done("Return")
  <2>1. IsSilent(y) BY DEF Done, IsSilent
  <2> HIDE DEF y
  <2>2. Chunks(Deltas(p.header, text)) = Says(p.header, text) BY ONLY <2>1, DeltasSay, Zenon
  <2>3. QED BY ONLY <1>5, <2>2, Zenon
<1>26. Fits(told, told) BY FitsSame
<1>27. \A i \in DOMAIN Says(p.header, text) : Says(p.header, text)[i].kind # "ToolCall"
  BY <1>23 DEF Says
<1> HIDE DEF told, segment
<1>28. Accounts(segment, p, q, Chunks(result.events))
  BY ONLY <1>22, <1>24, <1>25, <1>26, Zenon DEF Accounts
<1>29. QED BY ONLY <1>5, <1>6, <1>20, <1>25, <1>27, <1>28, Zenon DEF segment, v

\* The arguments of a call as they are written, and as they are handed over.
CallBody(w) ==
  FlattenSeq([j \in 1 .. Len(w) - 1 - LastIn(w, Len(w), {"MESSAGE"}) |->
    Spelling(w[LastIn(w, Len(w), {"MESSAGE"}) + j])])

\* A text that is all of a body.
Whole(text, body) == Len(text) = Len(body) /\ \A j \in DOMAIN body : Matches(text[j], body[j])

\* A body is all of itself.
LEMMA WholeSame == ASSUME NEW s PROVE Whole(s, s)
BY DEF Whole, Matches

\* All of two parts is all of both.
LEMMA WholeJoin ==
  ASSUME NEW s \in Seq(Letters), NEW r \in Seq(Letters), Whole(s, r),
         NEW t \in Seq(Letters), NEW u \in Seq(Letters), Whole(t, u)
  PROVE  Whole(s \o t, r \o u)
<1> DEFINE m == Len(s)
           n == Len(t)
           st == s \o t
           ru == r \o u
<1>1. m \in Nat /\ n \in Nat /\ Len(r) = m /\ Len(u) = n BY DEF Whole
<1>2. /\ Len(st) = m + n /\ Len(ru) = m + n /\ DOMAIN ru = 1 .. m + n
      /\ \A j \in 1 .. m : st[j] = s[j] /\ ru[j] = r[j]
      /\ \A j \in m + 1 .. m + n : st[j] = t[j - m] /\ ru[j] = u[j - m]
  BY <1>1
<1>3. /\ \A j \in 1 .. m : Matches(s[j], r[j])
      /\ \A j \in 1 .. n : Matches(t[j], u[j])
  BY <1>1 DEF Whole
<1> HIDE DEF m, n, st, ru
<1>4. ASSUME NEW j \in 1 .. m + n
      PROVE  Matches(st[j], ru[j])
  <2>0. m \in Nat /\ n \in Nat BY <1>1
  <2>1. CASE j \in 1 .. m
    <3>1. st[j] = s[j] /\ ru[j] = r[j] BY <1>2, <2>1
    <3>2. QED BY <1>3, <2>1, <3>1
  <2>2. CASE j \in m + 1 .. m + n
    <3>1. j - m \in 1 .. n BY ONLY <2>0, <2>2
    <3>2. st[j] = t[j - m] /\ ru[j] = u[j - m] BY <1>2, <2>2
    <3>3. QED BY <1>3, <3>1, <3>2
  <2>3. QED BY ONLY <2>0, <2>1, <2>2, j \in 1 .. m + n
<1>5. QED BY <1>2, <1>4 DEF Whole, st, ru

\* Under the same heading it fits what is read of the body.
LEMMA WholeFits ==
  ASSUME NEW kind \in {"Content", "Reasoning"}, NEW s \in Seq(Letters), NEW t \in Seq(Letters), Whole(s, t)
  PROVE  Fits(Titled(kind, s), Titled(kind, t))
<1> DEFINE a == Titled(kind, s)
           b == Titled(kind, t)
           n == Len(s)
<1>1. /\ Len(a) = n /\ \A j \in 1 .. n : a[j][1] = kind /\ a[j][2] = s[j] BY TitledIs
<1>2. /\ Len(b) = Len(t) /\ \A j \in 1 .. Len(t) : b[j][1] = kind /\ b[j][2] = t[j] BY TitledIs
<1>3. Len(t) = n /\ DOMAIN t = 1 .. n /\ \A j \in 1 .. n : Matches(s[j], t[j]) BY DEF Whole
<1> HIDE DEF a, b, n
<1>4. Fits(a, b) BY <1>1, <1>2, <1>3 DEF Fits
<1>5. QED BY <1>4 DEF a, b

\* What a decoder that is finished gives for what it held.
LEMMA FinishedWhole ==
  ASSUME NEW held, NEW tail,
         (held = << >> /\ tail = << >>) \/ (held = <<"lead">> /\ tail = <<"replacement">>)
  PROVE  held \in Seq(Letters) /\ tail \in Seq(Letters) /\ Whole(tail, held)
<1>1. CASE held = << >> /\ tail = << >> BY <1>1, WholeSame
<1>2. CASE held = <<"lead">> /\ tail = <<"replacement">>
  <2> DEFINE a == "lead"
             b == "replacement"
  <2>1. a \in Letters /\ b \in Letters BY DEF Letters, Tokens, Halves
  <2>2. Matches(b, a) BY DEF Matches
  <2>3. held = <<a>> /\ tail = <<b>> BY <1>2
  <2> HIDE DEF a, b
  <2>4. <<a>> \in Seq(Letters) /\ <<b>> \in Seq(Letters) BY <2>1
  <2>5. Len(<<a>>) = 1 /\ Len(<<b>>) = 1 /\ DOMAIN <<a>> = {1} /\ <<a>>[1] = a /\ <<b>>[1] = b OBVIOUS
  <2>6. Whole(<<b>>, <<a>>) BY ONLY <2>2, <2>5 DEF Whole
  <2>7. QED BY ONLY <2>3, <2>4, <2>6, Zenon
<1>3. QED BY <1>1, <1>2

\* The body of a call, when the CALL is written.
LEMMA CallBodyIs ==
  ASSUME NEW w \in Seq(Tokens), NEW header, NEW m \in 1 .. Len(w), NEW s \in 0 .. m - 1,
         BodyFrom(w, s, m, header), NEW token
  PROVE  CallBody(Append(w, token)) = SpelledFrom(w, m)
<1> DEFINE n == Len(w)
           v == Append(w, token)
<1>1. n \in Nat /\ m \in 1 .. n OBVIOUS
<1>2. Len(v) = n + 1 /\ \A i \in 1 .. n : v[i] = w[i]
  <2>1. IsSeq(w) BY SeqIsSeq
  <2>2. QED BY <2>1, AppendFacts
<1>3. w[m] = "MESSAGE" /\ \A k \in m + 1 .. n : w[k] \notin Special BY DEF BodyFrom
<1> HIDE DEF n, v
<1>4. LastIn(v, n + 1, {"MESSAGE"}) = m
  <2>1. "MESSAGE" \in Special BY DEF Special
  <2>2. v[m] \in {"MESSAGE"} BY <1>1, <1>2, <1>3
  <2>3. \A k \in m + 1 .. (n + 1) - 1 : v[k] \notin {"MESSAGE"}
    <3>1. ASSUME NEW k \in m + 1 .. (n + 1) - 1 PROVE v[k] \notin {"MESSAGE"}
      <4>1. k \in m + 1 .. n /\ k \in 1 .. n BY <1>1
      <4>2. v[k] = w[k] /\ w[k] \notin Special BY <1>2, <1>3, <4>1
      <4>3. QED BY <2>1, <4>2
    <3>2. QED BY <3>1
  <2>4. n + 1 \in Nat \ {0} /\ m \in 0 .. (n + 1) - 1 BY <1>1
  <2>5. QED BY ONLY <2>2, <2>3, <2>4, LastInIs
<1>5. CallBody(v) = FlattenSeq([j \in 1 .. (n + 1) - 1 - m |-> Spelling(v[m + j])])
  BY <1>2, <1>4, Zenon DEF CallBody
<1>6. (n + 1) - 1 - m = n - m /\ \A j \in 1 .. n - m : m + j \in 1 .. n BY <1>1
<1>7. \A j \in 1 .. n - m : Spelling(v[m + j]) = Spelling(w[m + j]) BY <1>2, <1>6
<1>8. [j \in 1 .. (n + 1) - 1 - m |-> Spelling(v[m + j])] = [j \in 1 .. n - m |-> Spelling(w[m + j])]
  BY ONLY <1>6, <1>7, Zenon
<1>9. QED BY <1>5, <1>8, Zenon DEF SpelledFrom, v, n

\* A tool call with its arguments.
CallIs(c, w) ==
  /\ c.kind = "ToolCall" /\ c.text \in Seq(Letters) /\ c.text \in Json
  /\ Whole(c.text, CallBody(w))

\* There is a tool call among the chunks.
HasCall(e) == \E i \in DOMAIN e : e[i].kind = "ToolCall"

\* What closing a message says.
LEMMA ClosedSays ==
  ASSUME NEW token \in Delimiters, NEW header, NEW content, NEW bytes, NEW result,
         result = CloseMessage(token, header, content, Deltas(header, bytes)), result.ok
  PROVE  IF token = "CALL"
         THEN /\ result.parser = Terminal("ToolCall") /\ header.recipient /\ content \in Json
              /\ Chunks(result.events) = <<[kind |-> "ToolCall", text |-> content]>>
         ELSE /\ result.parser \in {ExpectStart, Terminal("Return")}
              /\ Chunks(result.events) = Says(header, bytes)
<1> DEFINE deltas == Deltas(header, bytes)
           message == Message(header.channel, content)
           done == Done("Return")
           call == ToolCall(content)
           called == Done("ToolCall")
<1>0. IsSilent(message) /\ IsSilent(done) BY DEF Message, Done, IsSilent
<1>s. /\ Chunks(Append(deltas, message)) = Says(header, bytes)
      /\ Chunks(Join(deltas, <<message, done>>)) = Says(header, bytes)
  <2> HIDE DEF message, done
  <2>1. QED BY ONLY <1>0, DeltasSay, Zenon
<1>1. CASE token = "END"
  <2>1. result = Ok(ExpectStart, Append(deltas, message)) BY <1>1 DEF CloseMessage, Err
  <2>2. result.parser = ExpectStart /\ result.events = Append(deltas, message) BY <2>1 DEF Ok
  <2> HIDE DEF deltas, message
  <2>3. Chunks(result.events) = Says(header, bytes) BY ONLY <1>s, <2>2, Zenon
  <2>4. QED BY <1>1, <2>2, <2>3
<1>2. CASE token = "RETURN"
  <2>1. result = Ok(Terminal("Return"), deltas \o <<message, done>>) BY <1>2 DEF CloseMessage, Err
  <2>2. result.parser = Terminal("Return") /\ result.events = deltas \o <<message, done>> BY <2>1 DEF Ok
  <2> HIDE DEF deltas, message, done
  <2>3. Chunks(result.events) = Says(header, bytes) BY ONLY <1>s, <2>2, Zenon DEF Join
  <2>4. QED BY <1>2, <2>2, <2>3
<1>3. CASE token = "CALL"
  <2>1. result = Ok(Terminal("ToolCall"), deltas \o <<call, called>>) /\ header.recipient /\ content \in Json
    BY <1>3 DEF CloseMessage, Err
  <2>2. result.parser = Terminal("ToolCall") /\ result.events = deltas \o <<call, called>> BY <2>1 DEF Ok
  <2>3. deltas = << >> BY <2>1 DEF Deltas
  <2>4. Chunks(<<call, called>>) = <<[kind |-> "ToolCall", text |-> content]>> BY CallSays
  <2> HIDE DEF deltas, call, called
  <2>5. Join(<< >>, <<call, called>>) = <<call, called>> BY TwoBehind, Zenon
  <2>6. Chunks(result.events) = <<[kind |-> "ToolCall", text |-> content]>>
    BY ONLY <2>2, <2>3, <2>4, <2>5, Zenon DEF Join
  <2>7. QED BY <1>3, <2>1, <2>2, <2>6
<1>4. QED BY <1>1, <1>2, <1>3 DEF Delimiters

\* The end of a message.
LEMMA CloseStep ==
  ASSUME NEW w \in Seq(Tokens), NEW p, p.kind = "Content", ContentAt(w, p),
         NEW token \in Delimiters,
         NEW result \in Process(p, token), result.ok
  PROVE  /\ result.parser.kind \in {"ExpectStart", "Terminal"}
         /\ result.parser.kind = "Terminal" => result.parser.reason \in {"Return", "ToolCall"}
         /\ Accounts(SegmentIn(Append(w, token), Len(w) + 1), p, result.parser, Chunks(result.events))
         /\ IF token = "CALL"
            THEN result.parser.kind = "Terminal"
                 /\ \E c : Chunks(result.events) = <<c>> /\ CallIs(c, Append(w, token))
            ELSE \A i \in DOMAIN Chunks(result.events) : Chunks(result.events)[i].kind # "ToolCall"
<1> DEFINE v == Append(w, token)
           Bytes(tail) == p.pending \o tail
           header == p.header
<1>1. result \in InContent(p, token) BY DEF Process
<1>2. PICK tail \in DecoderFinish(p.held) :
        result = LET bytes == p.pending \o tail
                 IN  IF IsUtf8(bytes)
                     THEN CloseMessage(token, p.header, p.content \o bytes, Deltas(p.header, bytes))
                     ELSE Err(Failed)
  BY <1>1 DEF InContent
<1> DEFINE bytes == Bytes(tail)
           content == p.content \o bytes
           chunks == Chunks(result.events)
           q == result.parser
<1>3. IsUtf8(bytes) /\ result = CloseMessage(token, header, content, Deltas(header, bytes))
  BY <1>2 DEF Err
<1>4. p.content \in Seq(Letters) /\ p.pending \in Partial /\ p.held \in Partial BY DEF ContentAt
<1>5. PICK m \in 1 .. Len(w) :
        /\ \E s \in 0 .. m - 1 : BodyFrom(w, s, m, p.header)
        /\ p.content \o Unsaid(p) = SpelledFrom(w, m)
  BY DEF ContentAt
<1>6. PICK s \in 0 .. m - 1 : BodyFrom(w, s, m, p.header) BY <1>5
<1>7. /\ p.pending = << >> /\ bytes = tail
      /\ (p.held = << >> /\ tail = << >>) \/ (p.held = <<"lead">> /\ tail = <<"replacement">>)
  BY <1>3, <1>4, Finishing
<1>8. p.held \in Seq(Letters) /\ tail \in Seq(Letters) /\ Whole(tail, p.held)
  BY ONLY <1>7, FinishedWhole
<1>9. Unsaid(p) = p.held
  <2>1. << >> \o p.held = p.held
    <3>1. IsSeq(p.held) BY <1>8, SeqIsSeq
    <3>2. QED BY <3>1, JoinFacts
  <2>2. QED BY ONLY <1>7, <2>1, Zenon DEF Unsaid
<1> HIDE DEF v, Bytes, bytes, content, chunks, q, header
<1>10. content \in Seq(Letters) /\ Whole(content, SpelledFrom(w, m))
  <2>1. content = p.content \o tail BY ONLY <1>7, Zenon DEF content
  <2>2. Whole(p.content \o tail, p.content \o p.held)
    <3>1. Whole(p.content, p.content) BY WholeSame
    <3>2. QED BY ONLY <1>4, <1>8, <3>1, WholeJoin
  <2>3. p.content \o tail \in Seq(Letters) BY ONLY <1>4, <1>8, JoinTyped
  <2>4. QED BY ONLY <1>5, <1>9, <2>1, <2>2, <2>3, Zenon
<1>11. IF token = "CALL"
       THEN /\ q = Terminal("ToolCall") /\ header.recipient /\ content \in Json
            /\ chunks = <<[kind |-> "ToolCall", text |-> content]>>
       ELSE /\ q \in {ExpectStart, Terminal("Return")}
            /\ chunks = Says(header, bytes)
  BY ONLY <1>3, token \in Delimiters, result.ok, ClosedSays DEF chunks, q
<1>12. q \in {ExpectStart, Terminal("Return"), Terminal("ToolCall")} BY <1>11
<1>13. q.kind \in {"ExpectStart", "Terminal"} /\ (q.kind = "Terminal" => q.reason \in {"Return", "ToolCall"})
  BY ONLY <1>12 DEF ExpectStart, Terminal
<1>14. Unread(q) = << >> BY <1>13 DEF Unread
<1>15. SegmentIn(v, Len(w) + 1) = << >>
  <2>1. token \in Special BY DEF Special
  <2>2. v[Len(w) + 1] = token
    <3>1. IsSeq(w) BY SeqIsSeq
    <3>2. QED BY <3>1, AppendFacts DEF v
  <2>3. QED BY <2>1, <2>2, SegmentOfSpecial
<1> DEFINE title == Title(header)
           none == << >>
           read == Unread(p)
<1>16. title \in {"Content", "Reasoning"} BY DEF Title
<1>17. none \in Seq(Glyphs) /\ Fits(none, none) BY FitsSame
<1>18. read \in Seq(Glyphs)
  <2>1. Titled(title, p.held) \in Seq(Glyphs) BY <1>8, <1>16, TitledIs
  <2>2. read = IF header.recipient THEN none ELSE Titled(title, p.held)
    BY <1>9 DEF Unread, header
  <2> HIDE DEF read, title, none
  <2>3. QED BY ONLY <1>17, <2>1, <2>2
<1>19. read \o none = read
  <2>1. IsSeq(read) BY <1>18, SeqIsSeq
  <2> HIDE DEF read
  <2>2. QED BY <2>1, JoinFacts
<1> HIDE DEF none
<1>20. Unread(p) \o none = read \o Unread(q)
  <2>1. Unread(q) = none /\ Unread(p) = read BY <1>14 DEF none
  <2> HIDE DEF read
  <2>2. QED BY ONLY <1>19, <2>1, Zenon
<1>21. CASE token = "CALL"
  <2> DEFINE c == [kind |-> "ToolCall", text |-> content]
  <2>1. chunks = <<c>> /\ header.recipient /\ content \in Json BY <1>11, <1>21
  <2>2. c.kind = "ToolCall" /\ c.text = content OBVIOUS
  <2>3. CallBody(v) = SpelledFrom(w, m) BY <1>6, CallBodyIs DEF v
  <2> HIDE DEF c
  <2>4. CallIs(c, v) BY ONLY <1>10, <2>1, <2>2, <2>3, Zenon DEF CallIs
  <2>5. read = none BY <2>1 DEF Unread, header, none
  <2>6. ~IsText(c) BY <2>2 DEF IsText
  <2>7. GoodChunk(c) /\ ShownOf(c) = none BY <2>6 DEF GoodChunk, ShownOf, none
  <2>8. Showing(chunks, none) BY ONLY <2>1, <2>7, Zenon DEF Showing
  <2> HIDE DEF read
  <2>9. Fits(none, read) BY ONLY <1>17, <2>5, Zenon
  <2>10. Accounts(none, p, q, chunks) BY ONLY <1>17, <1>18, <1>20, <2>8, <2>9, Zenon DEF Accounts
  <2>11. q.kind = "Terminal" BY <1>11, <1>21 DEF Terminal
  <2>12. SegmentIn(v, Len(w) + 1) = none BY <1>15 DEF none
  <2>13. Accounts(SegmentIn(v, Len(w) + 1), p, q, chunks) BY ONLY <2>10, <2>12, Zenon
  <2>14. QED BY ONLY <1>13, <1>21, <2>1, <2>4, <2>11, <2>13, Zenon DEF chunks, q, v
<1>22. CASE token # "CALL"
  <2> DEFINE told == IF header.recipient THEN << >> ELSE Titled(title, bytes)
  <2>1. chunks = Says(header, bytes) BY <1>11, <1>22
  <2>2. bytes \in Seq(Letters) BY <1>7, <1>8
  <2>3. told \in Seq(Glyphs) /\ Showing(Says(header, bytes), told) BY ONLY <1>3, <2>2, SaysShows
  <2>4. Fits(told, read)
    <3>1. CASE header.recipient
      <4>1. told = none /\ read = none BY <3>1 DEF Unread, none, header
      <4> HIDE DEF told, read
      <4>2. QED BY ONLY <1>17, <4>1, Zenon
    <3>2. CASE ~header.recipient
      <4>1. told = Titled(title, tail) BY <1>7, <3>2
      <4>2. read = Titled(title, p.held) BY <1>9, <3>2 DEF Unread, header
      <4> HIDE DEF told, read, title
      <4>3. Fits(Titled(title, tail), Titled(title, p.held)) BY ONLY <1>8, <1>16, WholeFits
      <4>4. QED BY ONLY <4>1, <4>2, <4>3, Zenon
    <3>3. QED BY <3>1, <3>2
  <2> HIDE DEF told, read
  <2>5. Showing(chunks, told) BY ONLY <2>1, <2>3, Zenon
  <2>6. Accounts(none, p, q, chunks) BY ONLY <1>18, <1>20, <2>3, <2>4, <2>5, Zenon DEF Accounts
  <2>7. SegmentIn(v, Len(w) + 1) = none BY <1>15 DEF none
  <2>8. Accounts(SegmentIn(v, Len(w) + 1), p, q, chunks) BY ONLY <2>6, <2>7, Zenon
  <2>9. \A i \in DOMAIN Says(header, bytes) : Says(header, bytes)[i].kind # "ToolCall"
    BY <1>16 DEF Says
  <2>10. QED BY ONLY <1>13, <1>22, <2>1, <2>8, <2>9, Zenon DEF chunks, q, v
<1>23. QED BY <1>21, <1>22

\* Nothing is said in between.
LEMMA SilentStep ==
  ASSUME NEW w, NEW token, SegmentIn(Append(w, token), Len(w) + 1) = << >>,
         NEW p, Unread(p) = << >>, NEW q, Unread(q) = << >>
  PROVE  /\ Accounts(SegmentIn(Append(w, token), Len(w) + 1), p, q, Chunks(<< >>))
         /\ \A i \in DOMAIN Chunks(<< >>) : Chunks(<< >>)[i].kind # "ToolCall"
<1> DEFINE y == Done("Return")
<1>1. IsSilent(y) BY DEF Done, IsSilent
<1>2. IsSeq(Mapped(y))
  <2>1. Mapped(y) = << >> BY <1>1, Mappings DEF IsSilent
  <2>2. QED BY <2>1, NothingIsSeq
<1> HIDE DEF y
<1>3. Chunks(<< >>) = << >> BY ONLY <1>1, <1>2, ChunksAre, Zenon
<1>4. Accounts(<< >>, p, q, << >>) BY NothingToAccount
<1>5. \A i \in DOMAIN << >> : FALSE OBVIOUS
<1>6. Accounts(SegmentIn(Append(w, token), Len(w) + 1), p, q, Chunks(<< >>))
  <2> DEFINE segment == SegmentIn(Append(w, token), Len(w) + 1)
             none == << >>
  <2>1. segment = none /\ Chunks(<< >>) = none /\ Accounts(none, p, q, none) BY <1>3, <1>4
  <2> HIDE DEF segment, none
  <2>2. QED BY ONLY <2>1, Zenon DEF segment
<1>7. \A i \in DOMAIN Chunks(<< >>) : FALSE BY <1>3, <1>5, Zenon
<1>8. QED BY ONLY <1>6, <1>7, Zenon

\* A header goes on.
LEMMA HeaderGoesOn ==
  ASSUME NEW w \in Seq(Tokens), NEW p, HeaderAt(w, p), NEW token \in Tokens, token \notin Marks
  PROVE  HeaderAt(Append(w, token), Header(p.implicit, Append(p.tokens, token)))
<1> DEFINE n == Len(w)
           v == Append(w, token)
           q == Header(p.implicit, Append(p.tokens, token))
<1>1. n \in Nat /\ Len(v) = n + 1 /\ v \in Seq(Tokens) /\ v[n + 1] = token /\ \A i \in 1 .. n : v[i] = w[i] OBVIOUS
<1>2. PICK s \in 0 .. n : HeaderFrom(w, s, n) /\ p.tokens = SubSeq(w, s + 1, n) BY DEF HeaderAt
<1>3. p.implicit \in BOOLEAN BY DEF HeaderAt
<1>4. q.implicit = p.implicit /\ q.tokens = Append(p.tokens, token) BY DEF Header
<1> HIDE DEF q
<1>5. SubSeq(v, s + 1, n + 1) = Append(SubSeq(w, s + 1, n), token)
  <2> DEFINE a == s + 1
             t == SubSeq(w, a, n)
             u == SubSeq(v, a, n + 1)
             k == n - s
             f == Append(t, token)
  <2>1. a \in Nat /\ a >= 1 /\ a <= n + 1 /\ s \in Nat /\ k \in Nat /\ n - a + 1 = k /\ (n + 1) - a + 1 = k + 1 /\ n \in Nat
    BY <1>1
  <2>2. \A i \in 1 .. k : a + i - 1 \in 1 .. n BY <2>1
  <2>3. a + (k + 1) - 1 = n + 1 BY <2>1
  <2> HIDE DEF n, v, a, k
  <2>4. u = [i \in 1 .. k + 1 |-> v[a + i - 1]]
    <3>1. u = [i \in 1 .. (n + 1) - a + 1 |-> v[a + i - 1]] BY <1>1, <2>1
    <3> HIDE DEF u
    <3>2. QED BY ONLY <2>1, <3>1, Zenon
  <2>5. t = [i \in 1 .. k |-> w[a + i - 1]]
    <3>1. t = [i \in 1 .. n - a + 1 |-> w[a + i - 1]] BY <1>1, <2>1 DEF n
    <3> HIDE DEF t
    <3>2. QED BY ONLY <2>1, <3>1, Zenon
  <2> HIDE DEF t, u
  <2>6. t \in Seq(Tokens) /\ Len(t) = k /\ \A i \in 1 .. k : t[i] = w[a + i - 1]
    <3>1. \A i \in 1 .. n : w[i] \in Tokens BY DEF n
    <3>2. \A i \in 1 .. k : w[a + i - 1] \in Tokens BY ONLY <2>2, <3>1, Zenon
    <3>3. t \in [1 .. k -> Tokens] BY ONLY <2>5, <3>2
    <3>4. t \in Seq(Tokens) /\ Len(t) = k BY ONLY <2>1, <3>3
    <3>5. QED BY ONLY <2>5, <3>4
  <2>7. f \in Seq(Tokens) /\ Len(f) = k + 1 /\ f[k + 1] = token /\ \A i \in 1 .. k : f[i] = t[i]
    <3>1. /\ f \in Seq(Tokens) /\ Len(f) = Len(t) + 1 /\ f[Len(t) + 1] = token
          /\ \A i \in 1 .. Len(t) : f[i] = t[i]
      BY ONLY <2>6, token \in Tokens, AppendIn
    <3> HIDE DEF f
    <3>2. QED BY ONLY <2>6, <3>1
  <2> HIDE DEF f
  <2>8. f = [i \in 1 .. k + 1 |-> f[i]] BY ONLY <2>1, <2>7
  <2>9. \A i \in 1 .. k + 1 : f[i] = v[a + i - 1]
    <3>1. ASSUME NEW i \in 1 .. k + 1 PROVE f[i] = v[a + i - 1]
      <4>1. CASE i = k + 1 BY <1>1, <2>3, <2>7, <4>1
      <4>2. CASE i \in 1 .. k
        <5>1. a + i - 1 \in 1 .. n BY <2>2, <4>2
        <5>2. v[a + i - 1] = w[a + i - 1] BY <1>1, <5>1
        <5>3. QED BY <2>6, <2>7, <4>2, <5>2
      <4>3. QED BY ONLY <2>1, <4>1, <4>2, i \in 1 .. k + 1
    <3>2. QED BY <3>1
  <2>10. f = u BY ONLY <2>4, <2>8, <2>9
  <2>11. QED BY ONLY <2>10 DEF f, u, t, a
<1> HIDE DEF n, v
<1>6. HeaderFrom(v, s, n + 1)
  <2>1. s = 0 \/ w[s] = "START" BY <1>2 DEF HeaderFrom
  <2>2. \A k \in s + 1 .. n : w[k] \notin Marks BY <1>2 DEF HeaderFrom
  <2>3. s = 0 \/ v[s] = "START"
    <3>1. s = 0 \/ s \in 1 .. n BY <1>1
    <3>2. QED BY <1>1, <2>1, <3>1
  <2>4. ASSUME NEW k \in s + 1 .. n + 1 PROVE v[k] \notin Marks
    <3>1. CASE k = n + 1 BY <1>1, <3>1
    <3>2. CASE k \in s + 1 .. n
      <4>1. k \in 1 .. n BY <1>1, <3>2
      <4>2. v[k] = w[k] BY <1>1, <4>1
      <4>3. QED BY <2>2, <3>2, <4>2
    <3>3. QED BY ONLY <1>1, <3>1, <3>2, k \in s + 1 .. n + 1, s \in 0 .. n
  <2>5. QED BY <2>3, <2>4 DEF HeaderFrom
<1>7. s \in 0 .. n + 1 BY <1>1
<1>8. q.tokens = SubSeq(v, s + 1, n + 1) BY <1>2, <1>4, <1>5
<1>9. HeaderAt(v, q) BY <1>1, <1>3, <1>4, <1>6, <1>7, <1>8 DEF HeaderAt
<1>10. QED BY <1>9 DEF v, q

\* A header ends, and a body begins.
LEMMA BodyBegins ==
  ASSUME NEW w \in Seq(Tokens), NEW p, HeaderAt(w, p), ParseHeader(p.tokens, p.implicit) # Malformed
  PROVE  ContentAt(Append(w, "MESSAGE"), Content(ParseHeader(p.tokens, p.implicit), << >>, << >>, << >>))
<1> DEFINE n == Len(w)
           x == "MESSAGE"
           v == Append(w, x)
           header == ParseHeader(p.tokens, p.implicit)
           none == << >>
           q == Content(header, none, none, none)
<1>0. x \in Tokens BY DEF Tokens, Special
<1>e. x = "MESSAGE" OBVIOUS
<1> HIDE DEF x
<1>1. n \in Nat /\ Len(v) = n + 1 /\ v \in Seq(Tokens) /\ v[n + 1] = x /\ \A i \in 1 .. n : v[i] = w[i] BY <1>0
<1>2. PICK s \in 0 .. n : HeaderFrom(w, s, n) /\ p.tokens = SubSeq(w, s + 1, n) BY DEF HeaderAt
<1>3. p.implicit \in BOOLEAN BY DEF HeaderAt
<1>4. q.header = header /\ q.content = none /\ q.pending = none /\ q.held = none BY DEF Content
<1> HIDE DEF q, header
<1>5. p.tokens \in Seq(Tokens) BY <1>1, <1>2
<1>6. HeaderOf(p.tokens, header) BY <1>3, <1>5, HeaderSays DEF header
<1>7. SubSeq(v, s + 1, n) = SubSeq(w, s + 1, n)
  <2> DEFINE a == s + 1
  <2>1. a \in Nat /\ n \in Nat /\ a >= 1 /\ a <= n + 1 BY <1>1
  <2> HIDE DEF n, v, a
  <2>2. \A i \in 1 .. n - a + 1 : a + i - 1 \in 1 .. n BY ONLY <2>1
  <2>3. \A i \in 1 .. n - a + 1 : v[a + i - 1] = w[a + i - 1] BY ONLY <1>1, <2>2, Zenon
  <2>4. /\ SubSeq(v, a, n) = [i \in 1 .. n - a + 1 |-> v[a + i - 1]]
        /\ SubSeq(w, a, n) = [i \in 1 .. n - a + 1 |-> w[a + i - 1]]
    BY <1>1, <2>1 DEF n
  <2>5. [i \in 1 .. n - a + 1 |-> v[a + i - 1]] = [i \in 1 .. n - a + 1 |-> w[a + i - 1]]
    BY ONLY <2>3, Zenon
  <2>6. SubSeq(v, a, n) = SubSeq(w, a, n) BY ONLY <2>4, <2>5, Zenon
  <2>7. QED BY ONLY <2>6 DEF a
<1> HIDE DEF n, v, none
<1>8. BodyFrom(v, s, n + 1, header)
  <2>1. s = 0 \/ w[s] = "START" BY <1>2 DEF HeaderFrom
  <2>2. \A k \in s + 1 .. n : w[k] \notin Marks BY <1>2 DEF HeaderFrom
  <2>3. s = 0 \/ s \in 1 .. n BY <1>1
  <2>4. s = 0 \/ v[s] = "START" BY <1>1, <2>1, <2>3
  <2>5. ASSUME NEW k \in s + 1 .. n PROVE v[k] \notin Marks
    <3>1. k \in 1 .. n BY <1>1
    <3>2. v[k] = w[k] BY <1>1, <3>1
    <3>3. QED BY <2>2, <3>2
  <2>6. HeaderFrom(v, s, n) BY <2>4, <2>5 DEF HeaderFrom
  <2>7. (n + 1) - 1 = n BY <1>1
  <2>8. HeaderFrom(v, s, (n + 1) - 1) BY ONLY <2>6, <2>7, Zenon
  <2>9. HeaderOf(SubSeq(v, s + 1, (n + 1) - 1), header) BY ONLY <1>2, <1>6, <1>7, <2>7, Zenon
  <2>10. v[n + 1] = "MESSAGE" BY <1>1, <1>e
  <2>11. \A k \in (n + 1) + 1 .. Len(v) : v[k] \notin Special BY <1>1
  <2>12. QED BY ONLY <2>8, <2>9, <2>10, <2>11, Zenon DEF BodyFrom
<1>9. n + 1 \in 1 .. Len(v) /\ s \in 0 .. (n + 1) - 1 BY <1>1
<1>10. SpelledFrom(v, n + 1) = none
  <2>1. n + 1 \in Nat /\ n + 1 = Len(v) BY <1>1
  <2>2. QED BY ONLY <2>1, SpelledNone DEF none
<1>11. none \in Seq(Letters) /\ none \in Partial /\ none \o none = none
  <2>1. IsSeq(none) BY NothingIsSeq DEF none
  <2>2. none \o << >> = none BY <2>1, JoinFacts
  <2>3. none = << >> BY DEF none
  <2>4. QED BY <2>2, <2>3 DEF Partial
<1>12. Unsaid(q) = none BY ONLY <1>4, <1>11, Zenon DEF Unsaid
<1>13. q.content \o Unsaid(q) = SpelledFrom(v, n + 1) BY ONLY <1>4, <1>10, <1>11, <1>12, Zenon
<1>14. q.content \in Seq(Letters) /\ q.pending \in Partial /\ q.held \in Partial BY ONLY <1>4, <1>11, Zenon
<1>15. BodyFrom(v, s, n + 1, q.header) BY ONLY <1>4, <1>8, Zenon
<1>16. ContentAt(v, q) BY ONLY <1>9, <1>13, <1>14, <1>15, Zenon DEF ContentAt
<1>17. QED BY ONLY <1>16, Zenon DEF v, q, header, none, x

\* What a token that is taken does.
Takes(w, token, p, result) ==
  /\ result.parser.kind \in {"Header", "Content", "ExpectStart", "Terminal"}
  /\ PlaceOf(Append(w, token), result.parser)
  /\ Accounts(SegmentIn(Append(w, token), Len(w) + 1), p, result.parser, Chunks(result.events))
  /\ IF token = "CALL"
     THEN result.parser.kind = "Terminal"
          /\ \E c : Chunks(result.events) = <<c>> /\ CallIs(c, Append(w, token))
     ELSE \A i \in DOMAIN Chunks(result.events) : Chunks(result.events)[i].kind # "ToolCall"

\* The token that was written last.
LEMMA Newest ==
  ASSUME NEW w \in Seq(Tokens), NEW token
  PROVE  Append(w, token)[Len(w) + 1] = token
<1>1. IsSeq(w) BY SeqIsSeq
<1>2. QED BY <1>1, AppendFacts

\* A token in a header.
LEMMA HeaderStep ==
  ASSUME NEW w \in Seq(Tokens), NEW p, p.kind = "Header", HeaderAt(w, p),
         NEW token \in Tokens, NEW result \in Process(p, token), result.ok
  PROVE  Takes(w, token, p, result)
<1>1. result = InHeader(p, token) BY DEF Process
<1>2. Unread(p) = << >> BY DEF Unread
<1>3. CASE token = "MESSAGE"
  <2> DEFINE header == ParseHeader(p.tokens, p.implicit)
             q == Content(header, << >>, << >>, << >>)
  <2>1. header # Malformed /\ result = Ok(q, << >>) BY <1>1, <1>3 DEF InHeader, Err
  <2>2. result.parser = q /\ result.events = << >> BY <2>1 DEF Ok
  <2>3. q.kind = "Content" /\ q.header = header /\ q.pending = << >> /\ q.held = << >> BY DEF Content
  <2>4. ContentAt(Append(w, token), q) BY <1>3, <2>1, BodyBegins
  <2>5. Unread(q) = << >>
    <3> DEFINE none == << >>
               title == Title(header)
    <3>1. none \o none = none /\ none \in Seq(Letters)
      <4>1. IsSeq(none) BY NothingIsSeq
      <4>2. none \o << >> = none BY <4>1, JoinFacts
      <4>3. QED BY <4>2
    <3>2. Unsaid(q) = none BY <2>3, <3>1 DEF Unsaid
    <3>3. title \in {"Content", "Reasoning"} BY DEF Title
    <3> HIDE DEF title
    <3>4. Titled(title, none) \in Seq(Glyphs) /\ Len(Titled(title, none)) = 0
      <4>1. Len(none) = 0 OBVIOUS
      <4>2. none \in Seq(Letters) BY <3>1
      <4> HIDE DEF none
      <4>3. /\ Titled(title, none) \in Seq(Glyphs) /\ Len(Titled(title, none)) = Len(none)
        BY ONLY <3>3, <4>2, TitledIs
      <4>4. QED BY ONLY <4>1, <4>3, Zenon
    <3>5. Titled(title, none) = << >> BY <3>4
    <3>6. QED BY <2>3, <3>2, <3>5 DEF Unread, title
  <2> HIDE DEF q, header
  <2>6. SegmentIn(Append(w, token), Len(w) + 1) = << >>
    <3>1. token \in Special BY <1>3 DEF Special
    <3>2. QED BY <3>1, Newest, SegmentOfSpecial
  <2>7. /\ Accounts(SegmentIn(Append(w, token), Len(w) + 1), p, q, Chunks(<< >>))
        /\ \A i \in DOMAIN Chunks(<< >>) : Chunks(<< >>)[i].kind # "ToolCall"
    BY ONLY <1>2, <2>5, <2>6, SilentStep, Zenon
  <2>8. PlaceOf(Append(w, token), q) BY <2>3, <2>4 DEF PlaceOf
  <2>9. QED BY <1>3, <2>2, <2>3, <2>7, <2>8 DEF Takes
<1>4. CASE token # "MESSAGE"
  <2> DEFINE q == Header(p.implicit, Append(p.tokens, token))
  <2>1. token \notin Delimiters \cup {"START"} /\ result = Ok(q, << >>)
    BY <1>1, <1>4 DEF InHeader, Err
  <2>2. result.parser = q /\ result.events = << >> BY <2>1 DEF Ok
  <2>3. q.kind = "Header" BY DEF Header
  <2>4. token \notin Marks BY <1>4, <2>1 DEF Marks
  <2>5. HeaderAt(Append(w, token), q) BY <2>4, HeaderGoesOn
  <2>6. Unread(q) = << >> BY <2>3 DEF Unread
  <2> HIDE DEF q
  <2>7. SegmentIn(Append(w, token), Len(w) + 1) = << >> BY SegmentOfHeader
  <2>8. /\ Accounts(SegmentIn(Append(w, token), Len(w) + 1), p, q, Chunks(<< >>))
        /\ \A i \in DOMAIN Chunks(<< >>) : Chunks(<< >>)[i].kind # "ToolCall"
    BY ONLY <1>2, <2>6, <2>7, SilentStep, Zenon
  <2>9. PlaceOf(Append(w, token), q) BY <2>3, <2>5 DEF PlaceOf
  <2>10. token # "CALL" BY <2>1 DEF Delimiters
  <2>11. QED BY <2>2, <2>3, <2>8, <2>9, <2>10 DEF Takes
<1>5. QED BY <1>3, <1>4

\* A token where a START is expected.
LEMMA StartStep ==
  ASSUME NEW w \in Seq(Tokens), NEW p, p.kind = "ExpectStart",
         NEW token \in Tokens, NEW result \in Process(p, token), result.ok
  PROVE  Takes(w, token, p, result)
<1> DEFINE q == Header(FALSE, << >>)
           v == Append(w, token)
           n == Len(w)
<1>0. result = IF token = "START" THEN Ok(q, << >>) ELSE Err(Failed) BY DEF Process
<1>1. token = "START" /\ result = Ok(q, << >>) BY <1>0 DEF Err
<1>2. result.parser = q /\ result.events = << >> BY <1>1 DEF Ok
<1>3. q.kind = "Header" /\ q.implicit = FALSE /\ q.tokens = << >> BY DEF Header
<1>4. n \in Nat /\ v \in Seq(Tokens) /\ Len(v) = n + 1 BY AppendIn
<1>5. v[n + 1] = token BY Newest
<1> HIDE DEF q, v, n
<1>6. HeaderAt(v, q)
  <2>1. HeaderFrom(v, n + 1, n + 1) BY <1>1, <1>4, <1>5 DEF HeaderFrom
  <2>2. SubSeq(v, (n + 1) + 1, n + 1) = << >> BY <1>4
  <2>3. n + 1 \in 0 .. Len(v) BY <1>4
  <2>4. HeaderFrom(v, n + 1, Len(v)) /\ q.tokens = SubSeq(v, (n + 1) + 1, Len(v))
    BY <1>3, <1>4, <2>1, <2>2
  <2>5. QED BY <1>3, <2>3, <2>4 DEF HeaderAt
<1>7. Unread(p) = << >> /\ Unread(q) = << >> BY <1>3 DEF Unread
<1>8. SegmentIn(v, n + 1) = << >>
  <2>1. token \in Special BY <1>1 DEF Special
  <2>2. QED BY <1>5, <2>1, SegmentOfSpecial
<1>9. /\ Accounts(SegmentIn(v, n + 1), p, q, Chunks(<< >>))
      /\ \A i \in DOMAIN Chunks(<< >>) : Chunks(<< >>)[i].kind # "ToolCall"
  BY ONLY <1>7, <1>8, SilentStep, Zenon DEF v, n
<1>10. PlaceOf(v, q) BY <1>3, <1>6 DEF PlaceOf
<1>11. QED BY <1>1, <1>2, <1>3, <1>9, <1>10 DEF Takes, v, n

\* A token in a body, text or not.
LEMMA ContentStep ==
  ASSUME NEW w \in Seq(Tokens), NEW p, p.kind = "Content", ContentAt(w, p),
         NEW token \in Tokens, NEW result \in Process(p, token), result.ok
  PROVE  Takes(w, token, p, result)
<1>1. CASE token \in Delimiters
  <2>1. /\ result.parser.kind \in {"ExpectStart", "Terminal"}
        /\ Accounts(SegmentIn(Append(w, token), Len(w) + 1), p, result.parser, Chunks(result.events))
        /\ IF token = "CALL"
           THEN result.parser.kind = "Terminal"
                /\ \E c : Chunks(result.events) = <<c>> /\ CallIs(c, Append(w, token))
           ELSE \A i \in DOMAIN Chunks(result.events) : Chunks(result.events)[i].kind # "ToolCall"
    BY <1>1, CloseStep
  <2>2. PlaceOf(Append(w, token), result.parser) BY <2>1 DEF PlaceOf
  <2>3. QED BY <2>1, <2>2 DEF Takes
<1>2. CASE token \notin Delimiters
  <2>1. token \notin Special
    <3>1. result \in InContent(p, token) BY DEF Process
    <3>2. QED BY <1>2, <3>1 DEF InContent, Err
  <2>2. /\ result.parser.kind = "Content"
        /\ ContentAt(Append(w, token), result.parser)
        /\ Accounts(SegmentIn(Append(w, token), Len(w) + 1), p, result.parser, Chunks(result.events))
        /\ \A i \in DOMAIN Chunks(result.events) : Chunks(result.events)[i].kind # "ToolCall"
    BY <2>1, TextStep
  <2>3. token # "CALL" BY <1>2 DEF Delimiters
  <2>4. PlaceOf(Append(w, token), result.parser) BY <2>2 DEF PlaceOf
  <2>5. QED BY <2>2, <2>3, <2>4 DEF Takes
<1>3. QED BY <1>1, <1>2

\* Every token: what process accepts is accounted for, and else it has failed.
LEMMA ProcessStep ==
  ASSUME NEW w \in Seq(Tokens), NEW p, p.kind \in {"Header", "Content", "ExpectStart"}, PlaceOf(w, p),
         NEW token \in Tokens, NEW result \in Process(p, token)
  PROVE  IF result.ok THEN Takes(w, token, p, result) ELSE result.parser.kind = "Failed"
<1>1. CASE result.ok BY <1>1, HeaderStep, ContentStep, StartStep DEF PlaceOf
<1>2. CASE ~result.ok
  <2>1. CASE p.kind = "Header"
    <3>1. result = InHeader(p, token) BY <2>1 DEF Process
    <3>2. result = Err(Failed) BY <1>2, <3>1 DEF InHeader, Ok
    <3>3. QED BY <1>2, <3>2 DEF Err, Failed
  <2>2. CASE p.kind = "ExpectStart"
    <3>1. result = IF token = "START" THEN Ok(Header(FALSE, << >>), << >>) ELSE Err(Failed)
      BY <2>2 DEF Process
    <3>2. result = Err(Failed) BY <1>2, <3>1 DEF Ok
    <3>3. QED BY <1>2, <3>2 DEF Err, Failed
  <2>3. CASE p.kind = "Content"
    <3>1. result \in InContent(p, token) BY <2>3 DEF Process
    <3>2. CASE token \in Delimiters
      <4>1. PICK tail \in DecoderFinish(p.held) :
              result = LET bytes == p.pending \o tail
                       IN  IF IsUtf8(bytes)
                           THEN CloseMessage(token, p.header, p.content \o bytes, Deltas(p.header, bytes))
                           ELSE Err(Failed)
        BY <3>1, <3>2 DEF InContent
      <4>2. PICK content, text : result \in {CloseMessage(token, p.header, content, text), Err(Failed)}
        BY <4>1
      <4>3. result = Err(Failed) BY <1>2, <4>2 DEF CloseMessage, Ok
      <4>4. QED BY <1>2, <4>3 DEF Err, Failed
    <3>3. CASE token \notin Delimiters
      <4>1. result = Err(Failed) BY <1>2, <3>1, <3>3 DEF InContent, Ok
      <4>2. QED BY <1>2, <4>1 DEF Err, Failed
    <3>4. QED BY <3>2, <3>3
  <2>4. QED BY <2>1, <2>2, <2>3
<1>3. QED BY <1>1, <1>2

\* Cut off, the parser shows nothing more, and what it has not shown is no whole character.
Partly(r) == r = << >> \/ (r[1][2] = "lead" /\ (Len(r) = 1 \/ r[2][2] # "trail"))

\* What the parser has not given out is no more than the beginning of a character.
LEMMA UnreadPartly ==
  ASSUME NEW w, NEW p, PlaceOf(w, p)
  PROVE  Unread(p) \in Seq(Glyphs) /\ Partly(Unread(p))
<1>1. CASE ~(p.kind = "Content" /\ ~p.header.recipient)
  <2>1. Unread(p) = << >> BY <1>1 DEF Unread
  <2>2. QED BY <2>1 DEF Partly
<1>2. CASE p.kind = "Content" /\ ~p.header.recipient
  <2> DEFINE u == Unsaid(p)
             title == Title(p.header)
             r == Titled(title, u)
             x == "lead"
  <2>1. p.pending \in Partial /\ p.held \in Partial BY <1>2 DEF PlaceOf, ContentAt
  <2>2. title \in {"Content", "Reasoning"} BY DEF Title
  <2>3. p.pending \in Seq({x}) /\ p.held \in Seq({x}) BY <2>1, PartialIs
  <2>4. x \in Letters /\ x = "lead" /\ x # "trail" BY DEF Letters, Tokens, Halves
  <2>5. Unread(p) = r BY <1>2 DEF Unread
  <2> HIDE DEF x, title
  <2>6. u \in Seq({x}) BY <2>3 DEF Unsaid
  <2> HIDE DEF u
  <2>7. u \in Seq(Letters) /\ Len(u) \in Nat /\ \A i \in 1 .. Len(u) : u[i] = x BY <2>4, <2>6
  <2>8. r \in Seq(Glyphs) /\ Len(r) = Len(u) /\ \A i \in 1 .. Len(u) : r[i][2] = u[i] BY <2>2, <2>7, TitledIs
  <2> HIDE DEF r
  <2>9. Partly(r)
    <3>1. CASE Len(u) = 0
      <4>1. r = << >> BY <2>8, <3>1
      <4>2. QED BY <4>1 DEF Partly
    <3>2. CASE Len(u) = 1 BY <2>4, <2>7, <2>8, <3>2 DEF Partly
    <3>3. CASE Len(u) > 1
      <4>1. 1 \in 1 .. Len(u) /\ 2 \in 1 .. Len(u) BY <2>7, <3>3
      <4>2. QED BY <2>4, <2>7, <2>8, <4>1 DEF Partly
    <3>4. PICK k \in Nat : k = Len(u) BY <2>7
    <3>5. k = 0 \/ k = 1 \/ k > 1 BY ONLY k \in Nat
    <3>6. QED BY ONLY <3>1, <3>2, <3>3, <3>4, <3>5, Zenon
  <2>10. QED BY <2>5, <2>8, <2>9
<1>3. QED BY <1>1, <1>2

\* A parser that is cut off adds no text: what it has is no whole character.
LEMMA CutOffStep ==
  ASSUME NEW w, NEW p, p.kind \in {"Header", "Content", "ExpectStart"}, PlaceOf(w, p)
  PROVE  IF Truncate(p).ok
         THEN Truncate(p).parser.kind = "Truncated" /\ Chunks(Truncate(p).events) = << >>
         ELSE Truncate(p).parser.kind = "Failed"
<1> DEFINE y == Done("Length")
<1>1. IsSilent(y) BY DEF Done, IsSilent
<1>2. CASE p.kind = "Content"
  <2> DEFINE text == ValidPrefix(p.pending)
  <2>1. CASE Truncate(p).ok
    <3>1. Truncate(p) = Ok(Truncated, Append(Deltas(p.header, text), y)) BY <1>2, <2>1 DEF Truncate, Err
    <3>2. Truncate(p).parser.kind = "Truncated" /\ Truncate(p).events = Append(Deltas(p.header, text), y)
      BY <3>1 DEF Ok, Truncated
    <3>3. p.pending \in Partial BY <1>2 DEF PlaceOf, ContentAt
    <3>4. text = << >>
      <4>1. CASE p.pending = << >> BY <4>1 DEF ValidPrefix, Dangles
      <4>2. CASE p.pending = <<"lead">>
        <5> DEFINE x == "lead"
                   one == <<x>>
        <5>1. Dangles(one) BY DEF Dangles, Last
        <5>2. Front(one) = << >>
          <6>1. Front(one) = SubSeq(one, 1, 0) BY DEF Front
          <6> HIDE DEF x
          <6>2. one \in Seq({x}) OBVIOUS
          <6>3. QED BY <6>1, <6>2
        <5>3. text = Front(one) BY <4>2, <5>1 DEF ValidPrefix
        <5>4. QED BY <5>2, <5>3
      <4>3. QED BY <3>3, <4>1, <4>2 DEF Partial
    <3> HIDE DEF y, text
    <3>5. Chunks(Append(Deltas(p.header, text), y)) = Says(p.header, text) BY ONLY <1>1, DeltasSay, Zenon
    <3>6. Says(p.header, text) = << >> BY <3>4 DEF Says
    <3>7. Chunks(Truncate(p).events) = << >> BY ONLY <3>2, <3>5, <3>6, Zenon
    <3>8. QED BY <2>1, <3>2, <3>7
  <2>2. CASE ~Truncate(p).ok
    <3>1. Truncate(p) = Err(Failed) BY <1>2, <2>2 DEF Truncate, Ok
    <3>2. QED BY <2>2, <3>1 DEF Err, Failed
  <2>3. QED BY <2>1, <2>2
<1>3. CASE p.kind \in {"Header", "ExpectStart"}
  <2>1. Truncate(p) = Ok(Truncated, <<y>>) BY <1>3 DEF Truncate
  <2>2. Truncate(p).ok /\ Truncate(p).parser.kind = "Truncated" /\ Truncate(p).events = <<y>>
    BY <2>1 DEF Ok, Truncated
  <2>3. Mapped(y) = << >> BY <1>1, Mappings DEF IsSilent
  <2>4. IsSeq(Mapped(y)) BY <2>3, NothingIsSeq
  <2> HIDE DEF y
  <2>5. Chunks(<<y>>) = Mapped(y) BY ONLY <1>1, <2>4, ChunksAre, Zenon
  <2>6. Chunks(Truncate(p).events) = << >> BY ONLY <2>2, <2>3, <2>5, Zenon
  <2>7. QED BY <2>2, <2>6
<1>4. QED BY <1>2, <1>3

-----------------------------------------------------------------------------
(* A stream accounts for what is written.                                  *)

\* What was sent, e, accounts for what is written, w, but for what the parser p has not
\* given out.
Account(e, w, p) ==
  /\ \A i \in DOMAIN e : GoodChunk(e[i])
  /\ \E shown \in Seq(Glyphs) : \E missing \in Seq(Glyphs) :
       /\ ReadIn(w) = shown \o missing /\ Fits(Shown(e), shown)
       /\ p.kind \in {"Header", "Content", "ExpectStart", "Terminal"} => missing = Unread(p)
       /\ p.kind = "Truncated" => Partly(missing)

\* There is a tool call just behind the CALL that closed it, with all of its body.
Called(e, w, p) ==
  /\ HasCall(e) <=> w # << >> /\ Last(w) = "CALL" /\ p.kind = "Terminal"
  /\ \A i \in DOMAIN e : e[i].kind = "ToolCall" => CallIs(e[i], w)

\* One more chunk.
LEMMA ShowingMore ==
  ASSUME NEW e, IsSeq(e), \A i \in DOMAIN e : GoodChunk(e[i]), NEW chunks, NEW told, Showing(chunks, told)
  PROVE  /\ Shown(e) \in Seq(Glyphs) /\ told \in Seq(Glyphs)
         /\ Shown(e \o chunks) = Shown(e) \o told
         /\ \A i \in DOMAIN (e \o chunks) : GoodChunk((e \o chunks)[i])
<1> DEFINE none == << >>
<1>0. none \in Seq(Glyphs) /\ IsSeq(none) BY NothingIsSeq
<1>1. CASE chunks = << >> /\ told = << >>
  <2> DEFINE c == RoleChunk
  <2>1. ~IsText(c) BY DEF IsText, RoleChunk
  <2>2. Shown(e) \in Seq(Glyphs) BY <2>1, ShownSilent
  <2>3. e \o none = e BY <1>0, JoinFacts
  <2>4. Shown(e) \o none = Shown(e)
    <3>1. IsSeq(Shown(e)) BY <2>2, SeqIsSeq
    <3>2. QED BY <1>0, <3>1, JoinFacts
  <2>5. chunks = none /\ told = none BY <1>1
  <2> HIDE DEF none
  <2>6. e \o chunks = e /\ Shown(e) \o told = Shown(e) BY ONLY <2>3, <2>4, <2>5, Zenon
  <2>7. \A i \in DOMAIN e : GoodChunk(e[i]) OBVIOUS
  <2>8. QED BY ONLY <1>0, <2>2, <2>5, <2>6, <2>7, Zenon
<1>2. ASSUME NEW c, chunks = <<c>>, GoodChunk(c), told = ShownOf(c)
      PROVE  /\ Shown(e) \in Seq(Glyphs) /\ told \in Seq(Glyphs)
             /\ Shown(e \o chunks) = Shown(e) \o told
             /\ \A i \in DOMAIN (e \o chunks) : GoodChunk((e \o chunks)[i])
  <2>1. /\ Shown(e) \in Seq(Glyphs) /\ ShownOf(c) \in Seq(Glyphs)
        /\ Shown(Append(e, c)) = Shown(e) \o ShownOf(c)
        /\ \A i \in DOMAIN Append(e, c) : GoodChunk(Append(e, c)[i])
    BY <1>2, ShownMore
  <2>2. e \o <<c>> = Append(e, c) BY AppendFacts
  <2>3. e \o chunks = Append(e, c) BY ONLY <1>2, <2>2, Zenon
  <2>4. QED BY ONLY <1>2, <2>1, <2>3, Zenon
<1>3. QED BY <1>1, <1>2 DEF Showing

\* A token that is taken.
LEMMA TakenAccount ==
  ASSUME NEW e, IsSeq(e), NEW w \in Seq(Tokens), NEW p, p.kind \in {"Header", "Content", "ExpectStart"},
         Account(e, w, p), PlaceOf(w, p), NEW token \in Tokens, NEW result, Takes(w, token, p, result)
  PROVE  Account(e \o Chunks(result.events), Append(w, token), result.parser)
<1> DEFINE q == result.parser
           chunks == Chunks(result.events)
           v == Append(w, token)
           segment == SegmentIn(v, Len(w) + 1)
<1>1. PICK shown \in Seq(Glyphs), missing \in Seq(Glyphs) :
        ReadIn(w) = shown \o missing /\ Fits(Shown(e), shown) /\ missing = Unread(p)
  BY DEF Account
<1>2. PICK told \in Seq(Glyphs), read \in Seq(Glyphs) :
        /\ Showing(chunks, told) /\ Fits(told, read)
        /\ Unread(p) \o segment = read \o Unread(q)
  BY DEF Takes, Accounts
<1>3. q.kind \in {"Header", "Content", "ExpectStart", "Terminal"} /\ PlaceOf(v, q) BY DEF Takes
<1>4. Unread(q) \in Seq(Glyphs) BY <1>3, UnreadPartly
<1>5. segment \in Seq(Glyphs) /\ ReadIn(v) = ReadIn(w) \o segment BY ReadMore
<1>6. \A i \in DOMAIN e : GoodChunk(e[i]) BY DEF Account
<1> HIDE DEF q, chunks, v, segment
<1>7. /\ Shown(e) \in Seq(Glyphs)
      /\ Shown(e \o chunks) = Shown(e) \o told
      /\ \A i \in DOMAIN (e \o chunks) : GoodChunk((e \o chunks)[i])
  BY ONLY <1>2, <1>6, IsSeq(e), ShowingMore
<1>8. ReadIn(v) = (shown \o read) \o Unread(q)
  <2>1. /\ IsSeq(shown) /\ IsSeq(missing) /\ IsSeq(segment) /\ IsSeq(read) /\ IsSeq(Unread(q))
    BY <1>4, <1>5, SeqIsSeq
  <2>2. IsRegrouped(shown, missing, segment) BY ONLY <2>1, Associates, Zenon
  <2>3. IsRegrouped(shown, read, Unread(q)) BY ONLY <2>1, Associates, Zenon
  <2>4. QED BY ONLY <1>1, <1>2, <1>5, <2>2, <2>3, Zenon DEF IsRegrouped
<1>9. Fits(Shown(e \o chunks), shown \o read)
  <2>1. Fits(Shown(e) \o told, shown \o read) BY ONLY <1>1, <1>2, <1>7, FitsJoin
  <2>2. QED BY ONLY <1>7, <2>1, Zenon
<1>10. shown \o read \in Seq(Glyphs)
  <2>1. shown \in Seq(Glyphs) /\ read \in Seq(Glyphs) OBVIOUS
  <2>2. QED BY ONLY <2>1, JoinTyped
<1>11. q.kind # "Truncated" BY <1>3
<1>12. Account(e \o chunks, v, q) BY ONLY <1>4, <1>7, <1>8, <1>9, <1>10, <1>11, Zenon DEF Account
<1>13. QED BY <1>12 DEF q, chunks, v

\* A chunk that is no text.
LEMMA SilentAccount ==
  ASSUME NEW e, IsSeq(e), NEW w, NEW p, Account(e, w, p), NEW c, ~IsText(c)
  PROVE  IsSeq(Append(e, c)) /\ Account(Append(e, c), w, p)
<1>1. \A i \in DOMAIN e : GoodChunk(e[i]) BY DEF Account
<1>2. GoodChunk(c) /\ Shown(Append(e, c)) = Shown(e) BY <1>1, ShownSilent
<1>3. \A i \in DOMAIN Append(e, c) : GoodChunk(Append(e, c)[i]) BY <1>1, <1>2, ShownMore
<1>4. Account(Append(e, c), w, p) BY ONLY <1>2, <1>3, Account(e, w, p), Zenon DEF Account
<1>5. IsSeq(Append(e, c)) BY AppendFacts
<1>6. QED BY <1>4, <1>5

\* A parser that is cut off, or has failed.
LEMMA CutAccount ==
  ASSUME NEW e, NEW w, NEW p, Account(e, w, p), NEW q,
         \/ q.kind = "Failed"
         \/ q.kind = "Truncated" /\ p.kind \in {"Header", "Content", "ExpectStart"} /\ PlaceOf(w, p)
  PROVE  Account(e, w, q)
<1>1. PICK shown \in Seq(Glyphs), missing \in Seq(Glyphs) :
        /\ ReadIn(w) = shown \o missing /\ Fits(Shown(e), shown)
        /\ p.kind \in {"Header", "Content", "ExpectStart", "Terminal"} => missing = Unread(p)
  BY DEF Account
<1>2. q.kind \notin {"Header", "Content", "ExpectStart", "Terminal"} OBVIOUS
<1>3. q.kind = "Truncated" => Partly(missing) BY <1>1, UnreadPartly
<1>4. \A i \in DOMAIN e : GoodChunk(e[i]) BY DEF Account
<1>5. QED BY ONLY <1>1, <1>2, <1>3, <1>4, Zenon DEF Account

\* One more token, of which nothing becomes.
LEMMA RefusedAccount ==
  ASSUME NEW e, NEW w \in Seq(Tokens), NEW p, Account(e, w, p), NEW token \in Tokens, NEW q, q.kind = "Failed"
  PROVE  Account(e, Append(w, token), q)
<1> DEFINE v == Append(w, token)
           segment == SegmentIn(v, Len(w) + 1)
<1>1. PICK shown \in Seq(Glyphs), missing \in Seq(Glyphs) :
        ReadIn(w) = shown \o missing /\ Fits(Shown(e), shown)
  BY DEF Account
<1>2. segment \in Seq(Glyphs) /\ ReadIn(v) = ReadIn(w) \o segment BY ReadMore
<1>3. \A i \in DOMAIN e : GoodChunk(e[i]) BY DEF Account
<1> HIDE DEF v, segment
<1>4. ReadIn(v) = shown \o (missing \o segment)
  <2>1. IsSeq(shown) /\ IsSeq(missing) /\ IsSeq(segment) BY <1>2, SeqIsSeq
  <2>2. IsRegrouped(shown, missing, segment) BY ONLY <2>1, Associates, Zenon
  <2>3. QED BY ONLY <1>1, <1>2, <2>2, Zenon DEF IsRegrouped
<1>5. missing \o segment \in Seq(Glyphs)
  <2>1. missing \in Seq(Glyphs) OBVIOUS
  <2>2. QED BY ONLY <1>2, <2>1, JoinTyped
<1>6. q.kind \notin {"Header", "Content", "ExpectStart", "Terminal"} /\ q.kind # "Truncated" OBVIOUS
<1>7. shown \in Seq(Glyphs) OBVIOUS
<1>8. Account(e, v, q) BY ONLY <1>1, <1>3, <1>4, <1>5, <1>6, <1>7, Zenon DEF Account
<1>9. QED BY <1>8 DEF v

-----------------------------------------------------------------------------
(* Calls.                                                                  *)

\* Calls in what is joined.
LEMMA CallsJoin ==
  ASSUME NEW e, IsSeq(e), NEW f, IsSeq(f), NEW w
  PROVE  /\ HasCall(e \o f) <=> HasCall(e) \/ HasCall(f)
         /\ /\ \A i \in DOMAIN e : e[i].kind = "ToolCall" => CallIs(e[i], w)
            /\ \A i \in DOMAIN f : f[i].kind = "ToolCall" => CallIs(f[i], w)
            => \A i \in DOMAIN (e \o f) : (e \o f)[i].kind = "ToolCall" => CallIs((e \o f)[i], w)
<1> DEFINE g == e \o f
           m == Len(e)
           n == Len(f)
<1>1. /\ m \in Nat /\ n \in Nat /\ DOMAIN e = 1 .. m /\ DOMAIN f = 1 .. n BY Facts
<1>2. /\ IsSeq(g) /\ Len(g) = m + n
      /\ \A i \in 1 .. m : g[i] = e[i]
      /\ \A i \in 1 .. n : g[m + i] = f[i]
  BY JoinFacts
<1> HIDE DEF g, m, n
<1>3. DOMAIN g = 1 .. m + n BY <1>2, Facts
<1>4. /\ \A i \in 1 .. m : i \in 1 .. m + n
      /\ \A i \in 1 .. n : m + i \in 1 .. m + n
      /\ \A i \in 1 .. m + n : i \in 1 .. m \/ \E j \in 1 .. n : i = m + j
  <2>1. ASSUME NEW i \in 1 .. m + n, i \notin 1 .. m PROVE \E j \in 1 .. n : i = m + j
    <3>1. i - m \in 1 .. n /\ i = m + (i - m) BY ONLY <1>1, <2>1
    <3>2. QED BY ONLY <3>1, Zenon
  <2>2. /\ \A i \in 1 .. m : i \in 1 .. m + n
        /\ \A i \in 1 .. n : m + i \in 1 .. m + n
    BY ONLY <1>1
  <2>3. QED BY ONLY <2>1, <2>2, Zenon
<1>5. \A i \in 1 .. m + n : (\E j \in 1 .. m : g[i] = e[j]) \/ (\E j \in 1 .. n : g[i] = f[j])
  BY ONLY <1>2, <1>4, Zenon
<1>6. HasCall(g) => HasCall(e) \/ HasCall(f)
  <2>1. ASSUME NEW i \in 1 .. m + n, g[i].kind = "ToolCall"
        PROVE  \/ \E j \in 1 .. m : e[j].kind = "ToolCall"
               \/ \E j \in 1 .. n : f[j].kind = "ToolCall"
    BY ONLY <1>5, <2>1, Zenon
  <2>2. QED BY ONLY <1>1, <1>3, <2>1, Zenon DEF HasCall
<1>7. HasCall(e) => HasCall(g)
  <2>1. ASSUME NEW i \in 1 .. m, e[i].kind = "ToolCall" PROVE \E j \in 1 .. m + n : g[j].kind = "ToolCall"
    BY ONLY <1>2, <1>4, <2>1, Zenon
  <2>2. QED BY ONLY <1>1, <1>3, <2>1, Zenon DEF HasCall
<1>8. HasCall(f) => HasCall(g)
  <2>1. ASSUME NEW i \in 1 .. n, f[i].kind = "ToolCall" PROVE \E j \in 1 .. m + n : g[j].kind = "ToolCall"
    BY ONLY <1>2, <1>4, <2>1, Zenon
  <2>2. QED BY ONLY <1>1, <1>3, <2>1, Zenon DEF HasCall
<1>9. ASSUME \A i \in 1 .. m : e[i].kind = "ToolCall" => CallIs(e[i], w),
             \A i \in 1 .. n : f[i].kind = "ToolCall" => CallIs(f[i], w)
      PROVE  \A i \in 1 .. m + n : g[i].kind = "ToolCall" => CallIs(g[i], w)
  BY ONLY <1>5, <1>9, Zenon
<1>10. QED BY ONLY <1>1, <1>3, <1>6, <1>7, <1>8, <1>9, Zenon DEF g

\* Without a call in the chunks.
LEMMA NotCalled ==
  ASSUME NEW e, IsSeq(e), NEW w, NEW p, Called(e, w, p), NEW f, IsSeq(f), ~HasCall(f)
  PROVE  Called(e \o f, w, p)
<1>1. \A i \in DOMAIN f : f[i].kind = "ToolCall" => CallIs(f[i], w) BY DEF HasCall
<1>2. HasCall(e \o f) <=> HasCall(e) BY CallsJoin
<1>3. \A i \in DOMAIN (e \o f) : (e \o f)[i].kind = "ToolCall" => CallIs((e \o f)[i], w)
  BY <1>1, CallsJoin DEF Called
<1>4. QED BY ONLY <1>2, <1>3, Called(e, w, p), Zenon DEF Called

\* A token that is taken, or refused.
LEMMA TakenCalled ==
  ASSUME NEW e, IsSeq(e), ~HasCall(e), NEW w \in Seq(Tokens), NEW token \in Tokens,
         NEW p, NEW result, Takes(w, token, p, result), IsSeq(Chunks(result.events))
  PROVE  Called(e \o Chunks(result.events), Append(w, token), result.parser)
<1> DEFINE v == Append(w, token)
           chunks == Chunks(result.events)
           q == result.parser
<1>1. v # << >> /\ Last(v) = token
  <2>1. IsSeq(w) BY SeqIsSeq
  <2>2. QED BY <2>1, Appended
<1>2. \A i \in DOMAIN e : e[i].kind = "ToolCall" => CallIs(e[i], v) BY DEF HasCall
<1>3. IF token = "CALL" THEN q.kind = "Terminal" /\ \E c : chunks = <<c>> /\ CallIs(c, v)
      ELSE \A i \in DOMAIN chunks : chunks[i].kind # "ToolCall"
  BY DEF Takes
<1> HIDE DEF v, chunks, q
<1>4. HasCall(e \o chunks) <=> HasCall(chunks) BY CallsJoin DEF chunks
<1>5. CASE token = "CALL"
  <2>1. PICK c : chunks = <<c>> /\ CallIs(c, v) BY <1>3, <1>5
  <2>2. DOMAIN <<c>> = {1} /\ <<c>>[1] = c OBVIOUS
  <2>3. DOMAIN chunks = {1} /\ chunks[1] = c BY ONLY <2>1, <2>2, Zenon
  <2>4. HasCall(chunks) /\ \A i \in DOMAIN chunks : CallIs(chunks[i], v) BY <2>1, <2>3 DEF HasCall, CallIs
  <2>5. \A i \in DOMAIN (e \o chunks) : (e \o chunks)[i].kind = "ToolCall" => CallIs((e \o chunks)[i], v)
    BY <1>2, <2>4, CallsJoin DEF chunks
  <2>6. Called(e \o chunks, v, q) BY ONLY <1>1, <1>3, <1>4, <1>5, <2>4, <2>5, Zenon DEF Called
  <2>7. QED BY <2>6 DEF v, chunks, q
<1>6. CASE token # "CALL"
  <2>1. ~HasCall(chunks) BY <1>3, <1>6 DEF HasCall
  <2>2. \A i \in DOMAIN chunks : chunks[i].kind = "ToolCall" => CallIs(chunks[i], v) BY <1>3, <1>6
  <2>3. \A i \in DOMAIN (e \o chunks) : (e \o chunks)[i].kind = "ToolCall" => CallIs((e \o chunks)[i], v)
    BY <1>2, <2>2, CallsJoin DEF chunks
  <2>4. Called(e \o chunks, v, q) BY ONLY <1>1, <1>4, <1>6, <2>1, <2>3, Zenon DEF Called
  <2>5. QED BY <2>4 DEF v, chunks, q
<1>7. QED BY <1>5, <1>6

\* Behind no call there is none, as long as nothing is terminal.
LEMMA NeverCalled ==
  ASSUME NEW e, NEW w, NEW p, p.kind # "Terminal", Called(e, w, p), NEW v, NEW q, q.kind # "Terminal"
  PROVE  ~HasCall(e) /\ Called(e, v, q)
BY DEF Called, HasCall

-----------------------------------------------------------------------------
(* Every chunk is one.                                                     *)

\* One element of a set is a sequence over it.
LEMMA OneIn ==
  ASSUME NEW T, NEW x \in T
  PROVE  <<x>> \in Seq(T)
OBVIOUS

\* No element makes a sequence too.
LEMMA NoneIn == ASSUME NEW T PROVE << >> \in Seq(T)
OBVIOUS

\* The chunks without text,
LEMMA PlainChunks ==
  /\ [kind |-> "Role"] \in Chunk /\ [kind |-> "Failure"] \in Chunk
  /\ [kind |-> "Usage"] \in Chunk /\ [kind |-> "Done"] \in Chunk
  /\ \A reason \in Reasons : [kind |-> "Terminal", reason |-> reason] \in Chunk
BY DEF Chunk

\* and those with it.
LEMMA TextChunks ==
  ASSUME NEW text \in Seq(Letters), NEW kind \in {"Content", "Reasoning", "ToolCall"}
  PROVE  [kind |-> kind, text |-> text] \in Chunk
BY DEF Chunk

\* What a token that is taken says is made of chunks.
LEMMA TakenTyped ==
  ASSUME NEW w, NEW token, NEW p, NEW result, Takes(w, token, p, result), Speaks(result)
  PROVE  Chunks(result.events) \in Seq(Chunk)
<1> DEFINE chunks == Chunks(result.events)
<1>1. SaysText(chunks) \/ CallsTool(chunks) BY DEF Speaks
<1>2. \E told : Showing(chunks, told) BY Zenon DEF Takes, Accounts
<1>3. IF token = "CALL" THEN \E c : chunks = <<c>> /\ CallIs(c, Append(w, token))
      ELSE \A i \in DOMAIN chunks : chunks[i].kind # "ToolCall"
  BY DEF Takes
<1> HIDE DEF chunks
<1>4. CASE chunks = << >>
  <2>1. << >> \in Seq(Chunk) BY NoneIn
  <2>2. QED BY ONLY <1>4, <2>1, Zenon DEF chunks
<1>5. ASSUME NEW kind \in {"Content", "Reasoning", "ToolCall"}, NEW text,
             chunks = <<[kind |-> kind, text |-> text]>>
      PROVE  chunks \in Seq(Chunk)
  <2> DEFINE d == [kind |-> kind, text |-> text]
  <2>1. d.kind = kind /\ d.text = text OBVIOUS
  <2>2. <<d>>[1] = d /\ DOMAIN <<d>> = {1} /\ Len(<<d>>) = 1 OBVIOUS
  <2>3. chunks = <<d>> BY <1>5
  <2>4. d \in Chunk <=> d \in Chunk OBVIOUS
  <2> HIDE DEF d
  <2>5. chunks[1] = d /\ DOMAIN chunks = {1} /\ Len(chunks) = 1 BY ONLY <2>2, <2>3, Zenon
  <2>6. text \in Seq(Letters)
    <3>1. CASE kind = "ToolCall"
      <4>1. token = "CALL" BY <1>3, <2>1, <2>5, <3>1
      <4>2. PICK c : chunks = <<c>> /\ CallIs(c, Append(w, token)) BY <1>3, <4>1
      <4>3. <<c>>[1] = c OBVIOUS
      <4>4. c = d BY ONLY <2>5, <4>2, <4>3, Zenon
      <4>5. QED BY <2>1, <4>2, <4>4 DEF CallIs
    <3>2. CASE kind # "ToolCall"
      <4>1. IsText(d) BY <2>1, <3>2 DEF IsText
      <4>2. chunks # << >>
        <5>1. Len(<< >>) = 0 OBVIOUS
        <5>2. QED BY <2>5, <5>1
      <4>3. PICK c : chunks = <<c>> /\ GoodChunk(c) BY ONLY <1>2, <4>2, Zenon DEF Showing
      <4>4. <<c>>[1] = c OBVIOUS
      <4>5. c = d BY ONLY <2>5, <4>3, <4>4, Zenon
      <4>6. QED BY <2>1, <4>1, <4>3, <4>5 DEF GoodChunk
    <3>3. QED BY <3>1, <3>2
  <2>7. d \in Chunk BY <2>6, TextChunks DEF d
  <2>8. <<d>> \in Seq(Chunk) BY <2>7, OneIn
  <2>9. QED BY ONLY <2>3, <2>8, Zenon
<1>6. QED
  <2>1. chunks \in Seq(Chunk) BY <1>1, <1>4, <1>5 DEF SaysText, CallsTool, chunks
  <2>2. QED BY <2>1 DEF chunks

\* What is added and taken away.
LEMMA TailIn ==
  ASSUME NEW T, NEW s \in Seq(T), s # << >>
  PROVE  Head(s) \in T /\ Tail(s) \in Seq(T) /\ Len(Tail(s)) = Len(s) - 1 /\ Len(s) \in Nat \ {0}
OBVIOUS

\* The closure of a stream is made of chunks, of which none is text or a call.
LEMMA ClosureParts ==
  ASSUME NEW reason \in Reasons, NEW bill
  PROVE  LET c == Closure(<< >>, reason, bill)
         IN  /\ c \in Seq(Chunk) /\ c # << >>
             /\ \A i \in DOMAIN c : c[i].kind \in {"Terminal", "Usage", "Done"}
<1> DEFINE terminal == [kind |-> "Terminal", reason |-> reason]
           usage == [kind |-> "Usage"]
           done == [kind |-> "Done"]
           two == IF bill THEN <<usage>> ELSE << >>
           none == << >>
           T == {c \in Chunk : c.kind \in {"Terminal", "Usage", "Done"}}
<1>1. terminal \in T /\ usage \in T /\ done \in T BY PlainChunks
<1>2. Closure(<< >>, reason, bill) = ((none \o <<terminal>>) \o two) \o <<done>> BY DEF Closure
<1>3. two = <<usage>> \/ two = none OBVIOUS
<1>4. T \subseteq Chunk /\ \A c \in T : c.kind \in {"Terminal", "Usage", "Done"} OBVIOUS
<1>5. none \in Seq(T) BY NoneIn
<1> HIDE DEF terminal, usage, done, two, none, T
<1>6. <<terminal>> \in Seq(T) /\ <<usage>> \in Seq(T) /\ <<done>> \in Seq(T) BY <1>1, OneIn
<1>7. two \in Seq(T) BY <1>3, <1>5, <1>6
<1>8. none \o <<terminal>> \in Seq(T) BY ONLY <1>5, <1>6, JoinTyped
<1>9. (none \o <<terminal>>) \o two \in Seq(T) BY ONLY <1>7, <1>8, JoinTyped
<1>10. ((none \o <<terminal>>) \o two) \o <<done>> \in Seq(T) BY ONLY <1>6, <1>9, JoinTyped
<1> DEFINE c == Closure(<< >>, reason, bill)
<1>11. c \in Seq(T) BY ONLY <1>2, <1>10, Zenon
<1>12. c # << >> BY NothingIsSeq, ClosureIsSeq
<1> HIDE DEF c
<1>13. /\ c \in Seq(Chunk)
       /\ \A i \in DOMAIN c : c[i] \in T
  BY ONLY <1>4, <1>11
<1>14. \A i \in DOMAIN c : c[i].kind \in {"Terminal", "Usage", "Done"} BY ONLY <1>4, <1>13, Zenon
<1>15. QED BY <1>12, <1>13, <1>14 DEF c

\* Text and calls, together.
Reports(e, w, p) == Account(e, w, p) /\ Called(e, w, p)

-----------------------------------------------------------------------------
(* Account and calls together.                                             *)

\* Neither text nor call.
IsQuiet(c) == c.kind \in {"Role", "Terminal", "Usage", "Done", "Failure"}

\* Such a chunk changes nothing of it.
LEMMA SilentReport ==
  ASSUME NEW e, IsSeq(e), NEW w, NEW p, Reports(e, w, p),
         NEW c, IsQuiet(c)
  PROVE  IsSeq(e \o <<c>>) /\ Reports(e \o <<c>>, w, p)
<1>1. ~IsText(c) BY DEF IsText, IsQuiet
<1>2. Account(e, w, p) /\ Called(e, w, p) BY DEF Reports
<1>3. IsSeq(Append(e, c)) /\ Account(Append(e, c), w, p) BY ONLY <1>1, <1>2, IsSeq(e), SilentAccount, Zenon
<1>4. e \o <<c>> = Append(e, c) BY AppendFacts
<1>5. IsSeq(<<c>>) BY OneIsSeq
<1>6. ~HasCall(<<c>>)
  <2>1. DOMAIN <<c>> = {1} /\ <<c>>[1] = c OBVIOUS
  <2>2. QED BY <2>1 DEF HasCall, IsQuiet
<1>7. Called(e \o <<c>>, w, p) BY ONLY <1>2, <1>5, <1>6, IsSeq(e), NotCalled, Zenon
<1>8. QED BY ONLY <1>3, <1>4, <1>7, Zenon DEF Reports

\* Nor does what closes a stream.
LEMMA ClosureReport ==
  ASSUME NEW e, IsSeq(e), NEW w, NEW p, Reports(e, w, p), NEW reason, NEW bill
  PROVE  Reports(e \o Closure(<< >>, reason, bill), w, p)
<1> DEFINE terminal == [kind |-> "Terminal", reason |-> reason]
           usage == [kind |-> "Usage"]
           done == [kind |-> "Done"]
           none == << >>
           two == IF bill THEN <<usage>> ELSE none
           a == <<terminal>>
           z == <<done>>
<1>1. Closure(<< >>, reason, bill) = ((none \o a) \o two) \o z BY DEF Closure
<1>2. two = <<usage>> \/ two = none OBVIOUS
<1>3. IsQuiet(terminal) /\ IsQuiet(usage) /\ IsQuiet(done) BY DEF IsQuiet
<1>4. IsSeq(none) BY NothingIsSeq
<1>5. IsSeq(a) /\ IsSeq(z) /\ IsSeq(<<usage>>) BY OneIsSeq
<1> HIDE DEF terminal, usage, done, none
<1>6. IsSeq(two) BY <1>2, <1>4, <1>5
<1> HIDE DEF two, z, a
<1>7. none \o a = a BY <1>5, JoinFacts DEF none
<1>8. IsSeq(a \o two) /\ IsSeq(e \o a)
  BY <1>5, <1>6, JoinFacts
<1>9. IsRegrouped(e, a \o two, z) BY ONLY <1>5, <1>8, IsSeq(e), Associates, Zenon
<1>10. IsRegrouped(e, a, two) BY ONLY <1>5, <1>6, IsSeq(e), Associates, Zenon
<1>11. e \o Closure(<< >>, reason, bill) = ((e \o a) \o two) \o z
  BY ONLY <1>1, <1>7, <1>9, <1>10, Zenon DEF IsRegrouped
<1>12. IsSeq(e \o a) /\ Reports(e \o a, w, p)
  <2>1. IsSeq(e \o <<terminal>>) /\ Reports(e \o <<terminal>>, w, p)
    BY ONLY <1>3, IsSeq(e), Reports(e, w, p), SilentReport, Zenon
  <2>2. QED BY ONLY <2>1, Zenon DEF a
<1> DEFINE f == e \o a
           g == f \o two
<1>13. IsSeq(g) /\ Reports(g, w, p)
  <2> HIDE DEF f
  <2>1. IsSeq(f) /\ Reports(f, w, p) BY ONLY <1>12, Zenon DEF f
  <2>2. CASE two = none
    <3>1. f \o none = f BY <2>1, <1>4, JoinFacts DEF none
    <3>2. QED BY ONLY <2>1, <2>2, <3>1, Zenon
  <2>3. CASE two = <<usage>>
    <3>1. IsSeq(f \o <<usage>>) /\ Reports(f \o <<usage>>, w, p)
      BY ONLY <1>3, <2>1, SilentReport, Zenon
    <3>2. QED BY ONLY <2>3, <3>1, Zenon
  <2>4. QED BY <1>2, <2>2, <2>3
<1>14. Reports(g \o z, w, p)
  <2> HIDE DEF g
  <2>1. Reports(g \o <<done>>, w, p) BY ONLY <1>3, <1>13, SilentReport, Zenon
  <2>2. QED BY ONLY <2>1, Zenon DEF z
<1>15. QED BY ONLY <1>11, <1>14, Zenon DEF f, g

\* A token that is taken.
LEMMA TakenReport ==
  ASSUME NEW e, IsSeq(e), NEW w \in Seq(Tokens), NEW p, p.kind \in {"Header", "Content", "ExpectStart"},
         Reports(e, w, p), PlaceOf(w, p), NEW token \in Tokens, NEW result, Takes(w, token, p, result),
         IsSeq(Chunks(result.events))
  PROVE  Reports(e \o Chunks(result.events), Append(w, token), result.parser)
<1>1. Account(e, w, p) /\ Called(e, w, p) BY DEF Reports
<1>2. ~HasCall(e)
  <2>1. p.kind # "Terminal" OBVIOUS
  <2>2. QED BY ONLY <1>1, <2>1, NeverCalled, Zenon
<1>3. Account(e \o Chunks(result.events), Append(w, token), result.parser)
  BY <1>1, TakenAccount
<1>4. Called(e \o Chunks(result.events), Append(w, token), result.parser)
  BY <1>2, TakenCalled
<1>5. QED BY ONLY <1>3, <1>4, Zenon DEF Reports

\* A token that is refused.
LEMMA RefusedReport ==
  ASSUME NEW e, IsSeq(e), NEW w \in Seq(Tokens), NEW p, p.kind \in {"Header", "Content", "ExpectStart"},
         Reports(e, w, p), NEW token \in Tokens, NEW q, q.kind = "Failed"
  PROVE  Reports(e \o <<FailureChunk>>, Append(w, token), q)
<1>1. Account(e, w, p) /\ Called(e, w, p) BY DEF Reports
<1>2. p.kind # "Terminal" /\ q.kind # "Terminal" OBVIOUS
<1>3. Account(e, Append(w, token), q) BY <1>1, RefusedAccount
<1>4. Called(e, Append(w, token), q) BY ONLY <1>1, <1>2, NeverCalled, Zenon
<1>5. Reports(e, Append(w, token), q) BY ONLY <1>3, <1>4, Zenon DEF Reports
<1> DEFINE c == FailureChunk
<1>6. IsQuiet(c) BY DEF FailureChunk, IsQuiet
<1> HIDE DEF c
<1>7. Reports(e \o <<c>>, Append(w, token), q) BY ONLY <1>5, <1>6, IsSeq(e), SilentReport, Zenon
<1>8. QED BY <1>7 DEF c

\* A completion that is cut off.
LEMMA CutReport ==
  ASSUME NEW e, NEW w, NEW p, Reports(e, w, p), p.kind \in {"Header", "Content", "ExpectStart"},
         PlaceOf(w, p), NEW q, q.kind \in {"Truncated", "Failed"}
  PROVE  Reports(e, w, q)
<1>1. Account(e, w, p) /\ Called(e, w, p) BY DEF Reports
<1>2. p.kind # "Terminal" /\ q.kind # "Terminal" OBVIOUS
<1>3. Account(e, w, q) BY <1>1, CutAccount
<1>4. Called(e, w, q) BY ONLY <1>1, <1>2, NeverCalled, Zenon
<1>5. QED BY ONLY <1>3, <1>4, Zenon DEF Reports

\* A failure that is told.
LEMMA FailureReport ==
  ASSUME NEW e, IsSeq(e), NEW w, NEW p, Reports(e, w, p)
  PROVE  Reports(e \o <<FailureChunk>>, w, p)
<1> DEFINE c == FailureChunk
<1>1. IsQuiet(c) BY DEF FailureChunk, IsQuiet
<1> HIDE DEF c
<1>2. Reports(e \o <<c>>, w, p) BY ONLY <1>1, IsSeq(e), Reports(e, w, p), SilentReport, Zenon
<1>3. QED BY <1>2 DEF c

\* Nothing is written and nothing sent but the role.
LEMMA FirstReport == Reports(<<RoleChunk>>, << >>, NewParser)
<1> DEFINE c == RoleChunk
           none == << >>
           p == NewParser
<1>1. IsQuiet(c) BY DEF RoleChunk, IsQuiet
<1>2. p.kind = "Header" BY DEF NewParser, Header
<1>3. IsSeq(none) /\ none \in Seq(Glyphs) BY NothingIsSeq
<1>4. DOMAIN none = {} /\ none \o none = none OBVIOUS
<1>5. ReadIn(none) = none /\ Shown(none) = none
  <2>1. [i \in DOMAIN none |-> SegmentIn(none, i)] = none
    OBVIOUS
  <2>2. [i \in DOMAIN none |-> ShownOf(none[i])] = none OBVIOUS
  <2>3. ReadIn(none) = FlattenSeq([i \in DOMAIN none |-> SegmentIn(none, i)]) BY DEF ReadIn
  <2>4. Shown(none) = FlattenSeq([i \in DOMAIN none |-> ShownOf(none[i])]) BY DEF Shown
  <2>5. FlattenSeq(none) = none BY FlattenNone
  <2> HIDE DEF none
  <2>6. QED BY ONLY <2>1, <2>2, <2>3, <2>4, <2>5, Zenon
<1>6. Unread(p) = none BY <1>2 DEF Unread
<1>7. Fits(none, none) BY FitsSame
<1>8. none \o <<c>> = <<c>>
  <2>1. IsSeq(<<c>>) BY OneIsSeq
  <2>2. QED BY <2>1, <1>3, JoinFacts
<1>9. none = none /\ ~(none # << >>) OBVIOUS
<1> HIDE DEF c, p, none
<1>10. p.kind # "Truncated" BY <1>2
<1>11. Account(none, none, p)
  <2>1. \A i \in DOMAIN none : GoodChunk(none[i]) BY ONLY <1>4, Zenon
  <2>2. ReadIn(none) = none \o none /\ Fits(Shown(none), none) BY ONLY <1>4, <1>5, <1>7, Zenon
  <2>3. QED BY ONLY <1>3, <1>6, <1>10, <2>1, <2>2, Zenon DEF Account
<1>12. Called(none, none, p) BY ONLY <1>4, <1>9, Zenon DEF Called, HasCall
<1>13. Reports(none, none, p) BY ONLY <1>11, <1>12, Zenon DEF Reports
<1>14. Reports(none \o <<c>>, none, p) BY ONLY <1>1, <1>3, <1>13, SilentReport, Zenon
<1>15. Reports(<<c>>, none, p) BY ONLY <1>8, <1>14, Zenon
<1>16. QED BY <1>15 DEF c, none, p

-----------------------------------------------------------------------------
(* What is reported, throughout.                                           *)

\* The parser stands where the completion does, and has ended as a stop token lets it.
Placed ==
  /\ PlaceOf(written, parser)
  /\ parser.kind = "Terminal" => parser.reason \in {"Return", "ToolCall"}

\* Once answered, a client leaves nothing behind that is still to be sent, and a task that
\* listens no more.
Answered == client = "answered" => outbox = << >> /\ ~Listening

\* To a reader who is there, all of the completion has been sent that is not held back.
Reported == client # "gone" => Reports(Emitted, written, parser)

\* The inductive invariant of StreamExact.
Exact == Spoken /\ TypeOK /\ Placed /\ Answered /\ Reported

\* All that was sent is a sequence.
LEMMA EmittedIs ==
  ASSUME TypeOK
  PROVE  IsSeq(Emitted)
<1>1. received \in Seq(Chunk) /\ responses \in Seq(Chunk) /\ outbox \in Seq(Chunk) BY DEF TypeOK
<1>2. IsSeq(received) /\ IsSeq(responses) /\ IsSeq(outbox) BY <1>1, SeqIsSeq
<1>3. IsSeq(received \o responses) BY <1>2, JoinFacts
<1>4. IsSeq((received \o responses) \o outbox) BY <1>2, <1>3, JoinFacts
<1>5. QED BY <1>4 DEF Emitted

\* One lemma per action for Exact, and for what several of them do.
LEMMA InitExact == Init => Exact
<1> SUFFICES ASSUME Init PROVE Exact OBVIOUS
<1>1. Spoken BY InitSpoken
<1>2. /\ written = << >> /\ parser = NewParser /\ client = "reading" /\ task = "sending"
      /\ received = << >> /\ responses = << >> /\ outbox = <<RoleChunk>>
  BY DEF Init
<1>3. parser.kind = "Header" BY <1>2 DEF NewParser, Header
<1>4. Placed BY <1>2, <1>3, PlaceFirst DEF Placed
<1>5. Answered BY <1>2 DEF Answered
<1>6. outbox \in Seq(Chunk) /\ outbox # << >>
  <2>1. RoleChunk \in Chunk BY PlainChunks DEF RoleChunk
  <2>2. <<RoleChunk>> \in Seq(Chunk) BY <2>1, OneIn
  <2>3. <<RoleChunk>> # << >>
    <3> DEFINE c == RoleChunk
    <3> HIDE DEF c
    <3>1. Len(<<c>>) = 1 /\ Len(<< >>) = 0 OBVIOUS
    <3>2. <<c>> # << >> BY <3>1
    <3>3. QED BY <3>2 DEF c
  <2>4. QED BY ONLY <1>2, <2>2, <2>3, Zenon
<1>7. TypeOK
  <2>1. << >> \in Seq(Chunk) /\ << >> \in Seq(Tokens) /\ Len(<< >>) = 0 BY NoneIn
  <2>2. written \in Seq(Tokens) /\ responses \in Seq(Chunk) /\ received \in Seq(Chunk)
        /\ Len(written) = 0 /\ Len(responses) = 0
    BY <1>2, <2>1
  <2>3. /\ {streamed, includeUsage, cancelled} \subseteq BOOLEAN
        /\ budget \in Budgets /\ engine = "queued" /\ ending = "none"
        /\ stopReason = None /\ answer = None
    BY DEF Init
  <2>4. Len(written) <= budget /\ Len(responses) <= ResponseCapacity
    BY <2>2, <2>3, ResponseAssumption
  <2>5. QED BY <1>2, <1>3, <1>6, <2>2, <2>3, <2>4 DEF TypeOK
<1>8. Reports(Emitted, written, parser)
  <2>1. Reports(<<RoleChunk>>, << >>, NewParser) BY FirstReport
  <2>2. Emitted = outbox
    <3>1. IsSeq(<< >>) /\ IsSeq(outbox) BY <1>6, NothingIsSeq, SeqIsSeq
    <3>2. << >> \o << >> = << >> /\ << >> \o outbox = outbox BY <3>1, JoinFacts
    <3>3. QED BY <1>2, <3>2 DEF Emitted
  <2>3. QED BY ONLY <1>2, <2>1, <2>2, Zenon
<1>9. QED BY <1>1, <1>4, <1>5, <1>7, <1>8 DEF Exact, Reported

\* The types that Spoken does not settle.
Typed ==
  /\ {streamed, includeUsage, cancelled} \subseteq BOOLEAN
  /\ budget \in Budgets
  /\ engine \in {"queued", "running", "over"}
  /\ written \in Seq(Tokens) /\ Len(written) <= budget
  /\ parser.kind \in {"Header", "Content", "ExpectStart", "Terminal", "Truncated", "Failed"}
  /\ outbox \in Seq(Chunk)
  /\ stopReason \in {None, "Return", "ToolCall", "Length"}
  /\ responses \in Seq(Chunk) /\ Len(responses) <= ResponseCapacity
  /\ received \in Seq(Chunk)
  /\ answer \in {None, "response", "error"}

\* Together with Spoken they are TypeOK.
LEMMA TypedIs == Spoken => (TypeOK <=> Typed)
BY DEF TypeOK, Typed, Spoken, IInv, Endings, Guarded

\* The same of the next state.
LEMMA TypedIsNext == Spoken' => (TypeOK' <=> Typed')
BY TypedIs, PTL

\* Whatever leaves the completion and what was sent of it alone.
LEMMA KeepsExact ==
  ASSUME Exact, Spoken', Typed', Answered', UNCHANGED <<written, parser>>,
         client' # "gone" => client # "gone" /\ Emitted' = Emitted
  PROVE  Exact'
BY TypedIsNext DEF Exact, Placed, Reported

\* Admission touches none of it.
LEMMA AdmitExact == Exact /\ Admit => Exact'
<1> SUFFICES ASSUME Exact, Admit PROVE Exact' OBVIOUS
<1>1. Spoken' BY NextSpoken DEF Exact, Next
<1>2. /\ engine = "queued" /\ engine' = "running"
      /\ UNCHANGED <<streamed, includeUsage, budget, written, parser, task, outbox, ending, stopReason,
                     responses, cancelled, client, received, answer>>
  BY DEF Admit, request, reader
<1>3. Typed' BY <1>2, TypedIs DEF Exact, Typed
<1>4. Answered' BY <1>2 DEF Exact, Answered, Listening
<1>5. Emitted' = Emitted BY <1>2 DEF Emitted
<1>6. QED BY <1>1, <1>2, <1>3, <1>4, <1>5, KeepsExact

\* Who leaves is owed nothing.
LEMMA LeaveExact == Exact /\ Leave => Exact'
<1> SUFFICES ASSUME Exact, Leave PROVE Exact' OBVIOUS
<1>1. Spoken' BY NextSpoken DEF Exact, Next
<1>2. /\ client' = "gone" /\ responses' = << >>
      /\ UNCHANGED <<streamed, includeUsage, budget, engine, written, parser, task, outbox, ending, stopReason,
                     cancelled, received, answer>>
  BY DEF Leave, request
<1>3. responses' \in Seq(Chunk) /\ Len(responses') <= ResponseCapacity
  BY <1>2, NoneIn, ResponseAssumption
<1>4. Typed' BY <1>2, <1>3, TypedIs DEF Exact, Typed
<1>5. Answered' BY <1>2 DEF Answered
<1>6. QED BY <1>1, <1>2, <1>4, <1>5, KeepsExact

\* An answer is assembled when everything was sent.
LEMMA AssembleExact == Exact /\ Assemble => Exact'
<1> SUFFICES ASSUME Exact, Assemble PROVE Exact' OBVIOUS
<1>1. Spoken' BY NextSpoken DEF Exact, Next
<1>2. /\ client = "reading" /\ client' = "answered" /\ task = "ended"
      /\ answer' \in {answer, "response", "error"}
      /\ UNCHANGED <<streamed, includeUsage, budget, engine, written, parser, task, outbox, ending, stopReason,
                     responses, cancelled, received>>
  BY DEF Assemble, request
<1>3. Typed' BY <1>2, TypedIs DEF Exact, Typed
<1>4. outbox = << >> BY <1>2 DEF Exact, Spoken
<1>5. Answered' BY <1>2, <1>4 DEF Answered, Listening
<1>6. Emitted' = Emitted BY <1>2 DEF Emitted
<1>7. QED BY <1>1, <1>2, <1>3, <1>5, <1>6, KeepsExact

\* Nothing happens.
LEMMA StutterExact == Exact /\ (Over \/ UNCHANGED vars) => Exact'
<1> SUFFICES ASSUME Exact, Over \/ UNCHANGED vars PROVE Exact' OBVIOUS
<1>1. UNCHANGED vars BY DEF Over
<1>2. Spoken' BY <1>1, NextSpoken DEF Exact
<1>3. UNCHANGED <<streamed, includeUsage, budget, engine, written, parser, task, outbox, ending, stopReason,
                  responses, cancelled, client, received, answer>>
  BY <1>1 DEF vars, request, reader
<1>4. Typed' BY <1>3, TypedIs DEF Exact, Typed
<1>5. Answered' BY <1>3 DEF Exact, Answered, Listening
<1>6. Emitted' = Emitted BY <1>3 DEF Emitted
<1>7. QED BY <1>2, <1>3, <1>4, <1>5, <1>6, KeepsExact

\* A send that succeeds or is ignored leaves an outbox of chunks.
LEMMA SentTyped ==
  ASSUME Exact, task = "sending", Sent
  PROVE  outbox' \in Seq(Chunk) /\ cancelled' \in BOOLEAN
<1>1. outbox' = Tail(outbox) BY SentTakes DEF Exact
<1>2. outbox \in Seq(Chunk) /\ outbox # << >> BY DEF Exact, TypeOK
<1>3. Tail(outbox) \in Seq(Chunk) BY <1>2, TailIn
<1>4. cancelled' \in BOOLEAN
  <2>1. cancelled \in BOOLEAN BY DEF Exact, TypeOK
  <2>2. cancelled' = cancelled \/ cancelled' = (ending \notin {"complete", "told"}) BY DEF Sent, Ends
  <2>3. (ending \notin {"complete", "told"}) \in BOOLEAN OBVIOUS
  <2>4. QED BY <2>1, <2>2, <2>3, Zenon
<1>5. QED BY ONLY <1>1, <1>3, <1>4, Zenon

\* What was the outbox's first is the channel's last.
LEMMA SendKeeps ==
  ASSUME Spoken, Send
  PROVE  Emitted' = Emitted
<1>1. /\ task = "sending" /\ Sent /\ responses' = Append(responses, Head(outbox)) /\ received' = received
  BY DEF Send, reader
<1>2. outbox' = Tail(outbox) BY <1>1, SentTakes
<1>3. /\ IsSeq(received) /\ IsSeq(responses) /\ IsSeq(outbox) /\ outbox # << >>
  BY <1>1 DEF Spoken, IInv
<1> DEFINE s == received \o responses
           one == <<Head(outbox)>>
<1>4. IsSeq(s) /\ IsSeq(one) BY <1>3, JoinFacts, OneIsSeq
<1>5. Append(responses, Head(outbox)) = responses \o one BY <1>3, AppendFacts
<1>6. received \o (responses \o one) = s \o one BY <1>3, <1>4, JoinFacts
<1>7. s \o one = Append(s, Head(outbox)) BY <1>4, AppendFacts
<1>8. Append(s, Head(outbox)) \o Tail(outbox) = s \o outbox BY <1>3, <1>4, MovingOn
<1>9. Emitted' = (received \o (responses \o one)) \o Tail(outbox) BY <1>1, <1>2, <1>5 DEF Emitted
<1>10. Emitted = s \o outbox BY DEF Emitted
<1> HIDE DEF s, one
<1>11. QED BY ONLY <1>6, <1>7, <1>8, <1>9, <1>10, Zenon

\* Sending moves a chunk on.
LEMMA SendExact == Exact /\ Send => Exact'
<1> SUFFICES ASSUME Exact, Send PROVE Exact' OBVIOUS
<1>1. Spoken' BY NextSpoken DEF Exact, Next
<1>2. /\ task = "sending" /\ Sent /\ client = "reading" /\ Len(responses) < ResponseCapacity
      /\ responses' = Append(responses, Head(outbox))
      /\ UNCHANGED <<streamed, includeUsage, budget, engine, written, parser, ending, stopReason,
                     client, received, answer>>
  BY DEF Send, request, reader
<1>3. outbox' \in Seq(Chunk) /\ cancelled' \in BOOLEAN BY <1>2, SentTyped
<1>4. responses' \in Seq(Chunk) /\ Len(responses') <= ResponseCapacity
  <2>1. outbox \in Seq(Chunk) /\ outbox # << >> /\ responses \in Seq(Chunk) BY <1>2 DEF Exact, TypeOK
  <2>2. Head(outbox) \in Chunk BY <2>1, TailIn
  <2>3. /\ Append(responses, Head(outbox)) \in Seq(Chunk)
        /\ Len(Append(responses, Head(outbox))) = Len(responses) + 1
    BY <2>1, <2>2, AppendIn
  <2>4. Len(responses) \in Nat /\ ResponseCapacity \in Nat BY <2>1, ResponseAssumption
  <2>5. QED BY <1>2, <2>3, <2>4
<1>5. Typed' BY <1>2, <1>3, <1>4, TypedIs DEF Exact, Typed
<1>6. Answered' BY <1>2 DEF Answered
<1>7. Emitted' = Emitted BY SendKeeps DEF Exact
<1>8. QED BY <1>1, <1>2, <1>5, <1>6, <1>7, KeepsExact

\* A send fails only behind a reader who has left.
LEMMA SendFailsExact == Exact /\ SendFails => Exact'
<1> SUFFICES ASSUME Exact, SendFails PROVE Exact' OBVIOUS
<1>1. Spoken' BY NextSpoken DEF Exact, Next
<1>2. /\ task = "sending" /\ client # "reading"
      /\ UNCHANGED <<streamed, includeUsage, budget, engine, written, parser, ending, stopReason,
                     responses, client, received, answer>>
  BY DEF SendFails, request, reader
<1>3. client = "gone"
  <2>1. outbox # << >> BY <1>2 DEF Exact, Spoken
  <2>2. client # "answered" BY <2>1 DEF Exact, Answered
  <2>3. QED BY <1>2, <2>2 DEF Exact, TypeOK
<1>4. outbox' \in Seq(Chunk) /\ cancelled' \in BOOLEAN
  <2>1. CASE Sent BY <1>2, <2>1, SentTyped
  <2>2. CASE Ends("abandoned")
    <3>1. outbox' = << >> /\ cancelled' = ("abandoned" \notin {"complete", "told"}) BY <2>2 DEF Ends
    <3>2. QED BY <3>1, NoneIn
  <2>3. QED BY <2>1, <2>2 DEF SendFails
<1>5. Typed' BY <1>2, <1>4, TypedIs DEF Exact, Typed
<1>6. Answered' BY <1>2, <1>3 DEF Answered
<1>7. QED BY <1>1, <1>2, <1>3, <1>5, <1>6, KeepsExact

\* Nothing follows a failure.
LEMMA FailureIsLast ==
  ASSUME NEW s, NEW bill, Stands(s, bill), NEW i \in DOMAIN s, s[i].kind = "Failure"
  PROVE  i = Len(s)
<1>1. IsSeq(s) /\ InOrder(s, bill) BY DEF Stands
<1>2. Len(s) \in Nat /\ DOMAIN s = 1 .. Len(s) BY <1>1, Facts
<1>3. SUFFICES ASSUME i # Len(s) PROVE FALSE OBVIOUS
<1>4. i + 1 \in DOMAIN s /\ i + 1 > 1 /\ (i + 1) - 1 = i BY <1>2, <1>3
<1>5. Follows(s[(i + 1) - 1], s[i + 1], bill) BY <1>1, <1>4 DEF InOrder
<1>6. Follows(s[i], s[i + 1], bill) BY <1>4, <1>5
<1>7. QED BY <1>6 DEF Follows, Talk

\* A failure that is there to be read is all there is to be read or sent, and the task
\* listens no more.
LEMMA FailureWaits ==
  ASSUME Spoken, client = "reading", responses # << >>, Head(responses).kind = "Failure"
  PROVE  Tail(responses) = << >> /\ outbox = << >> /\ ~Listening
<1> DEFINE n == Len(received)
           m == Len(responses)
           s == received \o responses
           h == Head(responses)
<1>1. IsSeq(received) /\ IsSeq(responses) /\ IsSeq(outbox) BY DEF Spoken, IInv
<1>2. Heard BY DEF Spoken
<1>3. Stands(Emitted, includeUsage) /\ IsSeq(Emitted) BY <1>2 DEF Heard, Stands
<1>4. /\ n \in Nat /\ m \in Nat /\ m > 0 /\ h = responses[1] /\ Len(outbox) \in Nat
      /\ outbox # << >> <=> Len(outbox) > 0
  BY <1>1, Facts
<1>5. /\ IsSeq(s) /\ Len(s) = n + m
      /\ \A i \in 1 .. m : s[n + i] = responses[i]
  BY <1>1, JoinFacts
<1>6. Emitted = s \o outbox BY DEF Emitted
<1> HIDE DEF s, h, n, m
<1>7. /\ Len(Emitted) = Len(s) + Len(outbox)
      /\ \A i \in 1 .. Len(s) : Emitted[i] = s[i]
      /\ DOMAIN Emitted = 1 .. Len(Emitted)
  BY <1>1, <1>3, <1>5, <1>6, Facts, JoinFacts
<1>8. n + 1 \in DOMAIN Emitted /\ Emitted[n + 1].kind = "Failure"
  <2>1. 1 \in 1 .. m /\ n + 1 \in 1 .. Len(s) BY <1>4, <1>5
  <2>2. s[n + 1] = h BY <1>4, <1>5, <2>1
  <2>3. n + 1 \in 1 .. Len(Emitted) BY <1>4, <1>5, <1>7, <2>1
  <2>4. h.kind = "Failure" BY DEF h
  <2>5. Emitted[n + 1] = h BY ONLY <1>7, <2>1, <2>2
  <2>6. QED BY ONLY <1>7, <2>3, <2>4, <2>5
<1>9. n + 1 = Len(Emitted) BY <1>3, <1>8, FailureIsLast
<1>10. m = 1 /\ Len(outbox) = 0 BY <1>4, <1>5, <1>7, <1>9
<1>11. Tail(responses) = << >> /\ outbox = << >>
  <2>1. Tail(responses) # << >> <=> m > 1 BY <1>1, HeadAndTail DEF m
  <2>2. ~(m > 1) /\ ~(Len(outbox) > 0) BY ONLY <1>10, SMT
  <2>3. QED BY ONLY <1>4, <2>1, <2>2, Zenon
<1>12. Last(Emitted).kind = "Failure"
  <2>1. Emitted # << >> BY <1>3 DEF Stands
  <2>2. Last(Emitted) = Emitted[Len(Emitted)] BY <1>3, <2>1, Facts
  <2>3. QED BY <1>8, <1>9, <2>2
<1>13. ending # "none"
  BY <1>2, <1>12 DEF Heard, Saying, Talk
<1>14. ~Listening BY <1>13 DEF Spoken, IInv, Endings, Listening
<1>15. QED BY <1>11, <1>14

\* Reading moves a chunk on, or is the end of it.
LEMMA ReadExact == Exact /\ Read => Exact'
<1> SUFFICES ASSUME Exact, Read PROVE Exact' OBVIOUS
<1>1. Spoken' BY NextSpoken DEF Exact, Next
<1>2. /\ client = "reading" /\ responses # << >>
      /\ received' = Append(received, Head(responses))
      /\ UNCHANGED <<streamed, includeUsage, budget, engine, written, parser, task, outbox, ending, stopReason,
                     cancelled>>
      /\ answer' \in {answer, "error"}
      /\ \/ client' = "answered" /\ responses' = << >> /\ Head(responses).kind = "Failure"
         \/ client' = "reading" /\ responses' = Tail(responses)
  BY DEF Read, request
<1>3. ASSUME client' = "answered"
      PROVE  responses' = Tail(responses) /\ outbox = << >> /\ ~Listening
  <2>1. responses' = << >> /\ Head(responses).kind = "Failure" BY <1>2, <1>3
  <2>2. Tail(responses) = << >> /\ outbox = << >> /\ ~Listening BY <1>2, <2>1, FailureWaits DEF Exact
  <2>3. QED BY <2>1, <2>2
<1>4. responses' = Tail(responses) BY <1>2, <1>3
<1>5. /\ responses \in Seq(Chunk) /\ received \in Seq(Chunk) /\ Len(responses) <= ResponseCapacity
  BY DEF Exact, TypeOK
<1>6. /\ responses' \in Seq(Chunk) /\ Len(responses') <= ResponseCapacity /\ received' \in Seq(Chunk)
  <2>1. /\ Head(responses) \in Chunk /\ Tail(responses) \in Seq(Chunk)
        /\ Len(Tail(responses)) = Len(responses) - 1 /\ Len(responses) \in Nat \ {0}
    BY <1>2, <1>5, TailIn
  <2>2. Append(received, Head(responses)) \in Seq(Chunk) BY <1>5, <2>1, AppendIn
  <2>3. QED BY <1>2, <1>4, <1>5, <2>1, <2>2, ResponseAssumption
<1>7. Typed' BY <1>2, <1>6, TypedIs DEF Exact, Typed
<1>8. Answered' BY <1>2, <1>3 DEF Answered, Listening
<1>9. Emitted' = Emitted
  <2>1. IsSeq(received) /\ IsSeq(responses) BY DEF Exact, Spoken, IInv
  <2>2. Append(received, Head(responses)) \o Tail(responses) = received \o responses
    BY <1>2, <2>1, MovingOn
  <2>3. QED BY <1>2, <1>4, <2>2 DEF Emitted
<1>10. QED BY <1>1, <1>2, <1>7, <1>8, <1>9, KeepsExact

\* What the task takes on is typed and accounted for.
LEMMA TakesOn ==
  ASSUME Exact, Listening, Spoken', UNCHANGED <<request, responses, cancelled, reader>>,
         engine' \in {"running", "over"},
         written' \in Seq(Tokens), Len(written') <= budget,
         parser'.kind \in {"Header", "Content", "ExpectStart", "Terminal", "Truncated", "Failed"},
         stopReason' \in {None, "Return", "ToolCall", "Length"},
         outbox' \in Seq(Chunk), Placed',
         Reports(Emitted, written, parser) => Reports(Emitted \o outbox', written', parser')
  PROVE  Exact'
<1>1. UNCHANGED <<streamed, includeUsage, budget, responses, cancelled, client, received, answer>>
  BY DEF request, reader
<1>2. Typed' BY <1>1, TypedIs DEF Exact, Typed
<1>3. client # "answered" BY DEF Exact, Answered
<1>4. IsSeq(outbox') BY SeqIsSeq
<1>5. Emitted' = Emitted \o outbox' BY <1>1, <1>4, TakenOn DEF Exact, Listening
<1>6. Reported' BY <1>1, <1>5 DEF Exact, Reported
<1>7. Answered' BY <1>1, <1>3 DEF Answered
<1>8. QED BY <1>2, <1>6, <1>7, TypedIsNext DEF Exact

\* A failure is one chunk.
LEMMA FailureTyped == <<FailureChunk>> \in Seq(Chunk)
<1>1. FailureChunk \in Chunk BY PlainChunks DEF FailureChunk
<1>2. QED BY <1>1, OneIn

\* A failure that is told adds nothing but itself.
LEMMA EndToldExact == Exact /\ (Told \/ Dropped) => Exact'
<1> SUFFICES ASSUME Exact, Told \/ Dropped PROVE Exact' OBVIOUS
<1>1. Spoken' BY NextSpoken DEF Exact, Next
<1>2. /\ Listening /\ engine' = "over" /\ outbox' = <<FailureChunk>>
      /\ UNCHANGED <<written, parser, stopReason>>
      /\ UNCHANGED <<request, responses, cancelled, reader>>
  BY DEF Told, Dropped, Fails, Sends
<1>3. Typed BY TypedIs DEF Exact
<1>4. outbox' \in Seq(Chunk) BY <1>2, FailureTyped
<1>5. Placed' BY <1>2 DEF Exact, Placed
<1>6. Reports(Emitted, written, parser) => Reports(Emitted \o outbox', written', parser')
  <2>1. IsSeq(Emitted) BY EmittedIs DEF Exact
  <2>2. QED BY <1>2, <2>1, FailureReport
<1>7. QED BY <1>1, <1>2, <1>3, <1>4, <1>5, <1>6, TakesOn DEF Typed

\* A token is accounted for, or refused.
LEMMA RawExact ==
  ASSUME Exact, NEW token \in Tokens, Raw(token)
  PROVE  Exact'
<1>1. Spoken' BY NextSpoken DEF Exact, Next
<1>2. /\ engine = "running" /\ Listening /\ ending = "none" /\ ~IsComplete
      /\ parser.kind \in {"Header", "Content", "ExpectStart"}
  BY DEF Exact, Spoken, IInv, Raw, Listening, Endings, Agree, IsComplete
<1>3. PICK result \in Process(parser, token) :
        /\ parser' = result.parser
        /\ IF result.ok
           THEN /\ Sends(Chunks(result.events), "none")
                /\ stopReason' = StopReasonAfter(result.events)
           ELSE Fails /\ UNCHANGED stopReason
  BY DEF Raw
<1>4. /\ written' = Append(written, token) /\ engine' = engine
      /\ UNCHANGED <<request, responses, cancelled, reader>>
  BY DEF Raw
<1>5. Typed BY TypedIs DEF Exact
<1>6. IsSeq(Emitted) BY EmittedIs DEF Exact
<1>7. written' \in Seq(Tokens) /\ Len(written') <= budget
  <2>1. written \in Seq(Tokens) /\ Len(written) <= budget /\ Len(written) # budget /\ budget \in Nat
    BY <1>2, <1>5, ResponseAssumption DEF Typed, IsComplete
  <2>2. Append(written, token) \in Seq(Tokens) /\ Len(Append(written, token)) = Len(written) + 1
    BY <2>1, AppendIn
  <2>3. Len(written) \in Nat BY <2>1
  <2>4. QED BY <1>4, <2>1, <2>2, <2>3
<1>8. PlaceOf(written, parser) /\ written \in Seq(Tokens) BY <1>5 DEF Exact, Placed, Typed
<1>9. IF result.ok THEN Takes(written, token, parser, result) ELSE result.parser.kind = "Failed"
  BY <1>2, <1>8, ProcessStep
<1>10. CASE result.ok
  <2> DEFINE chunks == Chunks(result.events)
  <2>1. Takes(written, token, parser, result) BY <1>9, <1>10
  <2>2. Speaks(result) BY <1>2, <1>10, ProcessedSpeaks
  <2>3. outbox' = chunks /\ ending' = "none" BY <1>3, <1>10 DEF Sends
  <2>4. chunks \in Seq(Chunk) BY <2>1, <2>2, TakenTyped
  <2>5. result.parser.kind \in {"Header", "Content", "ExpectStart", "Terminal"}
        /\ PlaceOf(Append(written, token), result.parser)
    BY <2>1 DEF Takes
  <2>6. result.parser.kind = "Terminal" => result.parser.reason \in {"Return", "ToolCall"}
    BY <2>2 DEF Speaks
  <2>7. Placed' BY <1>3, <1>4, <2>5, <2>6 DEF Placed
  <2>8. stopReason' \in {None, "Return", "ToolCall", "Length"}
    <3>1. stopReason' = IF parser'.kind = "Terminal" THEN parser'.reason ELSE None
      BY <1>1, <1>2, <1>4, <2>3 DEF Spoken, IInv, Agree
    <3>2. QED BY <1>3, <2>6, <3>1
  <2>9. IsSeq(chunks) BY <2>4, SeqIsSeq
  <2>10. Reports(Emitted, written, parser) => Reports(Emitted \o chunks, Append(written, token), result.parser)
    BY <1>2, <1>6, <1>8, <2>1, <2>9, TakenReport
  <2> HIDE DEF chunks
  <2>11. /\ parser'.kind \in {"Header", "Content", "ExpectStart", "Terminal", "Truncated", "Failed"}
         /\ outbox' \in Seq(Chunk) /\ engine' \in {"running", "over"}
         /\ Reports(Emitted, written, parser) => Reports(Emitted \o outbox', written', parser')
    BY <1>2, <1>3, <1>4, <2>3, <2>4, <2>5, <2>10
  <2>12. QED BY <1>1, <1>2, <1>4, <1>7, <2>7, <2>8, <2>11, TakesOn
<1>11. CASE ~result.ok
  <2>1. parser'.kind = "Failed" BY <1>3, <1>9, <1>11
  <2>2. outbox' = <<FailureChunk>> /\ stopReason' = stopReason BY <1>3, <1>11 DEF Fails, Sends
  <2>3. Placed' BY <2>1 DEF Placed, PlaceOf
  <2>4. Reports(Emitted, written, parser) => Reports(Emitted \o <<FailureChunk>>, written', parser')
    BY <1>2, <1>4, <1>6, <1>8, <2>1, RefusedReport
  <2>5. outbox' \in Seq(Chunk) BY <2>2, FailureTyped
  <2>6. /\ parser'.kind \in {"Header", "Content", "ExpectStart", "Terminal", "Truncated", "Failed"}
        /\ stopReason' \in {None, "Return", "ToolCall", "Length"} /\ engine' \in {"running", "over"}
        /\ Reports(Emitted, written, parser) => Reports(Emitted \o outbox', written', parser')
    BY <1>2, <1>4, <1>5, <2>1, <2>2, <2>4 DEF Typed
  <2>7. QED BY <1>1, <1>2, <1>4, <1>7, <2>3, <2>5, <2>6, TakesOn
<1>12. QED BY <1>10, <1>11

\* The end of the completion adds what closes the stream.
LEMMA CompleteExact == Exact /\ Complete => Exact'
<1> SUFFICES ASSUME Exact, Complete PROVE Exact' OBVIOUS
<1>1. Spoken' BY NextSpoken DEF Exact, Next
<1>2. /\ engine = "running" /\ Listening /\ ending = "none" /\ IsComplete
      /\ UNCHANGED <<request, responses, cancelled, reader>>
      /\ written' = written /\ engine' = "over"
  BY DEF Complete, Exact, Spoken, IInv, Listening, Endings
<1>3. /\ parser.kind \in {"Header", "Content", "ExpectStart", "Terminal"}
      /\ parser.kind = "Terminal" <=> Stopped
      /\ stopReason = IF parser.kind = "Terminal" THEN parser.reason ELSE None
  BY <1>2 DEF Exact, Spoken, IInv, Agree
<1>4. Typed BY TypedIs DEF Exact
<1>5. IsSeq(Emitted) /\ PlaceOf(written, parser) BY EmittedIs DEF Exact, Placed
<1>6. written' \in Seq(Tokens) /\ Len(written') <= budget /\ engine' \in {"running", "over"}
  BY <1>2, <1>4 DEF Typed
<1>7. CASE Stopped
  <2> DEFINE reason == FinishReason(parser.reason)
             rest == Closure(<< >>, reason, includeUsage)
  <2>1. parser.kind = "Terminal" /\ stopReason = parser.reason BY <1>3, <1>7
  <2>2. Finish(parser) = Ok(parser, <<Done(parser.reason)>>) BY <2>1 DEF Finish
  <2>3. Finish(parser).ok /\ Last(Finish(parser).events).reason = parser.reason /\ Finish(parser).parser = parser
    BY <2>2 DEF Ok, Last, Done
  <2>4. outbox' = rest /\ parser' = parser /\ stopReason' = stopReason
    BY <1>7, <2>1, <2>3 DEF Complete, Closure, Sends
  <2>5. Placed' BY <1>2, <2>4 DEF Exact, Placed
  <2>6. reason \in Reasons BY <2>1 DEF Exact, Placed, FinishReason, Reasons
  <2> HIDE DEF reason
  <2>7. rest \in Seq(Chunk) BY <2>6, ClosureParts
  <2>8. Reports(Emitted, written, parser) => Reports(Emitted \o rest, written, parser)
    BY <1>5, ClosureReport
  <2> HIDE DEF rest
  <2>9. /\ parser'.kind \in {"Header", "Content", "ExpectStart", "Terminal", "Truncated", "Failed"}
        /\ stopReason' \in {None, "Return", "ToolCall", "Length"}
        /\ outbox' \in Seq(Chunk)
        /\ Reports(Emitted, written, parser) => Reports(Emitted \o outbox', written', parser')
    BY <1>2, <1>4, <2>1, <2>4, <2>7, <2>8 DEF Typed
  <2>10. QED BY <1>1, <1>2, <1>6, <2>5, <2>9, TakesOn
<1>8. CASE ~Stopped
  <2>1. parser.kind \in {"Header", "Content", "ExpectStart"} BY <1>3, <1>8
  <2>2. IF Truncate(parser).ok
        THEN Truncate(parser).parser.kind = "Truncated" /\ Chunks(Truncate(parser).events) = << >>
        ELSE Truncate(parser).parser.kind = "Failed"
    BY <1>5, <2>1, CutOffStep
  <2>3. parser' = Truncate(parser).parser BY <1>8 DEF Complete
  <2>4. parser'.kind \in {"Truncated", "Failed"} BY <2>2, <2>3
  <2>5. Placed' BY <2>4 DEF Placed, PlaceOf
  <2>6. Reports(Emitted, written, parser) => Reports(Emitted, written, parser')
    BY <1>5, <2>1, <2>4, CutReport
  <2>7. CASE Truncate(parser).ok
    <3> DEFINE rest == Closure(<< >>, "length", includeUsage)
    <3>1. Truncate(parser).events # << >> /\ Last(Truncate(parser).events) = Done("Length")
      BY <2>7, CutOff
    <3>2. /\ StopReasonAfter(Truncate(parser).events) = "Length"
          /\ Last(Truncate(parser).events).reason = "Length"
      BY <3>1 DEF StopReasonAfter, Done
    <3>3. outbox' = Closure(Chunks(Truncate(parser).events), "length", includeUsage) /\ stopReason' = "Length"
      BY <1>8, <2>7, <3>2 DEF Complete, Closure, FinishReason, Sends
    <3>4. outbox' = rest BY <2>2, <2>7, <3>3
    <3>5. "length" \in Reasons BY DEF Reasons
    <3>6. rest \in Seq(Chunk) BY <3>5, ClosureParts
    <3>7. Reports(Emitted, written, parser') => Reports(Emitted \o rest, written, parser')
      BY <1>5, ClosureReport
    <3> HIDE DEF rest
    <3>8. /\ parser'.kind \in {"Header", "Content", "ExpectStart", "Terminal", "Truncated", "Failed"}
          /\ stopReason' \in {None, "Return", "ToolCall", "Length"}
          /\ outbox' \in Seq(Chunk)
          /\ Reports(Emitted, written, parser) => Reports(Emitted \o outbox', written', parser')
      BY <1>2, <2>4, <2>6, <3>3, <3>4, <3>6, <3>7
    <3>9. QED BY <1>1, <1>2, <1>6, <2>5, <3>8, TakesOn
  <2>8. CASE ~Truncate(parser).ok
    <3>1. outbox' = <<FailureChunk>> /\ stopReason' = stopReason BY <1>8, <2>8 DEF Complete, Fails, Sends
    <3>2. Reports(Emitted, written, parser') => Reports(Emitted \o <<FailureChunk>>, written, parser')
      BY <1>5, FailureReport
    <3>3. <<FailureChunk>> \in Seq(Chunk) BY FailureTyped
    <3>4. /\ parser'.kind \in {"Header", "Content", "ExpectStart", "Terminal", "Truncated", "Failed"}
          /\ stopReason' \in {None, "Return", "ToolCall", "Length"}
          /\ outbox' \in Seq(Chunk)
          /\ Reports(Emitted, written, parser) => Reports(Emitted \o outbox', written', parser')
      BY <1>2, <1>4, <2>4, <2>6, <3>1, <3>2, <3>3 DEF Typed
    <3>5. QED BY <1>1, <1>2, <1>6, <2>5, <3>4, TakesOn
  <2>9. QED BY <2>7, <2>8
<1>9. QED BY <1>7, <1>8

\* The steps together.
LEMMA NextExact == Exact /\ [Next]_vars => Exact'
<1> SUFFICES ASSUME Exact, [Next]_vars PROVE Exact' OBVIOUS
<1>1. CASE Admit BY <1>1, AdmitExact
<1>2. CASE Complete BY <1>2, CompleteExact
<1>3. CASE Told \/ Dropped BY <1>3, EndToldExact
<1>4. CASE Send BY <1>4, SendExact
<1>5. CASE SendFails BY <1>5, SendFailsExact
<1>6. ASSUME NEW token \in Tokens, Raw(token) PROVE Exact' BY <1>6, RawExact
<1>7. CASE Read BY <1>7, ReadExact
<1>8. CASE Assemble BY <1>8, AssembleExact
<1>9. CASE Leave BY <1>9, LeaveExact
<1>10. CASE Over \/ UNCHANGED vars BY <1>10, StutterExact
<1>11. QED BY <1>1, <1>2, <1>3, <1>4, <1>5, <1>6, <1>7, <1>8, <1>9, <1>10 DEF Next

-----------------------------------------------------------------------------
(* And so the stream is exact.                                             *)

\* What is shown fits what there is to read, up to what is missing.
LEMMA ShownIsRead ==
  ASSUME NEW s \in Seq(Glyphs), NEW shown \in Seq(Glyphs), NEW missing \in Seq(Glyphs), Fits(s, shown)
  PROVE  LET r == shown \o missing
         IN  /\ Len(s) <= Len(r)
             /\ \A i \in DOMAIN s : s[i][1] = r[i][1] /\ Matches(s[i][2], r[i][2])
             /\ SubSeq(r, Len(s) + 1, Len(r)) = missing
<1> DEFINE r == shown \o missing
           m == Len(shown)
           n == Len(missing)
<1>1. /\ r \in Seq(Glyphs) /\ Len(r) = m + n /\ m \in Nat /\ n \in Nat
      /\ \A i \in 1 .. m : r[i] = shown[i]
      /\ \A i \in 1 .. n : r[m + i] = missing[i]
  OBVIOUS
<1>2. /\ Len(s) = m /\ DOMAIN s = 1 .. m
      /\ \A i \in 1 .. m : s[i][1] = shown[i][1] /\ Matches(s[i][2], shown[i][2])
  BY DEF Fits
<1>3. missing \in [1 .. n -> Glyphs] OBVIOUS
<1> HIDE DEF r, m, n
<1>4. Len(s) <= Len(r) BY ONLY <1>1, <1>2
<1>5. ASSUME NEW i \in DOMAIN s PROVE s[i][1] = r[i][1] /\ Matches(s[i][2], r[i][2])
  <2>1. i \in 1 .. m BY ONLY <1>2, i \in DOMAIN s, Zenon
  <2>2. r[i] = shown[i] BY ONLY <1>1, <2>1, Zenon
  <2>3. s[i][1] = shown[i][1] /\ Matches(s[i][2], shown[i][2]) BY ONLY <1>2, <2>1, Zenon
  <2>4. QED BY ONLY <2>2, <2>3, Zenon
<1>6. SubSeq(r, m + 1, m + n) = missing
  <2> DEFINE a == m + 1
             b == m + n
  <2>1. a \in Nat /\ b \in Nat /\ a >= 1 /\ b <= Len(r) /\ r \in Seq(Glyphs) BY <1>1
  <2>2. SubSeq(r, a, b) = [i \in 1 .. b - a + 1 |-> r[a + i - 1]]
    <3> HIDE DEF a, b
    <3>1. QED BY ONLY <2>1
  <2>3. b - a + 1 = n BY <1>1
  <2>4. \A i \in 1 .. n : a + i - 1 = m + i BY <1>1
  <2> HIDE DEF a, b
  <2>5. \A i \in 1 .. n : r[a + i - 1] = missing[i] BY ONLY <1>1, <2>4, Zenon
  <2>6. missing = [i \in 1 .. n |-> missing[i]] BY ONLY <1>3
  <2>7. SubSeq(r, a, b) = missing BY ONLY <2>2, <2>3, <2>5, <2>6, Zenon
  <2>8. QED BY <2>7 DEF a, b
<1>7. SubSeq(r, Len(s) + 1, Len(r)) = missing BY ONLY <1>1, <1>2, <1>6, Zenon
<1>8. QED BY ONLY <1>4, <1>5, <1>7, Zenon DEF r

\* What Exact says of text is StreamIsText,
LEMMA ExactText ==
  ASSUME Exact, client # "gone"
  PROVE  StreamIsText
<1> DEFINE e == Emitted
           s == Shown(e)
<1>1. Account(e, written, parser) /\ PlaceOf(written, parser) BY DEF Exact, Reported, Reports, Placed
<1>2. PICK shown \in Seq(Glyphs), missing \in Seq(Glyphs) :
        /\ ReadIn(written) = shown \o missing /\ Fits(s, shown)
        /\ parser.kind \in {"Header", "Content", "ExpectStart", "Terminal"} => missing = Unread(parser)
        /\ parser.kind = "Truncated" => Partly(missing)
  BY <1>1 DEF Account
<1>3. \A i \in DOMAIN e : GoodChunk(e[i]) BY <1>1 DEF Account
<1>4. s \in Seq(Glyphs)
  <2>1. IsSeq(e) BY EmittedIs DEF Exact
  <2> DEFINE c == FailureChunk
  <2>2. ~IsText(c) BY DEF IsText, FailureChunk
  <2> HIDE DEF c, e
  <2>3. Shown(e) \in Seq(Glyphs) BY ONLY <1>3, <2>1, <2>2, ShownSilent, Zenon
  <2>4. QED BY <2>3
<1> HIDE DEF e, s
<1> DEFINE r == shown \o missing
<1>5. /\ Len(s) <= Len(r)
      /\ \A i \in DOMAIN s : s[i][1] = r[i][1] /\ Matches(s[i][2], r[i][2])
      /\ SubSeq(r, Len(s) + 1, Len(r)) = missing
  BY ONLY <1>2, <1>4, ShownIsRead
<1>6. Streamed = s /\ Readable = r
  BY <1>2, StreamedIs, ReadableIs DEF e, s
<1> HIDE DEF r
<1>7. \A i \in DOMAIN Emitted :
        Emitted[i].kind \in {"Content", "Reasoning"} => Emitted[i].text # << >> /\ IsUtf8(Emitted[i].text)
  BY <1>3 DEF GoodChunk, IsText, e
<1>8. parser.kind \in {"Header", "ExpectStart", "Terminal"} => missing = << >> BY <1>2 DEF Unread
<1>9. parser.kind \in {"Content", "Truncated"} => Partly(missing)
  <2>1. Partly(Unread(parser)) BY <1>1, UnreadPartly
  <2>2. CASE parser.kind = "Content" BY <1>2, <2>1, <2>2
  <2>3. CASE parser.kind = "Truncated" BY <1>2, <2>3
  <2>4. QED BY <2>2, <2>3
<1>10. /\ Len(Streamed) <= Len(Readable)
       /\ \A i \in DOMAIN Streamed :
            Streamed[i][1] = Readable[i][1] /\ Matches(Streamed[i][2], Readable[i][2])
       /\ SubSeq(Readable, Len(Streamed) + 1, Len(Readable)) = missing
  BY ONLY <1>5, <1>6, Zenon
<1>11. parser.kind \in {"Content", "Truncated"} =>
         \/ missing = << >>
         \/ missing[1][2] = "lead" /\ (Len(missing) = 1 \/ missing[2][2] # "trail")
  BY <1>9, Zenon DEF Partly
<1>12. QED BY ONLY <1>7, <1>8, <1>10, <1>11, Zenon DEF StreamIsText

\* and what it says of calls is ToolCallIsWhole.
LEMMA ExactCall ==
  ASSUME Exact, client # "gone"
  PROVE  ToolCallIsWhole
<1>1. Called(Emitted, written, parser) BY DEF Exact, Reported, Reports
<1> DEFINE call == Len(written)
           body == FlattenSeq([j \in 1 .. call - 1 - LastBefore(call, {"MESSAGE"}) |->
                     Spelling(written[LastBefore(call, {"MESSAGE"}) + j])])
<1>2. LastBefore(call, {"MESSAGE"}) = LastIn(written, call, {"MESSAGE"}) BY DEF LastBefore, LastIn
<1>3. body = CallBody(written) BY <1>2 DEF CallBody
<1>4. ASSUME NEW i \in DOMAIN Emitted, Emitted[i].kind = "ToolCall"
      PROVE  /\ Emitted[i].text \in Json
             /\ Len(Emitted[i].text) = Len(body)
             /\ \A j \in DOMAIN body : Matches(Emitted[i].text[j], body[j])
  <2>1. CallIs(Emitted[i], written) BY <1>1, <1>4 DEF Called
  <2> HIDE DEF body
  <2>2. Emitted[i].text \in Json /\ Whole(Emitted[i].text, body) BY <1>3, <2>1, Zenon DEF CallIs
  <2>3. QED BY <2>2, Zenon DEF Whole
<1>5. (\E i \in DOMAIN Emitted : Emitted[i].kind = "ToolCall")
        <=> written # << >> /\ Last(written) = "CALL" /\ parser.kind = "Terminal"
  BY <1>1 DEF Called, HasCall
<1>6. QED BY ONLY <1>4, <1>5, Zenon DEF ToolCallIsWhole

\* Whatever the model writes, whatever the decoder holds back, and wherever the stream
\* stands: its reader is sent the text of the completion as it reads when taken as a whole,
\* whole characters under the right headings, and each tool call complete; and parser,
\* channel and completion stay within their bounds.
THEOREM StreamIsExact == Spec => []StreamExact
<1>1. Exact => StreamExact
  <2>1. SUFFICES ASSUME Exact PROVE StreamExact OBVIOUS
  <2>2. TypeOK BY <2>1 DEF Exact
  <2>3. CASE client = "gone" BY <2>2, <2>3 DEF StreamExact, StreamIsText, ToolCallIsWhole
  <2>4. CASE client # "gone" BY <2>1, <2>2, <2>4, ExactText, ExactCall DEF StreamExact
  <2>5. QED BY <2>3, <2>4
<1>2. QED BY <1>1, InitExact, NextExact, PTL DEF Spec
=============================================================================

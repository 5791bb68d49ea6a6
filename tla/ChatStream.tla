----------------------------- MODULE ChatStream -----------------------------
(***************************************************************************)
(* What a client of /v1/chat/completions is promised: a response opens,    *)
(* talks, may hand over one complete tool call, and closes with the reason *)
(* that fits, the usage if it was asked for, and [DONE]; or it fails, and  *)
(* then nothing follows.  A failure never follows a reason.  A client that *)
(* did not ask for a stream gets a response only from one that was done.   *)
(***************************************************************************)
CONSTANTS None, Reasons

VARIABLES
  stage,         \* how far the response has come
  reason,        \* the reason given for its end
  answer,        \* the answer to a request without stream
  streamed, includeUsage

vars == <<stage, reason, answer, streamed, includeUsage>>

Init ==
  /\ stage = "new"
  /\ reason = None
  /\ answer = None
  /\ streamed \in BOOLEAN /\ includeUsage \in BOOLEAN

Becomes(next) == stage' = next /\ UNCHANGED <<answer, streamed, includeUsage>>

Open == stage = "new" /\ Becomes("open") /\ UNCHANGED reason

Call == stage = "open" /\ Becomes("called") /\ UNCHANGED reason

Close ==
  /\ stage \in {"open", "called"}
  /\ Becomes("closed")
  /\ reason' \in Reasons
  /\ reason' = "tool_calls" <=> stage = "called"

Bill == includeUsage /\ stage = "closed" /\ Becomes("billed") /\ UNCHANGED reason

Finish ==
  /\ stage = IF includeUsage THEN "billed" ELSE "closed"
  /\ Becomes("done")
  /\ UNCHANGED reason

\* Told of a failure, a client without stream has its answer.
Fail ==
  /\ stage \in {"open", "called"}
  /\ stage' = "failed"
  /\ answer' = IF streamed THEN None ELSE "error"
  /\ UNCHANGED <<reason, streamed, includeUsage>>

Answer ==
  /\ ~streamed /\ answer = None /\ stage = "done"
  /\ answer' = "response"
  /\ UNCHANGED <<stage, reason, streamed, includeUsage>>

Next == Open \/ Call \/ Close \/ Bill \/ Finish \/ Fail \/ Answer

Spec == Init /\ [][Next]_vars
=============================================================================

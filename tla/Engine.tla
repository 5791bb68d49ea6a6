------------------------------ MODULE Engine -------------------------------
(***************************************************************************)
(* The model engine's control loop (products/serve/src/server/engine.rs),  *)
(* composed with the scheduler it drives, the page reservations it holds,  *)
(* and the HTTP tasks on the other side of its channels.                   *)
(*                                                                         *)
(* One OS thread runs `run_loop`; `pc` is the point it has reached.  HTTP  *)
(* tasks run beside it: they submit, read events, disconnect, and share a  *)
(* cancellation token with the engine.  A step of the engine is at most    *)
(* one operation on a channel or one token check, so that the tasks        *)
(* interleave wherever the code lets them.                                 *)
(*                                                                         *)
(* Pages are counted, not named: a reservation is granted iff it fits, as  *)
(* CacheLedger says of the page manager.  Device results are abstracted to *)
(* success or failure, and a token to whether it ends the request.         *)
(***************************************************************************)
EXTENDS Integers, Sequences, FiniteSets, SequencesExt

CONSTANTS
  Requests,            \* the requests; each has one SequenceId of its own
  CommandCapacity,     \* command_capacity: bound of the command channel
  EventCapacity,       \* event_capacity: bound of a request's event channel
  MaxQueued,           \* max_queued
  MaxCommands,         \* MAX_COMMANDS_PER_ITERATION
  NumPages,            \* pages of the arena
  PageDemands,         \* bound: pages a request's token budget may take
  TokenBudgets,        \* bound: max_new_tokens a request may ask for
  BatchBuckets, LargestBucket, QueryBuckets, MaxActiveSequences,
  MaxBatchedTokens, MaxPrefillChunk, MaxPrefillWait,
  MaxPrompt            \* bound: tokens of a prompt

VARIABLES
  phase, remaining, planned, waited, waiting, prefill, decode, active, plan

scheduler == <<phase, remaining, planned, waited, waiting, prefill, decode, active, plan>>

S == INSTANCE Scheduler WITH SequenceIds <- Requests

ASSUME EngineAssumption ==
  /\ S!IsValid
  /\ {CommandCapacity, EventCapacity, MaxQueued, MaxCommands, NumPages} \subseteq Nat \ {0}
  /\ PageDemands \subseteq Nat \ {0}
  /\ TokenBudgets \subseteq Nat

VARIABLES
  commands,    \* the command channel
  client,      \* what the HTTP task of a request is doing
  events,      \* the event channel of a request
  cancelled,   \* the cancellation token of a request
  overdue,     \* the request's deadline has passed
  waitedOut,   \* the request has been queued longer than the admission wait
  need,        \* pages that the request's token budget takes
  left         \* tokens the request may still generate

clients == <<client, events, cancelled, overdue, waitedOut>>
demand == <<need, left>>

VARIABLES
  pc,              \* where run_loop is
  readiness,       \* Readiness
  queue,           \* FIFO of the pending requests
  activeRequests,  \* keys of the map of active requests
  held,            \* requests that hold a page reservation
  drained,         \* commands taken in this iteration
  todo,            \* expired requests still to be cancelled
  submission,      \* kind of the submission being executed
  rows,            \* its rows that are still to be dealt with
  survivors,       \* rows of a stable batch that stay in it
  changed,         \* a row left the stable batch in this round
  delivered,       \* the last send on an event channel succeeded
  nextPrefill,     \* the prefill submission of the plan, to run after decode
  submitted        \* this iteration submitted something

loop == <<todo, submission, rows, survivors, changed, delivered, nextPrefill, submitted>>
vars == <<scheduler, commands, clients, demand, pc, readiness, queue,
          activeRequests, held, drained, loop>>

Command ==
  [kind : {"Submit", "Cancel"}, request : Requests] \cup [kind : {"Shutdown"}]

Terminal == {"Complete", "Cancelled", "Failed"}

TypeOK ==
  /\ S!TypeOK
  /\ commands \in Seq(Command) /\ Len(commands) <= CommandCapacity
  /\ client \in [Requests ->
       {"New", "Checked", "Refused", "Reading", "Told", "Closed", "Gone"}]
  /\ events \in [Requests -> Seq({"Raw"} \cup Terminal)]
  /\ \A r \in Requests : Len(events[r]) <= EventCapacity
  /\ {cancelled, overdue, waitedOut} \subseteq [Requests -> BOOLEAN]
  /\ need \in [Requests -> PageDemands \cup {0}]
  /\ left \in [Requests -> Nat]
  /\ pc \in {"drain", "expire", "expiring", "admit", "admitting", "plan", "decode",
             "decodeRows", "checkRow", "finish", "failing", "stable", "return", "prefill",
             "prefillRows", "remove", "end", "blocked", "stopping", "stopped"}
  /\ readiness \in {"Ready", "ShuttingDown", "Stopped"}
  /\ queue \in Seq(Requests) /\ Len(queue) <= MaxQueued
  /\ {activeRequests, held, todo} \subseteq SUBSET Requests
  /\ drained \in 0 .. MaxCommands
  /\ submission \in {"None", "Decode", "Stable", "Prefill"}
  /\ {rows, survivors, nextPrefill} \subseteq Seq(Requests)
  /\ {changed, delivered, submitted} \subseteq BOOLEAN

Init ==
  /\ S!Init
  /\ commands = << >>
  /\ client = [r \in Requests |-> "New"]
  /\ events = [r \in Requests |-> << >>]
  /\ cancelled = [r \in Requests |-> FALSE]
  /\ overdue = [r \in Requests |-> FALSE]
  /\ waitedOut = [r \in Requests |-> FALSE]
  /\ need = [r \in Requests |-> 0]
  /\ left = [r \in Requests |-> 0]
  /\ pc = "drain"
  /\ readiness = "Ready"
  /\ queue = << >>
  /\ activeRequests = {}
  /\ held = {}
  /\ drained = 0
  /\ todo = {}
  /\ submission = "None"
  /\ rows = << >>
  /\ survivors = << >>
  /\ changed = FALSE
  /\ delivered = FALSE
  /\ nextPrefill = << >>
  /\ submitted = FALSE

-----------------------------------------------------------------------------
\* The requests whose Submit waits in the command channel.
Submitted == {r \in Requests : [kind |-> "Submit", request |-> r] \in Range(commands)}

\* Requests the engine has taken out of its queue and not yet let go of.
Owned == activeRequests \cup Range(rows) \cup Range(survivors)

\* The engine side of r's event channel still exists.
HasSender(r) == r \in Submitted \cup Range(queue) \cup Owned

PagesOf(requests) == FoldFunctionOnSet(LAMBDA n, sum : n + sum, 0, need, requests)

Fits(r) == need[r] + PagesOf(held) <= NumPages

CanSend(r) == client[r] = "Reading" /\ Len(events[r]) < EventCapacity

\* try_send on r's event channel: a full or closed channel drops the event.
Send(r, event) ==
  events' = IF CanSend(r) THEN [events EXCEPT ![r] = Append(@, event)] ELSE events

CancelToken(r) == cancelled' = [cancelled EXCEPT ![r] = TRUE]

Release(r) == held' = held \ {r}

-----------------------------------------------------------------------------
(* The HTTP tasks.                                                         *)

\* try_send on the command channel, by somebody who ignores the outcome.
TrySend(c) ==
  commands' = IF pc # "stopped" /\ Len(commands) < CommandCapacity
              THEN Append(commands, c) ELSE commands

engineSide == <<scheduler, pc, readiness, queue, activeRequests, held, drained, loop>>

\* submit checks readiness first and the command channel afterwards.
CheckReady(r) ==
  /\ client[r] = "New"
  /\ client' = [client EXCEPT ![r] = IF readiness = "Ready" THEN "Checked" ELSE "Refused"]
  /\ UNCHANGED <<engineSide, commands, events, cancelled, overdue, waitedOut, demand>>

Submit(r) ==
  /\ client[r] = "Checked"
  /\ IF pc = "stopped" \/ Len(commands) = CommandCapacity
     THEN /\ client' = [client EXCEPT ![r] = "Refused"]
          /\ UNCHANGED <<commands, demand>>
     ELSE /\ client' = [client EXCEPT ![r] = "Reading"]
          /\ commands' = Append(commands, [kind |-> "Submit", request |-> r])
          /\ need' \in {[need EXCEPT ![r] = n] : n \in PageDemands}
          /\ left' \in {[left EXCEPT ![r] = n] : n \in TokenBudgets}
  /\ UNCHANGED <<engineSide, events, cancelled, overdue, waitedOut>>

\* translate: a terminal event disarms the guard and ends the task.
Receive(r) ==
  /\ client[r] = "Reading"
  /\ events[r] # << >>
  /\ client' = [client EXCEPT ![r] = IF Head(events[r]) \in Terminal THEN "Told" ELSE @]
  /\ events' = [events EXCEPT ![r] = Tail(@)]
  /\ UNCHANGED <<engineSide, commands, cancelled, overdue, waitedOut, demand>>

\* The guard of a task that ends without a terminal event cancels.
CancelGuard(r, outcome) ==
  /\ client' = [client EXCEPT ![r] = outcome]
  /\ events' = [events EXCEPT ![r] = << >>]
  /\ CancelToken(r)
  /\ TrySend([kind |-> "Cancel", request |-> r])
  /\ UNCHANGED <<engineSide, overdue, waitedOut, demand>>

\* The engine dropped its sender and everything it had sent was read.
SeeClosed(r) ==
  /\ client[r] = "Reading"
  /\ events[r] = << >>
  /\ ~HasSender(r)
  /\ CancelGuard(r, "Closed")

\* The client went away, or the response could not be translated.
Disconnect(r) ==
  /\ client[r] = "Reading"
  /\ CancelGuard(r, "Gone")

\* EngineOwner::shutdown waits for room in the command channel.
RequestShutdown ==
  /\ readiness = "Ready"
  /\ \A i \in DOMAIN commands : commands[i].kind # "Shutdown"
  /\ Len(commands) < CommandCapacity
  /\ commands' = Append(commands, [kind |-> "Shutdown"])
  /\ UNCHANGED <<engineSide, clients, demand>>

\* Time.
DeadlinePasses(r) ==
  /\ HasSender(r) /\ ~overdue[r]
  /\ overdue' = [overdue EXCEPT ![r] = TRUE]
  /\ UNCHANGED <<engineSide, commands, client, events, cancelled, waitedOut, demand>>

AdmissionWaitPasses(r) ==
  /\ r \in Range(queue) /\ ~waitedOut[r]
  /\ waitedOut' = [waitedOut EXCEPT ![r] = TRUE]
  /\ UNCHANGED <<engineSide, commands, client, events, cancelled, overdue, demand>>

\* The scheduler reads the clock when it plans.
ClockTicks ==
  /\ pc = "plan" /\ S!Tick
  /\ UNCHANGED <<commands, clients, demand, pc, readiness, queue, activeRequests, held,
                 drained, loop>>

Environment ==
  \/ \E r \in Requests :
       \/ CheckReady(r)
       \/ Submit(r)
       \/ Receive(r)
       \/ SeeClosed(r)
       \/ Disconnect(r)
       \/ DeadlinePasses(r)
       \/ AdmissionWaitPasses(r)
  \/ RequestShutdown
  \/ ClockTicks

-----------------------------------------------------------------------------
(* Ways in which the engine lets go of a request.                          *)

\* cancel_active, on a request already taken out of the map.  The slip does
\* not release the session.
CancelKeepsPages(r) ==
  /\ CancelToken(r)
  /\ UNCHANGED held
  /\ Send(r, "Cancelled")

CancelActive(r) ==
  /\ CancelToken(r)
  /\ Release(r)
  /\ Send(r, "Cancelled")

\* A row whose event could not be delivered is dropped without another one.
DropUndelivered(r) ==
  /\ CancelToken(r)
  /\ Release(r)

\* What no step of the engine touches, and what only commands touch.
clock == <<client, overdue, waitedOut>>
channel == <<commands, readiness>>

-----------------------------------------------------------------------------
(* handle_command.                                                         *)
HandleSubmit(r) ==
  /\ IF Len(queue) >= MaxQueued
     THEN Send(r, "Failed") /\ UNCHANGED queue
     ELSE queue' = Append(queue, r) /\ UNCHANGED events
  /\ UNCHANGED <<scheduler, activeRequests, held, cancelled, readiness>>

HandleCancel(r) ==
  \/ /\ r \in activeRequests
     /\ S!Cancel(r)
     /\ activeRequests' = activeRequests \ {r}
     /\ CancelActive(r)
     /\ UNCHANGED <<queue, readiness>>
  \/ /\ r \notin activeRequests
     /\ IF r \in Range(queue)
        THEN queue' = RemoveFirst(queue, r) /\ Send(r, "Cancelled")
        ELSE UNCHANGED <<queue, events>>
     /\ UNCHANGED <<scheduler, activeRequests, held, cancelled, readiness>>

HandleShutdown ==
  /\ readiness' = "ShuttingDown"
  /\ UNCHANGED <<scheduler, queue, activeRequests, held, events, cancelled>>

HandleCommand ==
  /\ commands # << >>
  /\ commands' = Tail(commands)
  /\ LET c == Head(commands)
     IN  \/ c.kind = "Submit" /\ HandleSubmit(c.request)
         \/ c.kind = "Cancel" /\ HandleCancel(c.request)
         \/ c.kind = "Shutdown" /\ HandleShutdown
  /\ UNCHANGED <<clock, demand, loop>>

\* The drain at the top of an iteration, a command at a time.
DrainCommand ==
  /\ pc = "drain" /\ drained < MaxCommands
  /\ HandleCommand
  /\ drained' = drained + 1
  /\ pc' = IF Head(commands).kind = "Shutdown" THEN "stopping" ELSE "drain"

\* The slip forgets a shutdown that had woken the loop up.
DrainForgetsShutdown ==
  /\ pc = "drain"
  /\ commands = << >> \/ drained = MaxCommands
  /\ drained' = 0
  /\ pc' = "expire"
  /\ UNCHANGED <<scheduler, commands, clients, demand, readiness, queue, activeRequests, held, loop>>

DrainDone ==
  /\ pc = "drain"
  /\ commands = << >> \/ drained = MaxCommands
  /\ drained' = 0
  /\ pc' = IF readiness = "ShuttingDown" THEN "stopping" ELSE "expire"
  /\ UNCHANGED <<scheduler, commands, clients, demand, readiness, queue, activeRequests, held, loop>>

\* blocking_recv, when there was nothing to run.
WakeUp ==
  /\ pc = "blocked"
  /\ HandleCommand
  /\ pc' = "drain"
  /\ UNCHANGED drained

-----------------------------------------------------------------------------
(* cancel_expired: collect, then cancel.                                   *)
CollectExpired ==
  /\ pc = "expire"
  /\ todo' = {r \in activeRequests : cancelled[r] \/ overdue[r]}
  /\ pc' = IF todo' = {} THEN "admit" ELSE "expiring"
  /\ UNCHANGED <<scheduler, channel, clients, demand, queue, activeRequests, held, drained,
                 submission, rows, survivors, changed, delivered, nextPrefill, submitted>>

CancelExpired(r) ==
  /\ pc = "expiring" /\ r \in todo
  /\ activeRequests' = activeRequests \ {r}
  /\ S!Cancel(r)
  /\ CancelActive(r)
  /\ todo' = todo \ {r}
  /\ pc' = IF todo' = {} THEN "admit" ELSE "expiring"
  /\ UNCHANGED <<channel, clock, demand, queue, drained,
                 submission, rows, survivors, changed, delivered, nextPrefill, submitted>>

-----------------------------------------------------------------------------
(* admit_pending: the pending requests in order, while the scheduler has   *)
(* room, until one does not fit in the pages that are left.                *)
CanAdmit == pc = "admit" /\ active < MaxActiveSequences /\ queue # << >>

GoPlan ==
  /\ pc' = "plan"
  /\ UNCHANGED <<scheduler, channel, clients, demand, queue, activeRequests, held, drained, loop>>

AdmitDone == pc = "admit" /\ ~CanAdmit /\ GoPlan

\* InsufficientCapacity while others are active: the head goes back in front.
\* One slip puts it back last, another waits though nobody is active.
HeadGoesLast ==
  /\ CanAdmit
  /\ LET r == Head(queue)
     IN  /\ ~cancelled[r] /\ ~overdue[r] /\ ~waitedOut[r]
         /\ ~Fits(r) /\ activeRequests # {}
         /\ queue' = Append(Tail(queue), r)
  /\ pc' = "plan"
  /\ UNCHANGED <<scheduler, channel, clients, demand, activeRequests, held, drained, loop>>

HeadWaitsForNobody ==
  /\ CanAdmit
  /\ LET r == Head(queue)
     IN  ~cancelled[r] /\ ~overdue[r] /\ ~waitedOut[r] /\ ~Fits(r)
  /\ GoPlan

HeadBlocked ==
  /\ CanAdmit
  /\ LET r == Head(queue)
     IN  /\ ~cancelled[r] /\ ~overdue[r] /\ ~waitedOut[r]
         /\ ~Fits(r) /\ activeRequests # {}
  /\ GoPlan

\* The head of the queue is answered without being admitted; the slip leaves
\* it in the queue.
AnswerAndKeep(event) ==
  /\ Send(Head(queue), event)
  /\ UNCHANGED <<scheduler, channel, clock, cancelled, demand, pc, queue, activeRequests, held, drained, loop>>

Answer(event) ==
  /\ queue' = Tail(queue)
  /\ Send(Head(queue), event)
  /\ UNCHANGED <<scheduler, channel, clock, cancelled, demand, pc, activeRequests, held, drained, loop>>

AnswerHead ==
  /\ CanAdmit
  /\ LET r == Head(queue)
     IN  \/ cancelled[r] /\ Answer("Cancelled")
         \/ ~cancelled[r] /\ overdue[r] /\ Answer("Cancelled")
         \/ /\ ~cancelled[r] /\ ~overdue[r]
            /\ \/ waitedOut[r] /\ Answer("Failed")
               \/ ~waitedOut[r] /\ ~Fits(r) /\ activeRequests = {} /\ Answer("Failed")
               \/ ~waitedOut[r] /\ Fits(r) /\ left[r] = 0 /\ Answer("Complete")

\* The pages are reserved and the sequence enters the scheduler.
ReserveHead ==
  /\ CanAdmit
  /\ LET r == Head(queue)
     IN  /\ ~cancelled[r] /\ ~overdue[r] /\ ~waitedOut[r]
         /\ Fits(r) /\ left[r] > 0
         /\ held' = held \cup {r}
         /\ queue' = Tail(queue)
         /\ rows' = <<r>>
         /\ \E prompt \in 1 .. MaxPrompt : S!Enqueue(r, prompt)
  /\ pc' = "admitting"
  /\ UNCHANGED <<channel, clients, demand, activeRequests, drained, todo, submission,
                 survivors, changed, delivered, nextPrefill, submitted>>

AdmitReserved ==
  /\ pc = "admitting"
  /\ S!AdmitReserved(Head(rows))
  /\ activeRequests' = activeRequests \cup {Head(rows)}
  /\ rows' = << >>
  /\ pc' = "admit"
  /\ UNCHANGED <<channel, clients, demand, queue, held, drained, todo, submission,
                 survivors, changed, delivered, nextPrefill, submitted>>

-----------------------------------------------------------------------------
(* The plan and its submissions.  take_rows takes the rows of a submission *)
(* out of the map of active requests; they go back one by one.             *)
AfterDecode == IF nextPrefill # << >> THEN "prefill" ELSE "end"

MakePlan ==
  /\ pc = "plan"
  /\ S!Plan
  /\ rows' = plan'.decode
  /\ activeRequests' = activeRequests \ Range(plan'.decode)
  /\ nextPrefill' = plan'.prefill
  /\ submission' = IF plan'.decode = << >> THEN "None"
                   ELSE IF plan'.stable THEN "Stable" ELSE "Decode"
  /\ submitted' = (plan'.decode # << >> \/ plan'.prefill # << >>)
  /\ pc' = IF plan'.decode # << >> THEN "decode"
           ELSE IF plan'.prefill # << >> THEN "prefill" ELSE "end"
  /\ UNCHANGED <<channel, clients, demand, queue, held, drained, todo, survivors, changed, delivered>>

\* decode_batch on the rows, which the device may fail to run.
RunDecode ==
  /\ pc = "decode"
  /\ pc' \in {"decodeRows", "failing"}
  /\ changed' = FALSE
  /\ UNCHANGED <<scheduler, channel, clients, demand, queue, activeRequests, held, drained,
                 todo, submission, rows, survivors, delivered, nextPrefill, submitted>>

\* Row r has generated a token, which is its last one or not.
Generated(r, last) ==
  /\ left[r] = 1 => last
  /\ left' = [left EXCEPT ![r] = @ - 1]

DecodeRow ==
  /\ pc = "decodeRows" /\ rows # << >>
  /\ LET r == Head(rows)
     IN  /\ Send(r, "Raw")
         /\ \E last \in BOOLEAN :
              /\ Generated(r, last)
              /\ \/ /\ last /\ CanSend(r)
                    /\ S!CompleteDecode(r, TRUE)
                    /\ changed' = TRUE
                    /\ pc' = "finish"
                    /\ UNCHANGED <<cancelled, activeRequests, held, rows>>
                 \/ /\ ~CanSend(r)
                    /\ S!CompleteDecode(r, TRUE)
                    /\ DropUndelivered(r)
                    /\ changed' = TRUE
                    /\ rows' = Tail(rows)
                    /\ UNCHANGED <<pc, activeRequests>>
                 \/ /\ ~last /\ CanSend(r) /\ submission = "Decode"
                    /\ S!CompleteDecode(r, FALSE)
                    /\ activeRequests' = activeRequests \cup {r}
                    /\ rows' = Tail(rows)
                    /\ UNCHANGED <<cancelled, held, pc, changed>>
                 \/ /\ ~last /\ CanSend(r) /\ submission = "Stable"
                    /\ pc' = "checkRow"
                    /\ UNCHANGED <<scheduler, cancelled, activeRequests, held, rows, changed>>
  /\ UNCHANGED <<channel, clock, need, queue, drained, todo, submission,
                 survivors, delivered, nextPrefill, submitted>>

\* A row of the stable batch that goes on is checked for cancellation here.
CheckRow ==
  /\ pc = "checkRow"
  /\ LET r == Head(rows)
     IN  IF cancelled[r] \/ overdue[r]
         THEN /\ S!Cancel(r)
              /\ CancelActive(r)
              /\ changed' = TRUE
              /\ UNCHANGED survivors
         ELSE /\ survivors' = Append(survivors, r)
              /\ UNCHANGED <<scheduler, cancelled, held, events, changed>>
  /\ rows' = Tail(rows)
  /\ pc' = "decodeRows"
  /\ UNCHANGED <<channel, clock, demand, queue, activeRequests, drained, todo, submission,
                 delivered, nextPrefill, submitted>>

DecodeDone ==
  /\ pc = "decodeRows" /\ rows = << >> /\ submission = "Decode"
  /\ pc' = AfterDecode
  /\ UNCHANGED <<scheduler, channel, clients, demand, queue, activeRequests, held, drained, loop>>

\* The stable batch runs again without the scheduler, or yields to the loop.
StableContinue ==
  /\ pc = "decodeRows" /\ rows = << >> /\ submission = "Stable"
  /\ ~changed /\ commands = << >>
  /\ rows' = survivors
  /\ survivors' = << >>
  /\ pc' = "decode"
  /\ UNCHANGED <<scheduler, channel, clients, demand, queue, activeRequests, held, drained,
                 todo, submission, changed, delivered, nextPrefill, submitted>>

StableYield ==
  /\ pc = "decodeRows" /\ rows = << >> /\ submission = "Stable"
  /\ changed \/ commands # << >>
  /\ pc' = "return"
  /\ UNCHANGED <<scheduler, channel, clients, demand, queue, activeRequests, held, drained, loop>>

ReturnSurvivor ==
  /\ pc = "return"
  /\ IF survivors = << >>
     THEN /\ pc' = AfterDecode
          /\ UNCHANGED <<scheduler, activeRequests, survivors>>
     ELSE /\ S!CompleteDecode(Head(survivors), FALSE)
          /\ activeRequests' = activeRequests \cup {Head(survivors)}
          /\ survivors' = Tail(survivors)
          /\ UNCHANGED pc
  /\ UNCHANGED <<channel, clients, demand, queue, held, drained, todo, submission, rows,
                 changed, delivered, nextPrefill, submitted>>

RunPrefill ==
  /\ pc = "prefill"
  /\ rows' = nextPrefill
  /\ nextPrefill' = << >>
  /\ activeRequests' = activeRequests \ Range(nextPrefill)
  /\ submission' = "Prefill"
  /\ pc' \in {"prefillRows", "failing"}
  /\ UNCHANGED <<scheduler, channel, clients, demand, queue, held, drained, todo,
                 survivors, changed, delivered, submitted>>

\* The last chunk of a prompt also yields the first token.
PrefillRow ==
  /\ pc = "prefillRows" /\ rows # << >>
  /\ LET r == Head(rows)
     IN  /\ S!CompletePrefill(r, planned[r])
         /\ \E last \in BOOLEAN :
              LET sampled  == remaining'[r] = 0
                  terminal == sampled /\ (last \/ ~CanSend(r))
              IN  /\ IF sampled
                     THEN Generated(r, last) /\ Send(r, "Raw")
                     ELSE ~last /\ UNCHANGED <<left, events>>
                  /\ delivered' = CanSend(r)
                  /\ IF terminal
                     THEN /\ pc' = "remove"
                          /\ UNCHANGED <<activeRequests, rows>>
                     ELSE /\ activeRequests' = activeRequests \cup {r}
                          /\ rows' = Tail(rows)
                          /\ UNCHANGED pc
  /\ UNCHANGED <<channel, clock, cancelled, need, queue, held, drained, todo, submission,
                 survivors, changed, nextPrefill, submitted>>

RemoveRow ==
  /\ pc = "remove"
  /\ S!RemoveTerminal(Head(rows))
  /\ IF delivered
     THEN /\ pc' = "finish"
          /\ UNCHANGED <<cancelled, held, rows>>
     ELSE /\ DropUndelivered(Head(rows))
          /\ rows' = Tail(rows)
          /\ pc' = "prefillRows"
  /\ UNCHANGED <<channel, clock, events, demand, queue, activeRequests, drained, todo,
                 submission, survivors, changed, delivered, nextPrefill, submitted>>

PrefillDone ==
  /\ pc = "prefillRows" /\ rows = << >>
  /\ pc' = "end"
  /\ UNCHANGED <<scheduler, channel, clients, demand, queue, activeRequests, held, drained, loop>>

\* complete_active.
CompleteActive ==
  /\ pc = "finish"
  /\ Release(Head(rows))
  /\ Send(Head(rows), "Complete")
  /\ rows' = Tail(rows)
  /\ pc' = IF submission = "Prefill" THEN "prefillRows" ELSE "decodeRows"
  /\ UNCHANGED <<scheduler, channel, clock, cancelled, demand, queue, activeRequests, drained,
                 todo, submission, survivors, changed, delivered, nextPrefill, submitted>>

\* fail_rows.
FailRow ==
  /\ pc = "failing"
  /\ IF rows = << >>
     THEN /\ pc' = IF submission = "Prefill" THEN "end" ELSE AfterDecode
          /\ UNCHANGED <<scheduler, held, events, rows>>
     ELSE /\ S!Cancel(Head(rows))
          /\ Release(Head(rows))
          /\ Send(Head(rows), "Failed")
          /\ rows' = Tail(rows)
          /\ UNCHANGED pc
  /\ UNCHANGED <<channel, clock, cancelled, demand, queue, activeRequests, drained, todo,
                 submission, survivors, changed, delivered, nextPrefill, submitted>>

\* The end of an iteration; the slip sleeps whenever nobody is active.
SleepsAfterLastRow ==
  /\ pc = "end"
  /\ pc' = IF activeRequests # {} THEN "drain" ELSE "blocked"
  /\ submitted' = FALSE
  /\ submission' = "None"
  /\ UNCHANGED <<scheduler, channel, clients, demand, queue, activeRequests, held, drained,
                 todo, rows, survivors, changed, delivered, nextPrefill>>

EndIteration ==
  /\ pc = "end"
  /\ pc' = IF submitted \/ activeRequests # {} THEN "drain" ELSE "blocked"
  /\ submitted' = FALSE
  /\ submission' = "None"
  /\ UNCHANGED <<scheduler, channel, clients, demand, queue, activeRequests, held, drained,
                 todo, rows, survivors, changed, delivered, nextPrefill>>

-----------------------------------------------------------------------------
(* cancel_everything, and the end of the thread.                           *)
StopActive(r) ==
  /\ pc = "stopping" /\ r \in activeRequests
  /\ S!Cancel(r)
  /\ CancelActive(r)
  /\ activeRequests' = activeRequests \ {r}
  /\ UNCHANGED <<channel, clock, demand, pc, queue, drained, loop>>

StopPending ==
  /\ pc = "stopping" /\ activeRequests = {} /\ queue # << >>
  /\ CancelToken(Head(queue))
  /\ Send(Head(queue), "Cancelled")
  /\ queue' = Tail(queue)
  /\ UNCHANGED <<scheduler, channel, clock, demand, pc, activeRequests, held, drained, loop>>

\* Returning drops the receiver, with the commands that are still in it.
Stop ==
  /\ pc = "stopping" /\ activeRequests = {} /\ queue = << >>
  /\ pc' = "stopped"
  /\ readiness' = "Stopped"
  /\ commands' = << >>
  /\ UNCHANGED <<scheduler, clients, demand, queue, activeRequests, held, drained, loop>>

EngineStep ==
  \/ DrainCommand \/ DrainDone \/ WakeUp
  \/ CollectExpired
  \/ \E r \in Requests : CancelExpired(r)
  \/ AdmitDone \/ HeadBlocked \/ AnswerHead \/ ReserveHead \/ AdmitReserved
  \/ MakePlan \/ RunDecode \/ DecodeRow \/ CheckRow \/ DecodeDone
  \/ StableContinue \/ StableYield \/ ReturnSurvivor
  \/ RunPrefill \/ PrefillRow \/ RemoveRow \/ PrefillDone
  \/ CompleteActive \/ FailRow \/ EndIteration
  \/ \E r \in Requests : StopActive(r)
  \/ StopPending \/ Stop

\* The engine has stopped and every task has ended.
Over ==
  /\ pc = "stopped"
  /\ \A r \in Requests : client[r] \in {"Refused", "Told", "Closed", "Gone"}
  /\ UNCHANGED vars

Next == Environment \/ EngineStep \/ Over

Spec == Init /\ [][Next]_vars

\* The thread is scheduled and device calls return; nothing is assumed of
\* the clients, which may stop reading for ever.
LiveSpec == Spec /\ WF_vars(EngineStep)

-----------------------------------------------------------------------------
(* Properties.                                                             *)

(* A request is in one place only: behind a command, pending, in the map   *)
(* of active requests, or in one row of the running submission.            *)
OnePlace ==
  /\ \A i, j \in DOMAIN commands :
       commands[i].kind = "Submit" /\ commands[i] = commands[j] => i = j
  /\ IsInjective(queue) /\ IsInjective(rows) /\ IsInjective(survivors)
  /\ Submitted \cap Range(queue) = {}
  /\ (Submitted \cup Range(queue)) \cap Owned = {}
  /\ activeRequests \cap Range(rows) = {}
  /\ (activeRequests \cup Range(rows)) \cap Range(survivors) = {}

(* At every point of the loop the three registries name the same requests: *)
(* the engine's map and rows, the scheduler's states and the page          *)
(* reservations.                                                           *)
SameRequests ==
  /\ held = Owned
  /\ \A r \in Requests :
       /\ S!Admitted(r) => r \in Owned
       /\ r \in Owned => S!Admitted(r) \/ (rows # << >> /\ r = Head(rows))
       /\ r \in activeRequests =>
            phase[r] \in {"Prefill", "Decode"} \/ r \in Range(nextPrefill)

(* The registries agree, each request is in one place and the arena is not *)
(* overdrawn.  A reservation is neither leaked nor released while the      *)
(* request is scheduled, whichever way the request ended; and no channel   *)
(* and no queue outgrows its bound.                                        *)
RegistriesAgree ==
  /\ TypeOK
  /\ OnePlace
  /\ SameRequests
  /\ PagesOf(held) <= NumPages

(* "removes the row at a visible-token boundary" (PRODUCT.md): after the   *)
(* terminal event of a request nothing else is sent to it and the engine   *)
(* no longer has it.                                                       *)
TerminalIsLast ==
  \A r \in Requests :
    /\ \A i \in DOMAIN events[r] :
         events[r][i] \in Terminal => i = Len(events[r]) /\ ~HasSender(r)
    /\ client[r] = "Told" => events[r] = << >> /\ ~HasSender(r)

(* Admission is one line, in the order of the command channel: whatever    *)
(* waits, is cancelled, expires or does not fit, no request overtakes an   *)
(* older one, and the resident requests stay within max_active and the     *)
(* arena.                                                                  *)
Submits(cs) ==
  LET among[n \in 0 .. Len(cs)] ==
        IF n = 0 THEN << >>
        ELSE IF cs[n].kind = "Submit" THEN Append(among[n - 1], cs[n].request)
        ELSE among[n - 1]
  IN  among[Len(cs)]

Line == INSTANCE AdmissionLine WITH
  line <- queue \o Submits(commands),
  resident <- Owned,
  past <- {r \in Requests : client[r] \notin {"New", "Checked", "Refused"} /\ ~HasSender(r)}

AdmissionInOrder == Line!Spec

(* The engine comes to rest on nothing: when it sleeps in blocking_recv,   *)
(* and after shutdown, no request is pending, resident or scheduled and no *)
(* page is reserved, and after shutdown no client waits on a live channel. *)
RestsOnNothing ==
  /\ pc \in {"blocked", "stopped"} => queue = << >> /\ Owned = {} /\ held = {} /\ active = 0
  /\ pc = "stopped" => \A r \in Requests : phase[r] = "Absent" /\ ~HasSender(r)

(* Whatever the clients do, a request that was accepted comes to an end.   *)
AcceptedEnds == \A r \in Requests : HasSender(r) ~> ~HasSender(r)

(* A shutdown that was asked for completes.                                *)
ShutdownCompletes ==
  (\E i \in DOMAIN commands : commands[i].kind = "Shutdown") ~> pc = "stopped"

(* "The scheduler is not re-entered between tokens while every row         *)
(* survives and no queued work needs service" (engine.rs,                  *)
(* execute_stable_decode): a stable batch does not run again over a        *)
(* pending request whose deadline has passed.                              *)
StableYieldsToDeadlines ==
  [][StableContinue => \A r \in Range(queue) : ~overdue[r]]_vars
=============================================================================

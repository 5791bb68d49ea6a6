------------------------------- MODULE Generator -------------------------------
(***************************************************************************)
(* The generator's sessions (products/serve/src/gpt_oss.rs): reservation,  *)
(* prefill, decode with one position of lookahead, the stable decode lane  *)
(* that lives on the device between tokens, and every error path, composed *)
(* with the submissions of execution.rs (LayerCaches).                     *)
(*                                                                         *)
(* One thread owns the generator, so calls do not overlap; but a call can  *)
(* fail after any of its steps, and `pc` is the step it has reached.       *)
(* Between calls the engine may submit any batch of sessions that are due, *)
(* and release any session; it releases every row of a call that failed    *)
(* (`fail_rows`) before it does anything else: these are `doomed`.         *)
(*                                                                         *)
(* The diagnostic command drives one ProductSession at a time instead,     *)
(* with the same model and caches; `mode` tells which program runs.        *)
(***************************************************************************)
EXTENDS LayerCaches, Sequences, Functions

CONSTANTS
  NumPages, PageSize,
  Prompts,     \* bound: lengths of prompts
  Budgets,     \* bound: max_new_tokens a session may ask for
  MaxRows      \* batch_capacity of the largest family

ASSUME GeneratorAssumption ==
  /\ {NumPages, PageSize, MaxRows} \subseteq Nat \ {0}
  /\ Prompts \subseteq Nat \ {0}
  /\ Budgets \subseteq Nat

VARIABLES
  mode,        \* "server" or "cli"
  status,      \* of a session: not yet prepared, live, released
  prompt,      \* its prompt's length
  budget,      \* its max_new_tokens
  cursor,      \* prompt tokens that are in the cache
  visible,     \* generated tokens; of whom and at which position each was sampled
  stopped      \* the last of them is a stop token

sessions == <<status, prompt, budget, cursor, visible, stopped>>

VARIABLES
  capacity, committed, tentative, unclaimed   \* the page manager, as CacheLedger has it

pages == <<capacity, committed, tentative, unclaimed>>

VARIABLES
  lane,        \* the stable decode lane: members, device positions, prefix in flight
  pc,          \* step of the call that runs, or "idle"
  at,          \* the row or the component it has reached
  call,        \* its kind, rows, chunks and checkpoints
  result,      \* tokens the head has sampled
  doomed       \* rows of a failed call that are still to be released

control == <<lane, pc, at, call, result, doomed>>
device == <<home, slab, written>>
vars == <<mode, sessions, pages, control, device>>

NoLane == [members |-> << >>, position |-> << >>, prefix |-> FALSE]
NoCall == [kind |-> "None", rows |-> << >>, chunks |-> << >>, reuse |-> FALSE, saved |-> << >>]

\* A token sampled from caches that were not those of its own context.
Garbage == [of |-> {}, index |-> -1]

Live == {s \in Sessions : status[s] = "live"}
Held == {s \in Live : capacity[s] > 0}

L == INSTANCE CacheLedger WITH SequenceIds <- Sessions, held <- Held

Positions == 0 .. NumPages * PageSize

TypeOK ==
  /\ CachesTypeOK
  /\ mode \in {"server", "cli"}
  /\ status \in [Sessions -> {"new", "live", "released"}]
  /\ \A s \in Live : prompt[s] \in Prompts /\ budget[s] \in Budgets
  /\ \A s \in Sessions : cursor[s] \in 0 .. prompt[s]
  /\ \A s \in Sessions : Len(visible[s]) <= budget[s]
  /\ stopped \in [Sessions -> BOOLEAN]
  /\ {capacity, committed, tentative} \subseteq [Sessions -> Positions]
  /\ \A s \in Sessions : committed[s] <= tentative[s] /\ tentative[s] <= capacity[s]
  /\ unclaimed \in 0 .. NumPages
  /\ lane.members \in Seq(Sessions) /\ Len(lane.members) <= MaxRows
  /\ lane.position \in [DOMAIN lane.members -> Positions]
  /\ lane.prefix \in BOOLEAN
  /\ pc \in {"idle", "reserve", "bind", "launch", "prefix", "download", "commit", "rollback"}
  /\ at \in 0 .. Groups + 1 + MaxRows
  /\ call.kind \in {"None", "Prefill", "Decode"}
  /\ doomed \subseteq Sessions

Init ==
  /\ CachesInit
  /\ mode \in {"server", "cli"}
  /\ status = [s \in Sessions |-> "new"]
  /\ prompt = [s \in Sessions |-> 0]
  /\ budget = [s \in Sessions |-> 0]
  /\ cursor = [s \in Sessions |-> 0]
  /\ visible = [s \in Sessions |-> << >>]
  /\ stopped = [s \in Sessions |-> FALSE]
  /\ capacity = [s \in Sessions |-> 0]
  /\ committed = [s \in Sessions |-> 0]
  /\ tentative = [s \in Sessions |-> 0]
  /\ unclaimed = NumPages
  /\ lane = NoLane
  /\ pc = "idle"
  /\ at = 0
  /\ call = NoCall
  /\ result = << >>
  /\ doomed = {}

-----------------------------------------------------------------------------
\* What the engine and the batch code derive from a session.
Generated(s) == Len(visible[s])
PrefillComplete(s) == cursor[s] = prompt[s]

IsComplete(s) == budget[s] = 0 \/ stopped[s] \/ Generated(s) >= budget[s]

\* The position at which the last visible token is fed to the model.
DecodePosition(s) == prompt[s] + Generated(s) - 1

PagesFor(tokens) == (tokens + PageSize - 1) \div PageSize

\* Tokens that are reserved for a session before it starts.
Maximum(p, m) == p + m

\* `should_enqueue_lookahead`, of the diagnostic command.
WantsLookahead(s) == budget[s] - (Generated(s) - 1) > 2

\* Positions that must be reserved before a decode step writes: its own, and
\* the one that the prefix of the next step writes.
Required(s) ==
  IF mode = "server" \/ WantsLookahead(s) THEN committed[s] + 2 ELSE committed[s] + 1

\* A slip: the rows are compared as a set.
MatchesInAnyOrder(rows) == Range(lane.members) = Range(rows)

\* `matches_members`: the lane on the device is of these rows, in this order.
MatchesMembers(rows) == lane.members = rows

\* A slip: the lane starts behind its input token.
LaneAhead(rows) ==
  [members |-> rows, position |-> [i \in DOMAIN rows |-> DecodePosition(rows[i]) + 1], prefix |-> FALSE]

FreshLane(rows) ==
  [members |-> rows, position |-> [i \in DOMAIN rows |-> DecodePosition(rows[i])], prefix |-> FALSE]

\* A slip: only the pages that were written are freed.
ReturnedWritten(s) == unclaimed + PagesFor(tentative[s])

\* The session is dropped, its pages are freed.
Returned(s) == unclaimed + capacity[s] \div PageSize

Free(s) ==
  /\ status' = [status EXCEPT ![s] = "released"]
  /\ unclaimed' = Returned(s)
  /\ capacity' = [capacity EXCEPT ![s] = 0]
  /\ committed' = [committed EXCEPT ![s] = 0]
  /\ tentative' = [tentative EXCEPT ![s] = 0]
  /\ prompt' = [prompt EXCEPT ![s] = 0]
  /\ budget' = [budget EXCEPT ![s] = 0]
  /\ cursor' = [cursor EXCEPT ![s] = 0]
  /\ visible' = [visible EXCEPT ![s] = << >>]
  /\ stopped' = [stopped EXCEPT ![s] = FALSE]

\* Without a lane nobody refers to its slab; what a stale slot still holds is
\* replaced when the slot is set again.
ClearLane == lane' = NoLane /\ slab' = NoSlab

Finish(rows) == pc' = "idle" /\ at' = 0 /\ call' = NoCall /\ result' = << >> /\ doomed' = rows

-----------------------------------------------------------------------------
\* Preparation reserves everything the session may ever need, or refuses.
Reserve(s, p, m) ==
  /\ PagesFor(Maximum(p, m)) <= unclaimed
  /\ capacity' = [capacity EXCEPT ![s] = PagesFor(Maximum(p, m)) * PageSize]
  /\ unclaimed' = unclaimed - PagesFor(Maximum(p, m))

Prepare(s, p, m) ==
  /\ pc = "idle" /\ doomed = {}
  /\ status[s] = "new"
  /\ status' = [status EXCEPT ![s] = "live"]
  /\ prompt' = [prompt EXCEPT ![s] = p]
  /\ budget' = [budget EXCEPT ![s] = m]
  /\ UNCHANGED <<mode, cursor, visible, stopped, committed, control, device>>

PrepareServerTokens(s, p, m) ==
  /\ mode = "server"
  /\ Prepare(s, p, m)
  /\ Reserve(s, p, m)
  /\ UNCHANGED tentative

\* The diagnostic command: one session, whose prompt is one chunk.  The place
\* of the prompt is appended at once; `PrefillStep`, which follows, starts there.
PrepareTokens(s, p, m) ==
  /\ mode = "cli" /\ Live = {}
  /\ Prepare(s, p, m)
  /\ IF m = 0 THEN UNCHANGED pages ELSE Reserve(s, p, m) /\ UNCHANGED tentative

-----------------------------------------------------------------------------
\* The rows of a submission: sessions in any order, at most a family's capacity.
Rows(S) ==
  {<<s>> : s \in S} \cup {r \in S \X S : MaxRows >= 2 /\ r[1] # r[2]}

Begin(kind, rows, chunks, reuse, step) ==
  /\ pc = "idle" /\ doomed = {}
  /\ pc' = step
  /\ at' = 1
  /\ call' = [kind |-> kind, rows |-> rows, chunks |-> chunks, reuse |-> reuse, saved |-> << >>]
  /\ UNCHANGED <<mode, sessions, pages, result, doomed, home, written>>

PrefillDue == {s \in Live : ~IsComplete(s) /\ ~PrefillComplete(s)}
DecodeDue == {s \in Live : ~IsComplete(s) /\ PrefillComplete(s)}

PrefillBatch ==
  /\ mode = "server"
  /\ \E rows \in Rows(PrefillDue) :
       \E chunks \in [DOMAIN rows -> 1 .. NumPages * PageSize] :
         /\ \A i \in DOMAIN rows : chunks[i] <= prompt[rows[i]] - cursor[rows[i]]
         /\ Begin("Prefill", rows, chunks, FALSE, "reserve")
  /\ ClearLane

DecodeBatch ==
  /\ mode = "server"
  /\ \E rows \in Rows(DecodeDue) :
       Begin("Decode", rows, [i \in DOMAIN rows |-> 1], MatchesMembers(rows), "reserve")
  /\ UNCHANGED <<lane, slab>>

PrefillStep ==
  /\ mode = "cli"
  /\ \E s \in PrefillDue : Begin("Prefill", <<s>>, <<prompt[s]>>, FALSE, "reserve")
  /\ UNCHANGED <<lane, slab>>

DecodeStep ==
  /\ mode = "cli"
  /\ \E s \in DecodeDue : Begin("Decode", <<s>>, <<1>>, TRUE, "reserve")
  /\ UNCHANGED <<lane, slab>>

-----------------------------------------------------------------------------
Row == call.rows[at]
LastRow == at = Len(call.rows)

\* Only what the step needs beyond the tentative length is appended.
Wanted(s) ==
  IF call.kind = "Prefill" THEN tentative[s] + call.chunks[at]
  ELSE IF Required(s) > tentative[s] THEN Required(s) ELSE tentative[s]

\* A checkpoint is taken before every append; a refusal rolls all of them back.
ReserveRow ==
  /\ pc = "reserve"
  /\ call' = [call EXCEPT !.saved = Append(@, tentative[Row])]
  /\ IF Wanted(Row) <= capacity[Row]
       THEN /\ tentative' = [tentative EXCEPT ![Row] = Wanted(Row)]
            /\ pc' = IF LastRow THEN "bind" ELSE "reserve"
            /\ at' = IF LastRow THEN 0 ELSE at + 1
       ELSE /\ UNCHANGED tentative
            /\ pc' = "rollback" /\ at' = 1
  /\ UNCHANGED <<mode, sessions, capacity, committed, unclaimed, lane, result, doomed, device>>

\* A lane of the same members continues, behind the prefix that is in flight.
FirstComponent == IF call.reuse /\ lane.prefix THEN LookaheadGroups + 1 ELSE Embedding

Bind ==
  /\ pc = "bind"
  /\ lane' = IF mode = "server" /\ call.kind = "Decode" /\ ~call.reuse THEN FreshLane(call.rows)
             ELSE [lane EXCEPT !.prefix = FALSE]
  /\ slab' = IF mode = "server"
               THEN [lane |-> FALSE, call |-> TRUE, slots |-> IF call.reuse THEN slab.slots ELSE {}]
               ELSE slab
  /\ call.reuse /\ mode = "server" => slab.lane
  /\ pc' = "launch"
  /\ at' = FirstComponent
  /\ UNCHANGED <<mode, sessions, pages, call, result, doomed, home, written>>

\* The positions that the batch on the device writes.
BatchRows == IF call.kind = "Prefill" THEN call.rows ELSE lane.members

Span(i) ==
  LET from == IF call.kind = "Prefill" THEN cursor[BatchRows[i]] ELSE lane.position[i]
  IN  [from |-> from, to |-> from + call.chunks[i] - 1]

Spans ==
  [s \in Range(BatchRows) |-> Span(CHOOSE i \in DOMAIN BatchRows : BatchRows[i] = s)]

Component ==
  /\ pc \in {"launch", "prefix"}
  /\ \/ at = Embedding /\ LaunchEmbedding
     \/ at \in 1 .. Groups /\ LaunchGroup(at, Spans)
  /\ IF pc = "prefix" /\ at = LookaheadGroups
       THEN pc' = "download" /\ at' = 0 /\ lane' = [lane EXCEPT !.prefix = TRUE]
       ELSE pc' = pc /\ at' = at + 1 /\ UNCHANGED lane
  /\ UNCHANGED <<mode, sessions, pages, call, result, doomed>>

\* A token is of the session whose context it was sampled from.
Token(i) ==
  LET s == BatchRows[i] IN
  IF Sampled(s, Span(i).to) THEN [of |-> s, index |-> Span(i).to + 1] ELSE Garbage

\* The server's decode head donates the slab, and gets the next one back.
LaunchHead ==
  /\ pc = "launch" /\ at = ModelHead
  /\ result' = [i \in DOMAIN BatchRows |-> Token(i)]
  /\ IF call.kind = "Decode"
       THEN /\ mode = "server" => UniquelyOwned
            /\ lane' = [lane EXCEPT !.position = [i \in DOMAIN @ |-> @[i] + 1]]
            /\ slab' = IF mode = "server" THEN [lane |-> TRUE, call |-> FALSE, slots |-> {}] ELSE slab
            /\ pc' = IF mode = "server" \/ WantsLookahead(call.rows[1]) THEN "prefix" ELSE "download"
       ELSE /\ slab' = NoSlab
            /\ pc' = "download"
            /\ UNCHANGED lane
  /\ at' = 0
  /\ UNCHANGED <<mode, sessions, pages, call, doomed, home, written>>

Download ==
  /\ pc = "download"
  /\ pc' = "commit" /\ at' = 1
  /\ UNCHANGED <<mode, sessions, pages, lane, call, result, doomed, device>>

-----------------------------------------------------------------------------
\* An upload, a launch or a download fails.  The lane is dropped; the server
\* rolls every row back, the diagnostic command cancels its session.
CallFails ==
  /\ pc \in {"bind", "launch", "prefix", "download"}
  /\ home' = IF pc \in {"launch", "prefix"} THEN HomeAfterFailure(at) ELSE home
  /\ ClearLane
  /\ IF mode = "server"
       THEN /\ pc' = "rollback" /\ at' = 1 /\ result' = << >>
            /\ UNCHANGED <<sessions, pages, call, doomed, written>>
       ELSE /\ Free(call.rows[1])
            /\ written' = Forgotten(call.rows[1])
            /\ Finish({})
  /\ UNCHANGED mode

RollbackRow ==
  /\ pc = "rollback"
  /\ tentative' = [tentative EXCEPT ![Row] = call.saved[at]]
  /\ IF at = Len(call.saved) THEN Finish(Range(call.rows))
     ELSE at' = at + 1 /\ UNCHANGED <<pc, call, result, doomed>>
  /\ UNCHANGED <<mode, sessions, capacity, committed, unclaimed, lane, device>>

\* A slip: the place of the lookahead is committed with the token.
AdvanceWithLookahead == IF call.kind = "Prefill" THEN call.chunks[at] ELSE 2

\* What a row advances by: its chunk, or the token that was fed.
Advance == call.chunks[at]

CommitPages ==
  /\ committed' = [committed EXCEPT ![Row] = @ + Advance]
  /\ cursor' = IF call.kind = "Prefill" THEN [cursor EXCEPT ![Row] = @ + Advance] ELSE cursor

\* Rows are committed one after the other, after the download.
CommitRow ==
  /\ pc = "commit"
  /\ CommitPages
  /\ IF call.kind = "Decode" \/ cursor'[Row] = prompt[Row]
       THEN /\ visible' = [visible EXCEPT ![Row] = Append(@, result[at])]
            /\ \E stop \in BOOLEAN : stopped' = [stopped EXCEPT ![Row] = stop]
       ELSE UNCHANGED <<visible, stopped>>
  /\ lane' = IF mode = "cli" /\ call.kind = "Prefill"
               THEN [members |-> call.rows, position |-> <<prompt[Row]>>, prefix |-> FALSE] ELSE lane
  /\ IF LastRow THEN Finish({})
     ELSE at' = at + 1 /\ UNCHANGED <<pc, call, result, doomed>>
  /\ UNCHANGED <<mode, status, prompt, budget, capacity, tentative, unclaimed, device>>

\* The row is committed when its token turns out to be the padding sentinel: the
\* call fails without a rollback, and with the lane as it is.
CommitFails ==
  /\ pc = "commit" /\ mode = "server"
  /\ CommitPages
  /\ Finish(Range(call.rows))
  /\ UNCHANGED <<mode, status, prompt, budget, visible, stopped, capacity, tentative, unclaimed, lane, device>>

-----------------------------------------------------------------------------
\* The engine may release any session between two calls, and releases all rows
\* of a failed call first.
ReleaseServerSession(s) ==
  /\ mode = "server" /\ pc = "idle"
  /\ s \in Live
  /\ doomed = {} \/ s \in doomed
  /\ Free(s)
  /\ ClearLane
  /\ doomed' = doomed \ {s}
  /\ written' = Forgotten(s)
  /\ UNCHANGED <<mode, pc, at, call, result, home>>

\* `finalize` of a complete session, or `cancel` after a token that could not be
\* emitted; a prefix that is still in flight is discarded.
EndSession(s) ==
  /\ mode = "cli" /\ pc = "idle"
  /\ s \in Live
  /\ IsComplete(s) \/ Generated(s) > 0
  /\ Free(s)
  /\ ClearLane
  /\ written' = Forgotten(s)
  /\ UNCHANGED <<mode, pc, at, call, result, doomed, home>>

\* Bound: the model has no more sessions.
Over ==
  /\ pc = "idle" /\ \A s \in Sessions : status[s] = "released"
  /\ UNCHANGED vars

Next ==
  \/ \E s \in Sessions, p \in Prompts, m \in Budgets :
       PrepareServerTokens(s, p, m) \/ PrepareTokens(s, p, m)
  \/ PrefillBatch \/ DecodeBatch \/ PrefillStep \/ DecodeStep
  \/ ReserveRow \/ Bind \/ Component \/ LaunchHead \/ Download
  \/ CallFails \/ RollbackRow \/ CommitRow \/ CommitFails
  \/ \E s \in Sessions : ReleaseServerSession(s) \/ EndSession(s)
  \/ Over

Spec == Init /\ [][Next]_vars

-----------------------------------------------------------------------------
\* Between calls the committed length counts exactly the prompt so far and the
\* tokens that were fed, and everything committed is in place in every layer:
\* whatever was rolled back, speculated or reused before.
CacheMatchesVisible ==
  pc = "idle" => \A s \in Held \ doomed :
    /\ committed[s] = cursor[s] + (IF Generated(s) > 0 THEN Generated(s) - 1 ELSE 0)
    /\ \A g \in 1 .. Groups : 0 .. committed[s] - 1 \subseteq written[s][g]

\* Every visible token was sampled from its own session's context, and at its
\* own position: lanes are reused, rows reordered and prefixes started early.
TokensReachTheirSession ==
  \A s \in Sessions : \A k \in DOMAIN visible[s] :
    visible[s][k] = [of |-> s, index |-> prompt[s] + k - 1]

\* Between calls the positions that the device has counted for a lane that may be
\* continued are those of the visible tokens; and the diagnostic command has a prefix on
\* its way only behind a token after which another one may still become visible.
LaneInStep ==
  pc = "idle" /\ Range(lane.members) \subseteq Live \ doomed =>
    \A i \in DOMAIN lane.members :
      LET s == lane.members[i]
      IN  /\ lane.position[i] + 1 = prompt[s] + Generated(s)
          /\ mode = "cli" /\ lane.prefix => Generated(s) < budget[s]

\* The host's account of every session is well-typed, within its budget, and that of the
\* caches and of the lane on the device.
SessionsExact == TypeOK /\ CacheMatchesVisible /\ LaneInStep

\* The device writes only positions that the page manager has handed to the row,
\* also for the prefix behind a token that turns out to be the last.
WritesStayReserved ==
  pc \in {"launch", "prefix"} /\ at \in 1 .. Groups =>
    \A s \in DOMAIN Spans : Spans[s].to < tentative[s]

\* After admission nothing is refused: an append always fits the reservation, and what is
\* written fits what was appended; a lane that is continued has its slab, and a head
\* is its slab's only owner.
NothingRefused ==
  /\ WritesStayReserved
  /\ pc = "reserve" => Wanted(Row) <= capacity[Row]
  /\ pc = "bind" /\ mode = "server" /\ call.reuse => slab.lane
  /\ pc = "launch" /\ at = ModelHead /\ mode = "server" /\ call.kind = "Decode" => UniquelyOwned

\* Once a failed launch has stranded the caches of a layer group, no session
\* ever gets another token: none is sampled from caches that are not there.
LossStopsTokens ==
  [][home # 1 .. Groups => \A s \in Sessions : Len(visible'[s]) <= Len(visible[s])]_vars

\* Sessions use the page manager only as its ledger allows, and give back what
\* they were granted.
UsesLedger == L!Spec
=============================================================================

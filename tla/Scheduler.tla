----------------------------- MODULE Scheduler -----------------------------
(***************************************************************************)
(* The continuous-batching policy of the serving engine: `Scheduler` in    *)
(* products/serve/src/server/scheduler.rs.                                 *)
(*                                                                         *)
(* A sequence waits, is admitted once its pages are reserved, has its      *)
(* prompt prefilled in chunks and is then decoded a token at a time.       *)
(* `plan` takes rows from the phase queues into one decode and one prefill *)
(* submission under a token budget; the rows stay in flight until their    *)
(* results are applied or the sequence is cancelled.  Every method takes   *)
(* `&mut self`, so a call is a step; a call that returns an error before   *)
(* it changed anything is a stuttering step.                               *)
(***************************************************************************)
EXTENDS Integers, Sequences, FiniteSets, SequencesExt

CONSTANTS
  SequenceIds,         \* identities the caller may enqueue
  BatchBuckets,        \* batch_buckets: row capacities that are compiled
  LargestBucket,       \* the last of them
  QueryBuckets,        \* prefill_query_buckets: chunk capacities compiled
  MaxActiveSequences,  \* max_active_sequences
  MaxBatchedTokens,    \* max_batched_tokens, the budget of one plan
  MaxPrefillChunk,     \* max_prefill_chunk
  MaxPrefillWait,      \* max_prefill_wait, in clock ticks
  MaxPrompt            \* bound: tokens of a prompt

\* SchedulerConfig::validate; a strictly increasing list of buckets is a set.
\* Identities are 64-bit numbers.
IsValid ==
  /\ IsFiniteSet(SequenceIds)
  /\ BatchBuckets \subseteq Nat \ {0} /\ 1 \in BatchBuckets
  /\ LargestBucket \in BatchBuckets /\ \A b \in BatchBuckets : b <= LargestBucket
  /\ QueryBuckets \subseteq Nat \ {0}
  /\ \E q \in QueryBuckets : MaxPrefillChunk <= q
  /\ {MaxActiveSequences, MaxBatchedTokens, MaxPrefillChunk, MaxPrefillWait} \subseteq Nat \ {0}
  /\ LargestBucket <= MaxActiveSequences /\ LargestBucket <= MaxBatchedTokens
  /\ MaxPrefillChunk <= MaxBatchedTokens
  /\ MaxPrompt \in Nat \ {0}

ASSUME SchedulerAssumption == IsValid

VARIABLES
  phase,      \* phase of every sequence; "Absent" when the state map lacks it
  remaining,  \* prompt_remaining
  planned,    \* planned_tokens of a prefill in flight, 0 otherwise
  waited,     \* time since admission, counted up to MaxPrefillWait
  waiting,    \* FIFO of the sequences not yet admitted
  prefill,    \* FIFO of the sequences with prompt left to process
  decode,     \* FIFO of the sequences ready to decode
  active,     \* the counter of admitted sequences
  plan        \* what the last call returned, if it was a plan

vars == <<phase, remaining, planned, waited, waiting, prefill, decode, active, plan>>

Phase == {"Absent", "Waiting", "Prefill", "Decode", "InFlightPrefill", "InFlightDecode"}

Admitted(s) == phase[s] \notin {"Absent", "Waiting"}

\* The sequences in phase p, and the admitted ones.
In(p) == {s \in SequenceIds : phase[s] = p}
AdmittedSet == {s \in SequenceIds : Admitted(s)}

NoPlan == [made |-> FALSE]
BatchPlan == [made : {TRUE}, decode : Seq(SequenceIds), prefill : Seq(SequenceIds),
              decodeFamily : Nat, prefillFamily : Nat, queryFamily : Nat,
              stable : BOOLEAN]

TypeOK ==
  /\ phase \in [SequenceIds -> Phase]
  /\ remaining \in [SequenceIds -> Nat]
  /\ planned \in [SequenceIds -> Nat]
  /\ waited \in [SequenceIds -> 0 .. MaxPrefillWait]
  /\ waiting \in Seq(SequenceIds)
  /\ prefill \in Seq(SequenceIds)
  /\ decode \in Seq(SequenceIds)
  /\ active \in Nat
  /\ plan \in BatchPlan \cup {NoPlan}

Init ==
  /\ phase = [s \in SequenceIds |-> "Absent"]
  /\ remaining = [s \in SequenceIds |-> 0]
  /\ planned = [s \in SequenceIds |-> 0]
  /\ waited = [s \in SequenceIds |-> 0]
  /\ waiting = << >>
  /\ prefill = << >>
  /\ decode = << >>
  /\ active = 0
  /\ plan = NoPlan

-----------------------------------------------------------------------------
\* The free function `remove`, and a slip of it that drops the front entry
\* instead.
WithoutFront(queue, s) == IF queue = << >> THEN queue ELSE Tail(queue)

Without(queue, s) == RemoveFirst(queue, s)

Smaller(a, b) == IF a < b THEN a ELSE b

\* family_for and prefill_family_for: the smallest bucket that holds n; 0
\* stands for the error that there is none.
FamilyFor(buckets, n) ==
  LET fitting == {b \in buckets : n <= b}
  IN  IF fitting = {} THEN 0 ELSE CHOOSE b \in fitting : \A c \in fitting : b <= c

-----------------------------------------------------------------------------
Enqueue(s, prompt) ==
  /\ phase[s] = "Absent"
  /\ phase' = [phase EXCEPT ![s] = "Waiting"]
  /\ remaining' = [remaining EXCEPT ![s] = prompt]
  /\ waiting' = Append(waiting, s)
  /\ plan' = NoPlan
  /\ UNCHANGED <<planned, waited, prefill, decode, active>>

AdmitReserved(s) ==
  /\ active < MaxActiveSequences
  /\ waiting # << >>
  /\ s = Head(waiting)
  /\ phase[s] = "Waiting"
  /\ waiting' = Tail(waiting)
  /\ phase' = [phase EXCEPT ![s] = "Prefill"]
  /\ waited' = [waited EXCEPT ![s] = 0]
  /\ prefill' = Append(prefill, s)
  /\ active' = active + 1
  /\ plan' = NoPlan
  /\ UNCHANGED <<remaining, planned, decode>>

-----------------------------------------------------------------------------
(* plan.  Decode rows are taken first, from the front of their queue, but  *)
(* one token of the budget is kept back when a prompt has aged; the aged   *)
(* prompt is then the first to be prefilled and the others follow in queue *)
(* order until the budget or the rows run out.                             *)
Aged == {i \in DOMAIN prefill : waited[prefill[i]] = MaxPrefillWait}

FirstAged == CHOOSE i \in Aged : \A j \in Aged : i <= j

\* Slips: no token, or a whole chunk, kept back.
DecodeRowsWithoutReserve == Smaller(Smaller(MaxBatchedTokens, Len(decode)), LargestBucket)
DecodeRowsReserveChunk ==
  Smaller(Smaller(MaxBatchedTokens - (IF Aged = {} THEN 0 ELSE MaxPrefillChunk), Len(decode)),
          LargestBucket)

DecodeRows ==
  Smaller(Smaller(MaxBatchedTokens - (IF Aged = {} THEN 0 ELSE 1), Len(decode)), LargestBucket)

\* The order in which prompts are taken; plain queue order would forget the
\* aged one.
QueueOrder == prefill

PrefillOrder ==
  IF Aged = {} THEN prefill
  ELSE [k \in DOMAIN prefill |->
          IF k = 1 THEN prefill[FirstAged]
          ELSE IF k <= FirstAged THEN prefill[k - 1] ELSE prefill[k]]

\* take_prefill: the chunk of s when `budget` tokens are left.
Chunk(s, budget) == Smaller(Smaller(remaining[s], MaxPrefillChunk), budget)

\* rows prompts are taken and left[k] is the budget when it is the k-th's turn.
Takes(order, rows, left) ==
  /\ \A k \in 1 .. rows : left[k] # 0 /\ left[k + 1] = left[k] - Chunk(order[k], left[k])
  /\ rows < Len(order) /\ rows < LargestBucket => left[rows + 1] = 0

\* stable_all_active_decode, from the rows taken and the queues left; the
\* slip overlooks the waiters.
OverlooksWaiters(decodeRows, prefillRows, prefillLeft, decodeLeft) ==
  /\ decodeRows # 0 /\ prefillRows = 0
  /\ prefillLeft = << >> /\ decodeLeft = << >>
  /\ active = decodeRows

IsStable(decodeRows, prefillRows, prefillLeft, decodeLeft) ==
  /\ decodeRows # 0 /\ prefillRows = 0
  /\ waiting = << >> /\ prefillLeft = << >> /\ decodeLeft = << >>
  /\ active = decodeRows

Plan ==
  LET order  == PrefillOrder
      budget == MaxBatchedTokens - DecodeRows
  IN  \E rows \in 0 .. Smaller(Len(prefill), LargestBucket) :
      \E left \in [1 .. rows + 1 -> 0 .. MaxBatchedTokens] :
        LET decoded  == SubSeq(decode, 1, DecodeRows)
            taken    == SubSeq(order, 1, rows)
            chunk(k) == left[k] - left[k + 1]
            longest  == CHOOSE n \in {chunk(k) : k \in 1 .. rows} \cup {0} :
                          \A k \in 1 .. rows : chunk(k) <= n
        IN  /\ left[1] = budget
            /\ Takes(order, rows, left)
            /\ decode' = SubSeq(decode, DecodeRows + 1, Len(decode))
            /\ prefill' = SubSeq(order, rows + 1, Len(order))
            /\ phase' = [s \in SequenceIds |->
                 IF \E i \in DOMAIN decoded : decoded[i] = s THEN "InFlightDecode"
                 ELSE IF \E k \in DOMAIN taken : taken[k] = s THEN "InFlightPrefill"
                 ELSE phase[s]]
            /\ planned' = [s \in SequenceIds |->
                 IF \E k \in DOMAIN taken : taken[k] = s
                 THEN chunk(CHOOSE k \in DOMAIN taken : taken[k] = s) ELSE planned[s]]
            /\ plan' = [made          |-> TRUE,
                        decode        |-> decoded,
                        prefill       |-> taken,
                        decodeFamily  |-> FamilyFor(BatchBuckets, DecodeRows),
                        prefillFamily |-> FamilyFor(BatchBuckets, rows),
                        queryFamily   |-> FamilyFor(QueryBuckets, longest),
                        stable        |-> IsStable(DecodeRows, rows, prefill', decode')]
            /\ UNCHANGED <<remaining, waited, waiting, active>>

-----------------------------------------------------------------------------
CompletePrefill(s, processed) ==
  /\ phase[s] = "InFlightPrefill"
  /\ processed = planned[s]
  /\ processed <= remaining[s]
  /\ remaining' = [remaining EXCEPT ![s] = @ - processed]
  /\ planned' = [planned EXCEPT ![s] = 0]
  /\ \/ /\ remaining'[s] = 0
        /\ phase' = [phase EXCEPT ![s] = "Decode"]
        /\ decode' = Append(decode, s)
        /\ UNCHANGED prefill
     \/ /\ remaining'[s] # 0
        /\ phase' = [phase EXCEPT ![s] = "Prefill"]
        /\ prefill' = Append(prefill, s)
        /\ UNCHANGED decode
  /\ plan' = NoPlan
  /\ UNCHANGED <<waited, waiting, active>>

\* The state of s leaves the map.
Forget(s) ==
  /\ phase' = [phase EXCEPT ![s] = "Absent"]
  /\ remaining' = [remaining EXCEPT ![s] = 0]
  /\ planned' = [planned EXCEPT ![s] = 0]
  /\ waited' = [waited EXCEPT ![s] = 0]
  /\ plan' = NoPlan

\* complete_decode.
CompleteDecode(s, terminal) ==
  /\ phase[s] = "InFlightDecode"
  /\ \/ /\ terminal
        /\ Forget(s)
        /\ active' = active - 1
        /\ UNCHANGED <<waiting, prefill, decode>>
     \/ /\ ~terminal
        /\ phase' = [phase EXCEPT ![s] = "Decode"]
        /\ decode' = Append(decode, s)
        /\ plan' = NoPlan
        /\ UNCHANGED <<remaining, planned, waited, waiting, prefill, active>>

Cancel(s) ==
  /\ phase[s] # "Absent"
  /\ Forget(s)
  /\ waiting' = IF phase[s] = "Waiting" THEN Without(waiting, s) ELSE waiting
  /\ prefill' = IF phase[s] = "Prefill" THEN Without(prefill, s) ELSE prefill
  /\ decode' = IF phase[s] = "Decode" THEN Without(decode, s) ELSE decode
  /\ active' = IF phase[s] = "Waiting" THEN active ELSE active - 1

RemoveTerminal(s) ==
  /\ phase[s] \in {"Prefill", "Decode"}
  /\ Forget(s)
  /\ prefill' = IF phase[s] = "Prefill" THEN Without(prefill, s) ELSE prefill
  /\ decode' = IF phase[s] = "Decode" THEN Without(decode, s) ELSE decode
  /\ active' = active - 1
  /\ UNCHANGED waiting

\* The clock the caller reads: every admitted sequence has waited longer.
Tick ==
  /\ waited' = [s \in SequenceIds |->
       IF Admitted(s) THEN Smaller(waited[s] + 1, MaxPrefillWait) ELSE waited[s]]
  /\ plan' = NoPlan
  /\ UNCHANGED <<phase, remaining, planned, waiting, prefill, decode, active>>

-----------------------------------------------------------------------------
Complete(s) ==
  \/ \E processed \in 0 .. MaxPrefillChunk + 1 : CompletePrefill(s, processed)
  \/ \E terminal \in BOOLEAN : CompleteDecode(s, terminal)

Next ==
  \/ \E s \in SequenceIds : \E prompt \in 1 .. MaxPrompt : Enqueue(s, prompt)
  \/ \E s \in SequenceIds : AdmitReserved(s)
  \/ Plan
  \/ \E s \in SequenceIds : Complete(s)
  \/ \E s \in SequenceIds : Cancel(s)
  \/ \E s \in SequenceIds : RemoveTerminal(s)
  \/ Tick

Spec == Init /\ [][Next]_vars

\* The engine loop plans again after every iteration, applies the results of
\* what it submitted, and the clock runs; requests come and go as they like.
Fairness ==
  /\ WF_vars(Plan)
  /\ \A s \in SequenceIds : WF_vars(Complete(s))
  /\ WF_vars(Tick)

LiveSpec == Spec /\ Fairness

-----------------------------------------------------------------------------
(* Properties.                                                             *)

InPrefill(s) == phase[s] \in {"Prefill", "InFlightPrefill"}

\* The queue lists exactly the sequences of a set, each once.
Lists(queue, members) ==
  /\ members = {queue[i] : i \in DOMAIN queue}
  /\ \A i, j \in DOMAIN queue : queue[i] = queue[j] => i = j

(* Every sequence is in the one queue its phase names, once, and in no     *)
(* other: none is lost on its way from one queue to the next.              *)
QueuesMatchPhases ==
  /\ Lists(waiting, In("Waiting"))
  /\ Lists(prefill, In("Prefill"))
  /\ Lists(decode, In("Decode"))

(* The active counter, which five methods keep by hand, is the number of   *)
(* admitted sequences, in whatever phase, and within max_active_sequences. *)
ActiveExact ==
  /\ active = Cardinality(AdmittedSet)
  /\ active <= MaxActiveSequences

(* A prompt is prefilled exactly once, whatever chunks it was cut into:    *)
(* there is prompt left until the sequence reaches decode and none after,  *)
(* and a chunk in flight is never empty, too long or beyond the prompt.    *)
PromptAccounted ==
  \A s \in SequenceIds :
    /\ phase[s] \in {"Waiting", "Prefill", "InFlightPrefill"} <=> remaining[s] > 0
    /\ planned[s] > 0 <=> phase[s] = "InFlightPrefill"
    /\ planned[s] <= Smaller(remaining[s], MaxPrefillChunk)

(* Through every order of completions, cancellations and plans the map of  *)
(* states, the queues, the counter and the prompts agree on each sequence. *)
SequencesExact == TypeOK /\ QueuesMatchPhases /\ ActiveExact /\ PromptAccounted

\* The prompt tokens of the plan that was just made.
PlannedTokens(rows) ==
  FoldFunction(LAMBDA n, total : n + total, 0, [i \in DOMAIN rows |-> planned[rows[i]]])

(* "Every active request is in this decode submission and no queued        *)
(* prefill or waiter requires a scheduling boundary" (BatchPlan): the      *)
(* engine leaves the scheduler alone for as long as the batch is stable.   *)
StableCoversAll ==
  plan.made /\ plan.stable =>
    {s \in SequenceIds : phase[s] # "Absent"} = {plan.decode[i] : i \in DOMAIN plan.decode}

(* A plan stays within the iteration's token budget, its rows and chunks   *)
(* fit a compiled family (plan has already dequeued the rows when it looks *)
(* for one, so an error there would strand them), it is empty only if no   *)
(* queue it serves holds work (the engine loop would otherwise spin), and  *)
(* what it says about the others is true.                                  *)
PlanFits ==
  plan.made =>
    /\ StableCoversAll
    /\ Len(plan.decode) + PlannedTokens(plan.prefill) <= MaxBatchedTokens
    /\ plan.decode # << >> => plan.decodeFamily \in BatchBuckets
    /\ plan.prefill # << >> => plan.prefillFamily \in BatchBuckets /\ plan.queryFamily \in QueryBuckets
    /\ plan.decode = << >> /\ plan.prefill = << >> => prefill = << >> /\ decode = << >>

(* "Aged prefill receives bounded progress" (PRODUCT.md): the prompt that  *)
(* has been aged longest in the queue gets a token of the next plan,       *)
(* however many decode rows and younger prompts stand before it.           *)
AgedPrefillServed ==
  [][plan'.made /\ Aged # {} =>
       \E k \in DOMAIN plan'.prefill : plan'.prefill[k] = prefill[FirstAged]]_vars

(* "Decode has priority" (PRODUCT.md): a plan that leaves a decode row     *)
(* waiting for want of budget spends on prompts no more than the one token *)
(* that is kept back for an aged one.                                      *)
DecodeKeepsPriority ==
  [][plan'.made /\ decode' # << >> /\ Len(plan'.decode) < LargestBucket =>
       PlannedTokens(plan.prefill)' = (IF Aged = {} THEN 0 ELSE 1)]_vars

(* No prompt is starved by decode rows or by other prompts, and no decode  *)
(* row by prompts or by other rows.                                        *)
NobodyStarves ==
  \A s \in SequenceIds :
    /\ InPrefill(s) ~> ~InPrefill(s)
    /\ phase[s] = "Decode" ~> phase[s] # "Decode"
=============================================================================

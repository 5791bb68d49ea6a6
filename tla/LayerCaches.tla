----------------------------- MODULE LayerCaches ------------------------------
(***************************************************************************)
(* What a submission does to device storage (gpt_oss/execution.rs over the *)
(* argument slots of nml-runtime).  The K/V buffers of the layers are      *)
(* moved into the argument slots of a layer group and come back as its     *)
(* outputs; the control slab of a decode lane is shared with embedding and *)
(* layers, and must have one owner when the head donates it.               *)
(*                                                                         *)
(* Component 0 is the embedding, 1 .. Groups are the layer groups, and     *)
(* Groups + 1 is the head.  Launches are queued in order and every one     *)
(* depends on its predecessor through hidden state and caches, so that     *)
(* what a launch writes is in place for the next one.                      *)
(***************************************************************************)
EXTENDS Integers

CONSTANTS
  Sessions,         \* identities of sessions (SequenceId)
  Groups,           \* layer groups of the model
  LookaheadGroups   \* DECODE_LOOKAHEAD_GROUPS: groups of the speculative prefix

ASSUME CachesAssumption ==
  /\ Groups \in Nat \ {0}
  /\ LookaheadGroups \in 1 .. Groups - 1

VARIABLES
  home,      \* groups whose K/V buffers are installed and not in a slot
  slab,      \* who holds the control slab: the lane, the call, argument slots
  written    \* positions of a session whose K/V are right, per layer group

Embedding == 0
ModelHead == Groups + 1

NoSlab == [lane |-> FALSE, call |-> FALSE, slots |-> {}]

CachesTypeOK ==
  /\ home \subseteq 1 .. Groups
  /\ slab \in [lane : BOOLEAN, call : BOOLEAN, slots : SUBSET (Embedding .. ModelHead)]
  /\ \A s \in Sessions, g \in 1 .. Groups : written[s][g] \subseteq Nat

CachesInit ==
  /\ home = 1 .. Groups
  /\ slab = NoSlab
  /\ written = [s \in Sessions |-> [g \in 1 .. Groups |-> {}]]

-----------------------------------------------------------------------------
\* A slip: the binding is left in place.
AliasKept(slots, c) == slots

\* `enqueue_releasing_batch_slab`: the alias in the component's slot is dropped
\* after the launch, whether it succeeded or not.
WithoutAlias(slots, c) == slots \ {c}

\* The head may donate the slab that the call has just moved into its slot.
UniquelyOwned == slab.call /\ ~slab.lane /\ slab.slots \subseteq {ModelHead}

\* A slip: a cache that an execution owns is not refused.
TakesAnything(g) == TRUE

\* `LayerCache::take`: the group's buffers are there to be moved into the slots.
CanTake(g) == g \in home

\* Launching group g over the positions spans[s] of every session in the batch.
\* K/V come out right if the hidden state was, and everything before it.
Attended(s, g, span) ==
  /\ 0 .. span.from - 1 \subseteq written[s][g]
  /\ g > 1 => span.from .. span.to \subseteq written[s][g - 1]

Wrote(g, spans) ==
  [s \in Sessions |->
     IF s \notin DOMAIN spans THEN written[s]
     ELSE [written[s] EXCEPT ![g] =
             IF Attended(s, g, spans[s]) THEN @ \cup (spans[s].from .. spans[s].to)
                                         ELSE @ \ (spans[s].from .. spans[s].to)]]

\* The head samples from a hidden state that attended to 0 .. p in every layer.
Sampled(s, p) == \A g \in 1 .. Groups : 0 .. p \subseteq written[s][g]

\* The session is gone; its pages may become another's.
Forgotten(s) == [written EXCEPT ![s] = [g \in 1 .. Groups |-> {}]]

LaunchEmbedding ==
  /\ slab' = [slab EXCEPT !.slots = WithoutAlias(@ \cup {Embedding}, Embedding)]
  /\ UNCHANGED <<home, written>>

\* The buffers are taken and installed again within the launch.
LaunchGroup(g, spans) ==
  /\ CanTake(g)
  /\ slab' = [slab EXCEPT !.slots = WithoutAlias(@ \cup {g}, g)]
  /\ written' = Wrote(g, spans)
  /\ UNCHANGED home

\* A launch that fails leaves the group's buffers in its argument slots, and
\* nobody installs them again.  (The slab is dropped with the call.)
HomeAfterFailure(c) == home \ {c}
=============================================================================

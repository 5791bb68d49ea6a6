--------------------------- MODULE LoadTransaction ---------------------------
(***************************************************************************)
(* What a parameter load promises (the `LoadTransaction` of               *)
(* nml-checkpoint): every component of the plan is inserted once, in any   *)
(* order; the model gets all of them or none, and an abandoned transaction *)
(* owns no buffer.                                                         *)
(***************************************************************************)
CONSTANT Artifacts  \* names of components in a checkpoint

VARIABLES
  phase,   \* "planning", "open", "committed" or "aborted"
  plan,    \* artifacts of the components to load
  owned    \* artifacts whose device buffer exists

Init ==
  /\ phase = "planning"
  /\ plan = {} /\ owned = {}

\* `LoadTransaction::new`, for a plan that was validated as a whole.
Open(artifacts) ==
  /\ phase = "planning"
  /\ phase' = "open" /\ plan' = artifacts
  /\ UNCHANGED owned

\* `insert`: "load plan contains unique artifacts".
Insert(artifact) ==
  /\ phase = "open"
  /\ artifact \in plan \ owned
  /\ owned' = owned \cup {artifact}
  /\ UNCHANGED <<phase, plan>>

Commit ==
  /\ phase = "open"
  /\ owned = plan
  /\ phase' = "committed"
  /\ UNCHANGED <<plan, owned>>

\* The transaction is dropped, and its buffers with it.
Abort ==
  /\ phase \in {"planning", "open"}
  /\ phase' = "aborted" /\ owned' = {}
  /\ UNCHANGED plan

Next ==
  \/ \E artifacts \in SUBSET Artifacts : Open(artifacts)
  \/ \E artifact \in plan : Insert(artifact)
  \/ Commit \/ Abort

Spec == Init /\ [][Next]_<<phase, plan, owned>>
=============================================================================

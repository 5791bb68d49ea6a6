-------------------------------- MODULE RunPod --------------------------------
(***************************************************************************)
(* One lease of tools/runpod: the controller that creates a billable pod,  *)
(* has its runner execute a selection of contracts once, and terminates    *)
(* it; the lease in memory and on disk; the provider; and the operator who *)
(* recovers the termination of a lease.  Every call may fail before or     *)
(* after it took effect, a save may fail, signals arrive between any two   *)
(* steps, and the controller may die.                                      *)
(*                                                                         *)
(* The runner is ContractRunner; it lives as long as the pod runs.         *)
(***************************************************************************)
EXTENDS ContractRunner

CONSTANTS
  MaxSignals,   \* bound: signals sent to the controller
  MaxCrashes    \* bound: deaths of a controller

ASSUME RunPodAssumption == MaxSignals \in Nat /\ MaxCrashes \in Nat

VARIABLES
  pod,        \* at the provider: "None", "Starting", "Running", "Exited", "Stopping", "Gone"
  post,       \* a POST /run is still under way although its sender has given up
  lease,      \* in memory: its state, and whether the pod's id is in it
  disk,       \* as it was last saved
  step,       \* of the controller
  role,       \* "Run" or "Recover"
  success,    \* what the run returns
  masked,     \* signals are ignored
  attempted,  \* termination was requested
  bypassed,   \* cleanup was cut short by a signal, a failing save or a death
  signals, crashes

controllerVars == <<lease, disk, step, role, success, masked, attempted, bypassed>>
vars == <<runnerVars, pod, post, controllerVars, signals, crashes>>

Ended == {"over", "dead"}

Init ==
  /\ RunnerInit
  /\ pod = "None"
  /\ post = FALSE
  /\ lease = [state |-> "allocating", pod |-> FALSE]
  /\ disk = lease
  /\ step = "create"
  /\ role = "Run"
  /\ success = FALSE
  /\ masked = FALSE
  /\ attempted = FALSE
  /\ bypassed = FALSE
  /\ signals = 0 /\ crashes = 0

-----------------------------------------------------------------------------
\* The provider and the pod's container.
PodStarts ==
  /\ pod = "Starting" /\ pod' = "Running"
  /\ UNCHANGED <<runnerVars, post, controllerVars, signals, crashes>>

PodStops ==
  /\ pod = "Stopping" /\ pod' = "Gone"
  /\ UNCHANGED <<runnerVars, post, controllerVars, signals, crashes>>

\* A pod that ends on its own may still be billed.
PodEnds ==
  /\ pod = "Running" /\ pod' \in {"Exited", "Gone"}
  /\ UNCHANGED <<runnerVars, post, controllerVars, signals, crashes>>

RunnerStep ==
  /\ pod = "Running"
  /\ \/ Boot \/ Stop \/ DeadlineBetween
     \/ \E outcome \in Statuses : FinishContract(outcome)
  /\ UNCHANGED <<pod, post, controllerVars, signals, crashes>>

Answers == pod = "Running" /\ runner # "Down"

\* A request that its sender has given up arrives after all, or is lost.
LatePost ==
  /\ post /\ post' = FALSE
  /\ IF Answers /\ Accepts THEN Accept ELSE UNCHANGED runnerVars
  /\ UNCHANGED <<pod, controllerVars, signals, crashes>>

-----------------------------------------------------------------------------
\* An exception in the body: it is recorded, then the cleanup runs.
Raise == step' = "except" /\ UNCHANGED <<lease, disk>>

\* `record` and `store.save`; a save replaces the file or leaves it as it was.
Record(s, p, next) ==
  /\ lease' = [state |-> s, pod |-> p]
  /\ \/ disk' = lease' /\ step' = next
     \/ disk' = disk /\ step' = "except"

Body == UNCHANGED <<role, success, masked, attempted, bypassed, signals, crashes>>

\* The provider creates the pod or not; the answer names it, is lost, or names
\* another image, in which case the pod is terminated without being recorded.
Create ==
  /\ step = "create"
  /\ \/ pod' = "Starting" /\ step' = "record" /\ UNCHANGED <<lease, disk>>
     \/ pod' \in {"None", "Starting", "Stopping"} /\ Raise
  /\ UNCHANGED <<runnerVars, post>> /\ Body

RecordPod ==
  /\ step = "record"
  /\ Record("provisioning", TRUE, "plane")
  /\ UNCHANGED <<runnerVars, pod, post>> /\ Body

\* Polls until the pod runs; a terminal pod, an error and the deadline raise.
WaitForControlPlane ==
  /\ step = "plane"
  /\ IF pod = "Running" THEN Record("control_plane_running", TRUE, "ready") \/ Raise ELSE Raise
  /\ UNCHANGED <<runnerVars, pod, post>> /\ Body

\* Errors of the requests are polled over; the deadline raises.
WaitForReadiness ==
  /\ step = "ready"
  /\ IF Answers THEN Record("application_ready", TRUE, "submit") \/ Raise ELSE Raise
  /\ UNCHANGED <<runnerVars, pod, post>> /\ Body

Accepted == step' = "accepted" /\ UNCHANGED <<lease, disk>>

\* The answer came, or it did not: the request was lost, had arrived, or will
\* arrive later.  Only a URLError leads to the question for the state.
SubmitRun ==
  /\ step = "submit"
  /\ \/ /\ Answers
        /\ UNCHANGED post
        /\ IF Accepts THEN Accept /\ Accepted ELSE UNCHANGED runnerVars /\ Raise
     \/ /\ \/ Answers /\ Accepts /\ Accept /\ UNCHANGED post
           \/ UNCHANGED runnerVars /\ post' \in BOOLEAN
        /\ step' \in {"check", "except"} /\ UNCHANGED <<lease, disk>>
  /\ UNCHANGED pod /\ Body

\* A slip: an idle runner has not seen the request, so it is sent again.
SendAgain == step' = "submit" /\ UNCHANGED <<lease, disk>>

\* The first request did not take ownership: the error is raised.
NotOwned == Raise

CheckState ==
  /\ step = "check"
  /\ \/ Answers /\ runner \in {"Running", "Terminal"} /\ Accepted
     \/ Answers /\ runner = "Idle" /\ NotOwned
     \/ Raise
  /\ UNCHANGED <<runnerVars, pod, post>> /\ Body

RecordExecuting ==
  /\ step = "accepted"
  /\ Record("executing", TRUE, "result")
  /\ UNCHANGED <<runnerVars, pod, post>> /\ Body

\* The result is the runner's, or the deadline expires; the run returns success
\* only when the result could be saved.
WaitForResult ==
  /\ step = "result"
  /\ \/ /\ Answers /\ runner = "Terminal"
        /\ Record(IF status = "Succeeded" THEN "contract_succeeded" ELSE "contract_failed", TRUE, "finally")
        /\ success' = (status = "Succeeded" /\ step' = "finally")
     \/ Raise /\ UNCHANGED success
  /\ UNCHANGED <<runnerVars, pod, post, role, masked, attempted, bypassed, signals, crashes>>

-----------------------------------------------------------------------------
\* The handler records the failure; if it cannot, the cleanup runs all the same.
HandleException ==
  /\ step = "except"
  /\ lease' = [lease EXCEPT !.state = "controller_failed"]
  /\ disk' \in {disk, lease'}
  /\ step' = "finally"
  /\ UNCHANGED <<runnerVars, pod, post>> /\ Body

\* A slip: the pod of a failed run is kept to be looked at.
OnlyAfterResult == lease.pod /\ lease.state # "controller_failed"

NeedsTermination == lease.pod

\* From here to the end signals are ignored.
IgnoreSignals ==
  /\ step = "finally"
  /\ masked' = TRUE
  /\ step' = IF NeedsTermination THEN "pending" ELSE "over"
  /\ UNCHANGED <<runnerVars, pod, post, lease, disk, role, success, attempted, bypassed, signals, crashes>>

\* `terminate_and_confirm`.  Its first save is not guarded: when that fails,
\* nothing is terminated.
TerminationPending(saved) ==
  /\ step = "pending"
  /\ lease' = [lease EXCEPT !.state = "termination_pending"]
  /\ disk' = IF saved THEN lease' ELSE disk
  /\ step' = IF saved THEN "terminate" ELSE "over"
  /\ bypassed' = (bypassed \/ ~saved)
  /\ success' = (success /\ (saved \/ role = "Recover"))
  /\ UNCHANGED <<runnerVars, pod, post, role, masked, attempted, signals, crashes>>

\* The request reaches the provider or not, and its answer arrives or not.
Terminate(delivered) ==
  /\ step = "terminate"
  /\ pod' = IF delivered /\ pod # "Gone" THEN "Stopping" ELSE pod
  /\ step' \in IF delivered THEN {"confirm", "orphan"} ELSE {"orphan"}
  /\ attempted' = TRUE
  /\ UNCHANGED <<runnerVars, post, lease, disk, role, success, masked, bypassed, signals, crashes>>

\* A slip: a pod that has exited counts as terminated.
ConfirmedWhenStopped == pod \in {"Exited", "Stopping", "Gone"}

\* The provider knows no such pod, or shows it terminated.
Confirmed == pod = "Gone"

\* A poll finds the pod gone; an error, the deadline and a failing save do not.
Confirm ==
  /\ step = "confirm"
  /\ \/ /\ Confirmed
        /\ lease' = [lease EXCEPT !.state = "terminated"]
        /\ disk' = lease' /\ step' = "over"
     \/ step' = "orphan" /\ UNCHANGED <<lease, disk>>
  /\ UNCHANGED <<runnerVars, pod, post>> /\ Body

\* The pod may still be billed: the run raises, whatever its result was.
RecordOrphan ==
  /\ step = "orphan"
  /\ lease' = [lease EXCEPT !.state = "orphaned"]
  /\ disk' \in {disk, lease'}
  /\ step' = "over"
  /\ success' = (success /\ role = "Recover")
  /\ UNCHANGED <<runnerVars, pod, post, role, masked, attempted, bypassed, signals, crashes>>

-----------------------------------------------------------------------------
\* `interrupt` raises wherever the controller is.  The two loops that talk to
\* the runner take it for an error of the request and poll on; in `create` the
\* pod may just have been made; in `finally` the cleanup is skipped.
Interrupt ==
  /\ role = "Run" /\ step \notin Ended /\ ~masked
  /\ signals < MaxSignals
  /\ signals' = signals + 1
  /\ pod' \in IF step = "create" THEN {"None", "Starting"} ELSE {pod}
  /\ \/ step \in {"ready", "result"} /\ UNCHANGED step
     \/ step \notin {"except", "finally"} /\ step' = "except"
     \/ step = "except" /\ step' = "finally"
     \/ step = "finally" /\ step' = "over"
  /\ success' = (success /\ step' # "over")
  /\ bypassed' = (bypassed \/ step = "finally")
  /\ UNCHANGED <<runnerVars, post, lease, disk, role, masked, attempted, crashes>>

\* The controller is killed; the lease on disk is what remains.
Die ==
  /\ step \notin Ended
  /\ crashes < MaxCrashes
  /\ crashes' = crashes + 1
  /\ step' = "dead"
  /\ success' = FALSE
  /\ bypassed' = TRUE
  /\ UNCHANGED <<runnerVars, pod, post, lease, disk, role, masked, attempted, signals>>

\* A slip: only a lease that says so needs the operator.
RecoversOrphansOnly == disk.pod /\ disk.state = "orphaned"

\* `recover_termination` refuses a lease without a pod.
Recoverable == disk.pod

Recover ==
  /\ step \in Ended
  /\ Recoverable
  /\ lease' = disk
  /\ step' = "pending"
  /\ role' = "Recover"
  /\ UNCHANGED <<runnerVars, pod, post, disk, success, masked, attempted, bypassed, signals, crashes>>

\* Nothing is left to be done.
Closed ==
  /\ step \in Ended /\ ~Recoverable
  /\ UNCHANGED vars

Controller ==
  \/ Create \/ RecordPod \/ WaitForControlPlane \/ WaitForReadiness
  \/ SubmitRun \/ CheckState \/ RecordExecuting \/ WaitForResult
  \/ HandleException \/ IgnoreSignals
  \/ \E saved \in BOOLEAN : TerminationPending(saved)
  \/ \E delivered \in BOOLEAN : Terminate(delivered)
  \/ Confirm \/ RecordOrphan

Next ==
  \/ Controller \/ Recover
  \/ PodStarts \/ PodStops \/ PodEnds \/ RunnerStep \/ LatePost
  \/ Interrupt \/ Die \/ Closed

Spec == Init /\ [][Next]_vars

\* The controller's loops have deadlines, so that it always goes on; the operator
\* follows the controller's advice (`recover with terminate`); and neither the
\* disk nor the way to the provider fails for ever.
Fairness ==
  /\ WF_vars(Controller) /\ WF_vars(Recover) /\ WF_vars(PodStops)
  /\ SF_vars(TerminationPending(TRUE)) /\ SF_vars(Terminate(TRUE))

FairSpec == Spec /\ Fairness

-----------------------------------------------------------------------------
\* However requests and answers are lost or late, and the container restarts:
\* the selection is never started twice.
AtMostOneExecution == executions <= 1

\* When a run returns success every contract of the selection has succeeded, once
\* and in its pod.
SuccessMeansAllPassed == success => passed = NumContracts

\* A lease on disk that says the pod is terminated is right.
TerminatedMeansGone == disk.state = "terminated" => pod = "Gone"

\* Unless the cleanup itself is cut short, every run that knows its pod has asked
\* for its termination before it ends, however it ends.
TerminationAttempted ==
  step = "over" /\ role = "Run" /\ lease.pod /\ ~bypassed => attempted

\* A pod whose id has reached the disk goes, whatever the controller died of.
KnownPodGoes == disk.pod ~> pod = "Gone"
=============================================================================

----------------------------- MODULE RunPodProofs -----------------------------
(***************************************************************************)
(* What holds of a lease for any selection of contracts, however often the *)
(* container restarts, signals arrive and controllers die.                 *)
(***************************************************************************)
EXTENDS RunPod, TLAPS

\* Steps at which the selection has not been sent yet.
Unsent == {"create", "record", "plane", "ready", "submit"}

\* Why one request is one execution: an execution uses the request up, and as long
\* as it was not sent there is neither.
OneRequest ==
  /\ post \in BOOLEAN
  /\ executions \in {0, 1}
  /\ executions = 1 => ~post
  /\ step \in Unsent => executions = 0 /\ ~post

States ==
  {"allocating", "provisioning", "control_plane_running", "application_ready", "executing",
   "contract_succeeded", "contract_failed", "controller_failed", "termination_pending",
   "terminated", "orphaned"}

Lease == [state : States, pod : BOOLEAN]

\* Why the word on disk is right: neither the lease in memory nor the one on disk
\* says so before the provider does, and a pod that is gone stays gone.
WordIsKept ==
  /\ lease \in Lease /\ disk \in Lease
  /\ lease.state = "terminated" => pod = "Gone"
  /\ disk.state = "terminated" => pod = "Gone"
  /\ step = "create" => pod = "None"

\* Why a success is one of all contracts: what has passed is counted over all lives of
\* the container, and agrees with the selection's progress in the only life that runs it.
ProgressCounted ==
  /\ OneRequest
  /\ runner \in {"Down", "Idle", "Running", "Terminal"}
  /\ finished \in Nat /\ passed \in Nat
  /\ success \in BOOLEAN
  /\ runner = "Idle" => finished = 0
  /\ executions = 0 => passed = 0 /\ runner \in {"Down", "Idle"}
  /\ runner = "Running" => passed = finished /\ finished < NumContracts
  /\ runner = "Terminal" /\ status = "Succeeded" => passed = NumContracts

\* A success is of all contracts, and nothing runs any more.
SuccessIsCounted == ProgressCounted /\ SuccessMeansAllPassed

\* Why no run ends without it: whoever waits for the confirmation has asked.
AskedBeforeTheEnd ==
  /\ step \in {"confirm", "orphan"} => attempted
  /\ TerminationAttempted

-----------------------------------------------------------------------------
LEMMA OneRequestInit == Init => OneRequest
  BY DEF Init, RunnerInit, OneRequest

\* Only these actions touch the request or the execution, or lead back to where
\* the selection is still to be sent.
LEMMA OneRequestStep == OneRequest /\ [Next]_vars => OneRequest'
<1> SUFFICES ASSUME OneRequest, [Next]_vars PROVE OneRequest'
  OBVIOUS
<1> USE DEF OneRequest, Unsent
<1>1. CASE Controller
  <2>1. CASE Create
    BY <2>1 DEF Create, Raise, Body, runnerVars
  <2>2. CASE RecordPod
    BY <2>2 DEF RecordPod, Record, Body, runnerVars
  <2>3. CASE WaitForControlPlane
    BY <2>3 DEF WaitForControlPlane, Record, Raise, Body, runnerVars
  <2>4. CASE WaitForReadiness
    BY <2>4 DEF WaitForReadiness, Record, Raise, Body, runnerVars
  <2>5. CASE SubmitRun
    BY <2>5 DEF SubmitRun, Accept, Accepted, Raise, Body, runnerVars
  <2>6. CASE CheckState
    BY <2>6 DEF CheckState, Accepted, NotOwned, Raise, Body, runnerVars
  <2>7. CASE RecordExecuting
    BY <2>7 DEF RecordExecuting, Record, Body, runnerVars
  <2>8. CASE WaitForResult
    BY <2>8 DEF WaitForResult, Record, Raise, runnerVars
  <2>9. CASE HandleException \/ IgnoreSignals
    BY <2>9 DEF HandleException, IgnoreSignals, Body, runnerVars
  <2>10. CASE \E saved \in BOOLEAN : TerminationPending(saved)
    BY <2>10 DEF TerminationPending, runnerVars
  <2>11. CASE \E delivered \in BOOLEAN : Terminate(delivered)
    BY <2>11 DEF Terminate, runnerVars
  <2>12. CASE Confirm \/ RecordOrphan
    BY <2>12 DEF Confirm, RecordOrphan, Body, runnerVars
  <2> QED
    BY <1>1, <2>1, <2>2, <2>3, <2>4, <2>5, <2>6, <2>7, <2>8, <2>9, <2>10, <2>11, <2>12
    DEF Controller
<1>2. CASE Recover
  BY <1>2 DEF Recover, runnerVars
<1>3. CASE PodStarts \/ PodStops \/ PodEnds
  BY <1>3 DEF PodStarts, PodStops, PodEnds, controllerVars, runnerVars
<1>4. CASE RunnerStep
  BY <1>4 DEF RunnerStep, Boot, Stop, DeadlineBetween, FinishContract, controllerVars
<1>5. CASE LatePost
  <2>1. post /\ post' = FALSE /\ step' = step
    BY <1>5 DEF LatePost, controllerVars
  <2>2. executions = 0 /\ step \notin Unsent
    BY <2>1
  <2>3. executions' \in {0, 1}
    BY <1>5, <2>2 DEF LatePost, Accept, runnerVars
  <2> QED
    BY <2>1, <2>2, <2>3
<1>6. CASE Interrupt
  BY <1>6 DEF Interrupt, runnerVars
<1>7. CASE Die
  BY <1>7 DEF Die, runnerVars
<1>8. CASE Closed \/ UNCHANGED vars
  BY <1>8 DEF Closed, vars, controllerVars, runnerVars
<1> QED
  BY <1>1, <1>2, <1>3, <1>4, <1>5, <1>6, <1>7, <1>8 DEF Next

\* The selection is started at most once, for any bounds.
THEOREM ExecutedOnce == Spec => []AtMostOneExecution
<1>1. OneRequest => AtMostOneExecution
  BY DEF OneRequest, AtMostOneExecution
<1> QED
  BY OneRequestInit, OneRequestStep, <1>1, PTL DEF Spec

-----------------------------------------------------------------------------
LEMMA WordIsKeptInit == Init => WordIsKept
  BY DEF Init, WordIsKept, Lease, States

\* A record of any other state keeps the word, whether it is saved or not.
LEMMA RecordKeepsWord ==
  ASSUME WordIsKept, NEW s \in States \ {"terminated"}, NEW next, next # "create",
         Record(s, TRUE, next), pod' = pod
  PROVE  WordIsKept'
<1>1. lease' = [state |-> s, pod |-> TRUE]
  BY DEF Record
<1>2. lease' \in Lease /\ lease'.state = s
  BY <1>1 DEF Lease
<1>3. disk' \in {disk, lease'}
  BY DEF Record
<1>4. step' # "create"
  BY DEF Record
<1> QED
  BY <1>2, <1>3, <1>4 DEF WordIsKept

LEMMA WordIsKeptStep == WordIsKept /\ [Next]_vars => WordIsKept'
<1> SUFFICES ASSUME WordIsKept, [Next]_vars PROVE WordIsKept'
  OBVIOUS
<1> USE DEF WordIsKept, Lease, States
<1>1. CASE Controller
  <2>1. CASE Create
    BY <2>1 DEF Create, Raise, Body
  <2>2. CASE RecordPod
    BY <2>2, RecordKeepsWord DEF RecordPod
  <2>3. CASE WaitForControlPlane
    <3>1. pod' = pod
      BY <2>3 DEF WaitForControlPlane
    <3>2. CASE Raise
      BY <3>1, <3>2 DEF Raise
    <3>3. CASE ~Raise
      BY <2>3, <3>1, <3>3, RecordKeepsWord DEF WaitForControlPlane
    <3> QED
      BY <3>2, <3>3
  <2>4. CASE WaitForReadiness
    <3>1. pod' = pod
      BY <2>4 DEF WaitForReadiness
    <3>2. CASE Raise
      BY <3>1, <3>2 DEF Raise
    <3>3. CASE ~Raise
      BY <2>4, <3>1, <3>3, RecordKeepsWord DEF WaitForReadiness
    <3> QED
      BY <3>2, <3>3
  <2>5. CASE SubmitRun
    BY <2>5 DEF SubmitRun, Accepted, Raise, Body
  <2>6. CASE CheckState
    BY <2>6 DEF CheckState, Accepted, NotOwned, Raise, Body
  <2>7. CASE RecordExecuting
    BY <2>7, RecordKeepsWord DEF RecordExecuting
  <2>8. CASE WaitForResult
    <3>1. pod' = pod
      BY <2>8 DEF WaitForResult
    <3>2. CASE Raise
      BY <3>1, <3>2 DEF Raise
    <3>3. CASE ~Raise
      <4>1. Record("contract_succeeded", TRUE, "finally") \/ Record("contract_failed", TRUE, "finally")
        BY <2>8, <3>3 DEF WaitForResult
      <4> QED
        BY <3>1, <4>1, RecordKeepsWord
    <3> QED
      BY <3>2, <3>3
  <2>9. CASE HandleException
    BY <2>9 DEF HandleException, Body
  <2>10. CASE IgnoreSignals
    BY <2>10 DEF IgnoreSignals
  <2>11. CASE \E saved \in BOOLEAN : TerminationPending(saved)
    BY <2>11 DEF TerminationPending
  <2>12. CASE \E delivered \in BOOLEAN : Terminate(delivered)
    BY <2>12 DEF Terminate
  <2>13. CASE Confirm
    BY <2>13 DEF Confirm, Confirmed, Body
  <2>14. CASE RecordOrphan
    BY <2>14 DEF RecordOrphan, Body
  <2> QED
    BY <1>1, <2>1, <2>2, <2>3, <2>4, <2>5, <2>6, <2>7, <2>8, <2>9, <2>10, <2>11, <2>12,
       <2>13, <2>14 DEF Controller
<1>2. CASE Recover
  BY <1>2 DEF Recover
<1>3. CASE PodStarts \/ PodStops \/ PodEnds
  BY <1>3 DEF PodStarts, PodStops, PodEnds, controllerVars
<1>4. CASE RunnerStep \/ LatePost
  BY <1>4 DEF RunnerStep, LatePost, controllerVars
<1>5. CASE Interrupt
  BY <1>5 DEF Interrupt, Ended
<1>6. CASE Die
  BY <1>6 DEF Die
<1>7. CASE Closed \/ UNCHANGED vars
  BY <1>7 DEF Closed, vars, controllerVars
<1> QED
  BY <1>1, <1>2, <1>3, <1>4, <1>5, <1>6, <1>7 DEF Next

\* A lease that was saved as terminated names a pod that is gone, for any bounds.
THEOREM TerminatedIsTrue == Spec => []TerminatedMeansGone
<1>1. WordIsKept => TerminatedMeansGone
  BY DEF WordIsKept, TerminatedMeansGone
<1> QED
  BY WordIsKeptInit, WordIsKeptStep, <1>1, PTL DEF Spec

-----------------------------------------------------------------------------
LEMMA SuccessInit == Init => SuccessIsCounted
<1> SUFFICES ASSUME Init PROVE SuccessIsCounted
  OBVIOUS
<1>1. success = FALSE
  BY DEF Init
<1>2. SuccessMeansAllPassed /\ success \in BOOLEAN
  BY <1>1, Zenon DEF SuccessMeansAllPassed
<1>3. runner = "Down" /\ finished = 0 /\ passed = 0
  BY DEF Init, RunnerInit
<1> QED
  BY <1>2, <1>3, OneRequestInit DEF SuccessIsCounted, ProgressCounted

\* The selection is accepted before anything has passed, because it is accepted once.
LEMMA AcceptCounts ==
  ASSUME SuccessIsCounted, executions = 0, Accept, success' = success
  PROVE  /\ runner' = "Running" /\ passed' = 0 /\ finished' = 0 /\ executions' = 1
         /\ success' = FALSE
<1>1. NumContracts # 0
  BY RunnerAssumption
<1>2. passed = 0 /\ finished = 0
  BY DEF SuccessIsCounted, ProgressCounted, Accept, Accepts
<1>3. success = FALSE
  BY <1>1, <1>2, Zenon DEF SuccessIsCounted, ProgressCounted, SuccessMeansAllPassed
<1> QED
  BY <1>2, <1>3 DEF Accept, Accepts

LEMMA SuccessStep == SuccessIsCounted /\ [Next]_vars => SuccessIsCounted'
<1> SUFFICES ASSUME SuccessIsCounted, [Next]_vars PROVE SuccessIsCounted'
  OBVIOUS
<1>1. OneRequest'
  BY OneRequestStep DEF SuccessIsCounted, ProgressCounted
<1>2. ASSUME UNCHANGED runnerVars, success' \in {success, FALSE} PROVE SuccessIsCounted'
  <2>1. success' \in BOOLEAN /\ passed' = passed
    BY <1>2, Zenon DEF SuccessIsCounted, ProgressCounted, runnerVars
  <2>2. SuccessMeansAllPassed'
    BY <1>2, <2>1, Zenon DEF SuccessIsCounted, SuccessMeansAllPassed
  <2> QED
    BY <1>1, <1>2, <2>1, <2>2 DEF SuccessIsCounted, ProgressCounted, runnerVars
<1>3. ASSUME executions = 0, Accept, success' = success PROVE SuccessIsCounted'
  <2>1. runner' = "Running" /\ passed' = 0 /\ finished' = 0 /\ executions' = 1 /\ success' = FALSE
    BY <1>3, AcceptCounts
  <2>2. SuccessMeansAllPassed' /\ success' \in BOOLEAN
    BY <2>1, Zenon DEF SuccessMeansAllPassed
  <2> QED
    BY <1>1, <2>1, <2>2, RunnerAssumption DEF SuccessIsCounted, ProgressCounted
<1>4. CASE Controller
  <2>1. CASE SubmitRun
    <3>1. executions = 0 /\ success' = success
      BY <2>1 DEF SubmitRun, Body, SuccessIsCounted, ProgressCounted, OneRequest, Unsent
    <3>2. Accept \/ UNCHANGED runnerVars
      BY <2>1 DEF SubmitRun
    <3> QED
      BY <3>1, <3>2, <1>2, <1>3
  <2>2. CASE WaitForResult
    <3>1. UNCHANGED runnerVars
      BY <2>2 DEF WaitForResult
    <3>2. CASE success' \in {success, FALSE}
      BY <3>1, <3>2, <1>2
    <3>3. CASE success' \notin {success, FALSE}
      <4>1. runner = "Terminal" /\ success' = (status = "Succeeded" /\ step' = "finally")
        BY <2>2, <3>3 DEF WaitForResult
      <4>2. status = "Succeeded" /\ success' = TRUE
        BY <4>1, <3>3
      <4>3. passed = NumContracts
        BY <4>1, <4>2 DEF SuccessIsCounted, ProgressCounted
      <4> QED
        BY <1>1, <3>1, <4>2, <4>3 DEF SuccessIsCounted, ProgressCounted, SuccessMeansAllPassed, runnerVars
    <3> QED
      BY <3>2, <3>3
  <2>3. CASE Create \/ RecordPod \/ WaitForControlPlane \/ WaitForReadiness \/ CheckState
               \/ RecordExecuting \/ HandleException \/ IgnoreSignals \/ Confirm
    BY <2>3, <1>2 DEF Create, RecordPod, WaitForControlPlane, WaitForReadiness, CheckState,
       RecordExecuting, HandleException, IgnoreSignals, Confirm, Body
  <2>4. CASE \E saved \in BOOLEAN : TerminationPending(saved)
    <3>1. success \in BOOLEAN
      BY DEF SuccessIsCounted, ProgressCounted
    <3> QED
      BY <2>4, <3>1, <1>2 DEF TerminationPending
  <2>5. CASE \E delivered \in BOOLEAN : Terminate(delivered)
    BY <2>5, <1>2 DEF Terminate
  <2>6. CASE RecordOrphan
    <3>1. success \in BOOLEAN
      BY DEF SuccessIsCounted, ProgressCounted
    <3> QED
      BY <2>6, <3>1, <1>2 DEF RecordOrphan
  <2> QED
    BY <1>4, <2>1, <2>2, <2>3, <2>4, <2>5, <2>6 DEF Controller
<1>5. CASE Recover \/ PodStarts \/ PodStops \/ PodEnds
  BY <1>5, <1>2 DEF Recover, PodStarts, PodStops, PodEnds, controllerVars
<1>6. CASE RunnerStep
  <2>1. success' = success
    BY <1>6 DEF RunnerStep, controllerVars
  <2>2. CASE Boot \/ Stop \/ DeadlineBetween
    BY <2>1, <2>2, <1>1 DEF Boot, Stop, DeadlineBetween, SuccessIsCounted, ProgressCounted, SuccessMeansAllPassed
  <2>3. CASE \E outcome \in Statuses : FinishContract(outcome)
    <3> PICK outcome \in Statuses : FinishContract(outcome)
      BY <2>3
    <3>1. /\ runner = "Running" /\ passed = finished /\ finished < NumContracts
          /\ finished \in Nat /\ NumContracts \in Nat /\ executions # 0 /\ success = FALSE
      BY RunnerAssumption DEF FinishContract, SuccessIsCounted, ProgressCounted, SuccessMeansAllPassed
    <3>2. /\ finished' = finished + 1 /\ executions' = executions /\ status' = outcome
          /\ passed' = IF outcome = "Succeeded" THEN passed + 1 ELSE passed
          /\ runner' = IF outcome = "Succeeded" /\ finished + 1 < NumContracts THEN "Running" ELSE "Terminal"
      BY DEF FinishContract, Continues
    <3> QED
      BY <1>1, <2>1, <3>1, <3>2 DEF SuccessIsCounted, ProgressCounted, SuccessMeansAllPassed
  <2> QED
    BY <1>6, <2>2, <2>3 DEF RunnerStep
<1>7. CASE LatePost
  <2>1. executions = 0 /\ success' = success
    BY <1>7 DEF LatePost, controllerVars, SuccessIsCounted, ProgressCounted, OneRequest
  <2> QED
    BY <1>7, <2>1, <1>2, <1>3 DEF LatePost
<1>8. CASE Interrupt
  <2>1. success \in BOOLEAN
    BY DEF SuccessIsCounted, ProgressCounted
  <2> QED
    BY <1>8, <2>1, <1>2 DEF Interrupt
<1>9. CASE Die
  BY <1>9, <1>2 DEF Die
<1>10. CASE Closed \/ UNCHANGED vars
  BY <1>10, <1>2 DEF Closed, vars, controllerVars
<1> QED
  BY <1>4, <1>5, <1>6, <1>7, <1>8, <1>9, <1>10 DEF Next

\* A run that returns success has had every contract of the selection succeed, for any
\* number of contracts, restarts, signals and deaths.
THEOREM SuccessIsOfAll == Spec => []SuccessMeansAllPassed
<1>1. SuccessIsCounted => SuccessMeansAllPassed
  BY DEF SuccessIsCounted
<1> QED
  BY SuccessInit, SuccessStep, <1>1, PTL DEF Spec

-----------------------------------------------------------------------------
LEMMA AskedInit == Init => AskedBeforeTheEnd
  BY DEF Init, AskedBeforeTheEnd, TerminationAttempted

LEMMA AskedStep == AskedBeforeTheEnd /\ [Next]_vars => AskedBeforeTheEnd'
<1> SUFFICES ASSUME AskedBeforeTheEnd, [Next]_vars PROVE AskedBeforeTheEnd'
  OBVIOUS
<1> USE DEF AskedBeforeTheEnd, TerminationAttempted
<1>1. ASSUME step' \notin {"confirm", "orphan", "over"} PROVE AskedBeforeTheEnd'
  BY <1>1
<1>2. CASE Controller
  <2>1. CASE Create \/ RecordPod \/ WaitForControlPlane \/ WaitForReadiness \/ SubmitRun
               \/ CheckState \/ RecordExecuting \/ WaitForResult \/ HandleException
    <3>1. step' \notin {"confirm", "orphan", "over"}
      BY <2>1 DEF Create, RecordPod, WaitForControlPlane, WaitForReadiness, SubmitRun,
         CheckState, RecordExecuting, WaitForResult, HandleException, Record, Raise, Accepted, NotOwned
    <3> QED
      BY <3>1, <1>1
  <2>2. CASE IgnoreSignals
    BY <2>2 DEF IgnoreSignals, NeedsTermination
  <2>3. CASE \E saved \in BOOLEAN : TerminationPending(saved)
    BY <2>3 DEF TerminationPending
  <2>4. CASE \E delivered \in BOOLEAN : Terminate(delivered)
    BY <2>4 DEF Terminate
  <2>5. CASE Confirm
    BY <2>5 DEF Confirm, Body
  <2>6. CASE RecordOrphan
    BY <2>6 DEF RecordOrphan
  <2> QED
    BY <1>2, <2>1, <2>2, <2>3, <2>4, <2>5, <2>6 DEF Controller
<1>3. CASE Recover
  BY <1>3, <1>1 DEF Recover
<1>4. CASE PodStarts \/ PodStops \/ PodEnds \/ RunnerStep \/ LatePost
  BY <1>4 DEF PodStarts, PodStops, PodEnds, RunnerStep, LatePost, controllerVars
<1>5. CASE Interrupt
  BY <1>5 DEF Interrupt, Ended
<1>6. CASE Die
  BY <1>6, <1>1 DEF Die
<1>7. CASE Closed \/ UNCHANGED vars
  BY <1>7 DEF Closed, vars, controllerVars
<1> QED
  BY <1>2, <1>3, <1>4, <1>5, <1>6, <1>7 DEF Next

\* Unless its cleanup is cut short, no run that knows its pod ends without having asked
\* for its termination, however requests fail and whatever could not be saved.
THEOREM NoRunEndsUnasked == Spec => []TerminationAttempted
<1>1. AskedBeforeTheEnd => TerminationAttempted
  BY DEF AskedBeforeTheEnd
<1> QED
  BY AskedInit, AskedStep, <1>1, PTL DEF Spec
=============================================================================

---------------------------- MODULE ContractRunner ----------------------------
(***************************************************************************)
(* The runner inside a RunPod pod (tools/device-contracts/src/lib.rs).  It *)
(* accepts one selection of contracts, ever, and runs it contract by       *)
(* contract up to the first that does not succeed.  Its state is in memory *)
(* only: a restarted container knows nothing of what it has run.           *)
(***************************************************************************)
EXTENDS Integers

CONSTANTS
  NumContracts,   \* contracts of the selection
  MaxRestarts     \* bound: restarts of the container

ASSUME RunnerAssumption == NumContracts \in Nat \ {0} /\ MaxRestarts \in Nat

VARIABLES
  runner,      \* "Down", "Idle", "Running" or "Terminal"
  finished,    \* contracts of the selection that have ended
  status,      \* terminal_status of the execution
  passed,      \* contracts that have succeeded in this pod, over all its lives
  executions,  \* times a selection was started in this pod
  restarts

runnerVars == <<runner, finished, status, passed, executions, restarts>>

Statuses == {"Succeeded", "Failed", "TimedOut"}

RunnerInit ==
  /\ runner = "Down"
  /\ finished = 0
  /\ status = "Succeeded"
  /\ passed = 0
  /\ executions = 0
  /\ restarts = 0

\* `serve`: nothing of an earlier life is known.
Boot ==
  /\ runner = "Down" /\ restarts <= MaxRestarts
  /\ runner' = "Idle"
  /\ finished' = 0 /\ status' = "Succeeded"
  /\ UNCHANGED <<passed, executions, restarts>>

\* SIGTERM, or the process dies.  `serve` cancels the contract that runs only
\* when it answers nobody any more, so that an interrupted result is never read.
Stop ==
  /\ runner # "Down"
  /\ runner' = "Down"
  /\ restarts' = restarts + 1
  /\ UNCHANGED <<finished, status, passed, executions>>

\* POST /run is accepted by an idle runner; otherwise it is a conflict.
Accepts == runner = "Idle"

Accept ==
  /\ Accepts
  /\ runner' = "Running"
  /\ executions' = executions + 1
  /\ UNCHANGED <<finished, status, passed, restarts>>

\* A slip: the selection goes on behind a failure, and the last status counts.
GoesOn(outcome) == TRUE

\* Only a success lets the next contract start.
Continues(outcome) == outcome = "Succeeded"

\* A contract exits (or cannot be spawned), or exceeds its share of the deadline.
FinishContract(outcome) ==
  /\ runner = "Running"
  /\ finished' = finished + 1
  /\ passed' = IF outcome = "Succeeded" THEN passed + 1 ELSE passed
  /\ status' = outcome
  /\ runner' = IF Continues(outcome) /\ finished + 1 < NumContracts THEN "Running" ELSE "Terminal"
  /\ UNCHANGED <<executions, restarts>>

\* The total deadline has passed before the next contract.
DeadlineBetween ==
  /\ runner = "Running"
  /\ status' = "TimedOut"
  /\ runner' = "Terminal"
  /\ UNCHANGED <<finished, passed, executions, restarts>>
=============================================================================

---------------------------- MODULE ParameterLoad ----------------------------
(***************************************************************************)
(* `ParameterSet::load_accounted` (nml-checkpoint).  The load of a model   *)
(* is planned as a whole, then its components are read and uploaded, and   *)
(* the model is put together from the buffers.  On CUDA the main thread    *)
(* streams one component after the other.  On a CPU worker threads take    *)
(* the next record from a shared counter, read it, and hand it over a      *)
(* rendezvous channel to the main thread, which uploads.                   *)
(*                                                                         *)
(* A model is a sequence of parameters [name, fits, components]; a         *)
(* component is [artifact, shape, parts], and tied parameters name the     *)
(* same artifact.  `fits` stands for `validate_sharding`.                  *)
(***************************************************************************)
EXTENDS Integers, Sequences, FiniteSets

CONSTANTS
  Registry,     \* the shape that the checkpoint stores under the name of an artifact
  Models,       \* models to load
  Parallelism   \* LoadOptions::parallelism

ASSUME LoadAssumption == Parallelism \in Nat \ {0}

VARIABLES
  model, cuda,  \* the call
  pc,           \* where the main thread is
  records,      \* the plan: artifacts in the order of the load
  next,         \* the counter the workers take records from
  worker,       \* what a worker thread is doing
  holding,      \* components whose bytes the main thread holds
  received,     \* records accepted by the main thread
  resident,     \* artifacts with a buffer in the transaction
  reads,        \* the counters of LoadAccounting
  uploads,
  loaded        \* the artifacts behind the components of the loaded model

main == <<model, cuda, pc, records, holding, received, resident, reads, uploads, loaded>>
vars == <<main, next, worker>>

-----------------------------------------------------------------------------
Threads == 1 .. Parallelism

Components(m) ==
  UNION {{m[i].components[c] : c \in DOMAIN m[i].components} : i \in DOMAIN m}

\* A slip: a component that is already planned is not compared with the plan.
OnlyNames(m) ==
  /\ \A i, j \in DOMAIN m : m[i].name = m[j].name => m[i] = m[j]
  /\ \A i \in DOMAIN m : m[i].fits
  /\ \A a \in Components(m) : a.artifact \in DOMAIN Registry

\* The visitor of the planning pass finds nothing wrong.
Consistent(m) ==
  /\ \A i, j \in DOMAIN m : m[i].name = m[j].name => m[i] = m[j]
  /\ \A i \in DOMAIN m : m[i].fits
  /\ \A a, b \in Components(m) : a.artifact = b.artifact => a = b
  /\ \A a \in Components(m) :
       a.artifact \in DOMAIN Registry /\ Registry[a.artifact] = a.shape

Planned(m) == {a.artifact : a \in Components(m)}

\* A model has finitely many parameters, each of finitely many components.
ASSUME ModelAssumption == \A m \in Models : IsFiniteSet(Planned(m))

\* The order of the load: the code's is that of the names in a map.
Orders(S) ==
  {r \in [1 .. Cardinality(S) -> S] : \A i, j \in DOMAIN r : r[i] = r[j] => i = j}

WorkerCount(planned) ==
  IF planned = {} THEN 1
  ELSE IF Cardinality(planned) < Parallelism THEN Cardinality(planned) ELSE Parallelism

Idle == [state |-> "idle", index |-> 0]
Gone == [state |-> "gone", index |-> 0]

\* The end of the scope: every thread has ended.
Joined == \A w \in Threads : worker[w] = Gone

\* A slip: the channel is left open until the workers have been joined.
NeverDropped == FALSE

\* The receiver is gone: the main thread has left the loop.
ReceiverDropped == pc \in {"join", "stop"}

-----------------------------------------------------------------------------
TypeOK ==
  /\ model \in Models /\ cuda \in BOOLEAN
  /\ pc \in {"plan", "load", "upload", "stream", "join", "stop", "resolve", "ok", "err"}
  /\ next \in Nat
  /\ worker \in [Threads -> [state : {"idle", "reading", "sending", "failed", "gone"},
                             index : Nat]]
  /\ holding \subseteq Planned(model)
  /\ received \in 0 .. Len(records)
  /\ resident \subseteq Planned(model)
  /\ reads \in Nat /\ uploads \in Nat

Init ==
  /\ model \in Models /\ cuda \in BOOLEAN
  /\ pc = "plan"
  /\ records = << >> /\ next = 0
  /\ worker = [w \in Threads |-> Gone]
  /\ holding = {} /\ received = 0 /\ resident = {}
  /\ reads = 0 /\ uploads = 0
  /\ loaded = << >>

\* The pass over the model before anything is allocated; then the threads.
Plan ==
  /\ pc = "plan"
  /\ IF Consistent(model)
     THEN /\ records' \in Orders(Planned(model))
          /\ IF cuda
             THEN pc' = "stream" /\ UNCHANGED worker
             ELSE /\ pc' = "load"
                  /\ worker' = [w \in Threads |->
                                  IF w <= WorkerCount(Planned(model)) THEN Idle ELSE Gone]
     ELSE pc' = "err" /\ UNCHANGED <<records, worker>>
  /\ UNCHANGED <<model, cuda, next, holding, received, resident, reads, uploads, loaded>>

-----------------------------------------------------------------------------
(* A worker thread.                                                          *)

\* A slip: the counter is read and written in two steps, and a write is lost.
LostUpdate == next

\* `next.fetch_add(1)`
Taken == next + 1

TakeRecord(w) ==
  /\ worker[w].state = "idle"
  /\ next' = Taken
  /\ worker' = [worker EXCEPT ![w] =
                  IF next < Len(records) THEN [state |-> "reading", index |-> next + 1] ELSE Gone]
  /\ UNCHANGED main

\* `read_with_shape`
ReadRecord(w) ==
  /\ worker[w].state = "reading"
  /\ \E outcome \in {"sending", "failed"} :
       worker' = [worker EXCEPT ![w] = [state |-> outcome, index |-> @.index]]
  /\ UNCHANGED <<main, next>>

\* `send` fails when nobody will receive any more.
SendFails(w) ==
  /\ worker[w].state \in {"sending", "failed"}
  /\ ReceiverDropped
  /\ worker' = [worker EXCEPT ![w] = Gone]
  /\ UNCHANGED <<main, next>>

Worker(w) == TakeRecord(w) \/ ReadRecord(w) \/ SendFails(w)

-----------------------------------------------------------------------------
(* The main thread over its workers.                                         *)

\* `recv`: a sender and the receiver meet.
Receive ==
  /\ pc = "load"
  /\ received < Len(records)
  /\ \E w \in Threads :
       /\ worker[w].state \in {"sending", "failed"}
       /\ worker' = [worker EXCEPT ![w] = Idle]
       /\ IF worker[w].state = "sending"
          THEN /\ pc' = "upload"
               /\ holding' = {records[worker[w].index]}
               /\ reads' = reads + 1
          ELSE pc' = "stop" /\ UNCHANGED <<holding, reads>>
  /\ UNCHANGED <<model, cuda, records, next, received, resident, uploads, loaded>>

\* A slip: the transaction forgets what it already owns.
OnlyLast(artifacts) == artifacts

\* `transaction.insert`
Inserted(artifacts) == resident \cup artifacts

\* `upload`, and `insert` into the transaction.
Upload ==
  /\ pc = "upload"
  /\ holding' = {}
  /\ \/ /\ pc' = "load"
        /\ resident' = Inserted(holding)
        /\ uploads' = uploads + 1
        /\ received' = received + 1
     \/ pc' = "stop" /\ UNCHANGED <<resident, uploads, received>>
  /\ UNCHANGED <<model, cuda, records, next, worker, reads, loaded>>

LeaveLoop ==
  /\ pc = "load"
  /\ received = Len(records)
  /\ pc' = "join"
  /\ UNCHANGED <<model, cuda, records, holding, received, resident, reads, uploads, loaded,
                 next, worker>>

\* The end of the scope joins every thread; an error drops the transaction.
Join ==
  /\ pc \in {"join", "stop"}
  /\ Joined
  /\ IF pc = "join"
     THEN pc' = "resolve" /\ UNCHANGED resident
     ELSE pc' = "err" /\ resident' = {}
  /\ UNCHANGED <<model, cuda, records, holding, received, reads, uploads, loaded, next, worker>>

\* CUDA: `reader` and `upload_component_from`, one record after the other.
Stream ==
  /\ pc = "stream"
  /\ IF received = Len(records)
     THEN pc' = "resolve" /\ UNCHANGED <<resident, received, reads, uploads>>
     ELSE \/ /\ resident' = Inserted({records[received + 1]})
             /\ received' = received + 1
             /\ reads' = reads + 1 /\ uploads' = uploads + 1
             /\ UNCHANGED pc
          \/ pc' = "err" /\ resident' = {} /\ UNCHANGED <<received, reads, uploads>>
  /\ UNCHANGED <<model, cuda, records, holding, loaded, next, worker>>

\* `load_parameters`: every component of the tree finds its buffer.
Resolve ==
  /\ pc = "resolve"
  /\ Planned(model) \subseteq resident
  /\ loaded' = [i \in DOMAIN model |->
                  [c \in DOMAIN model[i].components |-> model[i].components[c].artifact]]
  /\ pc' = "ok"
  /\ UNCHANGED <<model, cuda, records, holding, received, resident, reads, uploads, next, worker>>

Main == Plan \/ Receive \/ Upload \/ LeaveLoop \/ Join \/ Stream \/ Resolve

Returned == pc \in {"ok", "err"} /\ UNCHANGED vars

Next == Main \/ (\E w \in Threads : Worker(w)) \/ Returned

\* Every thread is scheduled, and reads and uploads end.
Fairness == WF_vars(Main) /\ \A w \in Threads : WF_vars(Worker(w))

Spec == Init /\ [][Next]_vars /\ Fairness

-----------------------------------------------------------------------------
\* The workers that hold the bytes of a component, or are reading them.
Reading == {w \in Threads : worker[w].state \in {"reading", "sending"}}

Spawned == WorkerCount(Planned(model))

\* "A rendezvous channel bounds live host components to the worker count":
\* a worker reads on while the main thread uploads what it has just accepted.
LiveWithinWorkers == Cardinality(Reading) + Cardinality(holding) <= Spawned

\* A component's bytes are on the host once at most: with one worker, or with
\* the main thread, and never again after the upload.
OneHolder ==
  /\ \A v, w \in Threads :
       /\ worker[v].index = worker[w].index /\ worker[v].index > 0 => v = w
       /\ worker[v].index > 0 =>
            records[worker[v].index] \notin holding \cup resident
  /\ holding \cap resident = {}

\* Workers, main thread and transaction agree on who has which component.
HoldersExact == TypeOK /\ OneHolder

\* A load that returns has joined its threads; its counters agree with the plan
\* when it succeeded, and it keeps nothing when it failed.
LeavesNothing ==
  pc \in {"ok", "err"} =>
    /\ \A w \in Threads : worker[w] = Gone
    /\ holding = {}
    /\ pc = "ok" => reads = Len(records) /\ uploads = Len(records)
    /\ pc = "err" => resident = {} /\ loaded = << >>

\* A model that is handed out has in every place a buffer of the shape and the
\* partition that the model declares there, loaded from the artifact it names.
LoadedAsDeclared ==
  pc = "ok" =>
    \A i \in DOMAIN model : \A c \in DOMAIN model[i].components :
      LET declared == model[i].components[c]
      IN  /\ loaded[i][c] = declared.artifact
          /\ declared.artifact \in resident
          /\ Registry[declared.artifact] = declared.shape
          /\ \A a \in Components(model) : a.artifact = declared.artifact => a = declared

\* However it ends, a load has ended as a whole.
LoadIsWhole == LeavesNothing /\ LoadedAsDeclared

\* The load is a transaction: T!Spec.
Phase ==
  CASE pc = "plan" -> "planning"
    [] pc = "ok" -> "committed"
    [] pc = "err" -> "aborted"
    [] OTHER -> "open"

T == INSTANCE LoadTransaction WITH
       Artifacts <- DOMAIN Registry, phase <- Phase, owned <- resident,
       plan <- {records[i] : i \in DOMAIN records}

IsTransaction == T!Spec

\* Whatever fails, the load comes to an end: no thread waits for another for ever.
LoadReturns == <>(pc \in {"ok", "err"})
=============================================================================

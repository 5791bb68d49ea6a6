------------------------- MODULE ParameterLoadProofs -------------------------
(***************************************************************************)
(* What holds of a load for any checkpoint, any model and any number of    *)
(* workers: a component has one holder, the load is a transaction, and     *)
(* what it hands out is what the model declares.                           *)
(***************************************************************************)
EXTENDS ParameterLoad, SequenceTheorems, FiniteSetTheorems, TLAPS

Planless == {"plan", "err"}
Threaded == {"load", "upload", "join", "stop"}
Ended == {"resolve", "ok", "err"}

WorkerStates == {"idle", "reading", "sending", "failed", "gone"}

\* The plan: consistent, and every component in it once.
PlanIsMade ==
  /\ model \in Models /\ cuda \in BOOLEAN
  /\ pc \in Threaded \cup Ended \cup {"plan", "stream"}
  /\ records \in Seq(Planned(model))
  /\ \A i, j \in DOMAIN records : records[i] = records[j] => i = j
  /\ pc \notin Planless => Consistent(model)
  /\ pc = "plan" => records = << >>
  /\ pc \in Threaded => ~cuda
  /\ pc = "stream" => cuda

\* Who has a component was handed its record: by the counter, or in its turn.
HandedOut ==
  /\ next \in Nat
  /\ received \in 0 .. Len(records)
  /\ resident \subseteq Planned(model)
  /\ \A a \in resident \cup holding :
       \E i \in DOMAIN records : records[i] = a /\ i <= IF cuda THEN received ELSE next
  /\ pc # "upload" => holding = {}
  /\ pc = "upload" => received < Len(records) /\ \E a : holding = {a}
  /\ pc = "plan" => received = 0
  /\ pc \in {"plan", "err"} => resident = {}

\* A worker that is busy has a record, and no other worker has it.
WorkersHaveRecords ==
  /\ worker \in [Threads -> [state : WorkerStates, index : Nat]]
  /\ \A w \in Threads :
       /\ worker[w].state \in {"idle", "gone"} => worker[w].index = 0
       /\ worker[w].state \notin {"idle", "gone"} =>
            worker[w].index \in DOMAIN records /\ worker[w].index <= next
  /\ cuda \/ pc \notin Threaded => \A w \in Threads : worker[w] = Gone

\* The counters, and what is handed out.
Counted ==
  /\ reads \in Nat /\ uploads = received
  /\ pc # "stop" /\ pc # "err" => reads = IF pc = "upload" THEN received + 1 ELSE received
  /\ pc \in {"join", "resolve", "ok"} => received = Len(records)
  /\ pc # "ok" => loaded = << >>
  /\ pc = "ok" =>
       /\ Planned(model) \subseteq resident
       /\ loaded = [i \in DOMAIN model |->
                      [c \in DOMAIN model[i].components |-> model[i].components[c].artifact]]

IInv == PlanIsMade /\ HandedOut /\ WorkersHaveRecords /\ OneHolder /\ Counted

-----------------------------------------------------------------------------
LEMMA OrdersArePlans ==
  ASSUME NEW S, IsFiniteSet(S), NEW r \in Orders(S)
  PROVE  r \in Seq(S) /\ \A i, j \in DOMAIN r : r[i] = r[j] => i = j
<1>1. Cardinality(S) \in Nat
  BY FS_CardinalityType
<1> QED
  BY <1>1, SeqDef DEF Orders

LEMMA RecordsLen ==
  ASSUME PlanIsMade
  PROVE  /\ Len(records) \in Nat /\ DOMAIN records = 1 .. Len(records)
         /\ \A i \in DOMAIN records : records[i] \in Planned(model)
  BY LenProperties, ElementOfSeq DEF PlanIsMade

LEMMA IInvInit == Init => IInv
<1> SUFFICES ASSUME Init PROVE IInv
  OBVIOUS
<1>1. records = << >> /\ records \in Seq(Planned(model)) /\ Len(records) = 0 /\ DOMAIN records = {}
  BY EmptySeq DEF Init
<1>2. \A w \in Threads : worker[w] = Gone /\ worker[w].index = 0 /\ worker[w].state = "gone"
  BY DEF Init, Gone
<1>3. PlanIsMade /\ HandedOut
  BY <1>1 DEF Init, PlanIsMade, HandedOut, Planless, Threaded, Ended
<1>4. WorkersHaveRecords
  BY <1>2 DEF Init, WorkersHaveRecords, WorkerStates, Gone
<1>5. OneHolder /\ Counted
  BY <1>1, <1>2 DEF Init, OneHolder, Counted
<1> QED
  BY <1>3, <1>4, <1>5 DEF IInv

-----------------------------------------------------------------------------
LEMMA IInvPlan == ASSUME IInv, Plan PROVE IInv'
<1> USE DEF IInv
<1>1. /\ pc = "plan" /\ records = << >> /\ next \in Nat /\ received = 0
      /\ resident = {} /\ holding = {} /\ loaded = << >> /\ reads = 0 /\ uploads = 0
      /\ UNCHANGED <<model, cuda, next, holding, received, resident, reads, uploads, loaded>>
      /\ \A w \in Threads : worker[w] = Gone
  BY DEF Plan, PlanIsMade, HandedOut, WorkersHaveRecords, Counted, Threaded
<1>2. CASE ~Consistent(model)
  <2>1. pc' = "err" /\ UNCHANGED <<records, worker>>
    BY <1>2 DEF Plan
  <2>2. PlanIsMade' /\ HandedOut' /\ WorkersHaveRecords' /\ Counted'
    BY <1>1, <2>1 DEF PlanIsMade, HandedOut, WorkersHaveRecords, Counted, Planless, Threaded, Ended
  <2> QED
    BY <1>1, <2>1, <2>2 DEF OneHolder
<1>3. CASE Consistent(model)
  <2>1. records' \in Orders(Planned(model)) /\ pc' = IF cuda THEN "stream" ELSE "load"
    BY <1>3 DEF Plan
  <2>2. records' \in Seq(Planned(model)) /\ \A i, j \in DOMAIN records' : records'[i] = records'[j] => i = j
    BY <2>1, OrdersArePlans, ModelAssumption DEF PlanIsMade
  <2>3. PlanIsMade'
    BY <1>1, <1>3, <2>1, <2>2 DEF PlanIsMade, Planless, Threaded, Ended, Consistent, Planned, Components
  <2>4. worker' \in [Threads -> {Idle, Gone}] /\ (cuda => worker' = worker)
    BY <1>1, <1>3 DEF Plan, WorkersHaveRecords
  <2>5. WorkersHaveRecords'
    BY <1>1, <2>1, <2>4 DEF WorkersHaveRecords, PlanIsMade, WorkerStates, Threaded, Idle, Gone
  <2>6. Len(records') \in Nat
    BY <2>2, LenProperties
  <2>7. HandedOut' /\ Counted'
    BY <1>1, <2>1, <2>6 DEF HandedOut, Counted, PlanIsMade, Planned, Components
  <2>8. OneHolder'
    BY <1>1, <2>4 DEF OneHolder, Idle, Gone
  <2> QED
    BY <2>3, <2>5, <2>7, <2>8
<1> QED
  BY <1>2, <1>3

-----------------------------------------------------------------------------
(* A worker changes its own state and the counter.                           *)
LEMMA MainStands ==
  ASSUME IInv, UNCHANGED main, next' \in Nat, next <= next'
  PROVE  PlanIsMade' /\ HandedOut' /\ Counted'
<1> USE DEF IInv, main
<1>1. PlanIsMade' /\ Counted'
  BY DEF PlanIsMade, Counted, Consistent, Planned, Components
<1>2. ASSUME NEW a \in resident \cup holding
      PROVE  \E i \in DOMAIN records : records[i] = a /\ i <= IF cuda THEN received ELSE next'
  <2> PICK i \in DOMAIN records : records[i] = a /\ i <= IF cuda THEN received ELSE next
    BY DEF HandedOut
  <2>1. i \in Nat /\ next \in Nat
    BY RecordsLen DEF HandedOut
  <2> QED
    BY <2>1
<1>3. Planned(model)' = Planned(model)
  BY DEF Planned, Components
<1>4. HandedOut'
  BY <1>2, <1>3 DEF HandedOut
<1> QED
  BY <1>1, <1>4

LEMMA IInvTakeRecord == ASSUME IInv, NEW w \in Threads, TakeRecord(w) PROVE IInv'
<1> USE DEF IInv
<1>1. /\ next' = next + 1 /\ next \in Nat /\ UNCHANGED main
      /\ worker[w].state = "idle" /\ ~cuda /\ pc \in Threaded
  BY DEF TakeRecord, Taken, HandedOut, WorkersHaveRecords, Gone
<1>2. PlanIsMade' /\ HandedOut' /\ Counted'
  BY <1>1, MainStands
<1>3. CASE next < Len(records)
  <2>1. worker' = [worker EXCEPT ![w] = [state |-> "reading", index |-> next + 1]]
    BY <1>3 DEF TakeRecord
  <2>2. next + 1 \in DOMAIN records
    BY <1>1, <1>3, RecordsLen
  <2>3. WorkersHaveRecords'
    BY <1>1, <2>1, <2>2, RecordsLen DEF WorkersHaveRecords, WorkerStates, main
  <2>4. records[next + 1] \notin holding \cup resident
    BY <1>1, <2>2, RecordsLen DEF HandedOut, PlanIsMade
  <2>5. \A v \in Threads : worker[v].index > 0 => worker[v].index <= next
    BY DEF WorkersHaveRecords, WorkerStates
  <2> QED
    BY <1>1, <1>2, <2>1, <2>3, <2>4, <2>5 DEF OneHolder, main, WorkersHaveRecords
<1>4. CASE ~(next < Len(records))
  <2>1. worker' = [worker EXCEPT ![w] = Gone]
    BY <1>4 DEF TakeRecord
  <2>2. WorkersHaveRecords'
    BY <1>1, <2>1, RecordsLen DEF WorkersHaveRecords, WorkerStates, main, Gone
  <2> QED
    BY <1>1, <1>2, <2>1, <2>2 DEF OneHolder, main, WorkersHaveRecords, Gone
<1> QED
  BY <1>3, <1>4

LEMMA IInvReadRecord == ASSUME IInv, NEW w \in Threads, ReadRecord(w) PROVE IInv'
<1> USE DEF IInv
<1>1. next' = next /\ next \in Nat /\ UNCHANGED main /\ worker[w].state = "reading"
  BY DEF ReadRecord, HandedOut
<1>2. PlanIsMade' /\ HandedOut' /\ Counted'
  BY <1>1, MainStands
<1> PICK outcome \in {"sending", "failed"} :
      worker' = [worker EXCEPT ![w] = [state |-> outcome, index |-> @.index]]
  BY DEF ReadRecord
<1>3. WorkersHaveRecords'
  BY <1>1 DEF WorkersHaveRecords, WorkerStates, main, Gone
<1>4. OneHolder'
  BY <1>1 DEF OneHolder, main, WorkersHaveRecords
<1> QED
  BY <1>2, <1>3, <1>4

LEMMA IInvSendFails == ASSUME IInv, NEW w \in Threads, SendFails(w) PROVE IInv'
<1> USE DEF IInv
<1>1. next' = next /\ next \in Nat /\ UNCHANGED main /\ worker' = [worker EXCEPT ![w] = Gone]
  BY DEF SendFails, HandedOut
<1>2. PlanIsMade' /\ HandedOut' /\ Counted'
  BY <1>1, MainStands
<1>3. WorkersHaveRecords'
  BY <1>1 DEF WorkersHaveRecords, WorkerStates, main, Gone
<1>4. OneHolder'
  BY <1>1 DEF OneHolder, main, WorkersHaveRecords, Gone
<1> QED
  BY <1>2, <1>3, <1>4

-----------------------------------------------------------------------------
LEMMA IInvReceive == ASSUME IInv, Receive PROVE IInv'
<1> USE DEF IInv
<1>1. /\ pc = "load" /\ received < Len(records) /\ ~cuda /\ holding = {}
      /\ UNCHANGED <<model, cuda, records, next, received, resident, uploads, loaded>>
  BY DEF Receive, PlanIsMade, HandedOut, Threaded
<1> PICK w \in Threads :
      /\ worker[w].state \in {"sending", "failed"}
      /\ worker' = [worker EXCEPT ![w] = Idle]
      /\ IF worker[w].state = "sending"
         THEN /\ pc' = "upload"
              /\ holding' = {records[worker[w].index]}
              /\ reads' = reads + 1
         ELSE pc' = "stop" /\ UNCHANGED <<holding, reads>>
  BY DEF Receive
<1>2. /\ worker[w].index \in DOMAIN records /\ worker[w].index <= next
      /\ worker[w].index > 0
  BY RecordsLen DEF WorkersHaveRecords
<1>3. PlanIsMade' /\ pc' \in {"upload", "stop"}
  BY <1>1 DEF PlanIsMade, Planless, Threaded, Ended, Consistent, Planned, Components
<1>4. Planned(model)' = Planned(model)
  BY <1>1 DEF Planned, Components
<1>5. HandedOut'
  <2>1. CASE pc' = "upload"
    <3>1. holding' = {records[worker[w].index]}
      BY <2>1
    <3>2. \A a \in resident' \cup holding' : \E i \in DOMAIN records : records[i] = a /\ i <= next
      BY <1>1, <1>2, <3>1 DEF HandedOut
    <3> QED
      BY <1>1, <1>4, <2>1, <3>1, <3>2 DEF HandedOut
  <2>2. CASE pc' = "stop"
    BY <1>1, <1>4, <2>2 DEF HandedOut
  <2> QED
    BY <1>3, <2>1, <2>2
<1>6. WorkersHaveRecords'
  BY <1>1, <1>3 DEF WorkersHaveRecords, WorkerStates, Idle, Threaded
<1>7. OneHolder'
  <2>1. records[worker[w].index] \notin resident
    BY <1>2 DEF OneHolder
  <2>2. \A v \in Threads \ {w} : worker[v].index > 0 =>
          records[worker[v].index] # records[worker[w].index]
    BY <1>2 DEF OneHolder, WorkersHaveRecords, WorkerStates, PlanIsMade
  <2> QED
    BY <1>1, <2>1, <2>2 DEF OneHolder, Idle, WorkersHaveRecords
<1>8. Counted'
  BY <1>1, <1>3 DEF Counted
<1> QED
  BY <1>3, <1>6, <1>7, <1>8, <1>5

LEMMA IInvUpload == ASSUME IInv, Upload PROVE IInv'
<1> USE DEF IInv
<1>1. /\ pc = "upload" /\ received < Len(records) /\ ~cuda /\ holding' = {}
      /\ UNCHANGED <<model, cuda, records, next, worker, reads, loaded>>
      /\ \/ pc' = "load" /\ resident' = resident \cup holding /\ uploads' = uploads + 1
            /\ received' = received + 1
         \/ pc' = "stop" /\ UNCHANGED <<resident, uploads, received>>
  BY DEF Upload, Inserted, PlanIsMade, HandedOut, Threaded
<1>2. PlanIsMade'
  BY <1>1 DEF PlanIsMade, Planless, Threaded, Ended, Consistent, Planned, Components
<1>3. HandedOut'
  BY <1>1, RecordsLen DEF HandedOut, Planned, Components
<1>4. WorkersHaveRecords'
  BY <1>1 DEF WorkersHaveRecords, Threaded
<1>5. OneHolder'
  BY <1>1 DEF OneHolder
<1>6. Counted'
  BY <1>1, RecordsLen DEF Counted, HandedOut
<1> QED
  BY <1>2, <1>3, <1>4, <1>5, <1>6

LEMMA IInvLeaveLoop == ASSUME IInv, LeaveLoop PROVE IInv'
<1> USE DEF IInv
<1>1. /\ pc = "load" /\ received = Len(records) /\ pc' = "join"
      /\ UNCHANGED <<model, cuda, records, holding, received, resident, reads, uploads, loaded,
                     next, worker>>
  BY DEF LeaveLoop
<1>2. PlanIsMade'
  BY <1>1 DEF PlanIsMade, Planless, Threaded, Ended, Consistent, Planned, Components
<1>3. HandedOut' /\ OneHolder'
  BY <1>1 DEF HandedOut, OneHolder, Planned, Components
<1>4. WorkersHaveRecords' /\ Counted'
  BY <1>1 DEF WorkersHaveRecords, Counted, Threaded
<1> QED
  BY <1>2, <1>3, <1>4

LEMMA IInvJoin == ASSUME IInv, Join PROVE IInv'
<1> USE DEF IInv
<1>1. /\ pc \in {"join", "stop"} /\ \A w \in Threads : worker[w] = Gone
      /\ pc' = IF pc = "join" THEN "resolve" ELSE "err"
      /\ resident' = IF pc = "join" THEN resident ELSE {}
      /\ UNCHANGED <<model, cuda, records, holding, received, reads, uploads, loaded, next, worker>>
  BY DEF Join, Joined
<1>2. PlanIsMade'
  BY <1>1 DEF PlanIsMade, Planless, Threaded, Ended, Consistent, Planned, Components
<1>3. HandedOut' /\ OneHolder'
  BY <1>1 DEF HandedOut, OneHolder, Planned, Components
<1>4. WorkersHaveRecords' /\ Counted'
  BY <1>1 DEF WorkersHaveRecords, Counted, Threaded
<1> QED
  BY <1>2, <1>3, <1>4

LEMMA IInvStream == ASSUME IInv, Stream PROVE IInv'
<1> USE DEF IInv
<1>1. /\ pc = "stream" /\ cuda /\ holding = {} /\ \A w \in Threads : worker[w] = Gone
      /\ UNCHANGED <<model, cuda, records, holding, loaded, next, worker>>
  BY DEF Stream, PlanIsMade, HandedOut, WorkersHaveRecords
<1>2. \/ /\ received = Len(records) /\ pc' = "resolve"
         /\ UNCHANGED <<resident, received, reads, uploads>>
      \/ /\ received # Len(records) /\ pc' = "stream"
         /\ resident' = resident \cup {records[received + 1]}
         /\ received' = received + 1 /\ reads' = reads + 1 /\ uploads' = uploads + 1
      \/ pc' = "err" /\ resident' = {} /\ UNCHANGED <<received, reads, uploads>>
  BY <1>1 DEF Stream, Inserted
<1>3. PlanIsMade'
  BY <1>1, <1>2 DEF PlanIsMade, Planless, Threaded, Ended, Consistent, Planned, Components
<1>4. Len(records) \in Nat /\ received \in Nat /\ received <= Len(records)
  BY RecordsLen DEF HandedOut
<1>5. HandedOut'
  <2>1. Planned(model)' = Planned(model)
    BY <1>1 DEF Planned, Components
  <2>2. CASE received = Len(records) /\ pc' = "resolve" /\ resident' = resident /\ received' = received
    BY <1>1, <2>1, <2>2 DEF HandedOut
  <2>3. CASE /\ received # Len(records) /\ pc' = "stream"
             /\ resident' = resident \cup {records[received + 1]} /\ received' = received + 1
    <3>1. received < Len(records)
      BY <1>4, <2>3
    <3>2. received + 1 \in DOMAIN records
      BY <1>4, <3>1, RecordsLen
    <3>3. records[received + 1] \in Planned(model)
      BY <3>2, RecordsLen
    <3>4. \A a \in resident : \E i \in DOMAIN records : records[i] = a /\ i <= received + 1
      BY <1>1, <1>4, RecordsLen DEF HandedOut
    <3>5. \A a \in resident' : \E i \in DOMAIN records : records[i] = a /\ i <= received + 1
      BY <1>4, <2>3, <3>2, <3>4
    <3>6. received + 1 \in 0 .. Len(records)
      BY <1>4, <3>1
    <3>7. resident' \subseteq Planned(model)
      BY <2>3, <3>3 DEF HandedOut
    <3>8. next' \in Nat /\ pc' = "stream" /\ holding' = {}
      BY <1>1, <2>3 DEF HandedOut
    <3> QED
      BY <1>1, <2>1, <2>3, <3>5, <3>6, <3>8, <3>7 DEF HandedOut
  <2>4. CASE pc' = "err" /\ resident' = {} /\ received' = received
    BY <1>1, <2>1, <2>4 DEF HandedOut
  <2> QED
    BY <1>2, <2>2, <2>3, <2>4
<1>6. WorkersHaveRecords'
  BY <1>1, <1>2 DEF WorkersHaveRecords, Threaded
<1>7. Counted'
  BY <1>1, <1>2, <1>4 DEF Counted
<1>8. OneHolder'
  BY <1>1, <1>2 DEF OneHolder, Gone
<1> QED
  BY <1>3, <1>5, <1>8, <1>6, <1>7

LEMMA IInvResolve == ASSUME IInv, Resolve PROVE IInv'
<1> USE DEF IInv
<1>1. /\ pc = "resolve" /\ pc' = "ok" /\ Planned(model) \subseteq resident
      /\ loaded' = [i \in DOMAIN model |->
                      [c \in DOMAIN model[i].components |-> model[i].components[c].artifact]]
      /\ UNCHANGED <<model, cuda, records, holding, received, resident, reads, uploads, next, worker>>
  BY DEF Resolve
<1>2. PlanIsMade'
  BY <1>1 DEF PlanIsMade, Planless, Threaded, Ended, Consistent, Planned, Components
<1>3. HandedOut' /\ OneHolder'
  BY <1>1 DEF HandedOut, OneHolder, Planned, Components
<1>4. WorkersHaveRecords' /\ Counted'
  BY <1>1 DEF WorkersHaveRecords, Counted, Threaded, Planned, Components
<1> QED
  BY <1>2, <1>3, <1>4

LEMMA IInvStep == IInv /\ [Next]_vars => IInv'
<1> SUFFICES ASSUME IInv, [Next]_vars PROVE IInv'
  OBVIOUS
<1>1. CASE Main
  BY <1>1, IInvPlan, IInvReceive, IInvUpload, IInvLeaveLoop, IInvJoin, IInvStream, IInvResolve
  DEF Main
<1>2. CASE \E w \in Threads : Worker(w)
  BY <1>2, IInvTakeRecord, IInvReadRecord, IInvSendFails DEF Worker
<1>3. CASE UNCHANGED vars
  <2>1. UNCHANGED main /\ next' = next /\ next \in Nat
    BY <1>3 DEF IInv, HandedOut, vars
  <2>3. PlanIsMade' /\ HandedOut' /\ Counted'
    BY <2>1, MainStands
  <2>2. WorkersHaveRecords' /\ OneHolder'
    BY <1>3 DEF IInv, WorkersHaveRecords, OneHolder, vars, main
  <2> QED
    BY <2>2, <2>3 DEF IInv
<1> QED
  BY <1>1, <1>2, <1>3 DEF Next, Returned

LEMMA IInvAlways == Spec => []IInv
  BY IInvInit, IInvStep, PTL DEF Spec

-----------------------------------------------------------------------------
\* What is held and resident is of the plan, and no more is received than was planned;
\* a component's bytes are on the host once at most, for any number of workers.
THEOREM HeldOnce == Spec => []HoldersExact
<1>1. ASSUME IInv PROVE HoldersExact
  <2>1. holding \subseteq Planned(model)
    BY <1>1, RecordsLen DEF IInv, HandedOut
  <2>2. received \in 0 .. Len(records) /\ received \in Nat
    BY <1>1, RecordsLen DEF IInv, HandedOut
  <2>3. TypeOK
    BY <1>1, <2>1, <2>2
    DEF TypeOK, IInv, PlanIsMade, HandedOut, WorkersHaveRecords, Counted, WorkerStates, Threaded, Ended
  <2> QED
    BY <1>1, <2>3 DEF IInv, HoldersExact
<1> QED
  BY <1>1, IInvAlways, PTL

\* A load that returned has joined its threads, and kept nothing if it failed.  What
\* it hands out is what the model declares, tied components included, for any
\* checkpoint and any model.
THEOREM EndsWhole == Spec => []LoadIsWhole
<1>1. ASSUME IInv, pc = "ok", NEW i \in DOMAIN model, NEW c \in DOMAIN model[i].components
      PROVE  LET declared == model[i].components[c]
             IN  /\ loaded[i][c] = declared.artifact
                 /\ declared.artifact \in resident
                 /\ Registry[declared.artifact] = declared.shape
                 /\ \A a \in Components(model) : a.artifact = declared.artifact => a = declared
  <2> DEFINE declared == model[i].components[c]
  <2>1. loaded[i][c] = declared.artifact /\ Planned(model) \subseteq resident
    BY <1>1 DEF IInv, Counted
  <2>2. declared \in Components(model)
    BY <1>1 DEF Components
  <2>3. declared.artifact \in resident
    BY <2>1, <2>2 DEF Planned
  <2>4. Consistent(model)
    BY <1>1 DEF IInv, PlanIsMade, Planless
  <2> QED
    BY <2>1, <2>2, <2>3, <2>4 DEF Consistent
<1>2. IInv => LoadedAsDeclared
  BY <1>1 DEF LoadedAsDeclared
<1>3. IInv => LeavesNothing
  BY DEF IInv, HandedOut, WorkersHaveRecords, Counted, LeavesNothing, Threaded
<1>4. IInv => LoadIsWhole
  BY <1>2, <1>3 DEF LoadIsWhole
<1> QED
  BY <1>4, IInvAlways, PTL

-----------------------------------------------------------------------------
(* The refinement of the transaction.                                        *)
Entries == {records[i] : i \in DOMAIN records}

LEMMA TransactionStep ==
  ASSUME IInv, Next
  PROVE  [T!Next]_<<Phase, Entries, resident>>
<1>1. CASE Plan /\ ~Consistent(model)
  <2>1. /\ pc = "plan" /\ pc' = "err" /\ records' = records /\ resident' = {}
    BY <1>1 DEF Plan, IInv, HandedOut
  <2>2. T!Abort
    BY <2>1 DEF T!Abort, Phase, Entries
  <2> QED
    BY <2>2 DEF T!Next
<1>2. CASE Plan /\ Consistent(model)
  <2>1. /\ pc = "plan" /\ pc' \in {"stream", "load"} /\ resident' = resident
        /\ records' \in Orders(Planned(model))
    BY <1>2 DEF Plan
  <2>2. Entries' \subseteq DOMAIN Registry
    BY <1>2, <2>1 DEF Entries, Orders, Planned, Consistent
  <2> PICK artifacts : artifacts = Entries'
    OBVIOUS
  <2>3. T!Open(artifacts)
    BY <2>1 DEF T!Open, Phase, Entries
  <2> QED
    BY <2>2, <2>3 DEF T!Next
<1>3. CASE Upload /\ pc' = "load"
  <2>1. pc = "upload" /\ records' = records /\ resident' = resident \cup holding
    BY <1>3 DEF Upload, Inserted
  <2>2. PICK a : holding = {a}
    BY <2>1 DEF IInv, HandedOut
  <2>3. a \in Entries \ resident
    BY <2>2 DEF IInv, HandedOut, OneHolder, Entries
  <2>4. T!Insert(a)
    BY <1>3, <2>1, <2>2, <2>3 DEF T!Insert, Phase, Entries
  <2> QED
    BY <2>3, <2>4 DEF T!Next, Entries
<1>4. CASE Stream /\ pc' = "stream"
  <2>1. /\ pc = "stream" /\ cuda /\ records' = records /\ received \in 0 .. Len(records) - 1
        /\ resident' = resident \cup {records[received + 1]}
    BY <1>4, RecordsLen DEF Stream, Inserted, IInv, PlanIsMade, HandedOut
  <2>2. received + 1 \in DOMAIN records
    BY <2>1, RecordsLen DEF IInv
  <2>3. records[received + 1] \in Entries \ resident
    BY <2>1, <2>2, RecordsLen DEF IInv, PlanIsMade, HandedOut, Entries
  <2>4. T!Insert(records[received + 1])
    BY <1>4, <2>1, <2>3 DEF T!Insert, Phase, Entries
  <2> QED
    BY <2>3, <2>4 DEF T!Next, Entries
<1>5. CASE (Stream /\ pc' = "err") \/ (Join /\ pc = "stop")
  <2>1. /\ Phase = "open" /\ Phase' = "aborted" /\ records' = records /\ resident' = {}
    BY <1>5 DEF Stream, Join, Phase
  <2> QED
    BY <2>1 DEF T!Abort, T!Next, Entries
<1>6. CASE Resolve
  <2>1. /\ Phase = "open" /\ Phase' = "committed" /\ records' = records /\ resident' = resident
        /\ Planned(model) \subseteq resident
    BY <1>6 DEF Resolve, Phase
  <2>2. Entries \subseteq Planned(model) /\ resident \subseteq Entries
    BY RecordsLen DEF IInv, HandedOut, Entries
  <2> QED
    BY <2>1, <2>2 DEF T!Commit, T!Next, Entries
<1>7. CASE \/ Receive \/ LeaveLoop \/ Returned \/ \E w \in Threads : Worker(w)
           \/ Upload /\ pc' # "load"
           \/ Stream /\ pc' \notin {"stream", "err"}
           \/ Join /\ pc # "stop"
  <2>1. Phase' = Phase /\ records' = records /\ resident' = resident
    BY <1>7 DEF Receive, LeaveLoop, Returned, Worker, TakeRecord, ReadRecord, SendFails, Upload,
                Stream, Join, Phase, main, vars
  <2> QED
    BY <2>1 DEF Entries
<1> QED
  BY <1>1, <1>2, <1>3, <1>4, <1>5, <1>6, <1>7 DEF Next, Main

\* The load implements the transaction: each component of the plan is inserted
\* once, all are committed or none is kept, whatever the workers do.
THEOREM TransactionIsImplemented == Spec => IsTransaction
<1>1. Init => T!Init
  BY DEF Init, T!Init, Phase
<1>2. IInv /\ [Next]_vars => [T!Next]_<<Phase, Entries, resident>>
  <2>1. CASE Next
    BY <2>1, TransactionStep
  <2>2. CASE UNCHANGED vars
    BY <2>2 DEF vars, main, Phase, Entries
  <2> QED
    BY <2>1, <2>2
<1> QED
  BY <1>1, <1>2, IInvAlways, PTL DEF Spec, IsTransaction, T!Spec, Entries
=============================================================================

--------------------------- MODULE ComponentUpload ---------------------------
(***************************************************************************)
(* `Platform::upload_component_from` (nml-runtime): one component of a     *)
(* parameter is streamed from a file to its shards through a few reusable  *)
(* DMA lanes.  The host fills a lane, hands it to one transfer for every   *)
(* shard of a group, and goes on to the next lane; the device carries the  *)
(* transfers out whenever it likes, reading the lane as it finds it.       *)
(*                                                                         *)
(* A byte of the file is named by its position, so that what a shard holds *)
(* says where it came from.  Transfers and events are PJRT's: `flying` are *)
(* those the device has not finished, and one that failed is in `broken`.  *)
(***************************************************************************)
EXTENDS Sharding

CONSTANTS
  StagingBuffers,  \* DMA lanes
  ChunkBytes,      \* bytes of a lane
  Jobs             \* uploads to look at: [tensor, sharding, devices, cuda]

ASSUME UploadAssumption ==
  /\ StagingBuffers \in Nat \ {0}
  /\ ChunkBytes \in Nat \ {0}

\* Shapes are made of numbers, and no axis of a mesh is empty (`Sharding::mesh`).
ASSUME JobsAssumption ==
  \A j \in Jobs :
    /\ j.tensor.dims \in Seq(Nat) /\ j.tensor.width \in Nat \ {0}
    /\ j.sharding.kind \in {"single", "replicated", "mesh"}
    /\ Sizes(j.sharding.axes) \in Seq(Nat \ {0})
    /\ j.devices \in Nat

VARIABLES
  job,      \* the call: tensor and sharding, devices of the platform, whether it is CUDA
  pc,       \* where the host is
  todo,     \* groups still to be streamed: regions of the tensor
  region,   \* the region being streamed
  cursor,   \* span, bytes of it consumed, bytes written to every shard of the group
  begun,    \* chunks begun: transfer_index
  asked,    \* shards of the group that already have a transfer of this chunk
  lane,     \* what a lane holds: where in the file, how much, and if it is mapped
  pending,  \* handles of the transfers from a lane
  managers, \* shards whose transfer manager is alive
  flying, broken,
  closed,   \* managers that were told that the last transfer has come
  memory,   \* what the shards hold
  reads     \* how often a byte of the file was read

hostVars == <<todo, region, cursor, begun, asked, lane, pending, managers, closed, reads>>
vars == <<job, pc, hostVars, flying, broken, memory>>

-----------------------------------------------------------------------------
Lanes == 0 .. StagingBuffers - 1
Shards == 0 .. ExecutionCount(job.sharding, job.devices) - 1
RegionOf(shard) == Region(job.sharding, job.tensor, shard)

Unmapped == [mapped |-> FALSE, start |-> 0, length |-> 0]
Blank == [mapped |-> TRUE, start |-> 0, length |-> 0]
Start == [span |-> 1, consumed |-> 0, written |-> 0]
NoHandles == [l \in Lanes |-> {}]
Unwritten == -1

\* The shards that a group's chunks are fanned out to.
Destinations == {s \in Shards : RegionOf(s) = region}

\* Placement::Mesh streams the spans of a region, the other placements the
\* whole component.
FileSpans ==
  IF job.sharding.kind = "mesh"
  THEN Spans(job.tensor, region)
  ELSE <<[start |-> 0, length |-> Bytes(job.tensor)]>>

Total == ShardBytes(job.tensor, region)

\* The chunk at the cursor: where in the file it begins and how long it is.
ChunkStart == FileSpans[cursor.span].start + cursor.consumed

Left == FileSpans[cursor.span].length - cursor.consumed
ChunkLength == IF Left < ChunkBytes THEN Left ELSE ChunkBytes

GroupDone == cursor.span > Len(FileSpans)

\* The lane of the chunk at the cursor.
ThisLane == begun % StagingBuffers

\* A slip: the last chunk is taken to be a full one.
EndsOnFullChunk == cursor.written + ChunkBytes = Total

\* `is_last`
EndsShard == cursor.written + ChunkLength = Total

\* A slip: a handle is dropped and its event is not waited for.
NotAwaited(t) == TRUE

\* A slip: the handles of a lane are looked at and not consumed.
Kept(handles, t) == handles

\* `drain(..)`: a handle that was waited for is gone.
Rest(handles, t) == handles \ {t}

\* The event of a transfer has fired.
Landed(t) == t \notin flying

-----------------------------------------------------------------------------
TypeOK ==
  /\ job \in Jobs
  /\ pc \in {"start", "host", "upload", "open", "group", "wait", "fill", "issue",
             "drain", "retrieve", "unwind", "ok", "err", "panicked"}
  /\ cursor \in [span : Nat \ {0}, consumed : Nat, written : Nat]
  /\ begun \in Nat
  /\ lane \in [Lanes -> [mapped : BOOLEAN, start : Nat, length : Nat]]
  /\ DOMAIN pending = Lanes
  /\ \A l \in Lanes : \A t \in pending[l] :
       t \in [lane : Lanes, shard : Shards, start : Nat, length : Nat, offset : Nat]
  /\ asked \subseteq Shards /\ managers \subseteq Shards /\ closed \subseteq Shards
  /\ \A s \in DOMAIN memory : memory[s] \in [DOMAIN memory[s] -> Int]

Init ==
  /\ job \in Jobs
  /\ pc = "start"
  /\ todo = {} /\ region = << >> /\ cursor = Start /\ begun = 0 /\ asked = {}
  /\ lane = [l \in Lanes |-> Unmapped]
  /\ pending = NoHandles
  /\ managers = {} /\ closed = {} /\ flying = {} /\ broken = {}
  /\ memory = << >>
  /\ reads = [b \in 0 .. Bytes(job.tensor) - 1 |-> 0]

\* The host leaves with an error and nothing to give back.
Refuse ==
  /\ pc' = "err"
  /\ UNCHANGED <<job, hostVars, flying, broken, memory>>

Validate ==
  /\ pc = "start"
  /\ LET plain == ~job.cuda \/ Bytes(job.tensor) = 0 IN
     IF /\ ValidShape(job.sharding, job.tensor)
        /\ plain \/ EnoughDevices(job.sharding, job.devices)
     THEN /\ pc' = IF plain THEN "host" ELSE "open"
          /\ UNCHANGED <<job, hostVars, flying, broken, memory>>
     ELSE Refuse

-----------------------------------------------------------------------------
(* The CPU, and a component without bytes: read whole, then upload.          *)
ReadWhole ==
  /\ pc = "host"
  /\ \/ /\ IF EnoughDevices(job.sharding, job.devices)
           THEN pc' = "upload"
           ELSE pc' = "err"
        /\ reads' = [b \in DOMAIN reads |-> reads[b] + 1]
        /\ UNCHANGED <<job, todo, region, cursor, begun, asked, lane, pending, managers, closed,
                       flying, broken, memory>>
     \/ Bytes(job.tensor) # 0 /\ Refuse

\* `upload`: one shard after the other, each transfer waited for.
UploadShard ==
  /\ pc = "upload"
  /\ LET s == Cardinality(DOMAIN memory) IN
     \/ /\ s \in Shards
        /\ memory' = [r \in DOMAIN memory \cup {s} |->
                        IF r = s
                        THEN RegionBytes(job.tensor, RegionOf(s))
                        ELSE memory[r]]
        /\ UNCHANGED pc
     \/ s \in Shards /\ pc' = "err" /\ memory' = << >>
     \/ s \notin Shards /\ pc' = "ok" /\ UNCHANGED memory
  /\ UNCHANGED <<job, hostVars, flying, broken>>

-----------------------------------------------------------------------------
(* The DMA lanes.                                                            *)
OpenManagers ==
  /\ pc = "open"
  /\ \/ /\ pc' = "group"
        /\ managers' = Shards
        /\ todo' = {RegionOf(s) : s \in Shards}
        /\ memory' = [s \in Shards |->
                        [d \in 0 .. ShardBytes(job.tensor, RegionOf(s)) - 1 |-> Unwritten]]
        /\ UNCHANGED <<job, region, cursor, begun, asked, lane, pending, closed, flying, broken, reads>>
     \/ Refuse

\* Any order of the groups: the code's is that of the regions in a map.
NextGroup ==
  /\ pc = "group"
  /\ IF todo = {}
     THEN pc' = "retrieve" /\ UNCHANGED <<todo, region, cursor, begun, lane, pending>>
     ELSE \E g \in todo :
            \/ /\ pc' = "wait"
               /\ region' = g
               /\ todo' = todo \ {g}
               /\ cursor' = Start /\ begun' = 0
               /\ lane' = [l \in Lanes |-> Blank]
               /\ pending' = NoHandles
            \/ pc' = "unwind" /\ UNCHANGED <<todo, region, cursor, begun, lane, pending>>
  /\ UNCHANGED <<job, asked, managers, closed, flying, broken, memory, reads>>

\* `transfer.wait()`: a handle of lane l is consumed when its event has fired.
\* The code waits for them one after the other, the model in any order.
Await(l, next) ==
  \E t \in pending[l] :
    /\ Landed(t)
    /\ pending' = [pending EXCEPT ![l] = Rest(@, t)]
    /\ pc' = IF t \in broken THEN "unwind" ELSE next
    /\ UNCHANGED <<job, todo, region, cursor, begun, asked, lane, managers, closed, reads,
                   flying, broken, memory>>

\* A lane is used again when every transfer that read from it has been waited for.
WaitForLane ==
  /\ pc = "wait"
  /\ \/ /\ GroupDone
        /\ pc' = "drain"
        /\ UNCHANGED <<job, hostVars, flying, broken, memory>>
     \/ /\ ~GroupDone
        /\ Await(ThisLane, "wait")
     \/ /\ ~GroupDone
        /\ pending[ThisLane] = {}
        /\ pc' = "fill"
        /\ UNCHANGED <<job, hostVars, flying, broken, memory>>

\* `Arc::get_mut(..).expect("a completed DMA lane has one owner")`, then `read`.
FillLane ==
  /\ pc = "fill"
  /\ IF pending[ThisLane] # {}
     THEN pc' = "panicked" /\ UNCHANGED <<asked, lane, reads>>
     ELSE \/ /\ pc' = "issue"
             /\ asked' = {}
             /\ lane' = [lane EXCEPT ![ThisLane] =
                           [mapped |-> @.mapped, start |-> ChunkStart, length |-> ChunkLength]]
             /\ reads' = [b \in DOMAIN reads |->
                            IF b \in ChunkStart .. ChunkStart + ChunkLength - 1
                            THEN reads[b] + 1 ELSE reads[b]]
          \/ pc' = "unwind" /\ UNCHANGED <<asked, lane, reads>>
  /\ UNCHANGED <<job, todo, region, cursor, begun, pending, managers, closed, flying, broken, memory>>

\* `transfer_owned` for one shard of the group.
IssueTransfer ==
  /\ pc = "issue"
  /\ asked # Destinations
  /\ \/ \E s \in Destinations \ asked :
          LET t == [lane |-> ThisLane, shard |-> s, start |-> ChunkStart,
                    length |-> ChunkLength, offset |-> cursor.written]
          IN  /\ \A r \in Destinations \ asked : s <= r
              /\ asked' = asked \cup {s}
              /\ flying' = flying \cup {t}
              /\ pending' = [pending EXCEPT ![ThisLane] = @ \cup {t}]
              /\ closed' = IF EndsShard THEN closed \cup {s} ELSE closed
              /\ UNCHANGED pc
     \/ pc' = "unwind" /\ UNCHANGED <<asked, flying, pending, closed>>
  /\ UNCHANGED <<job, todo, region, cursor, begun, lane, managers, broken, memory, reads>>

\* Every shard of the group has its transfer: on to the next chunk.
NextChunk ==
  /\ pc = "issue"
  /\ asked = Destinations
  /\ pc' = "wait"
  /\ begun' = begun + 1
  /\ cursor' =
       IF ChunkLength = Left
       THEN [span |-> cursor.span + 1, consumed |-> 0, written |-> cursor.written + ChunkLength]
       ELSE [span |-> cursor.span, consumed |-> cursor.consumed + ChunkLength,
             written |-> cursor.written + ChunkLength]
  /\ UNCHANGED <<job, todo, region, asked, lane, pending, managers, closed, flying, broken,
                 memory, reads>>

\* The rest of the handles of the group are waited for; then its lanes go.
DrainGroup ==
  /\ pc = "drain"
  /\ \/ \E l \in Lanes : Await(l, "drain")
     \/ /\ pending = NoHandles
        /\ pc' = IF cursor.written = Total THEN "group" ELSE "unwind"
        /\ lane' = [l \in Lanes |-> Unmapped]
        /\ UNCHANGED <<job, todo, region, cursor, begun, asked, pending, managers, closed, reads,
                       flying, broken, memory>>

\* Every manager gives up its buffer and is dropped.
Retrieve ==
  /\ pc = "retrieve"
  /\ \/ pc' = "ok" /\ UNCHANGED memory
     \/ pc' = "err" /\ memory' = << >>
  /\ managers' = {}
  /\ UNCHANGED <<job, todo, region, cursor, begun, asked, lane, pending, closed, reads, flying, broken>>

\* An early return: `pending` is dropped first, and the drop of a handle waits
\* for its event; then the lanes are unmapped and the managers destroyed.
Unwind ==
  /\ pc = "unwind"
  /\ \/ \E l \in Lanes : \E t \in pending[l] :
          /\ Landed(t)
          /\ pending' = [pending EXCEPT ![l] = Rest(@, t)]
          /\ UNCHANGED <<pc, lane, managers, memory>>
     \/ /\ pending = NoHandles
        /\ lane' = [l \in Lanes |-> Unmapped]
        /\ managers' = {}
        /\ memory' = << >>
        /\ pc' = "err"
        /\ UNCHANGED pending
  /\ UNCHANGED <<job, todo, region, cursor, begun, asked, closed, reads, flying, broken>>

Host ==
  \/ Validate \/ ReadWhole \/ UploadShard \/ OpenManagers \/ NextGroup \/ WaitForLane
  \/ FillLane \/ IssueTransfer \/ NextChunk \/ DrainGroup \/ Retrieve \/ Unwind

-----------------------------------------------------------------------------
(* The device: it copies what the lane holds by then, or fails.              *)
Held(t, d) ==
  IF lane[t.lane].mapped THEN lane[t.lane].start + (d - t.offset) ELSE Unwritten

Land(t) ==
  /\ t \in flying
  /\ flying' = flying \ {t}
  /\ memory' = [memory EXCEPT ![t.shard] =
                  [d \in DOMAIN @ |->
                     IF d \in t.offset .. t.offset + t.length - 1 THEN Held(t, d) ELSE @[d]]]
  /\ UNCHANGED <<job, pc, hostVars, broken>>

Break(t) ==
  /\ t \in flying
  /\ flying' = flying \ {t}
  /\ broken' = broken \cup {t}
  /\ UNCHANGED <<job, pc, hostVars, memory>>

Device == \E t \in flying : Land(t) \/ Break(t)

Returned ==
  /\ pc \in {"ok", "err", "panicked"}
  /\ UNCHANGED vars

Next == Host \/ Device \/ Returned

\* The host thread runs, and PJRT signals every transfer it accepted.
Fairness == WF_vars(Host) /\ WF_vars(Device)

Spec == Init /\ [][Next]_vars /\ Fairness

-----------------------------------------------------------------------------
\* A transfer that the device has not finished has a handle that somebody will
\* wait for, its lane is mapped and holds the very bytes it was issued for, and
\* its manager exists: neither the reuse of a lane nor an early return takes
\* anything away from it.  And a lane that is filled has one owner.
LanesOutliveTransfers ==
  /\ \A t \in flying :
       /\ t \in pending[t.lane]
       /\ t.shard \in managers
       /\ lane[t.lane] = [mapped |-> TRUE, start |-> t.start, length |-> t.length]
  /\ pc # "panicked"

\* A buffer that is handed out holds, on every shard, exactly the bytes that the
\* place of the device in the mesh gives it, in the order of the file: through
\* spans, chunks, lanes and replicas.
ShardsHoldTheirRegion ==
  pc = "ok" =>
    /\ DOMAIN memory = Shards
    /\ \A s \in Shards :
         /\ DOMAIN memory[s] = 0 .. ShardBytes(job.tensor, RegionOf(s)) - 1
         /\ {memory[s][d] : d \in DOMAIN memory[s]} = MeantFor(job.sharding, job.tensor, s)
         /\ \A d, e \in DOMAIN memory[s] : d < e => memory[s][d] < memory[s][e]

\* Replicas share a read: no byte of the file is read twice, whatever the mesh.
ReadOnce == \A b \in DOMAIN reads : reads[b] <= 1

\* Through spans, chunks, lanes and replicas every byte of the file that a shard needs
\* is read once and arrives where it belongs.
UploadExact == TypeOK /\ ShardsHoldTheirRegion /\ ReadOnce

\* A manager is told of its last transfer exactly when nothing is left to send
\* to it, and before its buffer is retrieved.
LastIsTheLast ==
  /\ pc = "retrieve" => closed = managers
  /\ pc \in {"wait", "drain"} =>
       \A s \in Destinations : s \in closed <=> cursor.written = Total
  /\ \A s \in closed : RegionOf(s) \notin todo

\* Whatever the device fails at, and whenever, the call returns.
Returns == <>(pc \in {"ok", "err"})
=============================================================================

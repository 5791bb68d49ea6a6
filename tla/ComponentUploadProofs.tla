------------------------ MODULE ComponentUploadProofs ------------------------
(***************************************************************************)
(* What holds of the DMA lanes for any number of them, any chunk, any      *)
(* tensor and any mesh, whatever the device does and when: no transfer     *)
(* outlives its lane or its manager, and a failed upload leaves nothing.   *)
(***************************************************************************)
EXTENDS ComponentUpload, SequenceTheorems, FiniteSetTheorems, WellFoundedInduction, TLAPS

\* Where the host holds no lane, and where it holds no manager either.
Laneless == {"start", "host", "upload", "open", "group", "retrieve", "ok", "err"}
Unmanaged == {"start", "host", "upload", "open", "ok", "err"}
Bufferless == {"start", "host", "open", "err"}
Streaming == {"group", "wait", "fill", "issue", "drain", "retrieve"}
Mapping == {"wait", "fill", "issue", "drain"}

PcRange ==
  pc \in Laneless \cup Mapping \cup {"unwind"}

\* Why an unfinished transfer is safe: it has a handle, and as long as there is a
\* handle the lane is what it was when the transfer was issued.
HandlesHold ==
  /\ \A t \in flying : t.lane \in Lanes /\ t \in pending[t.lane]
  /\ \A l \in Lanes : \A t \in pending[l] :
       /\ t.lane = l
       /\ lane[l] = [mapped |-> TRUE, start |-> t.start, length |-> t.length]
       /\ t.shard \in managers

\* What the host knows of its lanes at each step.
LanesInStep ==
  /\ begun \in Nat
  /\ DOMAIN lane = Lanes /\ DOMAIN pending = Lanes
  /\ pc \in Mapping => \A l \in Lanes : lane[l].mapped = TRUE
  /\ pc \in Laneless => \A l \in Lanes : lane[l].mapped = FALSE /\ pending[l] = {}
  /\ pc = "fill" => pending[ThisLane] = {}
  /\ pc = "issue" =>
       lane[ThisLane] = [mapped |-> TRUE, start |-> ChunkStart, length |-> ChunkLength]

Owned ==
  /\ pc \in Streaming => managers = Shards
  /\ pc \in Unmanaged => managers = {}
  /\ pc \in Bufferless => memory = << >>

IInv == PcRange /\ HandlesHold /\ LanesInStep /\ Owned

-----------------------------------------------------------------------------
\* The lanes are used in turn.
LEMMA ThisLaneIsALane == ASSUME begun \in Nat PROVE ThisLane \in Lanes
  BY UploadAssumption DEF ThisLane, Lanes

\* The chunk at the cursor does not change while the cursor stands.
LEMMA ChunkStands ==
  ASSUME UNCHANGED <<job, region, cursor, begun>>
  PROVE  /\ ThisLane' = ThisLane /\ Shards' = Shards
         /\ ChunkStart' = ChunkStart /\ ChunkLength' = ChunkLength
  BY DEF ThisLane, Shards, ChunkStart, ChunkLength, Left, FileSpans

\* Without lanes there is nothing for the device to do.
LEMMA NoFlight ==
  ASSUME IInv, pc \in Laneless PROVE flying = {}
  BY DEF IInv, HandlesHold, LanesInStep

\* At the call there are no lanes.
LEMMA IInvInit == Init => IInv
  BY DEF Init, IInv, PcRange, HandlesHold, LanesInStep, Owned, NoHandles, Unmapped,
         Laneless, Unmanaged, Bufferless, Streaming, Mapping

\* Steps that touch no lane, no handle, no transfer.
LEMMA IInvRefuse == ASSUME IInv, Refuse, pc \in Bufferless PROVE IInv'
  BY ChunkStands, NoFlight
  DEF IInv, PcRange, HandlesHold, LanesInStep, Owned, Refuse, hostVars,
      Laneless, Unmanaged, Bufferless, Streaming, Mapping

\* Before the lanes are mapped.
LEMMA IInvStart == ASSUME IInv, Validate \/ ReadWhole \/ UploadShard \/ OpenManagers PROVE IInv'
<1> USE DEF IInv, PcRange, HandlesHold, LanesInStep, Owned,
            Laneless, Unmanaged, Bufferless, Streaming, Mapping
<1>1. CASE Validate
  BY <1>1, IInvRefuse, ChunkStands DEF Validate, hostVars
<1>2. CASE ReadWhole
  BY <1>2, IInvRefuse, ChunkStands DEF ReadWhole
<1>3. CASE UploadShard
  BY <1>3, ChunkStands DEF UploadShard, hostVars
<1>4. CASE OpenManagers
  BY <1>4, IInvRefuse, ChunkStands DEF OpenManagers
<1> QED
  BY <1>1, <1>2, <1>3, <1>4

\* The lanes of a group are mapped, all of them free.
LEMMA IInvNextGroup == ASSUME IInv, NextGroup PROVE IInv'
<1> USE DEF IInv, PcRange, HandlesHold, LanesInStep, Owned,
            Laneless, Unmanaged, Bufferless, Streaming, Mapping
<1>1. flying = {} /\ flying' = {} /\ managers' = managers /\ pc = "group" /\ memory' = memory
  BY NoFlight DEF NextGroup
<1>2. Shards' = Shards
  BY DEF NextGroup, Shards
<1>3. CASE pc' = "wait"
  <2>1. begun' = 0 /\ lane' = [l \in Lanes |-> Blank] /\ pending' = [l \in Lanes |-> {}]
    BY <1>3 DEF NextGroup, NoHandles
  <2>2. \A l \in Lanes : lane'[l].mapped = TRUE /\ pending'[l] = {}
    BY <2>1 DEF Blank
  <2> QED
    BY <1>1, <1>2, <1>3, <2>1, <2>2
<1>4. CASE pc' # "wait"
  BY <1>1, <1>2, <1>4 DEF NextGroup
<1> QED
  BY <1>3, <1>4

\* A handle that was waited for names a transfer that is not flying any more.
LEMMA IInvAwait ==
  ASSUME IInv, NEW l \in Lanes, NEW next \in {"wait", "drain"}, pc = next, Await(l, next)
  PROVE  IInv'
<1> USE DEF IInv, PcRange, HandlesHold, LanesInStep, Owned,
            Laneless, Unmanaged, Bufferless, Streaming, Mapping
<1> PICK t \in pending[l] :
      /\ t \notin flying
      /\ pending' = [pending EXCEPT ![l] = @ \ {t}]
      /\ pc' = IF t \in broken THEN "unwind" ELSE next
      /\ UNCHANGED <<job, region, cursor, begun, lane, managers, flying, memory>>
  BY DEF Await, Landed, Rest
<1>1. \A k \in Lanes : pending'[k] \subseteq pending[k]
  OBVIOUS
<1>2. HandlesHold'
  BY <1>1 DEF Lanes
<1> QED
  BY <1>1, <1>2, ChunkStands

\* A lane is filled when all its handles were waited for.
LEMMA IInvWaitForLane == ASSUME IInv, WaitForLane PROVE IInv'
<1> USE DEF IInv, PcRange, HandlesHold, LanesInStep, Owned,
            Laneless, Unmanaged, Bufferless, Streaming, Mapping
<1>1. CASE Await(ThisLane, "wait")
  BY <1>1, IInvAwait, ThisLaneIsALane DEF WaitForLane
<1>2. CASE ~Await(ThisLane, "wait")
  <2>1. /\ pc = "wait" /\ pc' \in {"drain", "fill"}
        /\ pc' = "fill" => pending[ThisLane] = {}
        /\ UNCHANGED <<job, region, cursor, begun, lane, pending, managers, flying, memory>>
    BY <1>2 DEF WaitForLane, hostVars
  <2> QED
    BY <2>1, ChunkStands
<1> QED
  BY <1>1, <1>2

\* The lane that is filled has no handles.
LEMMA IInvFillLane == ASSUME IInv, FillLane PROVE IInv'
<1> USE DEF IInv, PcRange, HandlesHold, LanesInStep, Owned,
            Laneless, Unmanaged, Bufferless, Streaming, Mapping
<1>1. ThisLane \in Lanes /\ pending[ThisLane] = {} /\ lane[ThisLane].mapped = TRUE
  BY ThisLaneIsALane DEF FillLane
<1>2. UNCHANGED <<job, region, cursor, begun, pending, managers, flying, memory>>
  BY DEF FillLane
<1>3. CASE pc' = "unwind"
  BY <1>1, <1>2, <1>3, ChunkStands DEF FillLane
<1>4. CASE pc' # "unwind"
  <2>1. /\ pc' = "issue"
        /\ lane' = [lane EXCEPT ![ThisLane] =
                      [mapped |-> TRUE, start |-> ChunkStart, length |-> ChunkLength]]
    BY <1>1, <1>4 DEF FillLane
  <2>2. HandlesHold'
    BY <1>1, <1>2, <2>1
  <2>3. LanesInStep'
    <3>1. ThisLane' = ThisLane /\ ChunkStart' = ChunkStart /\ ChunkLength' = ChunkLength
      BY <1>2, ChunkStands
    <3>2. \A l \in Lanes : lane'[l].mapped = TRUE
      BY <1>1, <2>1 DEF FillLane
    <3> QED
      BY <1>1, <1>2, <2>1, <3>1, <3>2
  <2>4. Shards' = Shards
    BY <1>2 DEF Shards
  <2> QED
    BY <1>2, <2>1, <2>2, <2>3, <2>4 DEF FillLane
<1> QED
  BY <1>3, <1>4

\* A new transfer has its handle, and its lane holds its bytes.
LEMMA IInvIssueTransfer == ASSUME IInv, IssueTransfer PROVE IInv'
<1> USE DEF IInv, PcRange, HandlesHold, LanesInStep, Owned,
            Laneless, Unmanaged, Bufferless, Streaming, Mapping
<1>1. UNCHANGED <<job, region, cursor, begun, lane, managers, memory>> /\ pc = "issue"
  BY DEF IssueTransfer
<1>2. CASE pc' = "unwind"
  BY <1>1, <1>2, ChunkStands DEF IssueTransfer
<1>3. CASE pc' # "unwind"
  <2> PICK s \in Destinations \ asked :
        /\ flying' = flying \cup {[lane |-> ThisLane, shard |-> s, start |-> ChunkStart,
                                   length |-> ChunkLength, offset |-> cursor.written]}
        /\ pending' = [pending EXCEPT ![ThisLane] =
             @ \cup {[lane |-> ThisLane, shard |-> s, start |-> ChunkStart,
                      length |-> ChunkLength, offset |-> cursor.written]}]
        /\ pc' = pc
    BY <1>3 DEF IssueTransfer
  <2>1. s \in managers
    BY <1>1 DEF Destinations
  <2>2. ThisLane \in Lanes
    BY ThisLaneIsALane
  <2>3. HandlesHold'
    BY <1>1, <2>1, <2>2
  <2> QED
    BY <1>1, <2>2, <2>3, ChunkStands
<1> QED
  BY <1>2, <1>3

\* The next chunk takes the next lane; nothing else changes.
LEMMA IInvNextChunk == ASSUME IInv, NextChunk PROVE IInv'
  BY DEF NextChunk, IInv, PcRange, HandlesHold, LanesInStep, Owned, Shards, Lanes,
         Laneless, Unmanaged, Bufferless, Streaming, Mapping

\* The lanes of a group go when no handle is left.
LEMMA IInvDrainGroup == ASSUME IInv, DrainGroup PROVE IInv'
<1> USE DEF IInv, PcRange, HandlesHold, LanesInStep, Owned,
            Laneless, Unmanaged, Bufferless, Streaming, Mapping
<1>1. CASE \E l \in Lanes : Await(l, "drain")
  BY <1>1, IInvAwait DEF DrainGroup
<1>2. CASE ~\E l \in Lanes : Await(l, "drain")
  <2>1. /\ pending = NoHandles /\ pc' \in {"group", "unwind"}
        /\ lane' = [l \in Lanes |-> Unmapped]
        /\ UNCHANGED <<job, begun, pending, managers, flying, memory>>
    BY <1>2 DEF DrainGroup
  <2>2. \A l \in Lanes : pending[l] = {} /\ lane'[l].mapped = FALSE
    BY <2>1 DEF NoHandles, Unmapped
  <2>3. Shards' = Shards
    BY <2>1 DEF Shards
  <2> QED
    BY <2>1, <2>2, <2>3 DEF Lanes, DrainGroup
<1> QED
  BY <1>1, <1>2

\* The managers go when nothing flies.
LEMMA IInvRetrieve == ASSUME IInv, Retrieve PROVE IInv'
  BY NoFlight DEF Retrieve, IInv, PcRange, HandlesHold, LanesInStep, Owned,
         Laneless, Unmanaged, Bufferless, Streaming, Mapping

\* An early return waits for the handles first, and takes the lanes after that.
LEMMA IInvUnwind == ASSUME IInv, Unwind PROVE IInv'
<1> USE DEF IInv, PcRange, HandlesHold, LanesInStep, Owned,
            Laneless, Unmanaged, Bufferless, Streaming, Mapping
<1>1. CASE pc' = "unwind"
  <2> PICK l \in Lanes : \E t \in pending[l] :
        /\ t \notin flying
        /\ pending' = [pending EXCEPT ![l] = @ \ {t}]
        /\ UNCHANGED <<begun, lane, managers, flying>>
    BY <1>1 DEF Unwind, Landed, Rest
  <2> PICK t \in pending[l] :
        /\ t \notin flying
        /\ pending' = [pending EXCEPT ![l] = @ \ {t}]
        /\ UNCHANGED <<begun, lane, managers, flying>>
    OBVIOUS
  <2>1. \A k \in Lanes : pending'[k] \subseteq pending[k]
    OBVIOUS
  <2>2. HandlesHold'
    BY <2>1 DEF Lanes
  <2> QED
    BY <1>1, <2>1, <2>2
<1>2. CASE pc' # "unwind"
  <2>1. /\ pending = NoHandles /\ pc' = "err" /\ managers' = {} /\ memory' = << >>
        /\ lane' = [l \in Lanes |-> Unmapped]
        /\ UNCHANGED <<begun, pending, flying>>
    BY <1>2 DEF Unwind
  <2>2. \A l \in Lanes : pending[l] = {} /\ lane'[l].mapped = FALSE
    BY <2>1 DEF NoHandles, Unmapped
  <2> QED
    BY <2>1, <2>2
<1> QED
  BY <1>1, <1>2

\* The device takes transfers away, and touches no lane and no handle.
LEMMA IInvDevice == ASSUME IInv, Device PROVE IInv'
<1> USE DEF IInv, PcRange, HandlesHold, LanesInStep, Owned,
            Laneless, Unmanaged, Bufferless, Streaming, Mapping
<1> PICK t \in flying : Land(t) \/ Break(t)
  BY DEF Device
<1>1. flying' \subseteq flying /\ UNCHANGED <<job, pc, hostVars>>
  BY DEF Land, Break
<1>2. pc \notin Laneless
  BY NoFlight
<1> QED
  BY <1>1, <1>2, ChunkStands DEF hostVars

\* Every step keeps what is known of lanes, handles and managers.
LEMMA IInvStep == IInv /\ [Next]_vars => IInv'
<1> SUFFICES ASSUME IInv, [Next]_vars PROVE IInv'
  OBVIOUS
<1>1. CASE Host
  BY <1>1, IInvStart, IInvNextGroup, IInvWaitForLane, IInvFillLane, IInvIssueTransfer,
     IInvNextChunk, IInvDrainGroup, IInvRetrieve, IInvUnwind
  DEF Host
<1>2. CASE Device
  BY <1>2, IInvDevice
<1>3. CASE UNCHANGED vars
  BY <1>3, ChunkStands DEF IInv, PcRange, HandlesHold, LanesInStep, Owned, vars, hostVars
<1> QED
  BY <1>1, <1>2, <1>3 DEF Next, Returned

\* So it always holds.
LEMMA IInvAlways == Spec => []IInv
  BY IInvInit, IInvStep, PTL DEF Spec

-----------------------------------------------------------------------------
\* No transfer outlives its lane, its manager or its handle, for any number of
\* lanes, any chunk, any mesh, and any order in which the device finishes.
THEOREM LanesOutlive == Spec => []LanesOutliveTransfers
<1>1. IInv => LanesOutliveTransfers
  BY DEF IInv, PcRange, HandlesHold, LanesOutliveTransfers, Laneless, Mapping
<1> QED
  BY <1>1, IInvAlways, PTL

-----------------------------------------------------------------------------
(* Products, and the spans of a group: how much there is to stream.          *)

\* A set of naturals that is not empty has a smallest element.
LEMMA NatMin ==
  ASSUME NEW S \in SUBSET Nat, S # {}
  PROVE  \E n \in S : \A m \in S : n <= m
<1>1. PICK n \in S : \A m \in S : <<m, n>> \notin OpToRel(<, Nat)
  BY NatLessThanWellFounded, WFMin
<1>2. \A m \in S : ~(m < n)
  BY <1>1 DEF OpToRel
<1>3. QED
  BY <1>2

\* g runs over 0 .. n from base by these steps.
Recurs(g, n, T, base, step) ==
  g \in [0 .. n -> T] /\ g[0] = base /\ \A k \in 1 .. n : g[k] = step[k][g[k - 1]]

\* A recursion over 1 .. n defines something.
LEMMA Recursion ==
  ASSUME NEW n \in Nat, NEW T, NEW base \in T, NEW step \in [1 .. n -> [T -> T]]
  PROVE  \E g : Recurs(g, n, T, base, step)
<1> DEFINE Def(m) == \E g \in [0 .. m -> T] : g[0] = base /\ \A k \in 1 .. m : g[k] = step[k][g[k - 1]]
           bad == {m \in 0 .. n : ~Def(m)}
<1>1. Def(0)
  <2>1. [k \in 0 .. 0 |-> base] \in [0 .. 0 -> T]
    OBVIOUS
  <2>2. [k \in 0 .. 0 |-> base][0] = base /\ \A k \in 1 .. 0 : FALSE
    OBVIOUS
  <2> DEFINE one == [k \in 0 .. 0 |-> base]
  <2> HIDE DEF one
  <2>3. one \in [0 .. 0 -> T] /\ one[0] = base /\ \A k \in 1 .. 0 : one[k] = step[k][one[k - 1]]
    BY <2>1, <2>2 DEF one
  <2> QED
    BY <2>3 
<1>2. ASSUME NEW m \in 0 .. n, m + 1 <= n, Def(m) PROVE Def(m + 1)
  <2> PICK g \in [0 .. m -> T] : g[0] = base /\ \A k \in 1 .. m : g[k] = step[k][g[k - 1]]
    BY <1>2
  <2> DEFINE h == [k \in 0 .. m + 1 |-> IF k = m + 1 THEN step[m + 1][g[m]] ELSE g[k]]
  <2>1. m + 1 \in 1 .. n /\ m \in 0 .. m /\ g[m] \in T
    BY <1>2
  <2>2a. step[m + 1][g[m]] \in T
    BY <2>1
  <2>3. h \in [0 .. m + 1 -> T]
    BY <2>2a
  <2>4. h[0] = base
    BY <1>2
  <2>5. ASSUME NEW k \in 1 .. m + 1 PROVE h[k] = step[k][h[k - 1]]
    BY <1>2
  <2> QED
    BY <2>3, <2>4, <2>5
<1> HIDE DEF Def
<1>3. bad = {}
  <2> SUFFICES ASSUME bad # {} PROVE FALSE
    OBVIOUS
  <2>1. bad \subseteq Nat
    OBVIOUS
  <2>2. PICK m \in bad : \A k \in bad : m <= k
    BY <2>1, NatMin
  <2>3. m # 0
    BY <1>1
  <2>4. m - 1 \in 0 .. n /\ m - 1 \notin bad /\ (m - 1) + 1 = m
    BY <2>2, <2>3
  <2> QED
    BY <1>2, <2>2, <2>4
<1>4. Def(n)
  BY <1>3
<1> QED
  BY <1>4 DEF Def, Recurs

\* The function behind Product.
LEMMA ProductExists ==
  ASSUME NEW s \in Seq(Nat)
  PROVE  \E g \in [0 .. Len(s) -> Nat] :
           /\ g[0] = 1 /\ \A k \in 1 .. Len(s) : g[k] = g[k - 1] * s[k]
           /\ Product(s) = g[Len(s)]
<1> DEFINE n == Len(s)
           step == [k \in 1 .. n |-> [x \in Nat |-> x * s[k]]]
           IsIt(g) == g = [k \in 0 .. n |-> IF k = 0 THEN 1 ELSE g[k - 1] * s[k]]
           it == CHOOSE g : IsIt(g)
<1>1. n \in Nat /\ \A k \in 1 .. n : s[k] \in Nat
  BY LenProperties, ElementOfSeq
<1>2. step \in [1 .. n -> [Nat -> Nat]]
  <2>1. ASSUME NEW k \in 1 .. n, NEW x \in Nat PROVE x * s[k] \in Nat
    BY <1>1
  <2> QED
    BY <2>1
<1>3. \A k \in 1 .. n : \A x \in Nat : step[k][x] = x * s[k]
  OBVIOUS
<1>3a. 1 \in Nat
  OBVIOUS
<1> HIDE DEF step, n
<1>3b. PICK g : Recurs(g, n, Nat, 1, step)
  BY <1>1, <1>2, <1>3a, Recursion
<1>4. g \in [0 .. n -> Nat] /\ g[0] = 1 /\ \A k \in 1 .. n : g[k] = step[k][g[k - 1]]
  BY <1>3b DEF Recurs
<1>5. \A k \in 1 .. n : g[k] = g[k - 1] * s[k]
  <2> SUFFICES ASSUME NEW k \in 1 .. n PROVE g[k] = g[k - 1] * s[k]
    OBVIOUS
  <2>1. k - 1 \in 0 .. n
    BY <1>1
  <2>2. g[k - 1] \in Nat
    BY <1>4, <2>1
  <2> QED
    BY <1>3, <1>4, <2>2
<1>6. IsIt(g)
  <2>0. DOMAIN g = 0 .. n
    BY <1>4
  <2>1. ASSUME NEW k \in 0 .. n PROVE g[k] = IF k = 0 THEN 1 ELSE g[k - 1] * s[k]
    BY ONLY <1>1, <1>4, <1>5, k \in 0 .. n
  <2>2. g = [k \in 0 .. n |-> g[k]]
    BY <1>4
  <2> QED
    BY ONLY <2>1, <2>2
<1>7. IsIt(it)
  BY ONLY <1>6, IsIt(it) \/ ~IsIt(it)
<1>8. Product(s) = it[n]
  BY DEF Product, n
<1> HIDE DEF it
<1>9. it[0] = 1 /\ \A k \in 1 .. n : it[k] = it[k - 1] * s[k]
  BY <1>1, <1>7
<1>10. \A k \in 0 .. n : it[k] = g[k]
  <2> DEFINE bad == {m \in 0 .. n : it[m] # g[m]}
  <2> SUFFICES ASSUME bad # {} PROVE FALSE
    OBVIOUS
  <2>1. bad \subseteq Nat
    OBVIOUS
  <2>2. PICK m \in bad : \A k \in bad : m <= k
    BY <2>1, NatMin
  <2>3. m \in 1 .. n /\ m - 1 \in 0 .. n /\ m - 1 \notin bad
    BY <1>1, <1>4, <1>9, <2>2
  <2>4. it[m - 1] = g[m - 1]
    BY <2>3
  <2> QED
    BY <1>5, <1>9, <2>3, <2>4
<1> QED
  BY <1>1, <1>4, <1>5, <1>8, <1>10 DEF n

\* Whatever multiplies the factors one by one ends with the product.
LEMMA ProductIs ==
  ASSUME NEW s \in Seq(Nat), NEW h, h[0] = 1, \A k \in 1 .. Len(s) : h[k] = h[k - 1] * s[k]
  PROVE  Product(s) = h[Len(s)]
<1>1. PICK g \in [0 .. Len(s) -> Nat] :
           /\ g[0] = 1 /\ \A k \in 1 .. Len(s) : g[k] = g[k - 1] * s[k]
           /\ Product(s) = g[Len(s)]
  BY ProductExists
<1> DEFINE bad == {m \in 0 .. Len(s) : h[m] # g[m]}
<1>2. Len(s) \in Nat
  OBVIOUS
<1>3. bad = {}
  <2> SUFFICES ASSUME bad # {} PROVE FALSE
    OBVIOUS
  <2>1. bad \subseteq Nat
    OBVIOUS
  <2>2. PICK m \in bad : \A k \in bad : m <= k
    BY <2>1, NatMin
  <2>3. m \in 1 .. Len(s) /\ m - 1 \in 0 .. Len(s) /\ m - 1 \notin bad
    BY <1>1, <1>2, <2>2
  <2>4. h[m - 1] = g[m - 1]
    BY <2>3
  <2> QED
    BY <1>1, <2>3, <2>4
<1> QED
  BY <1>1, <1>2, <1>3

\* The last factor is taken off.
LEMMA ProductFront ==
  ASSUME NEW s \in Seq(Nat), s # << >>
  PROVE  Front(s) \in Seq(Nat) /\ Product(s) = Product(Front(s)) * s[Len(s)] /\ Len(Front(s)) = Len(s) - 1
<1>1. Len(s) \in Nat \ {0}
  OBVIOUS
<1> DEFINE m == Len(s) - 1
<1>1a. m \in Nat /\ \A i \in 1 .. m : s[i] \in Nat
  BY <1>1
<1>1b. Front(s) = SubSeq(s, 1, m)
  BY DEF Front
<1>1c. m + 1 = Len(s)
  BY <1>1
<1> HIDE DEF m
<1>2. Front(s) \in Seq(Nat) /\ Len(Front(s)) = m /\ \A k \in 1 .. m : Front(s)[k] = s[k]
  <2>1. SubSeq(s, 1, m) \in Seq(Nat)
    BY <1>1a, SubSeqProperties
  <2>2. Len(SubSeq(s, 1, m)) = m
    BY <1>1a
  <2>3. \A k \in 1 .. m : SubSeq(s, 1, m)[k] = s[k]
    BY <1>1a
  <2> QED
    BY <1>1b, <2>1, <2>2, <2>3
<1>3. PICK g \in [0 .. Len(s) -> Nat] :
           /\ g[0] = 1 /\ \A k \in 1 .. Len(s) : g[k] = g[k - 1] * s[k]
           /\ Product(s) = g[Len(s)]
  BY ProductExists
<1>4. \A k \in 1 .. Len(Front(s)) : g[k] = g[k - 1] * Front(s)[k]
  <2> SUFFICES ASSUME NEW k \in 1 .. m PROVE g[k] = g[k - 1] * Front(s)[k]
    BY <1>2
  <2> QED
    BY <1>1a, <1>1c, <1>2, <1>3
<1>5. Product(Front(s)) = g[Len(Front(s))]
  BY <1>2, <1>3, <1>4, ProductIs
<1>6. g[Len(s)] = g[Len(s) - 1] * s[Len(s)]
  BY <1>1, <1>3
<1> QED
  BY <1>1c, <1>2, <1>3, <1>5, <1>6 DEF m

\* A product of numbers is a number.
LEMMA ProductNat == ASSUME NEW s \in Seq(Nat) PROVE Product(s) \in Nat
  BY ProductExists

\* A product is not zero when no factor is.
LEMMA ProductZero ==
  ASSUME NEW s \in Seq(Nat)
  PROVE  Product(s) # 0 <=> \A k \in DOMAIN s : s[k] # 0
<1>1. PICK g \in [0 .. Len(s) -> Nat] :
           /\ g[0] = 1 /\ \A k \in 1 .. Len(s) : g[k] = g[k - 1] * s[k]
           /\ Product(s) = g[Len(s)]
  BY ProductExists
<1>2. Len(s) \in Nat /\ DOMAIN s = 1 .. Len(s) /\ \A k \in 1 .. Len(s) : s[k] \in Nat
  OBVIOUS
<1>3. \A x, y \in Nat : x * y # 0 <=> x # 0 /\ y # 0
  OBVIOUS
<1> DEFINE P(m) == g[m] # 0 <=> \A k \in 1 .. m : s[k] # 0
           bad == {m \in 0 .. Len(s) : ~P(m)}
<1>4. bad = {}
  <2> SUFFICES ASSUME bad # {} PROVE FALSE
    OBVIOUS
  <2>1. bad \subseteq Nat
    OBVIOUS
  <2>2. PICK m \in bad : \A k \in bad : m <= k
    BY <2>1, NatMin
  <2>3. P(0)
    BY <1>1
  <2>4. m \in 1 .. Len(s) /\ m - 1 \in 0 .. Len(s) /\ m - 1 \notin bad
    BY <1>2, <2>2, <2>3
  <2>5. P(m - 1)
    BY <2>4
  <2>6. g[m] # 0 <=> g[m - 1] # 0 /\ s[m] # 0
    <3>1. g[m] = g[m - 1] * s[m] /\ g[m - 1] \in Nat /\ s[m] \in Nat
      BY <1>1, <1>2, <2>4
    <3> QED
      BY ONLY <1>3, <3>1
  <2>7. P(m)
    BY <2>4, <2>5, <2>6
  <2> QED
    BY <2>2, <2>7
<1>5. P(Len(s))
  BY <1>2, <1>4
<1> QED
  BY <1>1, <1>2, <1>5

\* The spans of a region are of one length, and add up to it.
IsEven(spans, n, l, total) ==
  /\ Len(spans) = n /\ n \in Nat \ {0} /\ l \in Nat \ {0} /\ total = n * l
  /\ \A k \in 1 .. n : spans[k].length = l

\* The spans of a region are as long as its rows.
LEMMA SpansEven ==
  ASSUME NEW t, NEW r, t.dims \in Seq(Nat), t.width \in Nat \ {0}, DOMAIN r = DOMAIN t.dims,
         \A i \in DOMAIN r : r[i].length \in Nat \ {0}
  PROVE  \E n, l : IsEven(Spans(t, r), n, l, ShardBytes(t, r))
<1> DEFINE rank == Len(t.dims)
           lengths == Lengths(r)
<1>1. rank \in Nat /\ DOMAIN r = 1 .. rank
  OBVIOUS
<1>2. /\ lengths \in Seq(Nat) /\ Len(lengths) = rank /\ DOMAIN lengths = 1 .. rank
      /\ \A i \in 1 .. rank : lengths[i] = r[i].length
  BY <1>1 DEF Lengths
<1>2a. \A i \in 1 .. rank : r[i].length # 0
  BY <1>1
<1>3. ShardBytes(t, r) = Product(lengths) * t.width
  BY DEF ShardBytes
<1>4. CASE rank = 0
  <2>1. lengths = << >>
    BY <1>2, <1>4
  <2>2. Product(lengths) = 1
    BY <2>1, ProductExists, <1>2, <1>4
  <2>3. Spans(t, r) = <<[start |-> 0, length |-> t.width]>>
    BY <1>4 DEF Spans
  <2>4. IsEven(Spans(t, r), 1, t.width, ShardBytes(t, r))
    BY <1>3, <2>2, <2>3 DEF IsEven
  <2> QED
    BY <2>4
<1>5. CASE rank # 0
  <2> DEFINE start(row) == Linear(t.dims, [i \in 1 .. rank |-> r[i].start + (Digits(row, Front(lengths)) \o <<0>>)[i]]) * t.width
             rows == Product(Front(lengths))
  <2>1. Spans(t, r) = [k \in 1 .. rows |->
           [start |-> start(k - 1), length |-> lengths[rank] * t.width]]
    BY <1>1, <1>2, <1>5 DEF Spans
  <2> HIDE DEF start
  <2>2. lengths # << >>
    BY <1>2, <1>5
  <2>3. Front(lengths) \in Seq(Nat) /\ Product(lengths) = rows * lengths[rank] /\ rows \in Nat
    BY <1>2, <2>2, ProductFront, ProductNat
  <2>4. Product(lengths) # 0
    <3>1. DOMAIN lengths = 1 .. rank /\ \A i \in 1 .. rank : lengths[i] # 0
      BY ONLY <1>2, <1>2a
    <3> HIDE DEF lengths
    <3> QED
      BY <1>2, <3>1, ProductZero
  <2>5. lengths[rank] \in Nat \ {0} /\ rows \in Nat \ {0}
    BY <1>1, <1>2, <1>5, <2>3, <2>4
  <2> HIDE DEF lengths, rows
  <2>6. Len(Spans(t, r)) = rows /\ \A k \in 1 .. rows : Spans(t, r)[k].length = lengths[rank] * t.width
    BY <2>1, <2>5
  <2>7. \A a, b, c \in Nat \ {0} : (a * b) * c = a * (b * c) /\ b * c \in Nat \ {0}
    OBVIOUS
  <2>8. IsEven(Spans(t, r), rows, lengths[rank] * t.width, ShardBytes(t, r))
    BY <1>3, <2>3, <2>5, <2>6, <2>7 DEF IsEven
  <2> QED
    BY <2>8
<1> QED
  BY <1>4, <1>5

-----------------------------------------------------------------------------
(* The last transfer.                                                        *)

\* An upload that streams is valid, and has something to stream.
JobStands ==
  /\ job \in Jobs
  /\ pc \in Streaming \cup {"open", "unwind"} =>
       ValidShape(job.sharding, job.tensor) /\ Bytes(job.tensor) # 0

\* The cursor: whole spans, and some of the one it is in.
CursorExact ==
  pc \in Mapping =>
    /\ \E n, l :
         /\ IsEven(FileSpans, n, l, Total)
         /\ cursor.span \in 1 .. n + 1 /\ cursor.consumed \in 0 .. l - 1
         /\ cursor.written = (cursor.span - 1) * l + cursor.consumed
         /\ cursor.span = n + 1 => cursor.consumed = 0
    /\ pc \in {"fill", "issue"} => ~GroupDone

\* A shard was told that its last transfer has come, or its group is still to be
\* streamed, or is being streamed.
Groups ==
  /\ pc \in {"start", "host", "upload", "open"} => closed = {} 
  /\ \A s \in closed : RegionOf(s) \notin todo
  /\ pc \in Streaming =>
       /\ closed \subseteq Shards
       /\ todo \subseteq {RegionOf(s) : s \in Shards}
       /\ \A s \in Shards : s \in closed \/ RegionOf(s) \in todo \/ (pc \in Mapping /\ RegionOf(s) = region)
  /\ pc \in Mapping => region \in {RegionOf(s) : s \in Shards} /\ region \notin todo
  /\ pc = "retrieve" => todo = {}

\* The shards of a group are told with the chunk that completes them.
Closes ==
  /\ pc \in {"wait", "drain"} => \A s \in Destinations : s \in closed <=> cursor.written = Total
  /\ pc = "fill" => \A s \in Destinations : s \notin closed
  /\ pc = "issue" => \A s \in Destinations : s \in closed <=> s \in asked /\ EndsShard

CInv == JobStands /\ CursorExact /\ Groups /\ Closes

\* Division without a rest.
LEMMA WholeQuotient ==
  ASSUME NEW a \in Nat \ {0}, NEW b \in Nat \ {0}, a % b = 0
  PROVE  a \div b \in Nat \ {0}
<1>1. a = b * (a \div b) + (a % b)
  OBVIOUS
<1>2. a \div b \in Int
  OBVIOUS
<1>3. a = b * (a \div b)
  BY <1>1, <1>2
<1> DEFINE q == a \div b
<1> HIDE DEF q
<1>4. q \in Int /\ a = b * q
  BY <1>2, <1>3 DEF q
<1>5. q > 0
  BY <1>4
<1> QED
  BY <1>4, <1>5 DEF q

\* No axis of the mesh is empty.
LEMMA AxesNotEmpty ==
  ASSUME NEW j \in Jobs
  PROVE  \A k \in DOMAIN j.sharding.axes : j.sharding.axes[k].size \in Nat \ {0}
<1> DEFINE axes == j.sharding.axes
           sizes == Sizes(axes)
<1>1. sizes \in Seq(Nat \ {0})
  BY JobsAssumption
<1>2. DOMAIN sizes = DOMAIN axes /\ \A k \in DOMAIN axes : sizes[k] = axes[k].size
  BY DEF Sizes
<1> HIDE DEF sizes, axes
<1>3. \A k \in DOMAIN sizes : sizes[k] \in Nat \ {0}
  BY <1>1, ElementOfSeq
<1> QED
  BY <1>2, <1>3 DEF axes

\* Of a tensor that has bytes and can be divided, every shard gets some.
LEMMA RegionHasBytes ==
  ASSUME NEW j \in Jobs, ValidShape(j.sharding, j.tensor), Bytes(j.tensor) # 0, NEW s
  PROVE  /\ DOMAIN Region(j.sharding, j.tensor, s) = DOMAIN j.tensor.dims
         /\ \A i \in DOMAIN j.tensor.dims : Region(j.sharding, j.tensor, s)[i].length \in Nat \ {0}
         /\ j.sharding.kind # "mesh" =>
              \A i \in DOMAIN j.tensor.dims : Region(j.sharding, j.tensor, s)[i].length = j.tensor.dims[i]
<1> DEFINE t == j.tensor
           axes == j.sharding.axes
<1>1. /\ t.dims \in Seq(Nat) /\ t.width \in Nat \ {0}
      /\ \A k \in DOMAIN axes : axes[k].size \in Nat \ {0}
      /\ ValidShape(j.sharding, t) /\ Product(t.dims) * t.width # 0
  BY JobsAssumption, AxesNotEmpty DEF Bytes
<1>2. Product(t.dims) # 0
  BY <1>1, ProductNat
<1>3. \A i \in DOMAIN t.dims : t.dims[i] \in Nat \ {0}
  BY <1>1, <1>2, ProductZero
<1> DEFINE block(i) == t.dims[i] \div axes[AxisOf(axes, t.parts[i])].size
<1>4. ASSUME j.sharding.kind = "mesh", NEW i \in DOMAIN t.dims, t.parts[i] # Whole
      PROVE  block(i) \in Nat \ {0}
  <2>1. /\ \E k \in DOMAIN axes : axes[k].tag = t.parts[i]
        /\ t.dims[i] % axes[AxisOf(axes, t.parts[i])].size = 0
    BY <1>1, <1>4 DEF ValidShape, ShardedAxes
  <2>2. AxisOf(axes, t.parts[i]) \in DOMAIN axes
    BY <2>1 DEF AxisOf
  <2>3. axes[AxisOf(axes, t.parts[i])].size \in Nat \ {0} /\ t.dims[i] \in Nat \ {0}
    BY <1>1, <1>3, <1>4, <2>2
  <2> QED
    BY <2>1, <2>3, WholeQuotient
<1>5. Region(j.sharding, j.tensor, s) =
        [i \in DOMAIN t.dims |->
           IF j.sharding.kind # "mesh" \/ t.parts[i] = Whole
           THEN [start |-> 0, length |-> t.dims[i]]
           ELSE [start |-> Digits(s, Sizes(axes))[AxisOf(axes, t.parts[i])] * block(i),
                 length |-> block(i)]]
  BY DEF Region
<1> HIDE DEF block, t, axes
<1>6. ASSUME NEW i \in DOMAIN t.dims
      PROVE  /\ Region(j.sharding, j.tensor, s)[i].length \in Nat \ {0}
             /\ j.sharding.kind # "mesh" => Region(j.sharding, j.tensor, s)[i].length = t.dims[i]
  <2>1. CASE j.sharding.kind # "mesh" \/ t.parts[i] = Whole
    BY <1>3, <1>5, <1>6, <2>1
  <2>2. CASE ~(j.sharding.kind # "mesh" \/ t.parts[i] = Whole)
    BY <1>4, <1>5, <1>6, <2>2
  <2> QED
    BY <2>1, <2>2
<1> QED
  BY <1>5, <1>6 DEF t

\* FileSpans, for any call and region.
SpansOf(j, r) ==
  IF j.sharding.kind = "mesh" THEN Spans(j.tensor, r) ELSE <<[start |-> 0, length |-> Bytes(j.tensor)]>>

\* The spans of a group come to what each of its shards holds.
LEMMA FileSpansEven ==
  ASSUME NEW j \in Jobs, ValidShape(j.sharding, j.tensor), Bytes(j.tensor) # 0, NEW s, NEW r,
         r = Region(j.sharding, j.tensor, s)
  PROVE  \E n, l : IsEven(SpansOf(j, r), n, l, ShardBytes(j.tensor, r))
<1> DEFINE t == j.tensor
<1>1. /\ t.dims \in Seq(Nat) /\ t.width \in Nat \ {0} /\ Product(t.dims) * t.width # 0
  BY JobsAssumption DEF Bytes
<1>2. /\ DOMAIN r = DOMAIN t.dims
      /\ \A i \in DOMAIN r : r[i].length \in Nat \ {0}
      /\ j.sharding.kind # "mesh" => \A i \in DOMAIN r : r[i].length = t.dims[i]
  BY RegionHasBytes
<1>3. CASE j.sharding.kind = "mesh"
  BY <1>1, <1>2, <1>3, SpansEven DEF SpansOf
<1>4. CASE j.sharding.kind # "mesh"
  <2>1. Lengths(r) = t.dims
    <3>1. t.dims = [i \in DOMAIN t.dims |-> t.dims[i]]
      BY <1>1
    <3> HIDE DEF t
    <3> QED
      BY <1>2, <1>4, <3>1 DEF Lengths
  <2>2. ShardBytes(j.tensor, r) = Product(t.dims) * t.width
    BY <2>1 DEF ShardBytes
  <2>3. SpansOf(j, r) = <<[start |-> 0, length |-> Product(t.dims) * t.width]>>
    BY <1>4 DEF SpansOf, Bytes
  <2>4. Product(t.dims) * t.width \in Nat \ {0}
    BY <1>1, ProductNat
  <2>5. IsEven(SpansOf(j, r), 1, Product(t.dims) * t.width, ShardBytes(j.tensor, r))
    BY <2>2, <2>3, <2>4 DEF IsEven
  <2> QED
    BY <2>5
<1> QED
  BY <1>3, <1>4

\* What the cursor says of the group.
LEMMA CursorFacts ==
  ASSUME CursorExact, pc \in Mapping
  PROVE  /\ Total \in Nat \ {0} /\ cursor.written \in Nat
         /\ GroupDone => cursor.written = Total
         /\ ~GroupDone => /\ ChunkLength \in Nat \ {0} /\ cursor.written # Total
                          /\ cursor.written + ChunkLength <= Total
<1>1. PICK n, l :
         /\ IsEven(FileSpans, n, l, Total)
         /\ cursor.span \in 1 .. n + 1 /\ cursor.consumed \in 0 .. l - 1
         /\ cursor.written = (cursor.span - 1) * l + cursor.consumed
         /\ cursor.span = n + 1 => cursor.consumed = 0
  BY DEF CursorExact
<1>2. /\ Len(FileSpans) = n /\ n \in Nat \ {0} /\ l \in Nat \ {0} /\ Total = n * l
      /\ \A k \in 1 .. n : FileSpans[k].length = l
  BY <1>1 DEF IsEven
<1>3. \A a, b \in Nat : a <= b => a * l <= b * l
  BY <1>2
<1>4. n * l \in Nat \ {0}
  BY <1>2
<1>5. (cursor.span - 1) * l \in Nat /\ cursor.span - 1 \in Nat /\ cursor.consumed \in Nat
  <2>1. cursor.span - 1 \in Nat
    BY <1>1, <1>2
  <2>2. \A a \in Nat : a * l \in Nat
    BY <1>2
  <2> QED
    BY <1>1, <1>2, <2>1, <2>2
<1>6. ASSUME GroupDone PROVE cursor.written = Total
  <2>1. cursor.span - 1 = n /\ cursor.consumed = 0
    BY <1>1, <1>2, <1>6 DEF GroupDone
  <2> QED
    BY <1>1, <1>2, <1>4, <2>1
<1>7. ASSUME ~GroupDone
      PROVE  /\ ChunkLength \in Nat \ {0} /\ cursor.written # Total
             /\ cursor.written + ChunkLength <= Total
  <2>1. cursor.span \in 1 .. n
    BY <1>1, <1>2, <1>7 DEF GroupDone
  <2>2. Left = l - cursor.consumed
    BY <1>2, <2>1 DEF Left
  <2>3. ChunkLength \in Nat \ {0} /\ ChunkLength <= l - cursor.consumed
    BY <1>1, <1>2, <2>2, UploadAssumption DEF ChunkLength
  <2>4. (cursor.span - 1) * l + l = cursor.span * l
    BY <1>2, <2>1
  <2>5. cursor.span * l <= n * l
    BY <1>2, <1>3, <2>1
  <2>6. cursor.span * l \in Nat
    BY <1>4, <1>5, <1>2, <2>4
  <2> DEFINE w == cursor.written
             c == ChunkLength
             nl == n * l
             sl == cursor.span * l
             rl == (cursor.span - 1) * l
             d == cursor.consumed
  <2>7. /\ w = rl + d /\ rl + l = sl /\ sl <= nl /\ c \in Nat \ {0} /\ c <= l - d /\ Total = nl
        /\ {rl, sl, nl, d, l} \subseteq Nat
    BY ONLY <1>1, <1>2, <1>4, <1>5, <2>3, <2>4, <2>5, <2>6
  <2> HIDE DEF w, c, nl, sl, rl, d
  <2>8. w # nl /\ w + c <= nl
    BY ONLY <2>7
  <2> QED
    BY ONLY <2>7, <2>8 DEF w, c
<1>8. cursor.written \in Nat /\ Total \in Nat \ {0}
  BY ONLY <1>1, <1>2, <1>4, <1>5
<1> QED
  BY ONLY <1>6, <1>7, <1>8

\* What stands still with the cursor.
LEMMA GroupStands ==
  ASSUME UNCHANGED <<job, region, cursor>>
  PROVE  /\ FileSpans' = FileSpans /\ Total' = Total /\ (GroupDone <=> GroupDone')
         /\ Destinations' = Destinations /\ (EndsShard <=> EndsShard')
         /\ Shards' = Shards /\ ChunkLength' = ChunkLength
         /\ \A s : RegionOf(s)' = RegionOf(s)
<1>1. Shards' = Shards /\ \A s : RegionOf(s)' = RegionOf(s)
  BY DEF Shards, RegionOf
<1> QED
  BY <1>1 DEF FileSpans, Total, GroupDone, Destinations, EndsShard, ChunkLength, Left

\* The regions stand as long as the call does.
LEMMA JobKeeps ==
  ASSUME UNCHANGED job
  PROVE  Shards' = Shards /\ \A s : RegionOf(s)' = RegionOf(s)
  BY DEF Shards, RegionOf

\* A call is validated once.
LEMMA JobStandsStep == ASSUME JobStands, [Next]_vars PROVE JobStands'
<1>1. job' = job
  BY DEF Next, Host, Device, Returned, vars, Validate, Refuse, ReadWhole, UploadShard, OpenManagers,
         NextGroup, WaitForLane, Await, FillLane, IssueTransfer, NextChunk, DrainGroup, Retrieve,
         Unwind, Land, Break
<1>2. CASE pc \in Streaming \cup {"open", "unwind"}
  BY <1>1, <1>2 DEF JobStands
<1>3. CASE pc \notin Streaming \cup {"open", "unwind"}
  <2>1. CASE Validate
    BY <1>1, <2>1 DEF JobStands, Validate, Refuse, Streaming
  <2>2. CASE ~Validate
    <3>1. pc' \notin Streaming \cup {"open", "unwind"}
      BY <1>3, <2>2 DEF Streaming, Next, Host, Device, Returned, vars, Refuse, ReadWhole, UploadShard,
           OpenManagers, NextGroup, WaitForLane, FillLane, IssueTransfer, NextChunk, DrainGroup,
           Retrieve, Unwind, Land, Break
    <3> QED
      BY <1>1, <3>1 DEF JobStands
  <2> QED
    BY <2>1, <2>2
<1> QED
  BY <1>2, <1>3

\* At the call nothing was told.
LEMMA CInvInit == Init => CInv
  BY DEF Init, CInv, JobStands, CursorExact, Groups, Closes, Streaming, Mapping

\* A step that leaves the groups alone, and goes on to where nothing more is asked of them.
LEMMA CInvKeeps ==
  ASSUME CInv, JobStands', UNCHANGED <<job, todo, region, cursor, asked, closed>>,
         \/ pc' = pc
         \/ pc \in {"wait", "drain"} /\ pc' \in {"wait", "drain"}
         \/ pc' \in {"unwind", "err", "ok", "panicked"}
         \/ pc \in {"start", "host", "upload", "open"} /\ pc' \in {"start", "host", "upload", "open"}
  PROVE  CInv'
<1> USE GroupStands DEF Streaming, Mapping
<1>1. CursorExact'
  BY DEF CInv, CursorExact
<1>2. Groups'
  BY DEF CInv, Groups
<1>3. Closes'
  BY DEF CInv, Closes
<1> QED
  BY <1>1, <1>2, <1>3 DEF CInv

\* Before a group is streamed nobody was told anything.
LEMMA CInvBegin ==
  ASSUME CInv, JobStands', Validate \/ ReadWhole \/ UploadShard \/ OpenManagers
  PROVE  CInv'
<1>1. CASE Validate \/ ReadWhole \/ UploadShard
  BY <1>1, CInvKeeps DEF Validate, ReadWhole, UploadShard, Refuse, hostVars
<1>2. CASE OpenManagers
  <2>1. CASE Refuse
    BY <2>1, CInvKeeps DEF Refuse, hostVars
  <2>2. CASE ~Refuse
    <3>1. /\ pc = "open" /\ pc' = "group" /\ todo' = {RegionOf(s) : s \in Shards}
          /\ UNCHANGED <<job, closed>>
      BY <1>2, <2>2 DEF OpenManagers
    <3>2. closed' = {}
      BY <3>1 DEF CInv, Groups
    <3> QED
      BY <3>1, <3>2, JobKeeps DEF CInv, CursorExact, Groups, Closes, Streaming, Mapping
  <2> QED
    BY <2>1, <2>2
<1> QED
  BY <1>1, <1>2

\* A new group: none of its shards was told anything.
LEMMA CInvNextGroup == ASSUME CInv, JobStands', NextGroup PROVE CInv'
<1> USE DEF Streaming, Mapping
<1>1. pc = "group" /\ UNCHANGED <<job, asked, closed>>
  BY DEF NextGroup
<1>2. CASE pc' = "wait"
  <2>1. PICK g \in todo : region' = g /\ todo' = todo \ {g} /\ cursor' = Start
    BY <1>2 DEF NextGroup
  <2>2. PICK s \in Shards : g = RegionOf(s)
    BY <1>1, <2>1 DEF CInv, Groups
  <2>3. PICK n, l : IsEven(FileSpans', n, l, Total')
    <3>1. job \in Jobs /\ ValidShape(job.sharding, job.tensor) /\ Bytes(job.tensor) # 0
      BY <1>1 DEF CInv, JobStands
    <3>2. region' = Region(job.sharding, job.tensor, s)
      BY <2>1, <2>2 DEF RegionOf
    <3>3. PICK n, l : IsEven(SpansOf(job, region'), n, l, ShardBytes(job.tensor, region'))
      BY ONLY <3>1, <3>2, FileSpansEven
    <3>4. FileSpans' = SpansOf(job, region') /\ Total' = ShardBytes(job.tensor, region')
      BY <1>1 DEF FileSpans, SpansOf, Total
    <3> QED
      BY <3>3, <3>4
  <2>4. cursor'.span = 1 /\ cursor'.consumed = 0 /\ cursor'.written = 0
    BY <2>1 DEF Start
  <2>5. n \in Nat \ {0} /\ l \in Nat \ {0} /\ Total' = n * l
    BY <2>3 DEF IsEven
  <2>6. CursorExact'
    <3>1. /\ cursor'.span \in 1 .. n + 1 /\ cursor'.consumed \in 0 .. l - 1
          /\ cursor'.written = (cursor'.span - 1) * l + cursor'.consumed
          /\ cursor'.span = n + 1 => cursor'.consumed = 0
      BY <2>4, <2>5
    <3> QED
      BY <1>2, <2>3, <3>1 DEF CursorExact
  <2>7. Total' # 0
    BY <2>5
  <2>8. Shards' = Shards /\ \A r : RegionOf(r)' = RegionOf(r)
    BY <1>1, JobKeeps
  <2>9. \A r \in Destinations' : r \notin closed'
    BY <1>1, <2>1, <2>8 DEF CInv, Groups, Destinations
  <2>10. Closes'
    BY <1>2, <2>4, <2>7, <2>9 DEF Closes
  <2>11. Groups'
    BY <1>1, <1>2, <2>1, <2>8 DEF CInv, Groups
  <2> QED
    BY <2>6, <2>10, <2>11 DEF CInv
<1>3. CASE pc' # "wait"
  <2>1. CASE pc' = "unwind"
    BY <1>1, <2>1, <1>3, CInvKeeps DEF NextGroup
  <2>2. CASE pc' = "retrieve"
    <3>1. UNCHANGED <<todo, region, cursor>> /\ todo = {}
      BY <1>1, <2>2 DEF NextGroup
    <3> QED
      BY <1>1, <2>2, <3>1, GroupStands DEF CInv, CursorExact, Groups, Closes
  <2> QED
    BY <1>1, <1>3, <2>1, <2>2 DEF NextGroup
<1> QED
  BY <1>2, <1>3

\* Waiting leaves the cursor alone; a chunk is begun only when something is left.
LEMMA CInvWaitForLane == ASSUME CInv, JobStands', WaitForLane PROVE CInv'
<1> USE DEF Streaming, Mapping
<1>1. pc = "wait" /\ UNCHANGED <<job, todo, region, cursor, asked, closed>>
  BY DEF WaitForLane, Await, hostVars
<1>2. CASE pc' = "fill"
  <2>1. ~GroupDone
    BY <1>2 DEF WaitForLane, Await
  <2>2. cursor.written # Total
    BY <1>1, <2>1, CursorFacts DEF CInv
  <2> QED
    BY <1>1, <1>2, <2>1, <2>2, GroupStands DEF CInv, CursorExact, Groups, Closes
<1>3. CASE pc' # "fill"
  BY <1>1, <1>3, CInvKeeps DEF WaitForLane, Await
<1> QED
  BY <1>2, <1>3

\* A new chunk has been asked of no shard.
LEMMA CInvFillLane == ASSUME CInv, JobStands', FillLane PROVE CInv'
<1> USE DEF Streaming, Mapping
<1>1. pc = "fill" /\ UNCHANGED <<job, todo, region, cursor, closed>>
  BY DEF FillLane
<1>2. CASE pc' = "issue"
  <2>1. asked' = {}
    BY <1>2 DEF FillLane
  <2> QED
    BY <1>1, <1>2, <2>1, GroupStands DEF CInv, CursorExact, Groups, Closes
<1>3. CASE pc' # "issue"
  BY <1>1, <1>3, CInvKeeps DEF FillLane
<1> QED
  BY <1>2, <1>3

\* A shard is told with the transfer that completes it.
LEMMA CInvIssueTransfer == ASSUME CInv, JobStands', IssueTransfer PROVE CInv'
<1> USE DEF Streaming, Mapping
<1>1. pc = "issue" /\ UNCHANGED <<job, todo, region, cursor>>
  BY DEF IssueTransfer
<1>2. CASE pc' = "unwind"
  BY <1>1, <1>2, CInvKeeps DEF IssueTransfer
<1>3. CASE pc' # "unwind"
  <2>1. PICK s \in Destinations \ asked :
          /\ asked' = asked \cup {s}
          /\ closed' = IF EndsShard THEN closed \cup {s} ELSE closed
          /\ pc' = pc
    BY <1>3 DEF IssueTransfer
  <2>2. s \in Shards /\ RegionOf(s) = region
    BY <2>1 DEF Destinations
  <2>3. Groups'
    BY <1>1, <2>1, <2>2, GroupStands DEF CInv, Groups
  <2>4. Closes'
    BY <1>1, <2>1, GroupStands DEF CInv, Closes
  <2> QED
    BY <1>1, <2>1, <2>3, <2>4, GroupStands DEF CInv, CursorExact
<1> QED
  BY <1>2, <1>3

\* The cursor goes on by the chunk, to the next span when this one is used up.
LEMMA CInvNextChunk == ASSUME CInv, JobStands', NextChunk PROVE CInv'
<1> USE DEF Streaming, Mapping
<1>1. /\ pc = "issue" /\ pc' = "wait" /\ asked = Destinations
      /\ UNCHANGED <<job, todo, region, asked, closed>> /\ ~GroupDone
  BY DEF NextChunk, CInv, CursorExact
<1>2. /\ Shards' = Shards /\ \A r : RegionOf(r)' = RegionOf(r)
      /\ Total' = Total /\ FileSpans' = FileSpans /\ Destinations' = Destinations
  BY <1>1, JobKeeps DEF Total, FileSpans, Destinations
<1>3. cursor'.written = cursor.written + ChunkLength
  BY DEF NextChunk
<1>4. PICK n, l :
         /\ IsEven(FileSpans, n, l, Total)
         /\ cursor.span \in 1 .. n + 1 /\ cursor.consumed \in 0 .. l - 1
         /\ cursor.written = (cursor.span - 1) * l + cursor.consumed
         /\ cursor.span = n + 1 => cursor.consumed = 0
  BY <1>1 DEF CInv, CursorExact
<1>5. /\ n \in Nat \ {0} /\ l \in Nat \ {0} /\ Len(FileSpans) = n
      /\ \A k \in 1 .. n : FileSpans[k].length = l
  BY <1>4 DEF IsEven
<1>6. cursor.span \in 1 .. n
  BY <1>1, <1>4, <1>5 DEF GroupDone
<1>7. Left = l - cursor.consumed
  BY <1>5, <1>6 DEF Left
<1>8. ChunkLength \in Nat \ {0} /\ ChunkLength <= Left
  BY <1>4, <1>5, <1>7, UploadAssumption DEF ChunkLength
<1>9. CursorExact'
  <2>1. /\ cursor'.span \in 1 .. n + 1 /\ cursor'.consumed \in 0 .. l - 1
        /\ cursor'.written = (cursor'.span - 1) * l + cursor'.consumed
        /\ cursor'.span = n + 1 => cursor'.consumed = 0
    <3>1. CASE ChunkLength = Left
      <4>1. cursor'.span = cursor.span + 1 /\ cursor'.consumed = 0
        BY <3>1 DEF NextChunk
      <4>2. (cursor.span - 1) * l + l = cursor.span * l /\ (cursor.span - 1) * l \in Nat
        BY <1>5, <1>6
      <4>3. cursor'.written = cursor.span * l
        <5>1. ChunkLength = l - cursor.consumed
          BY <1>7, <3>1
        <5>2. cursor'.written = ((cursor.span - 1) * l + cursor.consumed) + (l - cursor.consumed)
          BY <1>3, <1>4, <5>1
        <5>3. cursor.consumed \in Nat
          BY <1>4, <1>5
        <5> QED
          BY <1>5, <4>2, <5>2, <5>3
      <4>4. cursor'.span - 1 = cursor.span
        BY <1>6, <4>1
      <4>5. cursor'.written = (cursor'.span - 1) * l + cursor'.consumed
        BY <1>5, <1>6, <4>1, <4>3, <4>4
      <4> QED
        BY <1>5, <1>6, <4>1, <4>5
    <3>2. CASE ChunkLength # Left
      <4>1. cursor'.span = cursor.span /\ cursor'.consumed = cursor.consumed + ChunkLength
        BY <3>2 DEF NextChunk
      <4>2. (cursor.span - 1) * l \in Nat
        BY <1>5, <1>6
      <4>3. cursor'.written = (cursor'.span - 1) * l + cursor'.consumed
        <5>1. cursor'.written = ((cursor.span - 1) * l + cursor.consumed) + ChunkLength
          BY <1>3, <1>4
        <5> QED
          BY <1>4, <1>5, <1>8, <4>1, <4>2, <5>1
      <4>4. cursor'.consumed \in 0 .. l - 1
        BY <1>4, <1>5, <1>7, <1>8, <3>2, <4>1
      <4> QED
        BY <1>5, <1>6, <4>1, <4>3, <4>4
    <3> QED
      BY <3>1, <3>2
  <2> QED
    BY <1>1, <1>2, <1>4, <2>1 DEF CursorExact
<1>10. Closes'
  BY <1>1, <1>2, <1>3 DEF CInv, Closes, EndsShard
<1>11. Groups'
  BY <1>1, <1>2 DEF CInv, Groups
<1> QED
  BY <1>9, <1>10, <1>11 DEF CInv

\* A group is left only when all of it was written.
LEMMA CInvDrainGroup == ASSUME CInv, JobStands', DrainGroup PROVE CInv'
<1> USE DEF Streaming, Mapping
<1>1. pc = "drain" /\ UNCHANGED <<job, todo, region, cursor, asked, closed>>
  BY DEF DrainGroup, Await
<1>2. CASE pc' = "group"
  <2>1. cursor.written = Total
    BY <1>2 DEF DrainGroup, Await
  <2>2. \A s \in Shards : RegionOf(s) = region => s \in closed
    BY <1>1, <2>1 DEF CInv, Closes, Destinations
  <2> QED
    BY <1>1, <1>2, <2>2, GroupStands DEF CInv, CursorExact, Groups, Closes
<1>3. CASE pc' # "group"
  BY <1>1, <1>3, CInvKeeps DEF DrainGroup, Await
<1> QED
  BY <1>2, <1>3

\* Every step keeps what is known of the cursor and of what the managers were told.
LEMMA CInvStep == CInv /\ [Next]_vars => CInv'
<1> SUFFICES ASSUME CInv, [Next]_vars PROVE CInv'
  OBVIOUS
<1>1. JobStands'
  BY JobStandsStep DEF CInv
<1>2. CASE Host
  <2>1. CASE Retrieve \/ Unwind
    BY <1>1, <2>1, CInvKeeps DEF Retrieve, Unwind
  <2> QED
    BY <1>1, <1>2, <2>1, CInvBegin, CInvNextGroup, CInvWaitForLane, CInvFillLane, CInvIssueTransfer,
       CInvNextChunk, CInvDrainGroup
    DEF Host
<1>3. CASE Device
  BY <1>1, <1>3, CInvKeeps DEF Device, Land, Break, hostVars
<1>4. CASE UNCHANGED vars
  BY <1>1, <1>4, CInvKeeps DEF vars, hostVars
<1> QED
  BY <1>2, <1>3, <1>4 DEF Next, Returned

\* A manager is told of its last transfer with the chunk that completes its shard and with
\* no other, for any shape, mesh, chunk and number of lanes.
THEOREM LastIsLast == Spec => []LastIsTheLast
<1>1. IInv /\ CInv => LastIsTheLast
  <2> SUFFICES ASSUME IInv, CInv PROVE LastIsTheLast
    OBVIOUS
  <2>1. ASSUME pc = "retrieve" PROVE closed = managers
    BY <2>1 DEF IInv, Owned, CInv, Groups, Streaming, Mapping
  <2> QED
    BY <2>1 DEF CInv, Groups, Closes, LastIsTheLast
<1>2. Spec => []CInv
  BY CInvInit, CInvStep, PTL DEF Spec
<1> QED
  BY <1>1, <1>2, IInvAlways, PTL

-----------------------------------------------------------------------------
(* Folds, and the place of an element in a row-major array.                  *)

\* What Max and Min give, when there is one.
LEMMA MaxIs ==
  ASSUME NEW s, NEW m \in s, s \subseteq Int, \A k \in s : m >= k
  PROVE  Max(s) = m
<1>1. \A x \in s : (\A y \in s : x >= y) => x = m
  OBVIOUS
<1>2. \E x \in s : \A y \in s : x >= y
  OBVIOUS
<1> QED
  BY <1>1, <1>2 DEF Max

\* The same of the smallest.
LEMMA MinIs ==
  ASSUME NEW s, NEW m \in s, s \subseteq Int, \A k \in s : m <= k
  PROVE  Min(s) = m
<1>1. \A x \in s : (\A y \in s : x <= y) => x = m
  OBVIOUS
<1>2. \E x \in s : \A y \in s : x <= y
  OBVIOUS
<1> QED
  BY <1>1, <1>2 DEF Min

\* Both are in the set, if there is anything in it.
LEMMA MinThere ==
  ASSUME NEW n \in Nat, NEW s \in SUBSET (1 .. n), s # {}
  PROVE  Min(s) \in s
<1>1. s \subseteq Nat
  OBVIOUS
<1>2. PICK m \in s : \A k \in s : m <= k
  BY <1>1, NatMin
<1>3. s \subseteq Int
  OBVIOUS
<1>4. Min(s) = m
  BY ONLY <1>2, <1>3, MinIs
<1> QED
  BY <1>4

\* A bounded set has a largest number.
LEMMA MaxThere ==
  ASSUME NEW n \in Nat, NEW s \in SUBSET (1 .. n), s # {}
  PROVE  Max(s) \in s
<1> DEFINE down == {d \in 0 .. n : n - d \in s}
<1>1. down # {}
  <2>1. PICK k \in s : TRUE
    OBVIOUS
  <2>2. n - k \in 0 .. n /\ n - (n - k) = k
    OBVIOUS
  <2> QED
    BY <2>2
<1>2. down \subseteq Nat
  OBVIOUS
<1>3. PICK d \in down : \A k \in down : d <= k
  BY <1>1, <1>2, NatMin
<1>4. n - d \in s /\ s \subseteq Int
  BY <1>3
<1>5. ASSUME NEW k \in s PROVE n - d >= k
  <2>1. n - k \in down /\ k \in 1 .. n /\ d \in 0 .. n
    OBVIOUS
  <2>2. d <= n - k
    BY <1>3, <2>1
  <2> QED
    BY <2>1, <2>2
<1>6. Max(s) = n - d
  BY ONLY <1>4, <1>5, MaxIs
<1> QED
  BY <1>4, <1>6

\* A fold over a set takes one element after the other, the last of a chain of sets first.
Chain(A, e, n, pick) ==
  /\ A[0] = {}
  /\ \A m \in 1 .. n : A[m] = A[m - 1] \cup {e[m]} /\ e[m] \notin A[m - 1]
  /\ \A m \in 1 .. n : \A s \in SUBSET A[m] : e[m] \in s => pick[s] = e[m]

Folds(g, S, base, step, pick) ==
  \A s \in SUBSET S : g[s] = IF s = {} THEN base ELSE step[pick[s]][g[s \ {pick[s]}]]

\* There is a function that does so.
LEMMA FoldExists ==
  ASSUME NEW n \in Nat, NEW A, NEW e, NEW pick, Chain(A, e, n, pick),
         NEW T, NEW base \in T, NEW step, \A m \in 1 .. n : \A x \in T : step[e[m]][x] \in T
  PROVE  \E g \in [SUBSET A[n] -> T] : Folds(g, A[n], base, step, pick)
<1> DEFINE Def(m) == \E g \in [SUBSET A[m] -> T] : Folds(g, A[m], base, step, pick)
           bad == {m \in 0 .. n : ~Def(m)}
<1>1. Def(0)
  <2>1. A[0] = {} BY DEF Chain
  <2> DEFINE g == [s \in {{}} |-> base]
  <2>2. g \in [SUBSET A[0] -> T] BY <2>1
  <2>3. Folds(g, A[0], base, step, pick) BY <2>1 DEF Folds
  <2>4. QED BY <2>2, <2>3
<1>2. ASSUME NEW m \in 0 .. n, m + 1 <= n, Def(m) PROVE Def(m + 1)
  <2> DEFINE Small == SUBSET A[m]
             Large == SUBSET A[m + 1]
             x == e[m + 1]
  <2>1. PICK g \in [Small -> T] : Folds(g, A[m], base, step, pick) BY <1>2
  <2>2. m \in Nat /\ m + 1 \in 1 .. n /\ (m + 1) - 1 = m BY <1>2
  <2>3. A[m + 1] = A[m] \cup {x} /\ x \notin A[m]
    BY <2>2 DEF Chain
  <2>4. /\ Small \subseteq Large /\ {} \in Small
        /\ \A s \in Large : s \ {x} \in Small /\ (x \notin s => s \in Small)
        /\ \A s \in Small : x \notin s /\ \A y : s \ {y} \in Small
    BY <2>3
  <2>5. \A s \in Large : x \in s => pick[s] = x
    BY <2>2 DEF Chain
  <2>6. \A s \in Small : g[s] = IF s = {} THEN base ELSE step[pick[s]][g[s \ {pick[s]}]]
    BY <2>1 DEF Folds
  <2>7. \A y \in T : step[x][y] \in T
    BY <2>2
  <2> HIDE DEF Small, Large, x
  <2> DEFINE h == [s \in Large |-> IF x \in s THEN step[x][g[s \ {x}]] ELSE g[s]]
  <2>8. h \in [Large -> T]
    <3>1. ASSUME NEW s \in Large PROVE (IF x \in s THEN step[x][g[s \ {x}]] ELSE g[s]) \in T
      <4>1. g[s \ {x}] \in T /\ (x \notin s => g[s] \in T) BY <2>1, <2>4
      <4>2. QED BY <2>7, <4>1
    <3>2. QED BY <3>1
  <2>9. \A s \in Small : h[s] = g[s]
    BY <2>4
  <2>10. ASSUME NEW s \in Large
         PROVE  h[s] = IF s = {} THEN base ELSE step[pick[s]][h[s \ {pick[s]}]]
    <3>1. CASE x \in s
      <4>1. h[s] = step[x][g[s \ {x}]] BY <3>1
      <4>2. h[s \ {x}] = g[s \ {x}] BY <2>4, <2>9
      <4> HIDE DEF h
      <4>3. QED BY <2>5, <3>1, <4>1, <4>2
    <3>2. CASE x \notin s
      <4>1. s \in Small BY <2>4, <3>2
      <4>2. h[s] = g[s] /\ h[s \ {pick[s]}] = g[s \ {pick[s]}] BY <2>4, <2>9, <4>1
      <4> HIDE DEF h
      <4>3. QED BY <2>6, <4>1, <4>2
    <3>3. QED BY <3>1, <3>2
  <2> HIDE DEF h
  <2>11. QED BY <2>8, <2>10 DEF Folds, Large
<1> HIDE DEF Def
<1>3. bad = {}
  <2> SUFFICES ASSUME bad # {} PROVE FALSE OBVIOUS
  <2>1. bad \subseteq Nat OBVIOUS
  <2>2. PICK m \in bad : \A k \in bad : m <= k BY <2>1, NatMin
  <2>3. m # 0 BY <1>1
  <2>4. m - 1 \in 0 .. n /\ m - 1 \notin bad /\ (m - 1) + 1 = m BY <2>2, <2>3
  <2>5. QED BY <1>2, <2>2, <2>4
<1>4. Def(n) BY <1>3
<1>5. QED BY <1>4 DEF Def

\* The sets of a chain, and what is taken off them.
LEMMA ChainTop ==
  ASSUME NEW n \in Nat, NEW A, NEW e, NEW pick, Chain(A, e, n, pick)
  PROVE  \A m \in 1 .. n : /\ A[m] \in SUBSET A[n] /\ A[m] # {} /\ pick[A[m]] = e[m]
                           /\ A[m] \ {e[m]} = A[m - 1]
<1> DEFINE In(m) == A[m] \subseteq A[n]
           bad == {k \in 0 .. n : ~In(n - k)}
<1>1. bad = {}
  <2> SUFFICES ASSUME bad # {} PROVE FALSE OBVIOUS
  <2>1. bad \subseteq Nat OBVIOUS
  <2>2. PICK k \in bad : \A j \in bad : k <= j BY <2>1, NatMin
  <2>3. k # 0 BY <2>2
  <2>4. k - 1 \in 0 .. n /\ k - 1 \notin bad /\ n - k \in 0 .. n /\ (n - k) + 1 \in 1 .. n
        /\ n - (k - 1) = (n - k) + 1 /\ ((n - k) + 1) - 1 = n - k
    BY <2>2, <2>3
  <2>5. In((n - k) + 1) BY <2>4
  <2>6. A[(n - k) + 1] = A[n - k] \cup {e[(n - k) + 1]} BY <2>4 DEF Chain
  <2>7. In(n - k) BY <2>5, <2>6
  <2>8. QED BY <2>2, <2>7
<1>2. ASSUME NEW m \in 1 .. n PROVE In(m)
  <2>1. n - m \in 0 .. n /\ n - (n - m) = m OBVIOUS
  <2> HIDE DEF In
  <2>2. QED BY <1>1, <2>1
<1>3. ASSUME NEW m \in 1 .. n
      PROVE  A[m] # {} /\ pick[A[m]] = e[m] /\ A[m] \ {e[m]} = A[m - 1]
  BY DEF Chain
<1>4. QED BY <1>2, <1>3

\* What every step keeps holds at the end.
LEMMA Climb ==
  ASSUME NEW n \in Nat, NEW good, 0 \in good, \A m \in 1 .. n : m - 1 \in good => m \in good
  PROVE  0 .. n \subseteq good
<1> DEFINE bad == (0 .. n) \ good
<1> SUFFICES ASSUME bad # {} PROVE FALSE OBVIOUS
<1>1. bad \subseteq Nat OBVIOUS
<1>2. PICK m \in bad : \A k \in bad : m <= k BY <1>1, NatMin
<1>3. m - 1 \in 0 .. n /\ m - 1 \notin bad /\ m \in 1 .. n BY <1>2
<1>4. QED BY <1>2, <1>3

-----------------------------------------------------------------------------
(* Horner's rule in a mixed radix.                                           *)

\* h runs through Horner's rule.
Runs(h, rank, dims, coordinates) ==
  /\ h \in [0 .. rank -> Nat] /\ h[0] = 0
  /\ \A m \in 1 .. rank : h[m] = h[m - 1] * dims[m] + coordinates[m]

\* The place of an element is the last of its Horner sums.
LEMMA LinearRuns ==
  ASSUME NEW rank \in Nat, NEW dims, Len(dims) = rank, \A i \in 1 .. rank : dims[i] \in Nat,
         NEW coordinates, \A i \in 1 .. rank : coordinates[i] \in Nat
  PROVE  \E h : Runs(h, rank, dims, coordinates) /\ h[rank] = Linear(dims, coordinates)
<1> DEFINE A == [m \in 0 .. rank |-> 1 .. m]
           e == [m \in 1 .. rank |-> m]
           pick == [s \in SUBSET (1 .. rank) |-> Max(s)]
           step == [m \in 1 .. rank |-> [x \in Nat |-> x * dims[m] + coordinates[m]]]
           seq == [i \in 1 .. rank |-> i]
           IsIt(g) == g = [s \in SUBSET DOMAIN seq |->
                             IF s = {} THEN 0
                             ELSE g[s \ {Max(s)}] * dims[seq[Max(s)]] + coordinates[seq[Max(s)]]]
           it == CHOOSE g : IsIt(g)
<1>1. Chain(A, e, rank, pick)
  <2>1. A[0] = {} OBVIOUS
  <2>2. ASSUME NEW m \in 1 .. rank
        PROVE  A[m] = A[m - 1] \cup {e[m]} /\ e[m] \notin A[m - 1]
    OBVIOUS
  <2>3. ASSUME NEW m \in 1 .. rank, NEW s \in SUBSET A[m], e[m] \in s
        PROVE  pick[s] = e[m]
    <3>1. s \subseteq Int /\ m \in s /\ (\A k \in s : m >= k) /\ s \in SUBSET (1 .. rank) BY <2>3
    <3>2. Max(s) = m BY ONLY <3>1, MaxIs
    <3>3. QED BY <3>1, <3>2
  <2>4. QED BY <2>1, <2>2, <2>3 DEF Chain
<1>2. \A m \in 1 .. rank : \A x \in Nat : step[e[m]][x] \in Nat /\ step[e[m]][x] = x * dims[m] + coordinates[m]
  <2>1. ASSUME NEW m \in 1 .. rank, NEW x \in Nat PROVE x * dims[m] + coordinates[m] \in Nat
    <3>1. dims[m] \in Nat /\ coordinates[m] \in Nat OBVIOUS
    <3>2. x * dims[m] \in Nat BY <3>1
    <3>3. QED BY <3>1, <3>2
  <2>2. QED BY <2>1
<1>3. A[rank] = 1 .. rank /\ DOMAIN seq = 1 .. rank /\ \A m \in 1 .. rank : seq[m] = m /\ e[m] = m OBVIOUS
<1>4. \A s \in SUBSET (1 .. rank) : pick[s] = Max(s) OBVIOUS
<1>5. \A s \in SUBSET (1 .. rank) : s # {} => Max(s) \in s BY MaxThere
<1>6. 0 \in Nat OBVIOUS
<1> HIDE DEF A, e, pick, step, seq
<1>7. PICK g \in [SUBSET A[rank] -> Nat] : Folds(g, A[rank], 0, step, pick)
  BY ONLY rank \in Nat, <1>1, <1>2, <1>6, FoldExists
<1>8. IsIt(g)
  <2>1. ASSUME NEW s \in SUBSET (1 .. rank)
        PROVE  g[s] = IF s = {} THEN 0
                      ELSE g[s \ {Max(s)}] * dims[seq[Max(s)]] + coordinates[seq[Max(s)]]
    <3>1. CASE s = {} BY <1>3, <1>7, <3>1 DEF Folds
    <3>2. CASE s # {}
      <4> DEFINE m == Max(s)
      <4>1. m \in 1 .. rank /\ pick[s] = m BY <1>4, <1>5, <3>2
      <4>2. g[s] = step[m][g[s \ {m}]] BY <1>3, <1>7, <3>2, <4>1 DEF Folds
      <4>3. g[s \ {m}] \in Nat BY <1>3, <1>7
      <4> HIDE DEF m
      <4> DEFINE x == g[s \ {m}]
      <4> HIDE DEF x, IsIt, it
      <4>4. x \in Nat /\ g[s] = step[m][x] BY ONLY <4>2, <4>3 DEF x
      <4>5. step[e[m]][x] = x * dims[m] + coordinates[m] /\ e[m] = m /\ seq[m] = m BY ONLY <1>2, <1>3, <4>1, <4>4
      <4>6. g[s] = g[s \ {m}] * dims[seq[m]] + coordinates[seq[m]] BY ONLY <4>4, <4>5 DEF x
      <4>7. QED BY <3>2, <4>6 DEF m
    <3>3. QED BY <3>1, <3>2
  <2>2. g = [s \in SUBSET DOMAIN seq |-> g[s]] BY <1>3, <1>7
  <2>3. QED BY <1>3, <2>1, <2>2
<1>9. IsIt(it) BY ONLY <1>8, IsIt(it) \/ ~IsIt(it)
<1>10. Linear(dims, coordinates) = it[DOMAIN seq]
  BY DEF Linear, FoldLeft, MapThenFoldSet, seq
<1> HIDE DEF it
<1> DEFINE h == [m \in 0 .. rank |-> it[A[m]]]
<1>11. h[0] = 0
  <2>1. A[0] = {} BY <1>1 DEF Chain
  <2>2. it[{}] = 0 BY <1>9
  <2>3. h[0] = it[A[0]] OBVIOUS
  <2>4. QED BY ONLY <2>1, <2>2, <2>3
<1>12. ASSUME NEW m \in 1 .. rank PROVE h[m] = h[m - 1] * dims[m] + coordinates[m]
  <2>1. A[m] \in SUBSET A[rank] /\ A[m] # {} /\ pick[A[m]] = e[m] /\ A[m] \ {e[m]} = A[m - 1]
    BY <1>1, ChainTop
  <2>2. Max(A[m]) = m BY <1>3, <1>4, <2>1
  <2>3. it[A[m]] = it[A[m] \ {Max(A[m])}] * dims[seq[Max(A[m])]] + coordinates[seq[Max(A[m])]]
    BY <1>3, <1>9, <2>1
  <2>4. it[A[m]] = it[A[m - 1]] * dims[m] + coordinates[m] BY <1>3, <2>1, <2>2, <2>3
  <2>5. m \in 0 .. rank /\ m - 1 \in 0 .. rank OBVIOUS
  <2>6. h[m] = it[A[m]] /\ h[m - 1] = it[A[m - 1]] BY <2>5
  <2>7. QED BY ONLY <2>4, <2>6
<1>13. h[rank] = Linear(dims, coordinates) BY <1>3, <1>10
<1>14. h = [m \in 0 .. rank |-> h[m]] OBVIOUS
<1> HIDE DEF h
<1> DEFINE good == {m \in 0 .. rank : h[m] \in Nat}
<1>15. 0 .. rank \subseteq good
  <2>1. 0 \in good BY <1>11
  <2>2. ASSUME NEW m \in 1 .. rank, m - 1 \in good PROVE m \in good
    <3>1. h[m - 1] \in Nat BY <2>2
    <3>2. h[m] = h[m - 1] * dims[m] + coordinates[m] BY <1>12
    <3>3. \A x, y, z \in Nat : x * y + z \in Nat OBVIOUS
    <3>4. dims[m] \in Nat /\ coordinates[m] \in Nat OBVIOUS
    <3>5. h[m] \in Nat BY ONLY <3>1, <3>2, <3>3, <3>4
    <3>6. QED BY <3>5
  <2> HIDE DEF good
  <2>3. QED BY <2>1, <2>2, Climb
<1>16. h \in [0 .. rank -> Nat] BY <1>14, <1>15
<1>17. QED BY <1>11, <1>12, <1>13, <1>16 DEF Runs

-----------------------------------------------------------------------------
(* Digits.                                                                   *)

\* Quotient and rest.
LEMMA Dividing ==
  ASSUME NEW a \in Nat, NEW b \in Nat \ {0}
  PROVE  /\ a \div b \in Nat /\ a % b \in 0 .. b - 1 /\ a % b \in Nat
         /\ a = (a \div b) * b + (a % b)
<1>1. a = b * (a \div b) + (a % b) /\ a \div b \in Int /\ a % b \in 0 .. b - 1
  OBVIOUS
<1> DEFINE q == a \div b
           r == a % b
<1>2. a = b * q + r /\ q \in Int /\ r \in 0 .. b - 1
  BY <1>1
<1> HIDE DEF q, r
<1>3. q >= 0 /\ b * q = q * b
  BY <1>2
<1>4. q \in Nat /\ r \in Nat /\ a = q * b + r
  BY <1>2, <1>3
<1> QED
  BY <1>2, <1>4 DEF q, r

\* What the fold of Digits goes through.
Folded == [rest : Nat, digits : Seq(Nat)]

DigitStep(size, acc) ==
  [rest |-> acc.rest \div size, digits |-> <<acc.rest % size>> \o acc.digits]

\* One step of the loop that takes digits.
LEMMA DigitStepType ==
  ASSUME NEW size \in Nat \ {0}, NEW acc \in Folded
  PROVE  /\ DigitStep(size, acc) \in Folded
         /\ DigitStep(size, acc).rest = acc.rest \div size
         /\ Len(DigitStep(size, acc).digits) = Len(acc.digits) + 1
         /\ DigitStep(size, acc).digits[1] = acc.rest % size
         /\ \A j \in 1 .. Len(acc.digits) : DigitStep(size, acc).digits[j + 1] = acc.digits[j]
<1> DEFINE first == acc.rest % size
           others == acc.digits
           rest == acc.rest \div size
<1>1. first \in Nat /\ others \in Seq(Nat) /\ rest \in Nat
  BY Dividing DEF Folded
<1>2. DigitStep(size, acc) = [rest |-> rest, digits |-> <<first>> \o others]
  BY DEF DigitStep
<1> HIDE DEF first, others, rest
<1>3. /\ <<first>> \o others \in Seq(Nat) /\ Len(<<first>> \o others) = Len(others) + 1
      /\ (<<first>> \o others)[1] = first
      /\ \A j \in 1 .. Len(others) : (<<first>> \o others)[j + 1] = others[j]
  BY ONLY <1>1
<1>4. DigitStep(size, acc) \in Folded
  BY ONLY <1>1, <1>2, <1>3 DEF Folded
<1>5. DigitStep(size, acc).rest = rest /\ DigitStep(size, acc).digits = <<first>> \o others
  BY ONLY <1>2
<1> QED
  BY <1>3, <1>4, <1>5 DEF first, others, rest

\* The fold, from the last size on.
LEMMA DigitsFold ==
  ASSUME NEW sizes \in Seq(Nat), \A i \in DOMAIN sizes : sizes[i] # 0, NEW start \in Nat
  PROVE  \E h \in [0 .. Len(sizes) -> Folded] :
           /\ h[0] = [rest |-> start, digits |-> << >>] /\ h[Len(sizes)].digits = Digits(start, sizes)
           /\ \A m \in 1 .. Len(sizes) : h[m] = DigitStep(sizes[Len(sizes) + 1 - m], h[m - 1])
<1> DEFINE n == Len(sizes)
           base == [rest |-> start, digits |-> << >>]
           A == [m \in 0 .. n |-> n + 1 - m .. n]
           e == [m \in 1 .. n |-> n + 1 - m]
           pick == [s \in SUBSET (1 .. n) |-> Min(s)]
           step == [k \in 1 .. n |-> [x \in Folded |-> DigitStep(sizes[k], x)]]
           IsIt(g) == g = [s \in SUBSET DOMAIN sizes |->
                             IF s = {} THEN base
                             ELSE DigitStep(sizes[Min(s)], g[s \ {Min(s)}])]
           it == CHOOSE g : IsIt(g)
<1>0. n \in Nat /\ DOMAIN sizes = 1 .. n /\ \A k \in 1 .. n : sizes[k] \in Nat \ {0}
  OBVIOUS
<1>1. Chain(A, e, n, pick)
  <2> HIDE DEF n
  <2>1. A[0] = {} BY <1>0
  <2>2. ASSUME NEW m \in 1 .. n
        PROVE  A[m] = A[m - 1] \cup {e[m]} /\ e[m] \notin A[m - 1]
    BY <1>0
  <2>3. ASSUME NEW m \in 1 .. n, NEW s \in SUBSET A[m], e[m] \in s
        PROVE  pick[s] = e[m]
    <3> DEFINE x == n + 1 - m
    <3>1. s \subseteq Int /\ x \in s /\ (\A k \in s : x <= k) /\ s \in SUBSET (1 .. n) BY <1>0, <2>3
    <3>2. e[m] = x OBVIOUS
    <3> HIDE DEF x
    <3>3. Min(s) = x BY ONLY <3>1, MinIs
    <3>4. QED BY <3>1, <3>2, <3>3
  <2>4. QED BY <2>1, <2>2, <2>3 DEF Chain
<1>2. \A k \in 1 .. n : \A x \in Folded : step[k][x] \in Folded /\ step[k][x] = DigitStep(sizes[k], x)
  BY <1>0, DigitStepType
<1>3. A[n] = 1 .. n /\ \A m \in 1 .. n : e[m] = n + 1 - m /\ e[m] \in 1 .. n
  <2> HIDE DEF n
  <2>1. QED BY <1>0
<1>4. \A s \in SUBSET (1 .. n) : pick[s] = Min(s) OBVIOUS
<1>5. \A s \in SUBSET (1 .. n) : s # {} => Min(s) \in s
  <2> HIDE DEF n
  <2>1. QED BY <1>0, MinThere
<1>6. base \in Folded
  <2>1. << >> \in Seq(Nat) OBVIOUS
  <2>2. QED BY <2>1 DEF Folded
<1> HIDE DEF n, A, e, pick, step, base
<1>7. PICK g \in [SUBSET A[n] -> Folded] : Folds(g, A[n], base, step, pick)
  <2>1. \A m \in 1 .. n : \A x \in Folded : step[e[m]][x] \in Folded BY <1>2, <1>3
  <2>2. QED BY ONLY <1>0, <1>1, <1>6, <2>1, FoldExists
<1>8. IsIt(g)
  <2>1. ASSUME NEW s \in SUBSET (1 .. n)
        PROVE  g[s] = IF s = {} THEN base ELSE DigitStep(sizes[Min(s)], g[s \ {Min(s)}])
    <3>1. CASE s = {} BY <1>3, <1>7, <3>1 DEF Folds
    <3>2. CASE s # {}
      <4> DEFINE m == Min(s)
      <4>1. m \in 1 .. n /\ pick[s] = m BY <1>4, <1>5, <3>2
      <4>2. g[s] = step[m][g[s \ {m}]] BY <1>3, <1>7, <3>2, <4>1 DEF Folds
      <4>3. g[s \ {m}] \in Folded BY <1>3, <1>7
      <4> HIDE DEF m
      <4>4. g[s] = DigitStep(sizes[m], g[s \ {m}]) BY ONLY <1>2, <4>1, <4>2, <4>3
      <4>5. QED BY <3>2, <4>4 DEF m
    <3>3. QED BY <3>1, <3>2
  <2>2. g = [s \in SUBSET DOMAIN sizes |-> g[s]] BY <1>0, <1>3, <1>7
  <2>3. QED BY <1>0, <2>1, <2>2
<1>9. IsIt(it) BY ONLY <1>8, IsIt(it) \/ ~IsIt(it)
<1>10. Digits(start, sizes) = it[DOMAIN sizes].digits
  BY DEF Digits, FoldRight, MapThenFoldSet, DigitStep, base
<1> HIDE DEF it
<1> DEFINE h == [m \in 0 .. n |-> it[A[m]]]
<1>11. h[0] = base
  <2>1. A[0] = {} BY <1>1 DEF Chain
  <2>2. it[{}] = base BY <1>9
  <2>3. h[0] = it[A[0]] BY <1>0
  <2>4. QED BY ONLY <2>1, <2>2, <2>3
<1>12. ASSUME NEW m \in 1 .. n PROVE h[m] = DigitStep(sizes[n + 1 - m], h[m - 1])
  <2>1. A[m] \in SUBSET A[n] /\ A[m] # {} /\ pick[A[m]] = e[m] /\ A[m] \ {e[m]} = A[m - 1]
    BY <1>0, <1>1, ChainTop
  <2> DEFINE x == n + 1 - m
  <2>2. Min(A[m]) = x /\ e[m] = x BY <1>3, <1>4, <2>1
  <2> HIDE DEF x
  <2>3. it[A[m]] = DigitStep(sizes[Min(A[m])], it[A[m] \ {Min(A[m])}])
    BY <1>0, <1>3, <1>9, <2>1
  <2>4. it[A[m]] = DigitStep(sizes[x], it[A[m - 1]]) BY <2>1, <2>2, <2>3
  <2>5. m \in 0 .. n /\ m - 1 \in 0 .. n BY <1>0
  <2>6. h[m] = it[A[m]] /\ h[m - 1] = it[A[m - 1]] BY <2>5
  <2> HIDE DEF h
  <2>7. QED BY <2>4, <2>6 DEF x
<1>13. h[n] = it[A[n]] /\ A[n] = DOMAIN sizes BY <1>0, <1>3
<1>14. h = [m \in 0 .. n |-> h[m]] OBVIOUS
<1> HIDE DEF h
<1> DEFINE good == {m \in 0 .. n : h[m] \in Folded}
<1>15. 0 .. n \subseteq good
  <2>1. 0 \in good BY <1>0, <1>6, <1>11
  <2>2. ASSUME NEW m \in 1 .. n, m - 1 \in good PROVE m \in good
    <3>1. h[m - 1] \in Folded BY <2>2
    <3>2. sizes[n + 1 - m] \in Nat \ {0} BY <1>0
    <3>3. h[m] \in Folded BY ONLY <1>12, <3>1, <3>2, m \in 1 .. n, DigitStepType
    <3>4. m \in 0 .. n BY <1>0
    <3>5. QED BY <3>3, <3>4
  <2> HIDE DEF good
  <2>3. QED BY <1>0, <2>1, <2>2, Climb
<1>16. h \in [0 .. n -> Folded] BY <1>14, <1>15
<1>17. h[n].digits = Digits(start, sizes) BY <1>10, <1>13
<1>18. QED BY ONLY <1>11, <1>12, <1>16, <1>17 DEF n, base

\* Quotient and rest are those that fit.
LEMMA Quotient ==
  ASSUME NEW a \in Nat, NEW b \in Nat \ {0}, NEW q \in Int, NEW r \in 0 .. b - 1, a = q * b + r
  PROVE  a \div b = q /\ a % b = r
<1> DEFINE p == a \div b
           s == a % b
<1>1. p \in Nat /\ s \in 0 .. b - 1 /\ a = p * b + s
  BY Dividing
<1> HIDE DEF p, s
<1>2. ASSUME NEW x \in Int, NEW y \in Int, x < y PROVE x * b + b <= y * b
  <2>1. PICK z \in Nat : y = x + 1 + z
    <3>1. y - x - 1 \in Nat /\ y = x + 1 + (y - x - 1) BY <1>2
    <3>2. QED BY <3>1
  <2>2. y * b = x * b + b + z * b BY <2>1
  <2>3. z * b \in Nat /\ x * b \in Int OBVIOUS
  <2> DEFINE xb == x * b
             yb == y * b
             zb == z * b
  <2>4. yb = xb + b + zb /\ zb \in Nat /\ xb \in Int BY <2>2, <2>3
  <2> HIDE DEF xb, yb, zb
  <2>5. xb + b <= yb BY <2>4
  <2>6. QED BY <2>5 DEF xb, yb
<1> DEFINE pb == p * b
           qb == q * b
<1>3. pb \in Int /\ qb \in Int /\ pb + s = qb + r /\ r \in Int /\ s \in Int
  BY <1>1
<1>4. p < q => pb + b <= qb
  BY <1>1, <1>2
<1>5. q < p => qb + b <= pb
  BY <1>1, <1>2
<1> HIDE DEF pb, qb
<1>6. p = q
  BY <1>1, <1>3, <1>4, <1>5
<1>7. pb = qb
  BY <1>6 DEF pb, qb
<1>8. s = r
  BY <1>3, <1>7
<1> QED
  BY <1>6, <1>8 DEF p, s

\* A part of a part.
LEMMA DivDiv ==
  ASSUME NEW a \in Nat, NEW b \in Nat \ {0}, NEW c \in Nat \ {0}
  PROVE  (a \div b) \div c = a \div (b * c) /\ b * c \in Nat \ {0}
<1> DEFINE q == a \div b
           r == a % b
<1>1. q \in Nat /\ r \in 0 .. b - 1 /\ a = q * b + r
  BY Dividing
<1> HIDE DEF q, r
<1> DEFINE p == q \div c
           s == q % c
<1>2. p \in Nat /\ s \in 0 .. c - 1 /\ q = p * c + s
  BY <1>1, Dividing
<1> HIDE DEF p, s
<1>3. a = p * (b * c) + (s * b + r)
  <2>1. a = (p * c + s) * b + r BY <1>1, <1>2
  <2>2. (p * c + s) * b = p * (b * c) + s * b
    <3>1. p \in Nat /\ s \in Nat /\ c \in Nat /\ b \in Nat BY <1>2
    <3>2. QED BY ONLY <3>1
  <2>3. p * (b * c) \in Nat /\ s * b \in Nat /\ r \in Nat
    <3>1. p \in Nat /\ s \in Nat /\ c \in Nat /\ b \in Nat /\ r \in Nat BY <1>1, <1>2
    <3>2. b * c \in Nat BY ONLY <3>1
    <3>3. QED BY ONLY <3>1, <3>2
  <2> DEFINE x == p * (b * c)
             y == s * b
             z == (p * c + s) * b
  <2>4. a = z + r /\ z = x + y /\ x \in Nat /\ y \in Nat /\ r \in Nat BY <2>1, <2>2, <2>3
  <2> HIDE DEF x, y, z
  <2>5. a = x + (y + r) BY ONLY <2>4
  <2> QED BY <2>5 DEF x, y
<1>4. b * c \in Nat \ {0}
  OBVIOUS
<1>5. s * b + r \in 0 .. b * c - 1
  <2>1. s * b + b <= c * b
    <3>1. c - 1 - s \in Nat BY <1>2
    <3>2. (c - 1 - s) * b \in Nat BY <3>1
    <3>3. (c - 1 - s) * b = c * b - b - s * b /\ c * b \in Int /\ s * b \in Int BY <1>2
    <3> DEFINE x == (c - 1 - s) * b
               y == c * b
               z == s * b
    <3>4. x \in Nat /\ x = y - b - z /\ y \in Int /\ z \in Int BY <3>2, <3>3
    <3> HIDE DEF x, y, z
    <3>5. z + b <= y BY ONLY <3>4, b \in Nat
    <3>6. QED BY <3>5 DEF y, z
  <2>2. s * b \in Nat /\ c * b = b * c /\ b * c \in Nat BY <1>2
  <2> DEFINE x == s * b
             y == b * c
  <2>3. x \in Nat /\ y \in Nat /\ x + b <= y /\ r \in 0 .. b - 1 BY <1>1, <2>1, <2>2
  <2> HIDE DEF x, y
  <2>4. x + r \in 0 .. y - 1 BY ONLY <2>3, b \in Nat
  <2> QED BY <2>4 DEF x, y
<1>6. a \div (b * c) = p
  <2> DEFINE m == b * c
             t == s * b + r
  <2>1. m \in Nat \ {0} /\ t \in 0 .. m - 1 /\ a = p * m + t /\ p \in Int BY <1>2, <1>3, <1>4, <1>5
  <2> HIDE DEF m, t
  <2>2. a \div m = p BY ONLY <2>1, a \in Nat, Quotient
  <2> QED BY <2>2 DEF m
<1> QED
  BY <1>4, <1>6 DEF p, q

\* A block of a row of blocks.
LEMMA BlockIs ==
  ASSUME NEW x \in Nat, NEW l \in Nat \ {0}, NEW c \in Nat
  PROVE  x \div l = c <=> x \in c * l .. c * l + l - 1
<1> DEFINE q == x \div l
           r == x % l
           cl == c * l
<1>1. q \in Nat /\ r \in 0 .. l - 1 /\ x = q * l + r
  BY Dividing
<1>2. cl \in Nat
  OBVIOUS
<1>3. ASSUME q = c PROVE x \in cl .. cl + l - 1
  <2> HIDE DEF q, r
  <2>1. q * l = cl BY <1>3
  <2> HIDE DEF cl
  <2>2. QED BY <1>1, <1>2, <2>1
<1>4. ASSUME x \in cl .. cl + l - 1 PROVE q = c
  <2>1. x - cl \in 0 .. l - 1 /\ x = c * l + (x - cl) BY <1>2, <1>4
  <2>2. QED BY <2>1, Quotient
<1> QED
  BY <1>3, <1>4

\* The first factor is taken off.
LEMMA ProductTail ==
  ASSUME NEW s \in Seq(Nat), NEW i \in 1 .. Len(s)
  PROVE  Product(SubSeq(s, i, Len(s))) = s[i] * Product(SubSeq(s, i + 1, Len(s)))
<1> DEFINE n == Len(s)
           m == n - i
           a == SubSeq(s, i, n)
           b == SubSeq(s, i + 1, n)
<1>1. n \in Nat /\ i \in Nat /\ m \in Nat /\ \A k \in 1 .. n : s[k] \in Nat
  OBVIOUS
<1>2. a \in Seq(Nat) /\ Len(a) = m + 1 /\ \A k \in 1 .. m + 1 : a[k] = s[i + k - 1]
  BY <1>1
<1>3. b \in Seq(Nat) /\ Len(b) = m /\ \A k \in 1 .. m : b[k] = s[i + k]
  BY <1>1
<1>4. a[1] = s[i] /\ \A k \in 1 .. m : a[k + 1] = b[k]
  <2>1. a[1] = s[i] BY <1>1, <1>2
  <2>2. ASSUME NEW k \in 1 .. m PROVE a[k + 1] = b[k]
    <3>1. k + 1 \in 1 .. m + 1 /\ i + (k + 1) - 1 = i + k BY <1>1
    <3>2. QED BY <1>2, <1>3, <3>1
  <2>3. QED BY <2>1, <2>2
<1>5. s[i] \in Nat
  BY <1>1
<1> HIDE DEF a, b, m, n
<1>6. PICK g \in [0 .. m -> Nat] :
           /\ g[0] = 1 /\ \A k \in 1 .. m : g[k] = g[k - 1] * b[k]
           /\ Product(b) = g[m]
  BY <1>3, ProductExists
<1> DEFINE f == s[i]
           h == [k \in 0 .. m + 1 |-> IF k = 0 THEN 1 ELSE f * g[k - 1]]
<1>7. h[0] = 1 /\ h[m + 1] = f * Product(b)
  BY <1>1, <1>6
<1> HIDE DEF f
<1>8. ASSUME NEW k \in 1 .. m + 1 PROVE h[k] = h[k - 1] * a[k]
  <2>1. CASE k = 1
    <3>1. h[1] = f * 1 /\ h[0] = 1 BY <1>1, <1>6
    <3>2. a[1] = f /\ f \in Nat BY <1>4, <1>5 DEF f
    <3>3. QED BY <2>1, <3>1, <3>2
  <2>2. CASE k # 1
    <3>1. k - 1 \in 1 .. m /\ (k - 1) - 1 \in 0 .. m /\ (k - 1) + 1 = k /\ k \in 0 .. m + 1 /\ k - 1 \in 0 .. m + 1
          /\ k # 0 /\ k - 1 # 0
      BY <1>1, <2>2
    <3>2. h[k] = f * g[k - 1] /\ h[k - 1] = f * g[(k - 1) - 1] BY <3>1
    <3>3. g[k - 1] = g[(k - 1) - 1] * b[k - 1] BY <1>6, <3>1
    <3>4. a[k] = b[k - 1] BY <1>4, <3>1
    <3>5. g[(k - 1) - 1] \in Nat BY ONLY <1>6, <3>1
    <3>6. b[k - 1] \in Nat /\ f \in Nat BY ONLY <1>3, <1>5, <3>1, ElementOfSeq DEF f
    <3>7. \A x, y, z \in Nat : x * (y * z) = (x * y) * z OBVIOUS
    <3>8. QED BY ONLY <3>2, <3>3, <3>4, <3>5, <3>6, <3>7
  <2>3. QED BY <2>1, <2>2
<1> HIDE DEF h
<1>9. Product(a) = h[m + 1]
  BY ONLY <1>2, <1>7, <1>8, ProductIs
<1> QED
  BY <1>7, <1>9 DEF a, b, n, f

\* Numbers of which none is zero.
Positive(s) == s \in Seq(Nat) /\ \A i \in DOMAIN s : s[i] # 0

\* The strides of a row-major array, from the last axis on.
LEMMA StrideIs ==
  ASSUME NEW s, Positive(s)
  PROVE  /\ Stride(s, Len(s)) = 1 /\ Stride(s, 0) = Product(s)
         /\ \A i \in 1 .. Len(s) : Stride(s, i - 1) = s[i] * Stride(s, i)
         /\ \A i \in 0 .. Len(s) : Stride(s, i) \in Nat \ {0}
<1> DEFINE n == Len(s)
<1>1. s \in Seq(Nat) /\ n \in Nat /\ \A i \in 1 .. n : s[i] \in Nat \ {0}
  BY DEF Positive
<1>2. Stride(s, n) = 1
  <2>1. SubSeq(s, n + 1, n) = << >> BY <1>1
  <2>2. << >> \in Seq(Nat) /\ Len(<< >>) = 0 OBVIOUS
  <2>3. Product(<< >>) = 1
    <3> DEFINE e == << >>
    <3>1. e \in Seq(Nat) /\ Len(e) = 0 BY <2>2
    <3> HIDE DEF e
    <3>2. Product(e) = 1 BY ONLY <3>1, ProductExists
    <3>3. QED BY <3>2 DEF e
  <2>4. QED BY <2>1, <2>3 DEF Stride
<1>3. Stride(s, 0) = Product(s)
  <2>1. SubSeq(s, 0 + 1, n) = s BY <1>1
  <2>2. QED BY <2>1 DEF Stride
<1>4. ASSUME NEW i \in 1 .. n PROVE Stride(s, i - 1) = s[i] * Stride(s, i)
  <2>1. (i - 1) + 1 = i BY <1>1
  <2>2. QED BY <1>1, <2>1, ProductTail DEF Stride
<1>5. \A i \in 0 .. n : Stride(s, i) \in Nat \ {0}
  <2> DEFINE good == {k \in 0 .. n : Stride(s, n - k) \in Nat \ {0}}
  <2>1. 0 \in good BY <1>1, <1>2
  <2>2. ASSUME NEW k \in 1 .. n, k - 1 \in good PROVE k \in good
    <3>1. n - (k - 1) \in 1 .. n /\ (n - (k - 1)) - 1 = n - k BY <1>1
    <3>2. Stride(s, n - k) = s[n - (k - 1)] * Stride(s, n - (k - 1)) BY <1>4, <3>1
    <3>3. Stride(s, n - (k - 1)) \in Nat \ {0} BY <2>2
    <3>4. s[n - (k - 1)] \in Nat \ {0} BY <1>1, <3>1
    <3>5. \A x, y \in Nat \ {0} : x * y \in Nat \ {0} OBVIOUS
    <3>6. Stride(s, n - k) \in Nat \ {0} BY ONLY <3>2, <3>3, <3>4, <3>5
    <3>7. QED BY <1>1, <3>6
  <2>3. 0 .. n \subseteq good
    <3> HIDE DEF good
    <3>1. QED BY ONLY <1>1, <2>1, <2>2, Climb
  <2>4. SUFFICES ASSUME NEW i \in 0 .. n PROVE Stride(s, i) \in Nat \ {0} OBVIOUS
  <2>5. n - i \in 0 .. n /\ n - (n - i) = i BY <1>1
  <2>6. n - i \in good BY <2>3, <2>5
  <2>7. QED BY <2>5, <2>6
<1> QED
  BY <1>2, <1>3, <1>4, <1>5

\* The digits of a number, with what is left of it before each of them.
LEMMA DigitsRun ==
  ASSUME NEW sizes, Positive(sizes), NEW start \in Nat
  PROVE  /\ Digits(start, sizes) \in Seq(Nat) /\ Len(Digits(start, sizes)) = Len(sizes)
         /\ \E q \in [0 .. Len(sizes) -> Nat] :
              /\ q[Len(sizes)] = start
              /\ \A i \in 1 .. Len(sizes) :
                   q[i - 1] = q[i] \div sizes[i] /\ Digits(start, sizes)[i] = q[i] % sizes[i]
<1> DEFINE n == Len(sizes)
           digits == Digits(start, sizes)
<1>1. /\ sizes \in Seq(Nat) /\ n \in Nat /\ \A i \in DOMAIN sizes : sizes[i] # 0
      /\ \A i \in 1 .. n : sizes[i] \in Nat \ {0}
  BY DEF Positive
<1>2. PICK h \in [0 .. n -> Folded] :
           /\ h[0] = [rest |-> start, digits |-> << >>] /\ h[n].digits = digits
           /\ \A m \in 1 .. n : h[m] = DigitStep(sizes[n + 1 - m], h[m - 1])
  BY <1>1, DigitsFold
<1>3. \A m \in 0 .. n : h[m].rest \in Nat /\ h[m].digits \in Seq(Nat)
  BY <1>2 DEF Folded
<1> HIDE DEF digits, n
<1>4. ASSUME NEW m \in 1 .. n
      PROVE  /\ m - 1 \in 0 .. n /\ n + 1 - m \in 1 .. n
             /\ h[m].rest = h[m - 1].rest \div sizes[n + 1 - m]
             /\ Len(h[m].digits) = Len(h[m - 1].digits) + 1
             /\ h[m].digits[1] = h[m - 1].rest % sizes[n + 1 - m]
             /\ \A j \in 1 .. Len(h[m - 1].digits) : h[m].digits[j + 1] = h[m - 1].digits[j]
  <2>1. m - 1 \in 0 .. n /\ n + 1 - m \in 1 .. n BY <1>1
  <2> DEFINE size == sizes[n + 1 - m]
             acc == h[m - 1]
  <2>2. size \in Nat \ {0} /\ acc \in Folded BY <1>1, <1>2, <2>1
  <2>3. h[m] = DigitStep(size, acc) BY <1>2
  <2> HIDE DEF size, acc
  <2>4. /\ h[m].rest = acc.rest \div size
        /\ Len(h[m].digits) = Len(acc.digits) + 1
        /\ h[m].digits[1] = acc.rest % size
        /\ \A j \in 1 .. Len(acc.digits) : h[m].digits[j + 1] = acc.digits[j]
    BY ONLY <2>2, <2>3, DigitStepType
  <2>5. QED BY <2>1, <2>4 DEF size, acc
<1> DEFINE Told(m) == /\ Len(h[m].digits) = m
                      /\ \A j \in 1 .. m : h[m].digits[j] = h[m - j].rest % sizes[n - m + j]
           good == {m \in 0 .. n : Told(m)}
<1>5. 0 \in good
  <2>1. Len(h[0].digits) = 0 BY <1>2
  <2>2. QED BY <1>1, <2>1
<1>6. ASSUME NEW m \in 1 .. n, m - 1 \in good PROVE m \in good
  <2>1. Told(m - 1) BY <1>6
  <2>2. Len(h[m].digits) = m BY <1>1, <1>4, <2>1
  <2>3. ASSUME NEW j \in 1 .. m PROVE h[m].digits[j] = h[m - j].rest % sizes[n - m + j]
    <3>1. CASE j = 1
      <4>1. n - m + 1 = n + 1 - m BY <1>1
      <4>2. QED BY <1>4, <3>1, <4>1
    <3>2. CASE j # 1
      <4>1. j - 1 \in 1 .. m - 1 /\ (j - 1) + 1 = j /\ (m - 1) - (j - 1) = m - j
            /\ n - (m - 1) + (j - 1) = n - m + j
        BY <1>1, <3>2
      <4>2. Len(h[m - 1].digits) = m - 1 BY <2>1
      <4>3. h[m].digits[(j - 1) + 1] = h[m - 1].digits[j - 1] BY <1>4, <4>1, <4>2
      <4>4. h[m - 1].digits[j - 1] = h[(m - 1) - (j - 1)].rest % sizes[n - (m - 1) + (j - 1)] BY <2>1, <4>1
      <4>5. QED BY ONLY <4>1, <4>3, <4>4
    <3>3. QED BY <3>1, <3>2
  <2>4. m \in 0 .. n BY <1>1
  <2>5. QED BY <2>2, <2>3, <2>4
<1>7. Told(n)
  <2>1. 0 .. n \subseteq good
    <3> HIDE DEF good
    <3>1. QED BY ONLY <1>1, <1>5, <1>6, Climb
  <2>2. n \in 0 .. n BY <1>1
  <2>3. QED BY <2>1, <2>2
<1>8. digits \in Seq(Nat) /\ Len(digits) = n
  <2>1. n \in 0 .. n BY <1>1
  <2>2. QED BY <1>2, <1>3, <1>7, <2>1
<1> DEFINE q == [i \in 0 .. n |-> h[n - i].rest]
<1>9. q \in [0 .. n -> Nat]
  <2>1. \A i \in 0 .. n : n - i \in 0 .. n BY <1>1
  <2>2. QED BY <1>3, <2>1
<1>10. q[n] = start
  <2>1. n \in 0 .. n /\ n - n = 0 BY <1>1
  <2>2. QED BY <1>2, <2>1
<1>11. ASSUME NEW i \in 1 .. n PROVE q[i - 1] = q[i] \div sizes[i] /\ digits[i] = q[i] % sizes[i]
  <2> DEFINE m == n + 1 - i
  <2>1. /\ m \in 1 .. n /\ m - 1 = n - i /\ n + 1 - m = i /\ n - (i - 1) = m
        /\ i \in 0 .. n /\ i - 1 \in 0 .. n /\ n - n + i = i
    BY <1>1
  <2>2. q[i - 1] = h[m].rest /\ q[i] = h[m - 1].rest BY <2>1
  <2> HIDE DEF m, q
  <2>3. h[m].rest = h[m - 1].rest \div sizes[n + 1 - m] BY ONLY <1>4, <2>1
  <2>4. digits[i] = h[n - i].rest % sizes[n - n + i] BY <1>2, <1>7
  <2>5. QED BY ONLY <2>1, <2>2, <2>3, <2>4
<1> HIDE DEF q
<1> QED
  BY <1>8, <1>9, <1>10, <1>11 DEF n, digits

\* The digit that belongs to an axis, by its stride.
LEMMA DigitIs ==
  ASSUME NEW sizes, Positive(sizes), NEW start \in Nat, NEW i \in 1 .. Len(sizes)
  PROVE  /\ Digits(start, sizes)[i] = (start \div Stride(sizes, i)) % sizes[i]
         /\ Digits(start, sizes)[i] \in 0 .. sizes[i] - 1
<1> DEFINE n == Len(sizes)
<1>1. n \in Nat /\ \A k \in 1 .. n : sizes[k] \in Nat \ {0}
  BY DEF Positive
<1>2. PICK q \in [0 .. n -> Nat] :
              /\ q[n] = start
              /\ \A k \in 1 .. n :
                   q[k - 1] = q[k] \div sizes[k] /\ Digits(start, sizes)[k] = q[k] % sizes[k]
  BY DigitsRun
<1> DEFINE good == {k \in 0 .. n : q[n - k] = start \div Stride(sizes, n - k)}
<1>3. 0 \in good
  <2>1. n - 0 = n /\ Stride(sizes, n) = 1 BY <1>1, StrideIs
  <2>2. start \div 1 = start
    <3>1. start = start * 1 + 0 /\ 0 \in 0 .. 1 - 1 OBVIOUS
    <3>2. QED BY <3>1, Quotient
  <2>3. QED BY <1>1, <1>2, <2>1, <2>2
<1>4. ASSUME NEW k \in 1 .. n, k - 1 \in good PROVE k \in good
  <2> DEFINE j == n - (k - 1)
  <2>1. j \in 1 .. n /\ j - 1 = n - k /\ k \in 0 .. n /\ j \in 0 .. n BY <1>1
  <2>2. q[j] = start \div Stride(sizes, j) BY <1>4
  <2> HIDE DEF j
  <2>3. q[j - 1] = q[j] \div sizes[j] BY <1>2, <2>1
  <2>4. Stride(sizes, j) \in Nat \ {0} /\ Stride(sizes, j - 1) = sizes[j] * Stride(sizes, j)
    BY <2>1, StrideIs
  <2>5. sizes[j] \in Nat \ {0} BY <1>1, <2>1
  <2> DEFINE st == Stride(sizes, j)
             sz == sizes[j]
  <2>6. (start \div st) \div sz = start \div (st * sz)
    <3>1. st \in Nat \ {0} /\ sz \in Nat \ {0} BY <2>4, <2>5
    <3> HIDE DEF st, sz
    <3>2. QED BY ONLY <3>1, start \in Nat, DivDiv
  <2>7. st * sz = sz * st BY <2>4, <2>5
  <2>8. q[j - 1] = start \div Stride(sizes, j - 1) BY <2>2, <2>3, <2>4, <2>6, <2>7
  <2>9. QED BY <2>1, <2>8
<1>5. n - i \in good
  <2>1. 0 .. n \subseteq good
    <3> HIDE DEF good
    <3>1. QED BY ONLY <1>1, <1>3, <1>4, Climb
  <2>2. n - i \in 0 .. n BY <1>1
  <2>3. QED BY <2>1, <2>2
<1>6. n - (n - i) = i /\ q[i] \in Nat
  BY <1>1, <1>2
<1>7. q[i] = start \div Stride(sizes, i)
  BY <1>5, <1>6
<1>8. q[i] % sizes[i] \in 0 .. sizes[i] - 1
  BY <1>1, <1>6, Dividing
<1> QED
  BY <1>2, <1>7, <1>8

\* What is left of a number before each of its digits.
LEMMA RestIs ==
  ASSUME NEW sizes, Positive(sizes), NEW start \in Nat
  PROVE  /\ start \div Stride(sizes, Len(sizes)) = start
         /\ start < Product(sizes) => start \div Stride(sizes, 0) = 0
         /\ start \div Stride(sizes, 0) = 0 => start < Product(sizes)
         /\ \A i \in 0 .. Len(sizes) : start \div Stride(sizes, i) \in Nat
         /\ \A i \in 1 .. Len(sizes) :
              start \div Stride(sizes, i - 1) = (start \div Stride(sizes, i)) \div sizes[i]
<1>1. Len(sizes) \in Nat /\ \A k \in 1 .. Len(sizes) : sizes[k] \in Nat \ {0}
  BY DEF Positive
<1>2. /\ Stride(sizes, Len(sizes)) = 1 /\ Stride(sizes, 0) = Product(sizes)
      /\ \A i \in 1 .. Len(sizes) : Stride(sizes, i - 1) = sizes[i] * Stride(sizes, i)
      /\ \A i \in 0 .. Len(sizes) : Stride(sizes, i) \in Nat \ {0}
  BY StrideIs
<1>3. start \div 1 = start
  <2>1. start = start * 1 + 0 /\ 0 \in 0 .. 1 - 1 OBVIOUS
  <2>2. QED BY <2>1, Quotient
<1>4. ASSUME NEW p \in Nat \ {0} PROVE start < p <=> start \div p = 0
  <2>1. ASSUME start < p PROVE start \div p = 0
    <3>1. start = 0 * p + start /\ start \in 0 .. p - 1 BY <2>1
    <3>2. QED BY ONLY <3>1, start \in Nat, p \in Nat \ {0}, Quotient
  <2>2. ASSUME start \div p = 0 PROVE start < p
    <3>1. start = (start \div p) * p + (start % p) /\ start % p \in 0 .. p - 1 BY Dividing
    <3>2. 0 * p = 0 OBVIOUS
    <3> DEFINE r == start % p
    <3>3. start = r /\ r \in 0 .. p - 1 BY <2>2, <3>1, <3>2
    <3> HIDE DEF r
    <3>4. QED BY <3>3
  <2>3. QED BY <2>1, <2>2
<1>5. Product(sizes) \in Nat \ {0}
  <2>1. 0 \in 0 .. Len(sizes) BY <1>1
  <2>2. QED BY <1>2, <2>1
<1>6. \A i \in 0 .. Len(sizes) : start \div Stride(sizes, i) \in Nat
  BY ONLY <1>2, start \in Nat, Dividing
<1>7. ASSUME NEW i \in 1 .. Len(sizes)
      PROVE  start \div Stride(sizes, i - 1) = (start \div Stride(sizes, i)) \div sizes[i]
  <2> DEFINE st == Stride(sizes, i)
             sz == sizes[i]
  <2>1. i \in 0 .. Len(sizes) BY <1>1
  <2>2. st \in Nat \ {0} /\ sz \in Nat \ {0} /\ Stride(sizes, i - 1) = sz * st BY <1>1, <1>2, <2>1
  <2> HIDE DEF st, sz
  <2>3. (start \div st) \div sz = start \div (st * sz) BY ONLY <2>2, start \in Nat, DivDiv
  <2>4. st * sz = sz * st BY ONLY <2>2
  <2>5. start \div Stride(sizes, i - 1) = (start \div st) \div sz BY ONLY <2>2, <2>3, <2>4
  <2>6. QED BY <2>5 DEF st, sz
<1> HIDE DEF Stride
<1> QED
  BY <1>2, <1>3, <1>4, <1>5, <1>6, <1>7

\* Digits that are put together again.
LEMMA LinearDigits ==
  ASSUME NEW sizes, Positive(sizes), NEW n \in Nat, n < Product(sizes)
  PROVE  Linear(sizes, Digits(n, sizes)) = n
<1> DEFINE rank == Len(sizes)
           digits == Digits(n, sizes)
           left == [i \in 0 .. rank |-> n \div Stride(sizes, i)]
<1>1. rank \in Nat /\ Len(sizes) = rank /\ \A i \in 1 .. rank : sizes[i] \in Nat /\ sizes[i] \in Nat \ {0}
  BY DEF Positive
<1>2. \A i \in 1 .. rank : digits[i] = left[i] % sizes[i] /\ digits[i] \in Nat
  <2> SUFFICES ASSUME NEW i \in 1 .. rank PROVE digits[i] = left[i] % sizes[i] /\ digits[i] \in Nat OBVIOUS
  <2>1. /\ digits[i] = (n \div Stride(sizes, i)) % sizes[i]
        /\ digits[i] \in 0 .. sizes[i] - 1
    BY DigitIs
  <2>2. left[i] = n \div Stride(sizes, i) BY <1>1
  <2> HIDE DEF left, digits
  <2>3. QED BY <1>1, <2>1, <2>2
<1>3. /\ left[rank] = n /\ left[0] = 0 /\ \A i \in 0 .. rank : left[i] \in Nat
      /\ \A i \in 1 .. rank : left[i - 1] = left[i] \div sizes[i]
  <2>1. rank \in 0 .. rank /\ 0 \in 0 .. rank /\ \A i \in 1 .. rank : i \in 0 .. rank /\ i - 1 \in 0 .. rank
    BY <1>1
  <2>2. QED BY <2>1, RestIs
<1> HIDE DEF rank, digits, left
<1>3a. \A i \in 1 .. rank : sizes[i] \in Nat
  BY <1>1
<1>3b. \A i \in 1 .. rank : digits[i] \in Nat
  BY <1>2
<1>3c. PICK h : Runs(h, rank, sizes, digits) /\ h[rank] = Linear(sizes, digits)
  BY ONLY <1>1, <1>3a, <1>3b, LinearRuns
<1>4. /\ h[0] = 0 /\ h[rank] = Linear(sizes, digits)
      /\ \A m \in 1 .. rank : h[m] = h[m - 1] * sizes[m] + digits[m]
  BY <1>3c DEF Runs
<1> DEFINE good == {i \in 0 .. rank : h[i] = left[i]}
<1>5. 0 .. rank \subseteq good
  <2>1. 0 \in good BY <1>1, <1>3, <1>4
  <2>2. ASSUME NEW i \in 1 .. rank, i - 1 \in good PROVE i \in good
    <3>1. i \in 0 .. rank /\ left[i] \in Nat /\ sizes[i] \in Nat \ {0} BY <1>1, <1>3
    <3>2. h[i] = (left[i] \div sizes[i]) * sizes[i] + (left[i] % sizes[i]) BY <1>2, <1>3, <1>4, <2>2
    <3>3. h[i] = left[i] BY ONLY <3>1, <3>2, Dividing
    <3>4. QED BY <3>1, <3>3
  <2> HIDE DEF good
  <2>3. QED BY <1>1, <2>1, <2>2, Climb
<1>6. rank \in good
  BY <1>1, <1>5
<1> QED
  BY <1>3, <1>4, <1>6 DEF digits

\* The place of an element, and back.
LEMMA LinearFits ==
  ASSUME NEW dims, Positive(dims), NEW c, \A i \in 1 .. Len(dims) : c[i] \in 0 .. dims[i] - 1
  PROVE  /\ Linear(dims, c) \in 0 .. Product(dims) - 1
         /\ \A i \in 1 .. Len(dims) : (Linear(dims, c) \div Stride(dims, i)) % dims[i] = c[i]
<1> DEFINE rank == Len(dims)
           place == Linear(dims, c)
<1>1. rank \in Nat /\ Len(dims) = rank /\ \A i \in 1 .. rank : dims[i] \in Nat /\ dims[i] \in Nat \ {0}
  BY DEF Positive
<1>2. \A i \in 1 .. rank : c[i] \in Nat /\ c[i] \in 0 .. dims[i] - 1
  BY <1>1
<1> HIDE DEF rank, place
<1>2a. \A i \in 1 .. rank : dims[i] \in Nat
  BY <1>1
<1>2b. \A i \in 1 .. rank : c[i] \in Nat
  BY <1>2
<1>2c. PICK h : Runs(h, rank, dims, c) /\ h[rank] = place
  BY ONLY <1>1, <1>2a, <1>2b, LinearRuns DEF place
<1>3. /\ h \in [0 .. rank -> Nat] /\ h[0] = 0 /\ h[rank] = place
      /\ \A m \in 1 .. rank : h[m] = h[m - 1] * dims[m] + c[m]
  BY <1>2c DEF Runs
<1>4. place \in Nat
  BY <1>1, <1>3
<1>5. ASSUME NEW m \in 1 .. rank PROVE h[m] \div dims[m] = h[m - 1] /\ h[m] % dims[m] = c[m]
  <2>1. /\ h[m] \in Nat /\ h[m - 1] \in Int /\ dims[m] \in Nat \ {0} /\ c[m] \in 0 .. dims[m] - 1
        /\ h[m] = h[m - 1] * dims[m] + c[m]
    BY <1>1, <1>2, <1>3
  <2>2. QED BY ONLY <2>1, Quotient
<1> DEFINE left == [i \in 0 .. rank |-> place \div Stride(dims, i)]
<1>6. /\ left[rank] = place /\ (left[0] = 0 => place < Product(dims))
      /\ \A i \in 1 .. rank : left[i - 1] = left[i] \div dims[i]
      /\ \A i \in 0 .. rank : left[i] = place \div Stride(dims, i)
  <2>1. rank \in 0 .. rank /\ 0 \in 0 .. rank /\ \A i \in 1 .. rank : i \in 0 .. rank /\ i - 1 \in 0 .. rank
    BY <1>1
  <2>2. QED BY <1>4, <2>1, RestIs DEF rank
<1> HIDE DEF left
<1> DEFINE good == {k \in 0 .. rank : left[rank - k] = h[rank - k]}
<1>7. 0 .. rank \subseteq good
  <2>1. 0 \in good BY <1>1, <1>3, <1>6
  <2>2. ASSUME NEW k \in 1 .. rank, k - 1 \in good PROVE k \in good
    <3> DEFINE i == rank - (k - 1)
    <3>1. i \in 1 .. rank /\ i - 1 = rank - k /\ k \in 0 .. rank BY <1>1
    <3>2. left[i] = h[i] BY <2>2
    <3> HIDE DEF i
    <3>3. left[i - 1] = h[i - 1] BY <1>5, <1>6, <3>1, <3>2
    <3>4. QED BY <3>1, <3>3
  <2> HIDE DEF good
  <2>3. QED BY <1>1, <2>1, <2>2, Climb
<1>8. ASSUME NEW i \in 0 .. rank PROVE left[i] = h[i]
  <2>1. rank - i \in 0 .. rank /\ rank - (rank - i) = i BY <1>1
  <2>2. QED BY <1>7, <2>1
<1>9. place < Product(dims)
  <2>1. 0 \in 0 .. rank BY <1>1
  <2>2. QED BY <1>3, <1>6, <1>8, <2>1
<1>10. Product(dims) \in Nat
  BY ProductNat DEF Positive
<1>11. place \in 0 .. Product(dims) - 1
  BY ONLY <1>4, <1>9, <1>10
<1>12. ASSUME NEW i \in 1 .. rank PROVE (place \div Stride(dims, i)) % dims[i] = c[i]
  <2>1. i \in 0 .. rank BY <1>1
  <2>2. place \div Stride(dims, i) = h[i] BY <1>6, <1>8, <2>1
  <2>3. QED BY <1>5, <2>2
<1> QED
  BY <1>11, <1>12 DEF place, rank

\* A larger quotient is a larger number.
LEMMA QuotientOrder ==
  ASSUME NEW d \in Nat \ {0}, NEW x \in Nat, NEW y \in Nat, NEW c \in 0 .. d - 1, NEW e \in 0 .. d - 1, x < y
  PROVE  x * d + c < y * d + e
<1>1. PICK z \in Nat : y = x + 1 + z
  <2>1. y - x - 1 \in Nat /\ y = x + 1 + (y - x - 1) OBVIOUS
  <2>2. QED BY <2>1
<1>2. y * d = x * d + d + z * d BY <1>1
<1>3. z * d \in Nat /\ x * d \in Nat OBVIOUS
<1> DEFINE xd == x * d
           yd == y * d
           zd == z * d
<1>4. yd = xd + d + zd /\ zd \in Nat /\ xd \in Nat BY <1>2, <1>3
<1> HIDE DEF xd, yd, zd
<1>5. xd + c < yd + e BY <1>4
<1> QED BY <1>5 DEF xd, yd

\* Digits of the same kind: the order of two numbers is that of their quotients, then that
\* of their last digits.
LEMMA DigitOrder ==
  ASSUME NEW d \in Nat \ {0}, NEW x \in Nat, NEW y \in Nat, NEW c \in 0 .. d - 1, NEW e \in 0 .. d - 1
  PROVE  /\ x * d + c < y * d + e <=> x < y \/ (x = y /\ c < e)
         /\ x * d + c = y * d + e <=> x = y /\ c = e
<1> DEFINE a == x * d + c
           b == y * d + e
<1>1. x * d \in Nat /\ y * d \in Nat OBVIOUS
<1>2. a \in Nat /\ b \in Nat BY <1>1
<1>3. x < y => a < b BY QuotientOrder
<1>4. y < x => b < a BY QuotientOrder
<1>5. x = y => (a < b <=> c < e) /\ (a = b <=> c = e)
  <2> DEFINE p == x * d
  <2>1. p \in Nat BY <1>1
  <2>2. x = y => a = p + c /\ b = p + e OBVIOUS
  <2> HIDE DEF a, b, p
  <2>3. QED BY <2>1, <2>2
<1> HIDE DEF a, b
<1>6. (a < b <=> x < y \/ (x = y /\ c < e)) /\ (a = b <=> x = y /\ c = e)
  BY <1>2, <1>3, <1>4, <1>5
<1> QED BY <1>6 DEF a, b

\* Elements of a box lie in the array in the order in which they lie in the box.
LEMMA LinearOrder ==
  ASSUME NEW dims, Positive(dims), NEW lens, Positive(lens), Len(lens) = Len(dims),
         NEW start, \A i \in 1 .. Len(dims) : start[i] \in Nat /\ start[i] + lens[i] <= dims[i],
         NEW n \in Nat, NEW m \in Nat, n < m, m < Product(lens),
         NEW c, \A i \in 1 .. Len(dims) : c[i] = start[i] + Digits(n, lens)[i],
         NEW e, \A i \in 1 .. Len(dims) : e[i] = start[i] + Digits(m, lens)[i]
  PROVE  Linear(dims, c) < Linear(dims, e)
<1> DEFINE rank == Len(dims)
           u == Digits(n, lens)
           v == Digits(m, lens)
           p == [i \in 0 .. rank |-> n \div Stride(lens, i)]
           q == [i \in 0 .. rank |-> m \div Stride(lens, i)]
<1>1. rank \in Nat /\ Len(dims) = rank /\ Len(lens) = rank
      /\ \A i \in 1 .. rank : dims[i] \in Nat \ {0} /\ lens[i] \in Nat \ {0}
  BY DEF Positive
<1>2. \A i \in 1 .. rank : u[i] \in 0 .. lens[i] - 1 /\ v[i] \in 0 .. lens[i] - 1
  BY <1>1, DigitIs
<1>3. ASSUME NEW i \in 1 .. rank
      PROVE  p[i] = p[i - 1] * lens[i] + u[i] /\ q[i] = q[i - 1] * lens[i] + v[i]
  <2>1. i \in 0 .. rank /\ i - 1 \in 0 .. rank /\ i \in 1 .. Len(lens) BY <1>1
  <2>2. u[i] = p[i] % lens[i] /\ v[i] = q[i] % lens[i] BY <2>1, DigitIs
  <2>3. p[i - 1] = p[i] \div lens[i] /\ q[i - 1] = q[i] \div lens[i] BY <2>1, RestIs
  <2>4. p[i] \in Nat /\ q[i] \in Nat
    <3>1. \A k \in 0 .. Len(lens) : n \div Stride(lens, k) \in Nat /\ m \div Stride(lens, k) \in Nat BY RestIs
    <3>2. QED BY <1>1, <2>1, <3>1
  <2>5. lens[i] \in Nat \ {0} BY <1>1
  <2> HIDE DEF p, q, u, v
  <2>6. QED BY ONLY <2>2, <2>3, <2>4, <2>5, Dividing
<1>4. \A i \in 0 .. rank : p[i] \in Nat /\ q[i] \in Nat
  <2>1. \A k \in 0 .. Len(lens) : n \div Stride(lens, k) \in Nat /\ m \div Stride(lens, k) \in Nat BY RestIs
  <2>2. QED BY <1>1, <2>1
<1>5. p[rank] = n /\ q[rank] = m /\ p[0] = 0 /\ q[0] = 0
  <2>1. rank \in 0 .. rank /\ 0 \in 0 .. rank BY <1>1
  <2>2. Product(lens) \in Nat BY ProductNat DEF Positive
  <2>3. n < Product(lens) BY <2>2
  <2>4. n \div Stride(lens, rank) = n /\ m \div Stride(lens, rank) = m BY <1>1, RestIs
  <2>5. n \div Stride(lens, 0) = 0 /\ m \div Stride(lens, 0) = 0 BY <2>3, RestIs
  <2>6. QED BY <2>1, <2>4, <2>5
<1>6. \A i \in 1 .. rank : c[i] = start[i] + u[i] /\ e[i] = start[i] + v[i]
  OBVIOUS
<1>7. \A i \in 1 .. rank : start[i] \in Nat /\ start[i] + lens[i] <= dims[i]
  OBVIOUS
<1> HIDE DEF rank, p, q, u, v
<1>8. \A i \in 1 .. rank : c[i] \in 0 .. dims[i] - 1 /\ e[i] \in 0 .. dims[i] - 1
  <2> SUFFICES ASSUME NEW i \in 1 .. rank PROVE c[i] \in 0 .. dims[i] - 1 /\ e[i] \in 0 .. dims[i] - 1 OBVIOUS
  <2> DEFINE d == dims[i]
             l == lens[i]
             s == start[i]
             x == u[i]
             y == v[i]
  <2>1. d \in Nat \ {0} /\ l \in Nat \ {0} BY <1>1
  <2>2. x \in 0 .. l - 1 /\ y \in 0 .. l - 1 BY <1>2
  <2>3. c[i] = s + x /\ e[i] = s + y BY <1>6
  <2>4. s \in Nat /\ s + l <= d BY <1>7
  <2> HIDE DEF d, l, s, x, y
  <2>5. s + x \in 0 .. d - 1 /\ s + y \in 0 .. d - 1 BY ONLY <2>1, <2>2, <2>4
  <2>6. QED BY <2>3, <2>5 DEF d
<1>8a. \A i \in 1 .. rank : dims[i] \in Nat
  BY <1>1
<1>8b. (\A i \in 1 .. rank : c[i] \in Nat) /\ (\A i \in 1 .. rank : e[i] \in Nat)
  BY ONLY <1>8
<1>9. PICK h : Runs(h, rank, dims, c) /\ h[rank] = Linear(dims, c)
  BY ONLY <1>1, <1>8a, <1>8b, LinearRuns
<1>10. PICK g : Runs(g, rank, dims, e) /\ g[rank] = Linear(dims, e)
  BY ONLY <1>1, <1>8a, <1>8b, LinearRuns
<1> DEFINE good == {i \in 0 .. rank : (p[i] < q[i] => h[i] < g[i]) /\ (p[i] = q[i] => h[i] = g[i])
                                      /\ (p[i] > q[i] => h[i] > g[i])}
<1>11. 0 \in good
  BY <1>1, <1>5, <1>9, <1>10 DEF Runs
<1>12. ASSUME NEW i \in 1 .. rank, i - 1 \in good PROVE i \in good
  <2> DEFINE d == dims[i]
             l == lens[i]
             x == p[i - 1]
             y == q[i - 1]
             a == h[i - 1]
             b == g[i - 1]
  <2>1. /\ i - 1 \in 0 .. rank /\ i \in 0 .. rank /\ d \in Nat \ {0} /\ l \in Nat \ {0}
        /\ x \in Nat /\ y \in Nat /\ a \in Nat /\ b \in Nat
    BY <1>1, <1>4, <1>9, <1>10 DEF Runs
  <2>2. /\ p[i] = x * l + u[i] /\ q[i] = y * l + v[i]
        /\ h[i] = a * d + c[i] /\ g[i] = b * d + e[i]
    BY <1>3, <1>9, <1>10 DEF Runs
  <2>3. (x < y => a < b) /\ (x = y => a = b) /\ (x > y => a > b)
    BY <1>12
  <2> HIDE DEF good, x, y, a, b, d, l
  <2>4. u[i] \in 0 .. l - 1 /\ v[i] \in 0 .. l - 1 /\ c[i] \in 0 .. d - 1 /\ e[i] \in 0 .. d - 1
    BY <1>2, <1>8 DEF l, d
  <2>5. (c[i] < e[i] <=> u[i] < v[i]) /\ (c[i] = e[i] <=> u[i] = v[i])
    <3>1. start[i] \in Nat /\ c[i] = start[i] + u[i] /\ e[i] = start[i] + v[i] BY <1>6, <1>7
    <3>2. QED BY ONLY <2>1, <2>4, <3>1
  <2> DEFINE ui == u[i]
             vi == v[i]
             ci == c[i]
             ei == e[i]
  <2>6. ui \in 0 .. l - 1 /\ vi \in 0 .. l - 1 /\ ci \in 0 .. d - 1 /\ ei \in 0 .. d - 1
        /\ (ci < ei <=> ui < vi) /\ (ci = ei <=> ui = vi)
    BY <2>4, <2>5
  <2> HIDE DEF ui, vi, ci, ei
  <2>7. (p[i] < q[i] <=> x < y \/ (x = y /\ ui < vi)) /\ (p[i] = q[i] <=> x = y /\ ui = vi)
    <3>1. p[i] = x * l + ui /\ q[i] = y * l + vi BY <2>2 DEF ui, vi
    <3>2. QED BY ONLY <2>1, <2>6, <3>1, DigitOrder
  <2>8. (h[i] < g[i] <=> a < b \/ (a = b /\ ci < ei)) /\ (h[i] = g[i] <=> a = b /\ ci = ei)
    <3>1. h[i] = a * d + ci /\ g[i] = b * d + ei BY <2>2 DEF ci, ei
    <3>2. QED BY ONLY <2>1, <2>6, <3>1, DigitOrder
  <2>9. p[i] \in Nat /\ q[i] \in Nat /\ h[i] \in Nat /\ g[i] \in Nat
    BY <1>4, <1>9, <1>10, <2>1 DEF Runs
  <2>10. (p[i] < q[i] => h[i] < g[i]) /\ (p[i] = q[i] => h[i] = g[i]) /\ (p[i] > q[i] => h[i] > g[i])
    BY ONLY <2>1, <2>3, <2>6, <2>7, <2>8, <2>9
  <2>11. QED BY <2>1, <2>10 DEF good
<1>13. rank \in good
  <2>1. 0 .. rank \subseteq good
    <3> HIDE DEF good
    <3>1. QED BY ONLY <1>1, <1>11, <1>12, Climb
  <2>2. QED BY <1>1, <2>1
<1> QED
  BY <1>5, <1>9, <1>10, <1>13

\* The last coordinate counts single elements.
LEMMA LinearLast ==
  ASSUME NEW dims, Positive(dims), NEW n \in Nat \ {0}, Len(dims) = n,
         NEW c, NEW e, \A i \in 1 .. n : c[i] \in Nat /\ e[i] \in Nat,
         \A i \in 1 .. n : i # n => c[i] = e[i]
  PROVE  /\ Linear(dims, c) \in Nat /\ Linear(dims, e) \in Nat
         /\ Linear(dims, c) + e[n] = Linear(dims, e) + c[n]
<1>1. \A i \in 1 .. n : dims[i] \in Nat
  BY DEF Positive
<1>2. (\A i \in 1 .. n : c[i] \in Nat) /\ (\A i \in 1 .. n : e[i] \in Nat)
  OBVIOUS
<1>3. PICK h : Runs(h, n, dims, c) /\ h[n] = Linear(dims, c)
  BY ONLY <1>1, <1>2, n \in Nat \ {0}, Len(dims) = n, LinearRuns
<1>4. PICK g : Runs(g, n, dims, e) /\ g[n] = Linear(dims, e)
  BY ONLY <1>1, <1>2, n \in Nat \ {0}, Len(dims) = n, LinearRuns
<1> DEFINE m == n - 1
           good == {i \in 0 .. m : h[i] = g[i]}
<1>5. 0 \in good
  BY <1>3, <1>4 DEF Runs
<1>6. ASSUME NEW i \in 1 .. m, i - 1 \in good PROVE i \in good
  <2>1. h[i] = h[i - 1] * dims[i] + c[i] /\ g[i] = g[i - 1] * dims[i] + e[i] BY <1>3, <1>4 DEF Runs
  <2>2. h[i - 1] = g[i - 1] /\ c[i] = e[i] /\ i \in 0 .. m BY <1>6
  <2>3. QED BY <2>1, <2>2
<1>7. m \in Nat /\ m \in 0 .. m
  OBVIOUS
<1>8. h[m] = g[m]
  <2>1. 0 .. m \subseteq good
    <3> HIDE DEF good
    <3>1. QED BY ONLY <1>5, <1>6, <1>7, Climb
  <2>2. QED BY <1>7, <2>1
<1>9. h[n] = h[m] * dims[n] + c[n] /\ g[n] = g[m] * dims[n] + e[n] /\ h[m] \in Nat /\ h[n] \in Nat /\ g[n] \in Nat
  BY <1>3, <1>4 DEF Runs
<1> DEFINE x == h[m] * dims[n]
<1>10. x \in Nat /\ h[n] = x + c[n] /\ g[n] = x + e[n] /\ c[n] \in Nat /\ e[n] \in Nat
  <2>1. dims[n] \in Nat BY <1>1
  <2>2. x \in Nat BY <1>9, <2>1
  <2>3. QED BY <1>2, <1>8, <1>9, <2>2
<1> HIDE DEF x
<1> QED
  BY <1>3, <1>4, <1>9, <1>10

-----------------------------------------------------------------------------
(* The view of a region.                                                     *)

\* The bytes of so many elements.
LEMMA Elements ==
  ASSUME NEW p \in Nat, NEW w \in Nat \ {0}, NEW d \in Nat
  PROVE  d \in 0 .. p * w - 1 <=> d \div w \in 0 .. p - 1
<1> DEFINE q == d \div w
           r == d % w
<1>1. q \in Nat /\ r \in 0 .. w - 1 /\ d = q * w + r
  BY Dividing
<1> HIDE DEF q, r
<1>2. p * w \in Nat /\ q * w \in Nat
  BY <1>1
<1>3. ASSUME q < p PROVE d < p * w
  <2>1. 0 \in 0 .. w - 1 OBVIOUS
  <2>2. q * w + r < p * w + 0 BY ONLY <1>1, <1>3, <2>1, p \in Nat, w \in Nat \ {0}, QuotientOrder
  <2>3. QED BY <1>1, <1>2, <2>2
<1>4. ASSUME p <= q PROVE p * w <= d
  <2>1. 0 \in 0 .. w - 1 OBVIOUS
  <2>2. p < q => p * w + 0 < q * w + r BY ONLY <1>1, <2>1, p \in Nat, w \in Nat \ {0}, QuotientOrder
  <2>3. p = q => p * w = q * w OBVIOUS
  <2> DEFINE x == p * w
             y == q * w
  <2>4. x \in Nat /\ y \in Nat /\ d = y + r /\ r \in Nat /\ (p < q => x + 0 < y + r) /\ (p = q => x = y)
    BY <1>1, <1>2, <2>2, <2>3
  <2> HIDE DEF x, y
  <2>5. x <= d BY <1>1, <1>4, <2>4
  <2>6. QED BY <2>5 DEF x
<1> DEFINE x == p * w
<1>5. x \in Nat /\ (q < p => d < x) /\ (p <= q => x <= d)
  BY <1>2, <1>3, <1>4
<1> HIDE DEF x
<1>6. d \in 0 .. x - 1 <=> q \in 0 .. p - 1
  BY <1>1, <1>5
<1> QED
  BY <1>6 DEF q, x

\* A region that lies in a tensor, and is not empty.
Fits(t, r) ==
  /\ Positive(t.dims) /\ t.width \in Nat \ {0}
  /\ DOMAIN r = DOMAIN t.dims
  /\ \A i \in DOMAIN t.dims :
       /\ r[i].start \in Nat /\ r[i].length \in Nat \ {0}
       /\ r[i].start + r[i].length <= t.dims[i]

\* A region that fits, dimension by dimension.
LEMMA FitsIs ==
  ASSUME NEW t, NEW r, Fits(t, r)
  PROVE  /\ Len(t.dims) \in Nat /\ DOMAIN t.dims = 1 .. Len(t.dims)
         /\ Positive(Lengths(r)) /\ Len(Lengths(r)) = Len(t.dims)
         /\ \A i \in 1 .. Len(t.dims) :
              /\ Lengths(r)[i] = r[i].length /\ Lengths(r)[i] \in Nat \ {0}
              /\ t.dims[i] \in Nat \ {0}
              /\ r[i].start \in Nat /\ r[i].start + Lengths(r)[i] <= t.dims[i]
<1> DEFINE n == Len(t.dims)
<1>1. n \in Nat /\ DOMAIN t.dims = 1 .. n /\ \A i \in 1 .. n : t.dims[i] \in Nat \ {0}
  BY DEF Fits, Positive
<1> HIDE DEF n
<1>2. Lengths(r) = [i \in 1 .. n |-> r[i].length] /\ \A i \in 1 .. n : r[i].length \in Nat \ {0}
  BY <1>1 DEF Fits, Lengths
<1>3. Lengths(r) \in Seq(Nat) /\ Len(Lengths(r)) = n /\ DOMAIN Lengths(r) = 1 .. n
  BY <1>1, <1>2
<1>4. \A i \in 1 .. n : Lengths(r)[i] = r[i].length
  BY <1>2
<1>5. Positive(Lengths(r))
  BY <1>2, <1>3, <1>4 DEF Positive
<1> QED
  BY <1>1, <1>2, <1>3, <1>4, <1>5 DEF n, Fits

\* Where the elements of a region are, by their number in it.
Corner(t, r, n) == [i \in DOMAIN t.dims |-> r[i].start + Digits(n, Lengths(r))[i]]

\* An element of a region is in the region along every axis.
LEMMA CornerFits ==
  ASSUME NEW t, NEW r, Fits(t, r), NEW n \in Nat
  PROVE  \A i \in 1 .. Len(t.dims) :
           /\ Corner(t, r, n)[i] = r[i].start + Digits(n, Lengths(r))[i]
           /\ Digits(n, Lengths(r))[i] \in 0 .. r[i].length - 1
           /\ Corner(t, r, n)[i] \in 0 .. t.dims[i] - 1
<1> SUFFICES ASSUME NEW i \in 1 .. Len(t.dims)
             PROVE  /\ Corner(t, r, n)[i] = r[i].start + Digits(n, Lengths(r))[i]
                    /\ Digits(n, Lengths(r))[i] \in 0 .. r[i].length - 1
                    /\ Corner(t, r, n)[i] \in 0 .. t.dims[i] - 1
  OBVIOUS
<1> DEFINE lens == Lengths(r)
           d == Digits(n, lens)[i]
           s == r[i].start
           l == r[i].length
           m == t.dims[i]
<1>1. /\ i \in DOMAIN t.dims /\ Positive(lens) /\ i \in 1 .. Len(lens) /\ lens[i] = l
      /\ l \in Nat \ {0} /\ m \in Nat \ {0} /\ s \in Nat /\ s + l <= m
  BY FitsIs
<1>2. d \in 0 .. lens[i] - 1
  BY ONLY <1>1, n \in Nat, DigitIs
<1>3. Corner(t, r, n)[i] = s + d
  BY <1>1 DEF Corner
<1> HIDE DEF lens, d, s, l, m
<1>4. d \in 0 .. l - 1 /\ s + d \in 0 .. m - 1
  BY ONLY <1>1, <1>2
<1> QED
  BY <1>3, <1>4 DEF d, s, l, m, lens

\* A byte of a region is a byte of one of its elements.
LEMMA ViewedIs ==
  ASSUME NEW t, NEW r, NEW d
  PROVE  Viewed(t, r, d) = Linear(t.dims, Corner(t, r, d \div t.width)) * t.width + (d % t.width)
  BY DEF Viewed, Corner

\* A byte of a region is in the tensor, and lies in the region along every axis.
LEMMA ViewedFits ==
  ASSUME NEW t, NEW r, Fits(t, r), NEW d \in Nat
  PROVE  /\ Viewed(t, r, d) \in 0 .. Bytes(t) - 1
         /\ Viewed(t, r, d) \div t.width = Linear(t.dims, Corner(t, r, d \div t.width))
         /\ \A i \in DOMAIN t.dims :
              /\ Along(t, Viewed(t, r, d) \div t.width, i) = Corner(t, r, d \div t.width)[i]
              /\ Along(t, Viewed(t, r, d) \div t.width, i)
                   \in r[i].start .. r[i].start + r[i].length - 1
<1> DEFINE n == d \div t.width
           c == Corner(t, r, n)
           place == Linear(t.dims, c)
           w == t.width
           o == d % w
           p == Product(t.dims)
<1>1. w \in Nat \ {0} /\ Positive(t.dims) /\ p \in Nat /\ DOMAIN t.dims = 1 .. Len(t.dims)
  BY FitsIs, ProductNat DEF Fits, Positive
<1>2. n \in Nat /\ o \in 0 .. w - 1
  BY <1>1, Dividing
<1> HIDE DEF n, o
<1>3. \A i \in 1 .. Len(t.dims) :
        /\ c[i] = r[i].start + Digits(n, Lengths(r))[i]
        /\ Digits(n, Lengths(r))[i] \in 0 .. r[i].length - 1
        /\ c[i] \in 0 .. t.dims[i] - 1
  BY <1>2, CornerFits
<1> HIDE DEF c
<1>4. place \in 0 .. p - 1 /\ \A i \in 1 .. Len(t.dims) : (place \div Stride(t.dims, i)) % t.dims[i] = c[i]
  BY <1>1, <1>3, LinearFits
<1>5. Viewed(t, r, d) = place * w + o
  BY ViewedIs DEF n, c, o
<1> DEFINE b == Viewed(t, r, d)
<1> HIDE DEF place, w, p, b
<1>6. b \in Nat /\ b \div w = place
  <2>1. place \in Nat /\ place * w \in Nat BY <1>1, <1>4
  <2>2. b = place * w + o BY <1>5 DEF b
  <2>3. b \in Nat BY <1>2, <2>1, <2>2
  <2>4. QED BY ONLY <1>1, <1>2, <2>1, <2>2, <2>3, Quotient
<1>7. b \in 0 .. p * w - 1
  BY ONLY <1>1, <1>4, <1>6, Elements
<1>8. ASSUME NEW i \in DOMAIN t.dims
      PROVE  Along(t, b \div w, i) = c[i] /\ Along(t, b \div w, i) \in r[i].start .. r[i].start + r[i].length - 1
  <2>1. i \in 1 .. Len(t.dims) BY <1>1
  <2>2. Along(t, b \div w, i) = c[i] BY <1>4, <1>6, <2>1 DEF Along
  <2>3. r[i].start \in Nat /\ r[i].length \in Nat \ {0} BY DEF Fits
  <2> DEFINE s == r[i].start
             x == Digits(n, Lengths(r))[i]
             l == r[i].length
  <2>4. c[i] = s + x /\ x \in 0 .. l - 1 /\ s \in Nat /\ l \in Nat \ {0} BY <1>3, <2>1, <2>3
  <2> HIDE DEF s, x, l
  <2>5. c[i] \in s .. s + l - 1 BY ONLY <2>4
  <2>6. QED BY <2>2, <2>5 DEF s, l
<1> QED
  BY <1>6, <1>7, <1>8 DEF b, w, p, Bytes, place, c, n

\* Every byte that lies in a region along every axis is a byte of it.
LEMMA ViewedOnto ==
  ASSUME NEW t, NEW r, Fits(t, r), NEW b \in 0 .. Bytes(t) - 1,
         \A i \in DOMAIN t.dims :
           Along(t, b \div t.width, i) \in r[i].start .. r[i].start + r[i].length - 1
  PROVE  \E d \in 0 .. ShardBytes(t, r) - 1 : Viewed(t, r, d) = b
<1> DEFINE w == t.width
           e == b \div w
           o == b % w
           lens == Lengths(r)
           rank == Len(t.dims)
           a == [i \in 1 .. rank |-> Along(t, e, i) - r[i].start]
           n == Linear(lens, a)
           d == n * w + o
<1>1. /\ w \in Nat \ {0} /\ Positive(t.dims) /\ DOMAIN t.dims = 1 .. rank /\ rank \in Nat
      /\ Product(t.dims) \in Nat
  BY FitsIs, ProductNat DEF Fits, Positive
<1>2. Positive(lens) /\ Len(lens) = rank /\ \A i \in 1 .. rank : lens[i] = r[i].length /\ lens[i] \in Nat \ {0} /\ r[i].start \in Nat
  BY FitsIs
<1>3. b \in Nat /\ b \in 0 .. Product(t.dims) * w - 1
  <2>1. Product(t.dims) * w \in Nat BY <1>1
  <2>2. Bytes(t) = Product(t.dims) * w BY DEF Bytes
  <2>3. QED BY <2>1, <2>2
<1>4. e \in 0 .. Product(t.dims) - 1 /\ e \in Nat /\ o \in 0 .. w - 1 /\ b = e * w + o
  BY ONLY <1>1, <1>3, Elements, Dividing
<1> HIDE DEF e, o, lens
<1>5. \A i \in 1 .. rank : Along(t, e, i) \in r[i].start .. r[i].start + lens[i] - 1
  BY <1>1, <1>2 DEF e
<1>6. \A i \in 1 .. rank : a[i] \in 0 .. lens[i] - 1 /\ r[i].start + a[i] = Along(t, e, i)
  <2> SUFFICES ASSUME NEW i \in 1 .. rank PROVE a[i] \in 0 .. lens[i] - 1 /\ r[i].start + a[i] = Along(t, e, i) OBVIOUS
  <2> DEFINE x == Along(t, e, i)
             s == r[i].start
             l == lens[i]
  <2>1. x \in s .. s + l - 1 /\ s \in Nat /\ l \in Nat \ {0} BY <1>2, <1>5
  <2>2. a[i] = x - s OBVIOUS
  <2> HIDE DEF x, s, l, a
  <2>3. a[i] \in 0 .. l - 1 /\ s + a[i] = x BY ONLY <2>1, <2>2
  <2>4. QED BY <2>3 DEF x, s, l
<1> HIDE DEF a
<1>7. n \in 0 .. Product(lens) - 1 /\ \A i \in 1 .. rank : (n \div Stride(lens, i)) % lens[i] = a[i]
  BY <1>2, <1>6, LinearFits
<1>8. n \in Nat /\ Product(lens) \in Nat
  <2>1. Product(lens) \in Nat BY <1>2, ProductNat DEF Positive
  <2>2. QED BY <1>7, <2>1
<1> HIDE DEF n, w
<1>9. \A i \in 1 .. rank : Digits(n, lens)[i] = a[i]
  BY <1>2, <1>7, <1>8, DigitIs
<1>10. d \in Nat /\ d \div w = n /\ d % w = o
  <2>1. n * w \in Nat BY <1>1, <1>8
  <2>2. d \in Nat BY <1>1, <1>4, <2>1
  <2> HIDE DEF d
  <2>3. d = n * w + o BY DEF d
  <2>4. w \in Nat \ {0} /\ o \in 0 .. w - 1 /\ n \in Int BY <1>1, <1>4, <1>8
  <2>5. QED BY ONLY <2>2, <2>3, <2>4, Quotient
<1> HIDE DEF d
<1>11. d \in 0 .. Product(lens) * w - 1
  BY ONLY <1>1, <1>7, <1>8, <1>10, Elements
<1> DEFINE c == Corner(t, r, n)
<1>12. \A i \in 1 .. rank : c[i] = Along(t, e, i)
  BY <1>1, <1>6, <1>9 DEF Corner, lens
<1>13. Linear(t.dims, c) = e
  <2>1. \A i \in 1 .. rank : Digits(e, t.dims)[i] = Along(t, e, i)
    BY <1>1, <1>4, DigitIs DEF Along
  <2>2. c = Digits(e, t.dims)
    <3>1. Digits(e, t.dims) \in Seq(Nat) /\ Len(Digits(e, t.dims)) = rank BY <1>1, <1>4, DigitsRun
    <3>2. DOMAIN c = 1 .. rank BY <1>1 DEF Corner
    <3>3. c = [i \in 1 .. rank |-> c[i]] BY <1>1 DEF Corner
    <3>4. Digits(e, t.dims) = [i \in 1 .. rank |-> Digits(e, t.dims)[i]] BY <3>1
    <3> HIDE DEF c
    <3>5. QED BY <1>12, <2>1, <3>3, <3>4
  <2>3. e < Product(t.dims) BY <1>1, <1>4
  <2> HIDE DEF c
  <2>4. QED BY ONLY <1>1, <1>4, <2>2, <2>3, LinearDigits
<1>14. Viewed(t, r, d) = b
  <2>1. Viewed(t, r, d) = Linear(t.dims, Corner(t, r, d \div w)) * w + (d % w) BY ViewedIs DEF w
  <2>2. Viewed(t, r, d) = e * w + o BY <1>10, <1>13, <2>1
  <2>3. QED BY <1>4, <2>2
<1> QED
  BY <1>11, <1>14 DEF ShardBytes, lens, w

\* The bytes of a region keep the order of the file.
LEMMA ViewedOrder ==
  ASSUME NEW t, NEW r, Fits(t, r), NEW d \in 0 .. ShardBytes(t, r) - 1, NEW e \in 0 .. ShardBytes(t, r) - 1, d < e
  PROVE  Viewed(t, r, d) < Viewed(t, r, e)
<1> DEFINE w == t.width
           n == d \div w
           m == e \div w
           lens == Lengths(r)
           start == [i \in 1 .. Len(t.dims) |-> r[i].start]
           x == Linear(t.dims, Corner(t, r, n))
           y == Linear(t.dims, Corner(t, r, m))
           u == d % w
           v == e % w
<1>1. /\ w \in Nat \ {0} /\ Positive(t.dims) /\ Positive(lens) /\ Len(lens) = Len(t.dims)
      /\ Product(lens) \in Nat /\ Product(t.dims) \in Nat
  BY FitsIs, ProductNat DEF Fits, Positive
<1>2. d \in Nat /\ e \in Nat /\ d \in 0 .. Product(lens) * w - 1 /\ e \in 0 .. Product(lens) * w - 1
  <2>1. Product(lens) * w \in Nat BY <1>1
  <2>2. ShardBytes(t, r) = Product(lens) * w BY DEF ShardBytes
  <2>3. QED BY <2>1, <2>2
<1> HIDE DEF w
<1>3. /\ n \in Nat /\ u \in 0 .. w - 1 /\ d = n * w + u /\ n \in 0 .. Product(lens) - 1
      /\ m \in Nat /\ v \in 0 .. w - 1 /\ e = m * w + v /\ m \in 0 .. Product(lens) - 1
  BY ONLY <1>1, <1>2, Dividing, Elements
<1> HIDE DEF n, m, u, v
<1>4. n < m \/ (n = m /\ u < v)
  BY ONLY <1>1, <1>3, d < e, DigitOrder
<1>5. x \in Nat /\ y \in Nat
  <2>1. \A i \in 1 .. Len(t.dims) : Corner(t, r, n)[i] \in 0 .. t.dims[i] - 1 BY <1>3, CornerFits
  <2>2. \A i \in 1 .. Len(t.dims) : Corner(t, r, m)[i] \in 0 .. t.dims[i] - 1 BY <1>3, CornerFits
  <2>3. x \in 0 .. Product(t.dims) - 1 BY ONLY <1>1, <2>1, LinearFits
  <2>4. y \in 0 .. Product(t.dims) - 1 BY ONLY <1>1, <2>2, LinearFits
  <2> HIDE DEF x, y
  <2>5. QED BY <1>1, <2>3, <2>4
<1>6. n < m => x < y
  <2> SUFFICES ASSUME n < m PROVE x < y OBVIOUS
  <2>1. \A i \in 1 .. Len(t.dims) : start[i] \in Nat /\ start[i] + lens[i] <= t.dims[i] BY FitsIs
  <2> DEFINE c == Corner(t, r, n)
             f == Corner(t, r, m)
  <2>2. \A i \in 1 .. Len(t.dims) : c[i] = start[i] + Digits(n, lens)[i] BY <1>3, CornerFits
  <2>3. \A i \in 1 .. Len(t.dims) : f[i] = start[i] + Digits(m, lens)[i] BY <1>3, CornerFits
  <2>4. m < Product(lens) BY <1>1, <1>3
  <2> HIDE DEF start, lens, c, f
  <2> DEFINE dims == t.dims
  <2>5. Positive(dims) /\ Positive(lens) /\ Len(lens) = Len(dims) /\ n \in Nat /\ m \in Nat
    BY <1>1, <1>3
  <2>6. \A i \in 1 .. Len(dims) : start[i] \in Nat /\ start[i] + lens[i] <= dims[i] BY <2>1
  <2>7. \A i \in 1 .. Len(dims) : c[i] = start[i] + Digits(n, lens)[i] BY <2>2
  <2>8. \A i \in 1 .. Len(dims) : f[i] = start[i] + Digits(m, lens)[i] BY <2>3
  <2> HIDE DEF dims
  <2>9. Linear(dims, c) < Linear(dims, f)
    BY ONLY <2>4, <2>5, <2>6, <2>7, <2>8, n < m, LinearOrder
  <2>10. QED BY <2>9 DEF c, f, dims
<1>7. n = m => x = y
  OBVIOUS
<1>8. Viewed(t, r, d) = x * w + u /\ Viewed(t, r, e) = y * w + v
  BY ViewedIs DEF n, m, u, v, w
<1> HIDE DEF x, y
<1>9. x * w + u < y * w + v
  BY ONLY <1>1, <1>3, <1>4, <1>5, <1>6, <1>7, DigitOrder
<1> QED
  BY <1>8, <1>9

-----------------------------------------------------------------------------
(* The regions of a mesh.                                                    *)

\* A dimension that is divided, and the axis of the mesh that divides it.
Divides(j, i) == j.sharding.kind = "mesh" /\ j.tensor.parts[i] # Whole
AxisFor(j, i) == AxisOf(j.sharding.axes, j.tensor.parts[i])
BlockFor(j, i) == j.tensor.dims[i] \div Sizes(j.sharding.axes)[AxisFor(j, i)]
Blocks(j, i) == Sizes(j.sharding.axes)[AxisFor(j, i)] * BlockFor(j, i)
PlaceOf(j, s, k) == (s \div Stride(Sizes(j.sharding.axes), k)) % Sizes(j.sharding.axes)[k]

\* The sizes of the axes of a mesh.
LEMMA SizesPositive ==
  ASSUME NEW j \in Jobs
  PROVE  /\ Positive(Sizes(j.sharding.axes))
         /\ DOMAIN j.sharding.axes = 1 .. Len(Sizes(j.sharding.axes))
         /\ Len(Sizes(j.sharding.axes)) \in Nat
         /\ \A k \in DOMAIN j.sharding.axes :
              /\ Sizes(j.sharding.axes)[k] = j.sharding.axes[k].size
              /\ Sizes(j.sharding.axes)[k] \in Nat \ {0}
<1> DEFINE axes == j.sharding.axes
           sizes == Sizes(axes)
<1>1. sizes \in Seq(Nat \ {0})
  BY JobsAssumption
<1>2. DOMAIN sizes = DOMAIN axes /\ \A k \in DOMAIN axes : sizes[k] = axes[k].size
  BY DEF Sizes
<1> HIDE DEF sizes, axes
<1>3. sizes \in Seq(Nat) /\ Len(sizes) \in Nat /\ DOMAIN sizes = 1 .. Len(sizes)
      /\ \A k \in DOMAIN sizes : sizes[k] \in Nat \ {0}
  BY <1>1
<1> QED
  BY <1>2, <1>3 DEF axes, sizes, Positive

\* A dimension that is divided is so many blocks.
LEMMA BlocksAre ==
  ASSUME NEW j \in Jobs, ValidShape(j.sharding, j.tensor), NEW i \in DOMAIN j.tensor.dims, Divides(j, i),
         j.tensor.dims[i] \in Nat \ {0}
  PROVE  j.tensor.dims[i] = Blocks(j, i)
<1> DEFINE t == j.tensor
           axes == j.sharding.axes
           n == t.dims[i]
           k == AxisFor(j, i)
           z == Sizes(axes)[k]
           q == n \div z
<1>1. (\E m \in DOMAIN axes : axes[m].tag = t.parts[i]) /\ n % axes[k].size = 0
  BY DEF ValidShape, ShardedAxes, Divides, AxisFor
<1>2. k \in DOMAIN axes BY <1>1 DEF AxisOf, AxisFor
<1>3. z \in Nat \ {0} /\ n % z = 0 /\ n \in Nat \ {0} BY <1>1, <1>2, SizesPositive
<1>4. Blocks(j, i) = z * q BY DEF Blocks, BlockFor
<1> HIDE DEF n, z
<1>5. n = q * z + (n % z) /\ q \in Nat BY ONLY <1>3, Dividing
<1> HIDE DEF q
<1>6. q * z \in Nat /\ q * z = z * q BY ONLY <1>3, <1>5
<1>7. n = z * q BY ONLY <1>3, <1>5, <1>6
<1> QED BY <1>4, <1>7 DEF n

\* The region of a shard along one dimension: all of it, or the block of its place.
LEMMA RegionIs ==
  ASSUME NEW j \in Jobs, ValidShape(j.sharding, j.tensor), Bytes(j.tensor) # 0, NEW s \in Nat,
         NEW i \in DOMAIN j.tensor.dims
  PROVE  /\ j.tensor.dims[i] \in Nat \ {0}
         /\ Divides(j, i) =>
              /\ AxisFor(j, i) \in 1 .. Len(Sizes(j.sharding.axes))
              /\ Sizes(j.sharding.axes)[AxisFor(j, i)] \in Nat \ {0}
              /\ BlockFor(j, i) \in Nat \ {0}
              /\ PlaceOf(j, s, AxisFor(j, i)) \in 0 .. Sizes(j.sharding.axes)[AxisFor(j, i)] - 1
              /\ Region(j.sharding, j.tensor, s)[i] =
                   [start |-> PlaceOf(j, s, AxisFor(j, i)) * BlockFor(j, i), length |-> BlockFor(j, i)]
         /\ ~Divides(j, i) =>
              Region(j.sharding, j.tensor, s)[i] = [start |-> 0, length |-> j.tensor.dims[i]]
<1> DEFINE t == j.tensor
           axes == j.sharding.axes
           sizes == Sizes(axes)
           k == AxisFor(j, i)
           n == t.dims[i]
           b == n \div sizes[k]
<1>1. n \in Nat \ {0}
  <2>1. t.dims \in Seq(Nat) /\ Product(t.dims) * t.width # 0 /\ t.width \in Nat BY JobsAssumption DEF Bytes
  <2>2. Product(t.dims) # 0 BY <2>1, ProductNat
  <2>3. t.dims[i] \in Nat BY <2>1
  <2>4. QED BY <2>1, <2>2, <2>3, ProductZero
<1>2. Positive(sizes) /\ DOMAIN axes = 1 .. Len(sizes)
      /\ \A m \in DOMAIN axes : sizes[m] = axes[m].size /\ sizes[m] \in Nat \ {0}
  BY SizesPositive
<1>3. Region(j.sharding, t, s)[i] =
        IF ~Divides(j, i) THEN [start |-> 0, length |-> n]
        ELSE [start |-> Digits(s, sizes)[k] * (n \div axes[k].size), length |-> n \div axes[k].size]
  BY DEF Region, Divides, AxisFor
<1>4. ASSUME Divides(j, i)
      PROVE  /\ k \in DOMAIN axes /\ sizes[k] \in Nat \ {0} /\ sizes[k] = axes[k].size
             /\ b \in Nat \ {0} /\ n = sizes[k] * b
             /\ Digits(s, sizes)[k] = PlaceOf(j, s, k) /\ PlaceOf(j, s, k) \in 0 .. sizes[k] - 1
  <2>1. (\E m \in DOMAIN axes : axes[m].tag = t.parts[i]) /\ n % axes[k].size = 0
    BY <1>4 DEF ValidShape, ShardedAxes, Divides, AxisFor
  <2>2. k \in DOMAIN axes BY <2>1 DEF AxisOf, AxisFor
  <2>3. sizes[k] \in Nat \ {0} /\ sizes[k] = axes[k].size /\ k \in 1 .. Len(sizes) BY <1>2, <2>2
  <2>4. Digits(s, sizes)[k] = PlaceOf(j, s, k) /\ Digits(s, sizes)[k] \in 0 .. sizes[k] - 1
    BY <1>2, <2>3, DigitIs DEF PlaceOf
  <2> DEFINE z == sizes[k]
  <2>5. z \in Nat \ {0} /\ n % z = 0 BY <2>1, <2>3
  <2> HIDE DEF n, z
  <2>6. n \div z \in Nat \ {0} BY ONLY <1>1, <2>5, WholeQuotient
  <2>7. n = (n \div z) * z + (n % z) BY ONLY <1>1, <2>5, Dividing
  <2>8. n = z * (n \div z)
    <3> DEFINE q == n \div z
    <3>1. q \in Nat /\ z \in Nat /\ n = q * z + 0 BY <2>5, <2>6, <2>7
    <3> HIDE DEF q
    <3>2. q * z \in Nat /\ q * z = z * q BY <3>1
    <3>3. n = z * q BY <3>1, <3>2
    <3>4. QED BY <3>3 DEF q
  <2>9. QED BY <2>2, <2>3, <2>4, <2>6, <2>8 DEF z
<1> HIDE DEF sizes, axes, n
<1>5. BlockFor(j, i) = b
  BY DEF BlockFor, n, sizes, axes
<1> HIDE DEF k, b
<1>6. Divides(j, i) => Region(j.sharding, t, s)[i] = [start |-> PlaceOf(j, s, k) * b, length |-> b]
  BY <1>3, <1>4 DEF b
<1> QED
  BY <1>1, <1>2, <1>3, <1>4, <1>5, <1>6 DEF k, n, sizes, axes

\* The regions of shards lie in the tensor.
LEMMA RegionFits ==
  ASSUME NEW j \in Jobs, ValidShape(j.sharding, j.tensor), Bytes(j.tensor) # 0, NEW s \in Nat
  PROVE  Fits(j.tensor, Region(j.sharding, j.tensor, s))
<1> DEFINE t == j.tensor
           r == Region(j.sharding, j.tensor, s)
<1>1. t.dims \in Seq(Nat) /\ t.width \in Nat \ {0} /\ DOMAIN r = DOMAIN t.dims
  BY JobsAssumption, RegionHasBytes
<1>2. ASSUME NEW i \in DOMAIN t.dims
      PROVE  /\ t.dims[i] # 0 /\ r[i].start \in Nat /\ r[i].length \in Nat \ {0}
             /\ r[i].start + r[i].length <= t.dims[i]
  <2>1. CASE ~Divides(j, i)
    <3>1. r[i] = [start |-> 0, length |-> t.dims[i]] /\ t.dims[i] \in Nat \ {0} BY <1>2, <2>1, RegionIs
    <3> HIDE DEF r, t
    <3>2. QED BY <3>1
  <2>2. CASE Divides(j, i)
    <3> DEFINE n == t.dims[i]
               z == Sizes(j.sharding.axes)[AxisFor(j, i)]
               b == BlockFor(j, i)
               p == PlaceOf(j, s, AxisFor(j, i))
    <3>1a. z \in Nat \ {0} /\ b \in Nat \ {0} /\ n \in Nat \ {0} BY <1>2, <2>2, RegionIs
    <3>1b. n = z * b
      <4>1. n = Blocks(j, i) BY <1>2, <2>2, <3>1a, BlocksAre
      <4>2. Blocks(j, i) = z * b BY ONLY Blocks(j, i) = Blocks(j, i) DEF Blocks, z, b
      <4>3. QED BY ONLY <4>1, <4>2
    <3>1c. p \in 0 .. z - 1 BY <1>2, <2>2, RegionIs
    <3>1d. r[i] = [start |-> p * b, length |-> b] BY <1>2, <2>2, RegionIs
    <3>1. /\ z \in Nat \ {0} /\ b \in Nat \ {0} /\ n = z * b /\ p \in 0 .. z - 1 /\ n \in Nat \ {0}
          /\ r[i] = [start |-> p * b, length |-> b]
      BY ONLY <3>1a, <3>1b, <3>1c, <3>1d
    <3> HIDE DEF n, z, b, p, r
    <3>2. p * b \in Nat /\ p * b + b <= n
      <4>1. p \in Nat /\ z - 1 - p \in Nat BY <3>1
      <4>2. (z - 1 - p) * b \in Nat /\ p * b \in Nat /\ z * b \in Nat
        <5>1. \A x, y \in Nat : x * y \in Nat OBVIOUS
        <5>2. z \in Nat /\ b \in Nat BY <3>1
        <5>3. QED BY ONLY <4>1, <5>1, <5>2
      <4>3. (z - 1 - p) * b = z * b - b - p * b
        <5>1. z \in Int /\ b \in Int /\ p \in Int BY <3>1
        <5>2. QED BY ONLY <5>1
      <4> DEFINE x == (z - 1 - p) * b
                 y == p * b
                 v == z * b
      <4>4. x \in Nat /\ y \in Nat /\ v \in Nat /\ x = v - b - y /\ n = v BY <3>1, <4>2, <4>3
      <4> HIDE DEF x, y, v
      <4>5. y \in Nat /\ y + b <= n BY <3>1, <4>4
      <4>6. QED BY <4>5 DEF y
    <3>3. r[i].start = p * b /\ r[i].length = b BY <3>1
    <3>4. QED BY <3>1, <3>2, <3>3 DEF n
  <2>3. QED BY <2>1, <2>2
<1> QED
  BY <1>1, <1>2 DEF Fits, Positive

\* What a shard is meant to hold are the bytes of its region.
LEMMA MeantIs ==
  ASSUME NEW j \in Jobs, ValidShape(j.sharding, j.tensor), Bytes(j.tensor) # 0, NEW s \in Nat
  PROVE  MeantFor(j.sharding, j.tensor, s) =
           {b \in 0 .. Bytes(j.tensor) - 1 : \A i \in DOMAIN j.tensor.dims :
              Along(j.tensor, b \div j.tensor.width, i)
                \in Region(j.sharding, j.tensor, s)[i].start ..
                    Region(j.sharding, j.tensor, s)[i].start + Region(j.sharding, j.tensor, s)[i].length - 1}
<1> DEFINE t == j.tensor
           r == Region(j.sharding, j.tensor, s)
<1>1. Fits(t, r) /\ t.width \in Nat \ {0} /\ t.dims \in Seq(Nat)
  BY RegionFits, JobsAssumption
<1>2. Bytes(t) \in Nat
  <2>1. Product(t.dims) \in Nat BY <1>1, ProductNat
  <2>2. QED BY <1>1, <2>1 DEF Bytes
<1>3. ASSUME NEW b \in 0 .. Bytes(t) - 1, NEW i \in DOMAIN t.dims
      PROVE  /\ ~Divides(j, i) => Along(t, b \div t.width, i) \in r[i].start .. r[i].start + r[i].length - 1
             /\ Divides(j, i) =>
                  (Along(t, b \div t.width, i) \div BlockFor(j, i) = PlaceOf(j, s, AxisFor(j, i))
                   <=> Along(t, b \div t.width, i) \in r[i].start .. r[i].start + r[i].length - 1)
  <2> DEFINE x == Along(t, b \div t.width, i)
             n == t.dims[i]
  <2>1. n \in Nat \ {0} BY RegionIs
  <2>2. x \in 0 .. n - 1 /\ x \in Nat
    <3> DEFINE e == b \div t.width
               st == Stride(t.dims, i)
    <3>1. b \in Nat BY <1>2
    <3>2. e \in Nat BY <1>1, <3>1, Dividing
    <3>3. st \in Nat \ {0}
      <4>1. Positive(t.dims) /\ i \in 0 .. Len(t.dims) BY <1>1 DEF Fits
      <4>2. QED BY <4>1, StrideIs
    <3>4. x = (e \div st) % n BY DEF Along
    <3> HIDE DEF e, st, n, x
    <3>5. e \div st \in Nat BY ONLY <3>2, <3>3, Dividing
    <3>6. QED BY ONLY <2>1, <3>4, <3>5, Dividing
  <2>3. ASSUME ~Divides(j, i) PROVE x \in r[i].start .. r[i].start + r[i].length - 1
    <3>1. r[i] = [start |-> 0, length |-> n] BY <2>3, RegionIs
    <3> HIDE DEF r, x, n
    <3>2. r[i].start = 0 /\ r[i].length = n BY <3>1
    <3>3. QED BY <2>1, <2>2, <3>2
  <2>4. ASSUME Divides(j, i)
        PROVE  x \div BlockFor(j, i) = PlaceOf(j, s, AxisFor(j, i)) <=> x \in r[i].start .. r[i].start + r[i].length - 1
    <3> DEFINE l == BlockFor(j, i)
               p == PlaceOf(j, s, AxisFor(j, i))
               z == Sizes(j.sharding.axes)[AxisFor(j, i)]
    <3>1. r[i] = [start |-> p * l, length |-> l] /\ l \in Nat \ {0} /\ p \in 0 .. z - 1 /\ z \in Nat
      BY <2>4, RegionIs
    <3> HIDE DEF r, x, n, l, p, z
    <3>2. p \in Nat /\ r[i].start = p * l /\ r[i].length = l BY <3>1
    <3>3. x \div l = p <=> x \in p * l .. p * l + l - 1 BY ONLY <2>2, <3>1, <3>2, BlockIs
    <3>4. x \div l = p <=> x \in r[i].start .. r[i].start + r[i].length - 1 BY <3>2, <3>3
    <3>5. QED BY <3>4 DEF l, p
  <2>5. QED BY <2>3, <2>4
<1>4. ShardedAxes(t) = {i \in DOMAIN t.dims : Divides(j, i)}
  BY DEF ShardedAxes, Divides, ValidShape
<1>5. MeantFor(j.sharding, t, s) =
        {b \in 0 .. Bytes(t) - 1 : \A i \in ShardedAxes(t) :
           Along(t, b \div t.width, i) \div BlockFor(j, i) = PlaceOf(j, s, AxisFor(j, i))}
  BY DEF MeantFor, BlockFor, PlaceOf, AxisFor
<1> HIDE DEF t, r
<1>6. QED
  BY <1>3, <1>4, <1>5 DEF t, r

\* Two shards that are meant to hold one byte hold the same region.
LEMMA RegionsApart ==
  ASSUME NEW j \in Jobs, ValidShape(j.sharding, j.tensor), Bytes(j.tensor) # 0,
         NEW s \in Nat, NEW z \in Nat,
         NEW b \in MeantFor(j.sharding, j.tensor, s) \cap MeantFor(j.sharding, j.tensor, z)
  PROVE  Region(j.sharding, j.tensor, s) = Region(j.sharding, j.tensor, z)
<1> DEFINE t == j.tensor
           r == Region(j.sharding, t, s)
           q == Region(j.sharding, t, z)
<1>1. ShardedAxes(t) = {i \in DOMAIN t.dims : Divides(j, i)}
  BY DEF ShardedAxes, Divides, ValidShape
<1>2. \A i \in ShardedAxes(t) : PlaceOf(j, s, AxisFor(j, i)) = PlaceOf(j, z, AxisFor(j, i))
  BY DEF MeantFor, PlaceOf, AxisFor
<1>3. ASSUME NEW i \in DOMAIN t.dims PROVE r[i] = q[i]
  <2>1. CASE Divides(j, i)
    <3>1. PlaceOf(j, s, AxisFor(j, i)) = PlaceOf(j, z, AxisFor(j, i)) BY <1>1, <1>2, <2>1
    <3>2. r[i] = [start |-> PlaceOf(j, s, AxisFor(j, i)) * BlockFor(j, i), length |-> BlockFor(j, i)] BY <2>1, RegionIs
    <3>3. q[i] = [start |-> PlaceOf(j, z, AxisFor(j, i)) * BlockFor(j, i), length |-> BlockFor(j, i)] BY <2>1, RegionIs
    <3>4. QED BY ONLY <3>1, <3>2, <3>3
  <2>2. CASE ~Divides(j, i)
    <3>1. r[i] = [start |-> 0, length |-> t.dims[i]] BY <2>2, RegionIs
    <3>2. q[i] = [start |-> 0, length |-> t.dims[i]] BY <2>2, RegionIs
    <3>3. QED BY ONLY <3>1, <3>2
  <2>3. QED BY <2>1, <2>2
<1>4. r = [i \in DOMAIN t.dims |-> r[i]] /\ q = [i \in DOMAIN t.dims |-> q[i]]
  BY DEF Region
<1> HIDE DEF r, q, t
<1> QED
  BY <1>3, <1>4 DEF r, q, t

-----------------------------------------------------------------------------
(* The spans of a region.                                                    *)

\* A region that is all of the tensor is seen as it is.
LEMMA ViewedWhole ==
  ASSUME NEW t, NEW r, Fits(t, r), NEW d \in 0 .. Bytes(t) - 1,
         \A i \in DOMAIN t.dims : r[i].start = 0 /\ r[i].length = t.dims[i]
  PROVE  Viewed(t, r, d) = d
<1> DEFINE w == t.width
           n == d \div w
           o == d % w
           p == Product(t.dims)
           c == Corner(t, r, n)
           rank == Len(t.dims)
<1>1. /\ w \in Nat \ {0} /\ Positive(t.dims) /\ p \in Nat /\ DOMAIN t.dims = 1 .. rank /\ rank \in Nat
      /\ t.dims \in Seq(Nat)
  BY FitsIs, ProductNat DEF Fits, Positive
<1>2. d \in Nat /\ d \in 0 .. p * w - 1
  <2>1. p * w \in Nat BY <1>1
  <2>2. Bytes(t) = p * w BY DEF Bytes
  <2>3. QED BY <2>1, <2>2
<1>3. n \in 0 .. p - 1 /\ n \in Nat /\ o \in 0 .. w - 1 /\ d = n * w + o
  BY ONLY <1>1, <1>2, Elements, Dividing
<1>4. Lengths(r) = t.dims
  <2>1. t.dims = [i \in 1 .. rank |-> t.dims[i]] BY <1>1
  <2>2. Lengths(r) = [i \in 1 .. rank |-> r[i].length] BY <1>1 DEF Lengths, Fits
  <2>3. QED BY <1>1, <2>1, <2>2
<1> HIDE DEF n, o
<1>5. c = Digits(n, t.dims)
  <2>1. Digits(n, t.dims) \in Seq(Nat) /\ Len(Digits(n, t.dims)) = rank BY <1>1, <1>3, DigitsRun
  <2>2. c = [i \in 1 .. rank |-> r[i].start + Digits(n, t.dims)[i]] BY <1>1, <1>4 DEF Corner
  <2>3. Digits(n, t.dims) = [i \in 1 .. rank |-> Digits(n, t.dims)[i]] BY <2>1
  <2>4. \A i \in 1 .. rank : Digits(n, t.dims)[i] \in Nat BY <2>1
  <2>5. \A i \in 1 .. rank : r[i].start = 0 BY <1>1
  <2>6. \A i \in 1 .. rank : r[i].start + Digits(n, t.dims)[i] = Digits(n, t.dims)[i] BY <2>4, <2>5
  <2> HIDE DEF c, rank
  <2>7. QED BY ONLY <2>2, <2>3, <2>6
<1>6. Linear(t.dims, c) = n
  <2>1. n < p BY <1>1, <1>3
  <2> HIDE DEF c
  <2>2. Linear(t.dims, Digits(n, t.dims)) = n BY ONLY <1>1, <1>3, <2>1, LinearDigits DEF p
  <2>3. QED BY <1>5, <2>2
<1>7. Viewed(t, r, d) = Linear(t.dims, c) * w + o
  BY ViewedIs DEF n, o
<1> HIDE DEF c, w
<1> QED
  BY <1>3, <1>6, <1>7

\* All but the last of some sizes.
LEMMA PositiveFront ==
  ASSUME NEW s, Positive(s), s # << >>
  PROVE  /\ Positive(Front(s)) /\ Len(Front(s)) = Len(s) - 1 /\ Front(s) \in Seq(Nat)
         /\ \A k \in 1 .. Len(s) - 1 : Front(s)[k] = s[k]
<1> DEFINE n == Len(s)
           f == Front(s)
<1>1. s \in Seq(Nat) /\ n \in Nat \ {0} /\ DOMAIN s = 1 .. n /\ \A k \in 1 .. n : s[k] \in Nat \ {0}
  BY DEF Positive
<1>2. f \in Seq(Nat) /\ Len(f) = n - 1
  BY <1>1, ProductFront
<1>3. \A k \in 1 .. n - 1 : f[k] = s[k]
  BY <1>1 DEF Front
<1>4. Positive(f)
  <2>1. DOMAIN f = 1 .. n - 1
    <3> HIDE DEF f, n
    <3>1. QED BY <1>2
  <2> HIDE DEF f, n
  <2>2. \A k \in DOMAIN f : f[k] # 0
    <3> SUFFICES ASSUME NEW k \in 1 .. n - 1 PROVE f[k] # 0 BY <2>1
    <3>1. k \in 1 .. n BY <1>1
    <3>2. QED BY <1>1, <1>3, <3>1
  <2>3. QED BY <1>2, <2>2 DEF Positive
<1> QED
  BY <1>2, <1>3, <1>4

\* The last size is a factor of every stride before it.
LEMMA StrideFront ==
  ASSUME NEW s, Positive(s), s # << >>, NEW i \in 1 .. Len(s) - 1
  PROVE  /\ Positive(Front(s)) /\ Len(Front(s)) = Len(s) - 1 /\ Front(s)[i] = s[i]
         /\ Stride(s, i) = Stride(Front(s), i) * s[Len(s)]
<1> DEFINE n == Len(s)
           f == Front(s)
           a == SubSeq(s, i + 1, n)
           b == SubSeq(f, i + 1, n - 1)
<1>1. s \in Seq(Nat) /\ n \in Nat \ {0} /\ DOMAIN s = 1 .. n /\ \A k \in 1 .. n : s[k] \in Nat \ {0}
  BY DEF Positive
<1>2. f \in Seq(Nat) /\ Len(f) = n - 1
  BY PositiveFront
<1>3. \A k \in 1 .. n - 1 : f[k] = s[k]
  BY PositiveFront
<1>4. Positive(f)
  BY PositiveFront
<1> HIDE DEF f, n
<1>4a. i \in 1 .. n - 1 BY DEF n
<1>5. a \in Seq(Nat) /\ Len(a) = n - i /\ \A k \in 1 .. n - i : a[k] = s[i + k]
  BY ONLY <1>1, <1>4a
<1>6. b \in Seq(Nat) /\ Len(b) = n - 1 - i /\ \A k \in 1 .. n - 1 - i : b[k] = f[i + k]
  BY ONLY <1>1, <1>2, <1>4a
<1> HIDE DEF a, b
<1>7. a # << >> /\ n - i \in Nat \ {0}
  BY <1>1, <1>4a, <1>5
<1>8. Front(a) \in Seq(Nat) /\ Product(a) = Product(Front(a)) * a[n - i] /\ Len(Front(a)) = n - i - 1
  BY ONLY <1>5, <1>7, ProductFront
<1>9. \A k \in 1 .. n - i - 1 : Front(a)[k] = a[k]
  BY <1>5, <1>7 DEF Front
<1>10. Front(a) = b
  <2> DEFINE g == Front(a)
             m == n - i - 1
  <2>1. m \in Nat /\ n - 1 - i = m BY <1>1, <1>4a
  <2>2. \A k \in 1 .. m : g[k] = b[k]
    <3> SUFFICES ASSUME NEW k \in 1 .. m PROVE g[k] = b[k] OBVIOUS
    <3>1. k \in 1 .. n - i /\ k \in 1 .. n - 1 - i /\ i + k \in 1 .. n - 1 BY <1>1, <1>4a
    <3>2. g[k] = a[k] BY <1>9
    <3>3. QED BY <1>3, <1>5, <1>6, <3>1, <3>2
  <2> HIDE DEF g, m
  <2>3. g \in Seq(Nat) /\ Len(g) = m /\ b \in Seq(Nat) /\ Len(b) = m BY <1>6, <1>8, <2>1 DEF g, m
  <2>4. g = b BY ONLY <2>1, <2>2, <2>3
  <2>5. QED BY <2>4 DEF g
<1>11. a[n - i] = s[n]
  <2>1. n - i \in 1 .. n - i /\ i + (n - i) = n BY <1>1, <1>4a, <1>7
  <2>2. QED BY <1>5, <2>1
<1>12. Stride(s, i) = Product(a) /\ Stride(f, i) = Product(b)
  BY <1>2 DEF Stride, a, b, n
<1> QED
  BY <1>2, <1>3, <1>4, <1>4a, <1>8, <1>10, <1>11, <1>12 DEF f, n

\* The coordinates at which the span of a row begins.
RowStart(t, r, row) ==
  [i \in 1 .. Len(t.dims) |-> r[i].start + (Digits(row, Front(Lengths(r))) \o <<0>>)[i]]

\* Where a byte of a span is in its region.
LEMMA SpanPlace ==
  ASSUME NEW t, NEW r, Fits(t, r), Len(t.dims) # 0,
         NEW rows \in Nat, NEW k \in 1 .. rows,
         NEW c \in Nat, c \in 0 .. Lengths(r)[Len(t.dims)] * t.width - 1,
         NEW e, e = RowStart(t, r, k - 1)
  PROVE  /\ Linear(t.dims, e) * t.width \in Nat
         /\ Linear(t.dims, e) * t.width + c =
              Viewed(t, r, (k - 1) * (Lengths(r)[Len(t.dims)] * t.width) + c)
<1> DEFINE w == t.width
           rank == Len(t.dims)
           lens == Lengths(r)
           f == Front(lens)
           z == lens[rank]
           x == c \div w
           o == c % w
           j == k - 1
           m == j * z + x
           d == j * (z * w) + c
           g == Corner(t, r, m)
           u == Digits(j, f)
<1>1. /\ w \in Nat \ {0} /\ Positive(t.dims) /\ rank \in Nat \ {0} /\ Positive(lens) /\ Len(lens) = rank
      /\ DOMAIN t.dims = 1 .. rank
      /\ \A i \in 1 .. rank : lens[i] \in Nat \ {0} /\ r[i].start \in Nat
  BY FitsIs DEF Fits
<1>2. j \in Nat /\ z \in Nat \ {0} /\ lens # << >>
  BY <1>1
<1>3. c \in Nat /\ c \in 0 .. z * w - 1
  <2>1. z * w \in Nat BY <1>1, <1>2
  <2>2. QED BY <2>1
<1>4. Positive(f) /\ Len(f) = rank - 1 /\ \A i \in 1 .. rank - 1 : f[i] = lens[i]
  BY <1>1, <1>2, PositiveFront
<1>5. \A i \in 1 .. rank - 1 : Stride(lens, i) = Stride(f, i) * z /\ Stride(f, i) \in Nat \ {0}
  <2> SUFFICES ASSUME NEW i \in 1 .. rank - 1 PROVE Stride(lens, i) = Stride(f, i) * z /\ Stride(f, i) \in Nat \ {0} OBVIOUS
  <2>1. Stride(lens, i) = Stride(f, i) * z BY <1>1, <1>2, StrideFront
  <2>2. i \in 0 .. Len(f) BY <1>1, <1>4
  <2>3. QED BY <1>4, <2>1, <2>2, StrideIs
<1>6. u \in Seq(Nat) /\ Len(u) = rank - 1
  BY <1>2, <1>4, DigitsRun
<1>7. \A i \in 1 .. rank : e[i] = r[i].start + (u \o <<0>>)[i]
  BY DEF RowStart
<1> HIDE DEF lens, f, w, z, j, u
<1>8. (\A i \in 1 .. rank - 1 : (u \o <<0>>)[i] = u[i]) /\ (u \o <<0>>)[rank] = 0
  BY ONLY <1>1, <1>6
<1>9. x \in 0 .. z - 1 /\ x \in Nat /\ o \in 0 .. w - 1 /\ c = x * w + o
  BY ONLY <1>1, <1>2, <1>3, Elements, Dividing
<1> HIDE DEF x, o
<1>10. m \in Nat /\ m \div z = j /\ m % z = x
  <2>1. j * z \in Nat BY <1>2
  <2>2. m \in Nat BY <1>9, <2>1
  <2>3. m = j * z + x OBVIOUS
  <2> HIDE DEF m
  <2>4. j \in Int /\ z \in Nat \ {0} /\ x \in 0 .. z - 1 BY <1>2, <1>9
  <2>5. QED BY ONLY <2>2, <2>3, <2>4, Quotient
<1>11. d = m * w + o /\ d \in Nat
  <2>1. d = j * (z * w) + (x * w + o) BY <1>9
  <2>2. j \in Nat /\ z \in Nat /\ w \in Nat /\ x \in Nat /\ o \in Nat BY <1>1, <1>2, <1>9
  <2>3. (j * z + x) * w = j * (z * w) + x * w BY ONLY <2>2
  <2> DEFINE a1 == (j * z + x) * w
             a2 == j * (z * w)
             a3 == x * w
  <2>4. a1 = a2 + a3 /\ a2 \in Nat /\ a3 \in Nat /\ d = a2 + (a3 + o) /\ m * w = a1
    <3>1. z * w \in Nat BY ONLY <2>2
    <3>2. a2 \in Nat /\ a3 \in Nat BY ONLY <2>2, <3>1
    <3>3. QED BY <2>1, <2>3, <3>2
  <2> HIDE DEF a1, a2, a3, d
  <2>5. d = a1 + o /\ d \in Nat BY ONLY <2>2, <2>4
  <2>6. QED BY <2>4, <2>5
<1> HIDE DEF m, d
<1>12. d \div w = m /\ d % w = o
  <2>1. m \in Int BY <1>10
  <2>2. QED BY ONLY <1>1, <1>9, <1>11, <2>1, Quotient
<1>13. \A i \in 1 .. rank : g[i] = r[i].start + Digits(m, lens)[i] /\ g[i] \in Nat
  <2> SUFFICES ASSUME NEW i \in 1 .. rank PROVE g[i] = r[i].start + Digits(m, lens)[i] /\ g[i] \in Nat OBVIOUS
  <2>1. g[i] = r[i].start + Digits(m, lens)[i] /\ g[i] \in 0 .. t.dims[i] - 1 BY <1>10, CornerFits DEF lens
  <2>2. t.dims[i] \in Nat BY FitsIs
  <2> HIDE DEF g
  <2>3. QED BY <2>1, <2>2
<1>14. \A i \in 1 .. rank - 1 : Digits(m, lens)[i] = u[i]
  <2> SUFFICES ASSUME NEW i \in 1 .. rank - 1 PROVE Digits(m, lens)[i] = u[i] OBVIOUS
  <2> DEFINE st == Stride(f, i)
  <2>1. i \in 1 .. Len(lens) /\ i \in 1 .. Len(f) BY <1>1, <1>4
  <2>2. Digits(m, lens)[i] = (m \div Stride(lens, i)) % lens[i] BY <1>1, <1>10, <2>1, DigitIs
  <2>3. u[i] = (j \div st) % f[i] BY <1>2, <1>4, <2>1, DigitIs DEF u
  <2>4. Stride(lens, i) = st * z /\ st \in Nat \ {0} BY <1>5
  <2> HIDE DEF st
  <2>4a. m \in Nat /\ z \in Nat \ {0} /\ st \in Nat \ {0} BY <1>2, <1>10, <2>4
  <2>5. (m \div z) \div st = m \div (z * st) BY ONLY <2>4a, DivDiv
  <2>6. z * st = st * z BY <1>2, <2>4
  <2>7. m \div Stride(lens, i) = j \div st BY <1>10, <2>4, <2>5, <2>6
  <2>8. QED BY <1>4, <2>2, <2>3, <2>7
<1>15. Digits(m, lens)[rank] = x
  <2>1. rank \in 1 .. Len(lens) BY <1>1
  <2>2. Digits(m, lens)[rank] = (m \div Stride(lens, rank)) % z BY <1>1, <1>10, <2>1, DigitIs DEF z
  <2>3. m \div Stride(lens, rank) = m BY <1>1, <1>10, RestIs
  <2>4. QED BY <1>10, <2>2, <2>3
<1> HIDE DEF g
<1>16. \A i \in 1 .. rank : e[i] \in Nat /\ (i # rank => e[i] = g[i])
  <2> SUFFICES ASSUME NEW i \in 1 .. rank PROVE e[i] \in Nat /\ (i # rank => e[i] = g[i]) OBVIOUS
  <2>1. CASE i = rank
    <3>1. e[i] = r[i].start + 0 BY <1>7, <1>8, <2>1
    <3>2. r[i].start \in Nat BY <1>1
    <3>3. QED BY ONLY <2>1, <3>1, <3>2
  <2>2. CASE i # rank
    <3>1. i \in 1 .. rank - 1 BY <1>1, <2>2
    <3>2. e[i] = r[i].start + u[i] BY <1>7, <1>8, <3>1
    <3>3. e[i] = g[i] BY <1>13, <1>14, <3>1, <3>2
    <3>4. QED BY <1>13, <3>3
  <2>3. QED BY <2>1, <2>2
<1> DEFINE a == Linear(t.dims, e)
           b == Linear(t.dims, g)
<1>17. a \in Nat /\ b \in Nat /\ a + g[rank] = b + e[rank]
  <2> DEFINE dims == t.dims
  <2>1. Positive(dims) /\ rank \in Nat \ {0} /\ Len(dims) = rank BY <1>1
  <2>2. \A i \in 1 .. rank : e[i] \in Nat /\ g[i] \in Nat BY <1>13, <1>16
  <2>3. \A i \in 1 .. rank : i # rank => e[i] = g[i] BY <1>16
  <2> HIDE DEF dims, rank
  <2>4. /\ Linear(dims, e) \in Nat /\ Linear(dims, g) \in Nat
        /\ Linear(dims, e) + g[rank] = Linear(dims, g) + e[rank]
    BY ONLY <2>1, <2>2, <2>3, LinearLast
  <2>5. QED BY <2>4 DEF dims
<1>18. e[rank] = r[rank].start + 0 /\ g[rank] = r[rank].start + x /\ r[rank].start \in Nat
  <2>1. rank \in 1 .. rank BY <1>1
  <2>2. QED BY <1>1, <1>7, <1>8, <1>13, <1>15, <2>1
<1> HIDE DEF a, b
<1>19. b = a + x
  <2> DEFINE er == e[rank]
             gr == g[rank]
             rs == r[rank].start
  <2>1. a \in Nat /\ b \in Nat /\ x \in Nat /\ rs \in Nat /\ a + gr = b + er /\ er = rs + 0 /\ gr = rs + x
    BY ONLY <1>9, <1>17, <1>18
  <2> HIDE DEF er, gr, rs
  <2>2. QED BY ONLY <2>1
<1>20. Viewed(t, r, d) = b * w + o
  BY <1>12, ViewedIs DEF b, g, w
<1>21. a * w \in Nat /\ b * w + o = a * w + c
  <2>1. a \in Nat /\ w \in Nat /\ x \in Nat /\ o \in Nat BY <1>1, <1>9, <1>17
  <2>2. (a + x) * w = a * w + x * w BY ONLY <2>1
  <2>3. a * w \in Nat /\ x * w \in Nat BY ONLY <2>1
  <2> DEFINE aw == a * w
             xw == x * w
             bw == b * w
  <2>4. bw = aw + xw /\ aw \in Nat /\ xw \in Nat /\ c = xw + o BY <1>9, <1>19, <2>2, <2>3
  <2> HIDE DEF aw, xw, bw
  <2>5. aw \in Nat /\ bw + o = aw + c BY ONLY <2>1, <2>4
  <2>6. QED BY <2>5 DEF aw, bw
<1> QED
  BY <1>20, <1>21 DEF a, w, d, j, z, lens

\* The bytes of the spans of a group, and where they belong in the shards of the group.
SpansPlaced(j, r, n, l) ==
  \A k \in 1 .. n : \A c \in 0 .. l - 1 :
    /\ SpansOf(j, r)[k].start \in Nat
    /\ SpansOf(j, r)[k].start + c = Viewed(j.tensor, r, (k - 1) * l + c)

\* Byte c of span k is byte (k - 1) * l + c of the region.
LEMMA ChunkPlace ==
  ASSUME NEW j \in Jobs, ValidShape(j.sharding, j.tensor), Bytes(j.tensor) # 0, NEW s \in Nat,
         NEW r, r = Region(j.sharding, j.tensor, s),
         NEW n, NEW l, NEW total, IsEven(SpansOf(j, r), n, l, total)
  PROVE  SpansPlaced(j, r, n, l)
<1> SUFFICES ASSUME NEW k \in 1 .. n, NEW c \in 0 .. l - 1
             PROVE  /\ SpansOf(j, r)[k].start \in Nat
                    /\ SpansOf(j, r)[k].start + c = Viewed(j.tensor, r, (k - 1) * l + c)
  BY DEF SpansPlaced
<1> DEFINE t == j.tensor
           w == t.width
           rank == Len(t.dims)
           lens == Lengths(r)
           spans == SpansOf(j, r)
<1>1. Fits(t, r) /\ w \in Nat \ {0} /\ t.dims \in Seq(Nat)
  BY RegionFits, JobsAssumption
<1>2. /\ Len(spans) = n /\ n \in Nat \ {0} /\ l \in Nat \ {0}
      /\ \A i \in 1 .. n : spans[i].length = l
  BY DEF IsEven
<1>3. /\ rank \in Nat /\ DOMAIN t.dims = 1 .. rank /\ Len(lens) = rank
      /\ \A i \in 1 .. rank : lens[i] = r[i].length /\ lens[i] \in Nat \ {0}
  BY <1>1, FitsIs
<1>4. ASSUME spans = <<[start |-> 0, length |-> Bytes(t)]>>,
             \A i \in DOMAIN t.dims : r[i].start = 0 /\ r[i].length = t.dims[i]
      PROVE  spans[k].start \in Nat /\ spans[k].start + c = Viewed(t, r, (k - 1) * l + c)
  <2>1. Len(spans) = 1 /\ spans[1] = [start |-> 0, length |-> Bytes(t)] BY <1>4
  <2> HIDE DEF spans, t
  <2>2. n = 1 /\ k = 1 /\ l = Bytes(t) BY <1>2, <2>1
  <2>3. (k - 1) * l + c = c /\ c \in Nat
    <3>1. 0 * l = 0 /\ k - 1 = 0 BY <1>2, <2>2
    <3>2. c \in Nat BY <1>2
    <3>3. QED BY <3>1, <3>2
  <2>4. Viewed(t, r, c) = c BY <1>1, <1>4, <2>2, ViewedWhole
  <2>5. spans[k].start = 0 BY <2>1, <2>2
  <2>6. QED BY <2>3, <2>4, <2>5
<1>5. CASE j.sharding.kind # "mesh"
  <2>1. spans = <<[start |-> 0, length |-> Bytes(t)]>> BY <1>5 DEF SpansOf
  <2>2. \A i \in DOMAIN t.dims : r[i].start = 0 /\ r[i].length = t.dims[i]
    <3> SUFFICES ASSUME NEW i \in DOMAIN t.dims PROVE r[i].start = 0 /\ r[i].length = t.dims[i] OBVIOUS
    <3>1. ~Divides(j, i) BY <1>5 DEF Divides
    <3>2. r[i] = [start |-> 0, length |-> t.dims[i]] BY <3>1, RegionIs
    <3>3. QED BY <3>2
  <2>3. QED BY <1>4, <2>1, <2>2
<1>6. CASE j.sharding.kind = "mesh" /\ rank = 0
  <2>1. spans = <<[start |-> 0, length |-> w]>> BY <1>6 DEF SpansOf, Spans
  <2>2. Bytes(t) = w
    <3>1. Product(t.dims) = 1
      <4>1. t.dims \in Seq(Nat) /\ Len(t.dims) = 0 BY <1>1, <1>6
      <4> DEFINE e == t.dims
      <4>2. e \in Seq(Nat) /\ Len(e) = 0 BY <4>1
      <4> HIDE DEF e
      <4>3. Product(e) = 1 BY ONLY <4>2, ProductExists
      <4>4. QED BY <4>3 DEF e
    <3>2. 1 * w = w BY <1>1
    <3>3. QED BY <3>1, <3>2 DEF Bytes
  <2>3. DOMAIN t.dims = {} BY <1>3, <1>6
  <2>4. QED BY <1>4, <2>1, <2>2, <2>3
<1>7. CASE j.sharding.kind = "mesh" /\ rank # 0
  <2> DEFINE rows == Product(Front(lens))
             at(row) == Linear(t.dims, [i \in 1 .. rank |-> r[i].start + (Digits(row, Front(lens)) \o <<0>>)[i]]) * w
             z == lens[rank]
  <2>1. \A i \in 1 .. rank : lens[i] # 0 BY <1>3
  <2>2. spans = [i \in 1 .. rows |-> [start |-> at(i - 1), length |-> z * w]]
    BY <1>7, <2>1 DEF SpansOf, Spans
  <2>3. rows \in Nat
    <3>1. lens # << >> /\ lens \in Seq(Nat)
      <4>1. lens \in Seq(Nat) BY <1>1, FitsIs DEF Positive
      <4> HIDE DEF lens
      <4>2. QED BY <1>3, <1>7, <4>1
    <3> HIDE DEF lens
    <3>2. QED BY <3>1, ProductFront, ProductNat
  <2> HIDE DEF spans, at, rows
  <2>4. DOMAIN spans = 1 .. rows BY <2>2
  <2>5. Len(spans) = rows BY <2>2, <2>3
  <2>6. rows = n BY <1>2, <2>5
  <2>7. spans[k].start = at(k - 1) /\ spans[k].length = z * w BY <2>2, <2>6
  <2>8. l = z * w BY <1>2, <2>7
  <2> DEFINE e == [i \in 1 .. rank |-> r[i].start + (Digits(k - 1, Front(lens)) \o <<0>>)[i]]
  <2>9. e = RowStart(t, r, k - 1) BY DEF RowStart
  <2>10. at(k - 1) = Linear(t.dims, e) * t.width BY DEF at
  <2>11. Fits(t, r) /\ Len(t.dims) # 0 /\ rows \in Nat /\ k \in 1 .. rows BY <1>1, <1>7, <2>3, <2>6
  <2>12. c \in Nat /\ c \in 0 .. Lengths(r)[Len(t.dims)] * t.width - 1 BY <1>2, <2>8
  <2>13. l = Lengths(r)[Len(t.dims)] * t.width BY <2>8
  <2>14. spans[k].start = at(k - 1) BY <2>7
  <2> HIDE DEF e, t
  <2>15. /\ Linear(t.dims, e) * t.width \in Nat
         /\ Linear(t.dims, e) * t.width + c = Viewed(t, r, (k - 1) * (Lengths(r)[Len(t.dims)] * t.width) + c)
    BY ONLY <2>9, <2>11, <2>12, SpanPlace, ZenonT(30)
  <2>16. spans[k].start \in Nat /\ spans[k].start + c = Viewed(t, r, (k - 1) * l + c)
    BY ONLY <2>10, <2>13, <2>14, <2>15, Zenon
  <2>17. QED BY ONLY <2>16 DEF spans, t
<1>8. QED
  BY <1>5, <1>6, <1>7

\* How many shards there are.
LEMMA CountNat ==
  ASSUME job \in Jobs
  PROVE  /\ ExecutionCount(job.sharding, job.devices) \in Nat /\ Shards \subseteq Nat
         /\ Shards = 0 .. ExecutionCount(job.sharding, job.devices) - 1
<1> DEFINE j == job
           z == j.sharding
           sizes == Sizes(z.axes)
           count == ExecutionCount(z, j.devices)
<1>1. z.kind \in {"single", "replicated", "mesh"} /\ j.devices \in Nat
  BY JobsAssumption
<1>2. Product(sizes) \in Nat
  <2>1. Positive(sizes)
    BY SizesPositive
  <2>2. sizes \in Seq(Nat)
    BY <2>1 DEF Positive
  <2> HIDE DEF sizes
  <2> QED
    BY <2>2, ProductNat
<1>3. count \in Nat
  <2>1. CASE z.kind = "single"
    BY <2>1 DEF ExecutionCount
  <2>2. CASE z.kind = "replicated"
    BY <1>1, <2>2 DEF ExecutionCount
  <2>3. CASE z.kind = "mesh"
    BY <1>2, <2>3 DEF ExecutionCount
  <2> QED
    BY <1>1, <2>1, <2>2, <2>3
<1>4. Shards = 0 .. count - 1
  BY DEF Shards
<1> HIDE DEF count
<1>5. 0 .. count - 1 \subseteq Nat
  BY <1>3
<1> QED
  BY <1>3, <1>4, <1>5 DEF count

\* The bytes of the chunk at the cursor, and where they belong in the shards of the group.
LEMMA ChunkLands ==
  ASSUME CInv, pc \in {"fill", "issue"}
  PROVE  /\ ChunkStart \in Nat
         /\ \A c \in 0 .. ChunkLength - 1 :
              /\ cursor.written + c \in 0 .. Total - 1
              /\ ChunkStart + c = Viewed(job.tensor, region, cursor.written + c)
<1>1. /\ job \in Jobs /\ ValidShape(job.sharding, job.tensor) /\ Bytes(job.tensor) # 0
      /\ ~GroupDone /\ CursorExact /\ pc \in Mapping
  BY DEF CInv, JobStands, CursorExact, Streaming, Mapping
<1>2. PICK s \in Shards : region = Region(job.sharding, job.tensor, s)
  BY <1>1 DEF CInv, Groups, RegionOf
<1>3. s \in Nat
  BY <1>1, CountNat
<1>4. PICK n, l :
         /\ IsEven(FileSpans, n, l, Total)
         /\ cursor.span \in 1 .. n + 1 /\ cursor.consumed \in 0 .. l - 1
         /\ cursor.written = (cursor.span - 1) * l + cursor.consumed
  BY <1>1 DEF CursorExact
<1>5. /\ n \in Nat \ {0} /\ l \in Nat \ {0} /\ Len(FileSpans) = n
      /\ \A k \in 1 .. n : FileSpans[k].length = l
  BY <1>4 DEF IsEven
<1>6. cursor.span \in 1 .. n
  BY <1>1, <1>4, <1>5 DEF GroupDone
<1>7. Left = l - cursor.consumed
  BY <1>5, <1>6 DEF Left
<1>8. ChunkLength \in Nat \ {0} /\ ChunkLength <= Left
  BY <1>4, <1>5, <1>7, UploadAssumption DEF ChunkLength
<1>9. FileSpans = SpansOf(job, region)
  BY DEF FileSpans, SpansOf
<1>10. \A c \in 0 .. l - 1 :
         /\ FileSpans[cursor.span].start \in Nat
         /\ FileSpans[cursor.span].start + c = Viewed(job.tensor, region, (cursor.span - 1) * l + c)
  <2> DEFINE total == Total
  <2>1. IsEven(SpansOf(job, region), n, l, total)
    BY <1>4, <1>9
  <2> HIDE DEF total
  <2>2. SpansPlaced(job, region, n, l)
    BY ONLY <1>1, <1>2, <1>3, <2>1, ChunkPlace
  <2> QED
    BY <1>6, <1>9, <2>2 DEF SpansPlaced
<1>11. cursor.written \in Nat /\ Total \in Nat /\ cursor.written + ChunkLength <= Total
  BY <1>1, CursorFacts
<1> DEFINE f == FileSpans[cursor.span].start
           z == ChunkLength
           o == cursor.consumed
           w == cursor.written
           p == (cursor.span - 1) * l
<1>12. p \in Nat
  <2>1. cursor.span - 1 \in Nat
    BY <1>5, <1>6
  <2> DEFINE a == cursor.span - 1
  <2> HIDE DEF a
  <2>2. a * l \in Nat
    BY <1>5, <2>1 DEF a
  <2> QED
    BY <2>2 DEF a
<1>13. f \in Nat /\ ChunkStart = f + o
  <2>1. 0 \in 0 .. l - 1
    BY <1>5
  <2> QED
    BY <1>10, <2>1 DEF ChunkStart
<1>14. /\ o \in 0 .. l - 1 /\ l \in Nat /\ z \in Nat /\ z <= l - o /\ w = p + o
       /\ w \in Nat /\ Total \in Nat /\ w + z <= Total
       /\ \A c \in 0 .. l - 1 : f + c = Viewed(job.tensor, region, p + c)
  BY <1>4, <1>5, <1>7, <1>8, <1>10, <1>11
<1> HIDE DEF f, z, o, w, p
<1>15. ASSUME NEW c \in 0 .. z - 1
       PROVE  w + c \in 0 .. Total - 1 /\ f + o + c = Viewed(job.tensor, region, w + c)
  <2>1. c \in Nat /\ o \in Nat /\ o + c \in 0 .. l - 1
    BY <1>14
  <2>2. f + (o + c) = Viewed(job.tensor, region, p + (o + c))
    BY <1>14, <2>1
  <2>3. f + (o + c) = f + o + c /\ p + (o + c) = w + c
    BY ONLY <1>12, <1>13, <1>14, <2>1
  <2>4. w + c \in 0 .. Total - 1
    BY ONLY <1>14, <2>1, c \in 0 .. z - 1
  <2> QED
    BY <2>2, <2>3, <2>4
<1>16. ChunkStart \in Nat
  BY ONLY <1>13, <1>14
<1> QED
  BY <1>13, <1>15, <1>16 DEF z, w

-----------------------------------------------------------------------------
(* What arrives.                                                             *)

\* Byte d of a shard is the byte of the file that belongs there.
Arrived(s, d) == memory[s][d] = Viewed(job.tensor, RegionOf(s), d)

\* The bytes of its shard that a transfer brings, and where it is not known yet whether it
\* has brought them.
Brings(t) == t.offset .. t.offset + t.length - 1
OnItsWay(s, d) ==
  \E l \in Lanes : \E t \in pending[l] : t.shard = s /\ d \in Brings(t) /\ t \in flying \cup broken

Sized ==
  pc \in Streaming =>
    /\ DOMAIN memory = Shards
    /\ \A s \in Shards : DOMAIN memory[s] = 0 .. ShardBytes(job.tensor, RegionOf(s)) - 1

\* A transfer brings the bytes that belong where it puts them.
Transfers == [lane : Lanes, shard : Shards, start : Nat, length : Nat, offset : Nat]
Addressed ==
  \A l \in Lanes : \A t \in pending[l] :
    /\ t \in Transfers
    /\ \A d \in Brings(t) : t.start + (d - t.offset) = Viewed(job.tensor, RegionOf(t.shard), d)

\* How much of a shard of the group has been sent.
Sent(s) == IF pc = "issue" /\ s \in asked THEN cursor.written + ChunkLength ELSE cursor.written

Underway ==
  pc \in Mapping =>
    \A s \in Destinations : \A d \in 0 .. Sent(s) - 1 : Arrived(s, d) \/ OnItsWay(s, d)

\* The groups behind the one that is being streamed are there.
Finished ==
  pc \in Streaming =>
    \A s \in Shards :
      RegionOf(s) \notin todo /\ (pc \in Mapping => RegionOf(s) # region) =>
        \A d \in DOMAIN memory[s] : Arrived(s, d)

\* The shards of a file that was read as a whole, one after the other.
Count == ExecutionCount(job.sharding, job.devices)
Uploaded ==
  /\ pc \in {"host", "upload", "ok"} => ValidShape(job.sharding, job.tensor)
  /\ pc = "upload" =>
       \E m \in 0 .. Count :
         /\ DOMAIN memory = 0 .. m - 1
         /\ \A s \in DOMAIN memory : memory[s] = RegionBytes(job.tensor, RegionOf(s))

Delivered ==
  pc = "ok" =>
    /\ DOMAIN memory = Shards
    /\ \A s \in Shards :
         /\ DOMAIN memory[s] = 0 .. ShardBytes(job.tensor, RegionOf(s)) - 1
         /\ \A d \in DOMAIN memory[s] : Arrived(s, d)

DInv == Sized /\ Addressed /\ Underway /\ Finished /\ Uploaded /\ Delivered

\* At the call nothing is known of the shards.
LEMMA DInvInit == Init => DInv
  BY DEF Init, DInv, Sized, Addressed, Underway, Finished, Uploaded, Delivered, Streaming, Mapping, NoHandles

\* A step that leaves the call, what is handed out and the transfers alone.
LEMMA ArrivedKeeps ==
  ASSUME UNCHANGED <<job, memory>>
  PROVE  \A s : \A d : Arrived(s, d)' <=> Arrived(s, d)
  BY DEF Arrived, RegionOf

\* What is on its way, when no transfer changes.
LEMMA OnItsWayKeeps ==
  ASSUME UNCHANGED <<pending, flying, broken>>
  PROVE  \A s : \A d : OnItsWay(s, d)' <=> OnItsWay(s, d)
  BY DEF OnItsWay, Lanes, Brings

\* What the transfers that are known bring does not change with the step.
LEMMA AddressedKeeps ==
  ASSUME Addressed, job' = job, \A l \in Lanes : pending'[l] \subseteq pending[l]
  PROVE  Addressed'
<1>1. Shards' = Shards /\ \A s : RegionOf(s)' = RegionOf(s)
  BY JobKeeps
<1> QED
  BY <1>1 DEF Addressed, Transfers, Lanes, Brings

\* A step after which nothing is asked of the stream.
LEMMA DInvLeave ==
  ASSUME DInv, job' = job, \A l \in Lanes : pending'[l] \subseteq pending[l],
         pc' \in {"start", "open", "unwind", "err", "panicked"}
  PROVE  DInv'
  BY AddressedKeeps DEF DInv, Sized, Underway, Finished, Uploaded, Delivered, Streaming, Mapping

\* One more shard of a file that was read as a whole.
LEMMA DInvUploadShard == ASSUME IInv, CInv, DInv, UploadShard PROVE DInv'
<1> USE DEF Streaming, Mapping
<1>1. /\ pc = "upload" /\ UNCHANGED <<job, pending>> /\ job \in Jobs
      /\ ValidShape(job.sharding, job.tensor)
  BY DEF UploadShard, hostVars, CInv, JobStands, DInv, Uploaded
<1>2. Count \in Nat /\ Shards = 0 .. Count - 1
  BY <1>1, CountNat DEF Count
<1>3. PICK m \in 0 .. Count :
        /\ DOMAIN memory = 0 .. m - 1
        /\ \A s \in DOMAIN memory : memory[s] = RegionBytes(job.tensor, RegionOf(s))
  BY <1>1 DEF DInv, Uploaded
<1>4. m \in Nat /\ Cardinality(DOMAIN memory) = m
  <2>1. m \in Nat /\ m - 1 \in Int /\ 0 \in Int
    BY <1>2
  <2>2. Cardinality(0 .. m - 1) = IF 0 > m - 1 THEN 0 ELSE (m - 1) - 0 + 1
    BY <2>1, FS_Interval
  <2> QED
    BY <1>3, <2>1, <2>2
<1>5. Shards' = Shards /\ Count' = Count /\ \A s : RegionOf(s)' = RegionOf(s)
  BY <1>1, JobKeeps DEF Count
<1>6. Addressed'
  BY <1>1, AddressedKeeps DEF DInv
<1>7. CASE pc' = "err"
  BY <1>1, <1>7, DInvLeave
<1>8. CASE pc' = "upload"
  <2>1. /\ m \in Shards
        /\ memory' = [r \in DOMAIN memory \cup {m} |->
                        IF r = m THEN RegionBytes(job.tensor, RegionOf(m)) ELSE memory[r]]
    BY <1>4, <1>8 DEF UploadShard
  <2>2. m + 1 \in 0 .. Count /\ DOMAIN memory \cup {m} = 0 .. (m + 1) - 1
    BY <1>2, <1>3, <1>4, <2>1
  <2>3. DOMAIN memory' = 0 .. (m + 1) - 1
    BY <2>1, <2>2
  <2>4. \A s \in DOMAIN memory' : memory'[s] = RegionBytes(job.tensor, RegionOf(s))
    BY <1>3, <2>1
  <2>5. Uploaded'
    BY <1>1, <1>5, <1>8, <2>2, <2>3, <2>4 DEF Uploaded
  <2> QED
    BY <1>6, <1>8, <2>5 DEF DInv, Sized, Underway, Finished, Delivered
<1>9. CASE pc' = "ok"
  <2>1. m \notin Shards /\ memory' = memory
    BY <1>1, <1>4, <1>9 DEF UploadShard
  <2>2. m = Count /\ DOMAIN memory = Shards
    BY <1>2, <1>3, <1>4, <2>1
  <2>3. ASSUME NEW s \in Shards
        PROVE  /\ DOMAIN memory[s] = 0 .. ShardBytes(job.tensor, RegionOf(s)) - 1
               /\ \A d \in DOMAIN memory[s] : Arrived(s, d)
    <3>1. memory[s] = RegionBytes(job.tensor, RegionOf(s))
      BY <1>3, <2>2
    <3> QED
      BY <3>1 DEF RegionBytes, Arrived
  <2>4. Delivered'
    BY <1>1, <1>5, <2>1, <2>2, <2>3, ArrivedKeeps DEF Delivered
  <2> QED
    BY <1>1, <1>6, <1>9, <2>4 DEF DInv, Sized, Underway, Finished, Uploaded
<1> QED
  BY <1>1, <1>7, <1>8, <1>9 DEF UploadShard

\* Before a group is streamed the shards are as the managers made them.
LEMMA DInvBegin ==
  ASSUME IInv, CInv, DInv, Validate \/ ReadWhole \/ OpenManagers
  PROVE  DInv'
<1> USE DEF Streaming, Mapping
<1>1. job' = job /\ pending' = pending /\ job \in Jobs
  BY DEF Validate, ReadWhole, OpenManagers, Refuse, hostVars, CInv, JobStands
<1>2. Addressed'
  BY <1>1, AddressedKeeps DEF DInv
<1>3. CASE Validate
  <2>1. pc' \in {"host", "open", "err"} /\ (pc' = "host" => ValidShape(job.sharding, job.tensor))
    BY <1>3 DEF Validate, Refuse
  <2> QED
    BY <1>1, <1>2, <2>1 DEF DInv, Sized, Underway, Finished, Uploaded, Delivered
<1>4. CASE ReadWhole
  <2>1. /\ pc = "host" /\ pc' \in {"upload", "err"} /\ memory' = memory
        /\ ValidShape(job.sharding, job.tensor)
    BY <1>4 DEF ReadWhole, Refuse, DInv, Uploaded
  <2>2. memory = << >>
    BY <2>1 DEF IInv, Owned, Bufferless
  <2>3. Count \in Nat
    BY <1>1, CountNat DEF Count
  <2>4. 0 \in 0 .. Count /\ DOMAIN memory = 0 .. 0 - 1
    BY <2>2, <2>3
  <2>5. Count' = Count
    BY <1>1 DEF Count
  <2>6. \A s \in DOMAIN memory' : memory'[s] = RegionBytes(job.tensor, RegionOf(s))'
    BY <2>1, <2>4
  <2>7. Uploaded'
    BY <1>1, <2>1, <2>4, <2>5, <2>6 DEF Uploaded
  <2> QED
    BY <1>2, <2>1, <2>7 DEF DInv, Sized, Underway, Finished, Delivered
<1>5. CASE OpenManagers
  <2>1. CASE Refuse
    BY <1>1, <2>1, DInvLeave DEF Refuse
  <2>2. CASE ~Refuse
    <3>1. /\ pc' = "group" /\ todo' = {RegionOf(s) : s \in Shards}
          /\ memory' = [s \in Shards |->
                          [d \in 0 .. ShardBytes(job.tensor, RegionOf(s)) - 1 |-> Unwritten]]
      BY <1>5, <2>2 DEF OpenManagers
    <3>2. Shards' = Shards /\ \A s : RegionOf(s)' = RegionOf(s)
      BY <1>1, JobKeeps
    <3>3. Sized'
      BY <1>1, <3>1, <3>2 DEF Sized
    <3>4. Finished'
      BY <3>1, <3>2 DEF Finished
    <3> QED
      BY <1>2, <3>1, <3>3, <3>4 DEF DInv, Underway, Uploaded, Delivered
  <2> QED
    BY <2>1, <2>2
<1> QED
  BY <1>3, <1>4, <1>5

\* Of a new group nothing was sent, and the groups behind are there.
LEMMA DInvNextGroup == ASSUME DInv, NextGroup PROVE DInv'
<1> USE DEF Streaming, Mapping
<1>1. pc = "group" /\ UNCHANGED <<job, memory, asked, flying, broken>>
  BY DEF NextGroup
<1>2. Shards' = Shards /\ \A s : RegionOf(s)' = RegionOf(s)
  BY <1>1, JobKeeps
<1>3. \A s : \A d : Arrived(s, d)' <=> Arrived(s, d)
  BY <1>1, ArrivedKeeps
<1>4. Sized'
  BY <1>1, <1>2 DEF NextGroup, DInv, Sized
<1>5. CASE pc' = "wait"
  <2>1. PICK g \in todo : region' = g /\ todo' = todo \ {g} /\ cursor' = Start /\ pending' = NoHandles
    BY <1>5 DEF NextGroup
  <2>2. Addressed'
    BY <2>1 DEF Addressed, NoHandles, Lanes
  <2>3. Underway'
    BY <1>5, <2>1 DEF Underway, Sent, Start
  <2>4. Finished'
    <3> SUFFICES ASSUME NEW s \in Shards, RegionOf(s) \notin todo', RegionOf(s) # region',
                        NEW d \in DOMAIN memory[s]
                 PROVE  Arrived(s, d)
      BY <1>1, <1>2, <1>3, <1>5 DEF Finished
    <3>1. RegionOf(s) \notin todo
      BY <2>1
    <3> QED
      BY <1>1, <3>1 DEF DInv, Finished
  <2> QED
    BY <1>4, <1>5, <2>2, <2>3, <2>4 DEF DInv, Uploaded, Delivered
<1>6. CASE pc' # "wait"
  <2>1. UNCHANGED <<todo, region, cursor, pending>> /\ pc' \in {"retrieve", "unwind"}
    BY <1>1, <1>6 DEF NextGroup
  <2>2. CASE pc' = "unwind"
    BY <1>1, <2>1, <2>2, DInvLeave
  <2>3. CASE pc' = "retrieve"
    <3>1. Finished'
      BY <1>1, <1>2, <1>3, <2>1, <2>3 DEF DInv, Finished
    <3> QED
      BY <1>1, <1>4, <2>1, <2>3, <3>1, AddressedKeeps DEF DInv, Underway, Uploaded, Delivered
  <2> QED
    BY <2>1, <2>2, <2>3
<1> QED
  BY <1>5, <1>6

\* A handle whose transfer has landed is not on its way.
LEMMA DInvAwait ==
  ASSUME DInv, LanesInStep, NEW l \in Lanes, NEW next \in {"wait", "drain"}, pc = next, Await(l, next)
  PROVE  DInv'
<1> USE DEF Streaming, Mapping
<1>1. PICK t \in pending[l] :
        /\ t \notin flying
        /\ pending' = [pending EXCEPT ![l] = @ \ {t}]
        /\ pc' = IF t \in broken THEN "unwind" ELSE next
        /\ UNCHANGED <<job, todo, region, cursor, asked, flying, broken, memory>>
  BY DEF Await, Landed, Rest
<1>2. DOMAIN pending = Lanes
  BY DEF LanesInStep
<1>3. \A m \in Lanes : pending'[m] \subseteq pending[m]
  BY <1>1, <1>2
<1>4. CASE t \in broken
  BY <1>1, <1>3, <1>4, DInvLeave
<1>5. CASE t \notin broken
  <2>1. pc' = pc
    BY <1>1, <1>5
  <2>2. Shards' = Shards /\ (\A s : RegionOf(s)' = RegionOf(s)) /\ Destinations' = Destinations
    BY <1>1, GroupStands
  <2>3. \A s : \A d : Arrived(s, d)' <=> Arrived(s, d)
    BY <1>1, ArrivedKeeps
  <2>4. ASSUME NEW s, NEW d, OnItsWay(s, d) PROVE OnItsWay(s, d)'
    <3>1. PICK m \in Lanes : \E u \in pending[m] : u.shard = s /\ d \in Brings(u) /\ u \in flying \cup broken
      BY <2>4 DEF OnItsWay
    <3>2. PICK u \in pending[m] : u.shard = s /\ d \in Brings(u) /\ u \in flying \cup broken
      BY <3>1
    <3>3. u \in pending'[m]
      BY <1>1, <1>2, <1>5, <3>2
    <3>4. Lanes' = Lanes
      BY DEF Lanes
    <3> QED
      BY <1>1, <3>2, <3>3, <3>4 DEF OnItsWay, Brings
  <2>5. Underway'
    <3>1. \A s : Sent(s)' = Sent(s)
      BY <1>1, <2>1 DEF Sent
    <3> QED
      BY <2>1, <2>2, <2>3, <2>4, <3>1 DEF DInv, Underway
  <2>6. Sized' /\ Finished'
    BY <1>1, <2>1, <2>2, <2>3 DEF DInv, Sized, Finished
  <2> QED
    BY <1>1, <1>3, <2>1, <2>5, <2>6, AddressedKeeps DEF DInv, Uploaded, Delivered
<1> QED
  BY <1>4, <1>5

\* A step within a group that neither sends nor lands anything.
LEMMA DInvStay ==
  ASSUME DInv, UNCHANGED <<job, todo, region, cursor, pending, flying, broken, memory>>,
         pc \in {"wait", "fill"}, pc' \in Mapping, pc' = "issue" => asked' = {}
  PROVE  DInv'
<1> USE DEF Streaming, Mapping
<1>1. /\ Shards' = Shards /\ \A s : RegionOf(s)' = RegionOf(s)
      /\ Destinations' = Destinations /\ ChunkLength' = ChunkLength
  BY GroupStands
<1>2. \A s : \A d : (Arrived(s, d)' <=> Arrived(s, d)) /\ (OnItsWay(s, d)' <=> OnItsWay(s, d))
  BY ArrivedKeeps, OnItsWayKeeps
<1>3. Addressed'
  BY AddressedKeeps DEF DInv
<1>4. Sized' /\ Finished'
  BY <1>1, <1>2 DEF DInv, Sized, Finished
<1>5. \A s : Sent(s)' = cursor.written /\ Sent(s) = cursor.written
  BY DEF Sent
<1>6. Underway'
  BY <1>1, <1>2, <1>5 DEF DInv, Underway
<1> QED
  BY <1>3, <1>4, <1>6 DEF DInv, Uploaded, Delivered

\* Waiting takes landed transfers away and nothing else.
LEMMA DInvWaitForLane == ASSUME IInv, DInv, WaitForLane PROVE DInv'
<1>1. CASE Await(ThisLane, "wait")
  BY <1>1, DInvAwait, ThisLaneIsALane DEF WaitForLane, IInv, LanesInStep
<1>2. CASE ~Await(ThisLane, "wait")
  <2>1. /\ pc = "wait" /\ pc' \in {"drain", "fill"}
        /\ UNCHANGED <<job, todo, region, cursor, pending, flying, broken, memory>>
    BY <1>2 DEF WaitForLane, hostVars
  <2> QED
    BY <2>1, DInvStay DEF Mapping
<1> QED
  BY <1>1, <1>2

\* A chunk that is read has not been sent.
LEMMA DInvFillLane == ASSUME DInv, FillLane PROVE DInv'
<1>1. /\ pc = "fill" /\ pc' \in {"issue", "unwind", "panicked"} /\ (pc' = "issue" => asked' = {})
      /\ UNCHANGED <<job, todo, region, cursor, pending, flying, broken, memory>>
  BY DEF FillLane
<1>2. CASE pc' = "issue"
  BY <1>1, <1>2, DInvStay DEF Mapping
<1>3. CASE pc' # "issue"
  BY <1>1, <1>3, DInvLeave
<1> QED
  BY <1>2, <1>3

\* The transfer of a chunk to a shard brings the rest of what has been sent to it.
LEMMA DInvIssueTransfer == ASSUME IInv, CInv, DInv, IssueTransfer PROVE DInv'
<1> USE DEF Streaming, Mapping
<1>1. UNCHANGED <<job, todo, region, cursor, begun, broken, memory>> /\ pc = "issue"
  BY DEF IssueTransfer
<1>2. CASE pc' = "unwind"
  BY <1>1, <1>2, DInvLeave DEF IssueTransfer
<1>3. CASE pc' # "unwind"
  <2> DEFINE t(s) == [lane |-> ThisLane, shard |-> s, start |-> ChunkStart,
                      length |-> ChunkLength, offset |-> cursor.written]
  <2>1. PICK s \in Destinations \ asked :
          /\ asked' = asked \cup {s}
          /\ flying' = flying \cup {t(s)}
          /\ pending' = [pending EXCEPT ![ThisLane] = @ \cup {t(s)}]
          /\ pc' = pc
    BY <1>3 DEF IssueTransfer
  <2> DEFINE u == t(s)
  <2>2. s \in Shards /\ RegionOf(s) = region
    BY <2>1 DEF Destinations
  <2>3. ThisLane \in Lanes /\ DOMAIN pending = Lanes /\ Lanes' = Lanes
    BY ThisLaneIsALane DEF IInv, LanesInStep, Lanes
  <2>4. ~GroupDone /\ CursorExact
    BY <1>1 DEF CInv, CursorExact
  <2>5. ChunkLength \in Nat \ {0} /\ cursor.written \in Nat
    BY <1>1, <2>4, CursorFacts
  <2>6. /\ ChunkStart \in Nat
        /\ \A c \in 0 .. ChunkLength - 1 : ChunkStart + c = Viewed(job.tensor, region, cursor.written + c)
    BY <1>1, ChunkLands
  <2>7. /\ Shards' = Shards /\ \A r : RegionOf(r)' = RegionOf(r)
        /\ Destinations' = Destinations /\ ChunkLength' = ChunkLength
    BY <1>1, GroupStands
  <2>8. \A r : \A d : Arrived(r, d)' <=> Arrived(r, d)
    BY <1>1, ArrivedKeeps
  <2>9. u \in Transfers
    BY <2>2, <2>3, <2>5, <2>6 DEF Transfers
  <2>10. \A d \in Brings(u) : u.start + (d - u.offset) = Viewed(job.tensor, RegionOf(u.shard), d)
    <3> SUFFICES ASSUME NEW d \in cursor.written .. cursor.written + ChunkLength - 1
                 PROVE  ChunkStart + (d - cursor.written) = Viewed(job.tensor, region, d)
      BY <2>2 DEF Brings
    <3>1. d - cursor.written \in 0 .. ChunkLength - 1 /\ cursor.written + (d - cursor.written) = d
      BY <2>5
    <3> QED
      BY <2>6, <3>1
  <2>11. Addressed'
    <3> SUFFICES ASSUME NEW l \in Lanes, NEW v \in pending'[l]
                 PROVE  /\ v \in Transfers
                        /\ \A d \in Brings(v) : v.start + (d - v.offset) = Viewed(job.tensor, RegionOf(v.shard), d)
      BY <1>1, <2>3, <2>7 DEF Addressed, Transfers, Brings
    <3>1. CASE v = u
      BY <2>9, <2>10, <3>1
    <3>2. CASE v # u
      <4>1. v \in pending[l]
        BY <2>1, <2>3, <3>2
      <4> QED
        BY <4>1 DEF DInv, Addressed
    <3> QED
      BY <3>1, <3>2
  <2>12. ASSUME NEW r, NEW d, OnItsWay(r, d) PROVE OnItsWay(r, d)'
    <3>1. PICK m \in Lanes : \E v \in pending[m] : v.shard = r /\ d \in Brings(v) /\ v \in flying \cup broken
      BY <2>12 DEF OnItsWay
    <3>2. PICK v \in pending[m] : v.shard = r /\ d \in Brings(v) /\ v \in flying \cup broken
      BY <3>1
    <3>3. v \in pending'[m] /\ v \in flying' \cup broken'
      BY <1>1, <2>1, <2>3, <3>2
    <3> QED
      BY <2>3, <3>2, <3>3 DEF OnItsWay, Brings
  <2>13. \A d \in Brings(u) : OnItsWay(s, d)'
    <3> SUFFICES ASSUME NEW d \in Brings(u) PROVE OnItsWay(s, d)'
      OBVIOUS
    <3>1. u \in pending'[ThisLane] /\ u \in flying' /\ u.shard = s
      BY <2>1, <2>3
    <3> HIDE DEF u
    <3> QED
      BY <2>3, <3>1 DEF OnItsWay, Brings
  <2>14. ASSUME NEW r \in Destinations, NEW d \in 0 .. Sent(r)' - 1 PROVE Arrived(r, d)' \/ OnItsWay(r, d)'
    <3>1. CASE r = s
      <4>1. Sent(r)' = cursor.written + ChunkLength /\ Sent(r) = cursor.written
        BY <1>1, <2>1, <2>7, <3>1 DEF Sent
      <4>2. d \in 0 .. Sent(r) - 1 \/ d \in cursor.written .. cursor.written + ChunkLength - 1
        BY <2>5, <2>14, <4>1
      <4>3. CASE d \in 0 .. Sent(r) - 1
        BY <1>1, <2>8, <2>12, <4>3 DEF DInv, Underway
      <4>4. CASE d \in cursor.written .. cursor.written + ChunkLength - 1
        BY <2>13, <3>1, <4>4 DEF Brings
      <4> QED
        BY <4>2, <4>3, <4>4
    <3>2. CASE r # s
      <4>1. Sent(r)' = Sent(r)
        BY <1>1, <2>1, <2>7, <3>2 DEF Sent
      <4> QED
        BY <1>1, <2>8, <2>12, <2>14, <4>1 DEF DInv, Underway
    <3> QED
      BY <3>1, <3>2
  <2>15. Underway'
    BY <2>7, <2>14 DEF Underway
  <2>16. Sized' /\ Finished'
    BY <1>1, <2>1, <2>7, <2>8 DEF DInv, Sized, Finished
  <2> QED
    BY <1>1, <2>1, <2>11, <2>15, <2>16 DEF DInv, Uploaded, Delivered
<1> QED
  BY <1>2, <1>3

\* When every shard of the group has its transfer, the chunk has been sent to all of them.
LEMMA DInvNextChunk == ASSUME DInv, NextChunk PROVE DInv'
<1> USE DEF Streaming, Mapping
<1>1. /\ pc = "issue" /\ pc' = "wait" /\ asked = Destinations
      /\ UNCHANGED <<job, todo, region, asked, pending, flying, broken, memory>>
      /\ cursor'.written = cursor.written + ChunkLength
  BY DEF NextChunk
<1>2. Shards' = Shards /\ (\A s : RegionOf(s)' = RegionOf(s)) /\ Destinations' = Destinations
  BY <1>1, JobKeeps DEF Destinations
<1>3. \A s : \A d : (Arrived(s, d)' <=> Arrived(s, d)) /\ (OnItsWay(s, d)' <=> OnItsWay(s, d))
  BY <1>1, ArrivedKeeps, OnItsWayKeeps
<1>4. Addressed'
  BY <1>1, AddressedKeeps DEF DInv
<1>5. Sized' /\ Finished'
  BY <1>1, <1>2, <1>3 DEF DInv, Sized, Finished
<1>6. \A s \in Destinations : Sent(s)' = Sent(s)
  BY <1>1 DEF Sent
<1>7. Underway'
  BY <1>1, <1>2, <1>3, <1>6 DEF DInv, Underway
<1> QED
  BY <1>1, <1>4, <1>5, <1>7 DEF DInv, Uploaded, Delivered

\* A group is done when all of it was sent and nothing of it is on its way.
LEMMA DInvDrainGroup == ASSUME IInv, CInv, DInv, DrainGroup PROVE DInv'
<1> USE DEF Streaming, Mapping
<1>1. pc = "drain" /\ UNCHANGED <<job, todo, region, cursor, memory>>
  BY DEF DrainGroup, Await
<1>2. CASE \E l \in Lanes : Await(l, "drain")
  BY <1>1, <1>2, DInvAwait DEF IInv
<1>3. CASE ~\E l \in Lanes : Await(l, "drain")
  <2>1. /\ pending = NoHandles /\ pending' = pending /\ pc' \in {"group", "unwind"}
        /\ pc' = "group" => cursor.written = Total
    BY <1>3 DEF DrainGroup
  <2>2. CASE pc' = "unwind"
    BY <1>1, <2>1, <2>2, DInvLeave
  <2>3. CASE pc' = "group"
    <3>1. Shards' = Shards /\ \A s : RegionOf(s)' = RegionOf(s)
      BY <1>1, JobKeeps
    <3>2. \A s : \A d : Arrived(s, d)' <=> Arrived(s, d)
      BY <1>1, ArrivedKeeps
    <3>3. \A s : \A d : ~OnItsWay(s, d)
      BY <2>1 DEF OnItsWay, NoHandles
    <3>4. ASSUME NEW s \in Shards, RegionOf(s) \notin todo, NEW d \in DOMAIN memory[s] PROVE Arrived(s, d)
      <4>1. CASE RegionOf(s) = region
        <5>1. s \in Destinations /\ Sent(s) = Total
          BY <1>1, <2>1, <2>3, <4>1 DEF Destinations, Sent
        <5>2. d \in 0 .. Sent(s) - 1
          BY <1>1, <3>4, <4>1, <5>1 DEF DInv, Sized, Total
        <5> QED
          BY <1>1, <3>3, <5>1, <5>2 DEF DInv, Underway
      <4>2. CASE RegionOf(s) # region
        BY <1>1, <3>4, <4>2 DEF DInv, Finished
      <4> QED
        BY <4>1, <4>2
    <3>5. Finished'
      BY <1>1, <2>3, <3>1, <3>2, <3>4 DEF Finished
    <3>6. Sized'
      BY <1>1, <2>3, <3>1 DEF DInv, Sized
    <3> QED
      BY <1>1, <2>1, <2>3, <3>5, <3>6, AddressedKeeps DEF DInv, Underway, Uploaded, Delivered
  <2> QED
    BY <2>1, <2>2, <2>3
<1> QED
  BY <1>2, <1>3

\* What is handed out is what arrived.
LEMMA DInvRetrieve == ASSUME CInv, DInv, Retrieve PROVE DInv'
<1> USE DEF Streaming, Mapping
<1>1. pc = "retrieve" /\ pc' \in {"ok", "err"} /\ UNCHANGED <<job, pending>>
  BY DEF Retrieve
<1>2. CASE pc' = "err"
  BY <1>1, <1>2, DInvLeave
<1>3. CASE pc' = "ok"
  <2>1. memory' = memory /\ todo = {}
    BY <1>1, <1>3 DEF Retrieve, CInv, Groups
  <2>2. Shards' = Shards /\ \A s : RegionOf(s)' = RegionOf(s)
    BY <1>1, JobKeeps
  <2>3. Delivered'
    <3>1. /\ DOMAIN memory = Shards
          /\ \A s \in Shards : DOMAIN memory[s] = 0 .. ShardBytes(job.tensor, RegionOf(s)) - 1
          /\ \A s \in Shards : \A d \in DOMAIN memory[s] : Arrived(s, d)
      BY <1>1, <2>1 DEF DInv, Sized, Finished
    <3> QED
      BY <1>1, <2>1, <2>2, <3>1, ArrivedKeeps DEF Delivered
  <2>4. Uploaded'
    BY <1>1, <1>3 DEF Uploaded, CInv, JobStands
  <2> QED
    BY <1>1, <1>3, <2>3, <2>4, AddressedKeeps DEF DInv, Sized, Underway, Finished
<1> QED
  BY <1>1, <1>2, <1>3

\* An early return asks nothing of the shards.
LEMMA DInvUnwind == ASSUME IInv, DInv, Unwind PROVE DInv'
<1>1. DOMAIN pending = Lanes
  BY DEF IInv, LanesInStep
<1>2. job' = job /\ pc' \in {"unwind", "err"} /\ \A l \in Lanes : pending'[l] \subseteq pending[l]
  BY <1>1 DEF Unwind, Rest
<1> QED
  BY <1>2, DInvLeave

\* The device copies what the lane holds, and that is what the transfer was issued for.
LEMMA DInvDevice == ASSUME IInv, CInv, DInv, Device PROVE DInv'
<1> USE DEF Streaming, Mapping
<1>1. PICK t \in flying : Land(t) \/ Break(t)
  BY DEF Device
<1>2. /\ flying' = flying \ {t} /\ UNCHANGED <<job, pc, todo, region, cursor, asked, pending>>
  BY <1>1 DEF Land, Break, hostVars
<1>3. pc \in {"wait", "fill", "issue", "drain", "unwind"}
  BY <1>1, NoFlight DEF IInv, PcRange, Laneless
<1>4. CASE pc = "unwind"
  BY <1>2, <1>4, DInvLeave
<1>5. CASE pc \in Mapping
  <2>1. /\ t.lane \in Lanes /\ t \in pending[t.lane] /\ t.shard \in managers /\ managers = Shards
        /\ lane[t.lane] = [mapped |-> TRUE, start |-> t.start, length |-> t.length]
    BY <1>1, <1>5 DEF IInv, HandlesHold, Owned
  <2>2. t \in Transfers /\ \A d \in Brings(t) : t.start + (d - t.offset) = Viewed(job.tensor, RegionOf(t.shard), d)
    BY <2>1 DEF DInv, Addressed
  <2>3. Shards' = Shards /\ (\A s : RegionOf(s)' = RegionOf(s)) /\ Destinations' = Destinations /\ ChunkLength' = ChunkLength
    BY <1>2, GroupStands
  <2>4. \A s : Sent(s)' = Sent(s)
    BY <1>2, <2>3 DEF Sent
  <2>5. Addressed'
    BY <1>2, AddressedKeeps DEF DInv
  <2>6. DOMAIN memory = Shards
    BY <1>5 DEF DInv, Sized
  <2>7. CASE Land(t)
    <3>1. /\ broken' = broken
          /\ memory' = [memory EXCEPT ![t.shard] =
               [d \in DOMAIN @ |-> IF d \in Brings(t) THEN Held(t, d) ELSE @[d]]]
      BY <2>7 DEF Land, Brings
    <3>2. DOMAIN memory' = Shards /\ \A s \in Shards : DOMAIN memory'[s] = DOMAIN memory[s]
      BY <2>1, <2>6, <3>1
    <3>3. \A d \in DOMAIN memory[t.shard] :
            memory'[t.shard][d] = IF d \in Brings(t) THEN Held(t, d) ELSE memory[t.shard][d]
      BY <2>1, <2>6, <3>1
    <3>4. \A d \in Brings(t) : Held(t, d) = Viewed(job.tensor, RegionOf(t.shard), d)
      BY <2>1, <2>2 DEF Held
    <3>5. ASSUME NEW s \in Shards, NEW d \in DOMAIN memory[s], Arrived(s, d) PROVE Arrived(s, d)'
      <4>1. CASE s = t.shard
        BY <1>2, <2>3, <3>3, <3>4, <3>5, <4>1 DEF Arrived
      <4>2. CASE s # t.shard
        <5>1. memory'[s] = memory[s]
          BY <2>6, <3>1, <3>5, <4>2
        <5> QED
          BY <1>2, <2>3, <3>5, <5>1 DEF Arrived
      <4> QED
        BY <4>1, <4>2
    <3>6. ASSUME NEW s \in Shards, NEW d \in DOMAIN memory[s], OnItsWay(s, d) PROVE Arrived(s, d)' \/ OnItsWay(s, d)'
      <4>1. PICK m \in Lanes : \E v \in pending[m] : v.shard = s /\ d \in Brings(v) /\ v \in flying \cup broken
        BY <3>6 DEF OnItsWay
      <4>2. PICK v \in pending[m] : v.shard = s /\ d \in Brings(v) /\ v \in flying \cup broken
        BY <4>1
      <4>3. CASE v = t
        <5>1. memory'[s][d] = Viewed(job.tensor, RegionOf(s), d)
          BY <3>3, <3>4, <4>2, <4>3
        <5> QED
          BY <1>2, <2>3, <5>1 DEF Arrived
      <4>4. CASE v # t
        <5>1. v \in flying' \cup broken' /\ v \in pending'[m] /\ Lanes' = Lanes
          BY <1>2, <3>1, <4>2, <4>4 DEF Lanes
        <5> QED
          BY <4>2, <5>1 DEF OnItsWay, Brings
      <4> QED
        BY <4>3, <4>4
    <3>7. Sized'
      BY <1>2, <1>5, <2>3, <3>2 DEF DInv, Sized
    <3>8. Finished'
      BY <1>2, <1>5, <2>3, <3>2, <3>5 DEF DInv, Finished
    <3>9. ASSUME NEW s \in Destinations, NEW d \in 0 .. Sent(s) - 1 PROVE s \in Shards /\ d \in DOMAIN memory[s]
      <4>1. s \in Shards /\ DOMAIN memory[s] = 0 .. Total - 1
        BY <1>5 DEF DInv, Sized, Destinations, Total
      <4>2. Sent(s) \in Nat /\ Sent(s) <= Total /\ Total \in Nat
        <5>1. CursorExact /\ (pc = "issue" => ~GroupDone)
          BY <1>5 DEF CInv, CursorExact
        <5>2. Total \in Nat /\ cursor.written \in Nat /\ cursor.written <= Total
          BY <1>5, <5>1, CursorFacts
        <5>3. pc = "issue" => ChunkLength \in Nat /\ cursor.written + ChunkLength <= Total
          BY <1>5, <5>1, CursorFacts
        <5> QED
          BY <5>2, <5>3 DEF Sent
      <4> QED
        BY <3>9, <4>1, <4>2
    <3>10. Underway'
      BY <1>2, <1>5, <2>3, <2>4, <3>5, <3>6, <3>9 DEF DInv, Underway
    <3> QED
      BY <1>2, <1>5, <2>5, <3>7, <3>8, <3>10 DEF DInv, Uploaded, Delivered
  <2>8. CASE Break(t)
    <3>1. broken' = broken \cup {t} /\ memory' = memory
      BY <2>8 DEF Break
    <3>2. \A s : \A d : Arrived(s, d)' <=> Arrived(s, d)
      BY <1>2, <3>1, ArrivedKeeps
    <3>3. flying' \cup broken' = flying \cup broken
      BY <1>1, <1>2, <3>1
    <3>4. \A s : \A d : OnItsWay(s, d)' <=> OnItsWay(s, d)
      BY <1>2, <3>3 DEF OnItsWay, Lanes, Brings
    <3>5. Sized' /\ Finished'
      BY <1>2, <2>3, <3>1, <3>2 DEF DInv, Sized, Finished
    <3>6. Underway'
      BY <1>2, <2>3, <2>4, <3>2, <3>4 DEF DInv, Underway
    <3> QED
      BY <1>2, <1>5, <2>5, <3>5, <3>6 DEF DInv, Uploaded, Delivered
  <2> QED
    BY <1>1, <2>7, <2>8
<1> QED
  BY <1>3, <1>4, <1>5

\* A step that changes nothing.
LEMMA DInvStutter == ASSUME DInv, UNCHANGED vars PROVE DInv'
<1>1. UNCHANGED <<job, pc, todo, region, cursor, asked, pending, flying, broken, memory>>
  BY DEF vars, hostVars
<1>2. /\ Shards' = Shards /\ (\A s : RegionOf(s)' = RegionOf(s)) /\ Destinations' = Destinations
      /\ ChunkLength' = ChunkLength /\ Count' = Count
  BY <1>1, GroupStands DEF Count
<1>3. \A s : \A d : (Arrived(s, d)' <=> Arrived(s, d)) /\ (OnItsWay(s, d)' <=> OnItsWay(s, d))
  BY <1>1, ArrivedKeeps, OnItsWayKeeps
<1>4. Addressed'
  BY <1>1, AddressedKeeps DEF DInv
<1>5. Sized' /\ Finished' /\ Uploaded' /\ Delivered'
  BY <1>1, <1>2, <1>3 DEF DInv, Sized, Finished, Uploaded, Delivered
<1>6. Underway'
  <2>1. \A s : Sent(s)' = Sent(s)
    BY <1>1, <1>2 DEF Sent
  <2> QED
    BY <1>1, <1>2, <1>3, <2>1 DEF DInv, Underway
<1> QED
  BY <1>4, <1>5, <1>6 DEF DInv

\* Every step keeps what is known of the bytes that were sent.
LEMMA DInvStep == IInv /\ CInv /\ DInv /\ [Next]_vars => DInv'
<1> SUFFICES ASSUME IInv, CInv, DInv, [Next]_vars PROVE DInv'
  OBVIOUS
<1>1. CASE Host
  BY <1>1, DInvBegin, DInvUploadShard, DInvNextGroup, DInvWaitForLane, DInvFillLane, DInvIssueTransfer,
     DInvNextChunk, DInvDrainGroup, DInvRetrieve, DInvUnwind
  DEF Host
<1>2. CASE Device
  BY <1>2, DInvDevice
<1>3. CASE UNCHANGED vars
  BY <1>3, DInvStutter
<1> QED
  BY <1>1, <1>2, <1>3 DEF Next, Returned

\* The cursor is always exact.
LEMMA CInvAlways == Spec => []CInv
  BY CInvInit, CInvStep, PTL DEF Spec

\* What was sent has always arrived or is on its way.
LEMMA DInvAlways == Spec => []DInv
  BY DInvInit, DInvStep, IInvAlways, CInvAlways, PTL DEF Spec

-----------------------------------------------------------------------------
(* The bytes of a shard.                                                     *)

\* A component without bytes has none on any shard either.
LEMMA NothingToHold ==
  ASSUME NEW j \in Jobs, ValidShape(j.sharding, j.tensor), Bytes(j.tensor) = 0, NEW s
  PROVE  ShardBytes(j.tensor, Region(j.sharding, j.tensor, s)) = 0
<1> DEFINE t == j.tensor
           r == Region(j.sharding, t, s)
           axes == j.sharding.axes
           lens == Lengths(r)
<1>1. t.dims \in Seq(Nat) /\ t.width \in Nat \ {0}
  BY JobsAssumption
<1>2. PICK z \in DOMAIN t.dims : t.dims[z] = 0
  <2> DEFINE dims == t.dims
             p == Product(dims)
             w == t.width
  <2>1. p * w = 0 /\ dims \in Seq(Nat) /\ w \in Nat \ {0} /\ p \in Nat
    BY <1>1, ProductNat DEF Bytes
  <2>2. (p # 0 <=> \A k \in DOMAIN dims : dims[k] # 0)
    BY <2>1, ProductZero
  <2> HIDE DEF p, w
  <2>3. p = 0
    BY ONLY <2>1
  <2> QED
    BY <2>2, <2>3
<1>3. \A i \in DOMAIN t.dims : t.dims[i] \in Nat
  BY <1>1
<1> DEFINE block(i) == t.dims[i] \div axes[AxisOf(axes, t.parts[i])].size
<1>4. ASSUME j.sharding.kind = "mesh", NEW i \in DOMAIN t.dims, t.parts[i] # Whole
      PROVE  block(i) \in Nat /\ (t.dims[i] = 0 => block(i) = 0)
  <2> DEFINE n == t.dims[i]
             m == axes[AxisOf(axes, t.parts[i])].size
  <2>1. \E k \in DOMAIN axes : axes[k].tag = t.parts[i]
    BY <1>4 DEF ValidShape, ShardedAxes
  <2>2. AxisOf(axes, t.parts[i]) \in DOMAIN axes
    BY <2>1 DEF AxisOf
  <2>3. n \in Nat /\ m \in Nat \ {0}
    BY <1>3, <1>4, <2>2, AxesNotEmpty
  <2> HIDE DEF n, m
  <2>4. n \div m \in Nat /\ (n = 0 => n \div m = 0)
    BY ONLY <2>3
  <2> QED
    BY <2>4 DEF n, m
<1>5. r = [i \in DOMAIN t.dims |->
             IF j.sharding.kind # "mesh" \/ t.parts[i] = Whole
             THEN [start |-> 0, length |-> t.dims[i]]
             ELSE [start |-> Digits(s, Sizes(axes))[AxisOf(axes, t.parts[i])] * block(i),
                   length |-> block(i)]]
  BY DEF Region
<1> HIDE DEF block, r
<1>6. DOMAIN r = DOMAIN t.dims
  BY <1>5
<1>7. ASSUME NEW i \in DOMAIN t.dims PROVE r[i].length \in Nat /\ (t.dims[i] = 0 => r[i].length = 0)
  <2>1. CASE j.sharding.kind # "mesh" \/ t.parts[i] = Whole
    BY <1>3, <1>5, <1>7, <2>1
  <2>2. CASE ~(j.sharding.kind # "mesh" \/ t.parts[i] = Whole)
    BY <1>4, <1>5, <1>7, <2>2
  <2> QED
    BY <2>1, <2>2
<1>8. lens \in Seq(Nat) /\ DOMAIN lens = DOMAIN t.dims /\ lens[z] = 0
  <2> DEFINE n == Len(t.dims)
  <2>1. n \in Nat /\ DOMAIN t.dims = 1 .. n
    BY <1>1
  <2> HIDE DEF n
  <2>2. lens = [i \in 1 .. n |-> r[i].length] /\ \A i \in 1 .. n : r[i].length \in Nat
    BY <1>6, <1>7, <2>1 DEF Lengths
  <2> HIDE DEF lens
  <2>3. lens \in Seq(Nat) /\ DOMAIN lens = 1 .. n
    BY <2>1, <2>2
  <2> QED
    BY <1>2, <1>7, <2>1, <2>2, <2>3
<1> HIDE DEF lens
<1>9. Product(lens) = 0
  <2>1. Product(lens) # 0 <=> \A k \in DOMAIN lens : lens[k] # 0
    BY <1>8, ProductZero
  <2> QED
    BY <1>2, <1>8, <2>1
<1>10. 0 * t.width = 0
  BY <1>1
<1> QED
  BY <1>9, <1>10 DEF ShardBytes, lens, r

\* A view of the region of a shard shows what the shard is meant to hold, in order.
LEMMA ViewIsMeant ==
  ASSUME NEW j \in Jobs, ValidShape(j.sharding, j.tensor), NEW s \in Nat,
         NEW r, r = Region(j.sharding, j.tensor, s),
         NEW f, DOMAIN f = 0 .. ShardBytes(j.tensor, r) - 1,
         \A d \in DOMAIN f : f[d] = Viewed(j.tensor, r, d)
  PROVE  /\ {f[d] : d \in DOMAIN f} = MeantFor(j.sharding, j.tensor, s)
         /\ \A d, e \in DOMAIN f : d < e => f[d] < f[e]
<1> DEFINE t == j.tensor
           meant == MeantFor(j.sharding, t, s)
<1>1. CASE Bytes(t) = 0
  <2>1. ShardBytes(t, r) = 0
    BY <1>1, NothingToHold
  <2>2. DOMAIN f = {}
    BY <2>1
  <2>3. meant = {}
    BY <1>1 DEF MeantFor
  <2> QED
    BY <2>2, <2>3
<1>2. CASE Bytes(t) # 0
  <2>1. Fits(t, r)
    BY <1>2, RegionFits
  <2>2. ShardBytes(t, r) \in Nat
    <3> DEFINE p == Product(Lengths(r))
               w == t.width
    <3>1. Positive(Lengths(r)) /\ w \in Nat
      BY <2>1, FitsIs DEF Fits
    <3>2. p \in Nat
      BY <3>1, ProductNat DEF Positive
    <3>3. ShardBytes(t, r) = p * w
      BY DEF ShardBytes
    <3> HIDE DEF p, w
    <3> QED
      BY <3>1, <3>2, <3>3
  <2>3. DOMAIN f \subseteq Nat
    BY <2>2
  <2>4. meant = {b \in 0 .. Bytes(t) - 1 : \A i \in DOMAIN t.dims :
                    Along(t, b \div t.width, i) \in r[i].start .. r[i].start + r[i].length - 1}
    BY <1>2, MeantIs
  <2>5. ASSUME NEW d \in DOMAIN f PROVE f[d] \in meant
    <3> DEFINE b == Viewed(t, r, d)
    <3>1. /\ b \in 0 .. Bytes(t) - 1
          /\ \A i \in DOMAIN t.dims : Along(t, b \div t.width, i) \in r[i].start .. r[i].start + r[i].length - 1
      BY <2>1, <2>3, ViewedFits
    <3> HIDE DEF b, t
    <3>2. b \in meant
      BY <2>4, <3>1
    <3> QED
      BY <3>2 DEF b, t
  <2>6. ASSUME NEW b \in meant PROVE \E d \in DOMAIN f : f[d] = b
    <3>1. /\ b \in 0 .. Bytes(t) - 1
          /\ \A i \in DOMAIN t.dims : Along(t, b \div t.width, i) \in r[i].start .. r[i].start + r[i].length - 1
      BY <2>4
    <3>2. \E d \in 0 .. ShardBytes(t, r) - 1 : Viewed(t, r, d) = b
      BY <2>1, <3>1, ViewedOnto
    <3> QED
      BY <3>2
  <2>7. ASSUME NEW d \in DOMAIN f, NEW e \in DOMAIN f, d < e PROVE f[d] < f[e]
    <3>1. Viewed(t, r, d) < Viewed(t, r, e)
      BY <2>1, <2>7, ViewedOrder
    <3> QED
      BY <3>1
  <2> QED
    BY <2>5, <2>6, <2>7
<1> QED
  BY <1>1, <1>2

\* Shards whose bytes have arrived hold what they are meant to.
LEMMA ShardsHold == ASSUME JobStands, Uploaded, Delivered PROVE ShardsHoldTheirRegion
<1> SUFFICES ASSUME pc = "ok", NEW s \in Shards
             PROVE  /\ {memory[s][d] : d \in DOMAIN memory[s]} = MeantFor(job.sharding, job.tensor, s)
                    /\ \A d, e \in DOMAIN memory[s] : d < e => memory[s][d] < memory[s][e]
  BY DEF ShardsHoldTheirRegion, Delivered
<1>1. job \in Jobs /\ ValidShape(job.sharding, job.tensor) /\ s \in Nat
  BY CountNat DEF JobStands, Uploaded
<1> DEFINE f == memory[s]
           r == RegionOf(s)
<1>2. r = Region(job.sharding, job.tensor, s)
  BY DEF RegionOf
<1>3. DOMAIN f = 0 .. ShardBytes(job.tensor, r) - 1 /\ \A d \in DOMAIN f : f[d] = Viewed(job.tensor, r, d)
  BY DEF Delivered, Arrived
<1> HIDE DEF f, r
<1>4. /\ {f[d] : d \in DOMAIN f} = MeantFor(job.sharding, job.tensor, s)
      /\ \A d, e \in DOMAIN f : d < e => f[d] < f[e]
  BY ONLY <1>1, <1>2, <1>3, ViewIsMeant
<1> QED
  BY <1>4 DEF f

-----------------------------------------------------------------------------
(* What is read.                                                             *)

\* The bytes of the groups behind the one that is being streamed.
Behind(b) ==
  \E s \in Shards :
    /\ RegionOf(s) \notin todo /\ (pc \in Mapping => RegionOf(s) # region)
    /\ b \in MeantFor(job.sharding, job.tensor, s)

\* The bytes of the group that is being streamed, as far as it was read.
Got == IF pc = "issue" THEN cursor.written + ChunkLength ELSE cursor.written
Current(b) == pc \in Mapping /\ \E d \in 0 .. Got - 1 : b = Viewed(job.tensor, region, d)

RInv ==
  /\ DOMAIN reads = 0 .. Bytes(job.tensor) - 1
  /\ \A b \in DOMAIN reads : reads[b] \in {0, 1}
  /\ pc \in {"start", "host", "open"} => \A b \in DOMAIN reads : reads[b] = 0
  /\ pc \in Mapping \cup {"group"} => \A b \in DOMAIN reads : reads[b] = 0 \/ Behind(b) \/ Current(b)

\* At the call nothing was read.
LEMMA RInvInit == Init => RInv
  BY DEF Init, RInv, Mapping

\* Nothing is read, and the group goes on or the stream is left.
LEMMA RInvKeeps ==
  ASSUME RInv, UNCHANGED <<job, todo, region, cursor, reads>>,
         \/ pc' = pc
         \/ pc \in {"wait", "fill", "drain"} /\ pc' \in {"wait", "fill", "drain"}
         \/ pc' \in {"unwind", "err", "ok", "panicked", "retrieve", "upload"}
         \/ pc \in {"start", "host", "open"} /\ pc' \in {"host", "open"}
  PROVE  RInv'
<1> USE DEF Mapping
<1>1. Shards' = Shards /\ (\A s : RegionOf(s)' = RegionOf(s)) /\ ChunkLength' = ChunkLength
  BY GroupStands
<1>2. pc \in Mapping /\ pc' \in Mapping => Got' = Got
  BY <1>1 DEF Got
<1>3. (pc \in Mapping /\ pc' \in Mapping) \/ pc' = pc => \A b : (Behind(b)' <=> Behind(b)) /\ (Current(b)' <=> Current(b))
  BY <1>1, <1>2 DEF Behind, Current
<1> QED
  BY <1>3 DEF RInv

\* The file is read as a whole, once.
LEMMA RInvReadWhole == ASSUME RInv, ReadWhole PROVE RInv'
<1>1. CASE pc' = "upload"
  <2>1. pc = "host" /\ job' = job /\ reads' = [b \in DOMAIN reads |-> reads[b] + 1]
    BY <1>1 DEF ReadWhole, Refuse
  <2>2. \A b \in DOMAIN reads : reads[b] = 0
    BY <2>1 DEF RInv
  <2>3. DOMAIN reads' = DOMAIN reads /\ \A b \in DOMAIN reads : reads'[b] = 1
    BY <2>1, <2>2
  <2> QED
    BY <1>1, <2>1, <2>3 DEF RInv, Mapping
<1>2. CASE pc' # "upload"
  <2>1. pc' = "err" /\ (UNCHANGED <<job, todo, region, cursor, reads>>
                        \/ (pc = "host" /\ job' = job /\ reads' = [b \in DOMAIN reads |-> reads[b] + 1]))
    BY <1>2 DEF ReadWhole, Refuse, hostVars
  <2>2. CASE UNCHANGED <<job, todo, region, cursor, reads>>
    BY <2>1, <2>2, RInvKeeps
  <2>3. CASE pc = "host" /\ job' = job /\ reads' = [b \in DOMAIN reads |-> reads[b] + 1]
    <3>1. \A b \in DOMAIN reads : reads[b] = 0
      BY <2>3 DEF RInv
    <3>2. DOMAIN reads' = DOMAIN reads /\ \A b \in DOMAIN reads : reads'[b] = 1
      BY <2>3, <3>1
    <3> QED
      BY <2>1, <2>3, <3>2 DEF RInv, Mapping
  <2> QED
    BY <2>1, <2>2, <2>3
<1> QED
  BY <1>1, <1>2

\* The groups behind stay behind when the next one is begun.
LEMMA RInvNextGroup == ASSUME RInv, NextGroup PROVE RInv'
<1>1. pc = "group" /\ UNCHANGED <<job, reads>>
  BY DEF NextGroup
<1>2. CASE pc' = "wait"
  <2>1. PICK g \in todo : region' = g /\ todo' = todo \ {g}
    BY <1>2 DEF NextGroup
  <2>2. Shards' = Shards /\ \A s : RegionOf(s)' = RegionOf(s)
    BY <1>1, JobKeeps
  <2>3. \A b : Behind(b) => Behind(b)'
    BY <1>1, <2>1, <2>2 DEF Behind
  <2>4. \A b \in DOMAIN reads : reads[b] = 0 \/ Behind(b)
    BY <1>1 DEF RInv, Current, Mapping
  <2> QED
    BY <1>1, <1>2, <2>3, <2>4 DEF RInv
<1>3. CASE pc' # "wait"
  BY <1>1, <1>3, RInvKeeps DEF NextGroup
<1> QED
  BY <1>2, <1>3

\* The bytes of a group that were read belong to its shards.
LEMMA CurrentIsMeant ==
  ASSUME NEW j \in Jobs, ValidShape(j.sharding, j.tensor), Bytes(j.tensor) # 0, NEW s \in Nat,
         NEW r, r = Region(j.sharding, j.tensor, s), NEW d \in Nat
  PROVE  Viewed(j.tensor, r, d) \in MeantFor(j.sharding, j.tensor, s)
<1> DEFINE t == j.tensor
           b == Viewed(t, r, d)
<1>1. Fits(t, r)
  BY RegionFits
<1>2. /\ b \in 0 .. Bytes(t) - 1
      /\ \A i \in DOMAIN t.dims : Along(t, b \div t.width, i) \in r[i].start .. r[i].start + r[i].length - 1
  BY <1>1, ViewedFits
<1>3. MeantFor(j.sharding, t, s) =
        {e \in 0 .. Bytes(t) - 1 : \A i \in DOMAIN t.dims :
           Along(t, e \div t.width, i) \in r[i].start .. r[i].start + r[i].length - 1}
  <2> DEFINE q == Region(j.sharding, t, s)
  <2>1. MeantFor(j.sharding, t, s) =
          {e \in 0 .. Bytes(t) - 1 : \A i \in DOMAIN t.dims :
             Along(t, e \div t.width, i) \in q[i].start .. q[i].start + q[i].length - 1}
    BY MeantIs
  <2> HIDE DEF q
  <2> QED
    BY <2>1 DEF q
<1> HIDE DEF b, t
<1> QED
  BY <1>2, <1>3 DEF b, t

\* No byte of the chunk at the cursor has been read yet.
LEMMA RInvFillLane == ASSUME CInv, RInv, FillLane PROVE RInv'
<1> USE DEF Mapping
<1>1. pc = "fill" /\ UNCHANGED <<job, todo, region, cursor>>
  BY DEF FillLane
<1>2. CASE pc' # "issue"
  BY <1>1, <1>2, RInvKeeps DEF FillLane
<1>3. CASE pc' = "issue"
  <2> DEFINE chunk == ChunkStart .. ChunkStart + ChunkLength - 1
  <2>1. reads' = [b \in DOMAIN reads |-> IF b \in chunk THEN reads[b] + 1 ELSE reads[b]]
    BY <1>3 DEF FillLane
  <2>2. /\ job \in Jobs /\ ValidShape(job.sharding, job.tensor) /\ Bytes(job.tensor) # 0
        /\ ~GroupDone /\ CursorExact
    BY <1>1 DEF CInv, JobStands, CursorExact, Streaming
  <2>3. PICK s \in Shards : region = Region(job.sharding, job.tensor, s)
    BY <1>1 DEF CInv, Groups, RegionOf
  <2>4. s \in Nat /\ Shards \subseteq Nat
    BY <2>2, CountNat
  <2>5. ChunkLength \in Nat \ {0} /\ cursor.written \in Nat
    BY <1>1, <2>2, CursorFacts
  <2>6. /\ ChunkStart \in Nat
        /\ \A c \in 0 .. ChunkLength - 1 :
             /\ cursor.written + c \in 0 .. Total - 1
             /\ ChunkStart + c = Viewed(job.tensor, region, cursor.written + c)
    BY <1>1, ChunkLands
  <2>7. /\ Shards' = Shards /\ (\A r : RegionOf(r)' = RegionOf(r)) /\ ChunkLength' = ChunkLength
    BY <1>1, GroupStands
  <2>8. Got = cursor.written /\ Got' = cursor.written + ChunkLength
    BY <1>1, <1>3, <2>7 DEF Got
  <2>9. \A b : Behind(b) => Behind(b)'
    BY <1>1, <1>3, <2>7 DEF Behind
  <2>10. \A b : Current(b) => Current(b)'
    <3>1. 0 .. Got - 1 \subseteq 0 .. Got' - 1
      BY <2>5, <2>8
    <3> QED
      BY <1>1, <1>3, <3>1 DEF Current
  <2>11. ASSUME NEW b \in chunk PROVE ~Behind(b) /\ ~Current(b) /\ Current(b)'
    <3> DEFINE c == b - ChunkStart
               e == cursor.written + c
    <3>1. c \in 0 .. ChunkLength - 1 /\ ChunkStart + c = b /\ c \in Nat
      BY <2>5, <2>6, <2>11
    <3>2. e \in 0 .. Total - 1 /\ b = Viewed(job.tensor, region, e)
      BY <2>6, <3>1
    <3>3. e \in Nat /\ e \in 0 .. Got' - 1 /\ \A d \in 0 .. Got - 1 : d < e
      BY <2>5, <2>8, <3>1
    <3> HIDE DEF c, e
    <3>4. Current(b)'
      BY <1>1, <1>3, <3>2, <3>3 DEF Current
    <3>5. b \in MeantFor(job.sharding, job.tensor, s)
      <4>1. Viewed(job.tensor, region, e) \in MeantFor(job.sharding, job.tensor, s)
        BY ONLY <2>2, <2>3, <2>4, <3>3, CurrentIsMeant
      <4> QED
        BY <3>2, <4>1
    <3>6. ~Behind(b)
      <4> SUFFICES ASSUME NEW z \in Shards, RegionOf(z) # region, b \in MeantFor(job.sharding, job.tensor, z)
                   PROVE  FALSE
        BY <1>1 DEF Behind
      <4>1. z \in Nat
        BY <2>4
      <4>2. b \in MeantFor(job.sharding, job.tensor, s) \cap MeantFor(job.sharding, job.tensor, z)
        BY <3>5
      <4>3. Region(job.sharding, job.tensor, s) = Region(job.sharding, job.tensor, z)
        BY ONLY <2>2, <2>4, <4>1, <4>2, RegionsApart
      <4> QED
        BY <2>3, <4>3 DEF RegionOf
    <3>7. ~Current(b)
      <4> SUFFICES ASSUME NEW d \in 0 .. Got - 1, b = Viewed(job.tensor, region, d) PROVE FALSE
        BY DEF Current
      <4> DEFINE t == job.tensor
      <4>1. Fits(t, region)
        BY <2>2, <2>3, <2>4, RegionFits
      <4>2. Total = ShardBytes(t, region)
        BY DEF Total
      <4>3. d < e /\ d \in 0 .. Total - 1 /\ d \in Nat
        <5>1. Total \in Nat
          BY <1>1, <2>2, CursorFacts
        <5> QED
          BY <2>5, <2>8, <3>2, <3>3, <5>1
      <4> HIDE DEF t
      <4>4. Viewed(t, region, d) < Viewed(t, region, e)
        BY <3>2, <4>1, <4>2, <4>3, ViewedOrder
      <4>5. b = Viewed(t, region, d) /\ b = Viewed(t, region, e)
        BY <3>2 DEF t
      <4>6. b \in Int
        BY <2>5, <2>6, <2>11
      <4> QED
        BY ONLY <4>4, <4>5, <4>6
    <3> QED
      BY <3>4, <3>6, <3>7
  <2> HIDE DEF chunk
  <2>12. DOMAIN reads' = DOMAIN reads
    BY <2>1
  <2>13. ASSUME NEW b \in DOMAIN reads PROVE reads'[b] \in {0, 1} /\ (reads'[b] = 0 \/ Behind(b)' \/ Current(b)')
    <3>1. reads[b] \in {0, 1} /\ (reads[b] = 0 \/ Behind(b) \/ Current(b))
      BY <1>1 DEF RInv
    <3>2. CASE b \in chunk
      <4>1. reads'[b] = reads[b] + 1
        BY <2>1, <3>2
      <4> QED
        BY <2>11, <3>1, <3>2, <4>1
    <3>3. CASE b \notin chunk
      <4>1. reads'[b] = reads[b]
        BY <2>1, <3>3
      <4> QED
        BY <2>9, <2>10, <3>1, <4>1
    <3> QED
      BY <3>2, <3>3
  <2> QED
    BY <1>1, <1>3, <2>12, <2>13 DEF RInv
<1> QED
  BY <1>2, <1>3

\* What was read is now behind the cursor.
LEMMA RInvNextChunk == ASSUME RInv, NextChunk PROVE RInv'
<1>1. /\ pc = "issue" /\ pc' = "wait" /\ UNCHANGED <<job, todo, region, reads>>
      /\ cursor'.written = cursor.written + ChunkLength
  BY DEF NextChunk
<1>2. Shards' = Shards /\ \A s : RegionOf(s)' = RegionOf(s)
  BY <1>1, JobKeeps
<1>3. Got' = Got
  BY <1>1 DEF Got
<1>4. \A b : (Behind(b)' <=> Behind(b)) /\ (Current(b)' <=> Current(b))
  BY <1>1, <1>2, <1>3 DEF Behind, Current, Mapping
<1> QED
  BY <1>1, <1>4 DEF RInv, Mapping

\* What was read for the group that is done lies behind.
LEMMA RInvDrainGroup == ASSUME CInv, RInv, DrainGroup PROVE RInv'
<1>1. pc = "drain" /\ UNCHANGED <<job, todo, region, cursor, reads>>
  BY DEF DrainGroup, Await
<1>2. CASE pc' = "group"
  <2>1. job \in Jobs /\ ValidShape(job.sharding, job.tensor) /\ Bytes(job.tensor) # 0
    BY <1>1 DEF CInv, JobStands, Streaming
  <2>2. PICK s \in Shards : region = RegionOf(s)
    BY <1>1 DEF CInv, Groups, Mapping
  <2>3. s \in Nat /\ region = Region(job.sharding, job.tensor, s)
    BY <2>1, <2>2, CountNat DEF RegionOf
  <2>4. region \notin todo
    BY <1>1 DEF CInv, Groups, Mapping
  <2>5. Shards' = Shards /\ \A r : RegionOf(r)' = RegionOf(r)
    BY <1>1, JobKeeps
  <2>6. \A b : Behind(b) => Behind(b)'
    BY <1>1, <1>2, <2>5 DEF Behind, Mapping
  <2>7. ASSUME NEW b, Current(b) PROVE Behind(b)'
    <3>1. PICK d \in 0 .. Got - 1 : b = Viewed(job.tensor, region, d)
      BY <2>7 DEF Current
    <3>2. d \in Nat
      <4>1. Got = cursor.written
        BY <1>1 DEF Got
      <4>2. cursor.written \in Nat
        BY <1>1, CursorFacts DEF CInv, Mapping
      <4> QED
        BY <4>1, <4>2
    <3>3. Viewed(job.tensor, region, d) \in MeantFor(job.sharding, job.tensor, s)
      BY ONLY <2>1, <2>3, <3>2, CurrentIsMeant
    <3> QED
      BY <1>1, <1>2, <2>2, <2>4, <2>5, <3>1, <3>3 DEF Behind, Mapping
  <2> QED
    BY <1>1, <1>2, <2>6, <2>7 DEF RInv, Mapping
<1>3. CASE pc' # "group"
  BY <1>1, <1>3, RInvKeeps DEF DrainGroup, Await
<1> QED
  BY <1>2, <1>3

\* Every step keeps the account of what was read.
LEMMA RInvStep == CInv /\ RInv /\ [Next]_vars => RInv'
<1> SUFFICES ASSUME CInv, RInv, [Next]_vars PROVE RInv'
  OBVIOUS
<1>1. CASE Validate \/ UploadShard \/ OpenManagers
  <2>1. CASE Validate
    BY <2>1, RInvKeeps DEF Validate, Refuse, hostVars
  <2>2. CASE UploadShard
    BY <2>2, RInvKeeps DEF UploadShard, hostVars
  <2>3. CASE OpenManagers
    <3>1. pc = "open" /\ pc' \in {"group", "err"} /\ UNCHANGED <<job, reads>>
      BY <2>3 DEF OpenManagers, Refuse, hostVars
    <3> QED
      BY <3>1 DEF RInv, Mapping
  <2> QED
    BY <1>1, <2>1, <2>2, <2>3
<1>2. CASE WaitForLane \/ IssueTransfer \/ Retrieve \/ Unwind
  <2>1. CASE WaitForLane
    BY <2>1, RInvKeeps DEF WaitForLane, Await, hostVars
  <2>2. CASE IssueTransfer
    BY <2>2, RInvKeeps DEF IssueTransfer
  <2>3. CASE Retrieve \/ Unwind
    BY <2>3, RInvKeeps DEF Retrieve, Unwind
  <2> QED
    BY <1>2, <2>1, <2>2, <2>3
<1>3. CASE Device \/ UNCHANGED vars
  BY <1>3, RInvKeeps DEF Device, Land, Break, vars, hostVars
<1> QED
  BY <1>1, <1>2, <1>3, RInvReadWhole, RInvNextGroup, RInvFillLane, RInvNextChunk, RInvDrainGroup
  DEF Next, Host, Returned

-----------------------------------------------------------------------------
(* Types.                                                                    *)

CursorTyped == cursor \in [span : Nat \ {0}, consumed : Nat, written : Nat]
LanesTyped == lane \in [Lanes -> [mapped : BOOLEAN, start : Nat, length : Nat]]
ShardsNamed == asked \subseteq Shards /\ managers \subseteq Shards /\ closed \subseteq Shards
MemoryTyped == \A s \in DOMAIN memory : memory[s] \in [DOMAIN memory[s] -> Int]

TInv == CursorTyped /\ LanesTyped /\ ShardsNamed /\ MemoryTyped

\* The types at the call.
LEMMA TInvInit == Init => TInv
  BY DEF Init, TInv, CursorTyped, LanesTyped, ShardsNamed, MemoryTyped, Start, Unmapped

\* The cursor counts bytes.
LEMMA CursorTypedStep == CInv /\ TInv /\ [Next]_vars => CursorTyped'
<1> SUFFICES ASSUME CInv, TInv, [Next]_vars PROVE CursorTyped'
  OBVIOUS
<1>1. CASE UNCHANGED cursor
  BY <1>1 DEF TInv, CursorTyped
<1>2. CASE NextGroup
  <2>1. cursor' = cursor \/ cursor' = Start
    BY <1>2 DEF NextGroup
  <2> QED
    BY <2>1 DEF TInv, CursorTyped, Start
<1>3. CASE NextChunk
  <2>1. CursorExact /\ ~GroupDone /\ pc \in Mapping
    BY <1>3 DEF NextChunk, CInv, CursorExact, Mapping
  <2>2. ChunkLength \in Nat
    BY <2>1, CursorFacts
  <2>3. cursor.span \in Nat \ {0} /\ cursor.consumed \in Nat /\ cursor.written \in Nat
    BY DEF TInv, CursorTyped
  <2>4. /\ cursor.span + 1 \in Nat \ {0} /\ cursor.consumed + ChunkLength \in Nat
        /\ cursor.written + ChunkLength \in Nat
    BY <2>2, <2>3
  <2> QED
    BY <1>3, <2>3, <2>4 DEF NextChunk, CursorTyped
<1> QED
  BY <1>1, <1>2, <1>3
  DEF Next, Host, Device, Returned, vars, hostVars, Validate, Refuse, ReadWhole, UploadShard, OpenManagers,
      WaitForLane, Await, FillLane, IssueTransfer, DrainGroup, Retrieve, Unwind, Land, Break

\* A lane holds a stretch of the file.
LEMMA LanesTypedStep == CInv /\ TInv /\ [Next]_vars => LanesTyped'
<1> SUFFICES ASSUME CInv, TInv, [Next]_vars PROVE LanesTyped'
  OBVIOUS
<1>1. Lanes' = Lanes
  BY DEF Lanes
<1>2. CASE lane' \in {lane, [l \in Lanes |-> Blank], [l \in Lanes |-> Unmapped]}
  <2>1. CASE lane' = lane
    BY <1>1, <2>1 DEF TInv, LanesTyped
  <2>2. CASE lane' = [l \in Lanes |-> Blank]
    BY <1>1, <2>2 DEF LanesTyped, Blank
  <2>3. CASE lane' = [l \in Lanes |-> Unmapped]
    BY <1>1, <2>3 DEF LanesTyped, Unmapped
  <2> QED
    BY <1>2, <2>1, <2>2, <2>3
<1>3. CASE FillLane
  <2>1. CASE UNCHANGED lane
    BY <1>2, <2>1
  <2>2. CASE ~UNCHANGED lane
    <3>1. /\ pc = "fill"
          /\ lane' = [lane EXCEPT ![ThisLane] =
                        [mapped |-> @.mapped, start |-> ChunkStart, length |-> ChunkLength]]
      BY <1>3, <2>2 DEF FillLane
    <3>2. ChunkStart \in Nat
      BY <3>1, ChunkLands
    <3>3. ChunkLength \in Nat
      BY <3>1, CursorFacts DEF CInv, CursorExact, Mapping
    <3> QED
      BY <1>1, <3>1, <3>2, <3>3 DEF TInv, LanesTyped
  <2> QED
    BY <2>1, <2>2
<1> QED
  BY <1>2, <1>3
  DEF Next, Host, Device, Returned, vars, hostVars, Validate, Refuse, ReadWhole, UploadShard, OpenManagers,
      NextGroup, NextChunk, WaitForLane, Await, IssueTransfer, DrainGroup, Retrieve, Unwind, Land, Break

\* Only shards are asked and told, and only they have managers.
LEMMA ShardsNamedStep == TInv /\ [Next]_vars => ShardsNamed'
<1> SUFFICES ASSUME TInv, [Next]_vars PROVE ShardsNamed'
  OBVIOUS
<1>1. Shards' = Shards
  <2>1. job' = job
    BY DEF Next, Host, Device, Returned, vars, Validate, Refuse, ReadWhole, UploadShard, OpenManagers,
           NextGroup, WaitForLane, Await, FillLane, IssueTransfer, NextChunk, DrainGroup, Retrieve,
           Unwind, Land, Break
  <2> QED
    BY <2>1, JobKeeps
<1>2. Destinations \subseteq Shards
  BY DEF Destinations
<1>3. asked' \subseteq asked \cup Destinations /\ closed' \subseteq closed \cup Destinations
  <2>1. CASE UNCHANGED <<asked, closed>>
    BY <2>1
  <2>2. CASE IssueTransfer
    <3>1. CASE pc' = "unwind"
      BY <2>2, <3>1 DEF IssueTransfer
    <3>2. CASE pc' # "unwind"
      BY <2>2, <3>2 DEF IssueTransfer
    <3> QED
      BY <3>1, <3>2
  <2>3. CASE FillLane
    BY <2>3 DEF FillLane
  <2> QED
    BY <2>1, <2>2, <2>3
    DEF Next, Host, Device, Returned, vars, hostVars, Validate, Refuse, ReadWhole, UploadShard, OpenManagers,
        NextGroup, WaitForLane, Await, NextChunk, DrainGroup, Retrieve, Unwind, Land, Break
<1>4. managers' \in {managers, Shards, {}}
  BY DEF Next, Host, Device, Returned, vars, hostVars, Validate, Refuse, ReadWhole, UploadShard, OpenManagers,
         NextGroup, WaitForLane, Await, FillLane, IssueTransfer, NextChunk, DrainGroup, Retrieve,
         Unwind, Land, Break
<1> QED
  BY <1>1, <1>2, <1>3, <1>4 DEF TInv, ShardsNamed

\* What a shard is given are positions in the file.
LEMMA RegionBytesTyped ==
  ASSUME job \in Jobs, ValidShape(job.sharding, job.tensor), NEW s \in Shards
  PROVE  \A f : f = RegionBytes(job.tensor, RegionOf(s)) => f \in [DOMAIN f -> Int]
<1> DEFINE t == job.tensor
           r == RegionOf(s)
           n == ShardBytes(t, r)
<1>1. r = Region(job.sharding, t, s) /\ s \in Nat
  BY CountNat DEF RegionOf
<1>2. RegionBytes(t, r) = [d \in 0 .. n - 1 |-> Viewed(t, r, d)]
  BY DEF RegionBytes
<1>3. \A d \in 0 .. n - 1 : Viewed(t, r, d) \in Int
  <2>1. CASE Bytes(t) = 0
    <3>1. n = 0
      BY <1>1, <2>1, NothingToHold
    <3> QED
      BY <3>1
  <2>2. CASE Bytes(t) # 0
    <3>1. Fits(t, r)
      BY <1>1, <2>2, RegionFits
    <3>2. n \in Nat
      <4> DEFINE p == Product(Lengths(r))
                 w == t.width
      <4>1. Positive(Lengths(r)) /\ w \in Nat
        BY <3>1, FitsIs DEF Fits
      <4>2. p \in Nat
        BY <4>1, ProductNat DEF Positive
      <4>3. n = p * w
        BY DEF ShardBytes
      <4> HIDE DEF p, w, n
      <4> QED
        BY <4>1, <4>2, <4>3
    <3>3. Bytes(t) \in Nat
      <4> DEFINE p == Product(t.dims)
                 w == t.width
      <4>1. t.dims \in Seq(Nat) /\ w \in Nat /\ p \in Nat
        BY JobsAssumption, ProductNat
      <4>2. Bytes(t) = p * w
        BY DEF Bytes
      <4> HIDE DEF p, w
      <4> QED
        BY <4>1, <4>2
    <3> HIDE DEF n
    <3> SUFFICES ASSUME NEW d \in 0 .. n - 1 PROVE Viewed(t, r, d) \in Int
      OBVIOUS
    <3>4. d \in Nat
      BY <3>2
    <3>5. Viewed(t, r, d) \in 0 .. Bytes(t) - 1
      BY <3>1, <3>4, ViewedFits
    <3> HIDE DEF t, r
    <3> QED
      BY <3>3, <3>5
  <2> QED
    BY <2>1, <2>2
<1> HIDE DEF t, r, n
<1> SUFFICES ASSUME NEW f, f = RegionBytes(t, r) PROVE f \in [DOMAIN f -> Int]
  BY DEF t, r
<1>4. f = [d \in 0 .. n - 1 |-> Viewed(t, r, d)]
  BY <1>2
<1> QED
  BY <1>3, <1>4

\* A shard holds positions of the file, or nothing yet.
LEMMA MemoryTypedStep == IInv /\ CInv /\ DInv /\ TInv /\ [Next]_vars => MemoryTyped'
<1> SUFFICES ASSUME IInv, CInv, DInv, TInv, [Next]_vars PROVE MemoryTyped'
  OBVIOUS
<1>1. CASE UNCHANGED memory
  BY <1>1 DEF TInv, MemoryTyped
<1>2. CASE memory' = << >>
  BY <1>2 DEF MemoryTyped
<1>3. CASE OpenManagers
  <2>1. CASE ~Refuse
    <3>1. memory' = [s \in Shards |->
                       [d \in 0 .. ShardBytes(job.tensor, RegionOf(s)) - 1 |-> Unwritten]]
      BY <1>3, <2>1 DEF OpenManagers
    <3>2. Unwritten \in Int
      BY DEF Unwritten
    <3> HIDE DEF Unwritten
    <3> QED
      BY <3>1, <3>2 DEF MemoryTyped
  <2> QED
    BY <1>1, <2>1 DEF Refuse
<1>4. CASE UploadShard
  <2> DEFINE m == Cardinality(DOMAIN memory)
  <2>1. CASE UNCHANGED memory \/ memory' = << >>
    BY <1>1, <1>2, <2>1
  <2>2. CASE ~(UNCHANGED memory \/ memory' = << >>)
    <3>1. /\ m \in Shards
          /\ memory' = [r \in DOMAIN memory \cup {m} |->
                          IF r = m THEN RegionBytes(job.tensor, RegionOf(m)) ELSE memory[r]]
      BY <1>4, <2>2 DEF UploadShard
    <3>2. job \in Jobs /\ ValidShape(job.sharding, job.tensor)
      BY <1>4 DEF UploadShard, CInv, JobStands, DInv, Uploaded
    <3> HIDE DEF m
    <3>3. \A f : f = RegionBytes(job.tensor, RegionOf(m)) => f \in [DOMAIN f -> Int]
      BY <3>1, <3>2, RegionBytesTyped
    <3>4. \A s \in DOMAIN memory' :
            memory'[s] = RegionBytes(job.tensor, RegionOf(m)) \/ (s \in DOMAIN memory /\ memory'[s] = memory[s])
      BY <3>1
    <3> QED
      BY <3>3, <3>4 DEF TInv, MemoryTyped
  <2> QED
    BY <2>1, <2>2
<1>5. CASE Device
  <2>1. PICK t \in flying : Land(t) \/ Break(t)
    BY <1>5 DEF Device
  <2>2. CASE Break(t)
    BY <1>1, <2>2 DEF Break
  <2>3. CASE Land(t)
    <3>1. t.lane \in Lanes /\ t \in pending[t.lane]
      BY <2>1 DEF IInv, HandlesHold
    <3>2. t \in Transfers
      BY <3>1 DEF DInv, Addressed
    <3>3. t.offset \in Nat /\ t.length \in Nat /\ lane[t.lane].start \in Nat
      BY <3>1, <3>2 DEF Transfers, TInv, LanesTyped
    <3>4. \A d \in t.offset .. t.offset + t.length - 1 : Held(t, d) \in Int
      BY <3>3 DEF Held, Unwritten
    <3>5. memory' = [memory EXCEPT ![t.shard] =
             [d \in DOMAIN @ |->
                IF d \in t.offset .. t.offset + t.length - 1 THEN Held(t, d) ELSE @[d]]]
      BY <2>3 DEF Land
    <3> SUFFICES ASSUME NEW s \in DOMAIN memory PROVE memory'[s] \in [DOMAIN memory'[s] -> Int]
      BY <3>5 DEF MemoryTyped
    <3>6. memory[s] \in [DOMAIN memory[s] -> Int]
      BY DEF TInv, MemoryTyped
    <3>7. CASE s # t.shard
      <4>1. memory'[s] = memory[s]
        BY <3>5, <3>7
      <4> QED
        BY <3>6, <4>1
    <3>8. CASE s = t.shard
      <4>1. memory'[s] = [d \in DOMAIN memory[s] |->
               IF d \in t.offset .. t.offset + t.length - 1 THEN Held(t, d) ELSE memory[s][d]]
        BY <3>5, <3>8
      <4>2. \A d \in DOMAIN memory[s] : memory[s][d] \in Int
        BY <3>6
      <4> DEFINE f == memory'[s]
                 g(d) == IF d \in t.offset .. t.offset + t.length - 1 THEN Held(t, d) ELSE memory[s][d]
      <4>3. f = [d \in DOMAIN memory[s] |-> g(d)] /\ \A d \in DOMAIN memory[s] : g(d) \in Int
        BY <3>4, <4>1, <4>2
      <4> HIDE DEF f, g
      <4>4. f \in [DOMAIN f -> Int]
        BY <4>3
      <4> QED
        BY <4>4 DEF f
    <3> QED
      BY <3>7, <3>8
  <2> QED
    BY <2>1, <2>2, <2>3
<1> QED
  BY <1>1, <1>2, <1>3, <1>4, <1>5
  DEF Next, Host, Returned, vars, hostVars, Validate, Refuse, ReadWhole,
      NextGroup, NextChunk, FillLane, WaitForLane, Await, IssueTransfer, DrainGroup, Retrieve, Unwind

\* Every step keeps the types.
LEMMA TInvStep == IInv /\ CInv /\ DInv /\ TInv /\ [Next]_vars => TInv'
  BY CursorTypedStep, LanesTypedStep, ShardsNamedStep, MemoryTypedStep DEF TInv

\* The type invariant from its parts.
LEMMA TypeIsOK == ASSUME IInv, CInv, DInv, TInv PROVE TypeOK
<1>1. DOMAIN pending = Lanes /\ begun \in Nat /\ job \in Jobs
  BY DEF IInv, LanesInStep, CInv, JobStands
<1>2. pc \in {"start", "host", "upload", "open", "group", "wait", "fill", "issue",
              "drain", "retrieve", "unwind", "ok", "err", "panicked"}
  BY DEF IInv, PcRange, Laneless, Mapping
<1>3. \A l \in Lanes : \A t \in pending[l] :
        t \in [lane : Lanes, shard : Shards, start : Nat, length : Nat, offset : Nat]
  BY DEF DInv, Addressed, Transfers
<1> QED
  BY <1>1, <1>2, <1>3 DEF TypeOK, TInv, CursorTyped, LanesTyped, ShardsNamed, MemoryTyped

\* Through spans, chunks, lanes and replicas every byte of the file that a shard needs is read
\* once and arrives where it belongs, for any shape, mesh, chunk and number of lanes, and
\* whatever the device does and when.
THEOREM UploadIsExact == Spec => []UploadExact
<1>1. IInv /\ CInv /\ DInv /\ RInv /\ TInv => UploadExact
  <2> SUFFICES ASSUME IInv, CInv, DInv, RInv, TInv PROVE UploadExact
    OBVIOUS
  <2>1. TypeOK
    BY TypeIsOK
  <2>2. ShardsHoldTheirRegion
    BY ShardsHold DEF CInv, DInv
  <2>3. ReadOnce
    BY DEF RInv, ReadOnce
  <2> QED
    BY <2>1, <2>2, <2>3 DEF UploadExact
<1>2. Spec => []RInv
  BY RInvInit, RInvStep, CInvAlways, PTL DEF Spec
<1>3. Spec => []TInv
  BY TInvInit, TInvStep, IInvAlways, CInvAlways, DInvAlways, PTL DEF Spec
<1> QED
  BY <1>1, <1>2, <1>3, IInvAlways, CInvAlways, DInvAlways, PTL
=============================================================================

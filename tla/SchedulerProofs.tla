-------------------------- MODULE SchedulerProofs --------------------------
(***************************************************************************)
(* Proofs about Scheduler, for every set of sequences, every compiled      *)
(* family of buckets and every limit that SchedulerAssumption allows.      *)
(***************************************************************************)
EXTENDS Scheduler, SequenceTheorems, FunctionTheorems, FiniteSetTheorems, WellFoundedInduction, TLAPS

-----------------------------------------------------------------------------
\* What the configuration is known to be.
LEMMA Limits ==
  /\ IsFiniteSet(SequenceIds)
  /\ BatchBuckets \subseteq Nat \ {0} /\ 1 \in BatchBuckets
  /\ LargestBucket \in BatchBuckets /\ \A b \in BatchBuckets : b <= LargestBucket
  /\ QueryBuckets \subseteq Nat \ {0}
  /\ \E q \in QueryBuckets : MaxPrefillChunk <= q
  /\ {MaxActiveSequences, MaxBatchedTokens, MaxPrefillChunk, MaxPrefillWait} \subseteq Nat \ {0}
  /\ LargestBucket <= MaxActiveSequences /\ LargestBucket <= MaxBatchedTokens
  /\ MaxPrefillChunk <= MaxBatchedTokens
  /\ MaxPrompt \in Nat \ {0}
BY SchedulerAssumption DEF IsValid

-----------------------------------------------------------------------------
(* What the queue operations do to a queue that lists a set.               *)

\* A queue that lists M is a sequence over M.
LEMMA ListsIsSeq ==
  ASSUME NEW S, NEW M, NEW queue \in Seq(S), Lists(queue, M)
  PROVE  /\ queue \in Seq(M)
         /\ M \subseteq S
         /\ \A i \in 1 .. Len(queue) : queue[i] \in M
BY SeqDef DEF Lists

\* Appending an element that is not listed lists one more.
LEMMA ListsAppend ==
  ASSUME NEW S, NEW M, NEW queue \in Seq(S), Lists(queue, M), NEW e \in S, e \notin M
  PROVE  /\ Append(queue, e) \in Seq(S)
         /\ Lists(Append(queue, e), M \cup {e})
<1> DEFINE q == Append(queue, e)
<1>1. /\ q \in Seq(S) /\ Len(q) = Len(queue) + 1
      /\ \A i \in 1 .. Len(queue) : q[i] = queue[i]
      /\ q[Len(queue) + 1] = e
  BY AppendProperties
<1>2. DOMAIN q = 1 .. Len(queue) + 1 /\ DOMAIN queue = 1 .. Len(queue) /\ Len(queue) \in Nat
  BY <1>1, LenProperties
<1>3. \A i \in 1 .. Len(queue) : queue[i] \in M
  BY ListsIsSeq
<1>4. \A i, j \in DOMAIN q : q[i] = q[j] => i = j
  <2> HIDE DEF q
  <2> SUFFICES ASSUME NEW i \in 1 .. Len(queue) + 1, NEW j \in 1 .. Len(queue) + 1, q[i] = q[j]
               PROVE  i = j
    BY <1>2
  <2>1. CASE i = Len(queue) + 1 /\ j # i
    BY <2>1, <1>1, <1>2, <1>3
  <2>2. CASE j = Len(queue) + 1 /\ j # i
    BY <2>2, <1>1, <1>2, <1>3
  <2>3. CASE i \in 1 .. Len(queue) /\ j \in 1 .. Len(queue)
    BY <2>3, <1>1, <1>2 DEF Lists
  <2>4. QED
    BY <2>1, <2>2, <2>3, <1>2
<1>5. M \cup {e} = {q[i] : i \in DOMAIN q}
  <2> HIDE DEF q
  <2>1. \A x \in M \cup {e} : \E i \in DOMAIN q : q[i] = x
    BY <1>1, <1>2 DEF Lists
  <2>2. \A i \in DOMAIN q : q[i] \in M \cup {e}
    BY <1>1, <1>2, <1>3
  <2>3. QED
    BY <2>1, <2>2
<1>6. QED
  BY <1>1, <1>4, <1>5 DEF Lists

\* The first n entries of a queue.
FirstOf(queue, n) == {queue[i] : i \in 1 .. n}

\* The two parts of a queue cut after its n-th entry list a set and the rest.
LEMMA ListsCut ==
  ASSUME NEW S, NEW M, NEW queue \in Seq(S), Lists(queue, M), NEW n \in 0 .. Len(queue)
  PROVE  /\ SubSeq(queue, 1, n) \in Seq(S) /\ Len(SubSeq(queue, 1, n)) = n
         /\ Lists(SubSeq(queue, 1, n), FirstOf(queue, n))
         /\ \A i \in 1 .. n : SubSeq(queue, 1, n)[i] = queue[i]
         /\ SubSeq(queue, n + 1, Len(queue)) \in Seq(S)
         /\ Len(SubSeq(queue, n + 1, Len(queue))) = Len(queue) - n
         /\ Lists(SubSeq(queue, n + 1, Len(queue)), M \ FirstOf(queue, n))
         /\ FirstOf(queue, n) \subseteq M
<1> DEFINE front == SubSeq(queue, 1, n)
           back  == SubSeq(queue, n + 1, Len(queue))
           taken == {queue[i] : i \in 1 .. n}
<1>1. Len(queue) \in Nat /\ DOMAIN queue = 1 .. Len(queue) /\ \A i \in 1 .. Len(queue) : queue[i] \in S
  BY LenProperties, ElementOfSeq
<1>2. /\ front \in Seq(S) /\ Len(front) = n
      /\ \A i \in 1 .. n : front[i] = queue[i]
  <2>1. \A i \in 1 .. n : queue[i] \in S
    BY <1>1
  <2>2. 1 \in Int /\ n \in Int
    OBVIOUS
  <2>3. QED
    BY <1>1, <2>1, <2>2, SubSeqProperties
<1>3. /\ back \in Seq(S) /\ Len(back) = Len(queue) - n
      /\ \A i \in 1 .. Len(queue) - n : back[i] = queue[n + i]
  <2>1. \A i \in n + 1 .. Len(queue) : queue[i] \in S
    BY <1>1
  <2>2. n + 1 \in Int /\ Len(queue) \in Int
    BY <1>1
  <2>3. /\ back \in Seq(S) /\ Len(back) = IF n + 1 <= Len(queue) THEN Len(queue) - (n + 1) + 1 ELSE 0
        /\ \A i \in 1 .. Len(queue) - (n + 1) + 1 : back[i] = queue[(n + 1) + i - 1]
    BY <2>1, <2>2, SubSeqProperties
  <2> HIDE DEF back
  <2>4. Len(queue) \in Nat /\ n \in Nat /\ n <= Len(queue)
    BY <1>1
  <2>5. Len(back) = Len(queue) - n
    BY <2>3, <2>4
  <2>6. ASSUME NEW i \in 1 .. Len(queue) - n PROVE back[i] = queue[n + i]
    <3>1. i \in 1 .. Len(queue) - (n + 1) + 1 /\ (n + 1) + i - 1 = n + i
      BY <2>4
    <3>2. QED
      BY <2>3, <3>1
  <2>7. QED
    BY <2>3, <2>5, <2>6
<1>4. DOMAIN front = 1 .. n /\ DOMAIN back = 1 .. Len(queue) - n
  BY <1>2, <1>3, LenProperties
<1> HIDE DEF front, back
<1>5. Lists(front, taken)
  BY <1>1, <1>2, <1>4, SMTT(60) DEF Lists
<1>6. Lists(back, M \ taken)
  <2>1. ASSUME NEW i \in DOMAIN back, NEW j \in DOMAIN back, back[i] = back[j]
        PROVE  i = j
    <3>1. n + i \in 1 .. Len(queue) /\ n + j \in 1 .. Len(queue) /\ i \in Int /\ j \in Int
      BY <1>1, <1>4
    <3>2. queue[n + i] = queue[n + j]
      BY <2>1, <1>3, <1>4
    <3>3. n + i = n + j
      BY <3>1, <3>2, <1>1 DEF Lists
    <3>4. QED
      BY <3>1, <3>3
  <2>2. ASSUME NEW i \in DOMAIN back
        PROVE  back[i] \in M \ taken
    <3>1. n + i \in 1 .. Len(queue) /\ i \in Nat \ {0} /\ back[i] = queue[n + i]
      BY <1>1, <1>3, <1>4
    <3>2. back[i] \in M
      BY <3>1, <1>1 DEF Lists
    <3>3. \A j \in 1 .. n : j \in 1 .. Len(queue) /\ j # n + i
      BY <3>1, <1>1
    <3>4. \A j \in 1 .. n : queue[j] # queue[n + i]
      BY <3>1, <3>3, <1>1 DEF Lists
    <3>5. QED
      BY <3>1, <3>2, <3>4
  <2>3. ASSUME NEW x \in M \ taken
        PROVE  \E i \in DOMAIN back : back[i] = x
    <3>1. PICK k \in 1 .. Len(queue) : queue[k] = x
      BY <1>1 DEF Lists
    <3>2. k > n
      BY <3>1, <1>1
    <3>3. k - n \in 1 .. Len(queue) - n /\ back[k - n] = queue[k]
      BY <3>2, <1>1, <1>3
    <3>4. QED
      BY <3>1, <3>3, <1>4
  <2>4. QED
    BY <2>1, <2>2, <2>3 DEF Lists
<1>7. taken \subseteq M
  BY <1>1 DEF Lists
<1>8. QED
  BY <1>2, <1>3, <1>5, <1>6, <1>7 DEF front, back, FirstOf

\* The tail of a queue lists what its head leaves.
LEMMA ListsTail ==
  ASSUME NEW S, NEW M, NEW queue \in Seq(S), Lists(queue, M), queue # << >>
  PROVE  /\ Tail(queue) \in Seq(S)
         /\ Head(queue) \in M
         /\ Lists(Tail(queue), M \ {Head(queue)})
<1>1. Len(queue) \in Nat \ {0}
  BY EmptySeq
<1>2. Tail(queue) = SubSeq(queue, 1 + 1, Len(queue))
  BY TailIsSubSeq
<1>3. FirstOf(queue, 1) = {Head(queue)}
  BY <1>1 DEF FirstOf
<1>4. 1 \in 0 .. Len(queue)
  BY <1>1
<1>5. /\ SubSeq(queue, 1 + 1, Len(queue)) \in Seq(S)
      /\ Lists(SubSeq(queue, 1 + 1, Len(queue)), M \ FirstOf(queue, 1))
      /\ FirstOf(queue, 1) \subseteq M
  BY <1>4, ListsCut
<1>6. QED
  BY <1>2, <1>3, <1>5

\* Two queues of disjoint sets, one behind the other, list their union.
LEMMA ListsConcat ==
  ASSUME NEW S, NEW A, NEW B, A \cap B = {},
         NEW a \in Seq(S), Lists(a, A), NEW b \in Seq(S), Lists(b, B)
  PROVE  /\ a \o b \in Seq(S)
         /\ Lists(a \o b, A \cup B)
<1> DEFINE q == a \o b
<1>1. /\ Len(a) \in Nat /\ DOMAIN a = 1 .. Len(a)
      /\ Len(b) \in Nat /\ DOMAIN b = 1 .. Len(b)
  BY LenProperties
<1>2. /\ q \in Seq(S) /\ Len(q) = Len(a) + Len(b)
      /\ \A i \in 1 .. Len(a) + Len(b) : q[i] = IF i <= Len(a) THEN a[i] ELSE b[i - Len(a)]
  BY ConcatProperties
<1>3. DOMAIN q = 1 .. Len(a) + Len(b)
  BY <1>2, LenProperties
<1> HIDE DEF q
<1>4. /\ \A i \in 1 .. Len(a) : i \in DOMAIN q /\ q[i] = a[i] /\ a[i] \in A
      /\ \A i \in Len(a) + 1 .. Len(a) + Len(b) :
           q[i] = b[i - Len(a)] /\ i - Len(a) \in 1 .. Len(b) /\ b[i - Len(a)] \in B
  <2>1. /\ \A i \in 1 .. Len(a) : a[i] \in A
        /\ \A i \in 1 .. Len(b) : b[i] \in B
    BY <1>1 DEF Lists
  <2>2. ASSUME NEW i \in Len(a) + 1 .. Len(a) + Len(b)
        PROVE  q[i] = b[i - Len(a)] /\ i - Len(a) \in 1 .. Len(b)
    BY <1>1, <1>2
  <2>3. \A i \in 1 .. Len(a) : i \in DOMAIN q /\ q[i] = a[i]
    BY <1>1, <1>2, <1>3
  <2>4. QED
    BY <2>1, <2>2, <2>3
<1>5. ASSUME NEW i \in DOMAIN q, NEW j \in DOMAIN q, q[i] = q[j]
      PROVE  i = j
  <2>1. CASE i \in 1 .. Len(a) /\ j \in 1 .. Len(a)
    BY <2>1, <1>1, <1>4, <1>5 DEF Lists
  <2>2. CASE i \in Len(a) + 1 .. Len(a) + Len(b) /\ j \in Len(a) + 1 .. Len(a) + Len(b)
    <3>1. i - Len(a) = j - Len(a)
      BY <2>2, <1>1, <1>4, <1>5 DEF Lists
    <3>2. QED
      BY <3>1, <2>2, <1>1
  <2>3. CASE \/ i \in 1 .. Len(a) /\ j \in Len(a) + 1 .. Len(a) + Len(b)
             \/ j \in 1 .. Len(a) /\ i \in Len(a) + 1 .. Len(a) + Len(b)
    BY <2>3, <1>4, <1>5
  <2>4. QED
    BY <2>1, <2>2, <2>3, <1>1, <1>3
<1>6. \A i \in DOMAIN q : q[i] \in A \cup B
  BY <1>1, <1>3, <1>4
<1>7. ASSUME NEW x \in B
      PROVE  \E i \in DOMAIN q : q[i] = x
  <2>1. PICK k \in 1 .. Len(b) : b[k] = x
    BY <1>1 DEF Lists
  <2>2. Len(a) + k \in Len(a) + 1 .. Len(a) + Len(b) /\ (Len(a) + k) - Len(a) = k
    BY <1>1
  <2>3. q[Len(a) + k] = b[k]
    BY <2>2, <1>4
  <2>4. QED
    BY <2>1, <2>2, <2>3, <1>1, <1>3
<1>8. \A x \in A : \E i \in DOMAIN q : q[i] = x
  BY <1>1, <1>4 DEF Lists
<1>9. A \cup B = {q[i] : i \in DOMAIN q}
  BY <1>6, <1>7, <1>8
<1>10. QED
  BY <1>2, <1>5, <1>9 DEF Lists, q

\* `remove` takes exactly s out of a queue that lists it.
LEMMA ListsWithout ==
  ASSUME NEW S, NEW M, NEW queue \in Seq(S), Lists(queue, M), NEW s \in M
  PROVE  /\ Without(queue, s) \in Seq(S) /\ Len(Without(queue, s)) = Len(queue) - 1
         /\ Lists(Without(queue, s), M \ {s})
<1>1. Len(queue) \in Nat /\ DOMAIN queue = 1 .. Len(queue) /\ \A i \in 1 .. Len(queue) : queue[i] \in S
  BY LenProperties, ElementOfSeq
<1>2. PICK k \in 1 .. Len(queue) : queue[k] = s
  BY <1>1 DEF Lists
<1> DEFINE q == SubSeq(queue, 1, k - 1) \o SubSeq(queue, k + 1, Len(queue))
<1>3. Without(queue, s) = q
  <2>1. {i \in 1 .. Len(queue) : queue[i] = s} = {k}
    BY <1>1, <1>2 DEF Lists
  <2>2. Min({k}) = k
    BY <1>1 DEF Min
  <2>3. QED
    BY <2>1, <2>2, <1>2 DEF Without, RemoveFirst, RemoveAt, SelectInSeq
<1>4. k - 1 \in 0 .. Len(queue) /\ k \in 0 .. Len(queue) /\ (k - 1) + 1 = k
  BY <1>1
<1> DEFINE A == FirstOf(queue, k - 1)
           B == M \ FirstOf(queue, k)
<1>5. SubSeq(queue, 1, k - 1) \in Seq(S) /\ Lists(SubSeq(queue, 1, k - 1), A) /\ A \subseteq M
  BY <1>4, ListsCut
<1>6. SubSeq(queue, k + 1, Len(queue)) \in Seq(S) /\ Lists(SubSeq(queue, k + 1, Len(queue)), B)
  BY <1>4, ListsCut
<1>7. s \notin A /\ FirstOf(queue, k) = A \cup {s}
  <2>1. \A i \in 1 .. k - 1 : i \in 1 .. Len(queue) /\ i # k
    BY <1>1
  <2>2. \A i \in 1 .. k - 1 : queue[i] # s
    BY <1>1, <1>2, <2>1 DEF Lists
  <2>3. 1 .. k = (1 .. k - 1) \cup {k}
    BY <1>1
  <2>4. QED
    BY <1>2, <2>2, <2>3 DEF FirstOf
<1>8. A \cap B = {} /\ A \cup B = M \ {s}
  BY <1>5, <1>7
<1>9. q \in Seq(S) /\ Lists(q, A \cup B)
  BY <1>5, <1>6, <1>8, ListsConcat
<1>10. Len(q) = Len(queue) - 1
  <2>1. /\ Len(SubSeq(queue, 1, k - 1)) = k - 1
        /\ Len(SubSeq(queue, k + 1, Len(queue))) = Len(queue) - k
    BY <1>4, ListsCut
  <2>2. Len(q) = Len(SubSeq(queue, 1, k - 1)) + Len(SubSeq(queue, k + 1, Len(queue)))
    BY <1>5, <1>6, ConcatProperties
  <2> HIDE DEF q
  <2>3. Len(q) = (k - 1) + (Len(queue) - k)
    BY ONLY <2>1, <2>2
  <2>4. k \in Int /\ Len(queue) \in Int
    BY <1>1
  <2>5. (k - 1) + (Len(queue) - k) = Len(queue) - 1
    BY ONLY <2>4
  <2>6. QED
    BY ONLY <2>3, <2>5
<1>11. QED
  BY <1>3, <1>8, <1>9, <1>10

\* Moving the f-th entry of a queue to its front lists the same set.
LEMMA ListsMoved ==
  ASSUME NEW S, NEW M, NEW queue \in Seq(S), Lists(queue, M), NEW f \in 1 .. Len(queue)
  PROVE  LET q == [k \in DOMAIN queue |->
                     IF k = 1 THEN queue[f] ELSE IF k <= f THEN queue[k - 1] ELSE queue[k]]
         IN  q \in Seq(S) /\ Len(q) = Len(queue) /\ Lists(q, M)
<1> DEFINE n == Len(queue)
           from(k) == IF k = 1 THEN f ELSE IF k <= f THEN k - 1 ELSE k
           q == [k \in DOMAIN queue |->
                   IF k = 1 THEN queue[f] ELSE IF k <= f THEN queue[k - 1] ELSE queue[k]]
<1>1. n \in Nat /\ DOMAIN queue = 1 .. n /\ \A i \in 1 .. n : queue[i] \in S
  BY LenProperties, ElementOfSeq
<1> HIDE DEF n
<1>2. \A k \in 1 .. n : from(k) \in 1 .. n /\ q[k] = queue[from(k)]
  BY <1>1 DEF n
<1>3. \A i, j \in 1 .. n : from(i) = from(j) => i = j
  BY <1>1 DEF n
<1>4. ASSUME NEW i \in 1 .. n
      PROVE  \E k \in 1 .. n : from(k) = i
  <2>1. CASE i = f
    BY <2>1, <1>1
  <2>2. CASE i < f
    <3>1. i + 1 \in 1 .. n /\ from(i + 1) = i
      BY <2>2, <1>1 DEF n
    <3>2. QED
      BY <3>1
  <2>3. CASE i > f
    <3>1. from(i) = i
      BY <2>3, <1>1 DEF n
    <3>2. QED
      BY <3>1
  <2>4. QED
    BY <2>1, <2>2, <2>3 DEF n
<1>5. q \in [1 .. n -> S] /\ DOMAIN q = 1 .. n
  BY <1>1, <1>2
<1>6. q \in Seq(S) /\ Len(q) = n
  BY <1>1, <1>5
<1> HIDE DEF q, from
<1>7. \A i, j \in DOMAIN q : q[i] = q[j] => i = j
  BY <1>1, <1>2, <1>3, <1>5 DEF Lists
<1>8. \A i \in DOMAIN q : q[i] \in M
  BY <1>1, <1>2, <1>5 DEF Lists
<1>9. ASSUME NEW x \in M
      PROVE  \E k \in DOMAIN q : q[k] = x
  <2>1. PICK i \in 1 .. n : queue[i] = x
    BY <1>1 DEF Lists
  <2>2. PICK k \in 1 .. n : from(k) = i
    BY <1>4
  <2>3. QED
    BY <2>1, <2>2, <1>2, <1>5
<1>10. M = {q[k] : k \in DOMAIN q}
  BY <1>8, <1>9
<1>11. Lists(q, M)
  BY <1>7, <1>10 DEF Lists
<1>12. QED
  BY <1>6, <1>11 DEF q, n

-----------------------------------------------------------------------------
(* The inductive invariant: the properties themselves, put together.       *)
Inv ==
  /\ TypeOK
  /\ QueuesMatchPhases
  /\ ActiveExact
  /\ PromptAccounted

\* The invariant holds of an empty scheduler (Scheduler::new).
LEMMA InitInv == Init => Inv
<1> SUFFICES ASSUME Init PROVE Inv
  OBVIOUS
<1>1. TypeOK
  BY EmptySeq, Limits DEF Init, TypeOK, Phase
<1>2. QueuesMatchPhases
  BY DEF Init, QueuesMatchPhases, Lists, In
<1>3. ActiveExact
  <2>1. AdmittedSet = {}
    BY DEF Init, Admitted, AdmittedSet
  <2>2. QED
    BY <2>1, FS_EmptySet, Limits DEF Init, ActiveExact
<1>4. PromptAccounted
  BY Limits DEF Init, PromptAccounted, Smaller
<1>5. QED
  BY <1>1, <1>2, <1>3, <1>4 DEF Inv

\* What a step needs to know of the queues.
LEMMA InvQueues ==
  ASSUME Inv
  PROVE  /\ waiting \in Seq(SequenceIds) /\ Lists(waiting, In("Waiting"))
         /\ prefill \in Seq(SequenceIds) /\ Lists(prefill, In("Prefill"))
         /\ decode \in Seq(SequenceIds) /\ Lists(decode, In("Decode"))
BY DEF Inv, TypeOK, QueuesMatchPhases

\* What happens to the sets of sequences when the phase of one changes.
LEMMA PhaseChange ==
  ASSUME phase \in [SequenceIds -> Phase], NEW s \in SequenceIds, NEW q \in Phase,
         phase' = [phase EXCEPT ![s] = q]
  PROVE  /\ phase' \in [SequenceIds -> Phase]
         /\ \A p \in Phase : p # q => In(p)' = In(p) \ {s}
         /\ \A p \in Phase : p # q /\ s \notin In(p) => In(p)' = In(p)
         /\ q \in {"Absent", "Waiting"} /\ s \notin AdmittedSet => AdmittedSet' = AdmittedSet
         /\ q \notin {"Absent", "Waiting"} /\ s \in AdmittedSet => AdmittedSet' = AdmittedSet
         /\ In(q)' = In(q) \cup {s}
         /\ q \in {"Absent", "Waiting"} => AdmittedSet' = AdmittedSet \ {s}
         /\ q \notin {"Absent", "Waiting"} => AdmittedSet' = AdmittedSet \cup {s}
BY DEF In, AdmittedSet, Admitted

\* A sequence that enters or leaves the admitted ones is counted.
LEMMA CountOneMore ==
  ASSUME NEW A \in SUBSET SequenceIds, NEW s \in SequenceIds, s \notin A
  PROVE  Cardinality(A) \in Nat /\ Cardinality(A \cup {s}) = Cardinality(A) + 1
BY Limits, FS_Subset, FS_AddElement, FS_CardinalityType

\* Leaving the admitted ones is counted as well.
LEMMA CountOneLess ==
  ASSUME NEW A \in SUBSET SequenceIds, NEW s \in A
  PROVE  /\ Cardinality(A) \in Nat \ {0}
         /\ Cardinality(A \ {s}) = Cardinality(A) - 1
<1>1. IsFiniteSet(A) /\ Cardinality(A) \in Nat
  BY Limits, FS_Subset, FS_CardinalityType
<1>2. Cardinality(A) # 0
  BY <1>1, FS_EmptySet
<1>3. QED
  BY <1>1, <1>2, FS_RemoveElement

\* enqueue keeps the invariant: the new sequence is in no queue yet.
LEMMA EnqueueInv ==
  ASSUME Inv, NEW s \in SequenceIds, NEW prompt \in 1 .. MaxPrompt, Enqueue(s, prompt)
  PROVE  Inv'
<1>1. TypeOK /\ QueuesMatchPhases /\ ActiveExact /\ PromptAccounted
  BY DEF Inv
<1>2. /\ phase' \in [SequenceIds -> Phase]
      /\ In("Waiting")' = In("Waiting") \cup {s}
      /\ In("Prefill")' = In("Prefill") /\ In("Decode")' = In("Decode")
      /\ AdmittedSet' = AdmittedSet
  <2>1. s \notin In("Prefill") \cup In("Decode") \cup AdmittedSet
    BY DEF Enqueue, In, AdmittedSet, Admitted
  <2>2. phase \in [SequenceIds -> Phase] /\ phase' = [phase EXCEPT ![s] = "Waiting"]
    BY <1>1 DEF Enqueue, TypeOK
  <2>3. "Waiting" \in Phase /\ "Prefill" \in Phase /\ "Decode" \in Phase
    BY DEF Phase
  <2>4. QED
    BY <2>1, <2>2, <2>3, PhaseChange
<1>3. waiting' \in Seq(SequenceIds) /\ Lists(waiting', In("Waiting")')
  <2>1. s \notin In("Waiting")
    BY DEF Enqueue, In
  <2>2. waiting' = Append(waiting, s)
    BY DEF Enqueue
  <2>3. QED
    BY <1>2, <2>1, <2>2, InvQueues, ListsAppend
<1>4. TypeOK'
  BY <1>1, <1>2, <1>3, Limits DEF Enqueue, TypeOK
<1>5. QueuesMatchPhases'
  BY <1>1, <1>2, <1>3 DEF Enqueue, QueuesMatchPhases
<1>6. ActiveExact'
  BY <1>1, <1>2 DEF Enqueue, ActiveExact
<1>7. PromptAccounted'
  BY <1>1, Limits DEF Enqueue, TypeOK, PromptAccounted, Smaller
<1>8. QED
  BY <1>4, <1>5, <1>6, <1>7 DEF Inv

\* admit_reserved keeps it: the head of the waiters moves to the prompts.
LEMMA AdmitReservedInv ==
  ASSUME Inv, NEW s \in SequenceIds, AdmitReserved(s)
  PROVE  Inv'
<1>1. TypeOK /\ QueuesMatchPhases /\ ActiveExact /\ PromptAccounted
  BY DEF Inv
<1>2. s \in In("Waiting") /\ s \notin In("Prefill") \cup In("Decode") \cup AdmittedSet
  BY DEF AdmitReserved, In, AdmittedSet, Admitted
<1>3. /\ phase' \in [SequenceIds -> Phase]
      /\ In("Waiting")' = In("Waiting") \ {s}
      /\ In("Prefill")' = In("Prefill") \cup {s} /\ In("Decode")' = In("Decode")
      /\ AdmittedSet' = AdmittedSet \cup {s}
  BY <1>1, <1>2, PhaseChange DEF AdmitReserved, TypeOK, Phase
<1>4. waiting' \in Seq(SequenceIds) /\ Lists(waiting', In("Waiting")')
  <2>1. waiting # << >> /\ s = Head(waiting) /\ waiting' = Tail(waiting)
    BY DEF AdmitReserved
  <2>2. QED
    BY <1>3, <2>1, InvQueues, ListsTail
<1>5. prefill' \in Seq(SequenceIds) /\ Lists(prefill', In("Prefill")')
  <2>1. prefill' = Append(prefill, s)
    BY DEF AdmitReserved
  <2>2. QED
    BY <1>2, <1>3, <2>1, InvQueues, ListsAppend
<1>6. Cardinality(AdmittedSet) \in Nat /\ Cardinality(AdmittedSet') = Cardinality(AdmittedSet) + 1
  <2>1. AdmittedSet \in SUBSET SequenceIds
    BY DEF AdmittedSet
  <2>2. s \notin AdmittedSet
    BY <1>2
  <2>3. Cardinality(AdmittedSet) \in Nat /\ Cardinality(AdmittedSet \cup {s}) = Cardinality(AdmittedSet) + 1
    BY <2>1, <2>2, CountOneMore
  <2>4. QED
    BY <1>3, <2>3
<1>7. TypeOK'
  <2>1. MaxPrefillWait \in Nat
    BY Limits
  <2>2. waited' \in [SequenceIds -> 0 .. MaxPrefillWait] /\ active' \in Nat
    BY <1>1, <2>1 DEF AdmitReserved, TypeOK
  <2>3. QED
    BY <1>1, <1>3, <1>4, <1>5, <2>2 DEF AdmitReserved, TypeOK
<1>8. QueuesMatchPhases'
  BY <1>1, <1>3, <1>4, <1>5 DEF AdmitReserved, QueuesMatchPhases
<1>9. ActiveExact'
  BY <1>1, <1>6, Limits DEF AdmitReserved, ActiveExact, TypeOK
<1>10. PromptAccounted'
  BY <1>1, Limits DEF AdmitReserved, TypeOK, PromptAccounted, Smaller
<1>11. QED
  BY <1>7, <1>8, <1>9, <1>10 DEF Inv

\* complete_prefill keeps it: the row in flight goes back to one queue.
LEMMA CompletePrefillInv ==
  ASSUME Inv, NEW s \in SequenceIds, NEW processed \in Nat, CompletePrefill(s, processed)
  PROVE  Inv'
<1>1. TypeOK /\ QueuesMatchPhases /\ ActiveExact /\ PromptAccounted
  BY DEF Inv
<1>2. s \notin In("Waiting") \cup In("Prefill") \cup In("Decode") /\ s \in AdmittedSet
  BY DEF CompletePrefill, In, AdmittedSet, Admitted
<1>3. PICK q \in {"Prefill", "Decode"} :
         /\ phase' = [phase EXCEPT ![s] = q]
         /\ q = "Decode" <=> remaining'[s] = 0
         /\ q = "Decode" => decode' = Append(decode, s) /\ prefill' = prefill
         /\ q = "Prefill" => prefill' = Append(prefill, s) /\ decode' = decode
  BY DEF CompletePrefill
<1>4. /\ phase' \in [SequenceIds -> Phase]
      /\ In("Waiting")' = In("Waiting")
      /\ q = "Prefill" => In("Prefill")' = In("Prefill") \cup {s} /\ In("Decode")' = In("Decode")
      /\ q = "Decode" => In("Decode")' = In("Decode") \cup {s} /\ In("Prefill")' = In("Prefill")
      /\ AdmittedSet' = AdmittedSet
  <2>1. phase \in [SequenceIds -> Phase]
    BY <1>1 DEF TypeOK
  <2>2. {"Waiting", "Prefill", "Decode"} \subseteq Phase
    BY DEF Phase
  <2>3. CASE q = "Prefill"
    BY <1>2, <1>3, <2>1, <2>2, <2>3, PhaseChange
  <2>4. CASE q = "Decode"
    BY <1>2, <1>3, <2>1, <2>2, <2>4, PhaseChange
  <2>5. QED
    BY <2>3, <2>4
<1>5. prefill' \in Seq(SequenceIds) /\ Lists(prefill', In("Prefill")')
  <2>1. CASE q = "Prefill"
    <3>1. s \notin In("Prefill") /\ prefill' = Append(prefill, s) /\ In("Prefill")' = In("Prefill") \cup {s}
      BY <1>2, <1>3, <1>4, <2>1
    <3>2. /\ Append(prefill, s) \in Seq(SequenceIds)
          /\ Lists(Append(prefill, s), In("Prefill") \cup {s})
      BY <3>1, InvQueues, ListsAppend
    <3>3. QED
      BY <3>1, <3>2
  <2>2. CASE q = "Decode"
    BY <1>3, <1>4, <2>2, InvQueues
  <2>3. QED
    BY <2>1, <2>2
<1>6. decode' \in Seq(SequenceIds) /\ Lists(decode', In("Decode")')
  <2>1. CASE q = "Decode"
    <3>1. s \notin In("Decode") /\ decode' = Append(decode, s) /\ In("Decode")' = In("Decode") \cup {s}
      BY <1>2, <1>3, <1>4, <2>1
    <3>2. /\ Append(decode, s) \in Seq(SequenceIds)
          /\ Lists(Append(decode, s), In("Decode") \cup {s})
      BY <3>1, InvQueues, ListsAppend
    <3>3. QED
      BY <3>1, <3>2
  <2>2. CASE q = "Prefill"
    BY <1>3, <1>4, <2>2, InvQueues
  <2>3. QED
    BY <2>1, <2>2
<1>7. /\ remaining' = [remaining EXCEPT ![s] = remaining[s] - processed]
      /\ planned' = [planned EXCEPT ![s] = 0]
      /\ processed <= remaining[s]
  BY DEF CompletePrefill
<1>8. TypeOK'
  <2>1. remaining' \in [SequenceIds -> Nat] /\ planned' \in [SequenceIds -> Nat]
    BY <1>1, <1>7 DEF TypeOK
  <2>2. QED
    BY <1>1, <1>4, <1>5, <1>6, <2>1 DEF CompletePrefill, TypeOK
<1>9. QueuesMatchPhases'
  BY <1>1, <1>4, <1>5, <1>6 DEF CompletePrefill, QueuesMatchPhases
<1>10. ActiveExact'
  BY <1>1, <1>4 DEF CompletePrefill, ActiveExact
<1>11. PromptAccounted'
  <2> SUFFICES ASSUME NEW t \in SequenceIds
               PROVE  /\ phase'[t] \in {"Waiting", "Prefill", "InFlightPrefill"} <=> remaining'[t] > 0
                      /\ planned'[t] > 0 <=> phase'[t] = "InFlightPrefill"
                      /\ planned'[t] <= Smaller(remaining'[t], MaxPrefillChunk)
    BY DEF PromptAccounted
  <2>1. CASE t = s
    BY <1>1, <1>3, <1>7, <2>1, Limits DEF TypeOK, Smaller
  <2>2. CASE t # s
    BY <1>1, <1>3, <1>7, <2>2 DEF TypeOK, PromptAccounted
  <2>3. QED
    BY <2>1, <2>2
<1>12. QED
  BY <1>8, <1>9, <1>10, <1>11 DEF Inv

\* A sequence that leaves the map of states leaves every queue and count.
LEMMA ForgetFacts ==
  ASSUME Inv, NEW s \in SequenceIds, Forget(s)
  PROVE  /\ phase' \in [SequenceIds -> Phase] /\ remaining' \in [SequenceIds -> Nat]
         /\ planned' \in [SequenceIds -> Nat] /\ waited' \in [SequenceIds -> 0 .. MaxPrefillWait]
         /\ plan' = NoPlan
         /\ \A p \in {"Waiting", "Prefill", "Decode"} :
              /\ In(p)' = In(p) \ {s}
              /\ phase[s] # p => In(p)' = In(p)
              /\ phase[s] = p => s \in In(p)
         /\ Admitted(s) => Cardinality(AdmittedSet') = active - 1 /\ active > 0
         /\ ~Admitted(s) => Cardinality(AdmittedSet') = active
         /\ PromptAccounted'
<1>1. TypeOK /\ ActiveExact /\ PromptAccounted
  BY DEF Inv
<1>2. MaxPrefillWait \in Nat /\ MaxPrefillChunk \in Nat
  BY Limits
<1>3. /\ phase' \in [SequenceIds -> Phase] /\ remaining' \in [SequenceIds -> Nat]
      /\ planned' \in [SequenceIds -> Nat] /\ waited' \in [SequenceIds -> 0 .. MaxPrefillWait]
      /\ plan' = NoPlan
  BY <1>1, <1>2 DEF Forget, TypeOK, Phase
<1>4. phase' = [phase EXCEPT ![s] = "Absent"] /\ phase \in [SequenceIds -> Phase]
  BY <1>1 DEF Forget, TypeOK
<1>5. ASSUME NEW p \in {"Waiting", "Prefill", "Decode"}
      PROVE  /\ In(p)' = In(p) \ {s}
             /\ phase[s] # p => In(p)' = In(p)
             /\ phase[s] = p => s \in In(p)
  <2>1. In(p)' = In(p) \ {s}
    BY <1>4, PhaseChange DEF Phase
  <2>2. s \in In(p) <=> phase[s] = p
    BY DEF In
  <2>3. QED
    BY <2>1, <2>2
<1>6. AdmittedSet' = AdmittedSet \ {s} /\ AdmittedSet \in SUBSET SequenceIds
  BY <1>4, PhaseChange DEF Phase, AdmittedSet
<1>7. s \in AdmittedSet <=> Admitted(s)
  BY DEF AdmittedSet
<1>8. active = Cardinality(AdmittedSet) /\ active \in Nat
  BY <1>1 DEF ActiveExact, TypeOK
<1>9. ASSUME Admitted(s)
      PROVE  Cardinality(AdmittedSet') = active - 1 /\ active > 0
  <2>1. /\ Cardinality(AdmittedSet) \in Nat \ {0}
        /\ Cardinality(AdmittedSet \ {s}) = Cardinality(AdmittedSet) - 1
    BY <1>6, <1>7, <1>9, CountOneLess
  <2>2. QED
    BY <1>6, <1>8, <2>1
<1>10. ASSUME ~Admitted(s)
       PROVE  Cardinality(AdmittedSet') = active
  <2>1. AdmittedSet' = AdmittedSet
    BY <1>6, <1>7, <1>10
  <2>2. QED
    BY <1>8, <2>1
<1>11. PromptAccounted'
  BY <1>1, <1>2 DEF Forget, TypeOK, PromptAccounted, Smaller
<1>12. (Admitted(s) => Cardinality(AdmittedSet') = active - 1 /\ active > 0)
       /\ (~Admitted(s) => Cardinality(AdmittedSet') = active)
  BY <1>9, <1>10
<1>13. QED
  BY <1>3, <1>5, <1>11, <1>12

\* The counter after a sequence has been forgotten, with its bounds.
LEMMA ForgetCount ==
  ASSUME Inv, NEW s \in SequenceIds, Forget(s)
  PROVE  /\ active \in Nat /\ MaxActiveSequences \in Nat /\ active <= MaxActiveSequences
         /\ Admitted(s) => Cardinality(AdmittedSet') = active - 1 /\ active > 0
         /\ ~Admitted(s) => Cardinality(AdmittedSet') = active
<1>1. active \in Nat /\ active <= MaxActiveSequences
  BY DEF Inv, TypeOK, ActiveExact
<1>2. MaxActiveSequences \in Nat
  BY Limits
<1>3. QED
  BY <1>1, <1>2, ForgetFacts

\* complete_decode keeps it, whether the row ends or goes on.
LEMMA CompleteDecodeInv ==
  ASSUME Inv, NEW s \in SequenceIds, NEW terminal \in BOOLEAN, CompleteDecode(s, terminal)
  PROVE  Inv'
<1>1. TypeOK /\ QueuesMatchPhases /\ ActiveExact /\ PromptAccounted
  BY DEF Inv
<1>2. s \notin In("Waiting") \cup In("Prefill") \cup In("Decode") /\ s \in AdmittedSet /\ Admitted(s)
  BY DEF CompleteDecode, In, AdmittedSet, Admitted
<1>3. CASE Forget(s) /\ active' = active - 1 /\ UNCHANGED <<waiting, prefill, decode>>
  <2>1. In("Waiting")' = In("Waiting") /\ In("Prefill")' = In("Prefill") /\ In("Decode")' = In("Decode")
    BY <1>3, ForgetFacts DEF CompleteDecode
  <2>2. active' \in Nat /\ ActiveExact'
    <3>1. /\ active \in Nat /\ MaxActiveSequences \in Nat /\ active <= MaxActiveSequences
          /\ Cardinality(AdmittedSet') = active - 1 /\ active > 0
      BY <1>2, <1>3, ForgetCount
    <3>2. QED
      BY <1>3, <3>1 DEF ActiveExact
  <2>3. TypeOK'
    BY <1>1, <1>3, <2>2, ForgetFacts DEF TypeOK
  <2>4. QueuesMatchPhases'
    BY <1>1, <1>3, <2>1 DEF QueuesMatchPhases
  <2>5. QED
    BY <1>3, <2>2, <2>3, <2>4, ForgetFacts DEF Inv
<1>4. CASE /\ phase' = [phase EXCEPT ![s] = "Decode"]
           /\ decode' = Append(decode, s)
           /\ plan' = NoPlan
           /\ UNCHANGED <<remaining, planned, waited, waiting, prefill, active>>
  <2>1. {"Waiting", "Prefill", "Decode"} \subseteq Phase /\ phase \in [SequenceIds -> Phase]
    BY <1>1 DEF Phase, TypeOK
  <2>2. /\ phase' \in [SequenceIds -> Phase] /\ AdmittedSet' = AdmittedSet
        /\ In("Waiting")' = In("Waiting") /\ In("Prefill")' = In("Prefill")
        /\ In("Decode")' = In("Decode") \cup {s}
    BY <1>2, <1>4, <2>1, PhaseChange
  <2>3. decode' \in Seq(SequenceIds) /\ Lists(decode', In("Decode")')
    <3>1. s \notin In("Decode") /\ decode' = Append(decode, s)
      BY <1>2, <1>4
    <3>2. /\ Append(decode, s) \in Seq(SequenceIds)
          /\ Lists(Append(decode, s), In("Decode") \cup {s})
      BY <3>1, InvQueues, ListsAppend
    <3>3. QED
      BY <3>1, <3>2, <2>2
  <2>4. TypeOK'
    BY <1>1, <1>4, <2>2, <2>3 DEF TypeOK
  <2>5. QueuesMatchPhases'
    BY <1>1, <1>4, <2>2, <2>3 DEF QueuesMatchPhases
  <2>6. ActiveExact'
    BY <1>1, <1>4, <2>2 DEF ActiveExact
  <2>7. PromptAccounted'
    BY <1>1, <1>4, <2>1 DEF CompleteDecode, TypeOK, PromptAccounted
  <2>8. QED
    BY <2>4, <2>5, <2>6, <2>7 DEF Inv
<1>5. QED
  BY <1>3, <1>4 DEF CompleteDecode

\* What a queue becomes when s is removed from the one its phase names.
LEMMA RemovedFromQueue ==
  ASSUME Inv, NEW s \in SequenceIds, Forget(s),
         NEW p \in {"Waiting", "Prefill", "Decode"},
         NEW queue \in Seq(SequenceIds), Lists(queue, In(p)), NEW left,
         left = IF phase[s] = p THEN Without(queue, s) ELSE queue
  PROVE  left \in Seq(SequenceIds) /\ Lists(left, In(p)')
<1>1. CASE phase[s] = p
  <2>1. s \in In(p) /\ In(p)' = In(p) \ {s}
    BY <1>1, ForgetFacts
  <2>2. Without(queue, s) \in Seq(SequenceIds) /\ Lists(Without(queue, s), In(p) \ {s})
    BY <2>1, ListsWithout
  <2>3. QED
    BY <1>1, <2>1, <2>2
<1>2. CASE phase[s] # p
  BY <1>2, ForgetFacts
<1>3. QED
  BY <1>1, <1>2

\* cancel keeps it, in whatever phase the sequence is.
LEMMA CancelInv ==
  ASSUME Inv, NEW s \in SequenceIds, Cancel(s)
  PROVE  Inv'
<1>1. Forget(s)
  BY DEF Cancel
<1>2. waiting' \in Seq(SequenceIds) /\ Lists(waiting', In("Waiting")')
  BY <1>1, InvQueues, RemovedFromQueue DEF Cancel
<1>3. prefill' \in Seq(SequenceIds) /\ Lists(prefill', In("Prefill")')
  BY <1>1, InvQueues, RemovedFromQueue DEF Cancel
<1>4. decode' \in Seq(SequenceIds) /\ Lists(decode', In("Decode")')
  BY <1>1, InvQueues, RemovedFromQueue DEF Cancel
<1>5. Admitted(s) <=> phase[s] # "Waiting"
  BY DEF Cancel, Admitted
<1>6. active' \in Nat /\ active' = Cardinality(AdmittedSet') /\ active' <= MaxActiveSequences
  <2>1. active' = IF Admitted(s) THEN active - 1 ELSE active
    BY <1>5 DEF Cancel
  <2>2. /\ active \in Nat /\ MaxActiveSequences \in Nat /\ active <= MaxActiveSequences
        /\ Admitted(s) => Cardinality(AdmittedSet') = active - 1 /\ active > 0
        /\ ~Admitted(s) => Cardinality(AdmittedSet') = active
    BY <1>1, ForgetCount
  <2>3. QED
    BY <2>1, <2>2
<1>7. TypeOK'
  BY <1>1, <1>2, <1>3, <1>4, <1>6, ForgetFacts DEF TypeOK
<1>8. QueuesMatchPhases' /\ ActiveExact'
  BY <1>2, <1>3, <1>4, <1>6 DEF QueuesMatchPhases, ActiveExact
<1>9. QED
  BY <1>1, <1>7, <1>8, ForgetFacts DEF Inv

\* remove_terminal keeps it.
LEMMA RemoveTerminalInv ==
  ASSUME Inv, NEW s \in SequenceIds, RemoveTerminal(s)
  PROVE  Inv'
<1>1. Forget(s)
  BY DEF RemoveTerminal
<1>2. waiting' \in Seq(SequenceIds) /\ Lists(waiting', In("Waiting")')
  <2>1. phase[s] # "Waiting" /\ waiting' = waiting
    BY DEF RemoveTerminal
  <2>2. QED
    BY <1>1, <2>1, InvQueues, ForgetFacts
<1>3. prefill' \in Seq(SequenceIds) /\ Lists(prefill', In("Prefill")')
  BY <1>1, InvQueues, RemovedFromQueue DEF RemoveTerminal
<1>4. decode' \in Seq(SequenceIds) /\ Lists(decode', In("Decode")')
  BY <1>1, InvQueues, RemovedFromQueue DEF RemoveTerminal
<1>5. Admitted(s)
  BY DEF RemoveTerminal, Admitted
<1>6. active' \in Nat /\ active' = Cardinality(AdmittedSet') /\ active' <= MaxActiveSequences
  <2>1. active' = active - 1
    BY DEF RemoveTerminal
  <2>2. /\ active \in Nat /\ MaxActiveSequences \in Nat /\ active <= MaxActiveSequences
        /\ Cardinality(AdmittedSet') = active - 1 /\ active > 0
    BY <1>1, <1>5, ForgetCount
  <2>3. QED
    BY <2>1, <2>2
<1>7. TypeOK'
  BY <1>1, <1>2, <1>3, <1>4, <1>6, ForgetFacts DEF TypeOK
<1>8. QueuesMatchPhases' /\ ActiveExact'
  BY <1>2, <1>3, <1>4, <1>6 DEF QueuesMatchPhases, ActiveExact
<1>9. QED
  BY <1>1, <1>7, <1>8, ForgetFacts DEF Inv

\* The clock keeps it.
LEMMA TickInv ==
  ASSUME Inv, Tick
  PROVE  Inv'
<1>1. TypeOK /\ QueuesMatchPhases /\ ActiveExact /\ PromptAccounted
  BY DEF Inv
<1>2. waited' \in [SequenceIds -> 0 .. MaxPrefillWait]
  BY <1>1, Limits DEF Tick, TypeOK, Smaller
<1>3. TypeOK'
  BY <1>1, <1>2 DEF Tick, TypeOK
<1>4. QueuesMatchPhases' /\ ActiveExact' /\ PromptAccounted'
  BY <1>1 DEF Tick, QueuesMatchPhases, ActiveExact, PromptAccounted, In, AdmittedSet, Admitted
<1>5. QED
  BY <1>3, <1>4 DEF Inv

-----------------------------------------------------------------------------
(* Plan: the rows it takes are distinct entries of the queues it serves.   *)

\* A set of naturals that is not empty has a smallest element.
LEMMA NatMin ==
  ASSUME NEW S \in SUBSET Nat, S # {}
  PROVE  \E n \in S : \A m \in S : n <= m
<1>1. PICK n \in S : \A m \in S : <<m, n>> \notin OpToRel(<, Nat)
  BY NatLessThanWellFounded, WFMin
<1>2. \A m \in S : ~(m < n)
  BY <1>1 DEF OpToRel
<1>3. QED
  BY <1>2

\* The smallest bucket that fits is one of the buckets, or 0.
LEMMA FamilyForNat ==
  ASSUME NEW buckets \in SUBSET Nat, NEW n
  PROVE  FamilyFor(buckets, n) \in Nat
<1> DEFINE fitting == {b \in buckets : n <= b}
<1>1. CASE fitting = {}
  BY <1>1 DEF FamilyFor
<1>2. CASE fitting # {}
  <2>1. \E b \in fitting : \A c \in fitting : b <= c
    BY <1>2, NatMin
  <2>2. QED
    BY <1>2, <2>1 DEF FamilyFor
<1>3. QED
  BY <1>1, <1>2

\* The order in which prompts are taken lists the prompts that are queued.
LEMMA PrefillOrderFacts ==
  ASSUME Inv
  PROVE  /\ PrefillOrder \in Seq(SequenceIds) /\ Len(PrefillOrder) = Len(prefill)
         /\ Lists(PrefillOrder, In("Prefill"))
<1>1. CASE Aged = {}
  BY <1>1, InvQueues DEF PrefillOrder
<1>2. CASE Aged # {}
  <2>1. Aged \subseteq 1 .. Len(prefill) /\ Len(prefill) \in Nat
    BY InvQueues, LenProperties DEF Aged
  <2>2. FirstAged \in Aged
    <3>1. \E i \in Aged : \A j \in Aged : i <= j
      BY <1>2, <2>1, NatMin
    <3>2. QED
      BY <3>1 DEF FirstAged
  <2>3. FirstAged \in 1 .. Len(prefill)
    BY <2>1, <2>2
  <2>4. PrefillOrder = [k \in DOMAIN prefill |->
                          IF k = 1 THEN prefill[FirstAged]
                          ELSE IF k <= FirstAged THEN prefill[k - 1] ELSE prefill[k]]
    BY <1>2 DEF PrefillOrder
  <2> HIDE DEF PrefillOrder
  <2>5. QED
    BY <2>3, <2>4, InvQueues, ListsMoved
<1>3. QED
  BY <1>1, <1>2

\* The decode rows are entries of their queue, within a family and the budget.
LEMMA DecodeRowsFacts ==
  ASSUME Inv
  PROVE  /\ DecodeRows \in 0 .. Len(decode)
         /\ DecodeRows <= LargestBucket /\ DecodeRows <= MaxBatchedTokens
<1>1. Len(decode) \in Nat /\ LargestBucket \in Nat \ {0} /\ MaxBatchedTokens \in Nat \ {0}
  BY InvQueues, LenProperties, Limits
<1>2. QED
  BY <1>1 DEF DecodeRows, Smaller

\* A chunk of a prompt that is queued takes some of it and no more.
LEMMA ChunkFacts ==
  ASSUME Inv, NEW s \in In("Prefill"), NEW budget \in Nat \ {0}
  PROVE  /\ Chunk(s, budget) \in Nat \ {0} /\ Chunk(s, budget) <= budget
         /\ Chunk(s, budget) <= remaining[s] /\ Chunk(s, budget) <= MaxPrefillChunk
<1>1. remaining[s] \in Nat \ {0} /\ MaxPrefillChunk \in Nat \ {0}
  BY Limits DEF Inv, TypeOK, PromptAccounted, In
<1>2. QED
  BY <1>1 DEF Chunk, Smaller

\* A plan, told by the sets D and P of the sequences whose rows it takes.
LEMMA PlanFacts ==
  ASSUME Inv, Plan
  PROVE  \E rows \in 0 .. Len(prefill) :
           LET D == FirstOf(decode, DecodeRows)
               P == FirstOf(PrefillOrder, rows)
           IN  /\ decode' = SubSeq(decode, DecodeRows + 1, Len(decode))
               /\ prefill' = SubSeq(PrefillOrder, rows + 1, Len(PrefillOrder))
               /\ phase' = [s \in SequenceIds |-> IF s \in D THEN "InFlightDecode"
                                                  ELSE IF s \in P THEN "InFlightPrefill"
                                                  ELSE phase[s]]
               /\ planned' = [s \in SequenceIds |-> planned'[s]]
               /\ \A s \in SequenceIds \ P : planned'[s] = planned[s]
               /\ \A s \in P : planned'[s] \in Nat \ {0} /\ planned'[s] <= remaining[s]
                               /\ planned'[s] <= MaxPrefillChunk
               /\ plan' \in BatchPlan
               /\ plan'.decode = SubSeq(decode, 1, DecodeRows)
               /\ plan'.stable = IsStable(DecodeRows, rows, prefill', decode')
               /\ plan'.prefill = SubSeq(PrefillOrder, 1, rows)
               /\ Aged # {} => rows > 0
               /\ UNCHANGED <<remaining, waited, waiting, active>>
<1> DEFINE order == PrefillOrder
           decoded == SubSeq(decode, 1, DecodeRows)
           D == FirstOf(decode, DecodeRows)
<1> DEFINE Takes3(rows, left, longest) ==
             LET taken == SubSeq(order, 1, rows)
             IN  /\ left[1] = MaxBatchedTokens - DecodeRows
                 /\ Takes(order, rows, left)
                 /\ decode' = SubSeq(decode, DecodeRows + 1, Len(decode))
                 /\ prefill' = SubSeq(order, rows + 1, Len(order))
                 /\ phase' = [s \in SequenceIds |->
                      IF \E i \in DOMAIN decoded : decoded[i] = s THEN "InFlightDecode"
                      ELSE IF \E k \in DOMAIN taken : taken[k] = s THEN "InFlightPrefill"
                      ELSE phase[s]]
                 /\ planned' = [s \in SequenceIds |->
                      IF \E k \in DOMAIN taken : taken[k] = s
                      THEN left[CHOOSE k \in DOMAIN taken : taken[k] = s]
                             - left[(CHOOSE k \in DOMAIN taken : taken[k] = s) + 1]
                      ELSE planned[s]]
                 /\ plan' = [made          |-> TRUE,
                             decode        |-> decoded,
                             prefill       |-> taken,
                             decodeFamily  |-> FamilyFor(BatchBuckets, DecodeRows),
                             prefillFamily |-> FamilyFor(BatchBuckets, rows),
                             queryFamily   |-> FamilyFor(QueryBuckets, longest),
                             stable        |-> IsStable(DecodeRows, rows, prefill', decode')]
                 /\ UNCHANGED <<remaining, waited, waiting, active>>
<1>0. \E rows \in 0 .. Smaller(Len(prefill), LargestBucket) :
      \E left \in [1 .. rows + 1 -> 0 .. MaxBatchedTokens] :
      \E longest : Takes3(rows, left, longest)
  BY DEF Plan
<1>0a. PICK rows \in 0 .. Smaller(Len(prefill), LargestBucket) :
        \E left \in [1 .. rows + 1 -> 0 .. MaxBatchedTokens] :
        \E longest : Takes3(rows, left, longest)
  BY <1>0
<1>0b. PICK left \in [1 .. rows + 1 -> 0 .. MaxBatchedTokens] :
        \E longest : Takes3(rows, left, longest)
  BY <1>0a
<1>1. PICK longest : Takes3(rows, left, longest)
  BY <1>0b
<1> DEFINE taken == SubSeq(order, 1, rows)
           P == FirstOf(order, rows)
<1>2. /\ Len(prefill) \in Nat /\ LargestBucket \in Nat /\ MaxBatchedTokens \in Nat
      /\ rows \in Nat /\ rows \in 0 .. Len(prefill)
  BY InvQueues, LenProperties, Limits DEF Smaller
<1>3. /\ order \in Seq(SequenceIds) /\ Len(order) = Len(prefill) /\ Lists(order, In("Prefill"))
      /\ rows \in 0 .. Len(order)
  BY <1>2, PrefillOrderFacts
<1>4. /\ decode \in Seq(SequenceIds) /\ Lists(decode, In("Decode"))
      /\ DecodeRows \in 0 .. Len(decode)
  BY InvQueues, DecodeRowsFacts
<1> HIDE DEF order
<1>5. /\ taken \in Seq(SequenceIds) /\ Len(taken) = rows /\ Lists(taken, P)
      /\ \A k \in 1 .. rows : taken[k] = order[k]
      /\ P \subseteq In("Prefill")
  <2>1. order \in Seq(SequenceIds) /\ Lists(order, In("Prefill")) /\ rows \in 0 .. Len(order)
    BY <1>3
  <2>2. taken \in Seq(SequenceIds) /\ Lists(taken, P)
    BY <2>1, ListsCut
  <2>3. Len(taken) = rows
    <3>1. Len(order) \in Nat /\ \A k \in 1 .. rows : order[k] \in SequenceIds
      BY <2>1, LenProperties, ElementOfSeq
    <3>2. QED
      BY <2>1, <3>1, SubSeqProperties
  <2>4. \A k \in 1 .. rows : taken[k] = order[k]
    BY <2>1, ListsCut
  <2>5. P \subseteq In("Prefill")
    BY <2>1, ListsCut
  <2>6. QED
    BY <2>2, <2>3, <2>4, <2>5
<1>6. decoded \in Seq(SequenceIds) /\ Lists(decoded, D)
  BY <1>4, ListsCut
<1>7. DOMAIN taken = 1 .. rows
  BY <1>5, LenProperties
<1>8. /\ \A s : (\E k \in DOMAIN taken : taken[k] = s) <=> s \in P
      /\ \A s : (\E i \in DOMAIN decoded : decoded[i] = s) <=> s \in D
  BY <1>5, <1>6 DEF Lists
<1> HIDE DEF taken, decoded, P, D
<1>9. phase' = [s \in SequenceIds |-> IF s \in D THEN "InFlightDecode"
                                       ELSE IF s \in P THEN "InFlightPrefill" ELSE phase[s]]
  BY <1>1, <1>8 DEF taken, decoded
<1>10. planned' = [s \in SequenceIds |-> planned'[s]] /\ \A s \in SequenceIds \ P : planned'[s] = planned[s]
  BY <1>1, <1>8 DEF taken
<1>11. ASSUME NEW s \in P
       PROVE  planned'[s] \in Nat \ {0} /\ planned'[s] <= remaining[s] /\ planned'[s] <= MaxPrefillChunk
  <2> DEFINE k == CHOOSE i \in DOMAIN taken : taken[i] = s
  <2>1. k \in 1 .. rows /\ taken[k] = s
    BY <1>7, <1>8, <1>11
  <2>2. s \in In("Prefill") /\ s \in SequenceIds
    BY <1>5, <1>11 DEF In
  <2>3. planned'[s] = left[k] - left[k + 1]
    BY <1>1, <1>8, <1>11, <2>2 DEF taken
  <2> HIDE DEF k
  <2>4. left[k] \in 0 .. MaxBatchedTokens /\ left[k] # 0
        /\ left[k + 1] = left[k] - Chunk(s, left[k])
    <3>1. order[k] = s
      BY <1>5, <2>1
    <3>2. k \in 1 .. rows + 1
      BY <2>1, <1>2
    <3>3. left[k] # 0 /\ left[k + 1] = left[k] - Chunk(order[k], left[k])
      BY <1>1, <2>1 DEF Takes
    <3>4. QED
      BY <3>1, <3>2, <3>3
  <2>5. left[k] \in Nat \ {0}
    BY <2>4, <1>2
  <2>6. /\ Chunk(s, left[k]) \in Nat \ {0} /\ Chunk(s, left[k]) <= remaining[s]
        /\ Chunk(s, left[k]) <= MaxPrefillChunk
    BY <2>2, <2>5, ChunkFacts
  <2>7. planned'[s] = Chunk(s, left[k])
    BY <2>3, <2>4, <2>5, <2>6
  <2>8. QED
    BY <2>6, <2>7
<1>12. plan' \in BatchPlan /\ plan'.decode = decoded /\ plan'.prefill = taken
       /\ plan'.stable = IsStable(DecodeRows, rows, prefill', decode')
  <2>1. BatchBuckets \in SUBSET Nat /\ QueryBuckets \in SUBSET Nat
    BY Limits
  <2>2. /\ FamilyFor(BatchBuckets, DecodeRows) \in Nat /\ FamilyFor(BatchBuckets, rows) \in Nat
        /\ FamilyFor(QueryBuckets, longest) \in Nat
    BY <2>1, FamilyForNat
  <2>3. IsStable(DecodeRows, rows, prefill', decode') \in BOOLEAN
    BY DEF IsStable
  <2>4. plan' = [made |-> TRUE, decode |-> decoded, prefill |-> taken,
                 decodeFamily |-> FamilyFor(BatchBuckets, DecodeRows),
                 prefillFamily |-> FamilyFor(BatchBuckets, rows),
                 queryFamily |-> FamilyFor(QueryBuckets, longest),
                 stable |-> IsStable(DecodeRows, rows, prefill', decode')]
    BY <1>1 DEF taken
  <2>5. QED
    BY <1>5, <1>6, <2>2, <2>3, <2>4 DEF BatchPlan
<1>13. /\ decode' = SubSeq(decode, DecodeRows + 1, Len(decode))
       /\ prefill' = SubSeq(order, rows + 1, Len(order))
       /\ UNCHANGED <<remaining, waited, waiting, active>>
  BY <1>1
<1>14. ASSUME Aged # {}
       PROVE  rows > 0
  <2> SUFFICES ASSUME rows = 0 PROVE FALSE
    BY <1>2
  <2>1. Aged \subseteq 1 .. Len(prefill)
    BY InvQueues, LenProperties DEF Aged
  <2>2. Len(order) > 0
    <3>1. PICK i \in 1 .. Len(prefill) : i \in Aged
      BY <1>14, <2>1
    <3>2. Len(prefill) > 0
      BY <1>2, <3>1
    <3>3. QED
      BY <1>3, <3>2
  <2>3. left[1] = 0
    <3>1. rows < Len(order) /\ rows < LargestBucket => left[rows + 1] = 0
      BY <1>1 DEF Takes
    <3>2. LargestBucket > 0 /\ rows + 1 = 1
      BY Limits
    <3>3. QED
      BY <2>2, <3>1, <3>2
  <2>4. DecodeRows <= MaxBatchedTokens - 1
    <3>1. MaxBatchedTokens \in Nat \ {0} /\ Len(decode) \in Nat /\ LargestBucket \in Nat
      BY InvQueues, LenProperties, Limits
    <3>2. DecodeRows = Smaller(Smaller(MaxBatchedTokens - 1, Len(decode)), LargestBucket)
      BY <1>14 DEF DecodeRows
    <3>3. QED
      BY <3>1, <3>2 DEF Smaller
  <2>5. left[1] = MaxBatchedTokens - DecodeRows /\ DecodeRows \in Nat /\ MaxBatchedTokens \in Nat
    <3>1. left[1] = MaxBatchedTokens - DecodeRows
      BY <1>1
    <3>2. Len(decode) \in Nat /\ DecodeRows \in 0 .. Len(decode)
      BY <1>4, InvQueues, LenProperties
    <3>3. QED
      BY <1>2, <3>1, <3>2
  <2>6. QED
    BY <2>3, <2>4, <2>5
<1>15. QED
  BY <1>2, <1>9, <1>10, <1>11, <1>12, <1>13, <1>14 DEF D, P, order, decoded, taken

\* plan keeps it, and a plan it calls stable covers every sequence.
LEMMA PlanInv ==
  ASSUME Inv, Plan
  PROVE  Inv' /\ StableCoversAll'
<1>1. TypeOK /\ QueuesMatchPhases /\ ActiveExact /\ PromptAccounted
  BY DEF Inv
<1> DEFINE D == FirstOf(decode, DecodeRows)
<1>2. PICK rows \in 0 .. Len(prefill) :
        LET P == FirstOf(PrefillOrder, rows)
        IN  /\ decode' = SubSeq(decode, DecodeRows + 1, Len(decode))
            /\ prefill' = SubSeq(PrefillOrder, rows + 1, Len(PrefillOrder))
            /\ phase' = [s \in SequenceIds |-> IF s \in D THEN "InFlightDecode"
                                               ELSE IF s \in P THEN "InFlightPrefill"
                                               ELSE phase[s]]
            /\ planned' = [s \in SequenceIds |-> planned'[s]]
            /\ \A s \in SequenceIds \ P : planned'[s] = planned[s]
            /\ \A s \in P : planned'[s] \in Nat \ {0} /\ planned'[s] <= remaining[s]
                            /\ planned'[s] <= MaxPrefillChunk
            /\ plan' \in BatchPlan
            /\ plan'.decode = SubSeq(decode, 1, DecodeRows)
            /\ plan'.stable = IsStable(DecodeRows, rows, prefill', decode')
            /\ UNCHANGED <<remaining, waited, waiting, active>>
  BY PlanFacts
<1> DEFINE P == FirstOf(PrefillOrder, rows)
<1>3. /\ decode' \in Seq(SequenceIds) /\ Lists(decode', In("Decode") \ D)
      /\ D \subseteq In("Decode")
      /\ plan'.decode \in Seq(SequenceIds) /\ Lists(plan'.decode, D)
  <2>1. decode \in Seq(SequenceIds) /\ Lists(decode, In("Decode")) /\ DecodeRows \in 0 .. Len(decode)
    BY InvQueues, DecodeRowsFacts
  <2>2. decode' \in Seq(SequenceIds) /\ Lists(decode', In("Decode") \ D)
    BY <1>2, <2>1, ListsCut
  <2>3. plan'.decode \in Seq(SequenceIds) /\ Lists(plan'.decode, D)
    <3>1. plan'.decode = SubSeq(decode, 1, DecodeRows)
      BY <1>2
    <3>2. SubSeq(decode, 1, DecodeRows) \in Seq(SequenceIds) /\ Lists(SubSeq(decode, 1, DecodeRows), D)
      BY <2>1, ListsCut
    <3>3. QED
      BY <3>1, <3>2
  <2>4. D \subseteq In("Decode")
    BY <2>1, ListsCut
  <2>5. QED
    BY <2>2, <2>3, <2>4
<1>4. /\ prefill' \in Seq(SequenceIds) /\ Lists(prefill', In("Prefill") \ P)
      /\ P \subseteq In("Prefill")
  <2>1. /\ PrefillOrder \in Seq(SequenceIds) /\ Lists(PrefillOrder, In("Prefill"))
        /\ rows \in 0 .. Len(PrefillOrder)
    BY <1>2, PrefillOrderFacts
  <2>2. prefill' \in Seq(SequenceIds) /\ Lists(prefill', In("Prefill") \ P)
    BY <1>2, <2>1, ListsCut
  <2>3. P \subseteq In("Prefill")
    BY <2>1, ListsCut
  <2>4. QED
    BY <2>2, <2>3
<1>5. phase' = [s \in SequenceIds |-> IF s \in D THEN "InFlightDecode"
                                       ELSE IF s \in P THEN "InFlightPrefill" ELSE phase[s]]
  BY <1>2
<1>6. /\ planned' = [s \in SequenceIds |-> planned'[s]]
      /\ \A s \in SequenceIds \ P : planned'[s] = planned[s]
      /\ \A s \in P : planned'[s] \in Nat \ {0} /\ planned'[s] <= remaining[s]
                      /\ planned'[s] <= MaxPrefillChunk
  BY <1>2
<1>7. /\ plan' \in BatchPlan
      /\ plan'.stable = IsStable(DecodeRows, rows, prefill', decode')
      /\ UNCHANGED <<remaining, waited, waiting, active>>
  BY <1>2
<1> HIDE DEF D, P
<1>8. phase \in [SequenceIds -> Phase] /\ phase' \in [SequenceIds -> Phase]
  BY <1>1, <1>5 DEF TypeOK, Phase
<1>9. /\ In("Waiting")' = In("Waiting")
      /\ In("Decode")' = In("Decode") \ D
      /\ In("Prefill")' = In("Prefill") \ P
  BY <1>3, <1>4, <1>5, <1>8 DEF In
<1>10. \A s \in SequenceIds : Admitted(s)' <=> Admitted(s)
  BY <1>3, <1>4, <1>5, <1>8 DEF In, Admitted
<1>11. AdmittedSet' = AdmittedSet
  BY <1>10 DEF AdmittedSet
<1>12. TypeOK'
  <2>1. planned' \in [SequenceIds -> Nat]
    <3>1. planned \in [SequenceIds -> Nat]
      BY <1>1 DEF TypeOK
    <3>2. \A s \in SequenceIds : planned'[s] \in Nat
      BY <3>1, <1>6
    <3>3. QED
      BY <3>2, <1>6
  <2>2. QED
    BY <1>1, <1>3, <1>4, <1>7, <1>8, <2>1 DEF TypeOK
<1>13. QueuesMatchPhases'
  BY <1>1, <1>3, <1>4, <1>7, <1>9 DEF QueuesMatchPhases
<1>14. ActiveExact'
  BY <1>1, <1>7, <1>11 DEF ActiveExact
<1>15. PromptAccounted'
  <2> SUFFICES ASSUME NEW s \in SequenceIds
               PROVE  /\ phase'[s] \in {"Waiting", "Prefill", "InFlightPrefill"} <=> remaining'[s] > 0
                      /\ planned'[s] > 0 <=> phase'[s] = "InFlightPrefill"
                      /\ planned'[s] <= Smaller(remaining'[s], MaxPrefillChunk)
    BY DEF PromptAccounted
  <2>1. /\ phase[s] \in {"Waiting", "Prefill", "InFlightPrefill"} <=> remaining[s] > 0
        /\ planned[s] > 0 <=> phase[s] = "InFlightPrefill"
        /\ planned[s] <= Smaller(remaining[s], MaxPrefillChunk)
        /\ remaining'[s] = remaining[s]
    BY <1>1, <1>7 DEF PromptAccounted
  <2>2. CASE s \in D
    <3>1. phase[s] = "Decode" /\ s \notin P /\ phase'[s] = "InFlightDecode"
      BY <1>3, <1>4, <1>5, <2>2 DEF In
    <3>2. QED
      BY <2>1, <3>1, <1>6
  <2>3. CASE s \in P
    <3>1. phase[s] = "Prefill" /\ phase'[s] = "InFlightPrefill"
      BY <1>3, <1>4, <1>5, <2>3 DEF In
    <3>2. planned'[s] \in Nat \ {0} /\ planned'[s] <= Smaller(remaining'[s], MaxPrefillChunk)
      BY <1>6, <2>1, <2>3 DEF Smaller
    <3>3. QED
      BY <2>1, <3>1, <3>2
  <2>4. CASE s \notin D /\ s \notin P
    BY <1>5, <1>6, <2>1, <2>4
  <2>5. QED
    BY <2>2, <2>3, <2>4
<1>16. StableCoversAll'
  <2> SUFFICES ASSUME plan'.stable
               PROVE  {s \in SequenceIds : phase'[s] # "Absent"} = {plan'.decode[i] : i \in DOMAIN plan'.decode}
    BY DEF StableCoversAll
  <2>1. waiting = << >> /\ active = DecodeRows
    BY <1>7 DEF IsStable
  <2>2. D = AdmittedSet
    <3>1. IsFiniteSet(AdmittedSet) /\ Cardinality(AdmittedSet) = DecodeRows
      <4>1. AdmittedSet \subseteq SequenceIds
        BY DEF AdmittedSet
      <4>2. QED
        BY <4>1, <2>1, <1>1, Limits, FS_Subset DEF ActiveExact
    <3>2. D \subseteq AdmittedSet
      BY <1>3 DEF In, AdmittedSet, Admitted
    <3>3. Cardinality(D) = DecodeRows
      <4>1. DecodeRows \in Nat /\ DecodeRows \in 0 .. Len(decode) /\ Len(decode) \in Nat
        BY DecodeRowsFacts, InvQueues, LenProperties
      <4>2. \A i, j \in 1 .. DecodeRows : decode[i] = decode[j] => i = j
        <5>1. DOMAIN decode = 1 .. Len(decode)
          BY InvQueues, LenProperties
        <5>2. \A i, j \in DOMAIN decode : decode[i] = decode[j] => i = j
          BY InvQueues DEF Lists
        <5>3. QED
          BY <4>1, <5>1, <5>2
      <4>3. ExistsBijection(1 .. DecodeRows, D)
        <5> DEFINE f == [i \in 1 .. DecodeRows |-> decode[i]]
        <5>1. f \in [1 .. DecodeRows -> D]
          BY DEF D, FirstOf
        <5>2. \A x \in D : \E i \in 1 .. DecodeRows : f[i] = x
          BY DEF D, FirstOf
        <5>3. \A i, j \in 1 .. DecodeRows : f[i] = f[j] => i = j
          BY <4>2
        <5> HIDE DEF f
        <5>4. f \in Bijection(1 .. DecodeRows, D)
          BY <5>1, <5>2, <5>3, Fun_IsBij
        <5>5. QED
          BY <5>4 DEF ExistsBijection
      <4>4. IsFiniteSet(1 .. DecodeRows) /\ Cardinality(1 .. DecodeRows) = DecodeRows
        BY <4>1, FS_Interval
      <4>5. QED
        BY <4>3, <4>4, FS_Bijection
    <3>4. QED
      BY <3>1, <3>2, <3>3, FS_Subset
  <2>3. In("Waiting") = {}
    BY <2>1, InvQueues DEF Lists
  <2>4. {s \in SequenceIds : phase'[s] # "Absent"} = AdmittedSet'
    BY <1>8, <1>9, <2>3 DEF AdmittedSet, Admitted, In
  <2>5. QED
    BY <1>3, <1>11, <2>2, <2>4 DEF Lists
<1>17. QED
  BY <1>12, <1>13, <1>14, <1>15, <1>16 DEF Inv

\* What the rows of a plan are, for a caller who does not know the queues.
LEMMA PlanTakes ==
  ASSUME Inv, Plan
  PROVE  \E D \in SUBSET In("Decode"), P \in SUBSET In("Prefill") :
           /\ plan'.decode \in Seq(SequenceIds) /\ Lists(plan'.decode, D)
           /\ plan'.prefill \in Seq(SequenceIds) /\ Lists(plan'.prefill, P)
           /\ phase' = [s \in SequenceIds |-> IF s \in D THEN "InFlightDecode"
                                              ELSE IF s \in P THEN "InFlightPrefill"
                                              ELSE phase[s]]
           /\ plan'.stable \in BOOLEAN
<1> DEFINE D == FirstOf(decode, DecodeRows)
<1>1. PICK rows \in 0 .. Len(prefill) :
        /\ phase' = [s \in SequenceIds |-> IF s \in D THEN "InFlightDecode"
                                           ELSE IF s \in FirstOf(PrefillOrder, rows) THEN "InFlightPrefill"
                                           ELSE phase[s]]
        /\ plan' \in BatchPlan
        /\ plan'.decode = SubSeq(decode, 1, DecodeRows)
        /\ plan'.prefill = SubSeq(PrefillOrder, 1, rows)
  BY PlanFacts
<1> DEFINE P == FirstOf(PrefillOrder, rows)
<1>2. decode \in Seq(SequenceIds) /\ Lists(decode, In("Decode")) /\ DecodeRows \in 0 .. Len(decode)
  BY InvQueues, DecodeRowsFacts
<1>3. /\ SubSeq(decode, 1, DecodeRows) \in Seq(SequenceIds)
      /\ Lists(SubSeq(decode, 1, DecodeRows), D) /\ D \subseteq In("Decode")
  BY <1>2, ListsCut
<1>4. /\ PrefillOrder \in Seq(SequenceIds) /\ Lists(PrefillOrder, In("Prefill"))
      /\ rows \in 0 .. Len(PrefillOrder)
  BY <1>1, PrefillOrderFacts
<1>5. /\ SubSeq(PrefillOrder, 1, rows) \in Seq(SequenceIds)
      /\ Lists(SubSeq(PrefillOrder, 1, rows), P) /\ P \subseteq In("Prefill")
  BY <1>4, ListsCut
<1>6. plan'.stable \in BOOLEAN
  BY <1>1 DEF BatchPlan
<1>7. /\ plan'.decode \in Seq(SequenceIds) /\ Lists(plan'.decode, D)
      /\ plan'.prefill \in Seq(SequenceIds) /\ Lists(plan'.prefill, P)
      /\ phase' = [s \in SequenceIds |-> IF s \in D THEN "InFlightDecode"
                                         ELSE IF s \in P THEN "InFlightPrefill"
                                         ELSE phase[s]]
  BY <1>1, <1>3, <1>5
<1>8. D \in SUBSET In("Decode") /\ P \in SUBSET In("Prefill")
  BY <1>3, <1>5
<1> HIDE DEF D, P
<1>9. QED
  BY <1>6, <1>7, <1>8

\* The prompt aged longest in the queue is the first a plan takes.
LEMMA PlanServesAged ==
  ASSUME Inv, Plan, Aged # {}
  PROVE  \E k \in DOMAIN plan'.prefill : plan'.prefill[k] = prefill[FirstAged]
<1>1. PICK rows \in 0 .. Len(prefill) :
        plan'.prefill = SubSeq(PrefillOrder, 1, rows) /\ rows > 0
  BY PlanFacts
<1>2. /\ PrefillOrder \in Seq(SequenceIds) /\ Lists(PrefillOrder, In("Prefill"))
      /\ rows \in 0 .. Len(PrefillOrder)
  BY <1>1, PrefillOrderFacts
<1>3. /\ SubSeq(PrefillOrder, 1, rows) \in Seq(SequenceIds)
      /\ Len(SubSeq(PrefillOrder, 1, rows)) = rows
  BY <1>2, ListsCut
<1>4. \A i \in 1 .. rows : SubSeq(PrefillOrder, 1, rows)[i] = PrefillOrder[i]
  BY <1>2, ListsCut
<1>5. DOMAIN plan'.prefill = 1 .. rows /\ 1 \in 1 .. rows
  BY <1>1, <1>2, <1>3, LenProperties
<1>6. PrefillOrder[1] = prefill[FirstAged]
  <2>1. 1 \in DOMAIN prefill
    BY <1>1, InvQueues, LenProperties
  <2>2. QED
    BY <2>1 DEF PrefillOrder
<1>7. QED
  BY <1>1, <1>4, <1>5, <1>6

-----------------------------------------------------------------------------
(* Sums.  The community modules fold over a set by a recursive function;    *)
(* that there is such a function is shown by giving one, which counts, and  *)
(* that it is the only one by the smallest set on which another would       *)
(* differ.                                                                  *)

\* The sum of the terms f[x], for every x in S.
Total(terms, S) == FoldFunctionOnSet(LAMBDA n, total : n + total, 0, terms, S)

\* Each term as so many pairs.
Units(f, S) == {p \in S \X Nat : 1 <= p[2] /\ p[2] <= f[p[1]]}

\* The equation by which a fold over the subsets of S is defined.
Recursion(g, f, S) ==
  g = [s \in SUBSET S |-> IF s = {} THEN 0
                          ELSE LET x == CHOOSE y \in s : TRUE IN f[x] + g[s \ {x}]]

\* A sum is what the function chosen for that equation returns.
LEMMA Fold ==
  ASSUME NEW f, NEW S
  PROVE  Total(f, S) = (CHOOSE g : Recursion(g, f, S))[S]
BY DEF Total, FoldFunctionOnSet, MapThenFoldSet, Recursion

\* A family of finite sets that holds a set which is no good holds a smallest such set.
LEMMA SmallestSet ==
  ASSUME NEW S, IsFiniteSet(S), NEW T, T \subseteq SUBSET S, T # {}
  PROVE  \E t \in T : \A u \in T : ~(u \subseteq t /\ u # t)
<1>1. SUBSET S \subseteq FiniteSubsetsOf(S)
  BY FS_Subset DEF FiniteSubsetsOf
<1>2. T \subseteq FiniteSubsetsOf(S)
  BY <1>1
<1>3. PICK t \in T : \A u \in T : ~(<<u, t>> \in StrictSubsetOrdering(S))
  BY <1>2, FS_StrictSubsetOrderingWellFounded, WFMin
<1>4. ASSUME NEW u \in T, u \subseteq t, u # t PROVE FALSE
  <2>1. <<u, t>> \in (SUBSET S) \X (SUBSET S)
    OBVIOUS
  <2>2. <<u, t>>[1] \subseteq <<u, t>>[2] /\ <<u, t>>[1] # <<u, t>>[2]
    BY <1>4
  <2>3. <<u, t>> \in StrictSubsetOrdering(S)
    BY <2>1, <2>2 DEF StrictSubsetOrdering
  <2> QED BY <1>3, <2>3
<1> QED BY <1>4

\* One term is as many pairs as it says.
LEMMA UnitsOfOne ==
  ASSUME NEW f, NEW x, f[x] \in Nat
  PROVE  IsFiniteSet(Units(f, {x})) /\ Cardinality(Units(f, {x})) = f[x]
<1> DEFINE b == [k \in 1..f[x] |-> <<x, k>>]
<1>1. ASSUME NEW k \in 1..f[x] PROVE <<x, k>> \in Units(f, {x})
  <2>1. <<x, k>> \in {x} \X Nat
    OBVIOUS
  <2> QED BY <2>1 DEF Units
<1>2. ASSUME NEW p \in Units(f, {x}) PROVE p[2] \in 1..f[x] /\ p = <<x, p[2]>>
  <2>1. p \in {x} \X Nat
    BY DEF Units
  <2>2. p = <<p[1], p[2]>> /\ p[1] = x /\ p[2] \in Nat
    BY <2>1
  <2> QED BY <2>2 DEF Units
<1>3. b \in [1..f[x] -> Units(f, {x})]
  BY <1>1
<1>4. \A i, j \in 1..f[x] : b[i] = b[j] => i = j
  OBVIOUS
<1>5. \A p \in Units(f, {x}) : \E i \in 1..f[x] : b[i] = p
  BY <1>2
<1> HIDE DEF b
<1>6. b \in Bijection(1..f[x], Units(f, {x}))
  BY <1>3, <1>4, <1>5 DEF Bijection, Injection, Surjection, IsInjective
<1>7. ExistsBijection(1..f[x], Units(f, {x}))
  BY <1>6 DEF ExistsBijection
<1>8. IsFiniteSet(1..f[x]) /\ Cardinality(1..f[x]) = f[x]
  BY FS_Interval
<1> QED BY <1>7, <1>8, FS_Bijection

\* The pairs of one term are no pairs of another.
LEMMA UnitsSplit ==
  ASSUME NEW f, NEW S, NEW x \in S
  PROVE  /\ Units(f, S) = Units(f, S \ {x}) \cup Units(f, {x})
         /\ Units(f, S \ {x}) \cap Units(f, {x}) = {}
<1>1. S \X Nat = ((S \ {x}) \X Nat) \cup ({x} \X Nat)
  OBVIOUS
<1>2. ((S \ {x}) \X Nat) \cap ({x} \X Nat) = {}
  OBVIOUS
<1> QED BY <1>1, <1>2 DEF Units

\* Finitely many terms are finitely many pairs.
LEMMA UnitsFinite ==
  ASSUME NEW f, NEW S, IsFiniteSet(S), \A x \in S : f[x] \in Nat
  PROVE  IsFiniteSet(Units(f, S))
<1> DEFINE T == {t \in SUBSET S : ~IsFiniteSet(Units(f, t))}
<1> SUFFICES ASSUME S \in T PROVE FALSE
  OBVIOUS
<1>1. PICK t \in T : \A u \in T : ~(u \subseteq t /\ u # t)
  <2> HIDE DEF T
  <2>1. T \subseteq SUBSET S
    BY DEF T
  <2> QED BY <2>1, SmallestSet
<1>2. Units(f, {}) = {}
  BY DEF Units
<1>3. t # {}
  BY <1>2, FS_EmptySet
<1>4. PICK x \in t : TRUE
  BY <1>3
<1>5. IsFiniteSet(Units(f, t \ {x}))
  BY <1>1, <1>4
<1>6. IsFiniteSet(Units(f, {x}))
  BY <1>4, UnitsOfOne
<1>7. IsFiniteSet(Units(f, t))
  <2>1. Units(f, t) = Units(f, t \ {x}) \cup Units(f, {x})
    BY <1>4, UnitsSplit
  <2> QED BY <1>5, <1>6, <2>1, FS_Union
<1> QED BY <1>7

\* One more term is so many more pairs.
LEMMA UnitsMore ==
  ASSUME NEW f, NEW S, IsFiniteSet(S), \A y \in S : f[y] \in Nat, NEW x \in S
  PROVE  /\ Cardinality(Units(f, S \ {x})) \in Nat
         /\ Cardinality(Units(f, S)) = f[x] + Cardinality(Units(f, S \ {x}))
<1>1. IsFiniteSet(S \ {x})
  BY FS_RemoveElement
<1>2. IsFiniteSet(Units(f, S \ {x}))
  BY <1>1, UnitsFinite
<1>3. IsFiniteSet(Units(f, {x})) /\ Cardinality(Units(f, {x})) = f[x]
  BY UnitsOfOne
<1>4. Cardinality(Units(f, S)) = Cardinality(Units(f, S \ {x})) + Cardinality(Units(f, {x})) - Cardinality({})
  BY <1>2, <1>3, UnitsSplit, FS_Union
<1>5. Cardinality({}) = 0 /\ Cardinality(Units(f, S \ {x})) \in Nat
  BY <1>2, FS_EmptySet, FS_CardinalityType
<1> QED BY <1>3, <1>4, <1>5

\* A sum is the number of pairs.
LEMMA Counted ==
  ASSUME NEW f, NEW S, IsFiniteSet(S), \A x \in S : f[x] \in Nat
  PROVE  Total(f, S) = Cardinality(Units(f, S))
<1> DEFINE c == [s \in SUBSET S |-> Cardinality(Units(f, s))]
           g == CHOOSE h : Recursion(h, f, S)
           T == {t \in SUBSET S : g[t] # c[t]}
<1>1. ASSUME NEW s \in SUBSET S, s # {}, NEW x, x = CHOOSE y \in s : TRUE
      PROVE  x \in s /\ c[s] = f[x] + c[s \ {x}]
  <2>1. x \in s
    BY <1>1
  <2>2. IsFiniteSet(s)
    BY FS_Subset
  <2>3. s \ {x} \in SUBSET S
    OBVIOUS
  <2> QED BY <2>1, <2>2, <2>3, UnitsMore
<1>2. c[{}] = 0
  <2>1. Units(f, {}) = {}
    BY DEF Units
  <2> QED BY <2>1, FS_EmptySet
<1>3. Recursion(c, f, S)
  <2> DEFINE d == [s \in SUBSET S |-> IF s = {} THEN 0
                          ELSE LET x == CHOOSE y \in s : TRUE IN f[x] + c[s \ {x}]]
  <2>1. ASSUME NEW s \in SUBSET S PROVE c[s] = d[s]
    <3>1. CASE s = {}
      BY <3>1, <1>2
    <3>2. CASE s # {}
      <4> HIDE DEF c
      <4> QED BY <3>2, <1>1
    <3> QED BY <3>1, <3>2
  <2>2. c = d
    BY <2>1
  <2> QED BY <2>2 DEF Recursion
<1>4. Recursion(g, f, S)
  <2> HIDE DEF c
  <2> QED BY <1>3
<1> HIDE DEF c, g
<1>5. T = {}
  <2> SUFFICES ASSUME T # {} PROVE FALSE
    OBVIOUS
  <2>1. PICK t \in T : \A u \in T : ~(u \subseteq t /\ u # t)
    <3>1. T \subseteq SUBSET S
      OBVIOUS
    <3> HIDE DEF T
    <3> QED BY <3>1, SmallestSet
  <2>2. CASE t = {}
    <3>1. g[t] = 0
      BY <1>4, <2>2 DEF Recursion
    <3> QED BY <3>1, <1>2, <2>2
  <2>3. CASE t # {}
    <3> DEFINE x == CHOOSE y \in t : TRUE
    <3>1. x \in t /\ c[t] = f[x] + c[t \ {x}]
      BY <2>3, <1>1
    <3>2. g[t] = f[x] + g[t \ {x}]
      BY <1>4, <2>3 DEF Recursion
    <3>3. g[t \ {x}] = c[t \ {x}]
      BY <2>1, <3>1
    <3> QED BY <3>1, <3>2, <3>3
  <2> QED BY <2>2, <2>3
<1>6. g[S] = c[S]
  BY <1>5
<1>7. c[S] = Cardinality(Units(f, S))
  BY DEF c
<1>8. Total(f, S) = g[S]
  BY Fold DEF g
<1> QED BY <1>6, <1>7, <1>8

\* Nothing adds up to nothing.
LEMMA TotalOfNone ==
  ASSUME NEW f
  PROVE  Total(f, {}) = 0
<1>1. Units(f, {}) = {}
  BY DEF Units
<1> QED BY <1>1, FS_EmptySet, Counted

\* A sum is a natural number, and one of its terms and the sum of the others.
LEMMA TotalWithout ==
  ASSUME NEW f, NEW S, IsFiniteSet(S), \A y \in S : f[y] \in Nat
  PROVE  /\ Total(f, S) \in Nat
         /\ \A x \in S : Total(f, S \ {x}) \in Nat /\ Total(f, S) = f[x] + Total(f, S \ {x})
<1>1. Total(f, S) = Cardinality(Units(f, S)) /\ Total(f, S) \in Nat
  BY Counted, UnitsFinite, FS_CardinalityType
<1>2. ASSUME NEW x \in S
      PROVE  Total(f, S \ {x}) \in Nat /\ Total(f, S) = f[x] + Total(f, S \ {x})
  <2>1. IsFiniteSet(S \ {x})
    BY FS_RemoveElement
  <2>2. Total(f, S \ {x}) = Cardinality(Units(f, S \ {x}))
    BY <2>1, Counted
  <2> QED BY <1>1, <2>2, UnitsMore
<1> QED BY <1>1, <1>2

\* A term more.
LEMMA TotalWith ==
  ASSUME NEW f, NEW S, IsFiniteSet(S), \A y \in S : f[y] \in Nat,
         NEW x, x \notin S, f[x] \in Nat
  PROVE  Total(f, S \cup {x}) = f[x] + Total(f, S)
<1>1. IsFiniteSet(S \cup {x})
  BY FS_AddElement
<1>2. (S \cup {x}) \ {x} = S
  OBVIOUS
<1> QED BY <1>1, <1>2, TotalWithout

\* A term apart.
LEMMA TotalTake ==
  ASSUME NEW f, NEW S, IsFiniteSet(S), \A y \in S : f[y] \in Nat, NEW x \in S
  PROVE  Total(f, S) = f[x] + Total(f, S \ {x})
BY TotalWithout

\* Equal terms have equal sums.
LEMMA TotalSame ==
  ASSUME NEW f, NEW g, NEW S, IsFiniteSet(S), \A y \in S : f[y] \in Nat /\ g[y] = f[y]
  PROVE  Total(g, S) = Total(f, S)
<1>1. Units(g, S) = Units(f, S)
  <2>1. ASSUME NEW p \in S \X Nat PROVE g[p[1]] = f[p[1]]
    OBVIOUS
  <2> QED BY <2>1 DEF Units
<1> QED BY <1>1, Counted

\* Fewer terms have no greater sum.
LEMMA TotalLess ==
  ASSUME NEW f, NEW S, IsFiniteSet(S), \A y \in S : f[y] \in Nat, NEW T \in SUBSET S
  PROVE  Total(f, T) <= Total(f, S)
<1>1. IsFiniteSet(T) /\ \A y \in T : f[y] \in Nat
  BY FS_Subset
<1>2. Units(f, T) \in SUBSET Units(f, S)
  <2>1. T \X Nat \subseteq S \X Nat
    OBVIOUS
  <2> QED BY <2>1 DEF Units
<1>3. IsFiniteSet(Units(f, S))
  BY UnitsFinite
<1>4. Cardinality(Units(f, T)) <= Cardinality(Units(f, S))
  BY <1>2, <1>3, FS_Subset
<1>5. Total(f, S) = Cardinality(Units(f, S)) /\ Total(f, T) = Cardinality(Units(f, T))
  BY <1>1, Counted
<1> QED BY <1>4, <1>5

\* The naturals up to k, and the last of them.
LEMMA UpTo ==
  ASSUME NEW k \in Nat
  PROVE  /\ IsFiniteSet(1..k)
         /\ k # 0 => /\ k \in 1..k /\ k \notin 1..k - 1 /\ 1..k - 1 \subseteq 1..k
                    /\ (1..k) \ {k} = 1..k - 1
<1>1. IsFiniteSet(1..k)
  BY FS_Interval
<1>2. ASSUME k # 0 PROVE \A i : i \in (1..k) \ {k} <=> i \in 1..k - 1
  BY <1>2
<1>3. k # 0 => (1..k) \ {k} = 1..k - 1
  BY <1>2
<1>4. k # 0 => k \in 1..k /\ k \notin 1..k - 1 /\ 1..k - 1 \subseteq 1..k
  OBVIOUS
<1> QED BY <1>1, <1>3, <1>4

\* Where each term is what one step down the sequence loses, the sum is what is lost in all.
LEMMA Telescope ==
  ASSUME NEW n \in Nat, NEW h, NEW m \in [1..n + 1 -> Int],
         \A i \in 1..n : h[i] \in Nat /\ h[i] = m[i] - m[i + 1]
  PROVE  Total(h, 1..n) = m[1] - m[n + 1]
<1> DEFINE Bad(k) == Total(h, 1..k) # m[1] - m[k + 1]
           T == {t \in SUBSET (1..n) : \E k \in 0..n : t = 1..k /\ Bad(k)}
<1> SUFFICES ASSUME Bad(n) PROVE FALSE
  OBVIOUS
<1>1. PICK k \in 0..n : Bad(k) /\ (k # 0 => ~Bad(k - 1))
  <2>1. 1..n \in T
    OBVIOUS
  <2>2. PICK t \in T : \A u \in T : ~(u \subseteq t /\ u # t)
    <3>1. T \subseteq SUBSET (1..n)
      OBVIOUS
    <3> DEFINE N == 1..n
    <3>2. IsFiniteSet(N) /\ T \subseteq SUBSET N /\ T # {}
      BY <2>1, <3>1, UpTo
    <3> HIDE DEF T, Bad, N
    <3> QED BY <3>2, SmallestSet
  <2>3. PICK k \in 0..n : t = 1..k /\ Bad(k)
    OBVIOUS
  <2>4. ASSUME k # 0, Bad(k - 1) PROVE FALSE
    <3>1. k - 1 \in 0..n /\ k \in 1..k /\ k \notin 1..k - 1 /\ 1..k - 1 \subseteq 1..k
      BY <2>4
    <3> HIDE DEF Bad
    <3>2. 1..k - 1 \in SUBSET (1..n)
      BY <3>1
    <3>3. 1..k - 1 \in T
      BY <3>1, <3>2, <2>4
    <3> QED BY <2>2, <2>3, <3>1, <3>3
  <2> QED BY <2>3, <2>4
<1>2. k \in 0..n /\ Total(h, 1..k) # m[1] - m[k + 1]
  BY <1>1
<1>5. k # 0 => Total(h, 1..k - 1) = m[1] - m[k - 1 + 1]
  BY <1>1
<1> HIDE DEF T, Bad
<1>3. CASE k = 0
  <2>1. 1..k = {}
    BY <1>3
  <2> QED BY <1>2, <1>3, <2>1, TotalOfNone
<1>4. CASE k # 0
  <2>1. k \in 1..n /\ k - 1 \in 0..n /\ k - 1 < k
    BY <1>2, <1>4
  <2>2. Total(h, 1..k - 1) = m[1] - m[k - 1 + 1]
    BY <1>4, <1>5
  <2>3. (1..k) \ {k} = 1..k - 1 /\ IsFiniteSet(1..k) /\ k \in 1..k
    BY <2>1, UpTo
  <2>4. Total(h, 1..k) = h[k] + Total(h, 1..k - 1)
    <3>1. ASSUME NEW S, NEW x, S = 1..k, x = k
          PROVE  Total(h, S) = h[x] + Total(h, S \ {x})
      <4>1. IsFiniteSet(S) /\ x \in S
        BY <2>3, <3>1
      <4>2. \A y \in S : y \in 1..n
        BY <2>1, <3>1
      <4>3. \A y \in S : h[y] \in Nat
        BY <4>2
      <4> QED BY ONLY <4>1, <4>3, TotalTake
    <3>2. Total(h, 1..k) = h[k] + Total(h, (1..k) \ {k})
      BY <3>1
    <3> QED BY <2>3, <3>2
  <2>5. m[1] \in Int /\ m[k] \in Int /\ m[k + 1] \in Int /\ h[k] = m[k] - m[k + 1]
    BY <2>1
  <2> QED BY <1>2, <2>1, <2>2, <2>4, <2>5
<1> QED BY <1>3, <1>4

-----------------------------------------------------------------------------
(* What a plan spends.                                                     *)

\* A bucket that fits is found if there is one.
LEMMA FamilyForFits ==
  ASSUME NEW buckets \in SUBSET Nat, NEW n, NEW b \in buckets, n <= b
  PROVE  FamilyFor(buckets, n) \in buckets
<1> DEFINE fitting == {c \in buckets : n <= c}
<1>1. b \in fitting /\ fitting \in SUBSET Nat
  OBVIOUS
<1>2. \E c \in fitting : \A d \in fitting : c <= d
  BY <1>1, NatMin
<1>3. QED
  BY <1>1, <1>2 DEF FamilyFor

\* Numbers that are bounded and not absent have a largest.
LEMMA NatMax ==
  ASSUME NEW bound \in Nat, NEW S \in SUBSET (0 .. bound), S # {}
  PROVE  \E n \in S : \A m \in S : m <= n
<1> DEFINE above == {bound - n : n \in S}
<1>1. above \in SUBSET Nat /\ above # {}
  <2>1. ASSUME NEW n \in S PROVE bound - n \in Nat
    OBVIOUS
  <2>2. QED
    BY <2>1
<1>2. PICK d \in above : \A e \in above : d <= e
  <2> HIDE DEF above
  <2>1. QED
    BY <1>1, NatMin
<1>3. PICK n \in S : d = bound - n
  BY <1>2
<1>4. ASSUME NEW m \in S PROVE m <= n
  <2>1. bound - m \in above
    OBVIOUS
  <2>2. m \in 0 .. bound /\ n \in 0 .. bound /\ bound - n <= bound - m
    BY <1>2, <1>3, <2>1
  <2>3. QED
    BY <2>2
<1>5. QED
  BY <1>4

\* The prompts a plan takes are the first in their order, each once.
LEMMA PromptsTaken ==
  ASSUME Inv, NEW rows \in 0 .. Len(prefill)
  PROVE  LET taken == SubSeq(PrefillOrder, 1, rows)
         IN  /\ taken \in Seq(SequenceIds) /\ Len(taken) = rows /\ DOMAIN taken = 1 .. rows
             /\ \A k \in 1 .. rows : taken[k] = PrefillOrder[k] /\ PrefillOrder[k] \in In("Prefill")
             /\ \A i, j \in 1 .. rows : taken[i] = taken[j] => i = j
<1> DEFINE taken == SubSeq(PrefillOrder, 1, rows)
<1>1. /\ PrefillOrder \in Seq(SequenceIds) /\ Lists(PrefillOrder, In("Prefill"))
      /\ rows \in 0 .. Len(PrefillOrder) /\ Len(PrefillOrder) \in Nat
  BY PrefillOrderFacts, LenProperties
<1>2. taken \in Seq(SequenceIds) /\ Len(taken) = rows
  BY <1>1, ListsCut
<1>8. Lists(taken, FirstOf(PrefillOrder, rows))
  BY <1>1, ListsCut
<1>3. \A k \in 1 .. rows : taken[k] = PrefillOrder[k]
  BY <1>1, ListsCut
<1>4. DOMAIN taken = 1 .. rows /\ \A k \in 1 .. rows : k \in DOMAIN PrefillOrder
  BY <1>1, <1>2, LenProperties
<1> HIDE DEF taken
<1>5. \A k \in 1 .. rows : PrefillOrder[k] \in In("Prefill")
  BY <1>1, <1>4 DEF Lists
<1>6. \A i, j \in 1 .. rows : taken[i] = taken[j] => i = j
  BY <1>4, <1>8 DEF Lists
<1>7. QED
  BY <1>2, <1>3, <1>4, <1>5, <1>6 DEF taken

\* The rows of a plan, and the budget that is left at each prompt's turn.
LEMMA PlanSpends ==
  ASSUME Inv, Plan
  PROVE  \E rows \in 0 .. Smaller(Len(prefill), LargestBucket) :
         \E left \in [1 .. rows + 1 -> 0 .. MaxBatchedTokens] :
           /\ left[1] = MaxBatchedTokens - DecodeRows
           /\ Takes(PrefillOrder, rows, left)
           /\ decode' = SubSeq(decode, DecodeRows + 1, Len(decode))
           /\ prefill' = SubSeq(PrefillOrder, rows + 1, Len(PrefillOrder))
           /\ DOMAIN plan'.prefill = 1 .. rows /\ Len(plan'.prefill) = rows
           /\ plan'.decode = SubSeq(decode, 1, DecodeRows) /\ Len(plan'.decode) = DecodeRows
           /\ plan'.prefill \in Seq(SequenceIds)
           /\ \A k \in 1 .. rows :
                /\ planned'[plan'.prefill[k]] = left[k] - left[k + 1]
                /\ left[k] - left[k + 1] \in 1 .. MaxPrefillChunk
           /\ plan'.decodeFamily = FamilyFor(BatchBuckets, DecodeRows)
           /\ plan'.prefillFamily = FamilyFor(BatchBuckets, rows)
           /\ plan'.queryFamily \in QueryBuckets
<1> DEFINE order == PrefillOrder
           Body(rows, left) ==
             LET decoded  == SubSeq(decode, 1, DecodeRows)
                 taken    == SubSeq(order, 1, rows)
                 chunk(k) == left[k] - left[k + 1]
                 longest  == CHOOSE n \in {chunk(k) : k \in 1 .. rows} \cup {0} :
                               \A k \in 1 .. rows : chunk(k) <= n
             IN  /\ left[1] = MaxBatchedTokens - DecodeRows
                 /\ Takes(order, rows, left)
                 /\ decode' = SubSeq(decode, DecodeRows + 1, Len(decode))
                 /\ prefill' = SubSeq(order, rows + 1, Len(order))
                 /\ planned' = [s \in SequenceIds |->
                      IF \E k \in DOMAIN taken : taken[k] = s
                      THEN chunk(CHOOSE k \in DOMAIN taken : taken[k] = s) ELSE planned[s]]
                 /\ plan' = [made          |-> TRUE,
                             decode        |-> decoded,
                             prefill       |-> taken,
                             decodeFamily  |-> FamilyFor(BatchBuckets, DecodeRows),
                             prefillFamily |-> FamilyFor(BatchBuckets, rows),
                             queryFamily   |-> FamilyFor(QueryBuckets, longest),
                             stable        |-> IsStable(DecodeRows, rows, prefill', decode')]
<1>1. \E rows \in 0 .. Smaller(Len(prefill), LargestBucket) :
      \E left \in [1 .. rows + 1 -> 0 .. MaxBatchedTokens] : Body(rows, left)
  BY ZenonT(60) DEF Plan
<1>2. PICK rows \in 0 .. Smaller(Len(prefill), LargestBucket) :
      \E left \in [1 .. rows + 1 -> 0 .. MaxBatchedTokens] : Body(rows, left)
  <2> HIDE DEF Body
  <2>1. QED
    BY <1>1
<1>3. PICK left \in [1 .. rows + 1 -> 0 .. MaxBatchedTokens] : Body(rows, left)
  <2> HIDE DEF Body
  <2>1. QED
    BY <1>2
<1> DEFINE taken == SubSeq(order, 1, rows)
           C == {left[k] - left[k + 1] : k \in 1 .. rows} \cup {0}
           longest == CHOOSE n \in C : \A k \in 1 .. rows : left[k] - left[k + 1] <= n
<1>4. /\ left[1] = MaxBatchedTokens - DecodeRows
      /\ Takes(order, rows, left)
      /\ decode' = SubSeq(decode, DecodeRows + 1, Len(decode))
      /\ prefill' = SubSeq(order, rows + 1, Len(order))
  BY <1>3
<1>5. planned' = [s \in SequenceIds |->
                    IF \E k \in DOMAIN taken : taken[k] = s
                    THEN left[CHOOSE k \in DOMAIN taken : taken[k] = s]
                           - left[(CHOOSE k \in DOMAIN taken : taken[k] = s) + 1]
                    ELSE planned[s]]
  BY <1>3
<1>6. /\ plan'.decode = SubSeq(decode, 1, DecodeRows) /\ plan'.prefill = taken
      /\ plan'.decodeFamily = FamilyFor(BatchBuckets, DecodeRows)
      /\ plan'.prefillFamily = FamilyFor(BatchBuckets, rows)
      /\ plan'.queryFamily = FamilyFor(QueryBuckets, longest)
  BY <1>3
<1> HIDE DEF Body
<1>7. /\ Len(prefill) \in Nat /\ MaxBatchedTokens \in Nat /\ MaxPrefillChunk \in Nat
      /\ rows \in Nat /\ rows \in 0 .. Len(prefill)
  BY InvQueues, LenProperties, Limits DEF Smaller
<1>8. /\ order \in Seq(SequenceIds) /\ Lists(order, In("Prefill")) /\ rows \in 0 .. Len(order)
  BY <1>7, PrefillOrderFacts
<1> HIDE DEF order
<1>9. /\ taken \in Seq(SequenceIds) /\ Len(taken) = rows /\ DOMAIN taken = 1 .. rows
      /\ \A k \in 1 .. rows : taken[k] = order[k] /\ order[k] \in In("Prefill")
      /\ \A i, j \in 1 .. rows : taken[i] = taken[j] => i = j
  BY <1>7, PromptsTaken DEF order
<1> HIDE DEF taken
<1>10. ASSUME NEW k \in 1 .. rows
       PROVE  /\ planned'[taken[k]] = left[k] - left[k + 1]
              /\ left[k] - left[k + 1] \in 1 .. MaxPrefillChunk
  <2>1. (CHOOSE i \in DOMAIN taken : taken[i] = taken[k]) = k
    BY <1>9
  <2>2. taken[k] \in SequenceIds
    BY <1>9 DEF In
  <2>3. planned'[taken[k]] = left[k] - left[k + 1]
    BY <1>5, <1>9, <2>1, <2>2
  <2>4. k \in 1 .. rows + 1 /\ left[k] \in 0 .. MaxBatchedTokens
    BY <1>7
  <2>5. left[k] # 0 /\ left[k + 1] = left[k] - Chunk(order[k], left[k])
    BY <1>4 DEF Takes
  <2>6. left[k] \in Nat \ {0} /\ order[k] \in In("Prefill")
    BY <1>7, <1>9, <2>4, <2>5
  <2>7. /\ Chunk(order[k], left[k]) \in Nat \ {0}
        /\ Chunk(order[k], left[k]) <= MaxPrefillChunk
    BY <2>6, ChunkFacts
  <2>8. QED
    BY <1>7, <2>3, <2>5, <2>6, <2>7
<1>11. FamilyFor(QueryBuckets, longest) \in QueryBuckets
  <2>1. C \in SUBSET (0 .. MaxPrefillChunk) /\ C # {}
    <3>1. \A k \in 1 .. rows : left[k] - left[k + 1] \in 0 .. MaxPrefillChunk
      BY <1>7, <1>10
    <3>2. 0 \in 0 .. MaxPrefillChunk
      BY <1>7
    <3>3. QED
      BY <3>1, <3>2
  <2>2. \E n \in C : \A k \in 1 .. rows : left[k] - left[k + 1] <= n
    <3>1. PICK n \in C : \A m \in C : m <= n
      <4> HIDE DEF C
      <4>1. QED
        BY <1>7, <2>1, NatMax
    <3>2. QED
      BY <3>1
  <2>3. longest \in C
    <3> HIDE DEF C
    <3>1. QED
      BY <2>2
  <2>4. longest \in 0 .. MaxPrefillChunk
    BY <2>1, <2>3
  <2> HIDE DEF longest, C
  <2>5. QueryBuckets \in SUBSET Nat
    BY Limits
  <2>6. PICK q \in QueryBuckets : MaxPrefillChunk <= q
    BY SchedulerAssumption DEF IsValid
  <2>7. longest <= q
    BY <1>7, <2>4, <2>5, <2>6
  <2>8. QED
    BY <2>5, <2>7, FamilyForFits
<1>12. Len(SubSeq(decode, 1, DecodeRows)) = DecodeRows
  BY InvQueues, DecodeRowsFacts, ListsCut
<1>13. QED
  BY <1>4, <1>6, <1>9, <1>10, <1>11, <1>12 DEF order

\* PlannedTokens is a sum, now and after a step.
PlannedIsTotal ==
  PlannedTokens(plan.prefill)
    = Total([i \in DOMAIN plan.prefill |-> planned[plan.prefill[i]]], DOMAIN plan.prefill)

LEMMA PlannedTotal == PlannedIsTotal
<1> DEFINE h == [i \in DOMAIN plan.prefill |-> planned[plan.prefill[i]]]
<1>1. DOMAIN h = DOMAIN plan.prefill
  OBVIOUS
<1>2. PlannedTokens(plan.prefill) = Total(h, DOMAIN h)
  BY DEF PlannedTokens, FoldFunction, Total
<1>3. QED
  BY <1>1, <1>2 DEF PlannedIsTotal

LEMMA PlannedTotalNext == PlannedIsTotal'
BY PlannedTotal, PTL

\* The prompts of a plan get what the budget loses.
LEMMA PlanTotal ==
  ASSUME NEW rows \in Nat, NEW left \in [1 .. rows + 1 -> Int], NEW taken, NEW terms,
         DOMAIN taken = 1 .. rows,
         \A k \in 1 .. rows : /\ terms[taken[k]] = left[k] - left[k + 1]
                              /\ left[k] - left[k + 1] \in Nat
  PROVE  LET h == [i \in DOMAIN taken |-> terms[taken[i]]]
         IN  Total(h, DOMAIN taken) = left[1] - left[rows + 1]
<1> DEFINE h == [i \in 1 .. rows |-> terms[taken[i]]]
<1>1. \A i \in 1 .. rows : h[i] \in Nat /\ h[i] = left[i] - left[i + 1]
  OBVIOUS
<1>3. h = [i \in DOMAIN taken |-> terms[taken[i]]]
  OBVIOUS
<1> HIDE DEF h
<1>4. Total(h, 1 .. rows) = left[1] - left[rows + 1]
  BY <1>1, Telescope
<1>5. QED
  BY <1>3, <1>4

\* A plan spends its budget on decode rows and on prompts.
LEMMA PlanBudget ==
  ASSUME Inv, Plan
  PROVE  \E rows \in 0 .. Smaller(Len(prefill), LargestBucket) :
         \E left \in [1 .. rows + 1 -> 0 .. MaxBatchedTokens] :
           /\ left[1] = MaxBatchedTokens - DecodeRows
           /\ Takes(PrefillOrder, rows, left)
           /\ Len(plan'.prefill) = rows
           /\ PlannedTokens(plan.prefill)' = left[1] - left[rows + 1]
           /\ \A k \in 1 .. rows : left[k] - left[k + 1] \in 1 .. MaxPrefillChunk
<1>1. PICK rows \in 0 .. Smaller(Len(prefill), LargestBucket) :
      \E left \in [1 .. rows + 1 -> 0 .. MaxBatchedTokens] :
           /\ left[1] = MaxBatchedTokens - DecodeRows
           /\ Takes(PrefillOrder, rows, left)
           /\ DOMAIN plan'.prefill = 1 .. rows /\ Len(plan'.prefill) = rows
           /\ \A k \in 1 .. rows :
                /\ planned'[plan'.prefill[k]] = left[k] - left[k + 1]
                /\ left[k] - left[k + 1] \in 1 .. MaxPrefillChunk
  BY PlanSpends
<1>2. PICK left \in [1 .. rows + 1 -> 0 .. MaxBatchedTokens] :
           /\ left[1] = MaxBatchedTokens - DecodeRows
           /\ Takes(PrefillOrder, rows, left)
           /\ DOMAIN plan'.prefill = 1 .. rows /\ Len(plan'.prefill) = rows
           /\ \A k \in 1 .. rows :
                /\ planned'[plan'.prefill[k]] = left[k] - left[k + 1]
                /\ left[k] - left[k + 1] \in 1 .. MaxPrefillChunk
  BY <1>1
<1>3. rows \in Nat /\ MaxPrefillChunk \in Nat /\ MaxBatchedTokens \in Nat
  BY InvQueues, LenProperties, Limits DEF Smaller
<1>4. left \in [1 .. rows + 1 -> Int]
  BY <1>3
<1>5. \A k \in 1 .. rows : left[k] - left[k + 1] \in Nat
  BY <1>2, <1>3
<1>6. ASSUME NEW taken, NEW terms, taken = plan'.prefill, terms = planned'
      PROVE  Total([i \in DOMAIN taken |-> terms[taken[i]]], DOMAIN taken) = left[1] - left[rows + 1]
  <2>1. DOMAIN taken = 1 .. rows
    BY <1>2, <1>6
  <2>2. \A k \in 1 .. rows : /\ terms[taken[k]] = left[k] - left[k + 1]
                            /\ left[k] - left[k + 1] \in Nat
    BY <1>2, <1>5, <1>6
  <2>3. QED
    BY ONLY <1>3, <1>4, <2>1, <2>2, PlanTotal
<1>7. PlannedTokens(plan.prefill)' = left[1] - left[rows + 1]
  BY <1>6, PlannedTotalNext DEF PlannedIsTotal
<1>8. QED
  BY <1>2, <1>7

\* What PlanFits says of a plan that was just made.
LEMMA PlanKeepsToBudget ==
  ASSUME Inv, Plan
  PROVE  PlanFits'
<1>1. StableCoversAll'
  BY PlanInv
<1>2. /\ MaxBatchedTokens \in Nat \ {0} /\ LargestBucket \in Nat \ {0}
      /\ LargestBucket <= MaxBatchedTokens
      /\ BatchBuckets \in SUBSET Nat /\ LargestBucket \in BatchBuckets
  BY Limits, SchedulerAssumption DEF IsValid
<1>3. /\ decode \in Seq(SequenceIds) /\ Len(decode) \in Nat /\ Len(prefill) \in Nat
      /\ DecodeRows \in 0 .. Len(decode) /\ DecodeRows <= LargestBucket
      /\ DecodeRows <= MaxBatchedTokens
  BY InvQueues, LenProperties, DecodeRowsFacts
<1>4. Len(plan'.decode) + PlannedTokens(plan.prefill)' <= MaxBatchedTokens
  <2>1. PICK rows \in 0 .. Smaller(Len(prefill), LargestBucket) :
        \E left \in [1 .. rows + 1 -> 0 .. MaxBatchedTokens] :
             /\ left[1] = MaxBatchedTokens - DecodeRows
             /\ PlannedTokens(plan.prefill)' = left[1] - left[rows + 1]
    BY PlanBudget
  <2>2. PICK left \in [1 .. rows + 1 -> 0 .. MaxBatchedTokens] :
             /\ left[1] = MaxBatchedTokens - DecodeRows
             /\ PlannedTokens(plan.prefill)' = left[1] - left[rows + 1]
    BY <2>1
  <2>3. rows + 1 \in 1 .. rows + 1
    BY <1>2, <1>3 DEF Smaller
  <2>4. left[rows + 1] \in 0 .. MaxBatchedTokens
    BY <2>3
  <2>5. Len(plan'.decode) = DecodeRows
    BY PlanSpends
  <2>6. QED
    BY <1>2, <1>3, <2>2, <2>4, <2>5
<1>5. PICK rows \in 0 .. Smaller(Len(prefill), LargestBucket) :
      \E left \in [1 .. rows + 1 -> 0 .. MaxBatchedTokens] :
           /\ left[1] = MaxBatchedTokens - DecodeRows
           /\ Takes(PrefillOrder, rows, left)
           /\ decode' = SubSeq(decode, DecodeRows + 1, Len(decode))
           /\ prefill' = SubSeq(PrefillOrder, rows + 1, Len(PrefillOrder))
           /\ Len(plan'.prefill) = rows /\ Len(plan'.decode) = DecodeRows
           /\ plan'.decodeFamily = FamilyFor(BatchBuckets, DecodeRows)
           /\ plan'.prefillFamily = FamilyFor(BatchBuckets, rows)
           /\ plan'.queryFamily \in QueryBuckets
  BY PlanSpends
<1>6. rows \in Nat /\ rows <= LargestBucket /\ rows <= Len(prefill)
  BY <1>2, <1>3 DEF Smaller
<1>7. plan'.decodeFamily \in BatchBuckets /\ plan'.prefillFamily \in BatchBuckets
  <2>1. FamilyFor(BatchBuckets, DecodeRows) \in BatchBuckets
    BY <1>2, <1>3, FamilyForFits
  <2>2. FamilyFor(BatchBuckets, rows) \in BatchBuckets
    BY <1>2, <1>6, FamilyForFits
  <2>3. QED
    BY <1>5, <2>1, <2>2
<1>8. ASSUME plan'.decode = << >>, plan'.prefill = << >>
      PROVE  prefill' = << >> /\ decode' = << >>
  <2>1. DecodeRows = 0 /\ rows = 0
    BY <1>5, <1>8
  <2>2. PICK left \in [1 .. rows + 1 -> 0 .. MaxBatchedTokens] :
          left[1] = MaxBatchedTokens - DecodeRows /\ Takes(PrefillOrder, rows, left)
    BY <1>5
  <2>3. Len(PrefillOrder) = Len(prefill) /\ PrefillOrder \in Seq(SequenceIds)
    BY PrefillOrderFacts
  <2>4. rows < Len(PrefillOrder) /\ rows < LargestBucket => left[rows + 1] = 0
    BY <2>2 DEF Takes
  <2>5. Len(prefill) = 0
    BY <1>2, <1>3, <2>1, <2>2, <2>3, <2>4
  <2>6. Aged = {}
    BY <2>5, InvQueues, LenProperties DEF Aged
  <2>7. Len(decode) = 0
    BY <1>2, <1>3, <2>1, <2>6 DEF DecodeRows, Smaller
  <2>8. SubSeq(decode, 1, 0) = << >> /\ SubSeq(PrefillOrder, 1, 0) = << >>
    BY <1>3, <2>3
  <2>9. QED
    BY <1>5, <2>1, <2>3, <2>5, <2>7, <2>8
<1>9. QED
  BY <1>1, <1>4, <1>5, <1>7, <1>8 DEF PlanFits

\* A plan that leaves decode rows behind spends on an aged prompt what was kept back.
LEMMA PlanPrefersDecode ==
  ASSUME Inv, Plan, decode' # << >>, Len(plan'.decode) < LargestBucket
  PROVE  PlannedTokens(plan.prefill)' = IF Aged = {} THEN 0 ELSE 1
<1>1. PICK rows \in 0 .. Smaller(Len(prefill), LargestBucket) :
      \E left \in [1 .. rows + 1 -> 0 .. MaxBatchedTokens] :
           /\ left[1] = MaxBatchedTokens - DecodeRows
           /\ Takes(PrefillOrder, rows, left)
           /\ Len(plan'.prefill) = rows
           /\ PlannedTokens(plan.prefill)' = left[1] - left[rows + 1]
           /\ \A k \in 1 .. rows : left[k] - left[k + 1] \in 1 .. MaxPrefillChunk
  BY PlanBudget
<1>2. PICK left \in [1 .. rows + 1 -> 0 .. MaxBatchedTokens] :
           /\ left[1] = MaxBatchedTokens - DecodeRows
           /\ Takes(PrefillOrder, rows, left)
           /\ Len(plan'.prefill) = rows
           /\ PlannedTokens(plan.prefill)' = left[1] - left[rows + 1]
           /\ \A k \in 1 .. rows : left[k] - left[k + 1] \in 1 .. MaxPrefillChunk
  BY <1>1
<1>3. /\ MaxBatchedTokens \in Nat \ {0} /\ LargestBucket \in Nat \ {0}
      /\ MaxPrefillChunk \in Nat /\ Len(decode) \in Nat /\ Len(prefill) \in Nat
      /\ decode \in Seq(SequenceIds) /\ DecodeRows \in 0 .. Len(decode)
  BY Limits, InvQueues, LenProperties, DecodeRowsFacts
<1>4. rows \in Nat
  BY <1>3 DEF Smaller
<1>5. DecodeRows < Len(decode) /\ DecodeRows < LargestBucket
  <2>1. decode' = SubSeq(decode, DecodeRows + 1, Len(decode)) /\ Len(plan'.decode) = DecodeRows
    BY PlanSpends
  <2>2. DecodeRows = Len(decode) => SubSeq(decode, DecodeRows + 1, Len(decode)) = << >>
    BY <1>3
  <2>3. QED
    BY <1>3, <2>1, <2>2
<1>6. left[1] = IF Aged = {} THEN 0 ELSE 1
  <2>1. left[1] = MaxBatchedTokens - DecodeRows
    BY <1>2
  <2>2. CASE Aged = {}
    <3>1. DecodeRows = Smaller(Smaller(MaxBatchedTokens, Len(decode)), LargestBucket)
      BY <1>3, <2>2 DEF DecodeRows
    <3>2. DecodeRows = MaxBatchedTokens
      BY <1>3, <1>5, <3>1 DEF Smaller
    <3>3. QED
      BY <1>3, <2>1, <2>2, <3>2
  <2>3. CASE Aged # {}
    <3>1. DecodeRows = Smaller(Smaller(MaxBatchedTokens - 1, Len(decode)), LargestBucket)
      BY <1>3, <2>3 DEF DecodeRows
    <3>2. DecodeRows = MaxBatchedTokens - 1
      BY <1>3, <1>5, <3>1 DEF Smaller
    <3>3. QED
      BY <1>3, <2>1, <2>3, <3>2
  <2>4. QED
    BY <2>2, <2>3
<1>7. \A k \in 1 .. rows : left[k] # 0
  BY <1>2 DEF Takes
<1>8. CASE Aged = {}
  <2>1. rows = 0
    BY <1>4, <1>6, <1>7, <1>8
  <2>2. QED
    BY <1>2, <1>6, <1>8, <2>1
<1>9. CASE Aged # {}
  <2>1. \E k \in DOMAIN plan'.prefill : TRUE
    BY <1>9, PlanServesAged
  <2>2. DOMAIN plan'.prefill = 1 .. rows
    BY <1>2, PlanSpends
  <2>3. rows >= 1 /\ 1 \in 1 .. rows /\ 1 \in 1 .. rows + 1 /\ 2 \in 1 .. rows + 1
    BY <1>4, <2>1, <2>2
  <2>4. left[2] \in 0 .. MaxBatchedTokens /\ left[1] - left[2] \in 1 .. MaxPrefillChunk
    BY <1>2, <2>3
  <2>5. left[2] = 0
    BY <1>3, <1>6, <1>9, <2>4
  <2>6. rows = 1
    BY <1>4, <1>7, <2>3, <2>5
  <2>7. QED
    BY <1>2, <1>6, <1>9, <2>5, <2>6
<1>10. QED
  BY <1>8, <1>9

-----------------------------------------------------------------------------
(* The theorems.                                                           *)

\* Every step but Plan leaves no plan behind, and every step keeps Inv.
LEMMA StepInv ==
  ASSUME Inv, Next
  PROVE  Inv' /\ (Plan \/ plan' = NoPlan)
<1>1. ASSUME NEW s \in SequenceIds, NEW prompt \in 1 .. MaxPrompt, Enqueue(s, prompt)
      PROVE  Inv' /\ plan' = NoPlan
  BY <1>1, EnqueueInv DEF Enqueue
<1>2. ASSUME NEW s \in SequenceIds, AdmitReserved(s)
      PROVE  Inv' /\ plan' = NoPlan
  BY <1>2, AdmitReservedInv DEF AdmitReserved
<1>3. ASSUME NEW s \in SequenceIds, Complete(s)
      PROVE  Inv' /\ plan' = NoPlan
  <2>1. ASSUME NEW processed \in 0 .. MaxPrefillChunk + 1, CompletePrefill(s, processed)
        PROVE  Inv' /\ plan' = NoPlan
    <3>1. processed \in Nat
      BY Limits
    <3>2. QED
      BY <2>1, <3>1, CompletePrefillInv DEF CompletePrefill
  <2>2. ASSUME NEW terminal \in BOOLEAN, CompleteDecode(s, terminal)
        PROVE  Inv' /\ plan' = NoPlan
    BY <2>2, CompleteDecodeInv DEF CompleteDecode, Forget
  <2>3. QED
    BY <1>3, <2>1, <2>2 DEF Complete
<1>4. ASSUME NEW s \in SequenceIds, Cancel(s)
      PROVE  Inv' /\ plan' = NoPlan
  BY <1>4, CancelInv DEF Cancel, Forget
<1>5. ASSUME NEW s \in SequenceIds, RemoveTerminal(s)
      PROVE  Inv' /\ plan' = NoPlan
  BY <1>5, RemoveTerminalInv DEF RemoveTerminal, Forget
<1>6. ASSUME Tick
      PROVE  Inv' /\ plan' = NoPlan
  BY <1>6, TickInv DEF Tick
<1>7. CASE Plan
  BY <1>7, PlanInv
<1>8. QED
  BY <1>1, <1>2, <1>3, <1>4, <1>5, <1>6, <1>7 DEF Next

\* A step that changes nothing keeps what holds.
LEMMA StutterInv ==
  ASSUME Inv, StableCoversAll, UNCHANGED vars
  PROVE  Inv' /\ StableCoversAll'
BY DEF vars, Inv, TypeOK, QueuesMatchPhases, ActiveExact, PromptAccounted, StableCoversAll,
       BatchPlan, In, AdmittedSet, Admitted

\* A step leaves a plan that covers every sequence if it says so.
LEMMA StepStable ==
  ASSUME Inv, Next
  PROVE  StableCoversAll'
<1>1. CASE Plan
  BY <1>1, PlanInv
<1>2. CASE plan' = NoPlan
  BY <1>2 DEF NoPlan, StableCoversAll
<1>3. QED
  BY <1>1, <1>2, StepInv

\* The invariant holds throughout.
THEOREM InvHolds == Spec => [](Inv /\ StableCoversAll)
<1>1. Init => Inv /\ StableCoversAll
  BY InitInv DEF Init, NoPlan, StableCoversAll
<1>2. Inv /\ StableCoversAll /\ [Next]_vars => (Inv /\ StableCoversAll)'
  BY StepInv, StepStable, StutterInv
<1>3. QED
  BY <1>1, <1>2, PTL DEF Spec

\* No sequence is ever lost from its queue, listed twice or listed in another's; the
\* counter of active sequences is exact and within its limit; and every prompt is
\* prefilled exactly once, in chunks that fit.
THEOREM SequencesCorrect == Spec => []SequencesExact
<1>1. Inv => SequencesExact
  BY DEF Inv, SequencesExact
<1>2. QED
  BY <1>1, InvHolds, PTL

\* A plan called stable leaves no sequence out: the engine may go on decoding
\* its rows without asking the scheduler again.
THEOREM StableCorrect == Spec => []StableCoversAll
BY InvHolds, PTL

\* However many decode rows wait, an aged prompt is served by the next plan.
THEOREM AgedCorrect == Spec => AgedPrefillServed
<1>1. ASSUME Inv, [Next]_vars
      PROVE  [plan'.made /\ Aged # {} =>
                \E k \in DOMAIN plan'.prefill : plan'.prefill[k] = prefill[FirstAged]]_vars
  <2>1. CASE Plan
    BY <1>1, <2>1, PlanServesAged
  <2>2. CASE plan' = NoPlan
    BY <2>2 DEF NoPlan
  <2>3. CASE UNCHANGED vars
    BY <2>3
  <2>4. QED
    BY <1>1, <2>1, <2>2, <2>3, StepInv
<1>2. QED
  BY <1>1, InvHolds, PTL DEF Spec, AgedPrefillServed

\* A plan keeps to the budget, to the compiled families and to its word, and is
\* empty only when the queues are.
THEOREM PlanCorrect == Spec => []PlanFits
<1>1. Init => PlanFits
  BY DEF Init, NoPlan, PlanFits
<1>2. ASSUME Inv, PlanFits, [Next]_vars
      PROVE  PlanFits'
  <2>1. CASE Plan
    BY <1>2, <2>1, PlanKeepsToBudget
  <2>2. CASE plan' = NoPlan
    BY <2>2 DEF NoPlan, PlanFits
  <2>3. CASE UNCHANGED vars
    <3>1. UNCHANGED <<plan, planned, phase, prefill, decode>>
      BY <2>3 DEF vars
    <3>2. PlannedTokens(plan.prefill)' = PlannedTokens(plan.prefill)
      BY <3>1, PlannedTotal, PlannedTotalNext DEF PlannedIsTotal
    <3>3. QED
      BY <1>2, <3>1, <3>2 DEF PlanFits, StableCoversAll
  <2>4. QED
    BY <1>2, <2>1, <2>2, <2>3, StepInv
<1>3. QED
  BY <1>1, <1>2, InvHolds, PTL DEF Spec

\* While decode rows wait for budget, prompts get nothing but the token that is kept
\* back for an aged one.
THEOREM DecodeFirst == Spec => DecodeKeepsPriority
<1>1. ASSUME Inv, [Next]_vars
      PROVE  [plan'.made /\ decode' # << >> /\ Len(plan'.decode) < LargestBucket =>
                PlannedTokens(plan.prefill)' = (IF Aged = {} THEN 0 ELSE 1)]_vars
  <2>1. CASE Plan
    BY <1>1, <2>1, PlanPrefersDecode
  <2>2. CASE plan' = NoPlan
    BY <2>2 DEF NoPlan
  <2>3. CASE UNCHANGED vars
    BY <2>3
  <2>4. QED
    BY <1>1, <2>1, <2>2, <2>3, StepInv
<1>2. QED
  BY <1>1, InvHolds, PTL DEF Spec, DecodeKeepsPriority
=============================================================================

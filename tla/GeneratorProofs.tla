--------------------------- MODULE GeneratorProofs ---------------------------
(***************************************************************************)
(* What holds of the generator's sessions for any number of sessions,      *)
(* pages, layer groups and rows, and any prompts and budgets: the host's   *)
(* account, the page manager's and the device's agree, so that a token     *)
(* reaches the session that it was sampled for and nothing is refused.     *)
(*                                                                         *)
(* At the end: the launches of attention, of any shape, divide their work  *)
(* so that every output is written once.                                   *)
(***************************************************************************)
EXTENDS MCGenerator, SequenceTheorems, FiniteSetTheorems, WellFoundedInduction, TLAPS

\* The rows of the call that are not yet committed; those for which it has
\* appended places; the sessions it has in hand.
Uncommitted == IF pc = "commit" THEN at .. Len(call.rows) ELSE 1 .. Len(call.rows)
Appended == IF pc = "reserve" THEN 1 .. at - 1 ELSE Uncommitted
Busy == IF pc = "idle" THEN doomed ELSE {call.rows[j] : j \in Appended}

Steps == {"idle", "reserve", "bind", "launch", "prefix", "download", "commit", "rollback"}
Calls == [kind : {"None", "Prefill", "Decode"}, rows : Seq(Sessions), chunks : Seq(Nat),
          reuse : BOOLEAN, saved : Seq(Nat)]

Types ==
  /\ mode \in {"server", "cli"}
  /\ status \in [Sessions -> {"new", "live", "released"}]
  /\ prompt \in [Sessions -> Nat] /\ budget \in [Sessions -> Nat] /\ cursor \in [Sessions -> Nat]
  /\ capacity \in [Sessions -> Nat] /\ committed \in [Sessions -> Nat] /\ tentative \in [Sessions -> Nat]
  /\ visible \in [Sessions -> Seq([of : Sessions, index : Nat])]
  /\ stopped \in [Sessions -> BOOLEAN]
  /\ unclaimed \in Nat
  /\ lane \in [members : Seq(Sessions), position : Seq(Nat), prefix : BOOLEAN]
  /\ pc \in Steps /\ at \in Nat
  /\ call \in Calls
  /\ doomed \subseteq Live
  /\ home \subseteq 1 .. Groups
  /\ slab \in [lane : BOOLEAN, call : BOOLEAN, slots : {{}}]
  /\ written \in [Sessions -> [1 .. Groups -> SUBSET Nat]]

\* A session that is not live has nothing; a live one what it asked for.
OwnExact ==
  \A s \in Sessions :
    /\ s \notin Live =>
         /\ capacity[s] = 0 /\ committed[s] = 0 /\ tentative[s] = 0
         /\ prompt[s] = 0 /\ budget[s] = 0 /\ cursor[s] = 0 /\ visible[s] = << >>
    /\ s \in Live => prompt[s] \in Prompts /\ budget[s] \in Budgets
    /\ committed[s] <= tentative[s] /\ tentative[s] <= capacity[s]
    /\ cursor[s] <= prompt[s] /\ Generated(s) <= budget[s]
    /\ \A k \in DOMAIN visible[s] : visible[s][k] = [of |-> s, index |-> prompt[s] + k - 1]
    /\ \A g \in 1 .. Groups : 0 .. committed[s] - 1 \subseteq written[s][g]

\* What the lengths of a session are that no failed call has left behind.
InStep ==
  \A s \in Live \ doomed :
    /\ (Generated(s) = 0) <=> (cursor[s] < prompt[s])
    /\ committed[s] = cursor[s] + (IF Generated(s) = 0 THEN 0 ELSE Generated(s) - 1)
    /\ mode = "server" \/ budget[s] > 0 => prompt[s] + budget[s] <= capacity[s]
    /\ s \notin Busy =>
         /\ tentative[s] <= committed[s] + 1
         /\ Generated(s) = 0 => tentative[s] = committed[s]

AtExact ==
  /\ pc \in {"reserve", "commit", "rollback"} => at \in 1 .. Len(call.rows)
  /\ pc = "launch" => at \in 0 .. Groups + 1
  /\ pc = "prefix" => at \in 0 .. LookaheadGroups
  /\ pc \in {"idle", "bind", "download"} => at = 0

CallExact ==
  pc # "idle" =>
    /\ call.kind # "None"
    /\ doomed = {}
    /\ Len(call.rows) \in 1 .. MaxRows /\ Len(call.chunks) = Len(call.rows)
    /\ \A i, j \in DOMAIN call.rows : call.rows[i] = call.rows[j] => i = j
    /\ \A i \in DOMAIN call.rows : call.rows[i] \in Live /\ call.chunks[i] > 0
    /\ Len(call.saved) = IF pc = "reserve" THEN at - 1 ELSE Len(call.rows)
    /\ mode = "cli" => Len(call.rows) = 1
    /\ mode = "cli" /\ call.kind = "Decode" => call.reuse
    /\ call.reuse => call.kind = "Decode" 
    /\ pc = "prefix" => call.kind = "Decode"

RowsDue ==
  pc \notin {"idle", "rollback"} =>
    \A j \in Uncommitted :
      LET s == call.rows[j] IN
      /\ call.kind = "Prefill" =>
           cursor[s] + call.chunks[j] <= prompt[s] /\ Generated(s) = 0 /\ budget[s] > 0
      /\ call.kind = "Decode" =>
           cursor[s] = prompt[s] /\ call.chunks[j] = 1 /\ Generated(s) < budget[s]
      /\ j \in Appended =>
           tentative[s] = IF call.kind = "Prefill" THEN committed[s] + call.chunks[j] ELSE Required(s)

Checkpoints ==
  pc \notin {"idle", "commit"} =>
    \A j \in DOMAIN call.saved :
      committed[call.rows[j]] <= call.saved[j] /\ call.saved[j] <= tentative[call.rows[j]]

\* How far the device is ahead of the committed length.
Ahead(i) == IF pc \in {"prefix", "download"} \/ (pc = "commit" /\ i >= at) THEN 1 ELSE 0

LaneExact ==
  /\ Len(lane.members) <= MaxRows
  /\ Len(lane.position) = Len(lane.members)
  /\ \A i \in DOMAIN lane.members :
       lane.members[i] \in Live /\ lane.position[i] <= NumPages * PageSize
  /\ doomed # {} => (\A i \in DOMAIN lane.members : lane.members[i] \in doomed)
  /\ doomed = {} =>
       \A i \in DOMAIN lane.members :
         /\ cursor[lane.members[i]] = prompt[lane.members[i]]
         /\ lane.position[i] = committed[lane.members[i]] + Ahead(i)

PrefixExact ==
  /\ pc \in {"launch", "prefix"} => ~lane.prefix
  /\ lane.prefix =>
       /\ lane.members # << >>
       /\ 1 .. LookaheadGroups \subseteq home
       /\ \A i \in DOMAIN lane.members, g \in 1 .. LookaheadGroups :
            lane.position[i] \in written[lane.members[i]][g]

\* Whose lane it is while a call runs.
LaneOfCall ==
  /\ pc = "rollback" => lane = NoLane
  /\ pc # "idle" /\ call.kind = "Prefill" => lane = NoLane
  /\ /\ pc \notin {"idle", "rollback"} /\ call.kind = "Decode"
     /\ call.reuse \/ pc \notin {"reserve", "bind"}
     => lane.members = call.rows

SlabExact ==
  /\ mode = "cli" => slab = NoSlab
  /\ mode = "server" /\ pc = "launch" => slab.call /\ ~slab.lane
  /\ mode = "server" /\ pc # "launch" /\ lane.members # << >> => slab.lane

\* The positions of row j are in place in layer group g, which is there.
InPlace(j, g) ==
  /\ g \in home
  /\ LET s == call.rows[j] IN committed[s] .. committed[s] + call.chunks[j] - 1 \subseteq written[s][g]

LaunchExact ==
  /\ pc = "launch" => (\A j \in DOMAIN call.rows, g \in 1 .. Groups : g < at => InPlace(j, g))
  /\ pc \in {"prefix", "download", "commit"} =>
       /\ home = 1 .. Groups
       /\ \A j \in Uncommitted, g \in 1 .. Groups : InPlace(j, g)
       /\ DOMAIN result = DOMAIN call.rows
       /\ \A j \in Uncommitted :
            result[j] = [of |-> call.rows[j], index |-> committed[call.rows[j]] + call.chunks[j]]
  /\ pc = "prefix" =>
       \A i \in DOMAIN lane.members, g \in 1 .. Groups :
         g < at => lane.position[i] \in written[lane.members[i]][g]

\* The diagnostic command.
CliExact ==
  mode = "cli" =>
    /\ doomed = {} /\ pc # "rollback"
    /\ \A s, t \in Live : s = t
    /\ \A s \in Live : cursor[s] = 0 \/ cursor[s] = prompt[s]
    /\ pc # "idle" /\ call.kind = "Prefill" => call.chunks[1] = prompt[call.rows[1]]
    /\ pc = "idle" => (\A s \in Live : PrefillComplete(s) => lane.members = <<s>>)
    /\ pc = "prefix" \/ (pc \in {"download", "commit"} /\ lane.prefix) => WantsLookahead(call.rows[1])
    /\ pc = "idle" /\ lane.prefix => \A s \in Live : Generated(s) < budget[s]

\* The pages that x has: a session's singleton, or the empty set for the free ones.
Owned(owner, x) == {p \in 1 .. NumPages : owner[p] = x}

\* Every page is free or some session's: the capacities and the free pages add up.
Accounted ==
  \E owner \in [1 .. NumPages -> SUBSET Sessions] :
    /\ \A p \in 1 .. NumPages : owner[p] # {} => \E s \in Sessions : owner[p] = {s}
    /\ \A s \in Sessions : capacity[s] = Cardinality(Owned(owner, {s})) * PageSize
    /\ unclaimed = Cardinality(Owned(owner, {}))

IInv ==
  /\ Types /\ OwnExact /\ InStep /\ AtExact /\ CallExact /\ RowsDue /\ Checkpoints
  /\ LaneExact /\ PrefixExact /\ LaneOfCall /\ SlabExact /\ LaunchExact /\ CliExact
  /\ Accounted

-----------------------------------------------------------------------------
(* Pages.                                                                  *)

\* Multiples of the page size that differ, differ by at least a page size.
LEMMA Multiples ==
  ASSUME NEW a \in Nat, NEW b \in Nat, NEW z \in Nat
  PROVE  /\ a * z \in Nat
         /\ a < b => a * z + z <= b * z
         /\ 0 * z = 0
  BY SMT

\* A whole number of pages divides back into itself.
LEMMA Quotient ==
  ASSUME NEW n \in Nat, NEW z \in Nat \ {0}
  PROVE  (n * z) \div z = n
  BY Z3

\* The quotient, bracketed by multiples of the divisor.
LEMMA Division ==
  ASSUME NEW n \in Nat, NEW z \in Nat \ {0}
  PROVE  n \div z \in Nat /\ (n \div z) * z <= n /\ n < (n \div z) * z + z
  BY Z3

\* The pages for n tokens hold them, and there is one if there is a token.
LEMMA PagesForFacts ==
  ASSUME NEW n \in Nat
  PROVE  /\ PagesFor(n) \in Nat
         /\ n <= PagesFor(n) * PageSize
         /\ PagesFor(n) * PageSize \in Nat
<1> DEFINE q == PagesFor(n)
<1>1. PageSize \in Nat \ {0} /\ n + PageSize - 1 \in Nat
  BY GeneratorAssumption
<1>2. q \in Nat /\ n + PageSize - 1 < q * PageSize + PageSize
  BY <1>1, Division DEF PagesFor
<1>3. q * PageSize \in Nat
  BY <1>1, <1>2, Multiples
<1> QED
  BY <1>1, <1>2, <1>3

LEMMA OwnedFinite ==
  ASSUME NEW owner, NEW x
  PROVE  /\ IsFiniteSet(Owned(owner, x))
         /\ Cardinality(Owned(owner, x)) \in Nat
         /\ Cardinality(Owned(owner, x)) <= NumPages
<1>1. NumPages \in Nat
  BY GeneratorAssumption
<1>2. IsFiniteSet(1 .. NumPages) /\ Cardinality(1 .. NumPages) = NumPages
  BY <1>1, FS_Interval
<1>3. Owned(owner, x) \subseteq 1 .. NumPages
  BY DEF Owned
<1>4. IsFiniteSet(Owned(owner, x)) /\ Cardinality(Owned(owner, x)) <= NumPages
  BY <1>2, <1>3, FS_Subset
<1> QED
  BY <1>4, FS_CardinalityType

\* What the account says of the capacities without naming a page.
LEMMA AccountBounds ==
  ASSUME Accounted
  PROVE  /\ unclaimed \in Nat /\ unclaimed <= NumPages
         /\ \A s \in Sessions :
              /\ capacity[s] \in Nat /\ capacity[s] <= NumPages * PageSize
              /\ capacity[s] \div PageSize \in Nat
              /\ capacity[s] = 0 => capacity[s] \div PageSize = 0
         /\ (\A s \in Sessions : capacity[s] = 0) => unclaimed = NumPages
<1>1. PICK owner \in [1 .. NumPages -> SUBSET Sessions] :
        /\ \A p \in 1 .. NumPages : owner[p] # {} => \E s \in Sessions : owner[p] = {s}
        /\ \A s \in Sessions : capacity[s] = Cardinality(Owned(owner, {s})) * PageSize
        /\ unclaimed = Cardinality(Owned(owner, {}))
  BY DEF Accounted
<1>2. NumPages \in Nat /\ PageSize \in Nat \ {0}
  BY GeneratorAssumption
<1>3. unclaimed \in Nat /\ unclaimed <= NumPages
  BY <1>1, OwnedFinite
<1>4. ASSUME NEW s \in Sessions
      PROVE  /\ capacity[s] \in Nat /\ capacity[s] <= NumPages * PageSize
             /\ capacity[s] \div PageSize = Cardinality(Owned(owner, {s}))
             /\ Cardinality(Owned(owner, {s})) \in Nat
             /\ capacity[s] = 0 => Cardinality(Owned(owner, {s})) = 0
  <2> DEFINE c == Cardinality(Owned(owner, {s}))
  <2>1. c \in Nat /\ c <= NumPages /\ capacity[s] = c * PageSize
    BY <1>1, OwnedFinite
  <2>2. c * PageSize \in Nat /\ NumPages * PageSize \in Nat
        /\ (c < NumPages => c * PageSize + PageSize <= NumPages * PageSize)
    BY <2>1, <1>2, Multiples
  <2>3. (c * PageSize) \div PageSize = c
    BY <2>1, <1>2, Quotient
  <2>4. c > 0 => c * PageSize > 0
    <3>1. 0 < c => 0 * PageSize + PageSize <= c * PageSize
      BY <2>1, <1>2, Multiples
    <3>2. 0 * PageSize = 0
      BY <1>2, Multiples
    <3> QED
      BY <3>1, <3>2, <2>1, <2>2, <1>2
  <2> QED
    BY <2>1, <2>2, <2>3, <2>4, <1>2
<1>5. ASSUME \A s \in Sessions : capacity[s] = 0
      PROVE  unclaimed = NumPages
  <2>1. \A p \in 1 .. NumPages : owner[p] = {}
    <3> SUFFICES ASSUME NEW p \in 1 .. NumPages, owner[p] # {} PROVE FALSE
      OBVIOUS
    <3>1. PICK s \in Sessions : owner[p] = {s}
      BY <1>1
    <3>2. Cardinality(Owned(owner, {s})) = 0
      BY <1>4, <1>5
    <3>3. Owned(owner, {s}) = {}
      BY <3>2, OwnedFinite, FS_EmptySet
    <3> QED
      BY <3>1, <3>3 DEF Owned
  <2>2. Owned(owner, {}) = 1 .. NumPages
    BY <2>1 DEF Owned
  <2> QED
    BY <2>2, <1>1, <1>2, FS_Interval
<1> QED
  BY <1>3, <1>4, <1>5

\* Of the free pages as many as are asked for become the session's.
LEMMA AccountGrant ==
  ASSUME Accounted, NEW n \in Nat, n <= unclaimed, NEW s \in Sessions,
         capacity \in [Sessions -> Nat], capacity[s] = 0,
         capacity' = [capacity EXCEPT ![s] = n * PageSize], unclaimed' = unclaimed - n
  PROVE  Accounted'
<1>1. PICK owner \in [1 .. NumPages -> SUBSET Sessions] :
        /\ \A p \in 1 .. NumPages : owner[p] # {} => \E t \in Sessions : owner[p] = {t}
        /\ \A t \in Sessions : capacity[t] = Cardinality(Owned(owner, {t})) * PageSize
        /\ unclaimed = Cardinality(Owned(owner, {}))
  BY DEF Accounted
<1>2. NumPages \in Nat /\ PageSize \in Nat \ {0}
  BY GeneratorAssumption
<1> DEFINE free == Owned(owner, {})
<1>3. IsFiniteSet(free) /\ Cardinality(free) = unclaimed /\ unclaimed \in Nat
  BY <1>1, OwnedFinite
<1>4. PICK f : f \in Bijection(1 .. unclaimed, free)
  BY <1>3, FS_CardinalityType DEF ExistsBijection
<1> DEFINE taken == {f[i] : i \in 1 .. n}
<1>5. taken \subseteq free
  BY <1>3, <1>4 DEF Bijection, Injection, Surjection
<1>6. IsFiniteSet(taken) /\ Cardinality(taken) = n
  <2> DEFINE g == [i \in 1 .. n |-> f[i]]
  <2>1. g \in Bijection(1 .. n, taken)
    BY <1>3, <1>4, 1 .. n \subseteq 1 .. unclaimed DEF Bijection, Injection, Surjection, IsInjective
  <2>2. IsFiniteSet(1 .. n) /\ Cardinality(1 .. n) = n
    BY FS_Interval
  <2> QED
    BY <2>1, <2>2, FS_Bijection DEF ExistsBijection
<1> DEFINE next == [p \in 1 .. NumPages |-> IF p \in taken THEN {s} ELSE owner[p]]
<1>7. next \in [1 .. NumPages -> SUBSET Sessions]
  OBVIOUS
<1>8. \A p \in 1 .. NumPages : next[p] # {} => \E t \in Sessions : next[p] = {t}
  BY <1>1
<1>9. Owned(next, {}) = free \ taken
  BY <1>5 DEF Owned
<1>10. unclaimed' = Cardinality(Owned(next, {}))
  <2>1. Cardinality(free \ taken) = Cardinality(free) - Cardinality(free \cap taken)
    BY <1>3, FS_Difference
  <2>2. free \cap taken = taken
    BY <1>5
  <2> QED
    BY <2>1, <2>2, <1>3, <1>6, <1>9
<1>11. Owned(owner, {s}) = {}
  <2>1. Cardinality(Owned(owner, {s})) = 0
    <3> DEFINE c == Cardinality(Owned(owner, {s}))
    <3>1. c \in Nat /\ c * PageSize = 0
      BY <1>1, OwnedFinite
    <3>2. 0 < c => 0 * PageSize + PageSize <= c * PageSize
      BY <3>1, <1>2, Multiples
    <3>3. 0 * PageSize = 0
      BY <1>2, Multiples
    <3> QED
      BY <3>1, <3>2, <3>3, <1>2
  <2> QED
    BY <2>1, OwnedFinite, FS_EmptySet
<1>12. Owned(next, {s}) = taken
  BY <1>5, <1>11 DEF Owned
<1>13. \A t \in Sessions : t # s => Owned(next, {t}) = Owned(owner, {t})
  BY <1>5 DEF Owned
<1>14. \A t \in Sessions : capacity'[t] = Cardinality(Owned(next, {t})) * PageSize
  BY <1>1, <1>6, <1>12, <1>13
<1> QED
  BY <1>7, <1>8, <1>10, <1>14 DEF Accounted

\* A session that goes leaves its pages free.
LEMMA AccountReturn ==
  ASSUME Accounted, NEW s \in Sessions, capacity \in [Sessions -> Nat],
         capacity' = [capacity EXCEPT ![s] = 0], unclaimed' = Returned(s)
  PROVE  Accounted'
<1>1. PICK owner \in [1 .. NumPages -> SUBSET Sessions] :
        /\ \A p \in 1 .. NumPages : owner[p] # {} => \E t \in Sessions : owner[p] = {t}
        /\ \A t \in Sessions : capacity[t] = Cardinality(Owned(owner, {t})) * PageSize
        /\ unclaimed = Cardinality(Owned(owner, {}))
  BY DEF Accounted
<1>2. NumPages \in Nat /\ PageSize \in Nat \ {0}
  BY GeneratorAssumption
<1> DEFINE next == [p \in 1 .. NumPages |-> IF owner[p] = {s} THEN {} ELSE owner[p]]
           mine == Owned(owner, {s})
           free == Owned(owner, {})
<1>3. next \in [1 .. NumPages -> SUBSET Sessions]
  OBVIOUS
<1>4. \A p \in 1 .. NumPages : next[p] # {} => \E t \in Sessions : next[p] = {t}
  BY <1>1
<1>5. Owned(next, {}) = free \cup mine /\ free \cap mine = {}
  BY DEF Owned
<1>6. IsFiniteSet(free) /\ IsFiniteSet(mine) /\ Cardinality(free) \in Nat /\ Cardinality(mine) \in Nat
  BY OwnedFinite
<1>7. Cardinality(Owned(next, {})) = Cardinality(free) + Cardinality(mine)
  <2> HIDE DEF next, mine, free
  <2>1. Cardinality(free \cup mine) = Cardinality(free) + Cardinality(mine) - Cardinality(free \cap mine)
    BY <1>6, FS_Union
  <2>2. Cardinality(free \cap mine) = 0
    BY <1>5, FS_EmptySet
  <2>3. Cardinality(Owned(next, {})) = Cardinality(free \cup mine)
    BY <1>5
  <2> QED
    BY <2>1, <2>2, <2>3, <1>6
<1>8. capacity[s] \div PageSize = Cardinality(mine)
  BY <1>1, <1>2, <1>6, Quotient
<1>9. unclaimed' = Cardinality(Owned(next, {}))
  BY <1>1, <1>7, <1>8 DEF Returned
<1>10. \A t \in Sessions : t # s => Owned(next, {t}) = Owned(owner, {t})
  BY DEF Owned
<1>11. Owned(next, {s}) = {}
  BY DEF Owned
<1>12. \A t \in Sessions : capacity'[t] = Cardinality(Owned(next, {t})) * PageSize
  <2>1. Cardinality({}) * PageSize = 0
    BY <1>2, FS_EmptySet
  <2> QED
    BY <2>1, <1>1, <1>10, <1>11
<1> QED
  BY <1>3, <1>4, <1>9, <1>12 DEF Accounted


-----------------------------------------------------------------------------
(* Steps.                                                                  *)

\* The sequences of the call and of the lane.
LEMMA Shapes ==
  ASSUME Types
  PROVE  /\ Len(call.rows) \in Nat /\ DOMAIN call.rows = 1 .. Len(call.rows)
         /\ \A i \in 1 .. Len(call.rows) : call.rows[i] \in Sessions
         /\ Len(call.chunks) \in Nat /\ DOMAIN call.chunks = 1 .. Len(call.chunks)
         /\ \A i \in 1 .. Len(call.chunks) : call.chunks[i] \in Nat
         /\ Len(call.saved) \in Nat /\ DOMAIN call.saved = 1 .. Len(call.saved)
         /\ \A i \in 1 .. Len(call.saved) : call.saved[i] \in Nat
         /\ Len(lane.members) \in Nat /\ DOMAIN lane.members = 1 .. Len(lane.members)
         /\ \A i \in 1 .. Len(lane.members) : lane.members[i] \in Sessions
         /\ Len(lane.position) \in Nat /\ DOMAIN lane.position = 1 .. Len(lane.position)
         /\ \A i \in 1 .. Len(lane.position) : lane.position[i] \in Nat
<1>1. /\ call.rows \in Seq(Sessions) /\ call.chunks \in Seq(Nat) /\ call.saved \in Seq(Nat)
      /\ lane.members \in Seq(Sessions) /\ lane.position \in Seq(Nat)
  BY DEF Types, Calls
<1> QED
  BY <1>1, LenProperties, ElementOfSeq

LEMMA InitInv == Init => IInv
<1> SUFFICES ASSUME Init PROVE IInv
  OBVIOUS
<1> USE DEF Init, CachesInit, NoLane, NoCall, NoSlab
<1>1. Types
  <2>1. lane \in [members : Seq(Sessions), position : Seq(Nat), prefix : BOOLEAN]
    OBVIOUS
  <2>2. call \in Calls
    BY DEF Calls
  <2>3. visible \in [Sessions -> Seq([of : Sessions, index : Nat])]
    OBVIOUS
  <2>4. written \in [Sessions -> [1 .. Groups -> SUBSET Nat]]
    OBVIOUS
  <2>5. unclaimed \in Nat
    BY GeneratorAssumption
  <2> QED
    BY <2>1, <2>2, <2>3, <2>4, <2>5 DEF Types, Steps
<1>2. OwnExact /\ InStep
  BY DEF OwnExact, InStep, Live, Generated
<1>3. AtExact /\ CallExact /\ RowsDue /\ Checkpoints /\ LaunchExact
  BY DEF AtExact, CallExact, RowsDue, Checkpoints, LaunchExact
<1>4. LaneExact /\ PrefixExact /\ LaneOfCall /\ SlabExact /\ CliExact
  BY GeneratorAssumption DEF LaneExact, PrefixExact, LaneOfCall, SlabExact, CliExact, Live, PrefillComplete
<1>5. Accounted
  <2> DEFINE owner == [p \in 1 .. NumPages |-> {}]
  <2>1. NumPages \in Nat /\ PageSize \in Nat
    BY GeneratorAssumption
  <2>2. Owned(owner, {}) = 1 .. NumPages /\ \A s \in Sessions : Owned(owner, {s}) = {}
    BY DEF Owned
  <2>3. Cardinality(Owned(owner, {})) = NumPages
    BY <2>1, <2>2, FS_Interval
  <2>4. \A s \in Sessions : capacity[s] = Cardinality(Owned(owner, {s})) * PageSize
    <3>1. Cardinality({}) * PageSize = 0
      BY <2>1, FS_EmptySet
    <3> QED
      BY <3>1, <2>2
  <2>5. owner \in [1 .. NumPages -> SUBSET Sessions]
    OBVIOUS
  <2> QED
    BY <2>3, <2>4, <2>5 DEF Accounted
<1> QED
  BY <1>1, <1>2, <1>3, <1>4, <1>5 DEF IInv

LEMMA DownloadInv ==
  ASSUME IInv, Download PROVE IInv'
<1> USE DEF IInv, Download, sessions, pages, device
<1>1. Live' = Live
  BY DEF Live
<1>2. Types'
  BY <1>1 DEF Types, Steps
<1>3. OwnExact'
  BY <1>1 DEF OwnExact, Generated
<1>4. Busy' = Busy /\ Uncommitted' = Uncommitted /\ Appended' = Appended
  BY DEF Busy, Uncommitted, Appended, CallExact, Types
<1>5. InStep'
  BY <1>1, <1>4 DEF InStep, Generated
<1>6. AtExact' /\ CallExact' /\ Checkpoints'
  BY <1>1 DEF AtExact, CallExact, Checkpoints, Types, Calls
<1>7. RowsDue'
  BY <1>4 DEF RowsDue, Generated, Required, WantsLookahead
<1>8. LaneExact'
  <2>1. \A i \in DOMAIN lane.members : i \in Nat /\ i >= 1
    BY Shapes
  <2>2. \A i \in DOMAIN lane.members : Ahead(i)' = Ahead(i)
    BY <2>1 DEF Ahead
  <2> QED
    BY <1>1, <2>2 DEF LaneExact
<1>12. PrefixExact'
  BY DEF PrefixExact
<1>13. LaneOfCall'
  BY DEF LaneOfCall
<1>14. SlabExact'
  BY DEF SlabExact
<1>9. LaunchExact'
  BY <1>4 DEF LaunchExact, InPlace
<1>10. CliExact'
  BY <1>1 DEF CliExact, WantsLookahead, Generated, PrefillComplete
<1>11. Accounted'
  BY DEF Accounted
<1> QED
  BY <1>2, <1>3, <1>5, <1>6, <1>7, <1>8, <1>9, <1>10, <1>11, <1>12, <1>13, <1>14

LEMMA PrepareInv ==
  ASSUME IInv, NEW s \in Sessions, NEW p \in Prompts, NEW m \in Budgets,
         PrepareServerTokens(s, p, m) \/ PrepareTokens(s, p, m)
  PROVE  IInv'
<1> USE DEF IInv
<1> DEFINE n == PagesFor(Maximum(p, m))
<1>1. /\ pc = "idle" /\ doomed = {} /\ status[s] = "new"
      /\ status' = [status EXCEPT ![s] = "live"]
      /\ prompt' = [prompt EXCEPT ![s] = p]
      /\ budget' = [budget EXCEPT ![s] = m]
      /\ UNCHANGED <<mode, cursor, visible, stopped, committed, tentative>>
      /\ UNCHANGED <<lane, pc, at, call, result, doomed, home, slab, written>>
  BY DEF PrepareServerTokens, PrepareTokens, Prepare, control, device, pages
<1>2. p \in Nat /\ p > 0 /\ m \in Nat
  BY GeneratorAssumption
<1>3. n \in Nat /\ n * PageSize \in Nat /\ p + m <= n * PageSize
  BY <1>2, PagesForFacts DEF Maximum
<1>4. \/ /\ n <= unclaimed /\ unclaimed' = unclaimed - n
         /\ capacity' = [capacity EXCEPT ![s] = n * PageSize]
      \/ mode = "cli" /\ m = 0 /\ UNCHANGED <<capacity, unclaimed>>
  BY DEF PrepareServerTokens, PrepareTokens, Reserve, pages
<1>5. s \notin Live /\ Live' = Live \cup {s}
  BY <1>1 DEF Live, Types
<1>6. capacity[s] = 0 /\ committed[s] = 0 /\ tentative[s] = 0 /\ cursor[s] = 0 /\ visible[s] = << >>
  BY <1>5 DEF OwnExact
<1>7. unclaimed' \in Nat /\ capacity' \in [Sessions -> Nat]
  <2>1. CASE UNCHANGED <<capacity, unclaimed>>
    BY <2>1 DEF Types
  <2>2. CASE /\ n <= unclaimed /\ unclaimed' = unclaimed - n
             /\ capacity' = [capacity EXCEPT ![s] = n * PageSize]
    BY <2>2, <1>3 DEF Types
  <2> QED
    BY <2>1, <2>2, <1>4
<1>8. Types'
  <2>1. /\ status' \in [Sessions -> {"new", "live", "released"}]
        /\ prompt' \in [Sessions -> Nat] /\ budget' \in [Sessions -> Nat]
    BY <1>1, <1>2 DEF Types
  <2> QED
    BY <2>1, <1>1, <1>5, <1>7 DEF Types
<1>9. \A t \in Sessions : t # s => capacity'[t] = capacity[t] /\ prompt'[t] = prompt[t] /\ budget'[t] = budget[t]
  BY <1>1, <1>4 DEF Types
<1>10. prompt'[s] = p /\ budget'[s] = m /\ capacity'[s] \in Nat /\ Generated(s) = 0
  BY <1>1, <1>6, <1>7 DEF Types, Generated
<1>11. OwnExact'
  <2> SUFFICES ASSUME NEW t \in Sessions
               PROVE  /\ t \notin Live' =>
                           /\ capacity'[t] = 0 /\ committed'[t] = 0 /\ tentative'[t] = 0
                           /\ prompt'[t] = 0 /\ budget'[t] = 0 /\ cursor'[t] = 0 /\ visible'[t] = << >>
                      /\ t \in Live' => prompt'[t] \in Prompts /\ budget'[t] \in Budgets
                      /\ committed'[t] <= tentative'[t] /\ tentative'[t] <= capacity'[t]
                      /\ cursor'[t] <= prompt'[t] /\ Generated(t)' <= budget'[t]
                      /\ \A k \in DOMAIN visible'[t] : visible'[t][k] = [of |-> t, index |-> prompt'[t] + k - 1]
                      /\ \A g \in 1 .. Groups : 0 .. committed'[t] - 1 \subseteq written'[t][g]
    BY DEF OwnExact
  <2>1. CASE t = s
    BY <2>1, <1>1, <1>2, <1>5, <1>6, <1>10 DEF Generated
  <2>2. CASE t # s
    BY <2>2, <1>1, <1>5, <1>9 DEF OwnExact, Generated
  <2> QED
    BY <2>1, <2>2
<1>12. InStep'
  <2>1. capacity'[s] = n * PageSize \/ (mode = "cli" /\ m = 0)
    BY <1>4 DEF Types
  <2>2. Busy' = Busy
    BY <1>1 DEF Busy
  <2>3. mode = "server" \/ m > 0 => p + m <= capacity'[s]
    BY <2>1, <1>2, <1>3
  <2> SUFFICES ASSUME NEW t \in Live' \ doomed'
               PROVE  /\ (Generated(t)' = 0) <=> (cursor'[t] < prompt'[t])
                      /\ committed'[t] = cursor'[t] + (IF Generated(t)' = 0 THEN 0 ELSE Generated(t)' - 1)
                      /\ mode' = "server" \/ budget'[t] > 0 => prompt'[t] + budget'[t] <= capacity'[t]
                      /\ t \notin Busy' =>
                           /\ tentative'[t] <= committed'[t] + 1
                           /\ Generated(t)' = 0 => tentative'[t] = committed'[t]
    BY DEF InStep
  <2>4. CASE t = s
    BY <2>3, <2>4, <1>1, <1>2, <1>6, <1>10 DEF Generated
  <2>5. CASE t # s
    BY <2>2, <2>5, <1>1, <1>5, <1>9 DEF InStep, Generated, Live
  <2> QED
    BY <2>4, <2>5
<1>13. AtExact' /\ CallExact' /\ RowsDue' /\ Checkpoints' /\ LaunchExact'
  BY <1>1 DEF AtExact, CallExact, RowsDue, Checkpoints, LaunchExact
<1>14. LaneExact'
  <2>1. \A i \in DOMAIN lane.members : lane.members[i] \in Live /\ lane.members[i] # s
    BY <1>5 DEF LaneExact
  <2>2. \A i \in DOMAIN lane.members : Ahead(i)' = Ahead(i)
    BY <1>1 DEF Ahead
  <2> QED
    BY <2>1, <2>2, <1>1, <1>5, <1>9 DEF LaneExact, Live
<1>15. PrefixExact' /\ LaneOfCall' /\ SlabExact'
  BY <1>1 DEF PrefixExact, LaneOfCall, SlabExact
<1>16. CliExact'
  <2> SUFFICES ASSUME mode = "cli" PROVE CliExact'
    BY <1>1 DEF CliExact
  <2>1. Live = {} /\ Live' = {s}
    BY <1>5 DEF PrepareServerTokens, PrepareTokens
  <2>2. DOMAIN lane.members = {}
    BY <2>1 DEF LaneExact
  <2>3. lane.members = << >>
    BY <2>2, Shapes
  <2>4. ~lane.prefix
    BY <2>3 DEF PrefixExact
  <2> QED
    BY <2>1, <2>4, <1>1, <1>2, <1>6, <1>10 DEF CliExact, PrefillComplete
<1>17. Accounted'
  <2>1. CASE /\ n <= unclaimed /\ unclaimed' = unclaimed - n
             /\ capacity' = [capacity EXCEPT ![s] = n * PageSize]
    BY <2>1, <1>3, <1>6, AccountGrant DEF Types
  <2>2. CASE UNCHANGED <<capacity, unclaimed>>
    BY <2>2 DEF Accounted
  <2> QED
    BY <2>1, <2>2, <1>4
<1> QED
  BY <1>8, <1>11, <1>12, <1>13, <1>14, <1>15, <1>16, <1>17

\* Without a lane there is nothing to say of it.
LEMMA WithoutLane ==
  /\ NoLane \in [members : Seq(Sessions), position : Seq(Nat), prefix : BOOLEAN]
  /\ NoLane.members = << >> /\ NoLane.position = << >> /\ ~NoLane.prefix
  /\ DOMAIN NoLane.members = {} /\ Len(NoLane.members) = 0 /\ Len(NoLane.position) = 0
  /\ NoSlab \in [lane : BOOLEAN, call : BOOLEAN, slots : {{}}]
  /\ lane' = NoLane => LaneExact' /\ PrefixExact'
<1>1. /\ NoLane \in [members : Seq(Sessions), position : Seq(Nat), prefix : BOOLEAN]
      /\ NoLane.members = << >> /\ NoLane.position = << >> /\ ~NoLane.prefix
      /\ DOMAIN NoLane.members = {} /\ Len(NoLane.members) = 0 /\ Len(NoLane.position) = 0
      /\ NoSlab \in [lane : BOOLEAN, call : BOOLEAN, slots : {{}}]
  BY DEF NoLane, NoSlab
<1>2. ASSUME lane' = NoLane PROVE LaneExact' /\ PrefixExact'
  BY <1>1, <1>2, GeneratorAssumption DEF LaneExact, PrefixExact
<1> QED
  BY <1>1, <1>2

\* How a call begins: its rows are due, and no place is appended yet.
Begun(kind, rows, chunks, reuse) ==
  /\ kind \in {"Prefill", "Decode"} /\ rows \in Seq(Live) /\ chunks \in Seq(Nat) /\ reuse \in BOOLEAN
  /\ Len(rows) \in 1 .. MaxRows /\ Len(chunks) = Len(rows)
  /\ \A i, j \in 1 .. Len(rows) : rows[i] = rows[j] => i = j
  /\ \A i \in 1 .. Len(rows) :
       /\ chunks[i] > 0
       /\ kind = "Prefill" =>
            cursor[rows[i]] + chunks[i] <= prompt[rows[i]] /\ Generated(rows[i]) = 0 /\ budget[rows[i]] > 0
       /\ kind = "Decode" =>
            cursor[rows[i]] = prompt[rows[i]] /\ chunks[i] = 1 /\ Generated(rows[i]) < budget[rows[i]]
  /\ mode = "cli" => Len(rows) = 1
  /\ mode = "cli" /\ kind = "Decode" => reuse
  /\ mode = "cli" /\ kind = "Prefill" => chunks[1] = prompt[rows[1]]
  /\ reuse => kind = "Decode" /\ lane' = lane /\ lane.members = rows
  /\ kind = "Prefill" => lane' = NoLane
  /\ (lane' = NoLane /\ slab' = NoSlab) \/ UNCHANGED <<lane, slab>>
  /\ Begin(kind, rows, chunks, reuse, "reserve")

LEMMA BeginInv ==
  ASSUME IInv, NEW kind, NEW rows, NEW chunks, NEW reuse, Begun(kind, rows, chunks, reuse)
  PROVE  IInv'
<1> USE DEF IInv, Begun
<1>1. /\ pc = "idle" /\ doomed = {} /\ pc' = "reserve" /\ at' = 1
      /\ call' = [kind |-> kind, rows |-> rows, chunks |-> chunks, reuse |-> reuse, saved |-> << >>]
      /\ UNCHANGED <<mode, status, prompt, budget, cursor, visible, stopped>>
      /\ UNCHANGED <<capacity, committed, tentative, unclaimed, result, doomed, home, written>>
  BY DEF Begin, sessions, pages
<1>2. /\ call'.kind = kind /\ call'.rows = rows /\ call'.chunks = chunks /\ call'.reuse = reuse
      /\ call'.saved = << >> /\ Len(call'.saved) = 0 /\ DOMAIN call'.saved = {}
  BY <1>1
<1>3. Live' = Live /\ Live \subseteq Sessions
  BY <1>1 DEF Live
<1>4. rows \in Seq(Sessions) /\ Len(rows) \in Nat /\ DOMAIN rows = 1 .. Len(rows)
      /\ \A i \in 1 .. Len(rows) : rows[i] \in Live
  BY <1>3, LenProperties, ElementOfSeq, SeqDef
<1>5. call' \in Calls
  BY <1>1, <1>4 DEF Calls
<1>6. /\ NoLane \in [members : Seq(Sessions), position : Seq(Nat), prefix : BOOLEAN]
      /\ NoSlab \in [lane : BOOLEAN, call : BOOLEAN, slots : {{}}]
      /\ NoLane.members = << >>
  BY WithoutLane
<1>7. Types'
  BY <1>1, <1>3, <1>5, <1>6 DEF Types, Steps
<1>8. OwnExact'
  BY <1>1, <1>3 DEF OwnExact, Generated
<1>9. Appended' = {} /\ Busy' = {} /\ Uncommitted' = 1 .. Len(rows)
  BY <1>1, <1>2 DEF Appended, Busy, Uncommitted
<1>10. InStep'
  BY <1>1, <1>3, <1>9 DEF InStep, Generated, Busy
<1>11. AtExact'
  BY <1>1, <1>2, <1>4 DEF AtExact
<1>12. CallExact'
  BY <1>1, <1>2, <1>3, <1>4 DEF CallExact
<1>13. RowsDue'
  BY <1>1, <1>2, <1>4, <1>9 DEF RowsDue, Generated
<1>14. Checkpoints'
  BY <1>2 DEF Checkpoints
<1>15. LaneExact'
  <2>1. CASE lane' = NoLane
    BY <2>1, WithoutLane
  <2>2. CASE lane' = lane
    <3>1. \A i \in DOMAIN lane.members : Ahead(i)' = Ahead(i)
      BY <1>1 DEF Ahead
    <3> QED
      BY <2>2, <3>1, <1>1, <1>3 DEF LaneExact
  <2> QED
    BY <2>1, <2>2
<1>16. PrefixExact'
  BY <1>1, WithoutLane DEF PrefixExact
<1>17. LaneOfCall'
  BY <1>1, <1>2 DEF LaneOfCall
<1>18. SlabExact'
  BY <1>1, <1>6 DEF SlabExact, NoSlab
<1>19. LaunchExact'
  BY <1>1 DEF LaunchExact
<1>20. CliExact'
  BY <1>1, <1>2, <1>3 DEF CliExact
<1>21. Accounted'
  BY <1>1 DEF Accounted
<1> QED
  BY <1>7, <1>8, <1>10, <1>11, <1>12, <1>13, <1>14, <1>15, <1>16, <1>17, <1>18, <1>19, <1>20, <1>21

\* What the selection of a batch gives.
LEMMA RowsFacts ==
  ASSUME NEW S, NEW rows \in Rows(S)
  PROVE  /\ rows \in Seq(S) /\ Len(rows) \in 1 .. MaxRows /\ DOMAIN rows = 1 .. Len(rows)
         /\ \A i, j \in 1 .. Len(rows) : rows[i] = rows[j] => i = j
<1>1. MaxRows \in Nat /\ MaxRows >= 1
  BY GeneratorAssumption
<1>2. CASE \E s \in S : rows = <<s>>
  BY <1>1, <1>2
<1>3. CASE rows \in S \X S /\ MaxRows >= 2 /\ rows[1] # rows[2]
  <2>1. PICK a \in S, b \in S : rows = <<a, b>>
    BY <1>3
  <2>2. a # b
    BY <2>1, <1>3
  <2> QED
    BY <2>1, <2>2, <1>1, <1>3
<1> QED
  BY <1>2, <1>3 DEF Rows

LEMMA PrefillBatchInv ==
  ASSUME IInv, PrefillBatch PROVE IInv'
<1>1. PICK rows \in Rows(PrefillDue) : \E chunks \in [DOMAIN rows -> 1 .. NumPages * PageSize] :
        /\ \A i \in DOMAIN rows : chunks[i] <= prompt[rows[i]] - cursor[rows[i]]
        /\ Begin("Prefill", rows, chunks, FALSE, "reserve")
  BY DEF PrefillBatch
<1>2. PICK chunks \in [DOMAIN rows -> 1 .. NumPages * PageSize] :
        /\ \A i \in DOMAIN rows : chunks[i] <= prompt[rows[i]] - cursor[rows[i]]
        /\ Begin("Prefill", rows, chunks, FALSE, "reserve")
  BY <1>1
<1>3. rows \in Seq(PrefillDue) /\ Len(rows) \in 1 .. MaxRows /\ DOMAIN rows = 1 .. Len(rows)
      /\ \A i, j \in 1 .. Len(rows) : rows[i] = rows[j] => i = j
  BY RowsFacts
<1>4. \A i \in 1 .. Len(rows) : rows[i] \in PrefillDue
  BY <1>3, ElementOfSeq
<1>5. rows \in Seq(Live)
  BY <1>3, <1>4, SeqDef DEF PrefillDue
<1>6. NumPages * PageSize \in Nat
  BY GeneratorAssumption, Multiples
<1>7. chunks \in Seq(Nat) /\ Len(chunks) = Len(rows)
      /\ \A i \in 1 .. Len(rows) : chunks[i] \in Nat /\ chunks[i] > 0
  BY <1>2, <1>3, <1>6, SeqDef, SMTT(60)
<1>8. mode = "server" /\ lane' = NoLane /\ slab' = NoSlab /\ pc = "idle" /\ doomed = {}
  BY <1>2 DEF PrefillBatch, ClearLane, Begin
<1>9. ASSUME NEW i \in 1 .. Len(rows)
      PROVE  /\ cursor[rows[i]] + chunks[i] <= prompt[rows[i]]
             /\ Generated(rows[i]) = 0 /\ budget[rows[i]] > 0
  <2>1. rows[i] \in Live /\ rows[i] \in Sessions /\ ~IsComplete(rows[i]) /\ ~PrefillComplete(rows[i])
    BY <1>4 DEF PrefillDue, Live
  <2>2. cursor[rows[i]] \in Nat /\ prompt[rows[i]] \in Nat /\ budget[rows[i]] \in Nat
        /\ cursor[rows[i]] <= prompt[rows[i]]
    BY <2>1 DEF IInv, Types, OwnExact
  <2>3. Generated(rows[i]) = 0
    BY <2>1, <2>2, <1>8 DEF IInv, InStep, PrefillComplete
  <2> QED
    BY <2>1, <2>2, <2>3, <1>2, <1>3, <1>7 DEF IsComplete
<1>10. Begun("Prefill", rows, chunks, FALSE)
  BY <1>2, <1>3, <1>5, <1>7, <1>8, <1>9 DEF Begun
<1> QED
  BY <1>10, BeginInv

LEMMA DecodeBatchInv ==
  ASSUME IInv, DecodeBatch PROVE IInv'
<1>1. PICK rows \in Rows(DecodeDue) :
        Begin("Decode", rows, [i \in DOMAIN rows |-> 1], MatchesMembers(rows), "reserve")
  BY DEF DecodeBatch
<1> DEFINE chunks == [i \in DOMAIN rows |-> 1]
<1>2. rows \in Seq(DecodeDue) /\ Len(rows) \in 1 .. MaxRows /\ DOMAIN rows = 1 .. Len(rows)
      /\ \A i, j \in 1 .. Len(rows) : rows[i] = rows[j] => i = j
  BY RowsFacts
<1>3. \A i \in 1 .. Len(rows) : rows[i] \in DecodeDue
  BY <1>2, ElementOfSeq
<1>4. rows \in Seq(Live)
  BY <1>2, <1>3, SeqDef DEF DecodeDue
<1>5. chunks \in Seq(Nat) /\ Len(chunks) = Len(rows) /\ \A i \in 1 .. Len(rows) : chunks[i] = 1
  BY <1>2, SeqDef
<1>6. mode = "server" /\ UNCHANGED <<lane, slab>>
  BY DEF DecodeBatch
<1>7. ASSUME NEW i \in 1 .. Len(rows)
      PROVE  cursor[rows[i]] = prompt[rows[i]] /\ Generated(rows[i]) < budget[rows[i]]
  <2>1. rows[i] \in Sessions /\ ~IsComplete(rows[i]) /\ PrefillComplete(rows[i])
    BY <1>3 DEF DecodeDue, Live
  <2>2. Generated(rows[i]) <= budget[rows[i]] /\ budget[rows[i]] \in Nat
    BY <2>1 DEF IInv, Types, OwnExact
  <2>3. Generated(rows[i]) \in Nat
    BY <2>1, LenProperties DEF IInv, Types, Generated
  <2> QED
    BY <2>1, <2>2, <2>3 DEF IsComplete, PrefillComplete
<1>8. PICK reuse \in BOOLEAN : reuse = MatchesMembers(rows)
  BY DEF MatchesMembers
<1>10. reuse => lane.members = rows
  BY <1>8 DEF MatchesMembers
<1> HIDE DEF chunks
<1>9. Begin("Decode", rows, chunks, reuse, "reserve")
  BY <1>1, <1>8, Zenon DEF chunks
<1>11. Begun("Decode", rows, chunks, reuse)
  BY <1>2, <1>4, <1>5, <1>6, <1>7, <1>9, <1>10 DEF Begun
<1> QED
  BY <1>11, BeginInv

\* In the diagnostic command a session that is to be prefilled has no lane.
LEMMA PrefillStepInv ==
  ASSUME IInv, PrefillStep PROVE IInv'
<1>1. PICK s \in PrefillDue : Begin("Prefill", <<s>>, <<prompt[s]>>, FALSE, "reserve")
  BY DEF PrefillStep
<1>2. mode = "cli" /\ UNCHANGED <<lane, slab>> /\ pc = "idle" /\ doomed = {}
  BY <1>1 DEF PrefillStep, Begin
<1>3. s \in Live /\ s \in Sessions /\ ~IsComplete(s) /\ ~PrefillComplete(s)
  BY DEF PrefillDue, Live
<1>4. cursor[s] \in Nat /\ prompt[s] \in Nat /\ budget[s] \in Nat /\ cursor[s] <= prompt[s]
  BY <1>3 DEF IInv, Types, OwnExact
<1>5. cursor[s] = 0 /\ cursor[s] < prompt[s]
  BY <1>2, <1>3, <1>4 DEF IInv, CliExact, PrefillComplete
<1>6. Generated(s) = 0 /\ budget[s] > 0
  BY <1>2, <1>3, <1>4, <1>5 DEF IInv, InStep, IsComplete
<1>7. lane' = NoLane
  <2>1. DOMAIN lane.members = {}
    <3> SUFFICES ASSUME NEW i \in DOMAIN lane.members PROVE FALSE
      OBVIOUS
    <3>1. lane.members[i] \in Live /\ cursor[lane.members[i]] = prompt[lane.members[i]]
      BY <1>2 DEF IInv, LaneExact
    <3> QED
      BY <3>1, <1>2, <1>3, <1>5 DEF IInv, CliExact
  <2>2. lane.members = << >> /\ lane.position = << >>
    BY <2>1, Shapes DEF IInv, LaneExact
  <2>3. ~lane.prefix
    BY <2>2 DEF IInv, PrefixExact
  <2>4. lane \in [members : Seq(Sessions), position : Seq(Nat), prefix : BOOLEAN]
    BY DEF IInv, Types
  <2> QED
    BY <1>2, <2>2, <2>3, <2>4 DEF NoLane
<1>8. MaxRows \in Nat /\ 1 \in 1 .. MaxRows
  BY GeneratorAssumption
<1> DEFINE rows == <<s>>
           chunks == <<prompt[s]>>
<1>9. /\ rows \in Seq(Live) /\ Len(rows) = 1 /\ rows[1] = s
      /\ chunks \in Seq(Nat) /\ Len(chunks) = 1 /\ chunks[1] = prompt[s]
  BY <1>3, <1>4
<1>10. Begin("Prefill", rows, chunks, FALSE, "reserve")
  BY <1>1
<1> HIDE DEF rows, chunks
<1>11. /\ Len(rows) \in 1 .. MaxRows /\ Len(chunks) = Len(rows)
       /\ \A i, j \in 1 .. Len(rows) : rows[i] = rows[j] => i = j
  BY <1>8, <1>9
<1>12. \A i \in 1 .. Len(rows) :
         chunks[i] > 0 /\ cursor[rows[i]] + chunks[i] <= prompt[rows[i]]
         /\ Generated(rows[i]) = 0 /\ budget[rows[i]] > 0
  BY <1>4, <1>5, <1>6, <1>9
<1>13. Begun("Prefill", rows, chunks, FALSE)
  BY <1>2, <1>7, <1>9, <1>10, <1>11, <1>12 DEF Begun
<1> QED
  BY <1>13, BeginInv

LEMMA DecodeStepInv ==
  ASSUME IInv, DecodeStep PROVE IInv'
<1>1. PICK s \in DecodeDue : Begin("Decode", <<s>>, <<1>>, TRUE, "reserve")
  BY DEF DecodeStep
<1>2. mode = "cli" /\ UNCHANGED <<lane, slab>> /\ pc = "idle" /\ doomed = {}
  BY <1>1 DEF DecodeStep, Begin
<1>3. s \in Live /\ s \in Sessions /\ ~IsComplete(s) /\ PrefillComplete(s)
  BY DEF DecodeDue, Live
<1>4. Generated(s) <= budget[s] /\ budget[s] \in Nat
  BY <1>3 DEF IInv, Types, OwnExact
<1>5. Generated(s) \in Nat
  BY <1>3, LenProperties DEF IInv, Types, Generated
<1>6. cursor[s] = prompt[s] /\ Generated(s) < budget[s]
  BY <1>3, <1>4, <1>5 DEF IsComplete, PrefillComplete
<1>7. lane.members = <<s>>
  BY <1>2, <1>3 DEF IInv, CliExact
<1>8. MaxRows \in Nat /\ 1 \in 1 .. MaxRows
  BY GeneratorAssumption
<1> DEFINE rows == <<s>>
           chunks == <<1>>
<1>9. /\ rows \in Seq(Live) /\ Len(rows) = 1 /\ rows[1] = s
      /\ chunks \in Seq(Nat) /\ Len(chunks) = 1 /\ chunks[1] = 1
  BY <1>3
<1>14. lane.members = rows
  BY <1>7
<1> HIDE DEF rows, chunks
<1>10. Begin("Decode", rows, chunks, TRUE, "reserve")
  BY <1>1 DEF rows, chunks
<1>11. /\ Len(rows) \in 1 .. MaxRows /\ Len(chunks) = Len(rows)
       /\ \A i, j \in 1 .. Len(rows) : rows[i] = rows[j] => i = j
  BY <1>8, <1>9
<1>12. \A i \in 1 .. Len(rows) :
         chunks[i] = 1 /\ cursor[rows[i]] = prompt[rows[i]] /\ Generated(rows[i]) < budget[rows[i]]
  BY <1>6, <1>9
<1>13. Begun("Decode", rows, chunks, TRUE)
  <2>1. \A i \in 1 .. Len(rows) : chunks[i] > 0
    BY <1>12
  <2>2. lane' = lane /\ slab' = slab
    BY <1>2
  <2> QED
    BY <2>1, <2>2, <1>2, <1>9, <1>10, <1>11, <1>12, <1>14, Zenon DEF Begun
<1> QED
  BY <1>13, BeginInv

\* The row that is next has no place appended yet, and what it wants was reserved
\* when it was admitted.
LEMMA ReserveFits ==
  ASSUME IInv, pc = "reserve"
  PROVE  /\ at \in 1 .. Len(call.rows) /\ Row \in Live /\ Row \in Sessions
         /\ \A j \in 1 .. Len(call.rows) : call.rows[j] = Row => j = at
         /\ Row \notin Busy
         /\ Wanted(Row) = IF call.kind = "Prefill" THEN committed[Row] + call.chunks[at] ELSE Required(Row)
         /\ Wanted(Row) \in Nat
         /\ tentative[Row] <= Wanted(Row) /\ Wanted(Row) <= capacity[Row]
<1> USE DEF IInv
<1>1. at \in 1 .. Len(call.rows) /\ DOMAIN call.rows = 1 .. Len(call.rows) /\ Len(call.rows) \in Nat
      /\ Len(call.chunks) = Len(call.rows) /\ call.chunks[at] \in Nat /\ call.chunks[at] > 0
  BY Shapes DEF AtExact, CallExact
<1>2. Row \in Live /\ Row \in Sessions /\ doomed = {}
  BY <1>1 DEF CallExact, Row, Live
<1>3. \A j \in 1 .. Len(call.rows) : call.rows[j] = Row => j = at
  BY <1>1 DEF CallExact, Row
<1>4. Uncommitted = 1 .. Len(call.rows) /\ Appended = 1 .. at - 1 /\ Busy = {call.rows[j] : j \in 1 .. at - 1}
  BY DEF Uncommitted, Appended, Busy
<1>5. Row \notin Busy
  BY <1>1, <1>3, <1>4
<1>6. /\ prompt[Row] \in Nat /\ budget[Row] \in Nat /\ cursor[Row] \in Nat /\ capacity[Row] \in Nat
      /\ committed[Row] \in Nat /\ tentative[Row] \in Nat /\ Generated(Row) \in Nat
      /\ committed[Row] <= tentative[Row]
  BY <1>2, LenProperties DEF Types, OwnExact, Generated
<1>7. /\ committed[Row] = cursor[Row] + (IF Generated(Row) = 0 THEN 0 ELSE Generated(Row) - 1)
      /\ mode = "server" \/ budget[Row] > 0 => prompt[Row] + budget[Row] <= capacity[Row]
      /\ tentative[Row] <= committed[Row] + 1
      /\ Generated(Row) = 0 => tentative[Row] = committed[Row]
      /\ cursor[Row] = prompt[Row] => Generated(Row) # 0
  BY <1>2, <1>5, <1>6 DEF InStep
<1>8. CASE call.kind = "Prefill"
  <2>1. cursor[Row] + call.chunks[at] <= prompt[Row] /\ Generated(Row) = 0 /\ budget[Row] > 0
    BY <1>1, <1>4, <1>8 DEF RowsDue, Row
  <2> QED
    BY <2>1, <1>1, <1>2, <1>3, <1>5, <1>6, <1>7, <1>8, SMTT(60) DEF Wanted
<1>9. CASE call.kind = "Decode"
  <2>1. cursor[Row] = prompt[Row] /\ Generated(Row) < budget[Row]
    BY <1>1, <1>4, <1>9 DEF RowsDue, Row
  <2>2. Required(Row) \in {committed[Row] + 1, committed[Row] + 2}
    BY DEF Required
  <2>3. Required(Row) = committed[Row] + 2 => mode = "server" \/ Generated(Row) + 1 < budget[Row]
    BY <1>6 DEF Required, WantsLookahead
  <2>4. mode = "server" => Required(Row) <= prompt[Row] + budget[Row]
    BY <2>1, <2>2, <1>6, <1>7
  <2>5. tentative[Row] <= Required(Row) /\ Required(Row) <= capacity[Row] /\ Required(Row) \in Nat
    BY <2>1, <2>2, <2>4, <1>6, <1>7
  <2>6. Wanted(Row) = Required(Row)
    BY <2>5, <1>6, <1>9 DEF Wanted
  <2> QED
    BY <2>5, <2>6, <1>1, <1>2, <1>3, <1>5, <1>9
<1> QED
  BY <1>8, <1>9 DEF CallExact, Types, Calls

LEMMA ReserveRowInv ==
  ASSUME IInv, ReserveRow PROVE IInv'
<1> USE DEF IInv
<1> DEFINE n == Len(call.rows)
           W == Wanted(Row)
           r == Row
<1>1. pc = "reserve"
  BY DEF ReserveRow
<1>2. /\ at \in 1 .. n /\ n \in Nat /\ r \in Live /\ r \in Sessions /\ r = call.rows[at]
      /\ \A j \in 1 .. n : call.rows[j] = r => j = at
      /\ r \notin Busy /\ W \in Nat /\ tentative[r] <= W /\ W <= capacity[r]
      /\ W = IF call.kind = "Prefill" THEN committed[r] + call.chunks[at] ELSE Required(r)
  BY <1>1, ReserveFits, Shapes DEF Row
<1>3. /\ UNCHANGED <<mode, status, prompt, budget, cursor, visible, stopped>>
      /\ UNCHANGED <<capacity, committed, unclaimed, lane, result, doomed, home, slab, written>>
      /\ call' = [call EXCEPT !.saved = Append(@, tentative[r])]
      /\ tentative' = [tentative EXCEPT ![r] = W]
      /\ IF at = n THEN pc' = "bind" /\ at' = 0 ELSE pc' = "reserve" /\ at' = at + 1
  BY <1>2 DEF ReserveRow, sessions, device, LastRow
<1> HIDE DEF W, r
<1>4. Live' = Live
  BY <1>3 DEF Live
<1>5. /\ call'.kind = call.kind /\ call'.rows = call.rows /\ call'.chunks = call.chunks
      /\ call'.reuse = call.reuse /\ call'.saved = Append(call.saved, tentative[r])
      /\ call' \in Calls /\ call.saved \in Seq(Nat)
  <2>1. call \in Calls /\ call.saved \in Seq(Nat) /\ tentative[r] \in Nat
    BY <1>2 DEF Types, Calls
  <2>2. Append(call.saved, tentative[r]) \in Seq(Nat)
    BY <2>1, AppendProperties
  <2> QED
    BY <2>1, <2>2, <1>3 DEF Calls
<1>6. Len(call.saved) = at - 1 /\ Len(call'.saved) = at /\ doomed = {}
      /\ DOMAIN call'.saved = 1 .. at /\ call'.saved[at] = tentative[r]
      /\ \A j \in 1 .. at - 1 : call'.saved[j] = call.saved[j]
  <2>1. Len(call.saved) = at - 1 /\ doomed = {}
    BY <1>1 DEF CallExact
  <2>2. tentative[r] \in Nat
    BY <1>2 DEF Types
  <2>3. Len(call'.saved) = at /\ DOMAIN call'.saved = 1 .. at /\ call'.saved[at] = tentative[r]
        /\ \A j \in 1 .. at - 1 : call'.saved[j] = call.saved[j]
    BY <2>1, <2>2, <1>2, <1>5, AppendProperties, LenProperties
  <2> QED
    BY <2>1, <2>3
<1>7. \A s \in Sessions : s # r => tentative'[s] = tentative[s]
  BY <1>3 DEF Types
<1>8. tentative'[r] = W /\ tentative' \in [Sessions -> Nat]
  BY <1>2, <1>3 DEF Types
<1>9. Types'
  <2>1. pc' \in Steps /\ at' \in Nat
    BY <1>2, <1>3 DEF Steps
  <2> QED
    BY <2>1, <1>3, <1>4, <1>5, <1>8 DEF Types
<1>10. /\ Uncommitted = 1 .. n /\ Appended = 1 .. at - 1 /\ Uncommitted' = 1 .. n /\ Appended' = 1 .. at
       /\ Busy = {call.rows[j] : j \in 1 .. at - 1} /\ Busy' = {call.rows[j] : j \in 1 .. at}
  BY <1>1, <1>2, <1>3, <1>5 DEF Uncommitted, Appended, Busy
<1>11. Busy' = Busy \cup {r}
  BY <1>2, <1>10
<1>12. OwnExact'
  <2>1. \A s \in Sessions : committed[s] <= tentative'[s] /\ tentative'[s] <= capacity[s]
    <3> TAKE s \in Sessions
    <3>1. CASE s = r
      BY <3>1, <1>2, <1>8, SMTT(60) DEF OwnExact, Types
    <3>2. CASE s # r
      BY <3>2, <1>7 DEF OwnExact
    <3> QED
      BY <3>1, <3>2
  <2>2. \A s \in Sessions : s \notin Live => tentative'[s] = 0
    BY <1>2, <1>7 DEF OwnExact
  <2> QED
    BY <2>1, <2>2, <1>3, <1>4 DEF OwnExact, Generated
<1>13. InStep'
  BY <1>3, <1>4, <1>7, <1>11 DEF InStep, Generated, Live
<1>14. AtExact'
  BY <1>2, <1>3, <1>5 DEF AtExact
<1>15. CallExact'
  BY <1>1, <1>2, <1>3, <1>4, <1>5, <1>6 DEF CallExact
<1>16. RowsDue'
  <2> SUFFICES ASSUME NEW j \in 1 .. n
               PROVE  LET s == call.rows[j] IN
                      /\ call.kind = "Prefill" =>
                           cursor[s] + call.chunks[j] <= prompt[s] /\ Generated(s) = 0 /\ budget[s] > 0
                      /\ call.kind = "Decode" =>
                           cursor[s] = prompt[s] /\ call.chunks[j] = 1 /\ Generated(s) < budget[s]
                      /\ j \in 1 .. at =>
                           tentative'[s] = IF call.kind = "Prefill" THEN committed[s] + call.chunks[j]
                                           ELSE Required(s)
    BY <1>3, <1>5, <1>10 DEF RowsDue, Generated, Required, WantsLookahead
  <2>1. CASE j = at
    BY <2>1, <1>1, <1>2, <1>8, <1>10 DEF RowsDue
  <2>2. CASE j # at
    <3>1. call.rows[j] # r /\ call.rows[j] \in Sessions
      BY <2>2, <1>2, Shapes
    <3>2. tentative'[call.rows[j]] = tentative[call.rows[j]]
      BY <3>1, <1>7
    <3> QED
      BY <2>2, <3>2, <1>1, <1>2, <1>10 DEF RowsDue
  <2> QED
    BY <2>1, <2>2
<1>17. Checkpoints'
  <2> SUFFICES ASSUME NEW j \in 1 .. at
               PROVE  committed[call.rows[j]] <= call'.saved[j] /\ call'.saved[j] <= tentative'[call.rows[j]]
    BY <1>3, <1>5, <1>6 DEF Checkpoints
  <2>1. CASE j = at
    BY <2>1, <1>2, <1>6, <1>8 DEF OwnExact
  <2>2. CASE j # at
    <3>1. call.rows[j] # r /\ call.rows[j] \in Sessions
      BY <2>2, <1>2, Shapes
    <3>2. tentative'[call.rows[j]] = tentative[call.rows[j]]
      BY <3>1, <1>7
    <3>3. j \in DOMAIN call.saved
      BY <2>2, <1>2, <1>6, Shapes
    <3> QED
      BY <2>2, <3>2, <3>3, <1>1, <1>2, <1>6 DEF Checkpoints
  <2> QED
    BY <2>1, <2>2
<1>18. LaneExact'
  <2>1. \A i \in DOMAIN lane.members : Ahead(i)' = Ahead(i)
    BY <1>1, <1>3 DEF Ahead
  <2> QED
    BY <2>1, <1>3, <1>4 DEF LaneExact
<1>19. PrefixExact' /\ LaneOfCall' /\ SlabExact'
  BY <1>1, <1>3, <1>5 DEF PrefixExact, LaneOfCall, SlabExact
<1>20. LaunchExact'
  BY <1>3 DEF LaunchExact
<1>21. CliExact'
  BY <1>1, <1>3, <1>4, <1>5 DEF CliExact
<1>22. Accounted'
  BY <1>3 DEF Accounted
<1> QED
  BY <1>9, <1>12, <1>13, <1>14, <1>15, <1>16, <1>17, <1>18, <1>19, <1>20, <1>21, <1>22

\* A row of the call that is not yet committed, by the kind of the call.
LEMMA DueFacts ==
  ASSUME IInv, pc \notin {"idle", "rollback"}, NEW j \in Uncommitted
  PROVE  LET s == call.rows[j] IN
         /\ j \in 1 .. Len(call.rows) /\ s \in Live /\ s \in Sessions
         /\ committed[s] \in Nat /\ cursor[s] \in Nat /\ prompt[s] \in Nat /\ budget[s] \in Nat
         /\ tentative[s] \in Nat /\ capacity[s] \in Nat /\ Generated(s) \in Nat
         /\ call.chunks[j] \in Nat /\ call.chunks[j] > 0
         /\ call.kind \in {"Prefill", "Decode"}
         /\ call.kind = "Prefill" =>
              cursor[s] + call.chunks[j] <= prompt[s] /\ Generated(s) = 0 /\ committed[s] = cursor[s]
         /\ call.kind = "Decode" =>
              /\ cursor[s] = prompt[s] /\ call.chunks[j] = 1 /\ Generated(s) < budget[s]
              /\ Generated(s) > 0 /\ committed[s] = DecodePosition(s)
<1> USE DEF IInv
<1> DEFINE s == call.rows[j]
<1>1. j \in 1 .. Len(call.rows)
  BY Shapes DEF Uncommitted, AtExact
<1>2. /\ s \in Live /\ s \in Sessions /\ doomed = {}
      /\ call.chunks[j] \in Nat /\ call.chunks[j] > 0 /\ call.kind \in {"Prefill", "Decode"}
  BY <1>1, Shapes DEF CallExact, Types, Calls
<1>3. /\ committed[s] \in Nat /\ cursor[s] \in Nat /\ prompt[s] \in Nat /\ budget[s] \in Nat
      /\ tentative[s] \in Nat /\ capacity[s] \in Nat /\ Generated(s) \in Nat
  BY <1>2, LenProperties DEF Types, Generated
<1>4. /\ call.kind = "Prefill" => cursor[s] + call.chunks[j] <= prompt[s] /\ Generated(s) = 0
      /\ call.kind = "Decode" => cursor[s] = prompt[s] /\ call.chunks[j] = 1 /\ Generated(s) < budget[s]
  BY DEF RowsDue
<1>5. /\ (Generated(s) = 0) <=> (cursor[s] < prompt[s])
      /\ committed[s] = cursor[s] + (IF Generated(s) = 0 THEN 0 ELSE Generated(s) - 1)
  BY <1>2 DEF InStep
<1> HIDE DEF s
<1>6. call.kind = "Decode" => Generated(s) > 0 /\ committed[s] = DecodePosition(s)
  BY <1>3, <1>4, <1>5 DEF DecodePosition
<1> QED
  BY <1>1, <1>2, <1>3, <1>4, <1>5, <1>6 DEF s

\* What is committed fits the pages of the device.
LEMMA Bounds ==
  ASSUME IInv, NEW s \in Sessions
  PROVE  /\ NumPages * PageSize \in Nat
         /\ committed[s] \in Nat /\ tentative[s] \in Nat /\ capacity[s] \in Nat
         /\ committed[s] <= tentative[s] /\ tentative[s] <= capacity[s]
         /\ capacity[s] <= NumPages * PageSize
         /\ committed[s] <= NumPages * PageSize /\ tentative[s] <= NumPages * PageSize
<1>1. NumPages * PageSize \in Nat
  BY GeneratorAssumption, Multiples
<1>2. capacity[s] <= NumPages * PageSize
  BY AccountBounds DEF IInv
<1>3. /\ committed[s] \in Nat /\ tentative[s] \in Nat /\ capacity[s] \in Nat
      /\ committed[s] <= tentative[s] /\ tentative[s] <= capacity[s]
  BY DEF IInv, Types, OwnExact
<1> DEFINE b == NumPages * PageSize
<1> HIDE DEF b
<1>4. committed[s] <= b /\ tentative[s] <= b
  BY <1>1, <1>2, <1>3 DEF b
<1> QED
  BY <1>1, <1>2, <1>3, <1>4 DEF b

LEMMA BindInv ==
  ASSUME IInv, Bind PROVE IInv'
<1> USE DEF IInv
<1> DEFINE n == Len(call.rows)
<1>1. /\ pc = "bind" /\ pc' = "launch" /\ at' = FirstComponent
      /\ UNCHANGED <<mode, status, prompt, budget, cursor, visible, stopped>>
      /\ UNCHANGED <<capacity, committed, tentative, unclaimed, call, result, doomed, home, written>>
  BY DEF Bind, sessions, pages
<1>2. Live' = Live
  BY <1>1 DEF Live
<1>3. /\ n \in Nat /\ n \in 1 .. MaxRows /\ DOMAIN call.rows = 1 .. n /\ doomed = {}
      /\ call.kind \in {"Prefill", "Decode"} /\ call.reuse \in BOOLEAN
      /\ call.rows \in Seq(Sessions) /\ \A i \in 1 .. n : call.rows[i] \in Live
  BY <1>1, Shapes DEF CallExact, Types, Calls
<1>4. Uncommitted = 1 .. n /\ Appended = 1 .. n /\ Busy' = Busy /\ Uncommitted' = 1 .. n /\ Appended' = 1 .. n
  BY <1>1 DEF Uncommitted, Appended, Busy
<1>5. \A j \in 1 .. n : call.kind = "Decode" => 
        LET s == call.rows[j] IN
          /\ s \in Sessions /\ cursor[s] = prompt[s] /\ call.chunks[j] = 1
          /\ committed[s] = DecodePosition(s) /\ committed[s] \in Nat
  BY <1>1, <1>4, DueFacts
<1>6. \/ /\ mode = "server" /\ call.kind = "Decode" /\ ~call.reuse
         /\ lane' = FreshLane(call.rows)
      \/ /\ call.kind = "Decode" /\ call.reuse /\ lane.members = call.rows
         /\ lane' = [lane EXCEPT !.prefix = FALSE]
      \/ call.kind = "Prefill" /\ ~call.reuse /\ lane = NoLane /\ lane' = NoLane
  <2>1. CASE mode = "server" /\ call.kind = "Decode" /\ ~call.reuse
    BY <2>1 DEF Bind
  <2>2. CASE call.kind = "Decode" /\ call.reuse
    BY <2>2, <1>1 DEF Bind, LaneOfCall
  <2>3. CASE call.kind = "Decode" /\ mode = "cli"
    BY <2>3, <2>2, <1>1 DEF CallExact
  <2>4. CASE call.kind = "Prefill"
    <3>1. lane = NoLane /\ ~call.reuse
      BY <2>4, <1>1 DEF LaneOfCall, CallExact
    <3>2. lane' = [lane EXCEPT !.prefix = FALSE]
      BY <2>4 DEF Bind
    <3> QED
      BY <2>4, <3>1, <3>2 DEF NoLane
  <2> QED
    BY <2>1, <2>2, <2>3, <2>4, <1>3 DEF Types
<1>7. FreshLane(call.rows).members = call.rows /\ Len(FreshLane(call.rows).position) = n
      /\ (\A i \in 1 .. n : FreshLane(call.rows).position[i] = DecodePosition(call.rows[i]))
      /\ FreshLane(call.rows).prefix = FALSE /\ DOMAIN FreshLane(call.rows).position = 1 .. n
  BY <1>3, LenProperties DEF FreshLane
<1>8. call.kind = "Decode" => FreshLane(call.rows) \in [members : Seq(Sessions), position : Seq(Nat), prefix : BOOLEAN]
  <2> SUFFICES ASSUME call.kind = "Decode"
               PROVE  FreshLane(call.rows) \in [members : Seq(Sessions), position : Seq(Nat), prefix : BOOLEAN]
    OBVIOUS
  <2>1. \A i \in 1 .. n : DecodePosition(call.rows[i]) \in Nat
    BY <1>5
  <2>2. [i \in 1 .. n |-> DecodePosition(call.rows[i])] \in Seq(Nat)
    BY <2>1, <1>3, SeqDef
  <2> QED
    BY <2>2, <1>3 DEF FreshLane
<1>9. /\ lane' \in [members : Seq(Sessions), position : Seq(Nat), prefix : BOOLEAN] /\ lane'.prefix = FALSE
      /\ call.kind = "Decode" => lane'.members = call.rows
      /\ call.kind = "Prefill" => lane' = NoLane
  <2>1. lane \in [members : Seq(Sessions), position : Seq(Nat), prefix : BOOLEAN]
    BY DEF Types
  <2>2. CASE lane' = FreshLane(call.rows) /\ call.kind = "Decode"
    BY <2>2, <1>7, <1>8
  <2>3. CASE call.kind = "Decode" /\ lane.members = call.rows /\ lane' = [lane EXCEPT !.prefix = FALSE]
    BY <2>1, <2>3
  <2>4. CASE call.kind = "Prefill" /\ lane' = NoLane /\ lane = NoLane
    BY <2>1, <2>4 DEF NoLane
  <2> QED
    BY <1>6, <2>2, <2>3, <2>4
<1>10. slab' \in [lane : BOOLEAN, call : BOOLEAN, slots : {{}}]
       /\ (mode = "server" => slab'.call = TRUE /\ slab'.lane = FALSE)
       /\ (mode = "cli" => slab' = NoSlab)
  <2>1. slab \in [lane : BOOLEAN, call : BOOLEAN, slots : {{}}] /\ mode \in {"server", "cli"}
    BY DEF Types
  <2>2. slab.slots = {}
    BY <2>1
  <2>3. CASE mode = "server"
    <3>1. slab' = [lane |-> FALSE, call |-> TRUE, slots |-> {}]
      BY <2>2, <2>3 DEF Bind
    <3> QED
      BY <2>3, <3>1
  <2>4. CASE mode = "cli"
    BY <2>1, <2>4 DEF Bind, SlabExact
  <2> QED
    BY <2>1, <2>3, <2>4
<1>11. /\ at' \in {0, LookaheadGroups + 1}
       /\ LookaheadGroups \in 1 .. Groups - 1 /\ Groups \in Nat /\ at' \in Nat /\ at' <= Groups
       /\ at' # 0 => lane.prefix /\ call.reuse
  BY <1>1, CachesAssumption DEF FirstComponent, Embedding
<1>12. Types'
  BY <1>1, <1>2, <1>9, <1>10, <1>11 DEF Types, Steps
<1>13. OwnExact' /\ InStep'
  BY <1>1, <1>2, <1>4 DEF OwnExact, InStep, Generated
<1>14. AtExact' /\ CallExact' /\ Checkpoints'
  BY <1>1, <1>2, <1>11 DEF AtExact, CallExact, Checkpoints
<1>15. RowsDue'
  BY <1>1, <1>4 DEF RowsDue, Generated, Required, WantsLookahead
<1>16. LaneExact'
  <2>1. \A i \in DOMAIN lane.members : Ahead(i) = 0
    BY <1>1 DEF Ahead
  <2>2. \A i : Ahead(i)' = 0
    BY <1>1 DEF Ahead
  <2>3. CASE lane' = FreshLane(call.rows) /\ call.kind = "Decode"
    <3>1. \A i \in 1 .. n : lane'.position[i] = committed[call.rows[i]]
            /\ lane'.position[i] <= NumPages * PageSize /\ committed[call.rows[i]] \in Nat
            /\ cursor[call.rows[i]] = prompt[call.rows[i]]
      BY <2>3, <1>5, <1>7, Bounds
    <3> QED
      BY <2>2, <2>3, <3>1, <1>1, <1>2, <1>3, <1>7 DEF LaneExact
  <2>4. CASE lane' = [lane EXCEPT !.prefix = FALSE]
    <3>1. lane'.members = lane.members /\ lane'.position = lane.position
      BY <2>4 DEF Types
    <3> QED
      BY <2>1, <2>2, <3>1, <1>1, <1>2 DEF LaneExact
  <2>5. CASE lane' = NoLane /\ lane = NoLane
    BY <2>1, <2>2, <2>5, <1>1, <1>2 DEF LaneExact
  <2> QED
    BY <1>6, <2>3, <2>4, <2>5
<1>17. PrefixExact' /\ LaneOfCall'
  BY <1>1, <1>9 DEF PrefixExact, LaneOfCall
<1>18. SlabExact'
  BY <1>1, <1>10 DEF SlabExact
<1>19. LaunchExact'
  <2> SUFFICES ASSUME NEW j \in 1 .. n, NEW g \in 1 .. Groups, g < at'
               PROVE  InPlace(j, g)
    BY <1>1, <1>3 DEF LaunchExact, InPlace
  <2>1. g \in 1 .. LookaheadGroups /\ lane.prefix /\ call.reuse
    BY <1>11
  <2>2. call.kind = "Decode" /\ lane.members = call.rows
    BY <2>1, <1>6
  <2>3. g \in home /\ lane.position[j] \in written[call.rows[j]][g]
    BY <2>1, <2>2, <1>3 DEF PrefixExact
  <2>4. lane.position[j] = committed[call.rows[j]] + Ahead(j)
    BY <2>2, <1>3 DEF LaneExact
  <2>5. Ahead(j) = 0
    BY <1>1 DEF Ahead
  <2>6. committed[call.rows[j]] \in Nat /\ call.chunks[j] = 1
    BY <2>2, <1>5
  <2> QED
    BY <2>3, <2>4, <2>5, <2>6 DEF InPlace
<1>20. CliExact'
  BY <1>1, <1>2 DEF CliExact
<1>21. Accounted'
  BY <1>1 DEF Accounted
<1> QED
  BY <1>12, <1>13, <1>14, <1>15, <1>16, <1>17, <1>18, <1>19, <1>20, <1>21

\* What the device computes on: the rows of the call, each behind its committed length.
LEMMA BatchFacts ==
  ASSUME IInv, pc \in {"launch", "prefix"}
  PROVE  /\ BatchRows = call.rows /\ Len(call.rows) \in Nat /\ Len(call.rows) > 0
         /\ DOMAIN call.rows = 1 .. Len(call.rows)
         /\ DOMAIN Spans = {call.rows[j] : j \in 1 .. Len(call.rows)}
         /\ call.kind = "Decode" => lane.members = call.rows
         /\ pc = "prefix" => call.kind = "Decode"
         /\ \A j \in 1 .. Len(call.rows) :
              LET s == call.rows[j] IN
              /\ s \in Live /\ s \in Sessions /\ committed[s] \in Nat
              /\ call.chunks[j] \in Nat /\ call.chunks[j] > 0
              /\ Span(j).from = committed[s] + (IF pc = "prefix" THEN 1 ELSE 0)
              /\ Span(j).to = Span(j).from + call.chunks[j] - 1
              /\ Spans[s] = Span(j)
              /\ call.kind = "Decode" => call.chunks[j] = 1 /\ lane.position[j] = Span(j).from
<1> USE DEF IInv
<1> DEFINE n == Len(call.rows)
<1>1. /\ n \in Nat /\ n > 0 /\ DOMAIN call.rows = 1 .. n /\ call.kind \in {"Prefill", "Decode"}
      /\ doomed = {} /\ (pc = "prefix" => call.kind = "Decode")
      /\ \A i, j \in 1 .. n : call.rows[i] = call.rows[j] => i = j
  <2>1. n \in Nat /\ DOMAIN call.rows = 1 .. n /\ call.kind \in {"None", "Prefill", "Decode"}
    BY Shapes DEF Types, Calls
  <2> QED
    BY <2>1 DEF CallExact
<1>2. call.kind = "Decode" => lane.members = call.rows
  BY DEF LaneOfCall
<1>3. BatchRows = call.rows
  BY <1>1, <1>2 DEF BatchRows
<1>4. Uncommitted = 1 .. n
  BY DEF Uncommitted
<1>5. ASSUME NEW j \in 1 .. n
      PROVE  LET s == call.rows[j] IN
              /\ s \in Live /\ s \in Sessions /\ committed[s] \in Nat
              /\ call.chunks[j] \in Nat /\ call.chunks[j] > 0
              /\ Span(j).from = committed[s] + (IF pc = "prefix" THEN 1 ELSE 0)
              /\ Span(j).to = Span(j).from + call.chunks[j] - 1
              /\ call.kind = "Decode" => call.chunks[j] = 1 /\ lane.position[j] = Span(j).from
  <2> DEFINE s == call.rows[j]
  <2>1. /\ s \in Live /\ s \in Sessions /\ committed[s] \in Nat
        /\ call.chunks[j] \in Nat /\ call.chunks[j] > 0
        /\ call.kind = "Prefill" => committed[s] = cursor[s]
        /\ call.kind = "Decode" => call.chunks[j] = 1
    BY <1>4, DueFacts
  <2>2. CASE call.kind = "Prefill"
    BY <2>1, <2>2, <1>1, <1>3 DEF Span
  <2>3. CASE call.kind = "Decode"
    <3>1. lane.position[j] = committed[s] + Ahead(j)
      BY <2>3, <1>1, <1>2 DEF LaneExact
    <3>2. Ahead(j) = IF pc = "prefix" THEN 1 ELSE 0
      BY DEF Ahead
    <3> QED
      BY <2>1, <2>3, <3>1, <3>2, <1>1, <1>3 DEF Span
  <2> QED
    BY <2>2, <2>3, <1>1
<1>6. DOMAIN Spans = {call.rows[j] : j \in 1 .. n}
  BY <1>1, <1>3 DEF Spans, Range
<1>7. ASSUME NEW j \in 1 .. n
      PROVE  Spans[call.rows[j]] = Span(j)
  <2> DEFINE k == CHOOSE i \in DOMAIN BatchRows : BatchRows[i] = call.rows[j]
  <2>1. k \in DOMAIN BatchRows /\ BatchRows[k] = call.rows[j]
    BY <1>1, <1>3
  <2>2. k = j
    BY <2>1, <1>1, <1>3
  <2>3. call.rows[j] \in Range(BatchRows)
    BY <1>1, <1>3 DEF Range
  <2>4. Spans[call.rows[j]] = Span(k)
    BY <2>3 DEF Spans
  <2> QED
    BY <2>2, <2>4
<1> QED
  BY <1>1, <1>2, <1>3, <1>5, <1>6, <1>7

\* A layer group writes the positions of its rows, and nothing that is there goes.
LEMMA GroupWrites ==
  ASSUME IInv, pc \in {"launch", "prefix"}, at \in 1 .. Groups, LaunchGroup(at, Spans)
  PROVE  /\ at \in home /\ home' = home /\ slab' = slab
         /\ written' \in [Sessions -> [1 .. Groups -> SUBSET Nat]]
         /\ \A s \in Sessions, g \in 1 .. Groups : written[s][g] \subseteq written'[s][g]
         /\ \A j \in 1 .. Len(call.rows) :
              Span(j).from .. Span(j).to \subseteq written'[call.rows[j]][at]
<1> USE DEF IInv
<1> DEFINE n == Len(call.rows)
<1>1. at \in home /\ home' = home /\ written' = Wrote(at, Spans)
  BY DEF LaunchGroup, CanTake
<1>2. slab' = slab
  <2>1. slab \in [lane : BOOLEAN, call : BOOLEAN, slots : {{}}]
    BY DEF Types
  <2>2. WithoutAlias(slab.slots \cup {at}, at) = slab.slots
    BY <2>1 DEF WithoutAlias
  <2> QED
    BY <2>1, <2>2 DEF LaunchGroup
<1>3. written \in [Sessions -> [1 .. Groups -> SUBSET Nat]] /\ Groups \in Nat
  BY CachesAssumption DEF Types
<1>4. ASSUME NEW j \in 1 .. n
      PROVE  LET s == call.rows[j] IN
             /\ s \in Sessions /\ s \in DOMAIN Spans /\ Spans[s] = Span(j)
             /\ Span(j).from \in Nat /\ Span(j).to \in Nat
             /\ Attended(s, at, Spans[s])
  <2> DEFINE s == call.rows[j]
             f == Span(j).from
  <2>1. /\ s \in Live /\ s \in Sessions /\ s \in DOMAIN Spans /\ committed[s] \in Nat /\ Spans[s] = Span(j)
        /\ f = committed[s] + (IF pc = "prefix" THEN 1 ELSE 0) /\ Span(j).to = f + call.chunks[j] - 1
        /\ call.chunks[j] \in Nat /\ call.chunks[j] > 0
        /\ call.kind = "Decode" => call.chunks[j] = 1 /\ lane.position[j] = f /\ lane.members = call.rows
        /\ pc = "prefix" => call.kind = "Decode"
        /\ DOMAIN call.rows = 1 .. n
    BY BatchFacts
  <2>2. 0 .. committed[s] - 1 \subseteq written[s][at]
    BY <2>1 DEF OwnExact
  <2>3. f \in Nat /\ Span(j).to \in Nat
    BY <2>1, SMTT(60)
  <2>4. CASE pc = "launch"
    <3>1. 0 .. f - 1 \subseteq written[s][at]
      BY <2>1, <2>2, <2>4
    <3>2. ASSUME at > 1 PROVE f .. Span(j).to \subseteq written[s][at - 1]
      <4>1. at - 1 \in 1 .. Groups /\ at - 1 < at
        BY <3>2, <1>3
      <4>2. InPlace(j, at - 1)
        BY <2>1, <2>4, <4>1 DEF LaunchExact
      <4> QED
        BY <4>2, <2>1, <2>4 DEF InPlace
    <3> QED
      BY <2>1, <2>3, <3>1, <3>2 DEF Attended
  <2>5. CASE pc = "prefix"
    <3>1. Uncommitted = 1 .. n
      BY <2>5 DEF Uncommitted
    <3>2. InPlace(j, at)
      BY <2>5, <3>1 DEF LaunchExact
    <3>3. f = committed[s] + 1 /\ Span(j).to = f /\ call.chunks[j] = 1
      BY <2>1, <2>5
    <3>4. committed[s] \in written[s][at]
      BY <2>1, <3>2, <3>3 DEF InPlace
    <3>5. 0 .. f - 1 \subseteq written[s][at]
      BY <2>1, <2>2, <3>3, <3>4
    <3>6. ASSUME at > 1 PROVE f .. Span(j).to \subseteq written[s][at - 1]
      <4>1. at - 1 \in 1 .. Groups /\ at - 1 < at
        BY <3>6, <1>3
      <4>2. lane.position[j] \in written[s][at - 1]
        BY <2>1, <2>5, <4>1 DEF LaunchExact
      <4> QED
        BY <4>2, <2>1, <2>3, <2>5, <3>3
    <3> QED
      BY <2>1, <2>3, <3>5, <3>6 DEF Attended
  <2> QED
    BY <2>1, <2>3, <2>4, <2>5
<1>5. ASSUME NEW s \in Sessions
      PROVE  /\ written'[s] \in [1 .. Groups -> SUBSET Nat]
             /\ \A g \in 1 .. Groups : written[s][g] \subseteq written'[s][g]
             /\ s \in DOMAIN Spans => Spans[s].from .. Spans[s].to \subseteq written'[s][at]
  <2>1. CASE s \notin DOMAIN Spans
    BY <2>1, <1>1, <1>3 DEF Wrote
  <2>2. CASE s \in DOMAIN Spans
    <3>1. PICK j \in 1 .. n : s = call.rows[j]
      BY <2>2, BatchFacts
    <3>2. Attended(s, at, Spans[s]) /\ Spans[s].from .. Spans[s].to \subseteq Nat
      BY <3>1, <1>4
    <3>3. written'[s] = [written[s] EXCEPT ![at] = @ \cup (Spans[s].from .. Spans[s].to)]
      BY <2>2, <3>2, <1>1 DEF Wrote
    <3> QED
      BY <3>2, <3>3, <1>3
  <2> QED
    BY <2>1, <2>2
<1>6. written' \in [Sessions -> [1 .. Groups -> SUBSET Nat]]
  <2>1. written' = [s \in Sessions |-> written'[s]]
    BY <1>1 DEF Wrote
  <2> QED
    BY <2>1, <1>5
<1>7. \A j \in 1 .. n : Span(j).from .. Span(j).to \subseteq written'[call.rows[j]][at]
  BY <1>4, <1>5
<1> QED
  BY <1>1, <1>2, <1>5, <1>6, <1>7

LEMMA ComponentInv ==
  ASSUME IInv, Component PROVE IInv'
<1> USE DEF IInv
<1> DEFINE n == Len(call.rows)
<1>1. /\ pc \in {"launch", "prefix"}
      /\ UNCHANGED <<mode, status, prompt, budget, cursor, visible, stopped>>
      /\ UNCHANGED <<capacity, committed, tentative, unclaimed, call, result, doomed>>
      /\ at = 0 \/ at \in 1 .. Groups
      /\ \/ pc = "prefix" /\ at = LookaheadGroups /\ pc' = "download" /\ at' = 0
            /\ lane' = [lane EXCEPT !.prefix = TRUE]
         \/ ~(pc = "prefix" /\ at = LookaheadGroups) /\ pc' = pc /\ at' = at + 1 /\ lane' = lane
  BY DEF Component, sessions, pages, Embedding
<1>2. Live' = Live
  BY <1>1 DEF Live
<1>3. /\ BatchRows = call.rows /\ n \in Nat /\ n > 0 /\ DOMAIN call.rows = 1 .. n
      /\ call.kind = "Decode" => lane.members = call.rows
      /\ pc = "prefix" => call.kind = "Decode"
      /\ \A j \in 1 .. n :
           LET s == call.rows[j] IN
           /\ s \in Live /\ s \in Sessions /\ committed[s] \in Nat /\ call.chunks[j] \in Nat /\ call.chunks[j] > 0
           /\ Span(j).from = committed[s] + (IF pc = "prefix" THEN 1 ELSE 0)
           /\ Span(j).to = Span(j).from + call.chunks[j] - 1
           /\ call.kind = "Decode" => call.chunks[j] = 1 /\ lane.position[j] = Span(j).from
  BY <1>1, BatchFacts
<1>3a. ASSUME NEW i \in 1 .. n, call.kind = "Decode"
       PROVE  lane.position[i] \in Span(i).from .. Span(i).to
  <2>1. committed[call.rows[i]] \in Nat /\ call.chunks[i] = 1 /\ lane.position[i] = Span(i).from
    BY <1>3, <1>3a
  <2>2. Span(i).from = committed[call.rows[i]] + (IF pc = "prefix" THEN 1 ELSE 0)
    BY <1>3
  <2>3. Span(i).to = Span(i).from + call.chunks[i] - 1
    BY <1>3
  <2>4. Span(i).from \in Nat /\ Span(i).to = Span(i).from
    BY <2>1, <2>2, <2>3
  <2> QED
    BY <2>1, <2>4
<1>4. LookaheadGroups \in 1 .. Groups - 1 /\ Groups \in Nat
  BY CachesAssumption
<1>5. /\ home' = home /\ slab' = slab
      /\ written' \in [Sessions -> [1 .. Groups -> SUBSET Nat]]
      /\ \A s \in Sessions, g \in 1 .. Groups : written[s][g] \subseteq written'[s][g]
      /\ at \in 1 .. Groups =>
           /\ at \in home
           /\ \A j \in 1 .. n : Span(j).from .. Span(j).to \subseteq written'[call.rows[j]][at]
  <2>1. CASE at \in 1 .. Groups /\ LaunchGroup(at, Spans)
    BY <2>1, <1>1, GroupWrites
  <2>2. CASE at = 0 /\ LaunchEmbedding
    <3>1. slab \in [lane : BOOLEAN, call : BOOLEAN, slots : {{}}]
          /\ written \in [Sessions -> [1 .. Groups -> SUBSET Nat]]
      BY DEF Types
    <3>2. WithoutAlias(slab.slots \cup {0}, 0) = slab.slots
      BY <3>1 DEF WithoutAlias
    <3>3. slab' = slab
      BY <2>2, <3>1, <3>2 DEF LaunchEmbedding, Embedding
    <3> QED
      BY <2>2, <3>1, <3>3 DEF LaunchEmbedding
  <2> QED
    BY <2>1, <2>2 DEF Component, Embedding
<1>6. lane'.members = lane.members /\ lane'.position = lane.position
      /\ lane' \in [members : Seq(Sessions), position : Seq(Nat), prefix : BOOLEAN]
  <2>1. lane \in [members : Seq(Sessions), position : Seq(Nat), prefix : BOOLEAN]
    BY DEF Types
  <2> QED
    BY <2>1, <1>1
<1>7. at' \in Nat /\ pc' \in {"launch", "prefix", "download"}
  BY <1>1
<1>8. Types'
  BY <1>1, <1>2, <1>5, <1>6, <1>7 DEF Types, Steps
<1>9. Uncommitted = 1 .. n /\ Appended = 1 .. n /\ Uncommitted' = 1 .. n /\ Appended' = 1 .. n /\ Busy' = Busy
  BY <1>1 DEF Uncommitted, Appended, Busy
<1>10. OwnExact'
  <2>1. \A s \in Sessions, g \in 1 .. Groups : 0 .. committed[s] - 1 \subseteq written'[s][g]
    BY <1>5 DEF OwnExact
  <2> QED
    BY <2>1, <1>1, <1>2 DEF OwnExact, Generated
<1>11. InStep'
  BY <1>1, <1>2, <1>9 DEF InStep, Generated
<1>12. AtExact'
  BY <1>1, <1>4 DEF AtExact
<1>13. CallExact' /\ Checkpoints'
  BY <1>1, <1>2, <1>3 DEF CallExact, Checkpoints
<1>14. RowsDue'
  BY <1>1, <1>9 DEF RowsDue, Generated, Required, WantsLookahead
<1>15. LaneExact'
  <2>1. \A i \in DOMAIN lane.members : Ahead(i)' = Ahead(i)
    BY <1>1 DEF Ahead
  <2> QED
    BY <2>1, <1>1, <1>2, <1>6 DEF LaneExact
<1>16. LaunchExact'
  <2>1. \A j \in 1 .. n, g \in 1 .. Groups : InPlace(j, g) => InPlace(j, g)'
    BY <1>1, <1>3, <1>5 DEF InPlace
  <2>2. CASE pc = "launch"
    <3> SUFFICES ASSUME NEW j \in 1 .. n, NEW g \in 1 .. Groups, g < at + 1
                 PROVE  InPlace(j, g)'
      BY <2>2, <1>1, <1>3 DEF LaunchExact
    <3>1. CASE g < at
      BY <2>1, <2>2, <3>1, <1>3 DEF LaunchExact
    <3>2. CASE ~(g < at)
      <4>1. at = g /\ at \in 1 .. Groups
        BY <3>2, <1>1, <1>4
      <4>2. Span(j).from = committed[call.rows[j]] /\ Span(j).to = committed[call.rows[j]] + call.chunks[j] - 1
        BY <2>2, <1>3
      <4> QED
        BY <4>1, <4>2, <1>1, <1>5 DEF InPlace
    <3> QED
      BY <3>1, <3>2
  <2>3. CASE pc = "prefix"
    <3>1. /\ home' = 1 .. Groups
          /\ \A j \in 1 .. n, g \in 1 .. Groups : InPlace(j, g)'
          /\ DOMAIN result = DOMAIN call.rows
          /\ \A j \in 1 .. n :
               result[j] = [of |-> call.rows[j], index |-> committed[call.rows[j]] + call.chunks[j]]
      BY <2>1, <2>3, <1>5, <1>9 DEF LaunchExact
    <3>2. lane.members = call.rows
      BY <2>3, <1>3
    <3>3. ASSUME NEW i \in 1 .. n, NEW g \in 1 .. Groups, g < at + 1
          PROVE  lane.position[i] \in written'[call.rows[i]][g]
      <4>1. CASE g < at
        BY <2>3, <3>2, <4>1, <1>3, <1>5 DEF LaunchExact
      <4>2. CASE ~(g < at)
        <5>1. at = g /\ at \in 1 .. Groups
          BY <4>2, <3>3, <1>1, <1>4
        <5>2. lane.position[i] \in Span(i).from .. Span(i).to
          BY <2>3, <1>3, <1>3a
        <5> QED
          BY <5>1, <5>2, <1>5
      <4> QED
        BY <4>1, <4>2
    <3> QED
      BY <2>3, <3>1, <3>2, <3>3, <1>1, <1>3, <1>6, <1>9 DEF LaunchExact
  <2> QED
    BY <2>2, <2>3, <1>1
<1>17. PrefixExact'
  <2>1. CASE pc' = "download" /\ pc = "prefix" /\ at = LookaheadGroups
    <3>1. home' = 1 .. Groups /\ lane.members = call.rows /\ lane.members # << >>
      BY <2>1, <1>3, <1>5 DEF LaunchExact
    <3>2. ASSUME NEW i \in 1 .. n, NEW g \in 1 .. LookaheadGroups
          PROVE  lane.position[i] \in written'[call.rows[i]][g]
      <4>1. g \in 1 .. Groups /\ at \in 1 .. Groups /\ (g < at \/ g = at)
        BY <2>1, <1>4
      <4>2. CASE g < at
        BY <2>1, <3>1, <4>1, <4>2, <1>3, <1>5 DEF LaunchExact
      <4>3. CASE g = at
        <5>1. lane.position[i] \in Span(i).from .. Span(i).to
          BY <2>1, <1>3, <1>3a
        <5> QED
          BY <4>1, <4>3, <5>1, <1>5
      <4> QED
        BY <4>1, <4>2, <4>3
    <3>3. 1 .. LookaheadGroups \subseteq home'
      BY <3>1, <1>4
    <3> QED
      BY <2>1, <3>1, <3>2, <3>3, <1>3, <1>6 DEF PrefixExact
  <2>2. CASE pc' = pc /\ lane' = lane
    BY <2>2, <1>1 DEF PrefixExact
  <2> QED
    BY <2>1, <2>2, <1>1
<1>18. LaneOfCall'
  <2>1. call.kind = "Prefill" => pc # "prefix"
    BY <1>3
  <2> QED
    BY <2>1, <1>1, <1>6 DEF LaneOfCall
<1>19. SlabExact'
  BY <1>1, <1>5, <1>6 DEF SlabExact
<1>20. CliExact'
  BY <1>1, <1>2, <1>6 DEF CliExact, WantsLookahead, Generated, PrefillComplete
<1>21. Accounted'
  BY <1>1 DEF Accounted
<1> QED
  BY <1>8, <1>10, <1>11, <1>12, <1>13, <1>14, <1>15, <1>16, <1>17, <1>18, <1>19, <1>20, <1>21

\* The head samples every row from its own context: all of it is in place.
LEMMA HeadSamples ==
  ASSUME IInv, pc = "launch", at = ModelHead, result' = [i \in DOMAIN BatchRows |-> Token(i)]
  PROVE  /\ home = 1 .. Groups
         /\ DOMAIN result' = 1 .. Len(call.rows)
         /\ \A j \in 1 .. Len(call.rows) :
              /\ result'[j] = [of |-> call.rows[j], index |-> committed[call.rows[j]] + call.chunks[j]]
              /\ \A g \in 1 .. Groups : InPlace(j, g)
<1> USE DEF IInv
<1> DEFINE n == Len(call.rows)
<1>1. /\ BatchRows = call.rows /\ n \in Nat /\ n > 0 /\ DOMAIN call.rows = 1 .. n
      /\ \A j \in 1 .. n :
           LET s == call.rows[j] IN
           /\ s \in Live /\ s \in Sessions /\ committed[s] \in Nat /\ call.chunks[j] \in Nat /\ call.chunks[j] > 0
           /\ Span(j).from = committed[s]
           /\ Span(j).to = Span(j).from + call.chunks[j] - 1
  BY BatchFacts
<1>2. \A j \in 1 .. n, g \in 1 .. Groups : InPlace(j, g)
  BY <1>1, CachesAssumption, SMTT(60) DEF LaunchExact, ModelHead
<1>3. home = 1 .. Groups
  <2>1. 1 \in 1 .. n
    BY <1>1
  <2>2. \A g \in 1 .. Groups : g \in home
    BY <2>1, <1>2 DEF InPlace
  <2> QED
    BY <2>2 DEF Types
<1>4. ASSUME NEW j \in 1 .. n
      PROVE  Token(j) = [of |-> call.rows[j], index |-> committed[call.rows[j]] + call.chunks[j]]
  <2> DEFINE s == call.rows[j]
  <2>1. /\ s \in Sessions /\ committed[s] \in Nat /\ call.chunks[j] \in Nat
        /\ Span(j).to = committed[s] + call.chunks[j] - 1 /\ BatchRows[j] = s
    BY <1>1
  <2>2. \A g \in 1 .. Groups : 0 .. Span(j).to \subseteq written[s][g]
    <3> TAKE g \in 1 .. Groups
    <3>1. 0 .. committed[s] - 1 \subseteq written[s][g]
      BY <2>1 DEF OwnExact
    <3>2. committed[s] .. Span(j).to \subseteq written[s][g]
      BY <2>1, <1>2 DEF InPlace
    <3> QED
      BY <2>1, <3>1, <3>2
  <2>3. Sampled(s, Span(j).to)
    BY <2>2 DEF Sampled
  <2>4. Token(j) = [of |-> s, index |-> Span(j).to + 1]
    BY <2>1, <2>3 DEF Token
  <2>5. Span(j).to + 1 = committed[s] + call.chunks[j]
    BY <2>1
  <2> QED
    BY <2>4, <2>5
<1> QED
  BY <1>1, <1>2, <1>3, <1>4

LEMMA LaunchHeadInv ==
  ASSUME IInv, LaunchHead PROVE IInv'
<1> USE DEF IInv
<1> DEFINE n == Len(call.rows)
<1>1. /\ pc = "launch" /\ at = ModelHead /\ at' = 0
      /\ result' = [i \in DOMAIN BatchRows |-> Token(i)]
      /\ UNCHANGED <<mode, status, prompt, budget, cursor, visible, stopped>>
      /\ UNCHANGED <<capacity, committed, tentative, unclaimed, call, doomed, home, written>>
  BY DEF LaunchHead, sessions, pages
<1>2. Live' = Live
  BY <1>1 DEF Live
<1>3. /\ n \in Nat /\ n > 0 /\ DOMAIN call.rows = 1 .. n /\ doomed = {}
      /\ call.kind \in {"Prefill", "Decode"}
      /\ call.kind = "Decode" => lane.members = call.rows
      /\ \A j \in 1 .. n : call.rows[j] \in Live /\ call.rows[j] \in Sessions
  <2>1. call.kind \in {"Prefill", "Decode"} /\ doomed = {}
    BY <1>1 DEF CallExact, Types, Calls
  <2> QED
    BY <2>1, <1>1, BatchFacts
<1>4. /\ home = 1 .. Groups /\ DOMAIN result' = 1 .. n
      /\ \A j \in 1 .. n :
           /\ result'[j] = [of |-> call.rows[j], index |-> committed[call.rows[j]] + call.chunks[j]]
           /\ \A g \in 1 .. Groups : InPlace(j, g)
  BY <1>1, HeadSamples
<1>5. \/ /\ call.kind = "Decode"
         /\ lane' = [lane EXCEPT !.position = [i \in DOMAIN @ |-> @[i] + 1]]
         /\ slab' = IF mode = "server" THEN [lane |-> TRUE, call |-> FALSE, slots |-> {}] ELSE slab
         /\ pc' = IF mode = "server" \/ WantsLookahead(call.rows[1]) THEN "prefix" ELSE "download"
      \/ call.kind = "Prefill" /\ slab' = NoSlab /\ pc' = "download" /\ lane' = lane
  BY <1>3 DEF LaunchHead
<1>6. pc' \in {"prefix", "download"} /\ (pc' = "prefix" => call.kind = "Decode")
      /\ (pc' = "prefix" /\ mode = "cli" => WantsLookahead(call.rows[1]))
  BY <1>5
<1>7. lane \in [members : Seq(Sessions), position : Seq(Nat), prefix : BOOLEAN]
      /\ lane.position \in Seq(Nat) /\ Len(lane.position) = Len(lane.members)
      /\ Len(lane.position) \in Nat /\ DOMAIN lane.position = 1 .. Len(lane.position)
      /\ DOMAIN lane.members = 1 .. Len(lane.members)
      /\ \A i \in 1 .. Len(lane.position) : lane.position[i] \in Nat
  BY Shapes DEF Types, LaneExact
<1>8. /\ lane' \in [members : Seq(Sessions), position : Seq(Nat), prefix : BOOLEAN]
      /\ lane'.members = lane.members /\ lane'.prefix = lane.prefix /\ Len(lane'.position) = Len(lane.position)
      /\ call.kind = "Decode" => \A i \in DOMAIN lane.members : lane'.position[i] = lane.position[i] + 1
      /\ call.kind = "Prefill" => lane' = lane
  <2>1. CASE call.kind = "Decode"
    <3> DEFINE next == [i \in DOMAIN lane.position |-> lane.position[i] + 1]
    <3>1. next \in Seq(Nat) /\ Len(next) = Len(lane.position) /\ \A i \in 1 .. Len(lane.position) : next[i] = lane.position[i] + 1
      BY <1>7, SeqDef, LenProperties
    <3>2. lane' = [lane EXCEPT !.position = next]
      BY <2>1, <1>5
    <3> HIDE DEF next
    <3> QED
      BY <2>1, <3>1, <3>2, <1>7
  <2>2. CASE call.kind = "Prefill"
    BY <2>2, <1>5, <1>7
  <2> QED
    BY <2>1, <2>2, <1>3
<1>9. slab' \in [lane : BOOLEAN, call : BOOLEAN, slots : {{}}]
  <2>1. slab \in [lane : BOOLEAN, call : BOOLEAN, slots : {{}}]
    BY DEF Types
  <2>2. [lane |-> TRUE, call |-> FALSE, slots |-> {}] \in [lane : BOOLEAN, call : BOOLEAN, slots : {{}}]
    OBVIOUS
  <2> QED
    BY <2>1, <2>2, <1>5, WithoutLane
<1>10. Types'
  BY <1>1, <1>2, <1>6, <1>8, <1>9 DEF Types, Steps
<1>11. Uncommitted = 1 .. n /\ Appended = 1 .. n /\ Uncommitted' = 1 .. n /\ Appended' = 1 .. n /\ Busy' = Busy
  BY <1>1, <1>6 DEF Uncommitted, Appended, Busy
<1>12. OwnExact' /\ InStep'
  BY <1>1, <1>2, <1>11 DEF OwnExact, InStep, Generated
<1>13. AtExact'
  BY <1>1, <1>6, CachesAssumption DEF AtExact
<1>14. CallExact' /\ Checkpoints'
  BY <1>1, <1>2, <1>6 DEF CallExact, Checkpoints
<1>15. RowsDue'
  BY <1>1, <1>6, <1>11 DEF RowsDue, Generated, Required, WantsLookahead
<1>16. LaneExact'
  <2>1. CASE call.kind = "Decode"
    <3>1. ASSUME NEW i \in 1 .. n
          PROVE  /\ lane'.position[i] = committed[call.rows[i]] + 1
                 /\ lane'.position[i] <= NumPages * PageSize
                 /\ cursor[call.rows[i]] = prompt[call.rows[i]]
      <4> DEFINE s == call.rows[i]
      <4>1. s \in Sessions /\ cursor[s] = prompt[s] /\ committed[s] \in Nat /\ tentative[s] \in Nat
        BY <2>1, <1>1, <1>11, DueFacts
      <4>2. lane.position[i] = committed[s] + Ahead(i) /\ Ahead(i) = 0
        BY <2>1, <1>1, <1>3 DEF LaneExact, Ahead
      <4>3. lane'.position[i] = committed[s] + 1
        BY <2>1, <4>1, <4>2, <1>3, <1>8
      <4>4. tentative[s] = Required(s)
        BY <2>1, <1>1, <1>11 DEF RowsDue
      <4>5. committed[s] + 1 <= tentative[s]
        BY <4>1, <4>4 DEF Required
      <4> DEFINE b == NumPages * PageSize
      <4>6. tentative[s] <= b /\ b \in Nat
        BY <4>1, Bounds
      <4> HIDE DEF b
      <4>7. lane'.position[i] <= b
        BY <4>1, <4>3, <4>5, <4>6
      <4> QED
        BY <4>1, <4>3, <4>7 DEF b
    <3>2. \A i : Ahead(i)' = 1
      BY <1>6 DEF Ahead
    <3>3. Len(lane'.members) <= MaxRows /\ Len(lane'.position) = Len(lane'.members)
      BY <1>7, <1>8 DEF LaneExact
    <3>4. lane'.members = call.rows /\ doomed' = {}
      BY <2>1, <1>1, <1>3, <1>8
    <3> QED
      BY <3>1, <3>2, <3>3, <3>4, <1>1, <1>2, <1>3 DEF LaneExact
  <2>2. CASE call.kind = "Prefill"
    <3>1. lane' = NoLane
      BY <2>2, <1>1, <1>8 DEF LaneOfCall
    <3> QED
      BY <3>1, WithoutLane
  <2> QED
    BY <2>1, <2>2, <1>3
<1>17. PrefixExact'
  <2>1. ~lane.prefix
    BY <1>1 DEF PrefixExact
  <2> QED
    BY <2>1, <1>8 DEF PrefixExact
<1>18. LaneOfCall'
  <2>1. call.kind = "Prefill" => lane = NoLane
    BY <1>1 DEF LaneOfCall
  <2> QED
    BY <2>1, <1>1, <1>3, <1>6, <1>8 DEF LaneOfCall
<1>19. SlabExact'
  <2>1. CASE call.kind = "Decode"
    BY <2>1, <1>1, <1>5, <1>6 DEF SlabExact
  <2>2. CASE call.kind = "Prefill"
    <3>1. lane' = NoLane
      BY <2>2, <1>1, <1>8 DEF LaneOfCall
    <3> QED
      BY <2>2, <3>1, <1>1, <1>5, <1>6 DEF SlabExact, NoLane
  <2> QED
    BY <2>1, <2>2, <1>3
<1>20. LaunchExact'
  <2>1. \A j \in 1 .. n, g \in 1 .. Groups : InPlace(j, g)'
    BY <1>1, <1>4 DEF InPlace
  <2>2. lane'.members = lane.members /\ \A g \in 1 .. Groups : ~(g < 0)
    BY <1>8
  <2> QED
    BY <2>1, <2>2, <1>1, <1>3, <1>4, <1>6, <1>11 DEF LaunchExact
<1>21. CliExact'
  <2>1. ~lane.prefix /\ ~lane'.prefix
    BY <1>1, <1>8 DEF PrefixExact
  <2> QED
    BY <2>1, <1>1, <1>2, <1>6 DEF CliExact, WantsLookahead, Generated
<1>22. Accounted'
  BY <1>1 DEF Accounted
<1> QED
  BY <1>10, <1>12, <1>13, <1>14, <1>15, <1>16, <1>17, <1>18, <1>19, <1>20, <1>21, <1>22

\* A session goes between two calls, or with the one call of the diagnostic command.
LEMMA FreeInv ==
  ASSUME IInv, NEW s \in Live, Free(s), lane' = NoLane, slab' = NoSlab, written' = Forgotten(s),
         home' \subseteq home, mode' = mode, pc' = "idle", at' = 0, call' \in Calls,
         doomed' = doomed \ {s}, pc = "idle" \/ mode = "cli"
  PROVE  IInv'
<1> USE DEF IInv
<1>1. /\ status' = [status EXCEPT ![s] = "released"] /\ unclaimed' = Returned(s)
      /\ capacity' = [capacity EXCEPT ![s] = 0]
      /\ committed' = [committed EXCEPT ![s] = 0] /\ tentative' = [tentative EXCEPT ![s] = 0]
      /\ prompt' = [prompt EXCEPT ![s] = 0] /\ budget' = [budget EXCEPT ![s] = 0]
      /\ cursor' = [cursor EXCEPT ![s] = 0] /\ visible' = [visible EXCEPT ![s] = << >>]
      /\ stopped' = [stopped EXCEPT ![s] = FALSE]
  BY DEF Free
<1>2. s \in Sessions /\ Live' = Live \ {s}
  BY <1>1 DEF Live, Types
<1>3. unclaimed' \in Nat
  <2>1. capacity[s] \div PageSize \in Nat
    BY <1>2, AccountBounds
  <2> QED
    BY <2>1, <1>1 DEF Returned, Types
<1>4. /\ status' \in [Sessions -> {"new", "live", "released"}]
      /\ prompt' \in [Sessions -> Nat] /\ budget' \in [Sessions -> Nat] /\ cursor' \in [Sessions -> Nat]
      /\ capacity' \in [Sessions -> Nat] /\ committed' \in [Sessions -> Nat] /\ tentative' \in [Sessions -> Nat]
  BY <1>1, <1>2 DEF Types
<1>5. /\ visible' \in [Sessions -> Seq([of : Sessions, index : Nat])]
      /\ stopped' \in [Sessions -> BOOLEAN]
  BY <1>1, <1>2 DEF Types
<1>6. /\ written' \in [Sessions -> [1 .. Groups -> SUBSET Nat]]
      /\ \A t \in Sessions : t # s => written'[t] = written[t]
  BY <1>2 DEF Types, Forgotten
<1>7. Types'
  BY <1>2, <1>3, <1>4, <1>5, <1>6, WithoutLane DEF Types, Steps
<1>8. /\ capacity'[s] = 0 /\ committed'[s] = 0 /\ tentative'[s] = 0 /\ prompt'[s] = 0
      /\ budget'[s] = 0 /\ cursor'[s] = 0 /\ visible'[s] = << >>
      /\ \A t \in Sessions : t # s =>
           /\ capacity'[t] = capacity[t] /\ committed'[t] = committed[t] /\ tentative'[t] = tentative[t]
           /\ prompt'[t] = prompt[t] /\ budget'[t] = budget[t] /\ cursor'[t] = cursor[t]
           /\ visible'[t] = visible[t]
  BY <1>1, <1>2 DEF Types
<1>9. OwnExact'
  <2> SUFFICES ASSUME NEW t \in Sessions
               PROVE  /\ t \notin Live' =>
                           /\ capacity'[t] = 0 /\ committed'[t] = 0 /\ tentative'[t] = 0
                           /\ prompt'[t] = 0 /\ budget'[t] = 0 /\ cursor'[t] = 0 /\ visible'[t] = << >>
                      /\ t \in Live' => prompt'[t] \in Prompts /\ budget'[t] \in Budgets
                      /\ committed'[t] <= tentative'[t] /\ tentative'[t] <= capacity'[t]
                      /\ cursor'[t] <= prompt'[t] /\ Len(visible'[t]) <= budget'[t]
                      /\ \A k \in DOMAIN visible'[t] : visible'[t][k] = [of |-> t, index |-> prompt'[t] + k - 1]
                      /\ \A g \in 1 .. Groups : 0 .. committed'[t] - 1 \subseteq written'[t][g]
    BY DEF OwnExact, Generated
  <2>1. CASE t = s
    BY <2>1, <1>2, <1>8
  <2>2. CASE t # s
    BY <2>2, <1>2, <1>6, <1>8 DEF OwnExact, Generated
  <2> QED
    BY <2>1, <2>2
<1>10. InStep'
  <2> SUFFICES ASSUME NEW t \in Live' \ doomed'
               PROVE  /\ (Len(visible'[t]) = 0) <=> (cursor'[t] < prompt'[t])
                      /\ committed'[t] = cursor'[t] + (IF Len(visible'[t]) = 0 THEN 0 ELSE Len(visible'[t]) - 1)
                      /\ mode' = "server" \/ budget'[t] > 0 => prompt'[t] + budget'[t] <= capacity'[t]
                      /\ t \notin Busy' =>
                           /\ tentative'[t] <= committed'[t] + 1
                           /\ Len(visible'[t]) = 0 => tentative'[t] = committed'[t]
    BY DEF InStep, Generated
  <2>1. t # s /\ t \in Live \ doomed /\ t \in Sessions
    BY <1>2 DEF Live
  <2>2. pc = "idle"
    BY <2>1 DEF CliExact
  <2>3. t \notin Busy
    BY <2>1, <2>2 DEF Busy
  <2> QED
    BY <2>1, <2>3, <1>8 DEF InStep, Generated
<1>11. AtExact' /\ CallExact' /\ RowsDue' /\ Checkpoints' /\ LaunchExact'
  BY DEF AtExact, CallExact, RowsDue, Checkpoints, LaunchExact
<1>12. LaneExact' /\ PrefixExact'
  BY WithoutLane
<1>13. LaneOfCall' /\ SlabExact'
  BY WithoutLane DEF LaneOfCall, SlabExact
<1>14. CliExact'
  <2> SUFFICES ASSUME mode = "cli" PROVE CliExact'
    BY DEF CliExact
  <2>1. Live' = {} /\ doomed' = {}
    BY <1>2 DEF CliExact
  <2> QED
    BY <2>1, WithoutLane DEF CliExact
<1>15. Accounted'
  BY <1>1, <1>2, AccountReturn DEF Types
<1> QED
  BY <1>7, <1>9, <1>10, <1>11, <1>12, <1>13, <1>14, <1>15

LEMMA ReleaseInv ==
  ASSUME IInv, NEW s \in Sessions, ReleaseServerSession(s) \/ EndSession(s) PROVE IInv'
<1>1. /\ s \in Live /\ Free(s) /\ lane' = NoLane /\ slab' = NoSlab /\ written' = Forgotten(s)
      /\ UNCHANGED <<mode, pc, at, call, home>> /\ pc = "idle"
  BY DEF ReleaseServerSession, EndSession, ClearLane
<1>2. doomed' = doomed \ {s}
  BY DEF ReleaseServerSession, EndSession, IInv, CliExact
<1>3. at' = 0 /\ call' \in Calls
  BY <1>1 DEF IInv, AtExact, Types
<1> QED
  BY <1>1, <1>2, <1>3, FreeInv

LEMMA CallFailsInv ==
  ASSUME IInv, CallFails PROVE IInv'
<1> USE DEF IInv
<1> DEFINE n == Len(call.rows)
<1>1. /\ pc \in {"bind", "launch", "prefix", "download"} /\ mode' = mode
      /\ lane' = NoLane /\ slab' = NoSlab
  BY DEF CallFails, ClearLane
<1>2. home' \subseteq home
  BY DEF CallFails, HomeAfterFailure
<1>3. /\ n \in Nat /\ n > 0 /\ DOMAIN call.rows = 1 .. n /\ doomed = {}
      /\ \A i \in 1 .. n : call.rows[i] \in Live
      /\ mode \in {"server", "cli"}
  <2>1. n \in Nat /\ DOMAIN call.rows = 1 .. n
    BY Shapes
  <2>2. CallExact /\ Types /\ pc # "idle"
    BY <1>1
  <2>3. doomed = {} /\ n \in 1 .. MaxRows /\ \A i \in 1 .. n : call.rows[i] \in Live
    BY <2>1, <2>2 DEF CallExact
  <2> QED
    BY <2>1, <2>2, <2>3, GeneratorAssumption DEF Types
<1>4. CASE mode = "cli"
  <2>1. /\ Free(call.rows[1]) /\ written' = Forgotten(call.rows[1])
        /\ pc' = "idle" /\ at' = 0 /\ call' = NoCall /\ doomed' = {}
    BY <1>4 DEF CallFails, Finish
  <2>2. NoCall \in Calls
    BY DEF NoCall, Calls
  <2>3. call.rows[1] \in Live /\ doomed' = doomed \ {call.rows[1]}
    BY <2>1, <1>3
  <2> QED
    BY <1>1, <1>2, <1>4, <2>1, <2>2, <2>3, FreeInv
<1>5. CASE mode = "server"
  <2>1. /\ pc' = "rollback" /\ at' = 1
        /\ UNCHANGED <<status, prompt, budget, cursor, visible, stopped>>
        /\ UNCHANGED <<capacity, committed, tentative, unclaimed, call, doomed, written>>
    BY <1>5 DEF CallFails, sessions, pages
  <2>2. Live' = Live
    BY <2>1 DEF Live
  <2>3. Types'
    BY <1>1, <1>2, <2>1, <2>2, WithoutLane DEF Types, Steps
  <2>4. Busy' = Busy
    BY <1>1, <2>1 DEF Busy, Appended, Uncommitted
  <2>5. OwnExact' /\ InStep'
    BY <1>1, <2>1, <2>2, <2>4 DEF OwnExact, InStep, Generated
  <2>6. AtExact' /\ RowsDue' /\ LaunchExact'
    BY <1>3, <2>1 DEF AtExact, RowsDue, LaunchExact
  <2>7. CallExact' /\ Checkpoints'
    BY <1>1, <2>1, <2>2 DEF CallExact, Checkpoints
  <2>8. LaneExact' /\ PrefixExact'
    BY <1>1, WithoutLane
  <2>9. LaneOfCall' /\ SlabExact'
    BY <1>1, <1>5, <2>1, WithoutLane DEF LaneOfCall, SlabExact
  <2>10. CliExact'
    BY <1>1, <1>5 DEF CliExact
  <2>11. Accounted'
    BY <2>1 DEF Accounted
  <2> QED
    BY <2>3, <2>5, <2>6, <2>7, <2>8, <2>9, <2>10, <2>11
<1> QED
  BY <1>3, <1>4, <1>5

\* A failed call is over: its rows are left to be released.
LEMMA Doomed ==
  ASSUME Types, CallExact, pc # "idle"
  PROVE  /\ Range(call.rows) = {call.rows[j] : j \in 1 .. Len(call.rows)}
         /\ Range(call.rows) \subseteq Live /\ Range(call.rows) # {}
         /\ NoCall \in Calls
<1>1. Len(call.rows) \in Nat /\ DOMAIN call.rows = 1 .. Len(call.rows)
  BY Shapes
<1>2. Len(call.rows) > 0 /\ \A j \in 1 .. Len(call.rows) : call.rows[j] \in Live
  BY <1>1 DEF CallExact
<1>3. Range(call.rows) = {call.rows[j] : j \in 1 .. Len(call.rows)}
  BY <1>1 DEF Range
<1>4. call.rows[1] \in Range(call.rows)
  BY <1>1, <1>2, <1>3
<1>5. NoCall \in Calls
  BY DEF NoCall, Calls
<1> QED
  BY <1>2, <1>3, <1>4, <1>5

\* A row that is rolled back has its checkpoint again; the other rows have theirs still.
LEMMA RollbackRowInv ==
  ASSUME IInv, RollbackRow PROVE IInv'
<1> USE DEF IInv
<1> DEFINE n == Len(call.rows)
<1>1. /\ pc = "rollback" /\ tentative' = [tentative EXCEPT ![Row] = call.saved[at]]
      /\ UNCHANGED <<mode, status, prompt, budget, cursor, visible, stopped>>
      /\ UNCHANGED <<capacity, committed, unclaimed, lane, home, slab, written>>
  BY DEF RollbackRow, sessions, device
<1>2. /\ n \in Nat /\ DOMAIN call.rows = 1 .. n /\ DOMAIN call.saved = 1 .. Len(call.saved)
      /\ \A i \in 1 .. n : call.rows[i] \in Sessions
      /\ \A i \in 1 .. Len(call.saved) : call.saved[i] \in Nat
  BY Shapes
<1>3. /\ doomed = {} /\ Len(call.saved) = n /\ at \in 1 .. n /\ at \in Nat
      /\ \A i, j \in 1 .. n : call.rows[i] = call.rows[j] => i = j
  <2>1. doomed = {} /\ Len(call.saved) = n
    BY <1>1 DEF CallExact
  <2>2. at \in 1 .. n /\ at \in Nat
    BY <1>1, <1>2 DEF AtExact
  <2>3. \A i, j \in 1 .. n : call.rows[i] = call.rows[j] => i = j
    BY <1>1 DEF CallExact
  <2> QED
    BY <2>1, <2>2, <2>3
<1>4. Row \in Sessions /\ Row = call.rows[at] /\ call.saved[at] \in Nat
  BY <1>2, <1>3 DEF Row
<1>5. committed[Row] <= call.saved[at] /\ call.saved[at] <= tentative[Row]
  BY <1>1, <1>2, <1>3, <1>4 DEF Checkpoints
<1>6. /\ tentative' \in [Sessions -> Nat] /\ tentative'[Row] = call.saved[at]
      /\ \A s \in Sessions : s # Row => tentative'[s] = tentative[s]
  BY <1>1, <1>4 DEF Types
<1>7. mode = "server" /\ lane = NoLane
  BY <1>1 DEF CliExact, LaneOfCall, Types
<1>8. Live' = Live /\ Live \subseteq Sessions
  BY <1>1 DEF Live
<1>9. \/ at = n /\ pc' = "idle" /\ at' = 0 /\ call' = NoCall /\ doomed' = Range(call.rows)
      \/ at < n /\ pc' = pc /\ at' = at + 1 /\ call' = call /\ doomed' = doomed
  BY <1>1, <1>2, <1>3 DEF RollbackRow, Finish
<1>10. /\ Range(call.rows) = {call.rows[j] : j \in 1 .. n}
       /\ Range(call.rows) \subseteq Live /\ NoCall \in Calls
  BY <1>1, Doomed
<1>11. Types'
  <2>1. pc' \in Steps /\ at' \in Nat /\ call' \in Calls /\ doomed' \subseteq Live
    <3>1. CASE pc' = "idle"
      BY <3>1, <1>1, <1>9, <1>10 DEF Steps
    <3>2. CASE pc' = pc
      BY <3>2, <1>1, <1>3, <1>9, <1>10 DEF Types
    <3> QED
      BY <3>1, <3>2, <1>9
  <2> QED
    BY <2>1, <1>1, <1>6, <1>8 DEF Types
<1>12. Busy = Range(call.rows) /\ Busy' \cup doomed' = Busy /\ Row \in Busy
  <2>1. Busy = Range(call.rows)
    BY <1>1, <1>10 DEF Busy, Appended, Uncommitted
  <2>2. Row \in Range(call.rows)
    BY <1>3, <1>4, <1>10
  <2>3. CASE pc' = "idle"
    BY <2>1, <2>2, <2>3, <1>1, <1>9 DEF Busy
  <2>4. CASE pc' = pc
    BY <2>1, <2>2, <2>4, <1>1, <1>3, <1>9, <1>10 DEF Busy, Appended, Uncommitted
  <2> QED
    BY <2>3, <2>4, <1>9
<1>13. OwnExact'
  <2> SUFFICES ASSUME NEW s \in Sessions
               PROVE  /\ s \notin Live => tentative'[s] = 0
                      /\ committed[s] <= tentative'[s] /\ tentative'[s] <= capacity[s]
    BY <1>1, <1>8 DEF OwnExact, Generated
  <2>1. CASE s = Row
    <3>1. committed[s] \in Nat /\ tentative[s] \in Nat /\ capacity[s] \in Nat
      BY DEF Types
    <3> QED
      BY <2>1, <3>1, <1>4, <1>5, <1>6 DEF OwnExact
  <2>2. CASE s # Row
    BY <2>2, <1>6 DEF OwnExact
  <2> QED
    BY <2>1, <2>2
<1>14. InStep'
  <2> SUFFICES ASSUME NEW s \in Live, s \notin doomed'
               PROVE  /\ (Len(visible[s]) = 0) <=> (cursor[s] < prompt[s])
                      /\ committed[s] = cursor[s] + (IF Len(visible[s]) = 0 THEN 0 ELSE Len(visible[s]) - 1)
                      /\ mode = "server" \/ budget[s] > 0 => prompt[s] + budget[s] <= capacity[s]
                      /\ s \notin Busy' =>
                           /\ tentative'[s] <= committed[s] + 1
                           /\ Len(visible[s]) = 0 => tentative'[s] = committed[s]
    BY <1>1, <1>8 DEF InStep, Generated
  <2>1. s \notin Busy' => s \notin Busy /\ s # Row
    BY <1>12
  <2> QED
    BY <2>1, <1>3, <1>6, <1>8 DEF InStep, Generated
<1>15. AtExact' /\ CallExact'
  <2>1. CASE pc' = "idle"
    BY <2>1, <1>1, <1>9 DEF AtExact, CallExact
  <2>2. CASE pc' = pc
    <3>1. at' = at + 1 /\ at < n /\ call' = call /\ doomed' = {}
      BY <2>2, <1>1, <1>3, <1>9
    <3>2. AtExact'
      BY <3>1, <2>2, <1>1, <1>2, <1>3 DEF AtExact
    <3>3. CallExact
      OBVIOUS
    <3>4. CallExact'
      BY <3>1, <3>3, <2>2, <1>1, <1>8 DEF CallExact
    <3> QED
      BY <3>2, <3>4
  <2> QED
    BY <2>1, <2>2, <1>9
<1>16. RowsDue' /\ LaunchExact'
  BY <1>1, <1>9 DEF RowsDue, LaunchExact
<1>17. Checkpoints'
  <2> SUFFICES ASSUME pc' # "idle", NEW j \in 1 .. n
               PROVE  committed[call.rows[j]] <= call.saved[j] /\ call.saved[j] <= tentative'[call.rows[j]]
    BY <1>1, <1>2, <1>3, <1>9 DEF Checkpoints
  <2>1. committed[call.rows[j]] <= call.saved[j] /\ call.saved[j] <= tentative[call.rows[j]]
    BY <1>1, <1>2, <1>3 DEF Checkpoints
  <2>2. CASE j = at
    BY <2>1, <2>2, <1>2, <1>3, <1>4, <1>6
  <2>3. CASE j # at
    BY <2>1, <2>3, <1>2, <1>3, <1>4, <1>6
  <2> QED
    BY <2>2, <2>3
<1>18. LaneExact' /\ PrefixExact'
  BY <1>1, <1>7, WithoutLane
<1>19. LaneOfCall' /\ SlabExact' /\ CliExact'
  BY <1>1, <1>7, <1>9, WithoutLane DEF LaneOfCall, SlabExact, CliExact
<1>20. Accounted'
  BY <1>1 DEF Accounted
<1> QED
  BY <1>11, <1>13, <1>14, <1>15, <1>16, <1>17, <1>18, <1>19, <1>20

-----------------------------------------------------------------------------
(* Commits.                                                                *)

\* The row that is committed: its chunk is in place in every layer, and the token that
\* the head sampled behind it is the row's next one.
LEMMA CommitFacts ==
  ASSUME IInv, pc = "commit", CommitPages
  PROVE  /\ at \in 1 .. Len(call.rows) /\ Row = call.rows[at] /\ Row \in Sessions /\ Row \in Live
         /\ Advance \in Nat /\ Advance > 0
         /\ committed' \in [Sessions -> Nat] /\ cursor' \in [Sessions -> Nat]
         /\ \A s \in Sessions : s # Row => committed'[s] = committed[s] /\ cursor'[s] = cursor[s]
         /\ committed'[Row] = committed[Row] + Advance /\ committed'[Row] <= tentative[Row]
         /\ \A g \in 1 .. Groups : 0 .. committed'[Row] - 1 \subseteq written[Row][g]
         /\ result[at] = [of |-> Row, index |-> committed'[Row]]
         /\ committed[Row] = cursor[Row] + (IF Generated(Row) = 0 THEN 0 ELSE Generated(Row) - 1)
         /\ \/ /\ call.kind = "Prefill"
               /\ cursor'[Row] = cursor[Row] + Advance /\ cursor'[Row] <= prompt[Row]
               /\ Generated(Row) = 0 /\ budget[Row] > 0 /\ tentative[Row] = committed'[Row]
            \/ /\ call.kind = "Decode"
               /\ cursor' = cursor /\ cursor[Row] = prompt[Row] /\ Advance = 1
               /\ Generated(Row) > 0 /\ Generated(Row) < budget[Row]
               /\ tentative[Row] <= committed'[Row] + 1
<1> USE DEF IInv
<1> DEFINE n == Len(call.rows)
<1>1. /\ n \in Nat /\ DOMAIN call.rows = 1 .. n /\ Len(call.chunks) \in Nat
      /\ \A i \in 1 .. n : call.rows[i] \in Sessions
      /\ \A i \in 1 .. Len(call.chunks) : call.chunks[i] \in Nat
  BY Shapes
<1>2. /\ at \in 1 .. n /\ at \in Nat /\ doomed = {} /\ Len(call.chunks) = n
      /\ \A i \in 1 .. n : call.rows[i] \in Live /\ call.chunks[i] > 0
      /\ call.kind # "None"
  BY <1>1 DEF AtExact, CallExact
<1>3. /\ Row = call.rows[at] /\ Row \in Sessions /\ Row \in Live
      /\ Advance = call.chunks[at] /\ Advance \in Nat /\ Advance > 0
  BY <1>1, <1>2 DEF Row, Advance
<1>4. at \in Uncommitted /\ at \in Appended
  BY <1>1, <1>2 DEF Uncommitted, Appended
<1>5. /\ committed[Row] \in Nat /\ cursor[Row] \in Nat /\ tentative[Row] \in Nat
      /\ prompt[Row] \in Nat /\ budget[Row] \in Nat /\ Generated(Row) \in Nat
  <2>1. visible[Row] \in Seq([of : Sessions, index : Nat])
    BY <1>3 DEF Types
  <2>2. Len(visible[Row]) \in Nat
    BY <2>1, LenProperties
  <2> QED
    BY <2>2, <1>3 DEF Types, Generated
<1>6. /\ committed' = [committed EXCEPT ![Row] = @ + Advance]
      /\ cursor' = IF call.kind = "Prefill" THEN [cursor EXCEPT ![Row] = @ + Advance] ELSE cursor
  BY DEF CommitPages
<1>7. /\ committed' \in [Sessions -> Nat] /\ committed'[Row] = committed[Row] + Advance
      /\ \A s \in Sessions : s # Row => committed'[s] = committed[s]
  <2>1. committed \in [Sessions -> Nat]
    BY DEF Types
  <2> QED
    BY <2>1, <1>3, <1>5, <1>6
<1>8. /\ cursor' \in [Sessions -> Nat]
      /\ \A s \in Sessions : s # Row => cursor'[s] = cursor[s]
      /\ call.kind = "Prefill" => cursor'[Row] = cursor[Row] + Advance
      /\ call.kind # "Prefill" => cursor' = cursor
  <2>1. cursor \in [Sessions -> Nat]
    BY DEF Types
  <2> QED
    BY <2>1, <1>3, <1>5, <1>6
<1>9. /\ (Generated(Row) = 0) <=> (cursor[Row] < prompt[Row])
      /\ committed[Row] = cursor[Row] + (IF Generated(Row) = 0 THEN 0 ELSE Generated(Row) - 1)
  BY <1>2, <1>3 DEF InStep
<1>10. /\ call.kind = "Prefill" =>
            /\ cursor[Row] + Advance <= prompt[Row] /\ Generated(Row) = 0 /\ budget[Row] > 0
            /\ tentative[Row] = committed[Row] + Advance
       /\ call.kind = "Decode" =>
            /\ cursor[Row] = prompt[Row] /\ Advance = 1 /\ Generated(Row) < budget[Row]
            /\ tentative[Row] = Required(Row)
  BY <1>3, <1>4 DEF RowsDue
<1>11. Required(Row) \in {committed[Row] + 1, committed[Row] + 2}
  BY DEF Required
<1>12. call.kind \in {"Prefill", "Decode"}
  <2>1. call \in Calls
    BY DEF Types
  <2> QED
    BY <2>1, <1>2 DEF Calls
<1>13. committed'[Row] <= tentative[Row]
  BY <1>5, <1>7, <1>10, <1>11, <1>12
<1>14. ASSUME NEW g \in 1 .. Groups PROVE 0 .. committed'[Row] - 1 \subseteq written[Row][g]
  <2>1. 0 .. committed[Row] - 1 \subseteq written[Row][g]
    BY <1>3 DEF OwnExact
  <2>2. committed[Row] .. committed[Row] + Advance - 1 \subseteq written[Row][g]
    BY <1>3, <1>4 DEF LaunchExact, InPlace
  <2> QED
    BY <2>1, <2>2, <1>3, <1>5, <1>7
<1>15. result[at] = [of |-> Row, index |-> committed'[Row]]
  <2>1. result[at] = [of |-> call.rows[at], index |-> committed[call.rows[at]] + call.chunks[at]]
    BY <1>4 DEF LaunchExact
  <2> QED
    BY <2>1, <1>3, <1>7
<1>16. CASE call.kind = "Prefill"
  BY <1>2, <1>3, <1>7, <1>8, <1>9, <1>10, <1>13, <1>14, <1>15, <1>16
<1>17. CASE call.kind = "Decode"
  <2>1. Generated(Row) > 0
    BY <1>5, <1>9, <1>10, <1>17
  <2>2. tentative[Row] <= committed'[Row] + 1
    BY <1>5, <1>7, <1>10, <1>11, <1>17
  <2> QED
    BY <2>1, <2>2, <1>2, <1>3, <1>7, <1>8, <1>9, <1>10, <1>13, <1>14, <1>15, <1>17
<1> QED
  BY <1>12, <1>16, <1>17

\* A call that ends at the padding sentinel leaves its rows doomed, and what is left of
\* the lane is theirs.
LEMMA CommitFailsInv ==
  ASSUME IInv, CommitFails PROVE IInv'
<1> USE DEF IInv
<1> DEFINE n == Len(call.rows)
<1>1. /\ pc = "commit" /\ CommitPages /\ mode = "server"
      /\ pc' = "idle" /\ at' = 0 /\ call' = NoCall /\ doomed' = Range(call.rows)
      /\ UNCHANGED <<mode, status, prompt, budget, visible, stopped>>
      /\ UNCHANGED <<capacity, tentative, unclaimed, lane, home, slab, written>>
  BY DEF CommitFails, Finish, device
<1>2. /\ Row \in Sessions /\ Row = call.rows[at] /\ at \in 1 .. n
      /\ committed' \in [Sessions -> Nat] /\ cursor' \in [Sessions -> Nat]
      /\ \A s \in Sessions : s # Row => committed'[s] = committed[s] /\ cursor'[s] = cursor[s]
      /\ committed'[Row] <= tentative[Row]
      /\ \A g \in 1 .. Groups : 0 .. committed'[Row] - 1 \subseteq written[Row][g]
      /\ Row \in Live
  BY <1>1, CommitFacts
<1>3. cursor'[Row] <= prompt[Row] /\ call.kind \in {"Prefill", "Decode"}
  <2>1. \/ call.kind = "Prefill" /\ cursor'[Row] <= prompt[Row]
        \/ call.kind = "Decode" /\ cursor' = cursor /\ cursor[Row] = prompt[Row]
    BY <1>1, CommitFacts
  <2>2. prompt[Row] \in Nat
    BY <1>2 DEF Types
  <2> QED
    BY <2>1, <2>2
<1>4. /\ Range(call.rows) = {call.rows[j] : j \in 1 .. n} /\ Range(call.rows) \subseteq Live
      /\ Range(call.rows) # {} /\ NoCall \in Calls
  BY <1>1, Doomed
<1>5. doomed = {} /\ n \in Nat /\ DOMAIN call.rows = 1 .. n
  BY <1>1, Shapes DEF CallExact
<1>6. Live' = Live /\ Live \subseteq Sessions
  BY <1>1 DEF Live
<1>7. Types'
  BY <1>1, <1>2, <1>4, <1>6 DEF Types, Steps
<1>8. OwnExact'
  <2> SUFFICES ASSUME NEW s \in Sessions
               PROVE  /\ s \notin Live => committed'[s] = 0 /\ cursor'[s] = 0
                      /\ committed'[s] <= tentative[s] /\ cursor'[s] <= prompt[s]
                      /\ \A g \in 1 .. Groups : 0 .. committed'[s] - 1 \subseteq written[s][g]
    BY <1>1, <1>6 DEF OwnExact, Generated
  <2>1. CASE s = Row
    BY <2>1, <1>2, <1>3
  <2>2. CASE s # Row
    BY <2>2, <1>2 DEF OwnExact
  <2> QED
    BY <2>1, <2>2
<1>9. Busy \subseteq doomed' /\ Row \in doomed'
  <2>1. Row \in doomed'
    BY <1>1, <1>2, <1>4
  <2>2. Appended \subseteq 1 .. n
    BY <1>1, <1>2 DEF Appended, Uncommitted
  <2>3. Busy = {call.rows[j] : j \in Appended}
    BY <1>1 DEF Busy
  <2> QED
    BY <2>1, <2>2, <2>3, <1>1, <1>4
<1>10. InStep'
  <2> SUFFICES ASSUME NEW s \in Live, s \notin doomed'
               PROVE  /\ (Len(visible[s]) = 0) <=> (cursor'[s] < prompt[s])
                      /\ committed'[s] = cursor'[s] + (IF Len(visible[s]) = 0 THEN 0 ELSE Len(visible[s]) - 1)
                      /\ mode = "server" \/ budget[s] > 0 => prompt[s] + budget[s] <= capacity[s]
                      /\ tentative[s] <= committed'[s] + 1
                      /\ Len(visible[s]) = 0 => tentative[s] = committed'[s]
    BY <1>1, <1>6 DEF InStep, Generated
  <2>1. s \notin Busy /\ s # Row /\ s \in Live \ doomed /\ s \in Sessions
    BY <1>5, <1>6, <1>9
  <2>2. committed'[s] = committed[s] /\ cursor'[s] = cursor[s]
    BY <2>1, <1>2
  <2> QED
    BY <2>1, <2>2 DEF InStep, Generated
<1>11. AtExact' /\ CallExact' /\ RowsDue' /\ Checkpoints' /\ LaunchExact'
  BY <1>1 DEF AtExact, CallExact, RowsDue, Checkpoints, LaunchExact
<1>12. LaneExact'
  <2>1. ASSUME NEW i \in DOMAIN lane.members PROVE lane.members[i] \in doomed'
    <3>1. CASE call.kind = "Decode"
      <4>1. lane.members = call.rows
        BY <3>1, <1>1 DEF LaneOfCall
      <4> QED
        BY <4>1, <1>1, <1>4, <1>5
    <3>2. CASE call.kind = "Prefill"
      <4>1. lane = NoLane
        BY <3>2, <1>1 DEF LaneOfCall
      <4> QED
        BY <4>1, WithoutLane
    <3> QED
      BY <3>1, <3>2, <1>3
  <2>2. doomed' # {}
    BY <1>1, <1>4
  <2> QED
    BY <2>1, <2>2, <1>1, <1>6 DEF LaneExact
<1>13. PrefixExact' /\ LaneOfCall' /\ SlabExact' /\ CliExact'
  BY <1>1 DEF PrefixExact, LaneOfCall, SlabExact, CliExact
<1>14. Accounted'
  BY <1>1 DEF Accounted
<1> QED
  BY <1>7, <1>8, <1>10, <1>11, <1>12, <1>13, <1>14

\* What a commit makes visible: the first token behind a whole prompt, and each token
\* after it, at the session's next index.
LEMMA CommitShows ==
  ASSUME IInv, CommitRow
  PROVE  /\ visible' \in [Sessions -> Seq([of : Sessions, index : Nat])]
         /\ stopped' \in [Sessions -> BOOLEAN]
         /\ \A s \in Sessions : s # Row => visible'[s] = visible[s]
         /\ \A k \in DOMAIN visible'[Row] : visible'[Row][k] = [of |-> Row, index |-> prompt[Row] + k - 1]
         /\ Len(visible'[Row]) \in Nat /\ Len(visible'[Row]) <= budget[Row]
         /\ (Len(visible'[Row]) = 0) <=> (cursor'[Row] < prompt[Row])
         /\ committed'[Row] = cursor'[Row] + (IF Len(visible'[Row]) = 0 THEN 0 ELSE Len(visible'[Row]) - 1)
         /\ call.kind = "Decode" => Len(visible'[Row]) = Generated(Row) + 1
         /\ tentative[Row] <= committed'[Row] + 1
         /\ Len(visible'[Row]) = 0 => tentative[Row] = committed'[Row]
<1> USE DEF IInv
<1> DEFINE S == [of : Sessions, index : Nat]
           q == visible[Row]
           t == result[at]
<1>1. pc = "commit" /\ CommitPages
  BY DEF CommitRow
<1>2. Row \in Sessions /\ visible \in [Sessions -> Seq(S)] /\ stopped \in [Sessions -> BOOLEAN]
  BY <1>1, CommitFacts DEF Types
<1>3. q \in Seq(S) /\ Len(q) \in Nat /\ Generated(Row) = Len(q) /\ DOMAIN q = 1 .. Len(q)
  BY <1>2, LenProperties DEF Generated
<1>4. /\ prompt[Row] \in Nat /\ cursor[Row] \in Nat /\ budget[Row] \in Nat /\ committed'[Row] \in Nat
      /\ tentative[Row] \in Nat
  BY <1>1, <1>2, CommitFacts DEF Types
<1>5. t = [of |-> Row, index |-> committed'[Row]] /\ t \in S
  BY <1>1, <1>2, <1>4, CommitFacts
<1>6. \A k \in 1 .. Len(q) : q[k] = [of |-> Row, index |-> prompt[Row] + k - 1]
  BY <1>2, <1>3 DEF OwnExact
<1>7. /\ Append(q, t) \in Seq(S) /\ Len(Append(q, t)) = Len(q) + 1
      /\ DOMAIN Append(q, t) = 1 .. Len(q) + 1
      /\ \A k \in 1 .. Len(q) : Append(q, t)[k] = q[k]
      /\ Append(q, t)[Len(q) + 1] = t
  BY <1>3, <1>5, AppendProperties, LenProperties
<1>8. \/ /\ call.kind = "Decode" \/ cursor'[Row] = prompt[Row]
         /\ visible' = [visible EXCEPT ![Row] = Append(q, t)]
         /\ \E stop \in BOOLEAN : stopped' = [stopped EXCEPT ![Row] = stop]
      \/ /\ call.kind # "Decode" /\ cursor'[Row] # prompt[Row]
         /\ visible' = visible /\ stopped' = stopped
  BY DEF CommitRow
<1>9. stopped' \in [Sessions -> BOOLEAN]
  BY <1>2, <1>8
<1>10. \/ /\ call.kind = "Prefill" /\ cursor'[Row] <= prompt[Row] /\ cursor'[Row] \in Nat
          /\ Len(q) = 0 /\ budget[Row] > 0 /\ tentative[Row] = committed'[Row]
          /\ committed'[Row] = cursor'[Row]
       \/ /\ call.kind = "Decode" /\ cursor'[Row] = prompt[Row] /\ Len(q) > 0 /\ Len(q) < budget[Row]
          /\ committed'[Row] = prompt[Row] + Len(q) /\ tentative[Row] <= committed'[Row] + 1
  <2>1. /\ committed'[Row] = committed[Row] + Advance /\ Advance \in Nat
        /\ committed[Row] = cursor[Row] + (IF Len(q) = 0 THEN 0 ELSE Len(q) - 1)
    BY <1>1, <1>3, CommitFacts
  <2>2. CASE call.kind = "Prefill"
    BY <2>1, <2>2, <1>1, <1>3, <1>4, CommitFacts
  <2>3. CASE call.kind = "Decode"
    <3>1. /\ cursor' = cursor /\ cursor[Row] = prompt[Row] /\ Advance = 1
          /\ Generated(Row) > 0 /\ Generated(Row) < budget[Row]
          /\ tentative[Row] <= committed'[Row] + 1
      BY <2>3, <1>1, CommitFacts
    <3>2. committed[Row] = cursor[Row] + (Len(q) - 1) /\ Len(q) > 0
      BY <3>1, <2>1, <1>3
    <3>3. committed'[Row] = prompt[Row] + Len(q)
      BY <3>1, <3>2, <2>1, <1>3, <1>4
    <3> QED
      BY <2>3, <3>1, <3>2, <3>3, <1>3
  <2> QED
    BY <2>2, <2>3, <1>1, CommitFacts
<1>11. CASE /\ call.kind = "Decode" \/ cursor'[Row] = prompt[Row]
            /\ visible' = [visible EXCEPT ![Row] = Append(q, t)]
  <2>1. /\ visible' \in [Sessions -> Seq(S)] /\ visible'[Row] = Append(q, t)
        /\ \A s \in Sessions : s # Row => visible'[s] = visible[s]
    BY <1>2, <1>7, <1>11
  <2>2. committed'[Row] = prompt[Row] + Len(q) /\ cursor'[Row] = prompt[Row] /\ Len(q) < budget[Row]
        /\ tentative[Row] <= committed'[Row] + 1
    BY <1>3, <1>4, <1>10, <1>11
  <2>3. ASSUME NEW k \in DOMAIN visible'[Row]
        PROVE  visible'[Row][k] = [of |-> Row, index |-> prompt[Row] + k - 1]
    <3>1. k \in 1 .. Len(q) + 1 /\ k \in Nat
      BY <2>1, <1>3, <1>7
    <3>2. CASE k = Len(q) + 1
      <4>1. visible'[Row][k] = t /\ prompt[Row] + k - 1 = committed'[Row]
        BY <3>2, <2>1, <2>2, <1>3, <1>4, <1>7
      <4> QED
        BY <4>1, <1>5
    <3>3. CASE k # Len(q) + 1
      BY <3>1, <3>3, <2>1, <1>3, <1>6, <1>7, SMTT(60)
    <3> QED
      BY <3>2, <3>3
  <2>4. Len(visible'[Row]) = Len(q) + 1
    BY <2>1, <1>7
  <2>5. /\ Len(visible'[Row]) \in Nat /\ Len(visible'[Row]) <= budget[Row]
        /\ Len(visible'[Row]) # 0 /\ ~(cursor'[Row] < prompt[Row])
        /\ committed'[Row] = cursor'[Row] + (Len(visible'[Row]) - 1)
        /\ Len(visible'[Row]) = Generated(Row) + 1
    BY <2>2, <2>4, <1>3, <1>4, SMTT(60)
  <2> QED
    BY <2>1, <2>2, <2>3, <2>5, <1>9
<1>12. CASE call.kind # "Decode" /\ cursor'[Row] # prompt[Row] /\ visible' = visible
  <2>1. /\ call.kind = "Prefill" /\ cursor'[Row] <= prompt[Row] /\ cursor'[Row] \in Nat
        /\ Len(q) = 0 /\ budget[Row] > 0 /\ tentative[Row] = committed'[Row]
        /\ committed'[Row] = cursor'[Row]
    BY <1>10, <1>12
  <2>2. visible'[Row] = q /\ DOMAIN q = {}
    BY <2>1, <1>3, <1>12
  <2>3. cursor'[Row] < prompt[Row] /\ Len(q) <= budget[Row] /\ tentative[Row] <= committed'[Row] + 1
    BY <2>1, <1>4, <1>12
  <2>4. committed'[Row] = cursor'[Row] + 0
    BY <2>1
  <2> QED
    BY <2>1, <2>2, <2>3, <2>4, <1>2, <1>3, <1>9, <1>12
<1> QED
  BY <1>8, <1>11, <1>12

\* A row that is committed is in step again, and so is its member of the lane.
LEMMA CommitRowInv ==
  ASSUME IInv, CommitRow PROVE IInv'
<1> USE DEF IInv
<1> DEFINE n == Len(call.rows)
<1>1. /\ pc = "commit" /\ CommitPages
      /\ UNCHANGED <<mode, status, prompt, budget>>
      /\ UNCHANGED <<capacity, tentative, unclaimed, home, slab, written>>
      /\ lane' = IF mode = "cli" /\ call.kind = "Prefill"
                   THEN [members |-> call.rows, position |-> <<prompt[Row]>>, prefix |-> FALSE] ELSE lane
  BY DEF CommitRow, device
<1>2. /\ at \in 1 .. n /\ at \in Nat /\ n \in Nat /\ DOMAIN call.rows = 1 .. n
      /\ Row = call.rows[at] /\ Row \in Sessions /\ Row \in Live
      /\ committed' \in [Sessions -> Nat] /\ cursor' \in [Sessions -> Nat]
      /\ \A s \in Sessions : s # Row => committed'[s] = committed[s] /\ cursor'[s] = cursor[s]
      /\ committed'[Row] <= tentative[Row]
      /\ \A g \in 1 .. Groups : 0 .. committed'[Row] - 1 \subseteq written[Row][g]
  BY <1>1, CommitFacts, Shapes
<1>3. /\ doomed = {} /\ call.kind \in {"Prefill", "Decode"}
      /\ \A i \in 1 .. n : call.rows[i] \in Live
      /\ \A i, j \in 1 .. n : call.rows[i] = call.rows[j] => i = j
      /\ mode = "cli" => n = 1
  BY <1>1, <1>2, CommitFacts DEF CallExact
<1>4. \/ /\ at = n /\ pc' = "idle" /\ at' = 0 /\ call' = NoCall /\ doomed' = {}
      \/ /\ at < n /\ pc' = "commit" /\ at' = at + 1 /\ call' = call /\ doomed' = {}
         /\ result' = result
  BY <1>1, <1>2, <1>3 DEF CommitRow, LastRow, Finish
<1>5. cursor'[Row] <= prompt[Row]
  <2>1. \/ call.kind = "Prefill" /\ cursor'[Row] <= prompt[Row]
        \/ call.kind = "Decode" /\ cursor' = cursor /\ cursor[Row] = prompt[Row]
    BY <1>1, CommitFacts
  <2>2. prompt[Row] \in Nat
    BY <1>2 DEF Types
  <2> QED
    BY <2>1, <2>2
<1>6. Live' = Live /\ Live \subseteq Sessions /\ NoCall \in Calls
  BY <1>1, Doomed DEF Live
<1>7. mode = "cli" => call.rows = <<Row>>
  <2> SUFFICES ASSUME mode = "cli" PROVE call.rows = <<Row>>
    OBVIOUS
  <2>1. n = 1 /\ call.rows[1] = Row
    BY <1>2, <1>3
  <2>2. call.rows \in Seq(Sessions) /\ <<Row>> \in Seq(Sessions)
    BY <1>2 DEF Types, Calls
  <2>3. Len(<<Row>>) = 1 /\ <<Row>>[1] = Row
    OBVIOUS
  <2> QED
    BY <2>1, <2>2, <2>3, SeqEqual
<1>8. /\ Uncommitted = at .. n /\ Appended = at .. n
      /\ Busy = {call.rows[j] : j \in at .. n} /\ Row \in Busy
  BY <1>1, <1>2 DEF Uncommitted, Appended, Busy
<1>9. /\ at = n => Busy' = {}
      /\ at < n => /\ Uncommitted' = at + 1 .. n /\ Appended' = at + 1 .. n
                   /\ Busy' = {call.rows[j] : j \in at + 1 .. n}
  BY <1>1, <1>2, <1>4 DEF Uncommitted, Appended, Busy
<1>10. \A s : s # Row /\ s \notin Busy' => s \notin Busy
  <2> SUFFICES ASSUME NEW j \in at .. n, call.rows[j] # Row PROVE call.rows[j] \in Busy'
    BY <1>8
  <2>1. j \in at + 1 .. n /\ at < n
    BY <1>2
  <2> QED
    BY <2>1, <1>9
<1>11. Types'
  <2>1. pc' \in Steps /\ at' \in Nat /\ call' \in Calls /\ doomed' = {}
    <3>1. CASE at = n
      BY <3>1, <1>4, <1>6 DEF Steps
    <3>2. CASE at < n
      BY <3>2, <1>2, <1>4 DEF Types, Steps
    <3> QED
      BY <3>1, <3>2, <1>4
  <2>2. lane' \in [members : Seq(Sessions), position : Seq(Nat), prefix : BOOLEAN]
    <3>1. call.rows \in Seq(Sessions) /\ prompt[Row] \in Nat
      BY <1>2 DEF Types, Calls
    <3> QED
      BY <3>1, <1>1 DEF Types
  <2>3. /\ visible' \in [Sessions -> Seq([of : Sessions, index : Nat])]
        /\ stopped' \in [Sessions -> BOOLEAN]
    BY CommitShows
  <2> QED
    BY <2>1, <2>2, <2>3, <1>1, <1>2, <1>6 DEF Types
<1>12. OwnExact'
  <2> SUFFICES ASSUME NEW s \in Sessions
               PROVE  /\ s \notin Live => committed'[s] = 0 /\ cursor'[s] = 0 /\ visible'[s] = << >>
                      /\ committed'[s] <= tentative[s] /\ cursor'[s] <= prompt[s]
                      /\ Len(visible'[s]) <= budget[s]
                      /\ \A k \in DOMAIN visible'[s] : visible'[s][k] = [of |-> s, index |-> prompt[s] + k - 1]
                      /\ \A g \in 1 .. Groups : 0 .. committed'[s] - 1 \subseteq written[s][g]
    BY <1>1, <1>6 DEF OwnExact, Generated
  <2>1. CASE s = Row
    BY <2>1, <1>2, <1>5, CommitShows
  <2>2. CASE s # Row
    <3>1. committed'[s] = committed[s] /\ cursor'[s] = cursor[s] /\ visible'[s] = visible[s]
      BY <2>2, <1>2, CommitShows
    <3> QED
      BY <3>1 DEF OwnExact, Generated
  <2> QED
    BY <2>1, <2>2
<1>13. InStep'
  <2> SUFFICES ASSUME NEW s \in Live
               PROVE  /\ (Len(visible'[s]) = 0) <=> (cursor'[s] < prompt[s])
                      /\ committed'[s] = cursor'[s] + (IF Len(visible'[s]) = 0 THEN 0 ELSE Len(visible'[s]) - 1)
                      /\ mode = "server" \/ budget[s] > 0 => prompt[s] + budget[s] <= capacity[s]
                      /\ s \notin Busy' =>
                           /\ tentative[s] <= committed'[s] + 1
                           /\ Len(visible'[s]) = 0 => tentative[s] = committed'[s]
    BY <1>1, <1>6 DEF InStep, Generated
  <2>1. s \in Live \ doomed
    BY <1>3
  <2>2. mode = "server" \/ budget[s] > 0 => prompt[s] + budget[s] <= capacity[s]
    BY <2>1 DEF InStep
  <2>3. CASE s = Row
    BY <2>2, <2>3, CommitShows
  <2>4. CASE s # Row
    <3>1. committed'[s] = committed[s] /\ cursor'[s] = cursor[s] /\ visible'[s] = visible[s]
      BY <2>4, <1>2, <1>6, CommitShows
    <3>2. s \notin Busy' => s \notin Busy
      BY <2>4, <1>10
    <3> QED
      BY <2>1, <3>1, <3>2 DEF InStep, Generated
  <2> QED
    BY <2>3, <2>4
<1>14. AtExact' /\ CallExact'
  <2>1. CASE at = n
    BY <2>1, <1>4 DEF AtExact, CallExact
  <2>2. CASE at < n
    <3>1. AtExact'
      BY <2>2, <1>2, <1>4 DEF AtExact
    <3>2. CallExact'
      BY <2>2, <1>1, <1>4, <1>6 DEF CallExact
    <3> QED
      BY <3>1, <3>2
  <2> QED
    BY <2>1, <2>2, <1>4
\* A row that is yet to be committed is as it was.
<1>15. ASSUME at < n, NEW j \in at + 1 .. n
       PROVE  /\ j \in at .. n /\ j \in 1 .. n /\ call.rows[j] \in Sessions /\ call.rows[j] # Row
              /\ committed'[call.rows[j]] = committed[call.rows[j]]
              /\ cursor'[call.rows[j]] = cursor[call.rows[j]]
              /\ visible'[call.rows[j]] = visible[call.rows[j]]
  <2>1. j \in 1 .. n /\ j # at /\ j \in at .. n
    BY <1>2, <1>15
  <2>2. call.rows[j] \in Sessions /\ call.rows[j] # Row
    BY <2>1, <1>2, <1>3, <1>6
  <2> QED
    BY <2>1, <2>2, <1>2, CommitShows
<1>16. RowsDue'
  <2>1. CASE at = n
    BY <2>1, <1>4 DEF RowsDue
  <2>2. CASE at < n
    <3> SUFFICES ASSUME NEW j \in at + 1 .. n
                 PROVE  LET s == call.rows[j] IN
                        /\ call.kind = "Prefill" =>
                             cursor'[s] + call.chunks[j] <= prompt[s] /\ Len(visible'[s]) = 0 /\ budget[s] > 0
                        /\ call.kind = "Decode" =>
                             cursor'[s] = prompt[s] /\ call.chunks[j] = 1 /\ Len(visible'[s]) < budget[s]
                        /\ tentative[s] = IF call.kind = "Prefill" THEN committed'[s] + call.chunks[j]
                                          ELSE Required(s)'
      BY <2>2, <1>1, <1>4, <1>9, ZenonT(60) DEF RowsDue, Generated
    <3>1. /\ committed'[call.rows[j]] = committed[call.rows[j]] /\ cursor'[call.rows[j]] = cursor[call.rows[j]]
          /\ visible'[call.rows[j]] = visible[call.rows[j]] /\ j \in Uncommitted /\ j \in Appended
      BY <2>2, <1>8, <1>15
    <3>2. Required(call.rows[j])' = Required(call.rows[j])
      BY <3>1, <2>2, <1>1, <1>4 DEF Required, WantsLookahead, Generated
    <3> QED
      BY <3>1, <3>2, <1>1 DEF RowsDue, Generated
  <2> QED
    BY <2>1, <2>2, <1>4
<1>17. Checkpoints' /\ LaneOfCall'
  <2>1. Checkpoints'
    BY <1>4 DEF Checkpoints
  <2>2. CASE at = n
    BY <2>1, <2>2, <1>4 DEF LaneOfCall
  <2>3. CASE at < n
    <3>1. lane' = lane /\ call' = call /\ pc' = pc
      BY <2>3, <1>1, <1>2, <1>3, <1>4, SMTT(60)
    <3>2. LaneOfCall
      OBVIOUS
    <3> QED
      BY <2>1, <3>1, <3>2 DEF LaneOfCall
  <2> QED
    BY <2>2, <2>3, <1>4
<1>18. LaunchExact'
  <2>1. CASE at = n
    BY <2>1, <1>4 DEF LaunchExact
  <2>2. CASE at < n
    <3>1. ASSUME NEW j \in at + 1 .. n
          PROVE  /\ \A g \in 1 .. Groups : InPlace(j, g)'
                 /\ result'[j] = [of |-> call.rows[j], index |-> committed'[call.rows[j]] + call.chunks[j]]
      <4>1. committed'[call.rows[j]] = committed[call.rows[j]] /\ j \in Uncommitted
        BY <2>2, <1>8, <1>15
      <4> QED
        BY <4>1, <2>2, <1>1, <1>4, SMTT(60) DEF LaunchExact, InPlace
    <3>2. home = 1 .. Groups /\ DOMAIN result = DOMAIN call.rows
      BY <1>1 DEF LaunchExact
    <3> QED
      BY <3>1, <3>2, <2>2, <1>1, <1>4, <1>9 DEF LaunchExact
  <2> QED
    BY <2>1, <2>2, <1>4
<1>19. Accounted'
  BY <1>1 DEF Accounted
\* The diagnostic command has its lane from the prompt on.
<1>20. CASE mode = "cli" /\ call.kind = "Prefill"
  <2>1. /\ n = 1 /\ at = 1 /\ pc' = "idle" /\ doomed' = {}
        /\ Row = call.rows[1]
    BY <1>20, <1>2, <1>3, <1>4
  <2>2. /\ lane'.members = call.rows /\ lane'.position = <<prompt[Row]>> /\ ~lane'.prefix
    BY <1>1, <1>20
  <2>3. prompt[Row] \in Nat /\ cursor[Row] \in Nat /\ prompt[Row] > 0
    <3>1. prompt[Row] \in Prompts
      BY <1>2 DEF OwnExact
    <3>2. prompt[Row] \in Nat \ {0}
      BY <3>1, GeneratorAssumption
    <3>3. cursor[Row] \in Nat
      BY <1>2 DEF Types
    <3> QED
      BY <3>2, <3>3
  <2>4. cursor'[Row] = prompt[Row] /\ committed'[Row] = prompt[Row]
    <3>1. Advance = prompt[Row]
      BY <2>1, <1>1, <1>20 DEF CliExact, Advance
    <3>2. /\ cursor'[Row] = cursor[Row] + Advance /\ Generated(Row) = 0
          /\ committed'[Row] = committed[Row] + Advance /\ committed[Row] = cursor[Row] + 0
      BY <1>1, <1>20, CommitFacts
    <3>3. cursor[Row] = 0
      BY <3>1, <3>2, <2>3, <1>5
    <3> QED
      BY <3>1, <3>2, <3>3, <2>3
  <2>5. \A i : Ahead(i)' = 0
    BY <2>1 DEF Ahead
  <2>6. LaneExact'
    <3> DEFINE b == NumPages * PageSize
    <3>1. tentative[Row] <= b /\ b \in Nat /\ tentative[Row] \in Nat
      BY <1>2, Bounds
    <3> HIDE DEF b
    <3>2. prompt[Row] <= b
      BY <3>1, <2>3, <2>4, <1>2
    <3>3. Len(lane'.members) = 1 /\ DOMAIN lane'.members = {1} /\ Len(lane'.position) = 1
          /\ lane'.position[1] = prompt[Row] /\ lane'.members[1] = Row
      BY <2>1, <2>2, <1>2
    <3>4. MaxRows \in Nat /\ MaxRows >= 1
      BY GeneratorAssumption
    <3>5. prompt' = prompt
      BY <1>1
    <3> QED
      BY <3>2, <3>3, <3>4, <3>5, <2>1, <2>3, <2>4, <2>5, <1>2, <1>6 DEF LaneExact, b
  <2>7. PrefixExact'
    BY <2>1, <2>2 DEF PrefixExact
  <2>8. SlabExact'
    BY <1>1, <1>20 DEF SlabExact
  <2>9. CliExact'
    <3>1. \A s, t \in Live : s = t
      BY <1>20 DEF CliExact
    <3>2. \A s \in Live : s = Row
      BY <3>1, <1>2
    <3>3. call.rows = <<Row>>
      BY <1>7, <1>20
    <3> QED
      BY <3>1, <3>2, <3>3, <2>1, <2>2, <2>4, <1>1, <1>6 DEF CliExact
  <2> QED
    BY <2>6, <2>7, <2>8, <2>9, <1>11, <1>12, <1>13, <1>14, <1>16, <1>17, <1>18, <1>19
<1>21. CASE ~(mode = "cli" /\ call.kind = "Prefill")
  <2>1. lane' = lane
    BY <1>1, <1>21
  <2>2. LaneExact'
    <3>1. CASE call.kind = "Prefill"
      <4>1. lane' = NoLane
        BY <3>1, <2>1, <1>1 DEF LaneOfCall
      <4> QED
        BY <4>1, WithoutLane
    <3>2. CASE call.kind = "Decode"
      <4>1. lane.members = call.rows /\ cursor' = cursor /\ committed'[Row] = committed[Row] + 1
        BY <3>2, <1>1, CommitFacts DEF LaneOfCall
      <4> SUFFICES ASSUME NEW i \in 1 .. n
                   PROVE  lane.position[i] = committed'[call.rows[i]] + Ahead(i)'
        <5> DEFINE sound == \A i \in 1 .. n : lane.position[i] = committed'[call.rows[i]] + Ahead(i)'
        <5> SUFFICES ASSUME sound PROVE LaneExact'
          OBVIOUS
        <5>1. /\ Len(lane'.members) <= MaxRows /\ Len(lane'.position) = Len(lane'.members)
              /\ \A i \in DOMAIN lane'.members :
                   lane'.members[i] \in Live' /\ lane'.position[i] <= NumPages * PageSize
          BY <2>1, <1>6 DEF LaneExact
        <5>2. \A i \in DOMAIN lane.members : cursor[lane.members[i]] = prompt[lane.members[i]]
          BY <1>3 DEF LaneExact
        <5>3. /\ prompt' = prompt /\ doomed' = {} /\ DOMAIN lane'.members = 1 .. n
              /\ lane'.members = call.rows /\ lane' = lane
          BY <4>1, <2>1, <1>1, <1>2, <1>4
        <5> QED
          BY <4>1, <5>1, <5>2, <5>3 DEF LaneExact
      <4>2. lane.position[i] = committed[call.rows[i]] + Ahead(i)
        BY <4>1, <1>2, <1>3 DEF LaneExact
      <4>3. committed[Row] \in Nat
        BY <1>2 DEF Types
      <4>4. CASE i = at
        <5>1. Ahead(i) = 1 /\ Ahead(i)' = 0
          BY <4>4, <1>1, <1>2, <1>4 DEF Ahead
        <5> QED
          BY <5>1, <4>1, <4>2, <4>3, <4>4, <1>2
      <4>5. CASE i # at
        <5>1. Ahead(i)' = Ahead(i)
          BY <4>5, <1>1, <1>2, <1>4 DEF Ahead
        <5>2. committed'[call.rows[i]] = committed[call.rows[i]]
          BY <4>5, <1>2, <1>3, <1>6
        <5> QED
          BY <5>1, <5>2, <4>2
      <4> QED
        BY <4>4, <4>5
    <3> QED
      BY <3>1, <3>2, <1>3
  <2>3. PrefixExact'
    BY <2>1, <1>1, <1>4 DEF PrefixExact
  <2>4. SlabExact'
    BY <2>1, <1>1, <1>4 DEF SlabExact
  <2>5. CliExact'
    <3> SUFFICES ASSUME mode = "cli" PROVE CliExact'
      BY <1>1 DEF CliExact
    <3>1. /\ n = 1 /\ at = 1 /\ pc' = "idle" /\ doomed' = {} /\ call.kind = "Decode"
          /\ Row = call.rows[1]
      BY <1>2, <1>3, <1>4, <1>21
    <3>2. cursor' = cursor /\ lane.members = call.rows
      BY <3>1, <1>1, CommitFacts DEF LaneOfCall
    <3>3. \A s, t \in Live : s = t
      BY DEF CliExact
    <3>4. \A s \in Live : s = Row
      BY <3>3, <1>2
    <3>5. call.rows = <<Row>>
      BY <1>7
    <3>6. lane.prefix => Len(visible'[Row]) < budget[Row]
      <4>1. lane.prefix => WantsLookahead(Row)
        BY <3>1, <1>1 DEF CliExact
      <4>2. Len(visible'[Row]) = Generated(Row) + 1 /\ Len(visible'[Row]) \in Nat
        BY <3>1, CommitShows
      <4>3. budget[Row] \in Nat /\ Generated(Row) \in Nat
        <5>1. visible[Row] \in Seq([of : Sessions, index : Nat]) /\ budget[Row] \in Nat
          BY <1>2 DEF Types
        <5> QED
          BY <5>1, LenProperties DEF Generated
      <4> QED
        BY <4>1, <4>2, <4>3 DEF WantsLookahead
    <3> QED
      BY <3>1, <3>2, <3>3, <3>4, <3>5, <3>6, <2>1, <1>1, <1>6 DEF CliExact, Generated, PrefillComplete
  <2> QED
    BY <2>2, <2>3, <2>4, <2>5, <1>11, <1>12, <1>13, <1>14, <1>16, <1>17, <1>18, <1>19
<1> QED
  BY <1>20, <1>21

LEMMA NextInv ==
  ASSUME IInv, [Next]_vars PROVE IInv'
<1>1. ASSUME UNCHANGED vars PROVE IInv'
  <2>1. /\ UNCHANGED <<mode, status, prompt, budget, cursor, visible, stopped>>
        /\ UNCHANGED <<capacity, committed, tentative, unclaimed, lane, pc, at, call, result, doomed>>
        /\ UNCHANGED <<home, slab, written>>
    BY <1>1 DEF vars, sessions, pages, control, device
  <2>2. Live' = Live /\ Uncommitted' = Uncommitted /\ Appended' = Appended /\ Busy' = Busy
    BY <2>1 DEF Live, Uncommitted, Appended, Busy
  <2>3. \A i : Ahead(i)' = Ahead(i)
    BY <2>1 DEF Ahead
  <2>4. Types' /\ AtExact' /\ CallExact' /\ Checkpoints' /\ Accounted'
    <3>1. Types'
      BY <2>1, <2>2 DEF IInv, Types
    <3>2. AtExact' /\ Checkpoints'
      BY <2>1, <2>2 DEF IInv, AtExact, Checkpoints
    <3>3. CallExact'
      BY <2>1, <2>2 DEF IInv, CallExact
    <3>4. Accounted'
      BY <2>1 DEF IInv, Accounted
    <3> QED
      BY <3>1, <3>2, <3>3, <3>4
  <2>5. OwnExact' /\ InStep'
    BY <2>1, <2>2 DEF IInv, OwnExact, InStep, Generated
  <2>6. RowsDue'
    BY <2>1, <2>2 DEF IInv, RowsDue, Generated, Required, WantsLookahead
  <2>7. LaneExact' /\ PrefixExact' /\ LaneOfCall' /\ SlabExact'
    BY <2>1, <2>2, <2>3 DEF IInv, LaneExact, PrefixExact, LaneOfCall, SlabExact
  <2>8. LaunchExact'
    BY <2>1, <2>2 DEF IInv, LaunchExact, InPlace
  <2>9. CliExact'
    BY <2>1, <2>2 DEF IInv, CliExact, PrefillComplete, WantsLookahead, Generated
  <2> QED
    BY <2>4, <2>5, <2>6, <2>7, <2>8, <2>9 DEF IInv
<1>2. ASSUME NEW s \in Sessions, NEW p \in Prompts, NEW m \in Budgets,
             PrepareServerTokens(s, p, m) \/ PrepareTokens(s, p, m)
      PROVE  IInv'
  BY <1>2, PrepareInv
<1>3. ASSUME NEW s \in Sessions, ReleaseServerSession(s) \/ EndSession(s) PROVE IInv'
  BY <1>3, ReleaseInv
<1>4. CASE PrefillBatch \/ DecodeBatch \/ PrefillStep \/ DecodeStep
  BY <1>4, PrefillBatchInv, DecodeBatchInv, PrefillStepInv, DecodeStepInv
<1>5. CASE ReserveRow \/ Bind \/ Component \/ LaunchHead \/ Download
  BY <1>5, ReserveRowInv, BindInv, ComponentInv, LaunchHeadInv, DownloadInv
<1>6. CASE CallFails \/ RollbackRow \/ CommitRow \/ CommitFails
  BY <1>6, CallFailsInv, RollbackRowInv, CommitRowInv, CommitFailsInv
<1> QED
  BY <1>1, <1>2, <1>3, <1>4, <1>5, <1>6 DEF Next, Over

\* The inductive invariant, of which every result below is a consequence.
THEOREM Invariant == Spec => []IInv
<1>1. IInv /\ [Next]_vars => IInv'
  BY NextInv
<1> QED
  BY InitInv, <1>1, PTL DEF Spec

-----------------------------------------------------------------------------
(* What it says.                                                           *)

LEMMA TypeOKHolds == IInv => TypeOK
<1> SUFFICES ASSUME IInv PROVE TypeOK
  OBVIOUS
<1> USE DEF IInv
<1> DEFINE b == NumPages * PageSize
<1>1. CachesTypeOK
  <2>1. slab \in [lane : BOOLEAN, call : BOOLEAN, slots : {{}}] /\ home \subseteq 1 .. Groups
    BY DEF Types
  <2>2. slab \in [lane : BOOLEAN, call : BOOLEAN, slots : SUBSET (Embedding .. ModelHead)]
    BY <2>1
  <2>3. \A s \in Sessions, g \in 1 .. Groups : written[s][g] \subseteq Nat
    <3>1. \A s \in Sessions : written[s] \in [1 .. Groups -> SUBSET Nat]
      BY DEF Types
    <3>2. \A s \in Sessions, g \in 1 .. Groups : written[s][g] \in SUBSET Nat
      BY <3>1
    <3> QED
      BY <3>2
  <2> QED
    BY <2>1, <2>2, <2>3 DEF CachesTypeOK
<1>2. /\ mode \in {"server", "cli"} /\ status \in [Sessions -> {"new", "live", "released"}]
      /\ stopped \in [Sessions -> BOOLEAN] /\ doomed \subseteq Sessions
      /\ pc \in {"idle", "reserve", "bind", "launch", "prefix", "download", "commit", "rollback"}
      /\ call.kind \in {"None", "Prefill", "Decode"} /\ lane.prefix \in BOOLEAN
  <2>1. doomed \subseteq Live /\ Live \subseteq Sessions
    BY DEF Types, Live
  <2>2. call.kind \in {"None", "Prefill", "Decode"}
    BY DEF Types, Calls
  <2>3. lane.prefix \in BOOLEAN
    BY DEF Types
  <2> QED
    BY <2>1, <2>2, <2>3 DEF Types, Steps
<1>3. /\ \A s \in Live : prompt[s] \in Prompts /\ budget[s] \in Budgets
      /\ \A s \in Sessions : cursor[s] \in 0 .. prompt[s]
      /\ \A s \in Sessions : Len(visible[s]) <= budget[s]
      /\ \A s \in Sessions : committed[s] <= tentative[s] /\ tentative[s] <= capacity[s]
  <2>1. Live \subseteq Sessions
    BY DEF Live
  <2>2. \A s \in Sessions : cursor[s] \in Nat /\ prompt[s] \in Nat
    BY DEF Types
  <2> QED
    BY <2>1, <2>2 DEF OwnExact, Generated
<1>4. /\ capacity \in [Sessions -> Positions] /\ committed \in [Sessions -> Positions]
      /\ tentative \in [Sessions -> Positions]
  <2>1. \A s \in Sessions :
          /\ b \in Nat /\ committed[s] \in Nat /\ tentative[s] \in Nat /\ capacity[s] \in Nat
          /\ capacity[s] <= b /\ committed[s] <= b /\ tentative[s] <= b
    BY Bounds
  <2>2. Positions = 0 .. b
    BY DEF Positions
  <2> HIDE DEF b
  <2>3. \A s \in Sessions : committed[s] \in 0 .. b /\ tentative[s] \in 0 .. b /\ capacity[s] \in 0 .. b
    <3> TAKE s \in Sessions
    <3>1. /\ b \in Nat /\ committed[s] \in Nat /\ tentative[s] \in Nat /\ capacity[s] \in Nat
          /\ capacity[s] <= b /\ committed[s] <= b /\ tentative[s] <= b
      BY <2>1
    <3> HIDE DEF IInv
    <3> QED
      BY <3>1
  <2> QED
    BY <2>2, <2>3 DEF Types
<1>5. unclaimed \in 0 .. NumPages
  BY AccountBounds, GeneratorAssumption
<1>6. /\ lane.members \in Seq(Sessions) /\ Len(lane.members) <= MaxRows
      /\ lane.position \in [DOMAIN lane.members -> Positions]
  <2>1. lane.members \in Seq(Sessions) /\ lane.position \in Seq(Nat)
    BY DEF Types
  <2>2. /\ DOMAIN lane.position = DOMAIN lane.members
        /\ \A i \in DOMAIN lane.members : lane.position[i] \in Nat /\ lane.position[i] <= b
        /\ Len(lane.members) <= MaxRows
    BY Shapes DEF LaneExact
  <2>3. b \in Nat
    BY GeneratorAssumption, Multiples
  <2>4. Positions = 0 .. b
    BY DEF Positions
  <2> HIDE DEF b
  <2>5. \A i \in DOMAIN lane.members : lane.position[i] \in Positions
    BY <2>2, <2>3, <2>4
  <2>6. lane.position = [i \in DOMAIN lane.position |-> lane.position[i]]
    BY <2>1, LenProperties
  <2> QED
    BY <2>1, <2>2, <2>5, <2>6
<1>7. at \in 0 .. Groups + 1 + MaxRows
  <2>1. Groups \in Nat /\ LookaheadGroups \in Nat /\ LookaheadGroups <= Groups /\ MaxRows \in Nat
    BY CachesAssumption, GeneratorAssumption
  <2>2. pc \in {"reserve", "commit", "rollback"} => at \in 1 .. MaxRows
    <3>1. pc # "idle" => Len(call.rows) \in 1 .. MaxRows
      BY DEF CallExact
    <3> QED
      BY <2>1, <3>1 DEF AtExact
  <2> QED
    BY <2>1, <2>2, <1>2 DEF AtExact
<1> QED
  BY <1>1, <1>2, <1>3, <1>4, <1>5, <1>6, <1>7 DEF TypeOK

\* The variables have their types.
THEOREM TypesHold == Spec => []TypeOK
BY Invariant, TypeOKHolds, PTL

LEMMA Exact == IInv => SessionsExact
<1> SUFFICES ASSUME IInv PROVE SessionsExact
  OBVIOUS
<1> USE DEF IInv
<1>1. TypeOK
  BY TypeOKHolds
<1>2. \A s \in Live : s \in Sessions /\ Generated(s) \in Nat /\ cursor[s] \in Nat /\ prompt[s] \in Nat
  <2> TAKE s \in Live
  <2>1. s \in Sessions
    BY DEF Live
  <2>2. visible[s] \in Seq([of : Sessions, index : Nat])
    BY <2>1 DEF Types
  <2> QED
    BY <2>1, <2>2, LenProperties DEF Generated, Types
<1>3. CacheMatchesVisible
  <2> SUFFICES ASSUME pc = "idle", NEW s \in Held \ doomed
               PROVE  /\ committed[s] = cursor[s] + (IF Generated(s) > 0 THEN Generated(s) - 1 ELSE 0)
                      /\ \A g \in 1 .. Groups : 0 .. committed[s] - 1 \subseteq written[s][g]
    BY DEF CacheMatchesVisible
  <2>1. s \in Live /\ s \notin doomed
    BY DEF Held
  <2>2. committed[s] = cursor[s] + (IF Generated(s) = 0 THEN 0 ELSE Generated(s) - 1)
    BY <2>1 DEF InStep
  <2>3. \A g \in 1 .. Groups : 0 .. committed[s] - 1 \subseteq written[s][g]
    BY <2>1, <1>2 DEF OwnExact
  <2> QED
    BY <2>1, <2>2, <2>3, <1>2
<1>4. LaneInStep
  <2> SUFFICES ASSUME pc = "idle", Range(lane.members) \subseteq Live \ doomed,
                      NEW i \in DOMAIN lane.members
               PROVE  LET s == lane.members[i]
                      IN  /\ lane.position[i] + 1 = prompt[s] + Generated(s)
                          /\ mode = "cli" /\ lane.prefix => Generated(s) < budget[s]
    BY DEF LaneInStep
  <2> DEFINE s == lane.members[i]
  <2>1. s \in Live /\ s \notin doomed
    BY DEF Range
  <2>2. doomed = {}
    BY <2>1 DEF LaneExact
  <2>3. cursor[s] = prompt[s] /\ lane.position[i] = committed[s]
    <3>1. cursor[s] = prompt[s] /\ lane.position[i] = committed[s] + Ahead(i)
      BY <2>2 DEF LaneExact
    <3>2. Ahead(i) = 0
      BY DEF Ahead
    <3>3. committed[s] \in Nat
      BY <2>1, <1>2 DEF Types
    <3> QED
      BY <3>1, <3>2, <3>3
  <2>4. /\ (Generated(s) = 0) <=> (cursor[s] < prompt[s])
        /\ committed[s] = cursor[s] + (IF Generated(s) = 0 THEN 0 ELSE Generated(s) - 1)
    BY <2>1 DEF InStep
  <2>5. mode = "cli" /\ lane.prefix => Generated(s) < budget[s]
    BY <2>1 DEF CliExact
  <2> QED
    BY <2>1, <2>3, <2>4, <2>5, <1>2
<1> QED
  BY <1>1, <1>3, <1>4 DEF SessionsExact

\* Between calls the host's account of a session is that of the caches and of the lane,
\* whatever was rolled back, left behind by a failed call, reused or started early.
THEOREM SessionsAreExact == Spec => []SessionsExact
BY Invariant, Exact, PTL

\* Every visible token was sampled from its own session's context at its own position,
\* however lanes are reused, rows reordered and prefixes started early.
THEOREM TokensAreTheSessions == Spec => []TokensReachTheirSession
<1>1. IInv => TokensReachTheirSession
  BY DEF IInv, OwnExact, TokensReachTheirSession
<1> QED
  BY <1>1, Invariant, PTL

\* The rows of a call that is on the device have appended what it writes.
LEMMA WritesFit == IInv => WritesStayReserved
<1> SUFFICES ASSUME IInv, pc \in {"launch", "prefix"}, at \in 1 .. Groups, NEW s \in DOMAIN Spans
             PROVE  Spans[s].to < tentative[s]
  BY DEF WritesStayReserved
<1> USE DEF IInv
<1> DEFINE n == Len(call.rows)
<1>1. PICK j \in 1 .. n : s = call.rows[j]
  BY BatchFacts
<1>2. /\ n \in Nat /\ n > 0 /\ s \in Live /\ s \in Sessions /\ committed[s] \in Nat
      /\ call.chunks[j] \in Nat /\ call.chunks[j] > 0
      /\ Span(j).from = committed[s] + (IF pc = "prefix" THEN 1 ELSE 0)
      /\ Span(j).to = Span(j).from + call.chunks[j] - 1 /\ Spans[s] = Span(j)
      /\ call.kind = "Decode" => call.chunks[j] = 1
      /\ pc = "prefix" => call.kind = "Decode"
  BY <1>1, BatchFacts
<1>3. j \in Uncommitted /\ j \in Appended
  BY <1>1 DEF Uncommitted, Appended
<1>4. call.kind \in {"Prefill", "Decode"}
  BY <1>3, DueFacts
<1>5. tentative[s] = IF call.kind = "Prefill" THEN committed[s] + call.chunks[j] ELSE Required(s)
  BY <1>1, <1>3, <1>4 DEF RowsDue
<1>6. Required(s) \in {committed[s] + 1, committed[s] + 2}
  BY DEF Required
<1>7. pc = "prefix" => Required(s) = committed[s] + 2
  <2> SUFFICES ASSUME pc = "prefix" PROVE mode = "server" \/ WantsLookahead(s)
    BY DEF Required
  <2>1. CASE mode = "cli"
    <3>1. n = 1 /\ j = 1
      BY <2>1, <1>1, <1>2 DEF CallExact
    <3> QED
      BY <2>1, <3>1, <1>1 DEF CliExact
  <2> QED
    BY <2>1 DEF Types
<1>8. CASE pc = "launch"
  <2>1. Span(j).to = committed[s] + call.chunks[j] - 1
    BY <1>2, <1>8
  <2>2. CASE call.kind = "Prefill"
    BY <2>1, <2>2, <1>2, <1>5
  <2>3. CASE call.kind = "Decode"
    BY <2>1, <2>3, <1>2, <1>5, <1>6
  <2> QED
    BY <2>2, <2>3, <1>4
<1>9. CASE pc = "prefix"
  BY <1>2, <1>5, <1>7, <1>9
<1> QED
  BY <1>8, <1>9

LEMMA NothingToRefuse == IInv => NothingRefused
<1> SUFFICES ASSUME IInv PROVE NothingRefused
  OBVIOUS
<1>1. pc = "reserve" => Wanted(Row) <= capacity[Row]
  BY ReserveFits
<1>2. pc = "bind" /\ mode = "server" /\ call.reuse => slab.lane
  <2> SUFFICES ASSUME pc = "bind", mode = "server", call.reuse PROVE slab.lane
    OBVIOUS
  <2>1. call.kind = "Decode" /\ lane.members = call.rows
    BY DEF IInv, CallExact, LaneOfCall
  <2>2. Len(call.rows) > 0
    BY GeneratorAssumption DEF IInv, CallExact
  <2>3. lane.members # << >>
    BY <2>1, <2>2
  <2> QED
    BY <2>3 DEF IInv, SlabExact
<1>3. pc = "launch" /\ mode = "server" => UniquelyOwned
  <2> SUFFICES ASSUME pc = "launch", mode = "server" PROVE UniquelyOwned
    OBVIOUS
  <2>1. slab.call /\ ~slab.lane
    BY DEF IInv, SlabExact
  <2>2. slab.slots = {}
    BY DEF IInv, Types
  <2> QED
    BY <2>1, <2>2 DEF UniquelyOwned
<1> QED
  BY <1>1, <1>2, <1>3, WritesFit DEF NothingRefused

\* After admission nothing is refused: an append fits the reservation and a write what was
\* appended, a lane that is continued has its slab, and a head is its slab's only owner.
THEOREM NothingIsRefused == Spec => []NothingRefused
BY Invariant, NothingToRefuse, PTL

\* Once a failed launch has stranded the caches of a layer group, no session gets
\* another token.
THEOREM LossIsSilent == Spec => LossStopsTokens
<1> DEFINE Silent == home # 1 .. Groups => \A s \in Sessions : Len(visible'[s]) <= Len(visible[s])
<1>1. ASSUME IInv, [Next]_vars, home # 1 .. Groups, NEW s \in Sessions
      PROVE  Len(visible'[s]) <= Len(visible[s])
  <2>1. visible \in [Sessions -> Seq([of : Sessions, index : Nat])] /\ Len(visible[s]) \in Nat
    <3>1. visible \in [Sessions -> Seq([of : Sessions, index : Nat])]
      BY <1>1 DEF IInv, Types
    <3> QED
      BY <3>1, LenProperties
  <2>2. ASSUME visible' = visible PROVE Len(visible'[s]) <= Len(visible[s])
    BY <2>1, <2>2
  <2>3. ASSUME NEW t, Free(t) PROVE Len(visible'[s]) <= Len(visible[s])
    <3>1. visible' = [visible EXCEPT ![t] = << >>]
      BY <2>3 DEF Free
    <3>2. visible'[s] = visible[s] \/ visible'[s] = << >>
      BY <3>1, <2>1
    <3> QED
      BY <3>2, <2>1
  <2>4. ASSUME CommitRow PROVE FALSE
    BY <1>1, <2>4 DEF CommitRow, IInv, LaunchExact
  <2>5. CASE CallFails
    <3>1. visible' = visible \/ Free(call.rows[1])
      BY <2>5 DEF CallFails, sessions
    <3> QED
      BY <3>1, <2>2, <2>3
  <2>6. CASE UNCHANGED vars
    BY <2>2, <2>6 DEF vars, sessions
  <2>7. CASE \E t \in Sessions, p \in Prompts, m \in Budgets :
               PrepareServerTokens(t, p, m) \/ PrepareTokens(t, p, m)
    BY <2>2, <2>7 DEF PrepareServerTokens, PrepareTokens, Prepare
  <2>8. CASE PrefillBatch \/ DecodeBatch \/ PrefillStep \/ DecodeStep
    BY <2>2, <2>8 DEF PrefillBatch, DecodeBatch, PrefillStep, DecodeStep, Begin, sessions
  <2>9. CASE ReserveRow \/ Bind \/ Component \/ LaunchHead \/ Download \/ RollbackRow \/ CommitFails
    BY <2>2, <2>9 DEF ReserveRow, Bind, Component, LaunchHead, Download, RollbackRow, CommitFails, sessions
  <2>10. CASE \E t \in Sessions : ReleaseServerSession(t) \/ EndSession(t)
    BY <2>3, <2>10 DEF ReleaseServerSession, EndSession
  <2> QED
    BY <1>1, <2>4, <2>5, <2>6, <2>7, <2>8, <2>9, <2>10 DEF Next, Over
<1>2. IInv /\ [Next]_vars => [Silent]_vars
  BY <1>1
<1> QED
  BY <1>2, Invariant, PTL DEF Spec, LossStopsTokens

-----------------------------------------------------------------------------
(* The generator keeps to the ledger of the page manager.                  *)

LedgerStep == L!Next \/ UNCHANGED L!vars

\* When no session has a capacity, every page is free.
AllReturned == (\A s \in Sessions : capacity[s] = 0) => unclaimed = NumPages

LEMMA AllFree == Accounted => AllReturned
BY AccountBounds DEF AllReturned

LEMMA AllFreeNext == Accounted' => AllReturned'
BY AllFree, PTL

\* Within a capacity only the two lengths move.
LEMMA LengthsMove ==
  ASSUME IInv, NEW s \in Live, capacity[s] > 0,
         UNCHANGED <<status, capacity, unclaimed>>,
         \/ \E n \in tentative[s] .. capacity[s] : tentative' = [tentative EXCEPT ![s] = n] /\ committed' = committed
         \/ \E n \in committed[s] .. tentative[s] : tentative' = [tentative EXCEPT ![s] = n] /\ committed' = committed
         \/ \E n \in committed[s] .. tentative[s] : committed' = [committed EXCEPT ![s] = n] /\ tentative' = tentative
  PROVE  LedgerStep
<1>1. s \in Sessions /\ s \in Held /\ Held' = Held
  BY DEF Live, Held
<1>2. L!Extend(s) \/ L!Retract(s) \/ L!Publish(s)
  BY <1>1 DEF L!Extend, L!Retract, L!Publish
<1> QED
  BY <1>1, <1>2 DEF LedgerStep, L!Next

LEMMA PrepareKeepsLedger ==
  ASSUME IInv, NEW s \in Sessions, NEW p \in Prompts, NEW m \in Budgets,
         PrepareServerTokens(s, p, m) \/ PrepareTokens(s, p, m)
  PROVE  LedgerStep
<1> USE DEF IInv
<1> DEFINE n == PagesFor(Maximum(p, m))
<1>1. /\ status[s] = "new" /\ status' = [status EXCEPT ![s] = "live"]
      /\ UNCHANGED <<committed, tentative>>
      /\ \/ /\ n <= unclaimed /\ unclaimed' = unclaimed - n
            /\ capacity' = [capacity EXCEPT ![s] = n * PageSize]
         \/ UNCHANGED <<capacity, unclaimed>>
  BY DEF PrepareServerTokens, PrepareTokens, Prepare, Reserve, pages
<1>2. s \notin Live /\ Live' = Live \cup {s}
  BY <1>1 DEF Live, Types
<1>3. capacity[s] = 0
  BY <1>2 DEF OwnExact
<1>4. CASE UNCHANGED <<capacity, unclaimed>>
  <2>1. Held' = Held
    BY <1>2, <1>3, <1>4 DEF Held
  <2> QED
    BY <2>1, <1>1, <1>4 DEF LedgerStep, L!vars
<1>5. CASE /\ n <= unclaimed /\ unclaimed' = unclaimed - n
           /\ capacity' = [capacity EXCEPT ![s] = n * PageSize]
  <2>1. p \in Nat /\ p > 0 /\ m \in Nat
    BY GeneratorAssumption
  <2>2. n \in Nat /\ n * PageSize \in Nat /\ p + m <= n * PageSize
    BY <2>1, PagesForFacts DEF Maximum
  <2>3. n * PageSize > 0
    BY <2>1, <2>2
  <2>4. capacity'[s] = n * PageSize /\ \A t \in Sessions : t # s => capacity'[t] = capacity[t]
    BY <1>5, <2>2 DEF Types
  <2>5. Held' = Held \cup {s} /\ s \notin Held
    BY <2>3, <2>4, <1>2, Live \subseteq Sessions DEF Held, Live
  <2>6. n \in 0 .. NumPages
    BY <2>2, <1>5, AccountBounds, GeneratorAssumption
  <2>7. L!Grant(s, n)
    BY <2>5, <1>1, <1>5 DEF L!Grant
  <2> QED
    BY <2>6, <2>7 DEF LedgerStep, L!Next
<1> QED
  BY <1>1, <1>4, <1>5

LEMMA FreeKeepsLedger ==
  ASSUME IInv, IInv', NEW s \in Live, Free(s)
  PROVE  LedgerStep
<1> USE DEF IInv
<1>1. /\ status' = [status EXCEPT ![s] = "released"] /\ unclaimed' = Returned(s)
      /\ capacity' = [capacity EXCEPT ![s] = 0] /\ committed' = [committed EXCEPT ![s] = 0]
      /\ tentative' = [tentative EXCEPT ![s] = 0]
  BY DEF Free
<1>2. s \in Sessions /\ Live' = Live \ {s} /\ Live \subseteq Sessions
  BY <1>1 DEF Live, Types
<1>3. /\ capacity \in [Sessions -> Nat] /\ committed \in [Sessions -> Nat]
      /\ tentative \in [Sessions -> Nat] /\ unclaimed \in Nat
      /\ capacity[s] \div PageSize \in Nat
      /\ capacity[s] = 0 => capacity[s] \div PageSize = 0
  BY <1>2, AccountBounds DEF Types
<1>4. Held' = Held \ {s}
  BY <1>1, <1>2, <1>3 DEF Held
<1>5. CASE capacity[s] = 0
  <2>1. committed[s] = 0 /\ tentative[s] = 0
    BY <1>2, <1>3, <1>5 DEF OwnExact
  <2>2. capacity' = capacity /\ committed' = committed /\ tentative' = tentative /\ unclaimed' = unclaimed
    BY <2>1, <1>1, <1>3, <1>5 DEF Returned
  <2>3. Held' = Held
    BY <1>4, <1>5 DEF Held
  <2> QED
    BY <2>2, <2>3 DEF LedgerStep, L!vars
<1>6. CASE capacity[s] > 0
  <2>1. s \in Held
    BY <1>6 DEF Held
  <2>2. unclaimed' \in unclaimed .. unclaimed + capacity[s] \div PageSize
    BY <1>1, <1>3 DEF Returned
  <2>3. ASSUME Held' = {} PROVE unclaimed' = NumPages
    <3>1. \A t \in Sessions : t \notin Live' => capacity'[t] = 0
      BY DEF OwnExact
    <3>2. \A t \in Sessions : capacity'[t] \in Nat
      BY DEF Types
    <3>3. \A t \in Sessions : capacity'[t] = 0
      BY <2>3, <3>1, <3>2 DEF Held
    <3>4. AllReturned'
      BY AllFreeNext
    <3> QED
      BY <3>3, <3>4 DEF AllReturned
  <2>4. L!Return(s)
    BY <2>1, <2>2, <2>3, <1>1, <1>4 DEF L!Return
  <2> QED
    BY <2>4, <1>2 DEF LedgerStep, L!Next
<1> QED
  BY <1>2, <1>3, <1>5, <1>6

\* A live session of the server has a capacity, and so has every row of a call.
LEMMA HasCapacity ==
  ASSUME IInv, NEW s \in Live, s \notin doomed, mode = "server" \/ budget[s] > 0
  PROVE  capacity[s] > 0
<1>1. s \in Sessions
  BY DEF Live
<1>2. prompt[s] \in Prompts
  BY <1>1 DEF IInv, OwnExact
<1>3. prompt[s] \in Nat \ {0} /\ budget[s] \in Nat /\ capacity[s] \in Nat
  BY <1>1, <1>2, GeneratorAssumption DEF IInv, Types
<1>4. prompt[s] + budget[s] <= capacity[s]
  BY DEF IInv, InStep
<1> QED
  BY <1>3, <1>4

LEMMA RowsKeepLedger ==
  ASSUME IInv, ReserveRow \/ RollbackRow \/ CommitRow \/ CommitFails
  PROVE  LedgerStep
<1>1. CASE ReserveRow
  <2>1. pc = "reserve" /\ Row \in Live /\ Row \in Sessions
        /\ tentative[Row] <= Wanted(Row) /\ Wanted(Row) <= capacity[Row] /\ Wanted(Row) \in Nat
    BY <1>1, ReserveFits DEF ReserveRow
  <2>2. /\ tentative' = [tentative EXCEPT ![Row] = Wanted(Row)]
        /\ UNCHANGED <<status, capacity, committed, unclaimed>>
    BY <1>1, <2>1 DEF ReserveRow, sessions
  <2>3. tentative[Row] \in Nat /\ capacity[Row] \in Nat /\ budget[Row] \in Nat
    BY <2>1 DEF IInv, Types
  <2>4. Wanted(Row) \in tentative[Row] .. capacity[Row]
    BY <2>1, <2>3
  <2>5. Row \notin doomed
    BY <2>1 DEF IInv, CallExact
  <2>6. capacity[Row] > 0
    <3>1. at \in Uncommitted /\ call.rows[at] = Row
      BY <2>1, ReserveFits DEF Uncommitted, Row
    <3>2. budget[Row] > 0
      <4>1. /\ Generated(Row) \in Nat /\ call.kind \in {"Prefill", "Decode"}
            /\ call.kind = "Decode" => Generated(Row) < budget[Row]
        BY <2>1, <3>1, DueFacts
      <4>2. call.kind = "Prefill" => budget[Row] > 0
        BY <2>1, <3>1 DEF IInv, RowsDue
      <4> QED
        BY <4>1, <4>2, <2>3
    <3> QED
      BY <3>2, <2>1, <2>5, HasCapacity
  <2> QED
    BY <2>1, <2>2, <2>4, <2>6, LengthsMove
<1>2. CASE RollbackRow
  <2>1. /\ pc = "rollback" /\ tentative' = [tentative EXCEPT ![Row] = call.saved[at]]
        /\ UNCHANGED <<status, capacity, committed, unclaimed>>
    BY <1>2 DEF RollbackRow, sessions
  <2>2. /\ at \in 1 .. Len(call.rows) /\ Row = call.rows[at] /\ Len(call.saved) = Len(call.rows)
        /\ doomed = {} /\ mode = "server"
    BY <2>1 DEF IInv, AtExact, CallExact, Row, CliExact, Types
  <2>3. /\ Row \in Live /\ Row \in Sessions /\ at \in DOMAIN call.saved /\ call.saved[at] \in Nat
    <3>1. DOMAIN call.rows = 1 .. Len(call.rows) /\ DOMAIN call.saved = 1 .. Len(call.saved)
          /\ \A i \in 1 .. Len(call.saved) : call.saved[i] \in Nat
      BY Shapes DEF IInv
    <3>2. Row \in Live
      BY <2>1, <2>2, <3>1 DEF IInv, CallExact
    <3> QED
      BY <2>2, <3>1, <3>2 DEF Live
  <2>4. committed[Row] <= call.saved[at] /\ call.saved[at] <= tentative[Row]
    BY <2>1, <2>2, <2>3 DEF IInv, Checkpoints
  <2>5. call.saved[at] \in committed[Row] .. tentative[Row]
    BY <2>3, <2>4 DEF IInv, Types
  <2>6. capacity[Row] > 0
    BY <2>2, <2>3, HasCapacity
  <2> QED
    BY <2>1, <2>3, <2>5, <2>6, LengthsMove
<1>3. CASE CommitRow \/ CommitFails
  <2>1. /\ pc = "commit" /\ CommitPages /\ UNCHANGED <<status, capacity, tentative, unclaimed>>
    BY <1>3 DEF CommitRow, CommitFails
  <2>2. /\ Row \in Live /\ Row \in Sessions /\ Advance \in Nat /\ Advance > 0
        /\ committed'[Row] = committed[Row] + Advance /\ committed'[Row] <= tentative[Row]
    BY <2>1, CommitFacts
  <2>3. committed' = [committed EXCEPT ![Row] = committed'[Row]]
    <3>1. committed' = [committed EXCEPT ![Row] = committed[Row] + Advance]
      BY <2>1 DEF CommitPages
    <3> QED
      BY <3>1, <2>2
  <2>4. /\ committed[Row] \in Nat /\ tentative[Row] \in Nat /\ capacity[Row] \in Nat
        /\ tentative[Row] <= capacity[Row]
    BY <2>2, Bounds
  <2>5. committed'[Row] \in committed[Row] .. tentative[Row] /\ capacity[Row] > 0
    BY <2>2, <2>4
  <2> QED
    BY <2>1, <2>2, <2>3, <2>5, LengthsMove
<1> QED
  BY <1>1, <1>2, <1>3

\* The generator implements the ledger: it is granted a capacity once, moves its two lengths
\* within it, and gives everything back when the session goes.
THEOREM LedgerIsUsed == Spec => UsesLedger
<1>1. Init => L!Init
  BY DEF Init, L!Init, Held, Live
<1>2. ASSUME IInv, IInv', [Next]_vars PROVE LedgerStep
  <2>1. ASSUME UNCHANGED <<status, capacity, committed, tentative, unclaimed>> PROVE LedgerStep
    BY <2>1 DEF LedgerStep, L!vars, Held, Live
  <2>2. CASE UNCHANGED vars
    BY <2>1, <2>2 DEF vars, sessions, pages
  <2>3. CASE \E s \in Sessions, p \in Prompts, m \in Budgets :
               PrepareServerTokens(s, p, m) \/ PrepareTokens(s, p, m)
    BY <1>2, <2>3, PrepareKeepsLedger
  <2>4. CASE PrefillBatch \/ DecodeBatch \/ PrefillStep \/ DecodeStep
    BY <2>1, <2>4 DEF PrefillBatch, DecodeBatch, PrefillStep, DecodeStep, Begin, sessions, pages
  <2>5. CASE Bind \/ Component \/ LaunchHead \/ Download
    BY <2>1, <2>5 DEF Bind, Component, LaunchHead, Download, sessions, pages
  <2>6. CASE ReserveRow \/ RollbackRow \/ CommitRow \/ CommitFails
    BY <1>2, <2>6, RowsKeepLedger
  <2>7. CASE CallFails
    <3>1. CASE mode = "server"
      BY <2>1, <2>7, <3>1 DEF CallFails, sessions, pages
    <3>2. CASE mode # "server"
      <4>1. Free(call.rows[1]) /\ pc # "idle"
        BY <2>7, <3>2 DEF CallFails
      <4>2. call.rows[1] \in Live
        <5>1. Len(call.rows) \in Nat /\ DOMAIN call.rows = 1 .. Len(call.rows)
          BY <1>2, Shapes DEF IInv
        <5>2. Len(call.rows) > 0 /\ \A i \in DOMAIN call.rows : call.rows[i] \in Live
          BY <1>2, <4>1, <5>1 DEF IInv, CallExact
        <5> QED
          BY <5>1, <5>2
      <4> QED
        BY <1>2, <4>1, <4>2, FreeKeepsLedger
    <3> QED
      BY <3>1, <3>2
  <2>8. CASE \E s \in Sessions : ReleaseServerSession(s) \/ EndSession(s)
    BY <1>2, <2>8, FreeKeepsLedger DEF ReleaseServerSession, EndSession
  <2> QED
    BY <1>2, <2>2, <2>3, <2>4, <2>5, <2>6, <2>7, <2>8 DEF Next, Over
<1>3. IInv /\ IInv' /\ [Next]_vars => [L!Next]_(L!vars)
  BY <1>2 DEF LedgerStep
<1> QED
  BY <1>1, <1>3, Invariant, PTL DEF Spec, UsesLedger, L!Spec

-----------------------------------------------------------------------------
(* The launches of attention: how the programs of a grid divide their work.  *)

\* The shapes of which the launches are exact: the bound is that of PowersOfTwo.
Geometries ==
  {g \in [rows : Nat \ {0}, queries : Nat \ {0}, heads : Nat \ {0}, kvHeads : Nat \ {0},
          headDim : Nat, pageSize : Nat \ {0}, cores : Nat \ {0}] :
     /\ g.heads % g.kvHeads = 0
     /\ g.heads \div g.kvHeads <= 4096 /\ g.pageSize <= 4096 /\ 4 * g.cores <= 4096}

\* A set of naturals that is not empty has a smallest element.
LEMMA NatMin ==
  ASSUME NEW S \in SUBSET Nat, S # {}
  PROVE  \E n \in S : \A m \in S : n <= m
<1>1. PICK n \in S : \A m \in S : <<m, n>> \notin OpToRel(<, Nat)
  BY NatLessThanWellFounded, WFMin
<1>2. \A m \in S : ~(m < n)
  BY <1>1 DEF OpToRel
<1>3. QED
  BY <1>2

\* A number is its quotient and its rest, ...
LEMMA Parts ==
  ASSUME NEW a \in Nat, NEW b \in Nat \ {0}
  PROVE  /\ a \div b \in Nat /\ a % b \in 0 .. b - 1
         /\ a = (a \div b) * b + (a % b)
<1>1. a = b * (a \div b) + (a % b) /\ a \div b \in Int /\ a % b \in 0 .. b - 1
  OBVIOUS
<1> DEFINE q == a \div b
           r == a % b
<1>2. a = b * q + r /\ q \in Int /\ r \in 0 .. b - 1
  BY <1>1
<1> HIDE DEF q, r
<1>3. q >= 0 /\ b * q = q * b
  BY <1>2
<1>4. q \in Nat /\ a = q * b + r
  BY <1>2, <1>3
<1> QED
  BY <1>2, <1>4 DEF q, r

\* ... and there is only one way to be that.
LEMMA PartsAre ==
  ASSUME NEW q \in Nat, NEW b \in Nat \ {0}, NEW r \in 0 .. b - 1
  PROVE  q * b + r \in Nat /\ (q * b + r) \div b = q /\ (q * b + r) % b = r
<1> DEFINE a == q * b + r
           p == a \div b
           s == a % b
           qb == q * b
           pb == p * b
<1>1. a \in Nat /\ qb \in Nat /\ a = qb + r
  BY Multiples
<1>2. p \in Nat /\ s \in 0 .. b - 1 /\ a = pb + s /\ pb \in Nat
  <2>1. a \in Nat BY <1>1
  <2> HIDE DEF a
  <2>2. QED BY <2>1, Parts, Multiples
<1>3. /\ p < q => pb + b <= qb
      /\ q < p => qb + b <= pb
  <2>1. p \in Nat BY <1>2
  <2> HIDE DEF p
  <2>2. QED BY <2>1, Multiples
<1> HIDE DEF a, p, s, qb, pb
<1>4. p = q
  BY <1>1, <1>2, <1>3
<1>5. pb = qb
  BY <1>4 DEF pb, qb
<1>6. s = r
  BY <1>1, <1>2, <1>5
<1> QED
  BY <1>1, <1>4, <1>6 DEF a, p, s

\* Parts of something smaller.
LEMMA PartsBelow ==
  ASSUME NEW m \in Nat, NEW b \in Nat \ {0}, NEW q \in 0 .. m - 1, NEW r \in 0 .. b - 1
  PROVE  q * b + r < m * b
<1> DEFINE qb == q * b
           mb == m * b
<1>1. qb \in Nat /\ mb \in Nat /\ qb + b <= mb
  BY Multiples
<1> HIDE DEF qb, mb
<1>2. qb + r < mb
  BY <1>1
<1> QED
  BY <1>2 DEF qb, mb

\* The quotient of something smaller.
LEMMA QuotientBelow ==
  ASSUME NEW m \in Nat, NEW b \in Nat \ {0}, NEW a \in Nat, a < m * b
  PROVE  a \div b \in 0 .. m - 1
<1> DEFINE q == a \div b
           r == a % b
           qb == q * b
           mb == m * b
<1>1. q \in Nat /\ r \in 0 .. b - 1 /\ a = qb + r /\ a < mb
  BY Parts
<1> HIDE DEF q, r
<1>2. qb \in Nat /\ mb \in Nat /\ (m < q => mb + b <= qb) /\ (m = q => mb = qb)
  BY <1>1, Multiples
<1> HIDE DEF qb, mb
<1>3. q < m
  BY <1>1, <1>2
<1> QED
  BY <1>1, <1>3 DEF q

\* The quotient of a sum is at least the sum of the quotients, and rises with it.
LEMMA QuotientOfSum ==
  ASSUME NEW a \in Nat, NEW c \in Nat, NEW e \in Nat, NEW b \in Nat \ {0}, a + c <= e
  PROVE  (a \div b) + (c \div b) <= e \div b
<1> DEFINE x == a \div b
           y == c \div b
           z == e \div b
           xb == x * b
           yb == y * b
           zb == z * b
           sb == (x + y) * b
           i == a % b
           j == c % b
           k == e % b
<1>1. /\ x \in Nat /\ i \in 0 .. b - 1 /\ a = xb + i
      /\ y \in Nat /\ j \in 0 .. b - 1 /\ c = yb + j
      /\ z \in Nat /\ k \in 0 .. b - 1 /\ e = zb + k
  BY Parts, Zenon
<1>2. i \in Nat /\ a = xb + i /\ j \in Nat /\ c = yb + j /\ k \in 0 .. b - 1 /\ e = zb + k
  <2>1. i \in 0 .. b - 1 /\ j \in 0 .. b - 1 BY <1>1
  <2> HIDE DEF i, j, k, xb, yb, zb
  <2>2. QED BY <1>1, <2>1
<1> HIDE DEF x, y, z, i, j, k
<1>3. sb = xb + yb /\ xb \in Nat /\ yb \in Nat /\ zb \in Nat /\ (z < x + y => zb + b <= sb)
  BY <1>1, Multiples
<1> HIDE DEF xb, yb, zb, sb
<1>4. ~(z < x + y)
  BY <1>2, <1>3
<1>5. x + y <= z
  BY <1>1, <1>4
<1> QED
  BY <1>5 DEF x, y, z

-----------------------------------------------------------------------------
(* The binary search.                                                        *)

\* Where the bounds up to one point are at most the target and those from there on are
\* above it, the search ends in front of that point.
LEMMA SearchFinds ==
  ASSUME NEW rows \in Nat, NEW bounds \in [0 .. rows -> Int], NEW target \in Int, NEW p \in 0 .. rows,
         \A s \in 0 .. rows : bounds[s] <= target <=> s < p
  PROVE  Attention!FindSequence(bounds, rows, target) = p - 1
<1> DEFINE W == [left : 0 .. rows, right : 0 .. rows]
           next(w) == Attention!Narrow(bounds, target, w)
           clamp(w) == IF w.right <= w.left \/ p <= w.left THEN w.left
                       ELSE IF w.right <= p THEN w.right ELSE p
           Is(f) == f = [w \in W |-> IF w.left < w.right THEN f[next(w)] ELSE w.left - 1]
           g == [w \in W |-> clamp(w) - 1]
           search == CHOOSE f : Is(f)
<1>1. ASSUME NEW w \in W, w.left < w.right
      PROVE  /\ next(w) \in W
             /\ next(w).right - next(w).left \in 0 .. w.right - w.left - 1
             /\ clamp(next(w)) = clamp(w)
  <2> DEFINE l == w.left
             r == w.right
             m == (l + r) \div 2
  <2>1. l \in 0 .. rows /\ r \in 0 .. rows /\ l < r /\ m \in l .. r - 1 BY <1>1
  <2>2. bounds[m] <= target <=> m < p BY <2>1
  <2>3. CASE m < p
    <3>1. next(w) = [w EXCEPT !.left = m + 1] BY <2>2, <2>3 DEF Attention!Narrow
    <3>2. next(w) = [left |-> m + 1, right |-> r] BY <3>1
    <3> HIDE DEF m, l, r
    <3>3. next(w) \in W /\ next(w).left = m + 1 /\ next(w).right = r BY <2>1, <3>2
    <3>4. clamp(next(w)) = clamp(w) BY <2>1, <2>3, <3>3 DEF l, r
    <3>4a. r - (m + 1) \in 0 .. r - l - 1 /\ m - l \in 0 .. r - l - 1 BY <2>1
    <3> HIDE DEF next
    <3>5. next(w).right - next(w).left \in 0 .. w.right - w.left - 1 BY <3>3, <3>4a DEF l, r
    <3> HIDE DEF next, clamp, W
    <3>6. QED BY <3>3, <3>4, <3>5
  <2>4. CASE ~(m < p)
    <3>1. next(w) = [w EXCEPT !.right = m] BY <2>2, <2>4 DEF Attention!Narrow
    <3>2. next(w) = [left |-> l, right |-> m] BY <3>1
    <3> HIDE DEF m, l, r
    <3>3. next(w) \in W /\ next(w).left = l /\ next(w).right = m BY <2>1, <3>2
    <3>4. clamp(next(w)) = clamp(w) BY <2>1, <2>4, <3>3 DEF l, r
    <3>4a. r - (m + 1) \in 0 .. r - l - 1 /\ m - l \in 0 .. r - l - 1 BY <2>1
    <3> HIDE DEF next
    <3>5. next(w).right - next(w).left \in 0 .. w.right - w.left - 1 BY <3>3, <3>4a DEF l, r
    <3> HIDE DEF next, clamp, W
    <3>6. QED BY <3>3, <3>4, <3>5
  <2>5. QED BY <2>3, <2>4
<1>2. Is(g)
  <2>1. ASSUME NEW w \in W PROVE g[w] = IF w.left < w.right THEN g[next(w)] ELSE w.left - 1
    <3>1. CASE w.left < w.right
      <4>1. next(w) \in W /\ clamp(next(w)) = clamp(w) BY <1>1, <3>1
      <4> HIDE DEF next, clamp
      <4>2. QED BY <3>1, <4>1
    <3>2. CASE ~(w.left < w.right)
      <4>1. w.right <= w.left BY <3>2
      <4>2. QED BY <3>2, <4>1
    <3>3. QED BY <3>1, <3>2
  <2> HIDE DEF next, clamp
  <2>2. QED BY <2>1
<1>3. Is(search) BY <1>2
<1>4. Attention!FindSequence(bounds, rows, target) = search[[left |-> 0, right |-> rows]]
  BY DEF Attention!FindSequence
<1> HIDE DEF search, g, next, clamp
<1> DEFINE bad == {n \in Nat : \E w \in W : w.right - w.left <= n /\ search[w] # g[w]}
<1>5. bad = {}
  <2> SUFFICES ASSUME bad # {} PROVE FALSE OBVIOUS
  <2>1. PICK n \in bad : \A k \in bad : n <= k BY NatMin
  <2>1a. n \in Nat OBVIOUS
  <2>2. PICK w \in W : w.right - w.left <= n /\ search[w] # g[w] BY <2>1
  <2>3. CASE w.left < w.right
    <3>1. next(w) \in W /\ next(w).right - next(w).left \in 0 .. w.right - w.left - 1 BY <1>1, <2>3
    <3>2. search[w] = search[next(w)] /\ g[w] = g[next(w)] BY <1>2, <1>3, <2>3
    <3>2a. w.left \in Nat /\ w.right \in Nat /\ next(w).right \in Nat /\ next(w).left \in Nat BY <3>1
    <3> DEFINE d == w.right - w.left
               e == next(w).right - next(w).left
    <3>2b. d \in Nat /\ d <= n /\ e \in 0 .. d - 1
      <4>0. d <= n BY <2>2
      <4>1. d \in Nat BY ONLY <2>3, <3>2a
      <4>2. e \in 0 .. d - 1 BY <3>1
      <4> QED BY <4>0, <4>1, <4>2
    <3> HIDE DEF d, e
    <3>2c. n - 1 \in Nat /\ e <= n - 1 BY <2>1a, <3>2b
    <3>3. n - 1 \in Nat /\ next(w).right - next(w).left <= n - 1 BY <3>2c DEF e
    <3>4. n - 1 \in bad BY <2>2, <3>1, <3>2, <3>3
    <3> HIDE DEF bad
    <3>5. QED BY <2>1, <2>1a, <3>4
  <2>4. CASE ~(w.left < w.right)
    BY <1>2, <1>3, <2>2, <2>4
  <2>5. QED BY <2>3, <2>4
<1>6. search[[left |-> 0, right |-> rows]] = p - 1
  <2> DEFINE w == [left |-> 0, right |-> rows]
  <2>1. w \in W /\ rows \in Nat /\ w.right - w.left <= rows BY SMT
  <2> HIDE DEF W
  <2>2. search[w] = g[w] BY <1>5, <2>1
  <2>3. g[w] = clamp(w) - 1 BY <2>1 DEF g
  <2>4. clamp(w) = p BY DEF clamp
  <2>5. QED BY <2>2, <2>3, <2>4
<1>7. QED BY <1>4, <1>6

-----------------------------------------------------------------------------
(* Query blocks.                                                             *)

\* The first block of row s, if every row has `queries` slots.
First(queries, blockQ, s) == (s * queries) \div blockQ + s

\* A row's blocks lie behind those of the rows before it, and there is one for each of its slots.
LEMMA FirstRises ==
  ASSUME NEW Q \in Nat \ {0}, NEW B \in Nat \ {0}, NEW s \in Nat
  PROVE  /\ First(Q, B, s) \in Nat /\ First(Q, B, 0) = 0
         /\ \A t \in Nat : s < t => First(Q, B, s) < First(Q, B, t)
         /\ \A q \in 0 .. Q - 1 : First(Q, B, s) + (q \div B) < First(Q, B, s + 1)
<1>1. \A t \in Nat : t * Q \in Nat /\ (t * Q) \div B \in Nat
  <2>1. ASSUME NEW t \in Nat PROVE t * Q \in Nat BY Multiples
  <2>2. ASSUME NEW a \in Nat PROVE a \div B \in Nat BY Parts
  <2>3. QED BY <2>1, <2>2
<1>2. First(Q, B, 0) = 0
  <2>1. 0 * Q = 0 BY Multiples
  <2>2. 0 \div B = 0
    <3>1. 0 * B + 0 = 0 BY Multiples
    <3>2. 0 \in 0 .. B - 1 OBVIOUS
    <3>3. QED BY <3>1, <3>2, PartsAre
  <2>3. QED BY <2>1, <2>2 DEF First
<1>3. ASSUME NEW t \in Nat, s < t PROVE First(Q, B, s) < First(Q, B, t)
  <2>1. s * Q <= t * Q
    <3> DEFINE sq == s * Q
               tq == t * Q
    <3>1. sq \in Nat /\ tq \in Nat /\ sq + Q <= tq BY <1>3, Multiples
    <3> HIDE DEF sq, tq
    <3>2. sq <= tq BY <3>1
    <3>3. QED BY <3>2 DEF sq, tq
  <2> DEFINE a == s * Q
             e == t * Q
  <2>2. a \in Nat /\ e \in Nat /\ a + 0 <= e BY <1>1, <2>1
  <2>3. a \div B \in Nat /\ e \div B \in Nat BY <1>1
  <2> HIDE DEF a, e
  <2>4. (a \div B) + (0 \div B) <= e \div B BY <2>2, QuotientOfSum
  <2>5. 0 \div B \in Nat BY Parts
  <2> DEFINE x == a \div B
             y == e \div B
             z == 0 \div B
  <2>6. x \in Nat /\ y \in Nat /\ z \in Nat /\ x + z <= y BY <2>3, <2>4, <2>5
  <2> HIDE DEF x, y, z
  <2>7. x + s < y + t BY <1>3, <2>6
  <2>8. QED BY <2>7 DEF x, y, a, e, First
<1>4. ASSUME NEW q \in 0 .. Q - 1 PROVE First(Q, B, s) + (q \div B) < First(Q, B, s + 1)
  <2> DEFINE a == s * Q
             e == (s + 1) * Q
  <2>1. a \in Nat /\ e \in Nat /\ q \in Nat /\ a + q <= e
    <3>1. a \in Nat /\ e \in Nat /\ a + Q <= e BY Multiples
    <3> HIDE DEF a, e
    <3>2. QED BY <3>1
  <2>2. a \div B \in Nat /\ e \div B \in Nat BY <1>1
  <2> HIDE DEF a, e
  <2>3. (a \div B) + (q \div B) <= e \div B BY <2>1, QuotientOfSum
  <2>4. q \div B \in Nat BY <2>1, Parts
  <2> DEFINE x == a \div B
             y == e \div B
             z == q \div B
  <2>5. x \in Nat /\ y \in Nat /\ z \in Nat /\ x + z <= y BY <2>2, <2>3, <2>4
  <2> HIDE DEF x, y, z
  <2>6. x + s + z < y + (s + 1) BY <2>5
  <2>7. QED BY <2>6 DEF x, y, z, a, e, First
<1>5. First(Q, B, s) \in Nat BY <1>1 DEF First
<1>6. QED BY <1>2, <1>3, <1>4, <1>5

\* The binary search finds the row that a block belongs to.
LEMMA RowFound ==
  ASSUME NEW rows \in Nat, NEW Q \in Nat \ {0}, NEW B \in Nat \ {0}, NEW s \in 0 .. rows - 1,
         NEW b \in Nat, First(Q, B, s) <= b, b < First(Q, B, s + 1),
         NEW bounds, bounds = [t \in 0 .. rows |-> First(Q, B, t)]
  PROVE  Attention!FindSequence(bounds, rows, b) = s
<1>1. \A t \in Nat : First(Q, B, t) \in Nat
  BY FirstRises
<1>2. bounds \in [0 .. rows -> Int]
  BY <1>1
<1>3. ASSUME NEW t \in 0 .. rows PROVE bounds[t] <= b <=> t < s + 1
  <2>1. s \in Nat /\ s + 1 \in Nat /\ t \in Nat /\ bounds[t] = First(Q, B, t) OBVIOUS
  <2>2. /\ t < s => First(Q, B, t) < First(Q, B, s)
        /\ s + 1 < t => First(Q, B, s + 1) < First(Q, B, t)
    <3>1. \A x \in Nat, y \in Nat : x < y => First(Q, B, x) < First(Q, B, y) BY FirstRises
    <3>2. QED BY ONLY <2>1, <3>1, Zenon
  <2> DEFINE x == First(Q, B, t)
             y == First(Q, B, s)
             z == First(Q, B, s + 1)
  <2>3. x \in Nat /\ y \in Nat /\ z \in Nat BY <1>1, <2>1
  <2>4. (t = s => x = y) /\ (t = s + 1 => x = z) OBVIOUS
  <2>5. y <= b /\ b < z OBVIOUS
  <2>6. (t < s => x < y) /\ (s + 1 < t => z < x) BY <2>2
  <2> HIDE DEF x, y, z
  <2>7. x <= b <=> t < s + 1 BY <2>1, <2>3, <2>4, <2>5, <2>6
  <2>8. QED BY <2>1, <2>7 DEF x
<1>4. s + 1 \in 0 .. rows /\ b \in Int /\ (s + 1) - 1 = s
  OBVIOUS
<1>5. Attention!FindSequence(bounds, rows, b) = (s + 1) - 1
  <2>1. \A t \in 0 .. rows : bounds[t] <= b <=> t < s + 1 BY <1>3
  <2>2. rows \in Nat OBVIOUS
  <2> DEFINE p == s + 1
  <2>3. p \in 0 .. rows /\ \A t \in 0 .. rows : bounds[t] <= b <=> t < p BY <1>4, <2>1
  <2> HIDE DEF p
  <2>4. Attention!FindSequence(bounds, rows, b) = p - 1
    BY ONLY <1>2, <1>4, <2>2, <2>3, SearchFinds
  <2>5. QED BY <2>4 DEF p
<1>6. QED BY <1>4, <1>5

\* Every block of the grid belongs to a row.
LEMMA RowThere ==
  ASSUME NEW rows \in Nat, NEW Q \in Nat \ {0}, NEW B \in Nat \ {0},
         NEW b \in Nat, b < First(Q, B, rows)
  PROVE  \E s \in 0 .. rows - 1 : First(Q, B, s) <= b /\ b < First(Q, B, s + 1)
<1> DEFINE above == {t \in Nat : b < First(Q, B, t)}
<1>1. PICK t \in above : \A x \in above : t <= x
  BY NatMin
<1>2. t \in Nat /\ b < First(Q, B, t) /\ t <= rows
  BY <1>1
<1>3. t # 0
  <2>1. First(Q, B, 0) = 0 BY FirstRises
  <2>2. QED BY <1>2, <2>1
<1>4. t - 1 \in 0 .. rows - 1 /\ t - 1 \in Nat /\ (t - 1) + 1 = t
  BY <1>2, <1>3
<1>5. t - 1 \notin above
  <2> HIDE DEF above
  <2>1. QED BY <1>1, <1>2
<1>6. First(Q, B, t - 1) <= b
  <2>1. ~(b < First(Q, B, t - 1)) BY <1>4, <1>5
  <2>2. First(Q, B, t - 1) \in Nat BY <1>4, FirstRises
  <2>3. QED BY <2>1, <2>2
<1>7. QED BY <1>2, <1>4, <1>6

-----------------------------------------------------------------------------
(* Lanes.                                                                    *)

\* Rows of Q slots, blocks of B slots with N lanes for each, and K groups of G heads.
Grid(Q, B, N, G, K) ==
  /\ Q \in Nat \ {0} /\ B \in Nat \ {0} /\ N \in Nat \ {0} /\ G \in 1 .. N /\ K \in Nat \ {0}

\* Block b, group h and lane r of it are those for slot q and head j of row s.
LaneFor(Q, B, N, G, K, s, q, j, b, h, r) ==
  /\ Grid(Q, B, N, G, K)
  /\ s \in Nat /\ q \in 0 .. Q - 1 /\ j \in Nat /\ j < K * G
  /\ b = First(Q, B, s) + (q \div B) /\ h = j \div G /\ r = (q % B) * N + (j % G)

\* Slot q and head j are what lane r of block b and group h computes of row s.
OutputOf(Q, B, N, G, K, s, q, j, b, h, r) ==
  /\ Grid(Q, B, N, G, K)
  /\ s \in Nat /\ b \in Nat /\ First(Q, B, s) <= b
  /\ h \in 0 .. K - 1 /\ r \in Nat /\ r < B * N /\ r % N < G
  /\ q = (b - First(Q, B, s)) * B + (r \div N) /\ j = h * G + (r % N)

\* The lane that computes slot q and query head j of row s, ...
LEMMA OutputHasLane ==
  ASSUME NEW Q, NEW B, NEW N, NEW G, NEW K, NEW s, NEW q, NEW j, NEW b, NEW h, NEW r,
         LaneFor(Q, B, N, G, K, s, q, j, b, h, r), NEW rows \in Nat, s < rows
  PROVE  /\ b \in Nat /\ First(Q, B, s) <= b /\ b < First(Q, B, s + 1) /\ b < First(Q, B, rows)
         /\ h \in 0 .. K - 1
         /\ r \in Nat /\ r < B * N /\ r % N < G
         /\ (b - First(Q, B, s)) * B + (r \div N) = q
         /\ h * G + (r % N) = j
<1> DEFINE f == First(Q, B, s)
           n == First(Q, B, s + 1)
           z == First(Q, B, rows)
           x == q \div B
           y == q % B
           i == j % G
<1>0. /\ Q \in Nat \ {0} /\ B \in Nat \ {0} /\ N \in Nat \ {0} /\ G \in 1 .. N /\ K \in Nat \ {0}
      /\ s \in Nat /\ q \in 0 .. Q - 1 /\ j \in Nat /\ j < K * G
      /\ b = First(Q, B, s) + (q \div B) /\ h = j \div G /\ r = (q % B) * N + (j % G)
  BY DEF LaneFor, Grid
<1>1. s \in Nat /\ s + 1 \in Nat /\ s + 1 <= rows /\ rows \in Nat /\ q \in Nat /\ G \in Nat \ {0} /\ N \in Nat
  BY <1>0
<1>2. x \in Nat /\ y \in 0 .. B - 1 /\ q = x * B + y
  BY <1>0, <1>1, Parts
<1>3. h \in 0 .. K - 1 /\ i \in 0 .. G - 1 /\ j = h * G + i
  BY <1>0, <1>1, Parts, QuotientBelow
<1>4. f \in Nat /\ n \in Nat /\ z \in Nat /\ f + x < n
  BY <1>0, <1>1, FirstRises
<1>5. n <= z
  <2>1. s + 1 < rows => n < z
    <3>1. \A a \in Nat, c \in Nat : a < c => First(Q, B, a) < First(Q, B, c) BY <1>0, FirstRises
    <3>2. QED BY ONLY <1>1, <3>1, Zenon DEF n, z
  <2>2. s + 1 = rows => n = z OBVIOUS
  <2> HIDE DEF n, z
  <2>3. QED BY <1>1, <1>4, <2>1, <2>2
<1>6. b = f + x BY <1>0
<1>7. r = y * N + i BY <1>0
<1> HIDE DEF f, n, z, x, y, i
<1>8. b \in Nat /\ f <= b /\ b < n /\ b < z /\ b - f = x
  BY <1>2, <1>4, <1>5, <1>6
<1>9. i \in 0 .. N - 1 /\ i < G
  BY <1>0, <1>3
<1>10. r \in Nat /\ r \div N = y /\ r % N = i
  <2>1. y \in Nat /\ N \in Nat \ {0} BY <1>0, <1>2
  <2>2. y * N + i \in Nat /\ (y * N + i) \div N = y /\ (y * N + i) % N = i BY ONLY <1>9, <2>1, PartsAre
  <2>3. QED BY <1>7, <2>2
<1>11. r < B * N
  <2>1. y * N + i < B * N BY <1>0, <1>1, <1>2, <1>9, PartsBelow
  <2>2. QED BY <1>7, <2>1
<1>12. QED
  BY <1>2, <1>3, <1>8, <1>9, <1>10, <1>11 DEF f, n, z

\* ... and what a lane stores: there is no other lane for it.
LEMMA LaneHasOutput ==
  ASSUME NEW Q, NEW B, NEW N, NEW G, NEW K, NEW s, NEW slot, NEW head, NEW b, NEW h, NEW r,
         OutputOf(Q, B, N, G, K, s, slot, head, b, h, r)
  PROVE  /\ slot \in Nat /\ head \in Nat /\ head < K * G
         /\ b = First(Q, B, s) + (slot \div B)
         /\ h = head \div G
         /\ r = (slot % B) * N + (head % G)
<1> DEFINE f == First(Q, B, s)
           x == b - f
           y == r \div N
           i == r % N
<1>0. /\ Q \in Nat \ {0} /\ B \in Nat \ {0} /\ N \in Nat \ {0} /\ G \in 1 .. N /\ K \in Nat \ {0}
      /\ s \in Nat /\ b \in Nat /\ First(Q, B, s) <= b
      /\ h \in 0 .. K - 1 /\ r \in Nat /\ r < B * N /\ r % N < G
      /\ slot = (b - First(Q, B, s)) * B + (r \div N) /\ head = h * G + (r % N)
  BY DEF OutputOf, Grid
<1>1. f \in Nat /\ G \in Nat \ {0} /\ h \in Nat
  BY <1>0, FirstRises
<1>2. x \in Nat /\ b = f + x
  <2> HIDE DEF f
  <2>1. f <= b BY <1>0 DEF f
  <2>2. QED BY <1>0, <1>1, <2>1
<1>3. y \in 0 .. B - 1 /\ i \in 0 .. N - 1 /\ r = y * N + i
  BY <1>0, Parts, QuotientBelow
<1>4. i \in 0 .. G - 1
  BY <1>0, <1>3
<1>5. slot = x * B + y /\ head = h * G + i BY <1>0
<1> HIDE DEF x, y, i, f
<1>6. slot \in Nat /\ slot \div B = x /\ slot % B = y
  <2>1. B \in Nat \ {0} BY <1>0
  <2>2. x * B + y \in Nat /\ (x * B + y) \div B = x /\ (x * B + y) % B = y BY ONLY <1>2, <1>3, <2>1, PartsAre
  <2>3. QED BY <1>5, <2>2
<1>7. head \in Nat /\ head \div G = h /\ head % G = i
  <2>1. h * G + i \in Nat /\ (h * G + i) \div G = h /\ (h * G + i) % G = i BY ONLY <1>1, <1>4, PartsAre
  <2>2. QED BY <1>5, <2>1
<1>8. head < K * G
  <2>1. K \in Nat /\ h \in 0 .. K - 1 BY <1>0
  <2>2. h * G + i < K * G BY ONLY <1>1, <1>4, <2>1, PartsBelow
  <2>3. QED BY <1>5, <2>2
<1>9. QED
  BY <1>2, <1>3, <1>6, <1>7, <1>8 DEF f

-----------------------------------------------------------------------------
(* Split-K, and the choice of a launch.                                      *)

\* The reduction looks at the segments that were computed.
LEMMA SegmentsAgree ==
  ASSUME NEW length \in Nat, NEW segments \in Nat \ {0}, NEW tile \in Nat \ {0}, NEW i \in Nat
  PROVE  Attention!Produced(length, segments, tile, i) <=> i < Attention!ActiveSegments(length, segments, tile)
<1> DEFINE st == segments * tile
           t == (length + st - 1) \div st
           seg == t * tile
           last == (length + seg - 1) \div (IF seg < 1 THEN 1 ELSE seg)
<1>1. /\ Attention!Produced(length, segments, tile, i) <=> i * t * tile < length
      /\ Attention!ActiveSegments(length, segments, tile) = last
  BY DEF Attention!Produced, Attention!ActiveSegments, Attention!TilesPerSegment, Attention!CeilDiv,
         Attention!Greatest
<1>2. st \in Nat \ {0}
  OBVIOUS
<1> HIDE DEF st
<1>3. length + st - 1 \in Nat
  BY <1>2
<1>4. t \in Nat /\ (length + st - 1) % st \in 0 .. st - 1 /\ length + st - 1 = t * st + ((length + st - 1) % st)
  BY <1>2, <1>3, Parts
<1> HIDE DEF t
<1>5. seg \in Nat /\ i * t * tile = i * seg
  BY <1>4
<1> HIDE DEF seg
<1>6. CASE length = 0
  <2>1. t = 0
    <3>1. st - 1 \in 0 .. st - 1 /\ 0 * st + (st - 1) = length + st - 1 BY <1>2, <1>6
    <3>2. (0 * st + (st - 1)) \div st = 0 BY <1>2, <3>1, PartsAre
    <3>3. QED BY <3>1, <3>2 DEF t
  <2>2. seg = 0 BY <2>1 DEF seg
  <2>3. last = -1 BY <1>6, <2>2
  <2>4. ~(i * seg < length) BY <1>6, <2>2
  <2> HIDE DEF last
  <2>5. QED BY <1>1, <1>5, <2>3, <2>4
<1>7. CASE length # 0
  <2>1. t # 0
    <3>1. t = 0 => t * st = 0 BY <1>2
    <3> DEFINE rest == (length + st - 1) % st
    <3>2. rest \in 0 .. st - 1 /\ (t = 0 => length + st - 1 = rest) BY <1>2, <1>4, <3>1
    <3> HIDE DEF rest
    <3>3. QED BY <1>2, <1>7, <3>2
  <2>2. seg \in Nat \ {0}
    <3>1. 1 <= t BY <1>4, <2>1
    <3>2. QED BY <1>4, <3>1 DEF seg
  <2> DEFINE k == (length + seg - 1) \div seg
             z == (length + seg - 1) % seg
             ks == k * seg
             is == i * seg
  <2>3. last = k BY <2>2
  <2>4. length + seg - 1 \in Nat BY <2>2
  <2>5. k \in Nat /\ z \in 0 .. seg - 1 /\ length + seg - 1 = ks + z BY <2>2, <2>4, Parts
  <2> HIDE DEF k, z
  <2>6. /\ ks \in Nat /\ is \in Nat /\ (i = k => is = ks)
        /\ i < k => is + seg <= ks
        /\ k < i => ks + seg <= is
    BY <2>2, <2>5, Multiples
  <2> HIDE DEF ks, is
  <2>7. i < k <=> is < length
    <3>1. CASE i < k BY <2>2, <2>5, <2>6, <3>1
    <3>2. CASE i = k BY <2>2, <2>5, <2>6, <3>2
    <3>3. CASE k < i BY <2>2, <2>5, <2>6, <3>3
    <3>4. QED BY <2>5, <3>1, <3>2, <3>3
  <2> HIDE DEF last
  <2>8. QED BY <1>1, <1>5, <2>3, <2>7 DEF is
<1>8. QED BY <1>6, <1>7

\* A power of two that is large enough.
LEMMA PowerIs ==
  ASSUME NEW n \in Nat, n <= 4096
  PROVE  Attention!NextPowerOfTwo(n) \in Attention!PowersOfTwo /\ n <= Attention!NextPowerOfTwo(n)
<1> DEFINE P == Attention!PowersOfTwo
           S == {p \in P : n <= p}
<1>1. P \subseteq Nat /\ 4096 \in P
  BY DEF Attention!PowersOfTwo
<1>2. S \subseteq Nat /\ S # {}
  <2> HIDE DEF P
  <2>1. S \subseteq P OBVIOUS
  <2>2. 4096 \in S BY <1>1
  <2> HIDE DEF S
  <2>3. QED BY <1>1, <2>1, <2>2
<1>3. PICK p \in S : \A m \in S : p <= m
  <2> HIDE DEF S
  <2>1. QED BY <1>2, NatMin
<1>4. p \in P /\ n <= p /\ \A m \in P : n <= m => p <= m
  BY <1>3
<1> HIDE DEF P
<1>5. QED BY <1>4 DEF Attention!NextPowerOfTwo, P

\* The lanes of a head group divide a block.
LEMMA LanesDivide ==
  ASSUME NEW a \in Attention!PowersOfTwo, NEW c \in {16, 64, 128},
         NEW m, m = Attention!Greatest(a, c)
  PROVE  m \in Attention!PowersOfTwo /\ m \div a \in Nat \ {0} /\ (m \div a) * a = m
<1>1. a \in Nat \ {0} /\ m \in Attention!PowersOfTwo /\ m \in Nat
  BY DEF Attention!PowersOfTwo, Attention!Greatest
<1>2. \E k \in Nat \ {0} : m = k * a
  <2>1. CASE c <= a
    <3>1. m = 1 * a BY <1>1, <2>1 DEF Attention!Greatest
    <3>2. QED BY <3>1
  <2>2. CASE a < c
    <3>1. m = c BY <1>1, <2>2 DEF Attention!Greatest
    <3>2. a \in {1, 2, 4, 8, 16, 32, 64} BY <2>2 DEF Attention!PowersOfTwo
    <3>3. CASE c = 16
      <4>1. a \in {1, 2, 4, 8} BY <2>2, <3>2, <3>3
      <4>2. 16 = 16 * 1 /\ 16 = 8 * 2 /\ 16 = 4 * 4 /\ 16 = 2 * 8 OBVIOUS
      <4>3. QED BY <3>1, <3>3, <4>1, <4>2
    <3>4. CASE c = 64
      <4>1. a \in {1, 2, 4, 8, 16, 32} BY <2>2, <3>2, <3>4
      <4>2. 64 = 64 * 1 /\ 64 = 32 * 2 /\ 64 = 16 * 4 /\ 64 = 8 * 8 /\ 64 = 4 * 16 /\ 64 = 2 * 32 OBVIOUS
      <4>3. QED BY <3>1, <3>4, <4>1, <4>2
    <3>5. CASE c = 128
      <4>1. /\ 128 = 128 * 1 /\ 128 = 64 * 2 /\ 128 = 32 * 4 /\ 128 = 16 * 8
            /\ 128 = 8 * 16 /\ 128 = 4 * 32 /\ 128 = 2 * 64
        OBVIOUS
      <4>2. QED BY <3>1, <3>2, <3>5, <4>1
    <3>6. QED BY <3>3, <3>4, <3>5
  <2>3. QED BY <1>1, <2>1, <2>2
<1>3. PICK k \in Nat \ {0} : m = k * a
  BY <1>2
<1>4. 0 \in 0 .. a - 1 /\ k * a + 0 = m
  BY <1>1, <1>3
<1>5. m \div a = k
  <2>1. (k * a + 0) \div a = k BY ONLY <1>1, <1>4, PartsAre, k \in Nat
  <2>2. QED BY <1>4, <2>1
<1>6. QED BY <1>1, <1>3, <1>5

\* A launch whose blocks are filled by lanes, of which a head group has enough.
Filled(g, l) ==
  /\ l.blockQ \in Nat \ {0} /\ Attention!Lanes(g) \in Nat \ {0}
  /\ l.blockM = l.blockQ * Attention!Lanes(g)
  /\ g.heads \div g.kvHeads <= Attention!Lanes(g)
  /\ l.blocks = First(g.queries, l.blockQ, g.rows)

\* What the choice of a launch needs to know of a shape.
LEMMA GeometryIs ==
  ASSUME NEW g \in Geometries
  PROVE  /\ g.rows \in Nat \ {0} /\ g.queries \in Nat \ {0} /\ g.heads \in Nat \ {0} /\ g.kvHeads \in Nat \ {0}
         /\ g.pageSize \in Nat \ {0} /\ g.cores \in Nat \ {0}
         /\ g.heads \div g.kvHeads \in Nat \ {0}
         /\ g.heads = g.kvHeads * (g.heads \div g.kvHeads)
         /\ Attention!Lanes(g) \in Attention!PowersOfTwo
         /\ g.heads \div g.kvHeads <= Attention!Lanes(g)
         /\ Attention!DecodeTile(g) \in Attention!PowersOfTwo
<1> DEFINE G == g.heads \div g.kvHeads
           K == g.kvHeads
           H == g.heads
<1>1. /\ g.rows \in Nat \ {0} /\ g.queries \in Nat \ {0} /\ H \in Nat \ {0} /\ K \in Nat \ {0}
      /\ g.pageSize \in Nat \ {0} /\ g.cores \in Nat \ {0}
      /\ H % K = 0 /\ G <= 4096 /\ g.pageSize <= 4096
  BY DEF Geometries
<1>2. G \in Nat /\ H = G * K
  <2>1. G \in Nat /\ H = G * K + 0
    <3>1. H \in Nat /\ K \in Nat \ {0} /\ H % K = 0 BY <1>1
    <3> HIDE DEF H, K
    <3>2. G \in Nat /\ H = G * K + (H % K) BY ONLY <3>1, Parts DEF G, H, K
    <3>3. QED BY <3>1, <3>2
  <2> DEFINE GK == G * K
  <2>2. GK \in Nat BY <1>1, <2>1, Multiples
  <2>3. H = GK + 0 BY <2>1
  <2> HIDE DEF GK
  <2>4. H = GK BY <2>2, <2>3
  <2>5. QED BY <2>1, <2>4 DEF GK
<1>3. G # 0 /\ H = K * G
  <2> HIDE DEF G
  <2>1. QED BY <1>1, <1>2
<1>4. Attention!Lanes(g) \in Attention!PowersOfTwo /\ G <= Attention!Lanes(g)
  BY <1>1, <1>2, PowerIs DEF Attention!Lanes
<1>5. Attention!DecodeTile(g) \in Attention!PowersOfTwo
  <2>1. Attention!NextPowerOfTwo(g.pageSize) \in Attention!PowersOfTwo BY <1>1, PowerIs
  <2>2. 64 \in Attention!PowersOfTwo BY DEF Attention!PowersOfTwo
  <2>3. QED BY <2>1, <2>2 DEF Attention!DecodeTile, Attention!Least
<1>6. QED BY <1>1, <1>2, <1>3, <1>4, <1>5

\* A quotient that is rounded up is no greater than what was divided.
LEMMA RoundedUp ==
  ASSUME NEW x \in Nat \ {0}, NEW m \in Nat \ {0}
  PROVE  Attention!CeilDiv(x, m) \in 1 .. x
<1> DEFINE a == x + m - 1
<1>1. a \in Nat /\ a < (x + 1) * m
  <2>1. (x + 1) * m = x * m + m /\ x * m \in Nat /\ x <= x * m
    <3>1. m - 1 \in Nat OBVIOUS
    <3>2. x * (m - 1) \in Nat BY <3>1
    <3>3. x * m = x * (m - 1) + x OBVIOUS
    <3>4. (x + 1) * m = x * m + m OBVIOUS
    <3> DEFINE y == x * m
               z == x * (m - 1)
    <3>5. y = z + x /\ z \in Nat BY <3>2, <3>3
    <3> HIDE DEF y, z
    <3>6. y \in Nat /\ x <= y BY <3>5
    <3>7. x * m \in Nat /\ x <= x * m BY <3>6 DEF y
    <3>8. QED BY <3>4, <3>7
  <2> DEFINE y == x * m
             w == (x + 1) * m
  <2>2. w = y + m /\ y \in Nat /\ x <= y BY <2>1
  <2> HIDE DEF y, w
  <2>3. a \in Nat /\ a < w BY <2>2
  <2>4. QED BY <2>3 DEF w
<1> DEFINE q == a \div m
           r == a % m
<1>2. q \in Nat /\ r \in 0 .. m - 1 /\ a = q * m + r
  BY <1>1, Parts
<1>3. q # 0
  <2>1. q = 0 => a = r BY <1>2
  <2>2. QED BY <1>2, <2>1
<1>4. q \in 0 .. x
  <2>1. q \in 0 .. (x + 1) - 1
    <3>1. x + 1 \in Nat OBVIOUS
    <3> HIDE DEF a
    <3>2. QED BY <1>1, <3>1, QuotientBelow
  <2>2. (x + 1) - 1 = x OBVIOUS
  <2>3. QED BY <2>1, <2>2
<1>5. Attention!CeilDiv(x, m) = q
  BY DEF Attention!CeilDiv
<1> HIDE DEF q
<1>6. QED BY <1>3, <1>4, <1>5

\* Whichever launch is chosen, it can be built, and lanes fill its blocks.
LEMMA LaunchIs ==
  ASSUME NEW g \in Geometries, NEW l, l = Attention!Launch(g)
  PROVE  /\ Filled(g, l)
         /\ Attention!Buildable(g, l)
         /\ l.segments \in Nat \ {0} /\ l.tile \in Nat \ {0}
         /\ l.kind = "splitk" => g.queries = 1
<1> DEFINE P == Attention!PowersOfTwo
           N == Attention!Lanes(g)
           T == Attention!DecodeTile(g)
           Good(m, t, n) ==
             /\ l.blockM = m /\ l.blockQ = m \div N
             /\ l.tile = t /\ l.segments = n
             /\ m \in P /\ m \div N \in Nat \ {0} /\ (m \div N) * N = m /\ t \in P /\ n \in P
             /\ l.blocks = Attention!QueryBlocks(Attention!Tokens(g), g.rows, m \div N)
           Chosen == (\E m, t, n : Good(m, t, n)) /\ (l.kind = "splitk" => g.queries = 1)
<1>1. /\ N \in P /\ T \in P /\ g.heads \div g.kvHeads <= N
      /\ g.rows \in Nat \ {0} /\ g.queries \in Nat \ {0} /\ g.kvHeads \in Nat \ {0} /\ g.cores \in Nat \ {0}
  BY GeometryIs
<1>2. P \subseteq Nat \ {0} /\ {1, 8, 16, 64} \subseteq P
  BY DEF Attention!PowersOfTwo
<1>3. \A c \in {16, 64, 128} :
        LET m == Attention!Greatest(N, c)
        IN  m \in P /\ m \div N \in Nat \ {0} /\ (m \div N) * N = m
  BY <1>1, LanesDivide
<1>4. ASSUME ~Attention!AllDecode(g) \/ g.rows > 128 \div g.kvHeads PROVE Chosen
  <2> DEFINE c == IF ~(g.queries >= 256) THEN 16 ELSE IF g.headDim >= 256 THEN 64 ELSE 128
             m == Attention!Greatest(N, c)
             t == IF g.queries >= 256 /\ g.headDim >= 256 THEN 16 ELSE IF Attention!AllDecode(g) THEN T ELSE 64
  <2>1. l = [kind |-> "2d", blockM |-> m, blockQ |-> m \div N, segments |-> 1, tile |-> t,
             blocks |-> Attention!QueryBlocks(Attention!Tokens(g), g.rows, m \div N)]
    BY <1>4 DEF Attention!Launch, Attention!TwoDimensional
  <2>2. c \in {16, 64, 128} /\ t \in P BY <1>1, <1>2
  <2> HIDE DEF c, t, P, N
  <2>3. m \in P /\ m \div N \in Nat \ {0} /\ (m \div N) * N = m BY <1>3, <2>2
  <2> HIDE DEF m
  <2>4. Good(m, t, 1) /\ l.kind = "2d" BY <1>2, <2>1, <2>2, <2>3
  <2> HIDE DEF Good
  <2>5. QED BY <2>4
<1>5. ASSUME ~(~Attention!AllDecode(g) \/ g.rows > 128 \div g.kvHeads) PROVE Chosen
  <2> DEFINE m == Attention!Greatest(16, N)
             blocks == Attention!QueryBlocks(Attention!Tokens(g), g.rows, m \div N)
             wanted == Attention!NextPowerOfTwo(Attention!CeilDiv(4 * g.cores, blocks * g.kvHeads))
             fewest == IF T <= 16 THEN 16 ELSE 8
             n == Attention!Greatest(Attention!Least(wanted, 16), fewest)
  <2>1. l = [kind |-> "splitk", blockM |-> m, blockQ |-> m \div N, tile |-> T, segments |-> n, blocks |-> blocks]
    BY <1>5 DEF Attention!Launch, Attention!SplitK
  <2>2. m = Attention!Greatest(N, 16)
    <3>1. N \in Nat BY <1>1, <1>2
    <3> HIDE DEF N, P
    <3>2. QED BY <3>1 DEF Attention!Greatest
  <2>3. m \in P /\ m \div N \in Nat \ {0} /\ (m \div N) * N = m BY <1>3, <2>2
  <2>4. blocks \in Nat \ {0}
    <3>1. g.rows * g.queries \in Nat BY <1>1, Multiples
    <3> DEFINE a == g.rows * g.queries
               b == m \div N
    <3>2. a \in Nat /\ b \in Nat \ {0} BY <2>3, <3>1
    <3> HIDE DEF a, b, m
    <3>3. a \div b \in Nat BY <3>2, Parts
    <3>4. blocks = a \div b + g.rows BY DEF Attention!QueryBlocks, Attention!Tokens, a, b
    <3>5. QED BY <1>1, <3>3, <3>4
  <2> HIDE DEF blocks
  <2>5. wanted \in P
    <3>1. blocks * g.kvHeads \in Nat \ {0} BY <1>1, <2>4
    <3>2. 4 * g.cores \in Nat \ {0} /\ 4 * g.cores <= 4096 BY <1>1 DEF Geometries
    <3>3. Attention!CeilDiv(4 * g.cores, blocks * g.kvHeads) \in 1 .. 4 * g.cores
      <4> DEFINE y == 4 * g.cores
                 z == blocks * g.kvHeads
      <4>1. y \in Nat \ {0} /\ z \in Nat \ {0} BY <3>1, <3>2
      <4> HIDE DEF y, z
      <4>2. Attention!CeilDiv(y, z) \in 1 .. y BY ONLY <4>1, RoundedUp
      <4>3. QED BY <4>2 DEF y, z
    <3> DEFINE x == Attention!CeilDiv(4 * g.cores, blocks * g.kvHeads)
    <3>4. x \in Nat /\ x <= 4096 BY <3>2, <3>3
    <3> HIDE DEF x
    <3>5. Attention!NextPowerOfTwo(x) \in P BY <3>4, PowerIs
    <3>6. QED BY <3>5 DEF x
  <2>6. n \in P BY <1>2, <2>5 DEF Attention!Least, Attention!Greatest
  <2>7. g.queries = 1 BY <1>5 DEF Attention!AllDecode
  <2> HIDE DEF n, P, N, T, m
  <2>8. Good(m, T, n) BY <1>1, <2>1, <2>3, <2>6 DEF blocks
  <2> HIDE DEF Good
  <2>9. QED BY <2>7, <2>8
<1>6. PICK m, t, n : Good(m, t, n)
  BY <1>4, <1>5
<1>7. l.kind = "splitk" => g.queries = 1
  BY <1>4, <1>5
<1>8. l.blocks = First(g.queries, l.blockQ, g.rows)
  BY <1>6 DEF Attention!QueryBlocks, Attention!Tokens, First
<1> HIDE DEF P, N, T
<1>9. Filled(g, l)
  BY <1>1, <1>2, <1>6, <1>8 DEF Filled, N
<1>10. Attention!Buildable(g, l)
  BY <1>6 DEF Attention!Buildable, N, P
<1>11. l.segments \in Nat \ {0} /\ l.tile \in Nat \ {0}
  BY <1>2, <1>6
<1>12. QED BY <1>7, <1>9, <1>10, <1>11

-----------------------------------------------------------------------------
(* What the programs of a launch store.                                      *)

SlotAt(g, l, s, b, r) == (b - First(g.queries, l.blockQ, s)) * l.blockQ + (r \div Attention!Lanes(g))
HeadAt(g, h, r) == h * (g.heads \div g.kvHeads) + (r % Attention!Lanes(g))

\* The lane r of the program (b, h) belongs to row s and stores.
Active(g, l, s, b, h, r) ==
  /\ s \in 0 .. g.rows - 1 /\ b \in 0 .. l.blocks - 1
  /\ First(g.queries, l.blockQ, s) <= b /\ b < First(g.queries, l.blockQ, s + 1)
  /\ h \in 0 .. g.kvHeads - 1 /\ r \in 0 .. l.blockM - 1
  /\ SlotAt(g, l, s, b, r) < g.queries
  /\ r % Attention!Lanes(g) < g.heads \div g.kvHeads

Stores(g, l, s, b, h, r) ==
  [row |-> s, slot |-> SlotAt(g, l, s, b, r), head |-> HeadAt(g, h, r), from |-> <<b, h, r>>]

RowOf(g, l, b) ==
  LET starts == Attention!QueryStarts(g.rows, g.queries)
  IN  Attention!FindSequence([s \in 0 .. g.rows |-> Attention!FirstBlock(starts, l.blockQ, s)], g.rows, b)

\* The row that a program finds, and what it stores there.
LEMMA RowOfBlock ==
  ASSUME NEW g \in Geometries, NEW l, Filled(g, l), NEW s \in 0 .. g.rows - 1,
         NEW b \in Nat, First(g.queries, l.blockQ, s) <= b, b < First(g.queries, l.blockQ, s + 1),
         NEW starts, starts = Attention!QueryStarts(g.rows, g.queries),
         NEW k, k = Attention!ShapeOf(g, l)
  PROVE  /\ RowOf(g, l, b) = s
         /\ \A r : Attention!SlotOfLane(k, starts, b, s, r) = SlotAt(g, l, s, b, r)
         /\ \A r \in Nat :
              Attention!Stored(k, starts, b, s, r) <=>
                /\ SlotAt(g, l, s, b, r) < g.queries
                /\ r % Attention!Lanes(g) < g.heads \div g.kvHeads
         /\ \A h, r : Attention!HeadOfLane(k, h, r) = HeadAt(g, h, r)
<1> DEFINE Q == g.queries
           B == l.blockQ
           N == Attention!Lanes(g)
           G == g.heads \div g.kvHeads
           f == First(Q, B, s)
           local == (b - f) * B
<1>1. Q \in Nat \ {0} /\ B \in Nat \ {0} /\ N \in Nat \ {0} /\ g.rows \in Nat \ {0}
  BY GeometryIs DEF Filled
<1>2. k = [blockQ |-> B, lanes |-> N, group |-> G]
  BY DEF Attention!ShapeOf
<1>3. /\ \A t \in 0 .. g.rows : starts[t] = t * Q
      /\ \A t \in 0 .. g.rows : Attention!FirstBlock(starts, B, t) = First(Q, B, t)
  BY DEF Attention!QueryStarts, Attention!FirstBlock, First
<1>4. s \in 0 .. g.rows /\ s + 1 \in 0 .. g.rows /\ s \in Nat
  BY <1>1
<1>5. RowOf(g, l, b) = s
  <2> DEFINE bounds == [t \in 0 .. g.rows |-> Attention!FirstBlock(starts, B, t)]
  <2>1. bounds = [t \in 0 .. g.rows |-> First(Q, B, t)] BY <1>3
  <2>2. RowOf(g, l, b) = Attention!FindSequence(bounds, g.rows, b) BY DEF RowOf
  <2> HIDE DEF bounds
  <2>3. g.rows \in Nat BY <1>1
  <2>4. Attention!FindSequence(bounds, g.rows, b) = s
    <3>1. s \in 0 .. g.rows - 1 /\ b \in Nat /\ First(Q, B, s) <= b /\ b < First(Q, B, s + 1) OBVIOUS
    <3> HIDE DEF Q, B
    <3>2. QED BY ONLY <1>1, <2>1, <2>3, <3>1, RowFound
  <2>5. QED BY <2>2, <2>4
<1>6. starts[s + 1] - starts[s] = Q
  <2>1. starts[s + 1] = (s + 1) * Q /\ starts[s] = s * Q BY <1>3, <1>4
  <2>2. (s + 1) * Q = s * Q + Q /\ s * Q \in Nat
    <3> HIDE DEF Q
    <3>1. QED BY ONLY <1>1, <1>4
  <2> DEFINE sq == s * Q
  <2>3. starts[s + 1] = sq + Q /\ starts[s] = sq /\ sq \in Nat BY <2>1, <2>2
  <2> HIDE DEF sq
  <2>4. QED BY <1>1, <2>3
<1>7. Attention!LocalOffset(starts, B, b, s) = local
  BY <1>3, <1>4 DEF Attention!LocalOffset
<1>8. \A r : Attention!SlotOfLane(k, starts, b, s, r) = SlotAt(g, l, s, b, r)
  BY <1>2, <1>7 DEF Attention!SlotOfLane, SlotAt
<1>9. ASSUME NEW r \in Nat
      PROVE  Attention!Stored(k, starts, b, s, r) <=> SlotAt(g, l, s, b, r) < Q /\ r % N < G
  <2>1. r \div N \in Nat BY <1>1, Parts
  <2>2. local \in Int
    <3>1. f \in Nat BY <1>1, <1>4, FirstRises
    <3>2. b - f \in Int /\ B \in Int BY <1>1, <3>1
    <3> HIDE DEF f
    <3>3. QED BY <3>2
  <2>3. SlotAt(g, l, s, b, r) = local + (r \div N) BY DEF SlotAt
  <2>4. Attention!Stored(k, starts, b, s, r) <=>
          local < Q /\ SlotAt(g, l, s, b, r) < Q /\ r % N < G
    BY <1>2, <1>6, <1>7, <1>8 DEF Attention!Stored
  <2> DEFINE d == r \div N
             slot == SlotAt(g, l, s, b, r)
  <2>5. d \in Nat /\ slot = local + d BY <2>1, <2>3
  <2> HIDE DEF local, d, slot
  <2>6. slot < Q => local < Q BY <1>1, <2>2, <2>5
  <2>7. QED BY <2>4, <2>6 DEF slot
<1>10. \A h, r : Attention!HeadOfLane(k, h, r) = HeadAt(g, h, r)
  BY <1>2 DEF Attention!HeadOfLane, HeadAt
<1>11. QED BY <1>5, <1>8, <1>9, <1>10

\* Every writer is a lane that stores, ...
LEMMA WriterIs ==
  ASSUME NEW g \in Geometries, NEW l, Filled(g, l), l.blockM \in Nat, l.blocks \in Nat,
         NEW w \in Attention!Writers(g, l)
  PROVE  \E s, b, h, r : Active(g, l, s, b, h, r) /\ w = Stores(g, l, s, b, h, r)
<1> DEFINE k == Attention!ShapeOf(g, l)
           starts == Attention!QueryStarts(g.rows, g.queries)
           bounds == [s \in 0 .. g.rows |-> Attention!FirstBlock(starts, l.blockQ, s)]
           row == [b \in 0 .. l.blocks - 1 |-> RowOf(g, l, b)]
           X == (0 .. l.blocks - 1) \X (0 .. g.kvHeads - 1) \X (0 .. l.blockM - 1)
<1>1. PICK v \in X :
         /\ Attention!Stored(k, starts, v[1], row[v[1]], v[3])
         /\ w = [row |-> row[v[1]], slot |-> Attention!SlotOfLane(k, starts, v[1], row[v[1]], v[3]),
                 head |-> Attention!HeadOfLane(k, v[2], v[3]), from |-> v]
  BY DEF Attention!Writers, RowOf, Attention!ShapeOf
<1> DEFINE b == v[1]
           h == v[2]
           r == v[3]
<1>2. b \in 0 .. l.blocks - 1 /\ h \in 0 .. g.kvHeads - 1 /\ r \in 0 .. l.blockM - 1
  OBVIOUS
<1>3. row[b] = RowOf(g, l, b)
  BY <1>2
<1> HIDE DEF row, k, starts, b, h, r
<1>4. /\ Attention!Stored(k, starts, b, RowOf(g, l, b), r)
      /\ w = [row |-> RowOf(g, l, b), slot |-> Attention!SlotOfLane(k, starts, b, RowOf(g, l, b), r),
              head |-> Attention!HeadOfLane(k, h, r), from |-> <<b, h, r>>]
  <2>1. v = <<b, h, r>> BY DEF b, h, r
  <2>2. QED BY <1>1, <1>3, <2>1 DEF b, h, r
<1>5. PICK s \in 0 .. g.rows - 1 : First(g.queries, l.blockQ, s) <= b /\ b < First(g.queries, l.blockQ, s + 1)
  <2>1. g.rows \in Nat /\ g.queries \in Nat \ {0} /\ l.blockQ \in Nat \ {0} BY GeometryIs DEF Filled
  <2>2. b \in Nat /\ b < l.blocks BY <1>2
  <2>3. b < First(g.queries, l.blockQ, g.rows) BY <2>2 DEF Filled
  <2>4. QED BY <2>1, <2>2, <2>3, RowThere
<1>6. b \in Nat /\ r \in Nat
  BY <1>2
<1>7. /\ RowOf(g, l, b) = s
      /\ Attention!SlotOfLane(k, starts, b, s, r) = SlotAt(g, l, s, b, r)
      /\ Attention!Stored(k, starts, b, s, r) <=>
           /\ SlotAt(g, l, s, b, r) < g.queries
           /\ r % Attention!Lanes(g) < g.heads \div g.kvHeads
      /\ Attention!HeadOfLane(k, h, r) = HeadAt(g, h, r)
  BY <1>5, <1>6, RowOfBlock DEF k, starts
<1>8. Active(g, l, s, b, h, r)
  BY <1>2, <1>4, <1>5, <1>7 DEF Active
<1>9. w = Stores(g, l, s, b, h, r)
  BY <1>4, <1>7 DEF Stores
<1>10. QED BY <1>8, <1>9

\* ... and every lane that stores is a writer.
LEMMA WriterThere ==
  ASSUME NEW g \in Geometries, NEW l, Filled(g, l), l.blockM \in Nat, l.blocks \in Nat,
         NEW s, NEW b, NEW h, NEW r, Active(g, l, s, b, h, r)
  PROVE  Stores(g, l, s, b, h, r) \in Attention!Writers(g, l)
<1> DEFINE k == Attention!ShapeOf(g, l)
           starts == Attention!QueryStarts(g.rows, g.queries)
           row == [c \in 0 .. l.blocks - 1 |-> RowOf(g, l, c)]
           X == (0 .. l.blocks - 1) \X (0 .. g.kvHeads - 1) \X (0 .. l.blockM - 1)
           v == <<b, h, r>>
           Of(u) == [row |-> row[u[1]], slot |-> Attention!SlotOfLane(k, starts, u[1], row[u[1]], u[3]),
                     head |-> Attention!HeadOfLane(k, u[2], u[3]), from |-> u]
           Keeps(u) == Attention!Stored(k, starts, u[1], row[u[1]], u[3])
<1>1. Attention!Writers(g, l) = {Of(u) : u \in {x \in X : Keeps(x)}}
  BY DEF Attention!Writers, RowOf, Attention!ShapeOf
<1>2. v \in X /\ v[1] = b /\ v[2] = h /\ v[3] = r /\ b \in Nat /\ r \in Nat
  BY DEF Active
<1>3. row[b] = RowOf(g, l, b)
  BY DEF Active
<1>4. /\ RowOf(g, l, b) = s
      /\ Attention!SlotOfLane(k, starts, b, s, r) = SlotAt(g, l, s, b, r)
      /\ Attention!Stored(k, starts, b, s, r) <=>
           /\ SlotAt(g, l, s, b, r) < g.queries
           /\ r % Attention!Lanes(g) < g.heads \div g.kvHeads
      /\ Attention!HeadOfLane(k, h, r) = HeadAt(g, h, r)
  <2> HIDE DEF k, starts
  <2>1. QED BY <1>2, RowOfBlock DEF k, starts, Active
<1> HIDE DEF row, k, starts, X, v
<1>5. Keeps(v) BY <1>2, <1>3, <1>4 DEF Active
<1>6. Of(v) = Stores(g, l, s, b, h, r) BY <1>2, <1>3, <1>4 DEF Stores, v
<1> HIDE DEF Of, Keeps
<1>7. QED BY <1>1, <1>2, <1>5, <1>6

-----------------------------------------------------------------------------
\* The elements of a product of three.
LEMMA Triples ==
  ASSUME NEW A, NEW B, NEW C, IsFiniteSet(A), IsFiniteSet(B), IsFiniteSet(C)
  PROVE  IsFiniteSet(A \X B \X C) /\ Cardinality(A \X B \X C) = Cardinality(A) * Cardinality(B) * Cardinality(C)
<1> DEFINE P == (A \X B) \X C
           T == A \X B \X C
           f == [o \in P |-> <<o[1][1], o[1][2], o[2]>>]
<1>1. IsFiniteSet(P) /\ Cardinality(P) = Cardinality(A) * Cardinality(B) * Cardinality(C)
  <2>1. IsFiniteSet(A \X B) /\ Cardinality(A \X B) = Cardinality(A) * Cardinality(B) BY FS_Product
  <2> DEFINE D == A \X B
  <2>2. IsFiniteSet(D) /\ Cardinality(D) = Cardinality(A) * Cardinality(B) BY <2>1
  <2> HIDE DEF D
  <2>3. IsFiniteSet(D \X C) /\ Cardinality(D \X C) = Cardinality(D) * Cardinality(C) BY <2>2, FS_Product
  <2>4. QED BY <2>2, <2>3 DEF D
<1>2. f \in Bijection(P, T)
  <2>1. \A o \in P : <<o[1][1], o[1][2], o[2]>> \in T OBVIOUS
  <2>2. f \in [P -> T] BY <2>1
  <2>3. ASSUME NEW o \in P, NEW u \in P, f[o] = f[u] PROVE o = u
    <3>1. o = <<<<o[1][1], o[1][2]>>, o[2]>> /\ u = <<<<u[1][1], u[1][2]>>, u[2]>> OBVIOUS
    <3>2. o[1][1] = u[1][1] /\ o[1][2] = u[1][2] /\ o[2] = u[2] BY <2>3
    <3>3. QED BY <3>1, <3>2
  <2>4. ASSUME NEW t \in T PROVE \E o \in P : f[o] = t
    <3>1. <<<<t[1], t[2]>>, t[3]>> \in P /\ t = <<t[1], t[2], t[3]>> OBVIOUS
    <3>2. f[<<<<t[1], t[2]>>, t[3]>>] = t BY <3>1
    <3>3. QED BY <3>1, <3>2
  <2> HIDE DEF f, P, T
  <2>5. f \in Injection(P, T) BY <2>2, <2>3 DEF Injection, IsInjective
  <2>6. f \in Surjection(P, T) BY <2>2, <2>4 DEF Surjection
  <2>7. QED BY <2>5, <2>6 DEF Bijection
<1>3. IsFiniteSet(T) /\ Cardinality(T) = Cardinality(P)
  <2> HIDE DEF f, P, T
  <2>1. ExistsBijection(P, T) BY <1>2 DEF ExistsBijection
  <2>2. QED BY <1>1, <2>1, FS_Bijection
<1>4. QED BY <1>1, <1>3

Cell(w) == <<w.row, w.slot, w.head>>

\* What a writer writes is an output of the call.
LEMMA WriterWrites ==
  ASSUME NEW g \in Geometries, NEW l, Filled(g, l), NEW s, NEW b, NEW h, NEW r, Active(g, l, s, b, h, r)
  PROVE  /\ Cell(Stores(g, l, s, b, h, r)) = <<s, SlotAt(g, l, s, b, r), HeadAt(g, h, r)>>
         /\ Cell(Stores(g, l, s, b, h, r)) \in Attention!Outputs(g)
         /\ b = First(g.queries, l.blockQ, s) + (SlotAt(g, l, s, b, r) \div l.blockQ)
         /\ h = HeadAt(g, h, r) \div (g.heads \div g.kvHeads)
         /\ r = (SlotAt(g, l, s, b, r) % l.blockQ) * Attention!Lanes(g) + (HeadAt(g, h, r) % (g.heads \div g.kvHeads))
<1> DEFINE Q == g.queries
           B == l.blockQ
           N == Attention!Lanes(g)
           G == g.heads \div g.kvHeads
           K == g.kvHeads
           slot == SlotAt(g, l, s, b, r)
           head == HeadAt(g, h, r)
<1>1. /\ Q \in Nat \ {0} /\ B \in Nat \ {0} /\ N \in Nat \ {0} /\ K \in Nat \ {0} /\ g.rows \in Nat \ {0}
      /\ G \in 1 .. N /\ g.heads = K * G /\ l.blockM = B * N
  BY GeometryIs DEF Filled
<1>2. /\ s \in Nat /\ s \in 0 .. g.rows - 1 /\ b \in Nat /\ First(Q, B, s) <= b
      /\ h \in 0 .. K - 1 /\ r \in Nat /\ r < B * N /\ r % N < G /\ slot < Q
  <2>1. /\ s \in 0 .. g.rows - 1 /\ b \in 0 .. l.blocks - 1 /\ First(Q, B, s) <= b
        /\ h \in 0 .. K - 1 /\ r \in 0 .. l.blockM - 1 /\ r % N < G /\ slot < Q
    BY DEF Active
  <2>2. l.blockM = B * N /\ B * N \in Nat BY <1>1
  <2> DEFINE BL == B * N
  <2>3. l.blockM = BL /\ BL \in Nat BY <2>2
  <2> HIDE DEF BL, slot, N, G, K
  <2>4. r \in Nat /\ r < BL BY <2>1, <2>3
  <2>5. QED BY <2>1, <2>4 DEF BL
<1>3. slot = (b - First(Q, B, s)) * B + (r \div N) /\ head = h * G + (r % N)
  BY DEF SlotAt, HeadAt
<1> HIDE DEF Q, B, N, G, K, slot, head
<1>4. /\ slot \in Nat /\ head \in Nat /\ head < K * G
      /\ b = First(Q, B, s) + (slot \div B)
      /\ h = head \div G
      /\ r = (slot % B) * N + (head % G)
  <2>1. OutputOf(Q, B, N, G, K, s, slot, head, b, h, r) BY <1>1, <1>2, <1>3 DEF OutputOf, Grid
  <2>2. QED BY ONLY <2>1, LaneHasOutput
<1>5. Cell(Stores(g, l, s, b, h, r)) = <<s, slot, head>>
  BY DEF Cell, Stores, slot, head
<1>6. <<s, slot, head>> \in Attention!Outputs(g)
  <2> DEFINE KG == K * G
  <2>1. head \in Nat /\ head < KG /\ g.heads = KG /\ KG \in Nat BY <1>1, <1>4
  <2> HIDE DEF KG
  <2>2. head \in 0 .. g.heads - 1 BY <2>1
  <2>3. slot \in 0 .. g.queries - 1 BY <1>1, <1>2, <1>4 DEF Q
  <2>4. QED BY <1>2, <2>2, <2>3 DEF Attention!Outputs
<1>7. QED BY <1>4, <1>5, <1>6 DEF Q, B, N, G, slot, head

\* Every output has a writer.
LEMMA OutputIsWritten ==
  ASSUME NEW g \in Geometries, NEW l, Filled(g, l), NEW o \in Attention!Outputs(g)
  PROVE  \E s, b, h, r : Active(g, l, s, b, h, r) /\ Cell(Stores(g, l, s, b, h, r)) = o
<1> DEFINE Q == g.queries
           B == l.blockQ
           N == Attention!Lanes(g)
           G == g.heads \div g.kvHeads
           K == g.kvHeads
           s == o[1]
           q == o[2]
           j == o[3]
           b == First(Q, B, s) + (q \div B)
           h == j \div G
           r == (q % B) * N + (j % G)
<1>1. /\ Q \in Nat \ {0} /\ B \in Nat \ {0} /\ N \in Nat \ {0} /\ K \in Nat \ {0} /\ g.rows \in Nat \ {0}
      /\ G \in 1 .. N /\ g.heads = K * G /\ l.blockM = B * N
      /\ l.blocks = First(Q, B, g.rows)
  BY GeometryIs DEF Filled
<1>2. o = <<s, q, j>> /\ s \in 0 .. g.rows - 1 /\ q \in 0 .. Q - 1 /\ j \in 0 .. g.heads - 1
  BY DEF Attention!Outputs
<1>3. j \in Nat /\ j < K * G
  <2> DEFINE KG == K * G
  <2>1. g.heads = KG /\ KG \in Nat BY <1>1
  <2> HIDE DEF KG, j
  <2>2. j \in Nat /\ j < KG BY <1>2, <2>1
  <2>3. QED BY <2>2 DEF KG
<1>4. b = First(Q, B, s) + (q \div B) /\ h = j \div G /\ r = (q % B) * N + (j % G)
  OBVIOUS
<1> HIDE DEF Q, B, N, G, K, s, q, j, b, h, r
<1>5. /\ b \in Nat /\ First(Q, B, s) <= b /\ b < First(Q, B, s + 1) /\ b < First(Q, B, g.rows)
      /\ h \in 0 .. K - 1
      /\ r \in Nat /\ r < B * N /\ r % N < G
      /\ (b - First(Q, B, s)) * B + (r \div N) = q
      /\ h * G + (r % N) = j
  <2>1. LaneFor(Q, B, N, G, K, s, q, j, b, h, r) BY <1>1, <1>2, <1>3, <1>4 DEF LaneFor, Grid
  <2>2. g.rows \in Nat /\ s < g.rows BY <1>1, <1>2
  <2>3. QED BY ONLY <2>1, <2>2, OutputHasLane
<1>6. SlotAt(g, l, s, b, r) = q /\ HeadAt(g, h, r) = j
  BY <1>5 DEF SlotAt, HeadAt, Q, B, N, G
<1>7. b \in 0 .. l.blocks - 1
  <2> DEFINE n == First(Q, B, g.rows)
  <2>1. l.blocks = n /\ n \in Nat /\ b < n /\ b \in Nat BY <1>1, <1>5, FirstRises
  <2> HIDE DEF n
  <2>2. QED BY <2>1
<1>8. r \in 0 .. l.blockM - 1
  <2> DEFINE BL == B * N
  <2>1. l.blockM = BL /\ BL \in Nat /\ r \in Nat /\ r < BL BY <1>1, <1>5
  <2> HIDE DEF BL
  <2>2. QED BY <2>1
<1>9. q < Q BY <1>1, <1>2
<1>10. Active(g, l, s, b, h, r)
  BY <1>2, <1>5, <1>6, <1>7, <1>8, <1>9 DEF Active, Q, B, N, G, K
<1>11. Cell(Stores(g, l, s, b, h, r)) = o
  BY <1>2, <1>6 DEF Cell, Stores
<1>12. QED BY <1>10, <1>11

\* The instance counts like this module.
LEMMA SameCount == ASSUME NEW S PROVE Attention!Cardinality(S) = Cardinality(S)
  BY DEF Attention!Cardinality, Cardinality

\* The outputs are written, and each by one lane of one program.
LEMMA WritersExact ==
  ASSUME NEW g \in Geometries, NEW l, Filled(g, l), l.blockM \in Nat, l.blocks \in Nat
  PROVE  /\ {<<w.row, w.slot, w.head>> : w \in Attention!Writers(g, l)} = Attention!Outputs(g)
         /\ Cardinality(Attention!Writers(g, l)) = g.rows * g.queries * g.heads
<1> DEFINE W == Attention!Writers(g, l)
           O == Attention!Outputs(g)
           f == [w \in W |-> Cell(w)]
<1>1. ASSUME NEW w \in W PROVE Cell(w) \in O
  <2>1. PICK s, b, h, r : Active(g, l, s, b, h, r) /\ w = Stores(g, l, s, b, h, r)
    BY <1>1, WriterIs
  <2>2. QED BY ONLY <2>1, WriterWrites, g \in Geometries, Filled(g, l)
<1>2. ASSUME NEW o \in O PROVE \E w \in W : Cell(w) = o
  <2>1. PICK s, b, h, r : Active(g, l, s, b, h, r) /\ Cell(Stores(g, l, s, b, h, r)) = o
    BY <1>2, OutputIsWritten
  <2>2. Stores(g, l, s, b, h, r) \in W BY <2>1, WriterThere
  <2>3. QED BY <2>1, <2>2
<1>3. ASSUME NEW v \in W, NEW w \in W, Cell(v) = Cell(w) PROVE v = w
  <2>1. PICK s, b, h, r : Active(g, l, s, b, h, r) /\ v = Stores(g, l, s, b, h, r)
    BY <1>3, WriterIs
  <2>2. PICK t, c, k, q : Active(g, l, t, c, k, q) /\ w = Stores(g, l, t, c, k, q)
    BY <1>3, WriterIs
  <2> DEFINE First_(x, y) == First(g.queries, l.blockQ, x) + (y \div l.blockQ)
             Head_(x) == x \div (g.heads \div g.kvHeads)
             Lane_(x, y) == (x % l.blockQ) * Attention!Lanes(g) + (y % (g.heads \div g.kvHeads))
             i == SlotAt(g, l, s, b, r)
             j == SlotAt(g, l, t, c, q)
             m == HeadAt(g, h, r)
             n == HeadAt(g, k, q)
  <2>3. Cell(v) = <<s, i, m>> /\ b = First_(s, i) /\ h = Head_(m) /\ r = Lane_(i, m)
    BY <2>1, WriterWrites
  <2>4. Cell(w) = <<t, j, n>> /\ c = First_(t, j) /\ k = Head_(n) /\ q = Lane_(j, n)
    BY <2>2, WriterWrites
  <2> HIDE DEF First_, Head_, Lane_, i, j, m, n
  <2>5. s = t /\ i = j /\ m = n
    <3>1. Cell(v) = Cell(w) BY <1>3
    <3>2. QED BY ONLY <2>3, <2>4, <3>1
  <2>6. b = c /\ h = k /\ r = q BY <2>3, <2>4, <2>5
  <2>7. QED BY <2>1, <2>2, <2>5, <2>6
<1>4. {<<w.row, w.slot, w.head>> : w \in W} = O
  <2>1. \A w : Cell(w) = <<w.row, w.slot, w.head>> BY DEF Cell
  <2> HIDE DEF W, O
  <2>2. QED BY <1>1, <1>2, <2>1
<1>5. IsFiniteSet(O) /\ Cardinality(O) = g.rows * g.queries * g.heads
  <2>1. g.rows \in Nat /\ g.queries \in Nat /\ g.heads \in Nat BY GeometryIs
  <2> DEFINE A == 0 .. g.rows - 1
             B == 0 .. g.queries - 1
             C == 0 .. g.heads - 1
  <2>2. /\ IsFiniteSet(A) /\ Cardinality(A) = g.rows
        /\ IsFiniteSet(B) /\ Cardinality(B) = g.queries
        /\ IsFiniteSet(C) /\ Cardinality(C) = g.heads
    <3>1. ASSUME NEW n \in Nat PROVE IsFiniteSet(0 .. n - 1) /\ Cardinality(0 .. n - 1) = n
      <4>1. 0 \in Int /\ n - 1 \in Int /\ (IF 0 > n - 1 THEN 0 ELSE (n - 1) - 0 + 1) = n OBVIOUS
      <4>2. QED BY <4>1, FS_Interval
    <3>2. QED BY <2>1, <3>1
  <2>3. O = A \X B \X C BY DEF Attention!Outputs
  <2> HIDE DEF A, B, C, O
  <2>4. QED BY <2>2, <2>3, Triples
<1>6. f \in Bijection(W, O)
  <2> HIDE DEF W, O
  <2>1. f \in [W -> O] BY <1>1
  <2>2. f \in Injection(W, O)
    <3>1. \A v \in W, w \in W : f[v] = f[w] => v = w BY <1>3
    <3> HIDE DEF f
    <3>2. QED BY <2>1, <3>1 DEF Injection, IsInjective
  <2>3. f \in Surjection(W, O)
    <3>1. \A o \in O : \E w \in W : f[w] = o BY <1>2
    <3> HIDE DEF f
    <3>2. QED BY <2>1, <3>1 DEF Surjection
  <2>4. QED BY <2>2, <2>3 DEF Bijection
<1>7. Cardinality(W) = Cardinality(O)
  <2> HIDE DEF W, O, f
  <2>1. IsFiniteSet(W) /\ (Cardinality(W) = Cardinality(O) <=> f \in Surjection(W, O))
    BY <1>5, <1>6, FS_Injection DEF Bijection
  <2>2. QED BY <1>6, <2>1 DEF Bijection
<1>8. QED BY <1>4, <1>5, <1>7

\* The launch of any shape can be built, writes each output once, and its reduction reads
\* exactly the segments that were computed, of the row the output belongs to.
THEOREM EveryLaunchIsExact == \A g \in Geometries : Attention!LaunchExact(g)
<1> SUFFICES ASSUME NEW g \in Geometries PROVE Attention!LaunchExact(g)
  OBVIOUS
<1> DEFINE l == Attention!Launch(g)
<1>1. /\ Filled(g, l) /\ Attention!Buildable(g, l)
      /\ l.segments \in Nat \ {0} /\ l.tile \in Nat \ {0}
      /\ l.kind = "splitk" => g.queries = 1
  BY LaunchIs
<1> HIDE DEF l
<1>2. g.rows \in Nat \ {0} /\ g.queries \in Nat \ {0}
  BY GeometryIs
<1>3. l.blockM \in Nat /\ l.blocks \in Nat
  <2>1. /\ l.blockQ \in Nat \ {0} /\ Attention!Lanes(g) \in Nat \ {0}
        /\ l.blockM = l.blockQ * Attention!Lanes(g) /\ l.blocks = First(g.queries, l.blockQ, g.rows)
    BY <1>1 DEF Filled
  <2>2. l.blockQ * Attention!Lanes(g) \in Nat BY <2>1, Multiples
  <2>3. g.rows \in Nat BY <1>2
  <2>4. First(g.queries, l.blockQ, g.rows) \in Nat BY <1>2, <2>1, <2>3, FirstRises
  <2>5. QED BY <2>1, <2>2, <2>4
<1>4. /\ {<<w.row, w.slot, w.head>> : w \in Attention!Writers(g, l)} = Attention!Outputs(g)
      /\ Cardinality(Attention!Writers(g, l)) = g.rows * g.queries * g.heads
  BY <1>1, <1>3, WritersExact
<1>5. ASSUME l.kind = "splitk", NEW token \in 0 .. Attention!Tokens(g) - 1
      PROVE  Attention!ReducedRow(g, token) = token \div g.queries
  <2>1. g.queries = 1 BY <1>1, <1>5
  <2>2. token \in 0 .. g.rows - 1 /\ token \in Nat
    BY <1>2, <1>5, <2>1 DEF Attention!Tokens
  <2> DEFINE bounds == Attention!QueryStarts(g.rows, g.queries)
             p == token + 1
  <2>3. \A s \in 0 .. g.rows : bounds[s] = s
    BY <1>2, <2>1 DEF Attention!QueryStarts
  <2>4. bounds \in [0 .. g.rows -> Int]
    BY <1>2, <2>1 DEF Attention!QueryStarts
  <2>5. p \in 0 .. g.rows /\ g.rows \in Nat /\ token \in Int /\ p - 1 = token
    BY <1>2, <2>2
  <2>6. \A s \in 0 .. g.rows : bounds[s] <= token <=> s < p
    BY <2>2, <2>3
  <2> HIDE DEF bounds, p
  <2>7. Attention!FindSequence(bounds, g.rows, token) = p - 1
    BY ONLY <2>4, <2>5, <2>6, SearchFinds
  <2>8. token \div 1 = token
    BY <2>2
  <2>9. QED BY <2>1, <2>5, <2>7, <2>8 DEF bounds, Attention!ReducedRow
<1>6. ASSUME NEW length \in Nat, NEW i \in Nat
      PROVE  Attention!Produced(length, l.segments, l.tile, i)
               <=> i < Attention!ActiveSegments(length, l.segments, l.tile)
  BY <1>1, SegmentsAgree
<1>7. /\ \A length \in 0 .. 3 * l.tile : length \in Nat
      /\ \A i \in 0 .. l.segments - 1 : i \in Nat
  BY <1>1
<1>8. \A token \in 0 .. Attention!Tokens(g) - 1 :
        l.kind = "splitk" => Attention!ReducedRow(g, token) = token \div g.queries
  BY <1>5
<1>9. \A length \in 0 .. 3 * l.tile, i \in 0 .. l.segments - 1 :
        Attention!Produced(length, l.segments, l.tile, i)
          <=> i < Attention!ActiveSegments(length, l.segments, l.tile)
  BY <1>6, <1>7
<1>10. Attention!Buildable(g, l)
  BY <1>1
<1>11. Attention!Cardinality(Attention!Writers(g, l)) = g.rows * g.queries * g.heads
  BY <1>4, SameCount
<1>12. QED
  BY ONLY <1>4, <1>8, <1>9, <1>10, <1>11, Zenon DEF Attention!LaunchExact, l

\* The shapes of the run are among them.
LEMMA ShapesAreGeometries == Attention!Shapes \subseteq Geometries
<1> SUFFICES ASSUME NEW g \in Attention!Shapes PROVE g \in Geometries
  OBVIOUS
<1>1. /\ g \in [rows : {1, 3, 65}, queries : {1, 5, 256}, heads : {1, 2, 6}, kvHeads : {1, 2, 6},
                headDim : {64, 256}, pageSize : {16, 24, 256}, cores : {8, 132}]
      /\ g.heads % g.kvHeads = 0
  BY DEF Attention!Shapes
<1>2. g \in [rows : Nat \ {0}, queries : Nat \ {0}, heads : Nat \ {0}, kvHeads : Nat \ {0},
             headDim : Nat, pageSize : Nat \ {0}, cores : Nat \ {0}]
  BY <1>1
<1>3. g.pageSize <= 4096 /\ 4 * g.cores <= 4096
  BY <1>1
<1>4. g.heads \div g.kvHeads <= 4096
  <2> DEFINE h == g.heads
             k == g.kvHeads
  <2>1. h \in {1, 2, 6} /\ k \in {1, 2, 6} BY <1>1
  <2> HIDE DEF h, k
  <2>2. 1 \div 1 = 1 /\ 2 \div 1 = 2 /\ 6 \div 1 = 6 OBVIOUS
  <2>3. 1 \div 2 = 0 /\ 2 \div 2 = 1 /\ 6 \div 2 = 3 OBVIOUS
  <2>4. 1 \div 6 = 0 /\ 2 \div 6 = 0 /\ 6 \div 6 = 1 OBVIOUS
  <2>5. h \div k <= 4096 BY <2>1, <2>2, <2>3, <2>4
  <2>6. QED BY <2>5 DEF h, k
<1>5. QED BY <1>1, <1>2, <1>3, <1>4 DEF Geometries

\* The launches of the layer groups of a run are exact.
THEOREM LaunchesAreExact == Spec => []LaunchIsExact
<1>1. LaunchIsExact
  BY EveryLaunchIsExact, ShapesAreGeometries DEF LaunchIsExact, Attention!AllExact
<1>2. QED BY <1>1, PTL

=============================================================================

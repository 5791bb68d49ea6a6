---------------------------- MODULE CacheLedger ----------------------------
(***************************************************************************)
(* What the page manager promises to the engine, without naming a page: a  *)
(* sequence is granted a capacity in whole pages, or refused; within that  *)
(* capacity its two lengths move, the committed one never behind a reader  *)
(* except by an explicit truncation; a shared prefix page brings its own   *)
(* capacity; and when everybody has returned, every page is unclaimed.     *)
(***************************************************************************)
EXTENDS Integers

CONSTANTS SequenceIds, NumPages, PageSize

VARIABLES
  held,        \* sequences that have been granted a capacity
  capacity,    \* tokens every sequence may hold
  committed,   \* tokens that are visible
  tentative,   \* tokens that are written
  unclaimed    \* pages that nobody holds

vars == <<held, capacity, committed, tentative, unclaimed>>

Init ==
  /\ held = {}
  /\ capacity = [s \in SequenceIds |-> 0]
  /\ committed = [s \in SequenceIds |-> 0]
  /\ tentative = [s \in SequenceIds |-> 0]
  /\ unclaimed = NumPages

Grant(s, n) ==
  /\ s \notin held
  /\ n <= unclaimed
  /\ held' = held \cup {s}
  /\ capacity' = [capacity EXCEPT ![s] = n * PageSize]
  /\ unclaimed' = unclaimed - n
  /\ UNCHANGED <<committed, tentative>>

Extend(s) ==
  /\ s \in held
  /\ \E n \in tentative[s] .. capacity[s] : tentative' = [tentative EXCEPT ![s] = n]
  /\ UNCHANGED <<held, capacity, committed, unclaimed>>

Publish(s) ==
  /\ s \in held
  /\ \E n \in committed[s] .. tentative[s] : committed' = [committed EXCEPT ![s] = n]
  /\ UNCHANGED <<held, capacity, tentative, unclaimed>>

\* What is taken back was never visible.
Retract(s) ==
  /\ s \in held
  /\ \E n \in committed[s] .. tentative[s] : tentative' = [tentative EXCEPT ![s] = n]
  /\ UNCHANGED <<held, capacity, committed, unclaimed>>

TruncateTo(s) ==
  /\ s \in held
  /\ \E n \in 0 .. committed[s] :
       /\ committed' = [committed EXCEPT ![s] = n]
       /\ tentative' = [tentative EXCEPT ![s] = n]
  /\ UNCHANGED <<held, capacity, unclaimed>>

\* A page of somebody's committed prefix is shared; nothing is allocated.
Adopt(s) ==
  /\ s \in held
  /\ tentative[s] = committed[s] /\ committed[s] % PageSize = 0
  /\ \E r \in held : committed[r] >= PageSize
  /\ capacity' = [capacity EXCEPT ![s] = @ + PageSize]
  /\ committed' = [committed EXCEPT ![s] = @ + PageSize]
  /\ tentative' = [tentative EXCEPT ![s] = @ + PageSize]
  /\ UNCHANGED <<held, unclaimed>>

\* Pages that are still shared stay claimed; the last holder returns them.
Return(s) ==
  /\ s \in held
  /\ held' = held \ {s}
  /\ unclaimed' \in unclaimed .. unclaimed + capacity[s] \div PageSize
  /\ held' = {} => unclaimed' = NumPages
  /\ capacity' = [capacity EXCEPT ![s] = 0]
  /\ committed' = [committed EXCEPT ![s] = 0]
  /\ tentative' = [tentative EXCEPT ![s] = 0]

Next ==
  \E s \in SequenceIds :
    \/ \E n \in 0 .. NumPages : Grant(s, n)
    \/ Extend(s) \/ Publish(s) \/ Retract(s) \/ TruncateTo(s) \/ Adopt(s) \/ Return(s)

Spec == Init /\ [][Next]_vars
=============================================================================

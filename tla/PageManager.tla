---------------------------- MODULE PageManager ----------------------------
(***************************************************************************)
(* The host authority for the one physical K/V page namespace of the      *)
(* serving engine: `PageManager` in products/serve/src/server/cache.rs.    *)
(*                                                                         *)
(* A sequence reserves its whole page table at admission; from then on two *)
(* lengths (committed and tentative tokens) move over that fixed table.    *)
(* Completely written pages may be sealed, and a sealed page may be shared *)
(* into another sequence's table.  Every method takes `&mut self`, so one  *)
(* method call is one step.  A call that is refused before it changed      *)
(* anything is a stuttering step; a call that fails half-way leaves what   *)
(* it had already written, and that is modelled.                           *)
(***************************************************************************)
EXTENDS Integers, Sequences, FiniteSets, SequencesExt

CONSTANTS
  SequenceIds,   \* identities a caller may reserve under
  NumPages,      \* physical pages of the arena
  PageSize,      \* tokens of one page (TARGET_PAGE_SIZE, 16 in the code)
  MaxTokens,     \* bound: tokens of one append or commit call
  MaxTable       \* bound: table length up to which share_sealed is called

ASSUME PageManagerAssumption ==
  /\ NumPages \in Nat \ {0}
  /\ PageSize \in Nat \ {0}
  /\ MaxTokens \in Nat
  /\ MaxTable \in Nat

VARIABLES
  descriptors,   \* PageState of every physical page
  free,          \* FIFO queue of the free pages
  reserved,      \* sequences that hold a reservation
  pages,         \* logical-to-physical page table of every sequence
  committed,     \* committed_tokens of every reservation
  tentative,     \* tentative_tokens of every reservation
  checkpoint     \* the last CacheCheckpoint a caller took, if any

vars == <<descriptors, free, reserved, pages, committed, tentative, checkpoint>>

Pages == 0 .. NumPages - 1

Free == [state |-> "Free"]
Private(s, c, t) ==
  [state |-> "Private", owner |-> s, committed |-> c, tentative |-> t]
Sealed(n) == [state |-> "Sealed", references |-> n]

Descriptor ==
  {Free}
    \cup [state : {"Private"}, owner : SequenceIds,
          committed : 0 .. PageSize, tentative : 0 .. PageSize]
    \cup [state : {"Sealed"}, references : Nat \ {0}]

NoCheckpoint == [taken |-> FALSE]
Checkpoint ==
  [taken : {TRUE}, sequence : SequenceIds, pages : Nat, committed : Nat, tentative : Nat]

TypeOK ==
  /\ descriptors \in [Pages -> Descriptor]
  /\ free \in Seq(Pages)
  /\ reserved \subseteq SequenceIds
  /\ pages \in [SequenceIds -> Seq(Pages)]
  /\ committed \in [SequenceIds -> Nat]
  /\ tentative \in [SequenceIds -> Nat]
  /\ checkpoint \in Checkpoint \cup {NoCheckpoint}

Init ==
  /\ descriptors = [p \in Pages |-> Free]
  /\ free = [i \in 1 .. NumPages |-> i - 1]
  /\ reserved = {}
  /\ pages = [s \in SequenceIds |-> << >>]
  /\ committed = [s \in SequenceIds |-> 0]
  /\ tentative = [s \in SequenceIds |-> 0]
  /\ checkpoint = NoCheckpoint

-----------------------------------------------------------------------------
(* Positions.  Tokens count from 0 as in the code, table slots from 1.     *)

\* The slot that holds token number n.
SlotOf(n) == n \div PageSize + 1

\* How many of the first n tokens lie in slot i.
InPage(n, i) ==
  LET start == (i - 1) * PageSize
  IN  IF n <= start THEN 0 ELSE IF n - start < PageSize THEN n - start ELSE PageSize

\* div_ceil: the pages that n tokens occupy.
PagesFor(n) == (n + PageSize - 1) \div PageSize

Larger(a, b) == IF a < b THEN b ELSE a

IsPrivateOf(p, s) == descriptors[p].state = "Private" /\ descriptors[p].owner = s
IsSealed(p) == descriptors[p].state = "Sealed"

\* The slots of s among `slots` that hold p.
SlotsOf(s, p, slots) == {i \in slots : pages[s][i] = p}

-----------------------------------------------------------------------------
(* reserve_tokens and reserve_pages: the complete private table, assigned  *)
(* from the front of the free queue, or nothing.                           *)
Reserve(s, n) ==
  LET assigned == SubSeq(free, 1, n)
  IN  /\ s \notin reserved
      /\ n <= Len(free)
      /\ reserved' = reserved \cup {s}
      /\ pages' = [pages EXCEPT ![s] = assigned]
      /\ free' = SubSeq(free, n + 1, Len(free))
      /\ descriptors' = [p \in Pages |->
           IF \E i \in 1 .. n : free[i] = p THEN Private(s, 0, 0) ELSE descriptors[p]]
      /\ UNCHANGED <<committed, tentative, checkpoint>>

-----------------------------------------------------------------------------
(* append_tentative fills page after page and stops with an error at the   *)
(* first slot that is missing or does not resolve to the reserved private  *)
(* tail; what it appended before that slot stays appended.                 *)
Appendable(s, n) ==
  /\ SlotOf(n) \in DOMAIN pages[s]
  /\ LET p == pages[s][SlotOf(n)]
     IN  /\ IsPrivateOf(p, s)
         /\ descriptors[p].tentative = InPage(tentative[s], SlotOf(n))

AppendTentative(s, n) ==
  \E granted \in 0 .. n :
    LET length  == tentative[s] + granted
        touched == {i \in DOMAIN pages[s] : InPage(length, i) > InPage(tentative[s], i)}
    IN  /\ s \in reserved
        /\ \A j \in 0 .. granted - 1 : Appendable(s, tentative[s] + j)
        /\ granted < n => ~Appendable(s, length)
        /\ tentative' = [tentative EXCEPT ![s] = length]
        /\ descriptors' = [p \in Pages |->
             IF SlotsOf(s, p, touched) = {} THEN descriptors[p]
             ELSE Private(s, descriptors[p].committed,
                          InPage(length, CHOOSE i \in SlotsOf(s, p, touched) : TRUE))]
        /\ UNCHANGED <<free, reserved, pages, committed, checkpoint>>

(* commit makes n tentative tokens visible, token by token; a token that   *)
(* lies in a page the sequence may not write ends the call with an error   *)
(* before the reservation's own length moves.                              *)
Committable(s, n) ==
  LET p == pages[s][SlotOf(n)]
  IN  \/ IsPrivateOf(p, s)
      \/ /\ IsSealed(p)
         /\ (n + 1) % PageSize = 0

Commit(s, n) ==
  \E done \in 0 .. n :
    LET length  == committed[s] + done
        touched == {i \in DOMAIN pages[s] :
                      /\ InPage(length, i) > InPage(committed[s], i)
                      /\ IsPrivateOf(pages[s][i], s)}
    IN  /\ s \in reserved
        /\ committed[s] + n <= tentative[s]
        /\ \A j \in 0 .. done - 1 : Committable(s, committed[s] + j)
        /\ done < n => ~Committable(s, length)
        /\ committed' = [committed EXCEPT ![s] = IF done = n THEN length ELSE @]
        /\ descriptors' = [p \in Pages |->
             IF SlotsOf(s, p, touched) = {} THEN descriptors[p]
             ELSE LET i == CHOOSE i \in SlotsOf(s, p, touched) : TRUE
                  IN  Private(s, Larger(descriptors[p].committed, InPage(length, i)),
                              descriptors[p].tentative)]
        /\ UNCHANGED <<free, reserved, pages, tentative, checkpoint>>

-----------------------------------------------------------------------------
(* shrink_private_tail walks the whole table from the front, rewriting the *)
(* lengths in the private descriptors, and gives up at the first page it   *)
(* may not rewrite.  The reservation's lengths move only if it got through.*)
\* The slip lets the lengths leave a sealed page behind.
LeavesSealedBehind(s, i, t, c) == IsPrivateOf(pages[s][i], s) \/ IsSealed(pages[s][i])

Shrinkable(s, i, t, c) ==
  LET p == pages[s][i]
  IN  \/ IsPrivateOf(p, s)
      \/ /\ IsSealed(p)
         /\ InPage(c, i) = PageSize
         /\ InPage(t, i) = PageSize

ShrinkPrivateTail(s, t, c) ==
  LET walked    == {i \in DOMAIN pages[s] : \A j \in 1 .. i : Shrinkable(s, j, t, c)}
      rewritten == {i \in walked : IsPrivateOf(pages[s][i], s)}
  IN  /\ PagesFor(t) <= Len(pages[s])
      /\ c <= t
      /\ descriptors' = [p \in Pages |->
           IF SlotsOf(s, p, rewritten) = {} THEN descriptors[p]
           ELSE LET i == CHOOSE i \in SlotsOf(s, p, rewritten) : TRUE
                IN  Private(s, InPage(c, i), InPage(t, i))]
      /\ IF walked = DOMAIN pages[s]
         THEN /\ committed' = [committed EXCEPT ![s] = c]
              /\ tentative' = [tentative EXCEPT ![s] = t]
         ELSE UNCHANGED <<committed, tentative>>
      /\ UNCHANGED <<free, reserved, pages, checkpoint>>

TakeCheckpoint(s) ==
  /\ s \in reserved
  /\ checkpoint' = [taken |-> TRUE, sequence |-> s, pages |-> Len(pages[s]),
                    committed |-> committed[s], tentative |-> tentative[s]]
  /\ UNCHANGED <<descriptors, free, reserved, pages, committed, tentative>>

\* The checkpoint is a copyable value: a caller may still hold it when the
\* reservation it names has moved on, been released, or been made anew.
\* The slip forgets to compare the committed length.
ForgetsCommitted(cp) ==
  /\ cp.sequence \in reserved
  /\ cp.tentative <= tentative[cp.sequence]
  /\ cp.pages = Len(pages[cp.sequence])

CheckpointIsCurrent(cp) ==
  /\ cp.sequence \in reserved
  /\ committed[cp.sequence] = cp.committed
  /\ cp.tentative <= tentative[cp.sequence]
  /\ cp.pages = Len(pages[cp.sequence])

Rollback ==
  /\ checkpoint.taken
  /\ CheckpointIsCurrent(checkpoint)
  /\ ShrinkPrivateTail(checkpoint.sequence, checkpoint.tentative, checkpoint.committed)

Truncate(s, n) ==
  /\ s \in reserved
  /\ n <= committed[s]
  /\ ~(n % PageSize # 0 /\ IsSealed(pages[s][PagesFor(n)]))
  /\ ShrinkPrivateTail(s, n, n)

-----------------------------------------------------------------------------
(* seal_complete_pages: every private page that is full and fully          *)
(* committed becomes immutable, with this table's slot as its reference.   *)
IsComplete(s, i) ==
  /\ IsPrivateOf(pages[s][i], s)
  /\ descriptors[pages[s][i]].committed = PageSize
  /\ descriptors[pages[s][i]].tentative = PageSize

SealCompletePages(s) ==
  /\ s \in reserved
  /\ descriptors' = [p \in Pages |->
       IF \E i \in DOMAIN pages[s] : pages[s][i] = p /\ IsComplete(s, i)
       THEN Sealed(1) ELSE descriptors[p]]
  /\ UNCHANGED <<free, reserved, pages, committed, tentative, checkpoint>>

(* share_sealed inserts one sealed page at the committed boundary of a     *)
(* sequence that has no uncommitted or partial tail.                       *)
ShareSealed(s, p) ==
  LET length == committed[s] + PageSize
  IN  /\ s \in reserved
      /\ tentative[s] = committed[s]
      /\ committed[s] % PageSize = 0
      /\ IsSealed(p)
      /\ Len(pages[s]) < MaxTable
      /\ descriptors' = [descriptors EXCEPT ![p] = Sealed(descriptors[p].references + 1)]
      /\ pages' = [pages EXCEPT ![s] = InsertAt(pages[s], SlotOf(committed[s]), p)]
      /\ committed' = [committed EXCEPT ![s] = length]
      /\ tentative' = [tentative EXCEPT ![s] = length]
      /\ UNCHANGED <<free, reserved, checkpoint>>

-----------------------------------------------------------------------------
(* release_sequence drops the reservation and then walks its table         *)
(* backwards: a private page is freed, a sealed page loses one reference   *)
(* and is freed with the last.  A page that is neither ends the walk, and  *)
(* the slots before it are never visited.  One slip would walk only the    *)
(* slots in use, another free a sealed page that others still refer to.    *)
VisitedInUse(s) == 1 .. PagesFor(tentative[s])

Visited(s) ==
  {i \in DOMAIN pages[s] :
     \A j \in i .. Len(pages[s]) : IsPrivateOf(pages[s][j], s) \/ IsSealed(pages[s][j])}

\* The slots at which the walk frees a page.
FreedRegardless(s) == Visited(s)

FreedAt(s) ==
  {i \in Visited(s) :
     LET p == pages[s][i]
     IN  IsSealed(p) =>
           descriptors[p].references
             = Cardinality(SlotsOf(s, p, {j \in Visited(s) : i <= j}))}

\* All enumerations of a set of slots from the last to the first.
Backwards(slots) ==
  {order \in [1 .. Cardinality(slots) -> slots] :
     \A i, j \in 1 .. Cardinality(slots) : i < j => order[i] > order[j]}

Release(s) ==
  /\ s \in reserved
  /\ reserved' = reserved \ {s}
  /\ \E order \in Backwards(FreedAt(s)) :
       free' = free \o [k \in 1 .. Cardinality(FreedAt(s)) |-> pages[s][order[k]]]
  /\ descriptors' = [p \in Pages |->
       LET dropped == SlotsOf(s, p, Visited(s))
       IN  IF dropped = {} THEN descriptors[p]
           ELSE IF \E i \in FreedAt(s) : pages[s][i] = p THEN Free
           ELSE Sealed(descriptors[p].references - Cardinality(dropped))]
  /\ pages' = [pages EXCEPT ![s] = << >>]
  /\ committed' = [committed EXCEPT ![s] = 0]
  /\ tentative' = [tentative EXCEPT ![s] = 0]
  /\ UNCHANGED checkpoint

-----------------------------------------------------------------------------
Next ==
  \/ \E s \in SequenceIds : \E n \in 0 .. NumPages : Reserve(s, n)
  \/ \E s \in SequenceIds : \E n \in 1 .. MaxTokens : AppendTentative(s, n)
  \/ \E s \in SequenceIds : \E n \in 1 .. MaxTokens : Commit(s, n)
  \/ \E s \in SequenceIds : TakeCheckpoint(s)
  \/ Rollback
  \/ \E s \in SequenceIds : \E n \in 0 .. NumPages * PageSize : Truncate(s, n)
  \/ \E s \in SequenceIds : SealCompletePages(s)
  \/ \E s \in SequenceIds : \E p \in Pages : ShareSealed(s, p)
  \/ \E s \in SequenceIds : Release(s)

Spec == Init /\ [][Next]_vars

-----------------------------------------------------------------------------
(* Properties.                                                             *)

\* Every slot of every table that refers to page p.
References(p) == UNION {{s} \X {i \in DOMAIN pages[s] : pages[s][i] = p} : s \in SequenceIds}

(* The free queue lists exactly the pages whose descriptor is Free, each   *)
(* once: no page is lost by a release, freed twice, or handed out while    *)
(* somebody holds it (reserve_pages pops it without looking).              *)
FreeListExact ==
  /\ \A p \in Pages : descriptors[p].state = "Free" <=> \E i \in DOMAIN free : free[i] = p
  /\ \A i, j \in DOMAIN free : free[i] = free[j] => i = j

(* A private page sits in exactly one slot, of its owner's table; a sealed *)
(* page is counted once for every slot that refers to it; no table refers  *)
(* to a free page; and only reserved sequences have tables.  This is what  *)
(* keeps one request from reading or writing another one's K/V page.       *)
OwnershipExact ==
  /\ \A p \in Pages :
       /\ descriptors[p].state = "Private" =>
            \E i \in DOMAIN pages[descriptors[p].owner] :
              References(p) = {<<descriptors[p].owner, i>>}
       /\ IsSealed(p) => descriptors[p].references = Cardinality(References(p))
       /\ descriptors[p].state = "Free" => References(p) = {}
  /\ \A s \in SequenceIds : pages[s] # << >> => s \in reserved

(* Tables, descriptors and the free queue tell the same story at every     *)
(* moment: no page is lost, freed twice or owned twice, however far a      *)
(* failing call came.                                                      *)
PagesExact == TypeOK /\ FreeListExact /\ OwnershipExact

(* A sealed page lies wholly below the committed length of every sequence  *)
(* that refers to it: no append, commit, rollback or truncate can reach    *)
(* into an immutable page.                                                 *)
SealedBelowCommitted ==
  \A s \in reserved : \A i \in DOMAIN pages[s] :
    IsSealed(pages[s][i]) => InPage(committed[s], i) = PageSize

(* "A request therefore cannot encounter a later allocation failure"       *)
(* (cache.rs, reserve_pages): every token up to the end of the table can   *)
(* be appended, whatever was sealed, shared, rolled back or truncated.     *)
ReservationHonoured ==
  \A s \in reserved :
    /\ committed[s] <= tentative[s]
    /\ tentative[s] <= Len(pages[s]) * PageSize
    /\ \A n \in tentative[s] .. Len(pages[s]) * PageSize - 1 : Appendable(s, n)

(* The page manager implements the ledger the engine relies on: a grant    *)
(* is all or nothing, lengths stay within the granted capacity, rollback   *)
(* takes back only what was never committed, sharing allocates nothing,    *)
(* and after the last release every page is unclaimed again.               *)
Ledger == INSTANCE CacheLedger WITH
  held <- reserved,
  capacity <- [s \in SequenceIds |-> Len(pages[s]) * PageSize],
  unclaimed <- Len(free)

ImplementsLedger == Ledger!Spec

(* A sealed page is immutable: it stays sealed until its last reference is *)
(* released, and only then returns to the free queue.                      *)
SealedUntilReleased ==
  [][\A p \in Pages :
       IsSealed(p) =>
         \/ descriptors'[p].state = "Sealed"
         \/ /\ descriptors'[p] = Free
            /\ \A s \in reserved' : \A i \in DOMAIN pages'[s] : pages'[s][i] # p]_vars
=============================================================================

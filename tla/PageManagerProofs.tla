-------------------------- MODULE PageManagerProofs --------------------------
(***************************************************************************)
(* Proofs about PageManager, for any number of pages and sequences and any *)
(* page size: no page is lost, handed out twice or changed after it was    *)
(* sealed, and a reservation never runs out.                               *)
(***************************************************************************)
EXTENDS PageManager, SequenceTheorems, FunctionTheorems, FiniteSetTheorems, WellFoundedInduction, TLAPS

-----------------------------------------------------------------------------
(* Positions.                                                              *)

\* The first token of slot i.  Nothing below multiplies: it compares bases.
Base(i) == (i - 1) * PageSize

\* Multiples of the page size that differ, differ by at least a page size.
LEMMA Multiples ==
  ASSUME NEW a \in Nat, NEW b \in Nat, NEW z \in Nat
  PROVE  /\ a * z \in Nat
         /\ a < b => a * z + z <= b * z
         /\ (a + 1) * z = a * z + z
  BY SMT

\* The bases of the slots are a page size apart.
LEMMA BaseFacts ==
  ASSUME NEW i \in Nat \ {0}
  PROVE  /\ Base(i) \in Nat
         /\ Base(i + 1) = Base(i) + PageSize
         /\ \A j \in Nat \ {0} : i < j => Base(i) + PageSize <= Base(j)
         /\ Base(1) = 0
<1>1. i - 1 \in Nat /\ PageSize \in Nat
  BY PageManagerAssumption
<1>2. Base(i) \in Nat
  BY <1>1, Multiples DEF Base
<1>3. Base(i + 1) = Base(i) + PageSize
  <2>1. ((i - 1) + 1) * PageSize = (i - 1) * PageSize + PageSize
    BY <1>1, Multiples
  <2> QED
    BY <2>1 DEF Base
<1>4. ASSUME NEW j \in Nat \ {0}, i < j PROVE Base(i) + PageSize <= Base(j)
  <2>1. j - 1 \in Nat /\ i - 1 < j - 1
    BY <1>4
  <2> QED
    BY <2>1, <1>1, Multiples DEF Base
<1>5. Base(1) = 0
  BY <1>1 DEF Base
<1> QED
  BY <1>2, <1>3, <1>4, <1>5

\* A later slot has a later base.
LEMMA BaseMonotonic ==
  ASSUME NEW i \in Nat \ {0}, NEW j \in Nat \ {0}, i <= j
  PROVE  Base(i) <= Base(j)
<1>1. Base(i) \in Nat /\ Base(j) \in Nat /\ PageSize \in Nat
  BY BaseFacts, PageManagerAssumption
<1>2. i < j => Base(i) + PageSize <= Base(j)
  BY BaseFacts
<1> QED
  BY <1>1, <1>2

\* The quotient that page_slot computes, bracketed by multiples of the divisor.
LEMMA Division ==
  ASSUME NEW n \in Nat, NEW z \in Nat \ {0}
  PROVE  n \div z \in Nat /\ (n \div z) * z <= n /\ n < (n \div z) * z + z
  BY Z3

\* On a page boundary the quotient is exact.
LEMMA Remainder ==
  ASSUME NEW n \in Nat, NEW z \in Nat \ {0}, n % z = 0
  PROVE  (n \div z) * z = n
  BY Z3

\* A whole number of pages divides back into itself.
LEMMA Quotient ==
  ASSUME NEW n \in Nat, NEW z \in Nat \ {0}
  PROVE  (n * z) \div z = n
  BY Z3

\* A table of as many pages as n tokens occupy holds them.
LEMMA PagesForFacts ==
  ASSUME NEW n \in Nat, NEW k \in Nat, PagesFor(n) <= k
  PROVE  n <= Base(k + 1)
<1> DEFINE q == PagesFor(n)
<1>1. PageSize \in Nat \ {0} /\ n + PageSize - 1 \in Nat
  BY PageManagerAssumption
<1>2. q \in Nat /\ n + PageSize - 1 < q * PageSize + PageSize
  BY <1>1, Division DEF PagesFor
<1>3. q * PageSize <= k * PageSize /\ q * PageSize \in Nat /\ k * PageSize \in Nat
  <2>1. q < k => q * PageSize + PageSize <= k * PageSize
    BY <1>1, <1>2, Multiples
  <2>2. q * PageSize \in Nat /\ k * PageSize \in Nat
    BY <1>1, <1>2, Multiples
  <2> QED
    BY <2>1, <2>2, <1>1, <1>2
<1>4. k + 1 - 1 = k
  OBVIOUS
<1> QED
  BY <1>1, <1>2, <1>3, <1>4 DEF Base

\* The slot of a token is the one whose tokens include it.
LEMMA SlotFacts ==
  ASSUME NEW n \in Nat
  PROVE  /\ SlotOf(n) \in Nat \ {0}
         /\ Base(SlotOf(n)) <= n /\ n < Base(SlotOf(n)) + PageSize
         /\ \A i \in Nat \ {0} : Base(i) <= n /\ n < Base(i) + PageSize => i = SlotOf(n)
<1> DEFINE q == n \div PageSize
<1>1. q \in Nat /\ q * PageSize <= n /\ n < q * PageSize + PageSize
  BY PageManagerAssumption, Z3
<1>2. SlotOf(n) \in Nat \ {0} /\ SlotOf(n) - 1 = q
  BY <1>1 DEF SlotOf
<1>3. Base(SlotOf(n)) <= n /\ n < Base(SlotOf(n)) + PageSize
  BY <1>1, <1>2 DEF Base
<1>4. ASSUME NEW i \in Nat \ {0}, Base(i) <= n, n < Base(i) + PageSize
      PROVE  i = SlotOf(n)
  <2>1. Base(i) \in Nat /\ Base(SlotOf(n)) \in Nat /\ PageSize \in Nat
    BY <1>2, BaseFacts, PageManagerAssumption
  <2>2. ~(i < SlotOf(n))
    <3>1. i < SlotOf(n) => Base(i) + PageSize <= Base(SlotOf(n))
      BY <1>2, BaseFacts
    <3> QED
      BY <3>1, <2>1, <1>3, <1>4
  <2>3. ~(SlotOf(n) < i)
    <3>1. SlotOf(n) < i => Base(SlotOf(n)) + PageSize <= Base(i)
      BY <1>2, BaseFacts
    <3> QED
      BY <3>1, <2>1, <1>3, <1>4
  <2> QED
    BY <1>2, <2>2, <2>3
<1> QED
  BY <1>2, <1>3, <1>4

\* How many of the first n tokens lie in slot i.
LEMMA InPageFacts ==
  ASSUME NEW n \in Nat, NEW i \in Nat \ {0}
  PROVE  /\ InPage(n, i) \in 0 .. PageSize
         /\ n <= Base(i) => InPage(n, i) = 0
         /\ Base(i) < n /\ n < Base(i) + PageSize => InPage(n, i) = n - Base(i)
         /\ Base(i) + PageSize <= n => InPage(n, i) = PageSize
  BY BaseFacts, PageManagerAssumption DEF InPage, Base

\* A larger length never has fewer tokens in a slot.
LEMMA InPageMonotonic ==
  ASSUME NEW m \in Nat, NEW n \in Nat, m <= n, NEW i \in Nat \ {0}
  PROVE  InPage(m, i) <= InPage(n, i)
<1>1. Base(i) \in Nat /\ PageSize \in Nat
  BY BaseFacts, PageManagerAssumption
<1> QED
  BY <1>1, PageManagerAssumption DEF InPage, Base

\* A slot that gets more tokens gets one of those that are added.
LEMMA InPageGrows ==
  ASSUME NEW m \in Nat, NEW g \in Nat, NEW i \in Nat \ {0}, InPage(m + g, i) > InPage(m, i)
  PROVE  \E j \in 0 .. g - 1 : SlotOf(m + j) = i
<1>1. Base(i) \in Nat /\ PageSize \in Nat \ {0}
  BY BaseFacts, PageManagerAssumption
<1>2. m < Base(i) + PageSize /\ Base(i) < m + g
  <2>1. m + g \in Nat /\ InPage(m, i) \in 0 .. PageSize /\ InPage(m + g, i) \in 0 .. PageSize
    BY InPageFacts
  <2>2. ~(Base(i) + PageSize <= m)
    BY <2>1, <1>1, InPageFacts
  <2>3. ~(m + g <= Base(i))
    BY <2>1, <1>1, InPageFacts
  <2> QED
    BY <2>2, <2>3, <1>1
<1>3. CASE Base(i) <= m
  <2>1. m + 0 = m /\ SlotOf(m) = i
    BY <1>1, <1>2, <1>3, SlotFacts
  <2>2. 0 \in 0 .. g - 1
    <3>1. InPage(m, i) \in 0 .. PageSize /\ (g = 0 => m + g = m)
      BY InPageFacts
    <3>2. g # 0
      BY <3>1, <1>1
    <3> QED
      BY <3>2
  <2> QED
    BY <2>1, <2>2
<1>4. CASE m < Base(i)
  <2>1. Base(i) - m \in 0 .. g - 1
    BY <1>1, <1>2, <1>4
  <2>2. m + (Base(i) - m) = Base(i)
    BY <1>1
  <2>3. SlotOf(Base(i)) = i
    BY <1>1, SlotFacts
  <2> QED
    BY <2>1, <2>2, <2>3
<1> QED
  BY <1>1, <1>3, <1>4

-----------------------------------------------------------------------------
(* Descriptors.                                                            *)

\* What the fields of a private page's descriptor are.
LEMMA PrivateFields ==
  ASSUME NEW s, NEW c, NEW t
  PROVE  /\ Private(s, c, t).state = "Private" /\ Private(s, c, t).owner = s
         /\ Private(s, c, t).committed = c /\ Private(s, c, t).tentative = t
         /\ s \in SequenceIds /\ c \in 0 .. PageSize /\ t \in 0 .. PageSize
              => Private(s, c, t) \in Descriptor
  BY DEF Private, Descriptor

\* What the fields of a sealed page's descriptor are.
LEMMA SealedFields ==
  ASSUME NEW n
  PROVE  /\ Sealed(n).state = "Sealed" /\ Sealed(n).references = n
         /\ n \in Nat \ {0} => Sealed(n) \in Descriptor
  BY DEF Sealed, Descriptor

\* A free page's descriptor.
LEMMA FreeFields == Free.state = "Free" /\ Free \in Descriptor
  BY DEF Free, Descriptor

\* Which fields a well-typed descriptor of each state has.
LEMMA DescriptorFields ==
  ASSUME NEW d \in Descriptor
  PROVE  /\ d.state \in {"Free", "Private", "Sealed"}
         /\ d.state = "Private" =>
              d.owner \in SequenceIds /\ d.committed \in 0 .. PageSize /\ d.tentative \in 0 .. PageSize
         /\ d.state = "Sealed" => d.references \in Nat \ {0}
         /\ d.state = "Free" => d = Free
  BY DEF Descriptor, Free

-----------------------------------------------------------------------------
(* The inductive invariant.                                                *)

\* Lengths stay within the table, and only a reservation has one.
Fits ==
  /\ \A s \in SequenceIds : committed[s] <= tentative[s] /\ tentative[s] <= Base(Len(pages[s]) + 1)
  /\ \A s \in SequenceIds : pages[s] # << >> => s \in reserved

\* A slot refers to a private page of its sequence, by this slot alone, or to a sealed
\* one.  A sealed page lies below the committed length; a private one is committed no
\* further than that and, where tokens can still be appended, written exactly as far as
\* the tentative length says.
SlotRight(s, i) ==
  LET p == pages[s][i] IN
  /\ IsPrivateOf(p, s) \/ IsSealed(p)
  /\ IsSealed(p) => InPage(committed[s], i) = PageSize
  /\ IsPrivateOf(p, s) =>
       /\ descriptors[p].committed <= InPage(committed[s], i)
       /\ InPage(tentative[s], i) < PageSize => descriptors[p].tentative = InPage(tentative[s], i)
       /\ \A j \in 1 .. Len(pages[s]) : pages[s][j] = p => j = i

SlotsRight == \A s \in SequenceIds : \A i \in 1 .. Len(pages[s]) : SlotRight(s, i)

\* A private page is in its owner's table.
Placed ==
  \A p \in Pages : descriptors[p].state = "Private" =>
    \E i \in 1 .. Len(pages[descriptors[p].owner]) : pages[descriptors[p].owner][i] = p

\* A sealed page counts the slots that refer to it.
Counted ==
  \A p \in Pages : IsSealed(p) =>
    IsFiniteSet(References(p)) /\ descriptors[p].references = Cardinality(References(p))

IInv == TypeOK /\ FreeListExact /\ Fits /\ SlotsRight /\ Placed /\ Counted

\* What a step may make of a sealed page.
SealedStays ==
  \A p \in Pages :
    IsSealed(p) =>
      \/ descriptors'[p].state = "Sealed"
      \/ /\ descriptors'[p] = Free
         /\ \A s \in reserved' : \A i \in DOMAIN pages'[s] : pages'[s][i] # p

\* A table is a sequence of pages, and none of them is free.
LEMMA Slots ==
  ASSUME IInv, NEW s \in SequenceIds
  PROVE  /\ Len(pages[s]) \in Nat /\ DOMAIN pages[s] = 1 .. Len(pages[s])
         /\ pages[s] \in Seq(Pages)
         /\ committed[s] \in Nat /\ tentative[s] \in Nat
         /\ \A i \in 1 .. Len(pages[s]) :
              /\ i \in Nat \ {0}
              /\ pages[s][i] \in Pages
              /\ descriptors[pages[s][i]] \in Descriptor
              /\ SlotRight(s, i)
<1>1. pages[s] \in Seq(Pages) /\ committed[s] \in Nat /\ tentative[s] \in Nat
  BY DEF IInv, TypeOK
<1>2. Len(pages[s]) \in Nat /\ DOMAIN pages[s] = 1 .. Len(pages[s])
  BY <1>1, LenProperties
<1>3. ASSUME NEW i \in 1 .. Len(pages[s])
      PROVE  /\ i \in Nat \ {0} /\ pages[s][i] \in Pages
             /\ descriptors[pages[s][i]] \in Descriptor /\ SlotRight(s, i)
  <2>1. i \in Nat \ {0} /\ pages[s][i] \in Pages
    BY <1>1, <1>2, ElementOfSeq
  <2> QED
    BY <2>1 DEF IInv, TypeOK, SlotsRight
<1> QED
  BY <1>1, <1>2, <1>3

\* Of a set of private slots of s, the one that holds a page is unique.
LEMMA TouchedSlot ==
  ASSUME IInv, NEW s \in SequenceIds, NEW T \in SUBSET (1 .. Len(pages[s])),
         \A i \in T : IsPrivateOf(pages[s][i], s)
  PROVE  /\ \A p \in Pages : SlotsOf(s, p, T) # {} =>
              \E i \in T : p = pages[s][i] /\ (CHOOSE j \in SlotsOf(s, p, T) : TRUE) = i
         /\ \A i \in 1 .. Len(pages[s]) : IsPrivateOf(pages[s][i], s) =>
              (i \in T <=> SlotsOf(s, pages[s][i], T) # {})
         /\ \A i \in T : /\ SlotsOf(s, pages[s][i], T) # {}
                         /\ (CHOOSE j \in SlotsOf(s, pages[s][i], T) : TRUE) = i
<1>1. \A i \in T : \A j \in 1 .. Len(pages[s]) : pages[s][j] = pages[s][i] => j = i
  BY Slots DEF SlotRight
<1>2. ASSUME NEW i \in T
      PROVE  SlotsOf(s, pages[s][i], T) = {i}
  BY <1>1 DEF SlotsOf
<1>3. \A p \in Pages : SlotsOf(s, p, T) # {} => \E i \in T : p = pages[s][i]
  BY DEF SlotsOf
<1>4. ASSUME NEW i \in 1 .. Len(pages[s]), IsPrivateOf(pages[s][i], s), i \notin T
      PROVE  SlotsOf(s, pages[s][i], T) = {}
  <2>1. \A j \in 1 .. Len(pages[s]) : pages[s][j] = pages[s][i] => j = i
    BY <1>4, Slots DEF SlotRight
  <2> QED
    BY <2>1, <1>4 DEF SlotsOf
<1>5. ASSUME NEW i \in T
      PROVE  (CHOOSE j \in SlotsOf(s, pages[s][i], T) : TRUE) = i
  <2>1. \E j \in SlotsOf(s, pages[s][i], T) : TRUE
    BY <1>2
  <2>2. (CHOOSE j \in SlotsOf(s, pages[s][i], T) : TRUE) \in SlotsOf(s, pages[s][i], T)
    BY <2>1
  <2> QED
    BY <2>2, <1>2
<1>6. \A p \in Pages : SlotsOf(s, p, T) # {} =>
        \E i \in T : p = pages[s][i] /\ (CHOOSE j \in SlotsOf(s, p, T) : TRUE) = i
  BY <1>3, <1>5
<1>7. \A i \in 1 .. Len(pages[s]) : IsPrivateOf(pages[s][i], s) =>
        (i \in T <=> SlotsOf(s, pages[s][i], T) # {})
  BY <1>2, <1>4
<1>8. \A i \in T : SlotsOf(s, pages[s][i], T) # {}
  BY <1>2
<1> QED
  BY <1>5, <1>6, <1>7, <1>8

\* What a step keeps that only rewrites lengths in private pages of one sequence and
\* moves the lengths of its reservation.
LEMMA RewrittenPages ==
  ASSUME IInv, NEW s \in SequenceIds, NEW c \in Nat, NEW t \in Nat,
         UNCHANGED <<free, reserved, pages, checkpoint>>,
         committed' = [committed EXCEPT ![s] = c],
         tentative' = [tentative EXCEPT ![s] = t],
         c <= t, t <= Base(Len(pages[s]) + 1),
         descriptors' \in [Pages -> Descriptor],
         \A p \in Pages :
           \/ descriptors'[p] = descriptors[p]
           \/ /\ IsPrivateOf(p, s)
              /\ descriptors'[p].state = "Private" /\ descriptors'[p].owner = s,
         \A i \in 1 .. Len(pages[s]) :
           /\ IsSealed(pages[s][i]) => InPage(c, i) = PageSize
           /\ IsPrivateOf(pages[s][i], s) =>
                /\ descriptors'[pages[s][i]].committed <= InPage(c, i)
                /\ InPage(t, i) < PageSize => descriptors'[pages[s][i]].tentative = InPage(t, i)
  PROVE  IInv' /\ SealedStays
<1>1. TypeOK'
  BY DEF IInv, TypeOK
<1>2. /\ committed'[s] = c /\ tentative'[s] = t
      /\ \A r \in SequenceIds \ {s} : committed'[r] = committed[r] /\ tentative'[r] = tentative[r]
  BY DEF IInv, TypeOK
<1>3. \A p \in Pages : descriptors'[p].state = descriptors[p].state
  BY DEF IsPrivateOf
<1>4. \A p \in Pages : \A r : /\ (IsPrivateOf(p, r))' <=> IsPrivateOf(p, r)
                              /\ (IsSealed(p))' <=> IsSealed(p)
  BY DEF IsPrivateOf, IsSealed
<1>5. \A p \in Pages : IsSealed(p) => descriptors'[p] = descriptors[p]
  BY DEF IsPrivateOf, IsSealed
<1>6. FreeListExact'
  BY <1>3 DEF IInv, FreeListExact
<1>7. Fits'
  BY <1>2 DEF IInv, Fits, Base
<1>8. Placed'
  <2>1. ASSUME NEW p \in Pages, descriptors'[p].state = "Private"
        PROVE  descriptors[p].state = "Private" /\ descriptors'[p].owner = descriptors[p].owner
    BY <2>1 DEF IsPrivateOf
  <2> QED
    BY <2>1 DEF IInv, Placed
<1>9. Counted'
  <2>1. \A p \in Pages : (References(p))' = References(p)
    BY DEF References
  <2> QED
    BY <2>1, <1>4, <1>5 DEF IInv, Counted
<1>10. SlotsRight'
  <2>1. ASSUME NEW r \in SequenceIds, NEW i \in 1 .. Len(pages[r])
        PROVE  (SlotRight(r, i))'
    <3> DEFINE p == pages[r][i]
    <3>1. p \in Pages /\ SlotRight(r, i)
      BY Slots
    <3>2. CASE r = s
      BY <3>1, <3>2, <1>2, <1>4 DEF SlotRight
    <3>3. CASE r # s
      <4>1. ~IsPrivateOf(p, r) \/ descriptors'[p] = descriptors[p]
        BY <3>1, <3>3 DEF IsPrivateOf
      <4> QED
        BY <4>1, <3>1, <3>3, <1>2, <1>4 DEF SlotRight
    <3> QED
      BY <3>2, <3>3
  <2> QED
    BY <2>1 DEF SlotsRight
<1>11. SealedStays
  BY <1>4 DEF SealedStays, IsSealed
<1> QED
  BY <1>1, <1>6, <1>7, <1>8, <1>9, <1>10, <1>11 DEF IInv

\* The same, with what is written given slot by slot.
LEMMA Rewritten ==
  ASSUME IInv, NEW s \in SequenceIds, NEW c \in Nat, NEW t \in Nat,
         NEW T \in SUBSET (1 .. Len(pages[s])),
         \A i \in T : IsPrivateOf(pages[s][i], s),
         UNCHANGED <<free, reserved, pages, checkpoint>>,
         committed' = [committed EXCEPT ![s] = c],
         tentative' = [tentative EXCEPT ![s] = t],
         c <= t, t <= Base(Len(pages[s]) + 1),
         descriptors' = [p \in Pages |-> descriptors'[p]],
         \A p \in Pages : SlotsOf(s, p, T) = {} => descriptors'[p] = descriptors[p],
         \A i \in T : \E a, b \in 0 .. PageSize :
           /\ descriptors'[pages[s][i]] = Private(s, a, b)
           /\ a <= InPage(c, i)
           /\ InPage(t, i) < PageSize => b = InPage(t, i),
         \A i \in 1 .. Len(pages[s]) : IsSealed(pages[s][i]) => InPage(c, i) = PageSize,
         \A i \in 1 .. Len(pages[s]) : i \notin T /\ IsPrivateOf(pages[s][i], s) =>
           /\ descriptors[pages[s][i]].committed <= InPage(c, i)
           /\ InPage(t, i) < PageSize => descriptors[pages[s][i]].tentative = InPage(t, i)
  PROVE  IInv' /\ SealedStays
<1>1. \A p \in Pages : \/ descriptors'[p] = descriptors[p]
                       \/ \E i \in T : p = pages[s][i]
  BY DEF SlotsOf
<1>2. ASSUME NEW i \in T
      PROVE  /\ descriptors'[pages[s][i]] \in Descriptor
             /\ IsPrivateOf(pages[s][i], s)
             /\ descriptors'[pages[s][i]].state = "Private" /\ descriptors'[pages[s][i]].owner = s
             /\ descriptors'[pages[s][i]].committed <= InPage(c, i)
             /\ InPage(t, i) < PageSize => descriptors'[pages[s][i]].tentative = InPage(t, i)
  <2>1. PICK a \in 0 .. PageSize, b \in 0 .. PageSize :
          /\ descriptors'[pages[s][i]] = Private(s, a, b)
          /\ a <= InPage(c, i)
          /\ InPage(t, i) < PageSize => b = InPage(t, i)
    OBVIOUS
  <2> QED
    BY <2>1, PrivateFields
<1>3. descriptors' \in [Pages -> Descriptor]
  <2>1. \A p \in Pages : descriptors'[p] \in Descriptor
    BY <1>1, <1>2 DEF IInv, TypeOK
  <2> QED
    BY <2>1
<1>4. \A p \in Pages :
        \/ descriptors'[p] = descriptors[p]
        \/ /\ IsPrivateOf(p, s)
           /\ descriptors'[p].state = "Private" /\ descriptors'[p].owner = s
  BY <1>1, <1>2
<1>5. ASSUME NEW i \in 1 .. Len(pages[s]), IsPrivateOf(pages[s][i], s)
      PROVE  /\ descriptors'[pages[s][i]].committed <= InPage(c, i)
             /\ InPage(t, i) < PageSize => descriptors'[pages[s][i]].tentative = InPage(t, i)
  <2>1. CASE i \in T
    BY <2>1, <1>2
  <2>2. CASE i \notin T
    <3>1. SlotsOf(s, pages[s][i], T) = {} /\ pages[s][i] \in Pages
      BY <1>5, <2>2, TouchedSlot, Slots
    <3> QED
      BY <3>1, <1>5, <2>2
  <2> QED
    BY <2>1, <2>2
<1>6. \A i \in 1 .. Len(pages[s]) :
        /\ IsSealed(pages[s][i]) => InPage(c, i) = PageSize
        /\ IsPrivateOf(pages[s][i], s) =>
             /\ descriptors'[pages[s][i]].committed <= InPage(c, i)
             /\ InPage(t, i) < PageSize => descriptors'[pages[s][i]].tentative = InPage(t, i)
  BY <1>5
<1> QED
  BY <1>3, <1>4, <1>6, RewrittenPages

-----------------------------------------------------------------------------
(* Steps that move the lengths.                                            *)

\* What the invariant says of the lengths of one reservation.
LEMMA Lengths ==
  ASSUME IInv, NEW s \in SequenceIds
  PROVE  /\ PageSize \in Nat \ {0}
         /\ Len(pages[s]) \in Nat /\ DOMAIN pages[s] = 1 .. Len(pages[s])
         /\ committed[s] \in Nat /\ tentative[s] \in Nat
         /\ committed[s] <= tentative[s] /\ tentative[s] <= Base(Len(pages[s]) + 1)
         /\ Base(Len(pages[s]) + 1) \in Nat
         /\ committed = [committed EXCEPT ![s] = committed[s]]
         /\ tentative = [tentative EXCEPT ![s] = tentative[s]]
<1>1. Len(pages[s]) \in Nat /\ Len(pages[s]) + 1 \in Nat \ {0}
  BY Slots
<1>2. Base(Len(pages[s]) + 1) \in Nat
  BY <1>1, BaseFacts
<1> QED
  BY <1>1, <1>2, Slots, PageManagerAssumption DEF IInv, Fits, TypeOK

\* append_tentative keeps the invariant: the pages that it writes are its own, and
\* their tentative counts follow the sequence's length.
LEMMA AppendStep ==
  ASSUME IInv, NEW s \in SequenceIds, NEW n \in Nat, AppendTentative(s, n)
  PROVE  IInv' /\ SealedStays
<1>1. PICK granted \in 0 .. n :
        LET length  == tentative[s] + granted
            touched == {i \in DOMAIN pages[s] : InPage(length, i) > InPage(tentative[s], i)}
        IN  /\ \A j \in 0 .. granted - 1 : Appendable(s, tentative[s] + j)
            /\ tentative' = [tentative EXCEPT ![s] = length]
            /\ descriptors' = [p \in Pages |->
                 IF SlotsOf(s, p, touched) = {} THEN descriptors[p]
                 ELSE Private(s, descriptors[p].committed,
                              InPage(length, CHOOSE i \in SlotsOf(s, p, touched) : TRUE))]
            /\ UNCHANGED <<free, reserved, pages, committed, checkpoint>>
  BY DEF AppendTentative
<1> DEFINE length  == tentative[s] + granted
           touched == {i \in DOMAIN pages[s] : InPage(length, i) > InPage(tentative[s], i)}
<1>2. length \in Nat /\ granted \in Nat /\ committed[s] <= length /\ tentative[s] <= length
  BY Lengths
<1>3. ASSUME NEW i \in touched
      PROVE  IsPrivateOf(pages[s][i], s)
  <2>1. i \in Nat \ {0} /\ InPage(tentative[s] + granted, i) > InPage(tentative[s], i)
    BY Lengths
  <2>2. PICK j \in 0 .. granted - 1 : SlotOf(tentative[s] + j) = i
    BY <1>2, <2>1, Lengths, InPageGrows
  <2> QED
    BY <2>2, <1>1 DEF Appendable
<1>4. length <= Base(Len(pages[s]) + 1)
  <2>1. CASE granted = 0
    BY <2>1, Lengths
  <2>2. CASE granted # 0
    <3> DEFINE last == granted - 1
    <3>1. PICK k \in 1 .. Len(pages[s]) : k = SlotOf(tentative[s] + last)
      <4>1. last \in 0 .. granted - 1
        BY <2>2, <1>2
      <4>2. Appendable(s, tentative[s] + last)
        BY <4>1, <1>1
      <4> QED
        BY <4>2, Lengths DEF Appendable
    <3>2. tentative[s] + last < Base(k) + PageSize
      BY <3>1, <2>2, <1>2, Lengths, SlotFacts
    <3>3. k \in Nat \ {0} /\ k + 1 \in Nat \ {0} /\ k + 1 <= Len(pages[s]) + 1 /\ Len(pages[s]) + 1 \in Nat \ {0}
      BY <3>1, Lengths
    <3>4. Base(k) + PageSize = Base(k + 1) /\ Base(k + 1) <= Base(Len(pages[s]) + 1)
      BY <3>3, BaseFacts, BaseMonotonic
    <3>5. Base(k) \in Nat
      BY <3>3, BaseFacts
    <3> QED
      BY <3>2, <3>4, <3>5, <1>2, <2>2, Lengths
  <2> QED
    BY <2>1, <2>2
<1>5. touched \in SUBSET (1 .. Len(pages[s]))
  BY Lengths
<1>6. \A i \in 1 .. Len(pages[s]) : i \notin touched => InPage(length, i) = InPage(tentative[s], i)
  <2>1. ASSUME NEW i \in 1 .. Len(pages[s]), i \notin touched
        PROVE  InPage(length, i) = InPage(tentative[s], i)
    <3>1. i \in Nat \ {0}
      BY Lengths
    <3>2. InPage(tentative[s], i) <= InPage(length, i)
      BY <3>1, <1>2, Lengths, InPageMonotonic
    <3>3. InPage(length, i) \in 0 .. PageSize /\ InPage(tentative[s], i) \in 0 .. PageSize
      BY <3>1, <1>2, Lengths, InPageFacts
    <3>4. ~(InPage(length, i) > InPage(tentative[s], i))
      BY <2>1, Lengths
    <3> QED
      BY <3>2, <3>3, <3>4
  <2> QED
    BY <2>1
<1>7. \A p \in Pages : descriptors'[p] =
        IF SlotsOf(s, p, touched) = {} THEN descriptors[p]
        ELSE Private(s, descriptors[p].committed,
                     InPage(length, CHOOSE i \in SlotsOf(s, p, touched) : TRUE))
  BY <1>1
<1>8. /\ descriptors' = [p \in Pages |-> descriptors'[p]]
      /\ UNCHANGED <<free, reserved, pages, checkpoint>>
      /\ tentative' = [tentative EXCEPT ![s] = length]
      /\ committed' = [committed EXCEPT ![s] = committed[s]]
  BY <1>1, Lengths
<1> HIDE DEF length, touched
<1>9. ASSUME NEW i \in touched
      PROVE  \E a, b \in 0 .. PageSize :
               /\ descriptors'[pages[s][i]] = Private(s, a, b)
               /\ a <= InPage(committed[s], i)
               /\ InPage(length, i) < PageSize => b = InPage(length, i)
  <2>1. pages[s][i] \in Pages /\ i \in Nat \ {0} /\ SlotRight(s, i) /\ descriptors[pages[s][i]] \in Descriptor
    BY <1>5, Slots
  <2>2. descriptors'[pages[s][i]] = Private(s, descriptors[pages[s][i]].committed, InPage(length, i))
    BY <2>1, <1>3, <1>5, <1>7, TouchedSlot
  <2>3. /\ descriptors[pages[s][i]].committed \in 0 .. PageSize
        /\ descriptors[pages[s][i]].committed <= InPage(committed[s], i)
    BY <2>1, <1>3, DescriptorFields DEF SlotRight, IsPrivateOf
  <2>4. InPage(length, i) \in 0 .. PageSize
    BY <2>1, <1>2, InPageFacts
  <2> QED
    BY <2>2, <2>3, <2>4
<1>10. \A i \in 1 .. Len(pages[s]) : IsSealed(pages[s][i]) => InPage(committed[s], i) = PageSize
  BY Slots DEF SlotRight
<1>11. \A i \in 1 .. Len(pages[s]) : i \notin touched /\ IsPrivateOf(pages[s][i], s) =>
         /\ descriptors[pages[s][i]].committed <= InPage(committed[s], i)
         /\ InPage(length, i) < PageSize => descriptors[pages[s][i]].tentative = InPage(length, i)
  BY <1>6, Slots DEF SlotRight
<1>12. committed[s] \in Nat
  BY Lengths
<1> QED
  BY <1>2, <1>3, <1>4, <1>5, <1>7, <1>8, <1>9, <1>10, <1>11, <1>12, Rewritten

\* A commit within the tentative length never meets a page it may not write.
LEMMA CommitStep ==
  ASSUME IInv, NEW s \in SequenceIds, NEW n \in Nat, Commit(s, n)
  PROVE  IInv' /\ SealedStays
<1>1. PICK done \in 0 .. n :
        LET length  == committed[s] + done
            touched == {i \in DOMAIN pages[s] :
                          /\ InPage(length, i) > InPage(committed[s], i)
                          /\ IsPrivateOf(pages[s][i], s)}
        IN  /\ committed[s] + n <= tentative[s]
            /\ done < n => ~Committable(s, length)
            /\ committed' = [committed EXCEPT ![s] = IF done = n THEN length ELSE @]
            /\ descriptors' = [p \in Pages |->
                 IF SlotsOf(s, p, touched) = {} THEN descriptors[p]
                 ELSE LET i == CHOOSE i \in SlotsOf(s, p, touched) : TRUE
                      IN  Private(s, Larger(descriptors[p].committed, InPage(length, i)),
                                  descriptors[p].tentative)]
            /\ UNCHANGED <<free, reserved, pages, tentative, checkpoint>>
  BY DEF Commit
<1> DEFINE length  == committed[s] + done
           touched == {i \in DOMAIN pages[s] :
                         /\ InPage(length, i) > InPage(committed[s], i)
                         /\ IsPrivateOf(pages[s][i], s)}
<1>2. length \in Nat /\ committed[s] <= length /\ length <= committed[s] + n
  BY Lengths
<1>3. done = n
  <2>1. SUFFICES ASSUME done < n PROVE Committable(s, length)
    BY <1>1
  <2>2. length \in Nat /\ length < Base(Len(pages[s]) + 1)
    BY <1>1, <2>1, Lengths
  <2> DEFINE i == SlotOf(length)
  <2>3. i \in Nat \ {0} /\ Base(i) <= length /\ length < Base(i) + PageSize /\ Base(i) \in Nat
    BY <2>2, SlotFacts, BaseFacts
  <2> HIDE DEF i
  <2>4. i \in 1 .. Len(pages[s])
    <3>1. Len(pages[s]) + 1 \in Nat \ {0} /\ Len(pages[s]) \in Nat
      BY Lengths
    <3>2. Len(pages[s]) + 1 <= i => Base(Len(pages[s]) + 1) <= Base(i)
      BY <3>1, <2>3, BaseMonotonic
    <3> QED
      BY <3>1, <3>2, <2>2, <2>3, Lengths, SMTT(60)
  <2>5. InPage(committed[s], i) # PageSize
    <3>1. CASE committed[s] <= Base(i)
      BY <3>1, <2>3, Lengths, InPageFacts
    <3>2. CASE Base(i) < committed[s]
      <4>1. committed[s] < Base(i) + PageSize
        BY <2>3, <1>2, Lengths
      <4>2. InPage(committed[s], i) = committed[s] - Base(i)
        BY <4>1, <3>2, <2>3, Lengths, InPageFacts
      <4> QED
        BY <4>1, <4>2, <2>3, Lengths
    <3> QED
      BY <3>1, <3>2, <2>3, Lengths
  <2>6. IsPrivateOf(pages[s][i], s)
    BY <2>4, <2>5, Slots DEF SlotRight
  <2> QED
    BY <2>6 DEF Committable, i
<1>4. touched \in SUBSET (1 .. Len(pages[s])) /\ \A i \in touched : IsPrivateOf(pages[s][i], s)
  BY Lengths
<1>5. \A i \in 1 .. Len(pages[s]) : InPage(committed[s], i) <= InPage(length, i) /\ InPage(length, i) \in 0 .. PageSize
  BY <1>2, Lengths, InPageMonotonic, InPageFacts, SMTT(60)
<1>6. \A p \in Pages : descriptors'[p] =
        IF SlotsOf(s, p, touched) = {} THEN descriptors[p]
        ELSE LET i == CHOOSE i \in SlotsOf(s, p, touched) : TRUE
             IN  Private(s, Larger(descriptors[p].committed, InPage(length, i)), descriptors[p].tentative)
  BY <1>1
<1>7. /\ descriptors' = [p \in Pages |-> descriptors'[p]]
      /\ UNCHANGED <<free, reserved, pages, checkpoint>>
      /\ tentative' = [tentative EXCEPT ![s] = tentative[s]]
      /\ committed' = [committed EXCEPT ![s] = length]
      /\ length <= tentative[s] /\ tentative[s] <= Base(Len(pages[s]) + 1)
      /\ tentative[s] \in Nat
  BY <1>1, <1>3, Lengths
<1> HIDE DEF length, touched
<1>8. ASSUME NEW i \in touched
      PROVE  \E a, b \in 0 .. PageSize :
               /\ descriptors'[pages[s][i]] = Private(s, a, b)
               /\ a <= InPage(length, i)
               /\ InPage(tentative[s], i) < PageSize => b = InPage(tentative[s], i)
  <2> DEFINE d == descriptors[pages[s][i]]
  <2>1. pages[s][i] \in Pages /\ i \in Nat \ {0} /\ SlotRight(s, i) /\ d \in Descriptor
    BY <1>4, Slots
  <2>2. d.committed \in 0 .. PageSize /\ d.tentative \in 0 .. PageSize
    BY <2>1, <1>4, DescriptorFields DEF IsPrivateOf
  <2>3. /\ d.committed <= InPage(committed[s], i)
        /\ InPage(tentative[s], i) < PageSize => d.tentative = InPage(tentative[s], i)
    BY <2>1, <1>4 DEF SlotRight
  <2>4. descriptors'[pages[s][i]] = Private(s, Larger(d.committed, InPage(length, i)), d.tentative)
    BY <2>1, <1>4, <1>6, TouchedSlot
  <2>5. /\ Larger(d.committed, InPage(length, i)) \in 0 .. PageSize
        /\ Larger(d.committed, InPage(length, i)) <= InPage(length, i)
    <3>1. InPage(length, i) \in 0 .. PageSize /\ InPage(committed[s], i) \in 0 .. PageSize
          /\ InPage(committed[s], i) <= InPage(length, i)
      BY <2>1, <1>2, <1>4, <1>5, Lengths, InPageFacts
    <3> HIDE DEF d
    <3> QED
      BY <3>1, <2>2, <2>3 DEF Larger
  <2> QED
    BY <2>2, <2>3, <2>4, <2>5
<1>9. ASSUME NEW i \in 1 .. Len(pages[s]), IsSealed(pages[s][i])
      PROVE  InPage(length, i) = PageSize
  <2>1. InPage(committed[s], i) = PageSize
    BY <1>9, Slots DEF SlotRight
  <2>2. InPage(committed[s], i) <= InPage(length, i) /\ InPage(length, i) \in 0 .. PageSize
    BY <1>5
  <2> QED
    BY <2>1, <2>2, Lengths
<1>10. ASSUME NEW i \in 1 .. Len(pages[s]), i \notin touched, IsPrivateOf(pages[s][i], s)
       PROVE  /\ descriptors[pages[s][i]].committed <= InPage(length, i)
              /\ InPage(tentative[s], i) < PageSize => descriptors[pages[s][i]].tentative = InPage(tentative[s], i)
  <2>1. SlotRight(s, i) /\ descriptors[pages[s][i]] \in Descriptor /\ i \in Nat \ {0}
    BY Slots
  <2>2. descriptors[pages[s][i]].committed \in 0 .. PageSize /\ InPage(committed[s], i) \in 0 .. PageSize
    BY <2>1, <1>10, DescriptorFields, Lengths, InPageFacts DEF IsPrivateOf
  <2> QED
    BY <2>1, <2>2, <1>5, <1>10 DEF SlotRight
<1>11. \A p \in Pages : SlotsOf(s, p, touched) = {} => descriptors'[p] = descriptors[p]
  BY <1>6
<1>12. /\ \A i \in 1 .. Len(pages[s]) : IsSealed(pages[s][i]) => InPage(length, i) = PageSize
       /\ \A i \in 1 .. Len(pages[s]) : i \notin touched /\ IsPrivateOf(pages[s][i], s) =>
            /\ descriptors[pages[s][i]].committed <= InPage(length, i)
            /\ InPage(tentative[s], i) < PageSize => descriptors[pages[s][i]].tentative = InPage(tentative[s], i)
  BY <1>9, <1>10
<1> QED
  BY <1>2, <1>4, <1>7, <1>8, <1>11, <1>12, Rewritten

\* A walk that meets a page it may not rewrite has only rewritten pages that lie below
\* the committed length.
LEMMA ShrinkStep ==
  ASSUME IInv, NEW s \in SequenceIds, NEW t \in Nat, NEW c \in Nat, ShrinkPrivateTail(s, t, c)
  PROVE  IInv' /\ SealedStays
<1> DEFINE walked    == {i \in DOMAIN pages[s] : \A j \in 1 .. i : Shrinkable(s, j, t, c)}
           rewritten == {i \in walked : IsPrivateOf(pages[s][i], s)}
<1>1. /\ PagesFor(t) <= Len(pages[s]) /\ c <= t
      /\ descriptors' = [p \in Pages |->
           IF SlotsOf(s, p, rewritten) = {} THEN descriptors[p]
           ELSE LET i == CHOOSE i \in SlotsOf(s, p, rewritten) : TRUE
                IN  Private(s, InPage(c, i), InPage(t, i))]
      /\ IF walked = DOMAIN pages[s]
         THEN /\ committed' = [committed EXCEPT ![s] = c]
              /\ tentative' = [tentative EXCEPT ![s] = t]
         ELSE UNCHANGED <<committed, tentative>>
      /\ UNCHANGED <<free, reserved, pages, checkpoint>>
  BY DEF ShrinkPrivateTail
<1>2. t <= Base(Len(pages[s]) + 1)
  BY <1>1, Lengths, PagesForFacts
<1>3. rewritten \in SUBSET (1 .. Len(pages[s])) /\ \A i \in rewritten : IsPrivateOf(pages[s][i], s)
  BY Lengths
<1>4. descriptors' = [p \in Pages |-> descriptors'[p]]
  BY <1>1
<1>5. \A p \in Pages : SlotsOf(s, p, rewritten) = {} => descriptors'[p] = descriptors[p]
  BY <1>1
<1>6. ASSUME NEW i \in rewritten
      PROVE  /\ descriptors'[pages[s][i]] = Private(s, InPage(c, i), InPage(t, i))
             /\ InPage(c, i) \in 0 .. PageSize /\ InPage(t, i) \in 0 .. PageSize
  <2>1. pages[s][i] \in Pages /\ i \in Nat \ {0}
    BY <1>3, Slots
  <2>2. /\ SlotsOf(s, pages[s][i], rewritten) # {}
        /\ (CHOOSE j \in SlotsOf(s, pages[s][i], rewritten) : TRUE) = i
    BY <1>3, TouchedSlot
  <2> HIDE DEF rewritten
  <2>3. descriptors'[pages[s][i]] = Private(s, InPage(c, i), InPage(t, i))
    BY <2>1, <2>2, <1>1
  <2> QED
    BY <2>1, <2>3, InPageFacts
<1>7. CASE walked = DOMAIN pages[s]
  <2>1. committed' = [committed EXCEPT ![s] = c] /\ tentative' = [tentative EXCEPT ![s] = t]
    BY <1>1, <1>7
  <2>2. ASSUME NEW i \in 1 .. Len(pages[s]), IsSealed(pages[s][i])
        PROVE  InPage(c, i) = PageSize
    <3>1. i \in walked /\ i \in 1 .. i
      BY <1>7, Lengths
    <3>2. Shrinkable(s, i, t, c)
      BY <3>1
    <3> QED
      BY <2>2, <3>2 DEF Shrinkable, IsPrivateOf, IsSealed
  <2>3. \A i \in 1 .. Len(pages[s]) : IsPrivateOf(pages[s][i], s) => i \in rewritten
    BY <1>7, Lengths
  <2> HIDE DEF rewritten, walked
  <2>4. \A i \in rewritten : \E a, b \in 0 .. PageSize :
          /\ descriptors'[pages[s][i]] = Private(s, a, b)
          /\ a <= InPage(c, i)
          /\ InPage(t, i) < PageSize => b = InPage(t, i)
    BY <1>6
  <2>5. c <= t /\ UNCHANGED <<free, reserved, pages, checkpoint>>
    BY <1>1
  <2> QED
    BY <1>2, <1>3, <1>4, <1>5, <2>1, <2>2, <2>3, <2>4, <2>5, Rewritten
<1>8. CASE walked # DOMAIN pages[s]
  <2>1. PICK f \in 1 .. Len(pages[s]) : f \notin walked
    BY <1>8, Lengths
  <2>2. PICK j \in 1 .. f : ~Shrinkable(s, j, t, c)
    BY <2>1, Lengths
  <2>3. j \in 1 .. Len(pages[s]) /\ j \in Nat \ {0}
    BY <2>1, <2>2, Lengths
  <2>4. InPage(committed[s], j) = PageSize
    BY <2>2, <2>3, Slots DEF Shrinkable, SlotRight
  <2>5. Base(j) < committed[s] /\ Base(j) \in Nat
    <3>1. committed[s] <= Base(j) => InPage(committed[s], j) = 0
      BY <2>3, Lengths, InPageFacts
    <3>2. Base(j) \in Nat
      BY <2>3, BaseFacts
    <3> QED
      BY <3>1, <3>2, <2>4, Lengths
  <2>6. ASSUME NEW i \in rewritten
        PROVE  InPage(committed[s], i) = PageSize /\ InPage(tentative[s], i) = PageSize
    <3>1. i \in Nat \ {0} /\ i < j
      BY <2>2, <2>3, Lengths
    <3>2. Base(i) + PageSize <= Base(j) /\ Base(i) \in Nat
      BY <3>1, <2>3, BaseFacts
    <3>3. Base(i) + PageSize <= committed[s] /\ Base(i) + PageSize <= tentative[s]
      BY <3>2, <2>5, Lengths, SMTT(60)
    <3> QED
      BY <3>1, <3>3, Lengths, InPageFacts
  <2>7. committed' = [committed EXCEPT ![s] = committed[s]] /\ tentative' = [tentative EXCEPT ![s] = tentative[s]]
    BY <1>1, <1>8, Lengths
  <2> HIDE DEF rewritten, walked
  <2>8. \A i \in rewritten : \E a, b \in 0 .. PageSize :
          /\ descriptors'[pages[s][i]] = Private(s, a, b)
          /\ a <= InPage(committed[s], i)
          /\ InPage(tentative[s], i) < PageSize => b = InPage(tentative[s], i)
    BY <1>6, <2>6, Lengths
  <2>9. /\ \A i \in 1 .. Len(pages[s]) : IsSealed(pages[s][i]) => InPage(committed[s], i) = PageSize
        /\ \A i \in 1 .. Len(pages[s]) : i \notin rewritten /\ IsPrivateOf(pages[s][i], s) =>
             /\ descriptors[pages[s][i]].committed <= InPage(committed[s], i)
             /\ InPage(tentative[s], i) < PageSize => descriptors[pages[s][i]].tentative = InPage(tentative[s], i)
    BY Slots DEF SlotRight
  <2>10. /\ committed[s] \in Nat /\ tentative[s] \in Nat
         /\ committed[s] <= tentative[s] /\ tentative[s] <= Base(Len(pages[s]) + 1)
         /\ UNCHANGED <<free, reserved, pages, checkpoint>>
    BY <1>1, Lengths
  <2> QED
    BY <1>3, <1>4, <1>5, <2>7, <2>8, <2>9, <2>10, Rewritten
<1> QED
  BY <1>7, <1>8

-----------------------------------------------------------------------------
(* Steps that change what a page is.                                       *)

\* The references to a page, slot by slot.
LEMMA ReferenceFacts ==
  ASSUME IInv, NEW p \in Pages
  PROVE  /\ \A s \in SequenceIds : \A i \in 1 .. Len(pages[s]) :
              pages[s][i] = p => <<s, i>> \in References(p)
         /\ \A r \in References(p) : \E s \in SequenceIds : \E i \in 1 .. Len(pages[s]) :
              r = <<s, i>> /\ pages[s][i] = p
  BY Slots DEF References

\* A private page has one reference.
LEMMA PrivateReferences ==
  ASSUME IInv, NEW s \in SequenceIds, NEW i \in 1 .. Len(pages[s]), IsPrivateOf(pages[s][i], s)
  PROVE  References(pages[s][i]) = {<<s, i>>}
<1> DEFINE p == pages[s][i]
<1>1. p \in Pages
  BY Slots
<1>2. ASSUME NEW r \in SequenceIds, NEW j \in 1 .. Len(pages[r]), pages[r][j] = p
      PROVE  r = s /\ j = i
  <2>1. SlotRight(r, j) /\ SlotRight(s, i)
    BY Slots
  <2>2. r = s
    BY <2>1, <1>2 DEF SlotRight, IsPrivateOf, IsSealed
  <2> QED
    BY <2>1, <2>2, <1>2 DEF SlotRight
<1> QED
  BY <1>1, <1>2, ReferenceFacts

\* seal_complete_pages keeps the invariant: it seals only whole pages below the
\* committed length, which were private and so in one table only.
LEMMA SealStep ==
  ASSUME IInv, NEW s \in SequenceIds, SealCompletePages(s)
  PROVE  IInv' /\ SealedStays
<1> DEFINE sealed(p) == \E i \in DOMAIN pages[s] : pages[s][i] = p /\ IsComplete(s, i)
<1>1. /\ descriptors' = [p \in Pages |-> IF sealed(p) THEN Sealed(1) ELSE descriptors[p]]
      /\ UNCHANGED <<free, reserved, pages, committed, tentative, checkpoint>>
  BY DEF SealCompletePages
<1>2. ASSUME NEW p \in Pages, sealed(p)
      PROVE  /\ \E i \in 1 .. Len(pages[s]) :
                  pages[s][i] = p /\ descriptors[p].committed = PageSize /\ References(p) = {<<s, i>>}
             /\ IsPrivateOf(p, s) /\ descriptors'[p] = Sealed(1)
  <2>1. PICK i \in 1 .. Len(pages[s]) : pages[s][i] = p /\ IsComplete(s, i)
    BY <1>2, Slots
  <2>2. IsPrivateOf(p, s) /\ descriptors[p].committed = PageSize
    BY <2>1 DEF IsComplete
  <2> QED
    BY <1>1, <1>2, <2>1, <2>2, PrivateReferences
<1>3. \A p \in Pages : ~sealed(p) => descriptors'[p] = descriptors[p]
  BY <1>1
<1>4. descriptors' = [p \in Pages |-> descriptors'[p]]
  BY <1>1
<1> HIDE DEF sealed
<1>5. TypeOK'
  <2>1. ASSUME NEW p \in Pages
        PROVE  descriptors'[p] \in Descriptor
    <3>1. Sealed(1) \in Descriptor
      BY SealedFields
    <3>2. descriptors'[p] = Sealed(1) \/ descriptors'[p] = descriptors[p]
      BY <1>2, <1>3
    <3> QED
      BY <3>1, <3>2 DEF IInv, TypeOK
  <2>2. descriptors' \in [Pages -> Descriptor]
    BY <2>1, <1>4
  <2> QED
    BY <2>2, <1>1 DEF IInv, TypeOK
<1>6. \A p \in Pages : (References(p))' = References(p)
  BY <1>1 DEF References
<1>7. FreeListExact'
  <2>1. \A p \in Pages : descriptors'[p].state = "Free" <=> descriptors[p].state = "Free"
    BY <1>2, <1>3, SealedFields DEF IsPrivateOf
  <2> QED
    BY <2>1, <1>1 DEF IInv, FreeListExact
<1>8. Fits'
  BY <1>1 DEF IInv, Fits, Base
<1>9. SlotsRight'
  <2>1. ASSUME NEW r \in SequenceIds, NEW i \in 1 .. Len(pages[r])
        PROVE  (SlotRight(r, i))'
    <3> DEFINE p == pages[r][i]
    <3>1. p \in Pages /\ SlotRight(r, i) /\ descriptors[p] \in Descriptor /\ i \in Nat \ {0}
      BY Slots
    <3>2. CASE sealed(p)
      <4>1. IsPrivateOf(p, s) /\ descriptors[p].committed = PageSize /\ descriptors'[p] = Sealed(1)
        BY <3>1, <3>2, <1>2
      <4>2. r = s
        BY <4>1, <3>1 DEF SlotRight, IsPrivateOf, IsSealed
      <4>3. PageSize <= InPage(committed[r], i)
        BY <4>1, <4>2, <3>1 DEF SlotRight
      <4>4. InPage(committed[r], i) = PageSize
        BY <4>3, <3>1, Lengths, InPageFacts
      <4> QED
        BY <4>1, <4>4, <1>1, SealedFields DEF SlotRight, IsPrivateOf, IsSealed
    <3>3. CASE ~sealed(p)
      BY <3>1, <3>3, <1>1, <1>3 DEF SlotRight, IsPrivateOf, IsSealed
    <3> QED
      BY <3>2, <3>3
  <2> QED
    BY <2>1, <1>1 DEF SlotsRight
<1>10. Placed'
  <2>1. ASSUME NEW p \in Pages, descriptors'[p].state = "Private"
        PROVE  descriptors'[p] = descriptors[p]
    BY <2>1, <1>2, <1>3, SealedFields
  <2> QED
    BY <2>1, <1>1 DEF IInv, Placed
<1>11. Counted'
  <2>1. ASSUME NEW p \in Pages, (IsSealed(p))'
        PROVE  IsFiniteSet(References(p)) /\ descriptors'[p].references = Cardinality(References(p))
    <3>1. CASE sealed(p)
      <4>1. PICK i \in 1 .. Len(pages[s]) : References(p) = {<<s, i>>}
        BY <3>1, <1>2
      <4>2. descriptors'[p].references = 1
        BY <3>1, <1>2, SealedFields
      <4> QED
        BY <4>1, <4>2, FS_Singleton
    <3>2. CASE ~sealed(p)
      BY <3>2, <2>1, <1>3 DEF IInv, Counted, IsSealed
    <3> QED
      BY <3>1, <3>2
  <2> QED
    BY <2>1, <1>6 DEF Counted
<1>12. SealedStays
  BY <1>2, <1>3, SealedFields DEF SealedStays, IsSealed
<1> QED
  BY <1>5, <1>7, <1>8, <1>9, <1>10, <1>11, <1>12 DEF IInv

\* A cut of a sequence, by position.
LEMMA SubSeqFacts ==
  ASSUME NEW S, NEW q \in Seq(S), NEW m \in Nat \ {0}, NEW n \in Nat, m <= n + 1, n <= Len(q)
  PROVE  /\ SubSeq(q, m, n) \in Seq(S)
         /\ Len(SubSeq(q, m, n)) = n - m + 1
         /\ DOMAIN SubSeq(q, m, n) = 1 .. n - m + 1
         /\ \A i \in 1 .. n - m + 1 : SubSeq(q, m, n)[i] = q[m + i - 1]
<1>1. Len(q) \in Nat /\ \A i \in m .. n : q[i] \in S
  BY LenProperties, ElementOfSeq
<1>2. /\ SubSeq(q, m, n) \in Seq(S)
      /\ Len(SubSeq(q, m, n)) = IF m <= n THEN n - m + 1 ELSE 0
      /\ \A i \in 1 .. n - m + 1 : SubSeq(q, m, n)[i] = q[m + i - 1]
  BY <1>1, SubSeqProperties
<1>3. Len(SubSeq(q, m, n)) = n - m + 1
  BY <1>2
<1> QED
  BY <1>2, <1>3, LenProperties

\* reserve keeps the invariant: the pages it takes off the head of the free list
\* become the private, unwritten pages of one sequence.
LEMMA ReserveStep ==
  ASSUME IInv, NEW s \in SequenceIds, NEW n \in Nat, Reserve(s, n)
  PROVE  IInv' /\ SealedStays
<1> DEFINE assigned == SubSeq(free, 1, n)
           taken(p) == \E i \in 1 .. n : free[i] = p
<1>1. /\ s \notin reserved /\ n <= Len(free)
      /\ reserved' = reserved \cup {s}
      /\ pages' = [pages EXCEPT ![s] = assigned]
      /\ free' = SubSeq(free, n + 1, Len(free))
      /\ descriptors' = [p \in Pages |-> IF taken(p) THEN Private(s, 0, 0) ELSE descriptors[p]]
      /\ UNCHANGED <<committed, tentative, checkpoint>>
  BY DEF Reserve
<1>2. /\ free \in Seq(Pages) /\ Len(free) \in Nat /\ DOMAIN free = 1 .. Len(free)
      /\ \A i \in 1 .. Len(free) : free[i] \in Pages
      /\ \A i, j \in 1 .. Len(free) : free[i] = free[j] => i = j
  BY LenProperties, ElementOfSeq DEF IInv, TypeOK, FreeListExact
<1>3. /\ assigned \in Seq(Pages) /\ Len(assigned) = n /\ DOMAIN assigned = 1 .. n
      /\ \A i \in 1 .. n : assigned[i] = free[i]
  <2>1. /\ assigned \in Seq(Pages) /\ Len(assigned) = n - 1 + 1 /\ DOMAIN assigned = 1 .. n - 1 + 1
        /\ \A i \in 1 .. n - 1 + 1 : assigned[i] = free[1 + i - 1]
    BY <1>1, <1>2, SubSeqFacts
  <2>2. n - 1 + 1 = n /\ \A i \in 1 .. n : 1 + i - 1 = i
    OBVIOUS
  <2> HIDE DEF assigned
  <2> QED
    BY <2>1, <2>2
<1>4. /\ free' \in Seq(Pages) /\ Len(free') = Len(free) - n /\ DOMAIN free' = 1 .. Len(free) - n
      /\ \A k \in 1 .. Len(free) - n : free'[k] = free[n + k]
  <2> DEFINE rest == SubSeq(free, n + 1, Len(free))
  <2>1. /\ rest \in Seq(Pages) /\ Len(rest) = Len(free) - (n + 1) + 1
        /\ DOMAIN rest = 1 .. Len(free) - (n + 1) + 1
        /\ \A k \in 1 .. Len(free) - (n + 1) + 1 : rest[k] = free[n + 1 + k - 1]
    <3>1. ASSUME NEW m, m = n + 1
          PROVE  /\ SubSeq(free, m, Len(free)) \in Seq(Pages)
                 /\ Len(SubSeq(free, m, Len(free))) = Len(free) - m + 1
                 /\ DOMAIN SubSeq(free, m, Len(free)) = 1 .. Len(free) - m + 1
                 /\ \A k \in 1 .. Len(free) - m + 1 : SubSeq(free, m, Len(free))[k] = free[m + k - 1]
      <4>1. m \in Nat \ {0} /\ m <= Len(free) + 1 /\ Len(free) <= Len(free)
        BY <1>1, <1>2, <3>1
      <4> QED
        BY <1>2, <4>1, SubSeqFacts
    <3> QED
      BY <3>1
  <2> HIDE DEF rest
  <2>2. Len(free) - (n + 1) + 1 = Len(free) - n /\ \A k \in 1 .. Len(free) - n : n + 1 + k - 1 = n + k
    BY <1>1, <1>2
  <2>3. free' = rest
    BY <1>1 DEF rest
  <2> QED
    BY <2>1, <2>2, <2>3
<1>5. pages[s] = << >> /\ Len(pages[s]) = 0 /\ committed[s] = 0 /\ tentative[s] = 0
  <2>1. pages[s] = << >> /\ Len(pages[s]) = 0
    BY <1>1 DEF IInv, Fits
  <2>2. Len(pages[s]) + 1 = 1 /\ Base(1) = 0
    BY <2>1, BaseFacts
  <2> QED
    BY <2>1, <2>2, Lengths
<1>6. /\ pages'[s] = assigned /\ \A r \in SequenceIds \ {s} : pages'[r] = pages[r]
      /\ pages' \in [SequenceIds -> Seq(Pages)]
  BY <1>1, <1>3 DEF IInv, TypeOK
<1>7. /\ descriptors' = [p \in Pages |-> descriptors'[p]]
      /\ \A p \in Pages : taken(p) => descriptors[p].state = "Free" /\ descriptors'[p] = Private(s, 0, 0)
      /\ \A p \in Pages : ~taken(p) => descriptors'[p] = descriptors[p]
  <2>1. \A p \in Pages : taken(p) => descriptors[p].state = "Free"
    BY <1>1, <1>2, SMTT(60) DEF IInv, FreeListExact
  <2> QED
    BY <1>1, <2>1
<1>8. \A r \in SequenceIds : \A i \in 1 .. Len(pages[r]) : pages[r][i] \in Pages /\ ~taken(pages[r][i])
  BY <1>7, Slots DEF SlotRight, IsPrivateOf, IsSealed
<1>9. \A i \in 1 .. n : taken(assigned[i]) /\ assigned[i] \in Pages
  BY <1>1, <1>2, <1>3
<1>10. FreeListExact'
  <2>1. ASSUME NEW p \in Pages
        PROVE  descriptors'[p].state = "Free" <=> \E k \in 1 .. Len(free) - n : free[n + k] = p
    <3>1. CASE taken(p)
      <4>1. PICK i \in 1 .. n : free[i] = p
        BY <3>1
      <4>2. \A k \in 1 .. Len(free) - n : n + k \in 1 .. Len(free) /\ n + k # i
        BY <1>1, <1>2
      <4>3. i \in 1 .. Len(free)
        BY <1>1, <1>2
      <4> QED
        BY <3>1, <4>1, <4>2, <4>3, <1>2, <1>7, PrivateFields
    <3>2. CASE ~taken(p)
      <4>1. descriptors'[p].state = "Free" <=> \E i \in 1 .. Len(free) : free[i] = p
        BY <3>2, <1>2, <1>7 DEF IInv, FreeListExact
      <4>2. ASSUME NEW i \in 1 .. Len(free), free[i] = p
            PROVE  i - n \in 1 .. Len(free) - n /\ n + (i - n) = i
        BY <3>2, <4>2, <1>2
      <4>3. \A k \in 1 .. Len(free) - n : n + k \in 1 .. Len(free)
        BY <1>2
      <4> QED
        BY <4>1, <4>2, <4>3
    <3> QED
      BY <3>1, <3>2
  <2>2. ASSUME NEW i \in 1 .. Len(free) - n, NEW j \in 1 .. Len(free) - n, free[n + i] = free[n + j]
        PROVE  i = j
    <3>1. n + i \in 1 .. Len(free) /\ n + j \in 1 .. Len(free)
      BY <1>2
    <3>2. n + i = n + j
      BY <3>1, <2>2, <1>2
    <3> QED
      BY <3>2
  <2>3. \A p \in Pages : descriptors'[p].state = "Free" <=> \E k \in DOMAIN free' : free'[k] = p
    <3>1. /\ DOMAIN free' = 1 .. Len(free) - n
          /\ \A k \in 1 .. Len(free) - n : free'[k] = free[n + k]
      BY <1>4
    <3>2. \A p : (\E k \in 1 .. Len(free) - n : free[n + k] = p) <=> \E k \in DOMAIN free' : free'[k] = p
      BY ONLY <3>1, Zenon
    <3> QED
      BY ONLY <2>1, <3>2, Zenon
  <2>4. \A i, j \in DOMAIN free' : free'[i] = free'[j] => i = j
    BY <2>2, <1>4
  <2> QED
    BY <2>3, <2>4 DEF FreeListExact
<1> HIDE DEF assigned, taken
<1>11. TypeOK'
  <2>1. 0 \in 0 .. PageSize
    BY PageManagerAssumption
  <2>2. ASSUME NEW p \in Pages
        PROVE  descriptors'[p] \in Descriptor
    <3>1. Private(s, 0, 0) \in Descriptor
      BY <2>1, PrivateFields
    <3>2. descriptors'[p] = Private(s, 0, 0) \/ descriptors'[p] = descriptors[p]
      BY <1>7
    <3> QED
      BY <3>1, <3>2 DEF IInv, TypeOK
  <2>3. descriptors' \in [Pages -> Descriptor]
    BY <2>2, <1>7
  <2> QED
    BY <2>3, <1>1, <1>4, <1>6 DEF IInv, TypeOK
<1>12. Fits'
  <2>1. ASSUME NEW r \in SequenceIds
        PROVE  committed'[r] <= tentative'[r] /\ tentative'[r] <= (Base(Len(pages[r]) + 1))'
    <3>1. CASE r = s
      <4>1. n + 1 \in Nat \ {0} /\ Base(n + 1) \in Nat
        BY BaseFacts
      <4> QED
        BY <3>1, <4>1, <1>1, <1>3, <1>5, <1>6 DEF Base
    <3>2. CASE r # s
      BY <3>2, <1>1, <1>6, Lengths DEF Base
    <3> QED
      BY <3>1, <3>2
  <2>2. \A r \in SequenceIds : pages'[r] # << >> => r \in reserved'
    BY <1>1, <1>6 DEF IInv, Fits
  <2> QED
    BY <2>1, <2>2 DEF Fits
<1>13. SlotsRight'
  <2>1. ASSUME NEW r \in SequenceIds, NEW i \in 1 .. Len(pages'[r])
        PROVE  (SlotRight(r, i))'
    <3>1. CASE r = s
      <4>1. i \in 1 .. n /\ pages'[r][i] = assigned[i] /\ i \in Nat \ {0}
        BY <2>1, <3>1, <1>3, <1>6
      <4>2. descriptors'[assigned[i]] = Private(s, 0, 0)
        BY <4>1, <1>7, <1>9
      <4>3. InPage(0, i) = 0
        BY <4>1, BaseFacts, InPageFacts
      <4>4. \A j \in 1 .. n : assigned[j] = assigned[i] => j = i
        BY <4>1, <1>1, <1>2, <1>3
      <4> QED
        BY <3>1, <4>1, <4>2, <4>3, <4>4, <1>1, <1>3, <1>5, <1>6, PrivateFields
        DEF SlotRight, IsPrivateOf, IsSealed
    <3>2. CASE r # s
      <4>1. pages'[r] = pages[r] /\ SlotRight(r, i) /\ descriptors'[pages[r][i]] = descriptors[pages[r][i]]
        BY <2>1, <3>2, <1>6, <1>7, <1>8, Slots
      <4> QED
        BY <4>1, <1>1 DEF SlotRight, IsPrivateOf, IsSealed
    <3> QED
      BY <3>1, <3>2
  <2> QED
    BY <2>1 DEF SlotsRight
<1>14. Placed'
  <2>1. ASSUME NEW p \in Pages, descriptors'[p].state = "Private"
        PROVE  \E i \in 1 .. Len(pages'[descriptors'[p].owner]) : pages'[descriptors'[p].owner][i] = p
    <3>1. CASE taken(p)
      <4>1. descriptors'[p].owner = s
        BY <3>1, <1>7, PrivateFields
      <4>2. \E i \in 1 .. n : assigned[i] = p
        BY <3>1, <1>3 DEF taken
      <4> QED
        BY <4>1, <4>2, <1>3, <1>6
    <3>2. CASE ~taken(p)
      <4>1. descriptors'[p] = descriptors[p] /\ descriptors[p].owner \in SequenceIds
        BY <2>1, <3>2, <1>7, DescriptorFields DEF IInv, TypeOK
      <4>2. \E i \in 1 .. Len(pages[descriptors[p].owner]) : pages[descriptors[p].owner][i] = p
        BY <2>1, <4>1 DEF IInv, Placed
      <4>3. descriptors[p].owner # s
        BY <4>2, <1>5
      <4> QED
        BY <4>1, <4>2, <4>3, <1>6
    <3> QED
      BY <3>1, <3>2
  <2> QED
    BY <2>1 DEF Placed
<1>15. Counted'
  <2>1. ASSUME NEW p \in Pages, (IsSealed(p))'
        PROVE  ~taken(p) /\ descriptors'[p] = descriptors[p] /\ (References(p))' = References(p)
    <3>1. ~taken(p)
      BY <2>1, <1>7, PrivateFields DEF IsSealed
    <3>2. \A r \in SequenceIds :
            {i \in DOMAIN pages'[r] : pages'[r][i] = p} = {i \in DOMAIN pages[r] : pages[r][i] = p}
      <4>1. {i \in DOMAIN pages'[s] : pages'[s][i] = p} = {}
        BY <3>1, <1>3, <1>6, <1>9
      <4>2. {i \in DOMAIN pages[s] : pages[s][i] = p} = {}
        BY <1>5, Slots
      <4> QED
        BY <4>1, <4>2, <1>6
    <3> QED
      BY <3>1, <3>2, <1>7 DEF References
  <2> QED
    BY <2>1 DEF IInv, Counted, IsSealed
<1>16. SealedStays
  BY <1>7 DEF SealedStays, IsSealed
<1> QED
  BY <1>10, <1>11, <1>12, <1>13, <1>14, <1>15, <1>16 DEF IInv

\* An insertion into a page table, by position.
LEMMA InsertAtFacts ==
  ASSUME NEW S, NEW q \in Seq(S), NEW k \in 1 .. Len(q) + 1, NEW e \in S
  PROVE  /\ InsertAt(q, k, e) \in Seq(S)
         /\ Len(InsertAt(q, k, e)) = Len(q) + 1
         /\ DOMAIN InsertAt(q, k, e) = 1 .. Len(q) + 1
         /\ InsertAt(q, k, e)[k] = e
         /\ \A i \in 1 .. k - 1 : InsertAt(q, k, e)[i] = q[i]
         /\ \A i \in k + 1 .. Len(q) + 1 : InsertAt(q, k, e)[i] = q[i - 1]
<1> DEFINE front == SubSeq(q, 1, k - 1)
           back  == SubSeq(q, k, Len(q))
           two   == front \o <<e>>
<1>1. Len(q) \in Nat /\ k \in Nat \ {0} /\ k - 1 \in Nat /\ k <= Len(q) + 1
  BY LenProperties
<1>2. /\ front \in Seq(S) /\ Len(front) = k - 1 - 1 + 1
      /\ \A i \in 1 .. k - 1 - 1 + 1 : front[i] = q[1 + i - 1]
  BY <1>1, SubSeqFacts
<1>3. /\ back \in Seq(S) /\ Len(back) = Len(q) - k + 1
      /\ \A i \in 1 .. Len(q) - k + 1 : back[i] = q[k + i - 1]
  BY <1>1, SubSeqFacts
<1>4. <<e>> \in Seq(S) /\ Len(<<e>>) = 1 /\ <<e>>[1] = e
  OBVIOUS
<1>5. k - 1 - 1 + 1 = k - 1 /\ \A i \in 1 .. k - 1 : 1 + i - 1 = i
  BY <1>1
<1> HIDE DEF front, back
<1>6. /\ two \in Seq(S) /\ Len(two) = k
      /\ two[k] = e
      /\ \A i \in 1 .. k - 1 : two[i] = q[i]
  <2>1. /\ two \in Seq(S) /\ Len(two) = Len(front) + Len(<<e>>)
        /\ \A i \in 1 .. Len(front) + Len(<<e>>) :
             two[i] = IF i <= Len(front) THEN front[i] ELSE <<e>>[i - Len(front)]
    BY <1>2, <1>4, ConcatProperties
  <2>2. Len(front) = k - 1 /\ Len(front) + Len(<<e>>) = k
    BY <1>1, <1>2, <1>4, <1>5
  <2>3. two[k] = e
    <3>1. k \in 1 .. Len(front) + Len(<<e>>) /\ ~(k <= Len(front)) /\ k - Len(front) = 1
      BY <1>1, <2>2
    <3> QED
      BY <3>1, <2>1, <1>4
  <2>4. ASSUME NEW i \in 1 .. k - 1
        PROVE  two[i] = q[i]
    BY <1>1, <1>2, <1>5, <2>1, <2>2
  <2> QED
    BY <2>1, <2>2, <2>3, <2>4
<1> HIDE DEF two
<1>7. /\ (two \o back) \in Seq(S) /\ Len(two \o back) = Len(two) + Len(back)
      /\ \A i \in 1 .. Len(two) + Len(back) :
           (two \o back)[i] = IF i <= Len(two) THEN two[i] ELSE back[i - Len(two)]
  BY <1>3, <1>6, ConcatProperties
<1>8. Len(two) + Len(back) = Len(q) + 1
  BY <1>1, <1>3, <1>6
<1>9. InsertAt(q, k, e) = two \o back
  BY DEF InsertAt, two, front, back
<1>10. (two \o back)[k] = e /\ \A i \in 1 .. k - 1 : (two \o back)[i] = q[i]
  BY <1>1, <1>6, <1>7, <1>8
<1>11. ASSUME NEW i \in k + 1 .. Len(q) + 1
       PROVE  (two \o back)[i] = q[i - 1]
  <2>1. i - k \in 1 .. Len(q) - k + 1 /\ k + (i - k) - 1 = i - 1
    BY <1>1
  <2>2. back[i - k] = q[k + (i - k) - 1]
    BY <2>1, <1>3
  <2>3. (two \o back)[i] = back[i - k]
    BY <1>1, <1>6, <1>7, <1>8
  <2> QED
    BY <2>1, <2>2, <2>3
<1>12. DOMAIN (two \o back) = 1 .. Len(q) + 1
  BY <1>7, <1>8, LenProperties
<1> QED
  BY <1>7, <1>8, <1>9, <1>10, <1>11, <1>12

\* share_sealed inserts at the slot that begins at the committed length.
LEMMA ShareTable ==
  ASSUME IInv, NEW s \in SequenceIds, NEW p \in Pages, ShareSealed(s, p)
  PROVE  LET k == SlotOf(committed[s])
             n == Len(pages[s])
             table == InsertAt(pages[s], k, p)
         IN  /\ k \in Nat \ {0} /\ k \in 1 .. n + 1 /\ Base(k) = committed[s]
             /\ table \in Seq(Pages) /\ Len(table) = n + 1 /\ DOMAIN table = 1 .. n + 1 /\ table[k] = p
             /\ \A i \in 1 .. k - 1 : table[i] = pages[s][i]
             /\ \A i \in k + 1 .. n + 1 : table[i] = pages[s][i - 1]
<1> DEFINE c == committed[s]
           k == SlotOf(c)
           n == Len(pages[s])
           table == InsertAt(pages[s], k, p)
<1>1. /\ s \in reserved /\ tentative[s] = c /\ c % PageSize = 0 /\ IsSealed(p)
      /\ descriptors' = [descriptors EXCEPT ![p] = Sealed(descriptors[p].references + 1)]
      /\ pages' = [pages EXCEPT ![s] = table]
      /\ committed' = [committed EXCEPT ![s] = c + PageSize]
      /\ tentative' = [tentative EXCEPT ![s] = c + PageSize]
      /\ UNCHANGED <<free, reserved, checkpoint>>
  BY DEF ShareSealed
<1>2. c \in Nat /\ n \in Nat /\ n + 1 \in Nat \ {0} /\ PageSize \in Nat \ {0}
      /\ c <= Base(n + 1) /\ Base(n + 1) \in Nat /\ pages[s] \in Seq(Pages)
  BY <1>1, Lengths, Slots
<1>3. k \in Nat \ {0} /\ Base(k) = c
  <2>1. k \in Nat \ {0}
    BY <1>2, SlotFacts
  <2>2. c \div PageSize \in Nat /\ (c \div PageSize) * PageSize = c
    BY <1>1, <1>2, Division, Remainder
  <2>3. k - 1 = c \div PageSize
    BY <2>2 DEF SlotOf
  <2> QED
    BY <2>1, <2>2, <2>3 DEF Base
<1>4. k \in 1 .. n + 1
  <2>1. ~(n + 1 < k)
    <3>1. n + 1 < k => Base(n + 1) + PageSize <= Base(k)
      BY <1>2, <1>3, BaseFacts
    <3> QED
      BY <3>1, <1>2, <1>3
  <2> QED
    BY <2>1, <1>2, <1>3
<1>5. /\ table \in Seq(Pages) /\ Len(table) = n + 1 /\ DOMAIN table = 1 .. n + 1 /\ table[k] = p
      /\ \A i \in 1 .. k - 1 : table[i] = pages[s][i]
      /\ \A i \in k + 1 .. n + 1 : table[i] = pages[s][i - 1]
  <2> HIDE DEF k
  <2>1. k \in 1 .. Len(pages[s]) + 1
    BY <1>4
  <2>2. pages[s] \in Seq(Pages)
    BY <1>2
  <2> HIDE DEF n, c, table
  <2>3. table \in Seq(Pages) /\ Len(table) = Len(pages[s]) + 1 /\ DOMAIN table = 1 .. Len(pages[s]) + 1
    BY <2>1, <2>2, InsertAtFacts DEF table
  <2>4. table[k] = p /\ \A i \in 1 .. k - 1 : table[i] = pages[s][i]
    BY <2>1, <2>2, InsertAtFacts DEF table
  <2>5. ASSUME NEW q \in Seq(Pages), NEW j \in 1 .. Len(q) + 1
        PROVE  \A i \in j + 1 .. Len(q) + 1 : InsertAt(q, j, p)[i] = q[i - 1]
    BY InsertAtFacts
  <2>6. \A i \in k + 1 .. Len(pages[s]) + 1 : table[i] = pages[s][i - 1]
    BY <2>1, <2>2, <2>5 DEF table
  <2> QED
    BY <2>3, <2>4, <2>6 DEF n
<1> QED
  BY <1>3, <1>4, <1>5

\* The slots behind the committed boundary move; they are private and empty.
LEMMA ShareStep ==
  ASSUME IInv, NEW s \in SequenceIds, NEW p \in Pages, ShareSealed(s, p)
  PROVE  IInv' /\ SealedStays
<1> DEFINE c == committed[s]
           k == SlotOf(c)
           n == Len(pages[s])
           table == InsertAt(pages[s], k, p)
<1>1. /\ s \in reserved /\ tentative[s] = c /\ c % PageSize = 0 /\ IsSealed(p)
      /\ descriptors' = [descriptors EXCEPT ![p] = Sealed(descriptors[p].references + 1)]
      /\ pages' = [pages EXCEPT ![s] = table]
      /\ committed' = [committed EXCEPT ![s] = c + PageSize]
      /\ tentative' = [tentative EXCEPT ![s] = c + PageSize]
      /\ UNCHANGED <<free, reserved, checkpoint>>
  BY DEF ShareSealed
<1>2. c \in Nat /\ n \in Nat /\ n + 1 \in Nat \ {0} /\ PageSize \in Nat \ {0}
      /\ c <= Base(n + 1) /\ Base(n + 1) \in Nat /\ pages[s] \in Seq(Pages)
  BY <1>1, Lengths, Slots
<1>3. k \in Nat \ {0} /\ Base(k) = c
  BY ShareTable
<1>4. k \in 1 .. n + 1
  BY ShareTable
<1>5. /\ table \in Seq(Pages) /\ Len(table) = n + 1 /\ DOMAIN table = 1 .. n + 1 /\ table[k] = p
      /\ \A i \in 1 .. k - 1 : table[i] = pages[s][i]
      /\ \A i \in k + 1 .. n + 1 : table[i] = pages[s][i - 1]
  BY ShareTable
<1>6. /\ pages'[s] = table /\ \A r \in SequenceIds \ {s} : pages'[r] = pages[r]
      /\ committed'[s] = c + PageSize /\ tentative'[s] = c + PageSize
      /\ \A r \in SequenceIds \ {s} : committed'[r] = committed[r] /\ tentative'[r] = tentative[r]
      /\ pages' \in [SequenceIds -> Seq(Pages)]
      /\ committed' \in [SequenceIds -> Nat] /\ tentative' \in [SequenceIds -> Nat]
  BY <1>1, <1>2, <1>5 DEF IInv, TypeOK
<1>7. \A i \in 1 .. n : i < k =>
        InPage(c, i) = PageSize /\ InPage(c + PageSize, i) = PageSize
  <2>1. ASSUME NEW i \in 1 .. n, i < k
        PROVE  InPage(c, i) = PageSize /\ InPage(c + PageSize, i) = PageSize
    <3>1. i \in Nat \ {0} /\ Base(i) \in Nat /\ Base(i) + PageSize <= Base(k)
      BY <2>1, <1>3, BaseFacts
    <3>2. Base(i) + PageSize <= c /\ Base(i) + PageSize <= c + PageSize /\ c + PageSize \in Nat
      BY <3>1, <1>2, <1>3
    <3> QED
      BY <3>1, <3>2, <1>2, InPageFacts
  <2> QED
    BY <2>1
<1>8. \A i \in 1 .. n : k <= i => InPage(c, i) = 0 /\ InPage(c + PageSize, i + 1) = 0
  <2>1. ASSUME NEW i \in 1 .. n, k <= i
        PROVE  InPage(c, i) = 0 /\ InPage(c + PageSize, i + 1) = 0
    <3>1. i \in Nat \ {0} /\ i + 1 \in Nat \ {0} /\ c + PageSize \in Nat
      BY <1>2
    <3>2. Base(k) <= Base(i) /\ Base(i + 1) = Base(i) + PageSize /\ Base(i) \in Nat
      BY <2>1, <3>1, <1>3, BaseMonotonic, BaseFacts
    <3>3. c <= Base(i) /\ c + PageSize <= Base(i + 1)
      BY <3>2, <1>2, <1>3
    <3> QED
      BY <3>1, <3>3, <1>2, InPageFacts
  <2> QED
    BY <2>1
<1>9. InPage(c + PageSize, k) = PageSize
  <2> HIDE DEF c, k
  <2>1. c + PageSize \in Nat /\ Base(k) + PageSize <= c + PageSize
    BY <1>2, <1>3
  <2> QED
    BY <2>1, <1>3, InPageFacts
<1>10. \A i \in 1 .. n : IsSealed(pages[s][i]) => i < k
  <2>1. ASSUME NEW i \in 1 .. n, IsSealed(pages[s][i])
        PROVE  i < k
    <3>1. InPage(c, i) = PageSize
      BY <2>1, Slots DEF SlotRight
    <3> QED
      BY <3>1, <1>2, <1>3, <1>8
  <2> QED
    BY <2>1
<1> HIDE DEF c, k, n, table
<1>11. \A i \in 1 .. n + 1 :
         \/ i < k /\ i \in 1 .. n /\ table[i] = pages[s][i]
         \/ i = k /\ table[i] = p
         \/ k < i /\ i - 1 \in 1 .. n /\ k <= i - 1 /\ table[i] = pages[s][i - 1]
  <2>1. ASSUME NEW i \in 1 .. n + 1
        PROVE  \/ i < k /\ i \in 1 .. n /\ table[i] = pages[s][i]
               \/ i = k /\ table[i] = p
               \/ k < i /\ i - 1 \in 1 .. n /\ k <= i - 1 /\ table[i] = pages[s][i - 1]
    <3>1. CASE i < k
      <4>1. i \in 1 .. k - 1 /\ i \in 1 .. n
        BY <3>1, <1>2, <1>3, <1>4
      <4> QED
        BY <3>1, <4>1, <1>5
    <3>2. CASE i = k
      BY <3>2, <1>5
    <3>3. CASE k < i
      <4>1. i \in k + 1 .. n + 1 /\ i - 1 \in 1 .. n /\ k <= i - 1
        BY <3>3, <1>2, <1>3, <1>4
      <4> QED
        BY <3>3, <4>1, <1>5
    <3> QED
      BY <3>1, <3>2, <3>3, <1>2, <1>3
  <2> QED
    BY <2>1
<1>12. descriptors[p] \in Descriptor /\ descriptors[p].references \in Nat \ {0} /\ descriptors[p].state = "Sealed"
  BY <1>1, DescriptorFields DEF IInv, TypeOK, IsSealed
<1>13. /\ descriptors'[p] = Sealed(descriptors[p].references + 1)
       /\ \A q \in Pages : q # p => descriptors'[q] = descriptors[q]
       /\ \A q \in Pages : descriptors'[q].state = descriptors[q].state
       /\ descriptors' \in [Pages -> Descriptor]
  <2>1. /\ descriptors'[p] = Sealed(descriptors[p].references + 1)
        /\ \A q \in Pages : q # p => descriptors'[q] = descriptors[q]
    BY <1>1 DEF IInv, TypeOK
  <2>2. descriptors'[p].state = "Sealed" /\ Sealed(descriptors[p].references + 1) \in Descriptor
    BY <1>12, <2>1, SealedFields
  <2>3. descriptors' \in [Pages -> Descriptor]
    BY <1>1, <2>2 DEF IInv, TypeOK
  <2> QED
    BY <1>12, <2>1, <2>2, <2>3
<1>14. \A q \in Pages : \A r : /\ (IsPrivateOf(q, r))' <=> IsPrivateOf(q, r)
                               /\ (IsSealed(q))' <=> IsSealed(q)
                               /\ IsPrivateOf(q, r) => descriptors'[q] = descriptors[q]
  BY <1>12, <1>13 DEF IsPrivateOf, IsSealed
<1>15. TypeOK'
  BY <1>1, <1>6, <1>13 DEF IInv, TypeOK
<1>16. FreeListExact'
  BY <1>1, <1>13 DEF IInv, FreeListExact
<1>17. Fits'
  <2>1. ASSUME NEW r \in SequenceIds
        PROVE  committed'[r] <= tentative'[r] /\ tentative'[r] <= (Base(Len(pages[r]) + 1))'
    <3>1. CASE r = s
      <4>1. Base(n + 1 + 1) = Base(n + 1) + PageSize
        BY <1>2, BaseFacts
      <4>2. c + PageSize <= Base(n + 1 + 1)
        BY <4>1, <1>2
      <4>3. (Base(Len(pages[r]) + 1))' = Base(n + 1 + 1)
        BY <3>1, <1>5, <1>6 DEF Base
      <4> QED
        BY <3>1, <4>2, <4>3, <1>2, <1>6
    <3>2. CASE r # s
      BY <3>2, <1>6, Lengths DEF Base
    <3> QED
      BY <3>1, <3>2
  <2>2. \A r \in SequenceIds : pages'[r] # << >> => r \in reserved'
    BY <1>1, <1>6 DEF IInv, Fits
  <2> QED
    BY <2>1, <2>2 DEF Fits
<1>18. SlotsRight'
  <2>1. ASSUME NEW r \in SequenceIds, NEW i \in 1 .. Len(pages'[r])
        PROVE  (SlotRight(r, i))'
    <3>1. CASE r # s
      <4>1. pages'[r] = pages[r] /\ SlotRight(r, i) /\ pages[r][i] \in Pages
        BY <2>1, <3>1, <1>6, Slots
      <4> QED
        BY <4>1, <3>1, <1>6, <1>14 DEF SlotRight
    <3>2. CASE r = s
      <4> DEFINE q == table[i]
      <4>1. i \in 1 .. n + 1 /\ pages'[r][i] = q /\ q \in Pages
        BY <2>1, <3>2, <1>5, <1>6, ElementOfSeq
      <4>2. ASSUME NEW j \in 1 .. n, q = pages[s][j],
                   \/ InPage(c, j) = PageSize /\ InPage(c + PageSize, i) = PageSize
                   \/ InPage(c, j) = 0 /\ InPage(c + PageSize, i) = 0,
                   \A l \in 1 .. n + 1 : table[l] = q /\ q # p => l = i
            PROVE  (SlotRight(r, i))'
        <5>1. SlotRight(s, j) /\ descriptors[q] \in Descriptor
          BY <4>2, Slots DEF n
        <5>2. CASE IsSealed(q)
          <6>1. InPage(c, j) = PageSize
            BY <5>1, <5>2, <4>2 DEF SlotRight, c
          <6>2. InPage(c + PageSize, i) = PageSize
            BY <6>1, <4>2, <1>2
          <6>3. ~IsPrivateOf(q, s)
            BY <5>2 DEF IsSealed, IsPrivateOf
          <6> QED
            BY <3>2, <4>1, <5>2, <6>2, <6>3, <1>6, <1>14 DEF SlotRight
        <5>3. CASE IsPrivateOf(q, s)
          <6>1. q # p /\ ~IsSealed(q) /\ descriptors'[q] = descriptors[q]
            BY <5>3, <4>1, <1>1, <1>14 DEF IsSealed, IsPrivateOf
          <6>2. /\ descriptors[q].committed <= InPage(c, j)
                /\ InPage(c, j) < PageSize => descriptors[q].tentative = InPage(c, j)
            BY <5>1, <5>3, <4>2, <1>1 DEF SlotRight, c
          <6>3. InPage(c + PageSize, i) = InPage(c, j)
            BY <4>2
          <6>4. \A l \in 1 .. n + 1 : table[l] = q => l = i
            BY <4>2, <6>1
          <6> QED
            BY <3>2, <4>1, <5>3, <6>1, <6>2, <6>3, <6>4, <1>5, <1>6, <1>14 DEF SlotRight
        <5> QED
          BY <5>1, <5>2, <5>3, <4>2 DEF SlotRight
      <4>3. ASSUME NEW j \in 1 .. n, NEW l \in 1 .. n, IsPrivateOf(pages[s][j], s), pages[s][l] = pages[s][j]
            PROVE  l = j
        BY <4>3, Slots DEF SlotRight, n
      <4>4. CASE i = k
        <5>1. q = p
          BY <4>4, <1>5
        <5> QED
          BY <3>2, <4>1, <4>4, <5>1, <1>1, <1>6, <1>9, <1>14, ZenonT(60) DEF SlotRight, IsSealed, IsPrivateOf
      <4> HIDE DEF q
      <4>5. ASSUME NEW j \in 1 .. n, q = pages[s][j], i = (IF j < k THEN j ELSE j + 1)
            PROVE  (SlotRight(r, i))'
        <5>1. \/ InPage(c, j) = PageSize /\ InPage(c + PageSize, i) = PageSize
              \/ InPage(c, j) = 0 /\ InPage(c + PageSize, i) = 0
          BY <4>5, <1>2, <1>3, <1>7, <1>8
        <5>2. CASE IsPrivateOf(q, s)
          <6>1. ASSUME NEW l \in 1 .. n + 1, table[l] = q, q # p
                PROVE  l = i
            BY <4>3, <4>5, <5>2, <6>1, <1>2, <1>3, <1>11
          <6> QED
            BY <4>2, <4>5, <5>1, <6>1
        <5>3. CASE ~IsPrivateOf(q, s)
          <6>1. IsSealed(q) /\ InPage(c, j) = PageSize
            BY <5>3, <4>5, Slots DEF SlotRight, n, c
          <6>2. InPage(c + PageSize, i) = PageSize
            BY <6>1, <5>1, <1>2
          <6> QED
            BY <3>2, <4>1, <5>3, <6>1, <6>2, <1>6, <1>14 DEF SlotRight
        <5> QED
          BY <5>2, <5>3
      <4>6. CASE i < k
        BY <4>1, <4>5, <4>6, <1>11, <1>3 DEF q
      <4>7. CASE k < i
        <5>1. i - 1 \in 1 .. n /\ ~(i - 1 < k) /\ i - 1 + 1 = i /\ q = pages[s][i - 1]
          BY <4>1, <4>7, <1>3, <1>11 DEF q
        <5> QED
          BY <5>1, <4>5
      <4> QED
        BY <4>1, <4>4, <4>6, <4>7, <1>2, <1>3
    <3> QED
      BY <3>1, <3>2
  <2> QED
    BY <2>1 DEF SlotsRight
<1>19. Placed'
  <2>1. ASSUME NEW q \in Pages, descriptors'[q].state = "Private"
        PROVE  \E i \in 1 .. Len(pages'[descriptors'[q].owner]) : pages'[descriptors'[q].owner][i] = q
    <3> DEFINE o == descriptors[q].owner
    <3>1. descriptors'[q] = descriptors[q] /\ descriptors[q].state = "Private" /\ o \in SequenceIds
      BY <2>1, <1>12, <1>13, DescriptorFields DEF IInv, TypeOK
    <3>2. PICK i \in 1 .. Len(pages[o]) : pages[o][i] = q
      BY <3>1 DEF IInv, Placed
    <3>3. CASE o # s
      BY <3>1, <3>2, <3>3, <1>6
    <3>4. CASE o = s
      <4>1. i \in 1 .. n
        BY <3>2, <3>4 DEF n
      <4>2. CASE i < k
        <5>1. i \in 1 .. n + 1 /\ table[i] = q
          BY <3>2, <3>4, <4>1, <4>2, <1>2, <1>3, <1>5
        <5> QED
          BY <5>1, <3>1, <3>4, <1>5, <1>6
      <4>3. CASE k <= i
        <5>1. i + 1 \in k + 1 .. n + 1 /\ i + 1 - 1 = i /\ i + 1 \in 1 .. n + 1
          BY <4>1, <4>3, <1>2, <1>3
        <5>2. table[i + 1] = q
          BY <5>1, <3>2, <3>4, <1>5
        <5> QED
          BY <5>1, <5>2, <3>1, <3>4, <1>5, <1>6
      <4> QED
        BY <4>1, <4>2, <4>3, <1>2, <1>3
    <3> QED
      BY <3>3, <3>4
  <2> QED
    BY <2>1 DEF Placed
<1>20. Counted'
  <2>1. ASSUME NEW q \in Pages, IsSealed(q)
        PROVE  (References(q))' = IF q = p THEN References(q) \cup {<<s, k>>} ELSE References(q)
    <3>1. \A r \in SequenceIds : DOMAIN pages[r] = 1 .. Len(pages[r])
      BY Slots
    <3>2. \A i \in 1 .. n : pages[s][i] = q => i < k
      BY <2>1, <1>10
    <3>3. {i \in DOMAIN pages'[s] : pages'[s][i] = q}
            = {i \in DOMAIN pages[s] : pages[s][i] = q} \cup (IF q = p THEN {k} ELSE {})
      <4>1. \A i \in 1 .. n + 1 : table[i] = q <=> (i \in 1 .. n /\ pages[s][i] = q) \/ (q = p /\ i = k)
        <5>1. ASSUME NEW i \in 1 .. n + 1
              PROVE  table[i] = q <=> (i \in 1 .. n /\ pages[s][i] = q) \/ (q = p /\ i = k)
          <6>1. CASE i < k
            BY <6>1, <1>3, <1>11
          <6>2. CASE i = k
            BY <6>2, <3>2, <1>3, <1>11
          <6>3. CASE k < i
            BY <6>3, <3>2, <1>3, <1>11
          <6> QED
            BY <6>1, <6>2, <6>3, <1>3
        <5> QED
          BY <5>1
      <4>2. DOMAIN pages'[s] = 1 .. n + 1 /\ DOMAIN pages[s] = 1 .. n /\ 1 .. n \subseteq 1 .. n + 1
            /\ k \in 1 .. n + 1 /\ pages'[s] = table
        BY <1>2, <1>4, <1>5, <1>6, <3>1 DEF n
      <4> QED
        BY <4>1, <4>2
    <3>4. \A r \in SequenceIds : r # s => pages'[r] = pages[r]
      BY <1>6
    <3> QED
      BY <3>3, <3>4 DEF References
  <2>2. <<s, k>> \notin References(p)
    <3>1. \A i \in 1 .. n : pages[s][i] = p => i # k
      BY <1>1, <1>3, <1>10
    <3> QED
      BY <3>1, ReferenceFacts DEF n
  <2>3. ASSUME NEW q \in Pages, (IsSealed(q))'
        PROVE  IsFiniteSet((References(q))') /\ descriptors'[q].references = Cardinality((References(q))')
    <3>1. IsSealed(q) /\ IsFiniteSet(References(q)) /\ descriptors[q].references = Cardinality(References(q))
      BY <2>3, <1>14 DEF IInv, Counted
    <3>2. CASE q = p
      <4>1. /\ IsFiniteSet(References(p) \cup {<<s, k>>})
            /\ Cardinality(References(p) \cup {<<s, k>>}) = Cardinality(References(p)) + 1
        BY <3>1, <3>2, <2>2, FS_AddElement
      <4> QED
        BY <4>1, <3>1, <3>2, <2>1, <1>13, SealedFields
    <3>3. CASE q # p
      BY <3>1, <3>3, <2>1, <1>13
    <3> QED
      BY <3>2, <3>3
  <2> QED
    BY <2>3 DEF Counted
<1>21. SealedStays
  BY <1>13 DEF SealedStays, IsSealed
<1> QED
  BY <1>15, <1>16, <1>17, <1>18, <1>19, <1>20, <1>21 DEF IInv

-----------------------------------------------------------------------------
(* Release.                                                                *)

\* A set of naturals that is not empty has a smallest element.
LEMMA NatMin ==
  ASSUME NEW S \in SUBSET Nat, S # {}
  PROVE  \E n \in S : \A m \in S : n <= m
<1>1. PICK n \in S : \A m \in S : <<m, n>> \notin OpToRel(<, Nat)
  BY NatLessThanWellFounded, WFMin
<1>2. \A m \in S : ~(m < n)
  BY <1>1 DEF OpToRel
<1> QED
  BY <1>2

\* An enumeration of a finite set that goes only down lists it, each element once.
LEMMA BackwardsLists ==
  ASSUME NEW F \in SUBSET Nat, IsFiniteSet(F), NEW order \in Backwards(F)
  PROVE  /\ Cardinality(F) \in Nat
         /\ \A k \in 1 .. Cardinality(F) : order[k] \in F
         /\ \A j, k \in 1 .. Cardinality(F) : order[j] = order[k] => j = k
         /\ \A i \in F : \E k \in 1 .. Cardinality(F) : order[k] = i
<1> DEFINE n == Cardinality(F)
<1>1. n \in Nat
  BY FS_CardinalityType
<1>2. /\ order \in [1 .. n -> F]
      /\ \A j, k \in 1 .. n : j < k => order[j] > order[k]
  BY DEF Backwards
<1> HIDE DEF n
<1>3. ASSUME NEW j \in 1 .. n, NEW k \in 1 .. n, order[j] = order[k]
      PROVE  j = k
  <2>1. order[j] \in Nat /\ order[k] \in Nat
    BY <1>2
  <2>2. ~(j < k) /\ ~(k < j)
    BY <1>2, <1>3, <2>1
  <2> QED
    BY <2>2, <1>1
<1>4. order \in Injection(1 .. n, F)
  BY <1>2, <1>3 DEF Injection, IsInjective
<1>5. IsFiniteSet(1 .. n) /\ Cardinality(1 .. n) = n
  <2>1. IsFiniteSet(1 .. n) /\ Cardinality(1 .. n) = IF 1 > n THEN 0 ELSE n - 1 + 1
    BY <1>1, FS_Interval
  <2> QED
    BY <2>1, <1>1
<1>6. order \in Surjection(1 .. n, F)
  BY <1>4, <1>5, FS_Injection DEF n
<1>7. \A i \in F : \E k \in 1 .. n : order[k] = i
  BY <1>6 DEF Surjection
<1> QED
  BY <1>1, <1>2, <1>3, <1>7 DEF n

\* The walk visits every slot.
LEMMA VisitedAll ==
  ASSUME IInv, NEW s \in SequenceIds
  PROVE  Visited(s) = 1 .. Len(pages[s])
  BY Slots DEF Visited, SlotRight

\* The references to a page that a release of s drops.
LEMMA Dropped ==
  ASSUME IInv, NEW s \in SequenceIds, NEW p \in Pages
  PROVE  /\ SlotsOf(s, p, Visited(s)) = {i \in 1 .. Len(pages[s]) : pages[s][i] = p}
         /\ IsFiniteSet(SlotsOf(s, p, Visited(s)))
         /\ Cardinality(SlotsOf(s, p, Visited(s))) \in Nat
         /\ {s} \X SlotsOf(s, p, Visited(s)) \subseteq References(p)
         /\ IsFiniteSet({s} \X SlotsOf(s, p, Visited(s)))
         /\ Cardinality({s} \X SlotsOf(s, p, Visited(s))) = Cardinality(SlotsOf(s, p, Visited(s)))
<1> DEFINE D == SlotsOf(s, p, Visited(s))
<1>1. D = {i \in 1 .. Len(pages[s]) : pages[s][i] = p}
  BY VisitedAll DEF SlotsOf
<1>2. IsFiniteSet(1 .. Len(pages[s]))
  BY Slots, FS_Interval
<1>3. IsFiniteSet(D) /\ Cardinality(D) \in Nat
  BY <1>1, <1>2, FS_Subset, FS_CardinalityType
<1>4. {s} \X D \subseteq References(p)
  BY <1>1, ReferenceFacts
<1>5. IsFiniteSet({s}) /\ Cardinality({s}) = 1
  BY FS_Singleton
<1>6. IsFiniteSet({s} \X D) /\ Cardinality({s} \X D) = Cardinality(D)
  <2>1. IsFiniteSet({s} \X D) /\ Cardinality({s} \X D) = Cardinality({s}) * Cardinality(D)
    BY <1>3, <1>5, FS_Product
  <2> QED
    BY <2>1, <1>3, <1>5
<1> QED
  BY <1>1, <1>3, <1>4, <1>6

\* A sealed page is freed, at its first slot in the table, when no other table refers
\* to it.
LEMMA SealedFreed ==
  ASSUME IInv, NEW s \in SequenceIds, NEW p \in Pages, IsSealed(p), SlotsOf(s, p, Visited(s)) # {}
  PROVE  LET D == SlotsOf(s, p, Visited(s)) IN
         /\ descriptors[p].references = Cardinality(D) => \E i \in FreedAt(s) : pages[s][i] = p
         /\ \A i \in FreedAt(s) : pages[s][i] = p =>
              descriptors[p].references = Cardinality(D) /\ i \in D /\ \A j \in D : i <= j
<1> DEFINE D == SlotsOf(s, p, Visited(s))
           From(i) == SlotsOf(s, p, {j \in Visited(s) : i <= j})
<1>1. D \subseteq Nat /\ IsFiniteSet(D) /\ Cardinality(D) \in Nat
  BY Dropped, Slots, ZenonT(60)
<1>2. \A i : From(i) = {j \in D : i <= j}
  BY DEF SlotsOf
<1>3. \A i : i \in FreedAt(s) /\ pages[s][i] = p
               <=> i \in D /\ descriptors[p].references = Cardinality(From(i))
  BY DEF FreedAt, SlotsOf
<1>4. Cardinality(D) <= descriptors[p].references
  <2>1. IsFiniteSet(References(p)) /\ descriptors[p].references = Cardinality(References(p))
    BY DEF IInv, Counted
  <2>2. {s} \X D \in SUBSET References(p) /\ Cardinality({s} \X D) = Cardinality(D)
    BY Dropped
  <2> HIDE DEF D
  <2> QED
    BY <2>1, <2>2, FS_Subset
<1> HIDE DEF D, From
<1>5. ASSUME descriptors[p].references = Cardinality(D)
      PROVE  \E i \in FreedAt(s) : pages[s][i] = p
  <2>1. PICK m \in D : \A j \in D : m <= j
    BY <1>1, NatMin DEF D
  <2>2. From(m) = D
    BY <2>1, <1>2
  <2> QED
    BY <2>2, <1>3, <1>5
<1>6. ASSUME NEW i \in FreedAt(s), pages[s][i] = p
      PROVE  descriptors[p].references = Cardinality(D) /\ i \in D /\ \A j \in D : i <= j
  <2>1. i \in D /\ descriptors[p].references = Cardinality(From(i))
    BY <1>3, <1>6
  <2>2. From(i) \in SUBSET D
    BY <1>2
  <2>3. Cardinality(From(i)) <= Cardinality(D) /\ Cardinality(From(i)) \in Nat
    BY <1>1, <2>2, FS_Subset, FS_CardinalityType
  <2>4. Cardinality(From(i)) = Cardinality(D)
    BY <2>1, <2>3, <1>1, <1>4
  <2>5. From(i) = D
    BY <2>2, <2>4, <1>1, FS_Subset
  <2> QED
    BY <2>1, <2>4, <2>5, <1>2
<1> QED
  BY <1>5, <1>6 DEF D

\* Each page is freed at one slot at most, and all the slots of the walk are in the table.
LEMMA FreedOnce ==
  ASSUME IInv, NEW s \in SequenceIds
  PROVE  /\ FreedAt(s) \subseteq 1 .. Len(pages[s]) /\ FreedAt(s) \subseteq Nat /\ IsFiniteSet(FreedAt(s))
         /\ \A i, j \in FreedAt(s) : pages[s][i] = pages[s][j] => i = j
<1>1. FreedAt(s) \subseteq 1 .. Len(pages[s])
  BY VisitedAll DEF FreedAt
<1>2. IsFiniteSet(1 .. Len(pages[s])) /\ 1 .. Len(pages[s]) \subseteq Nat
  BY Slots, FS_Interval
<1>3. IsFiniteSet(FreedAt(s))
  BY <1>1, <1>2, FS_Subset
<1>4. ASSUME NEW i \in FreedAt(s), NEW j \in FreedAt(s), pages[s][i] = pages[s][j]
      PROVE  i = j
  <2> DEFINE p == pages[s][i]
             D == SlotsOf(s, p, Visited(s))
  <2>1. i \in 1 .. Len(pages[s]) /\ j \in 1 .. Len(pages[s]) /\ p \in Pages /\ SlotRight(s, i)
    BY <1>1, Slots
  <2>2. CASE IsSealed(p)
    <3>1. i \in D
      BY <2>1, Dropped
    <3>2. (i \in D /\ \A k \in D : i <= k) /\ (j \in D /\ \A k \in D : j <= k)
      BY <1>4, <2>1, <2>2, <3>1, SealedFreed
    <3> HIDE DEF D
    <3>3. i <= j /\ j <= i
      BY <3>2
    <3> QED
      BY <3>3, <1>1, <1>2
  <2>3. CASE ~IsSealed(p)
    BY <2>1, <2>3, <1>4 DEF SlotRight
  <2> QED
    BY <2>2, <2>3
<1> QED
  BY <1>1, <1>2, <1>3, <1>4

\* What a release makes of each page.
LEMMA ReleasedPage ==
  ASSUME IInv, NEW s \in SequenceIds, Release(s), NEW p \in Pages
  PROVE  LET D == SlotsOf(s, p, Visited(s)) IN
         \/ D = {} /\ descriptors'[p] = descriptors[p] /\ ~\E i \in FreedAt(s) : pages[s][i] = p
         \/ D # {} /\ descriptors'[p] = Free /\ \E i \in FreedAt(s) : pages[s][i] = p
         \/ /\ D # {} /\ IsSealed(p) /\ Cardinality(D) < descriptors[p].references
            /\ descriptors'[p] = Sealed(descriptors[p].references - Cardinality(D))
            /\ ~\E i \in FreedAt(s) : pages[s][i] = p
<1> DEFINE D == SlotsOf(s, p, Visited(s))
           freed == \E i \in FreedAt(s) : pages[s][i] = p
<1>1. descriptors'[p] = IF D = {} THEN descriptors[p]
                        ELSE IF freed THEN Free
                        ELSE Sealed(descriptors[p].references - Cardinality(D))
  BY DEF Release
<1>2. D = {i \in 1 .. Len(pages[s]) : pages[s][i] = p} /\ Cardinality(D) \in Nat
  BY Dropped
<1>3. freed => D # {}
  BY <1>2, FreedOnce
<1>4. ASSUME D # {}, ~freed
      PROVE  IsSealed(p) /\ Cardinality(D) < descriptors[p].references
  <2>1. PICK i \in 1 .. Len(pages[s]) : pages[s][i] = p
    BY <1>2, <1>4
  <2>2. i \in Visited(s) /\ SlotRight(s, i)
    BY VisitedAll, Slots
  <2>3. IsSealed(p)
    <3>1. ~IsSealed(p) => i \in FreedAt(s)
      BY <2>1, <2>2 DEF FreedAt
    <3> QED
      BY <3>1, <1>4, <2>1
  <2>4. descriptors[p].references # Cardinality(D)
    BY <1>4, <2>3, SealedFreed
  <2>5. IsFiniteSet(References(p)) /\ descriptors[p].references = Cardinality(References(p))
    BY <2>3 DEF IInv, Counted
  <2>6. {s} \X D \in SUBSET References(p) /\ Cardinality({s} \X D) = Cardinality(D)
    BY Dropped
  <2> HIDE DEF D
  <2>7. Cardinality(D) <= descriptors[p].references /\ descriptors[p].references \in Nat
    BY <2>5, <2>6, FS_Subset, FS_CardinalityType
  <2> QED
    BY <2>3, <2>4, <2>7, <1>2
<1> HIDE DEF D, freed
<1> QED
  BY <1>1, <1>3, <1>4 DEF D, freed

\* A release returns at most as many pages as the table has.
LEMMA ReturnedPages ==
  ASSUME IInv, NEW s \in SequenceIds, Release(s)
  PROVE  LET n == Cardinality(FreedAt(s)) IN
         Len(free') = Len(free) + n /\ n \in 0 .. Len(pages[s]) /\ Len(free) \in Nat
<1> DEFINE n == Cardinality(FreedAt(s))
<1>1. PICK order \in Backwards(FreedAt(s)) : free' = free \o [k \in 1 .. n |-> pages[s][order[k]]]
  BY DEF Release
<1> DEFINE returned == [k \in 1 .. n |-> pages[s][order[k]]]
<1>2. n \in Nat /\ \A k \in 1 .. n : order[k] \in FreedAt(s)
  BY FreedOnce, BackwardsLists
<1>3. n <= Len(pages[s])
  <2>1. IsFiniteSet(1 .. Len(pages[s])) /\ Cardinality(1 .. Len(pages[s])) = Len(pages[s])
    <3>1. /\ IsFiniteSet(1 .. Len(pages[s]))
          /\ Cardinality(1 .. Len(pages[s])) = IF 1 > Len(pages[s]) THEN 0 ELSE Len(pages[s]) - 1 + 1
      BY Lengths, FS_Interval
    <3> QED
      BY <3>1, Lengths
  <2> QED
    BY <2>1, FreedOnce, FS_Subset
<1> HIDE DEF n
<1>4. returned \in Seq(Pages) /\ Len(returned) = n
  <2>1. \A k \in 1 .. n : pages[s][order[k]] \in Pages
    BY <1>2, FreedOnce, Slots
  <2> QED
    BY <2>1, <1>2
<1> HIDE DEF returned
<1>5. Len(free \o returned) = Len(free) + Len(returned) /\ Len(free) \in Nat
  <2>1. free \in Seq(Pages)
    BY DEF IInv, TypeOK
  <2> QED
    BY <2>1, <1>4, ConcatProperties, LenProperties
<1>6. free' = free \o returned
  BY <1>1 DEF returned
<1> QED
  BY <1>2, <1>3, <1>4, <1>5, <1>6, Lengths DEF n

\* release keeps the invariant: each page whose last reference goes is returned to
\* the free list once, and no other page moves.
LEMMA ReleaseStep ==
  ASSUME IInv, NEW s \in SequenceIds, Release(s)
  PROVE  IInv' /\ SealedStays
<1> DEFINE D(p) == SlotsOf(s, p, Visited(s))
           freed(p) == \E i \in FreedAt(s) : pages[s][i] = p
           n == Cardinality(FreedAt(s))
<1>1. /\ reserved' = reserved \ {s}
      /\ pages' = [pages EXCEPT ![s] = << >>]
      /\ committed' = [committed EXCEPT ![s] = 0]
      /\ tentative' = [tentative EXCEPT ![s] = 0]
      /\ UNCHANGED checkpoint
      /\ descriptors' = [p \in Pages |-> descriptors'[p]]
  BY DEF Release
<1>2. PICK order \in Backwards(FreedAt(s)) : free' = free \o [k \in 1 .. n |-> pages[s][order[k]]]
  BY DEF Release
<1> DEFINE returned == [k \in 1 .. n |-> pages[s][order[k]]]
<1>3. /\ n \in Nat
      /\ \A k \in 1 .. n : order[k] \in FreedAt(s)
      /\ \A j, k \in 1 .. n : order[j] = order[k] => j = k
      /\ \A i \in FreedAt(s) : \E k \in 1 .. n : order[k] = i
  BY FreedOnce, BackwardsLists
<1>4. /\ pages'[s] = << >> /\ \A r \in SequenceIds \ {s} : pages'[r] = pages[r]
      /\ committed'[s] = 0 /\ tentative'[s] = 0
      /\ \A r \in SequenceIds \ {s} : committed'[r] = committed[r] /\ tentative'[r] = tentative[r]
      /\ pages' \in [SequenceIds -> Seq(Pages)]
      /\ committed' \in [SequenceIds -> Nat] /\ tentative' \in [SequenceIds -> Nat]
  BY <1>1 DEF IInv, TypeOK
<1>5. \A p \in Pages : D(p) = {i \in 1 .. Len(pages[s]) : pages[s][i] = p}
  BY Dropped
<1>6. \A p \in Pages :
        \/ D(p) = {} /\ descriptors'[p] = descriptors[p] /\ ~freed(p)
        \/ D(p) # {} /\ descriptors'[p] = Free /\ freed(p)
        \/ /\ D(p) # {} /\ IsSealed(p) /\ Cardinality(D(p)) < descriptors[p].references
           /\ descriptors'[p] = Sealed(descriptors[p].references - Cardinality(D(p)))
           /\ ~freed(p)
  BY ReleasedPage
<1> HIDE DEF n
<1>7. /\ \A k \in 1 .. n : returned[k] = pages[s][order[k]] /\ returned[k] \in Pages
      /\ returned \in Seq(Pages) /\ Len(returned) = n
      /\ \A p \in Pages : freed(p) <=> \E k \in 1 .. n : returned[k] = p
      /\ \A j, k \in 1 .. n : returned[j] = returned[k] => j = k
  <2>1. \A k \in 1 .. n : returned[k] = pages[s][order[k]] /\ returned[k] \in Pages
    BY <1>3, FreedOnce, Slots
  <2>2. returned \in Seq(Pages) /\ Len(returned) = n
    BY <2>1, <1>3
  <2>3. \A p \in Pages : freed(p) <=> \E k \in 1 .. n : returned[k] = p
    BY <2>1, <1>3
  <2>4. \A j, k \in 1 .. n : returned[j] = returned[k] => j = k
    BY <2>1, <1>3, FreedOnce
  <2> QED
    BY <2>1, <2>2, <2>3, <2>4
<1> HIDE DEF returned, freed
<1>8. free \in Seq(Pages) /\ Len(free) \in Nat /\ DOMAIN free = 1 .. Len(free)
  BY LenProperties DEF IInv, TypeOK
<1>9. /\ free' \in Seq(Pages) /\ Len(free') = Len(free) + n /\ DOMAIN free' = 1 .. Len(free) + n
      /\ \A i \in 1 .. Len(free) : free'[i] = free[i]
      /\ \A k \in 1 .. n : free'[Len(free) + k] = returned[k]
  <2>1. /\ free \o returned \in Seq(Pages) /\ Len(free \o returned) = Len(free) + Len(returned)
        /\ \A i \in 1 .. Len(free) + Len(returned) : (free \o returned)[i] =
             IF i <= Len(free) THEN free[i] ELSE returned[i - Len(free)]
    <3>1. ASSUME NEW a \in Seq(Pages), NEW b \in Seq(Pages)
          PROVE  /\ a \o b \in Seq(Pages) /\ Len(a \o b) = Len(a) + Len(b)
                 /\ \A i \in 1 .. Len(a) + Len(b) :
                      (a \o b)[i] = IF i <= Len(a) THEN a[i] ELSE b[i - Len(a)]
      BY ConcatProperties
    <3> QED
      BY <3>1, <1>7, <1>8
  <2>2. free' = free \o returned
    BY <1>2 DEF returned
  <2>3. \A i \in 1 .. Len(free) : free'[i] = free[i]
    BY <2>1, <2>2, <1>3, <1>7, <1>8
  <2>4. ASSUME NEW k \in 1 .. n
        PROVE  free'[Len(free) + k] = returned[k]
    <3>1. Len(free) + k \in 1 .. Len(free) + Len(returned) /\ ~(Len(free) + k <= Len(free))
          /\ Len(free) + k - Len(free) = k
      BY <1>3, <1>7, <1>8
    <3> QED
      BY <3>1, <2>1, <2>2
  <2>5. DOMAIN free' = 1 .. Len(free) + n
    BY <2>1, <2>2, <1>7, LenProperties
  <2> QED
    BY <2>1, <2>2, <2>3, <2>4, <2>5, <1>7
<1>10. \A p \in Pages : descriptors[p].state = "Free" => D(p) = {}
  BY <1>5, Slots DEF SlotRight, IsPrivateOf, IsSealed
<1>11. \A p \in Pages : descriptors'[p].state = "Free" <=> descriptors[p].state = "Free" \/ freed(p)
  <2>1. ASSUME NEW p \in Pages
        PROVE  descriptors'[p].state = "Free" <=> descriptors[p].state = "Free" \/ freed(p)
    <3>1. CASE D(p) = {} /\ descriptors'[p] = descriptors[p] /\ ~freed(p)
      BY <3>1
    <3>2. CASE descriptors'[p] = Free /\ freed(p)
      BY <3>2, FreeFields
    <3>3. CASE /\ IsSealed(p) /\ ~freed(p)
               /\ descriptors'[p] = Sealed(descriptors[p].references - Cardinality(D(p)))
      BY <3>3, SealedFields DEF IsSealed
    <3> QED
      BY <3>1, <3>2, <3>3, <1>6
  <2> QED
    BY <2>1
<1>12. FreeListExact'
  <2>1. \A p \in Pages : descriptors[p].state = "Free" <=> \E i \in 1 .. Len(free) : free[i] = p
    BY <1>8 DEF IInv, FreeListExact
  <2>2. \A i, j \in 1 .. Len(free) : free[i] = free[j] => i = j
    BY <1>8 DEF IInv, FreeListExact
  <2>3. \A i \in 1 .. Len(free) + n : i \in 1 .. Len(free) \/ \E k \in 1 .. n : i = Len(free) + k
    <3>1. ASSUME NEW i \in 1 .. Len(free) + n, i \notin 1 .. Len(free)
          PROVE  i - Len(free) \in 1 .. n /\ i = Len(free) + (i - Len(free))
      BY <3>1, <1>3, <1>8
    <3> QED
      BY <3>1
  <2>4. \A i \in 1 .. Len(free) : i \in 1 .. Len(free) + n
    BY <1>3, <1>8
  <2>5. \A k \in 1 .. n : Len(free) + k \in 1 .. Len(free) + n
    BY <1>3, <1>8
  <2>6. ASSUME NEW p \in Pages
        PROVE  descriptors'[p].state = "Free" <=> \E i \in DOMAIN free' : free'[i] = p
    <3>1. descriptors'[p].state = "Free" => \E i \in DOMAIN free' : free'[i] = p
      <4>1. CASE descriptors[p].state = "Free"
        BY <4>1, <2>1, <2>4, <1>9
      <4>2. CASE freed(p)
        <5>1. PICK k \in 1 .. n : returned[k] = p
          BY <4>2, <1>7
        <5>2. free'[Len(free) + k] = p /\ Len(free) + k \in DOMAIN free'
          BY <5>1, <2>5, <1>9
        <5> QED
          BY <5>2
      <4> QED
        BY <4>1, <4>2, <1>11
    <3>2. ASSUME NEW i \in DOMAIN free', free'[i] = p
          PROVE  descriptors'[p].state = "Free"
      <4>1. CASE i \in 1 .. Len(free)
        BY <4>1, <3>2, <2>1, <1>9, <1>11
      <4>2. ASSUME NEW k \in 1 .. n, i = Len(free) + k
            PROVE  descriptors'[p].state = "Free"
        BY <4>2, <3>2, <1>7, <1>9, <1>11
      <4> QED
        BY <4>1, <4>2, <2>3, <1>9
    <3> QED
      BY <3>1, <3>2
  <2>7. \A i \in 1 .. Len(free), k \in 1 .. n : free[i] # returned[k]
    <3>1. ASSUME NEW i \in 1 .. Len(free), NEW k \in 1 .. n, free[i] = returned[k]
          PROVE  FALSE
      <4>1. returned[k] \in Pages /\ freed(returned[k]) /\ descriptors[returned[k]].state = "Free"
        BY <3>1, <2>1, <1>7
      <4>2. D(returned[k]) = {} /\ D(returned[k]) # {}
        BY <4>1, <1>6, <1>10
      <4> QED
        BY <4>2
    <3> QED
      BY <3>1
  <2>8. ASSUME NEW i \in DOMAIN free', NEW j \in DOMAIN free', free'[i] = free'[j]
        PROVE  i = j
    <3>1. CASE i \in 1 .. Len(free) /\ j \in 1 .. Len(free)
      BY <3>1, <2>2, <2>8, <1>9
    <3>2. ASSUME NEW k \in 1 .. n, i = Len(free) + k, j \in 1 .. Len(free)
          PROVE  FALSE
      BY <3>2, <2>7, <2>8, <1>9
    <3>3. ASSUME NEW k \in 1 .. n, j = Len(free) + k, i \in 1 .. Len(free)
          PROVE  FALSE
      BY <3>3, <2>7, <2>8, <1>9
    <3>4. ASSUME NEW k \in 1 .. n, NEW l \in 1 .. n, i = Len(free) + k, j = Len(free) + l
          PROVE  i = j
      <4>1. returned[k] = returned[l]
        BY <3>4, <2>8, <1>9
      <4> QED
        BY <3>4, <4>1, <1>7
    <3> QED
      BY <3>1, <3>2, <3>3, <3>4, <2>3, <1>9
  <2> QED
    BY <2>6, <2>8 DEF FreeListExact
<1>13. TypeOK'
  <2>1. ASSUME NEW p \in Pages
        PROVE  descriptors'[p] \in Descriptor
    <3>1. CASE descriptors'[p] = descriptors[p]
      BY <3>1 DEF IInv, TypeOK
    <3>2. CASE descriptors'[p] = Free
      BY <3>2, FreeFields
    <3>3. CASE /\ IsSealed(p) /\ Cardinality(D(p)) < descriptors[p].references
               /\ descriptors'[p] = Sealed(descriptors[p].references - Cardinality(D(p)))
      <4>1. descriptors[p].references \in Nat /\ Cardinality(D(p)) \in Nat
        BY <3>3, DescriptorFields, Dropped DEF IInv, TypeOK, IsSealed
      <4>2. descriptors[p].references - Cardinality(D(p)) \in Nat \ {0}
        BY <3>3, <4>1
      <4> QED
        BY <3>3, <4>2, SealedFields
    <3> QED
      BY <3>1, <3>2, <3>3, <1>6
  <2>2. descriptors' \in [Pages -> Descriptor]
    BY <2>1, <1>1
  <2>3. reserved' \subseteq SequenceIds
    BY <1>1 DEF IInv, TypeOK
  <2> QED
    BY <2>2, <2>3, <1>1, <1>4, <1>9 DEF IInv, TypeOK
<1>14. Fits'
  <2>1. ASSUME NEW r \in SequenceIds
        PROVE  committed'[r] <= tentative'[r] /\ tentative'[r] <= (Base(Len(pages[r]) + 1))'
    <3>1. CASE r = s
      <4>1. (Base(Len(pages[r]) + 1))' = Base(0 + 1)
        BY <3>1, <1>4 DEF Base
      <4>2. 0 + 1 = 1 /\ Base(1) = 0
        BY BaseFacts
      <4> QED
        BY <3>1, <4>1, <4>2, <1>4
    <3>2. CASE r # s
      BY <3>2, <1>4, Lengths DEF Base
    <3> QED
      BY <3>1, <3>2
  <2>2. \A r \in SequenceIds : pages'[r] # << >> => r \in reserved'
    BY <1>1, <1>4 DEF IInv, Fits
  <2> QED
    BY <2>1, <2>2 DEF Fits
<1>15. ASSUME NEW r \in SequenceIds \ {s}, NEW i \in 1 .. Len(pages[r])
       PROVE  ~freed(pages[r][i])
  <2> DEFINE p == pages[r][i]
  <2>1. p \in Pages /\ SlotRight(r, i) /\ <<r, i>> \in References(p)
    BY Slots, ReferenceFacts
  <2>2. SUFFICES ASSUME freed(p) PROVE FALSE
    OBVIOUS
  <2>3. PICK j \in FreedAt(s) : pages[s][j] = p
    BY <2>2 DEF freed
  <2>4. j \in 1 .. Len(pages[s]) /\ SlotRight(s, j) /\ D(p) # {}
    BY <2>1, <2>3, <1>5, FreedOnce, Slots
  <2>5. IsSealed(p)
    BY <2>1, <2>3, <2>4 DEF SlotRight, IsPrivateOf, IsSealed
  <2>6. descriptors[p].references = Cardinality(D(p))
    BY <2>1, <2>3, <2>4, <2>5, SealedFreed
  <2>7. IsFiniteSet(References(p)) /\ descriptors[p].references = Cardinality(References(p))
    BY <2>1, <2>5 DEF IInv, Counted
  <2>8. {s} \X D(p) \in SUBSET References(p) /\ Cardinality({s} \X D(p)) = Cardinality(D(p))
    BY <2>1, Dropped
  <2>9. {s} \X D(p) = References(p)
    <3> HIDE DEF D, p
    <3> QED
      BY <2>6, <2>7, <2>8, FS_Subset
  <2>10. <<r, i>> \in {s} \X D(p)
    BY <2>1, <2>9
  <2> QED
    BY <2>10
<1>16. SlotsRight'
  <2>1. ASSUME NEW r \in SequenceIds, NEW i \in 1 .. Len(pages'[r])
        PROVE  (SlotRight(r, i))'
    <3>1. r # s /\ pages'[r] = pages[r] /\ i \in 1 .. Len(pages[r])
      BY <2>1, <1>4
    <3> DEFINE p == pages[r][i]
    <3>2. p \in Pages /\ SlotRight(r, i) /\ ~freed(p)
      BY <3>1, <1>15, Slots
    <3>3. CASE descriptors'[p] = descriptors[p]
      BY <3>1, <3>2, <3>3, <1>4 DEF SlotRight, IsPrivateOf, IsSealed
    <3>4. CASE IsSealed(p) /\ descriptors'[p] = Sealed(descriptors[p].references - Cardinality(D(p)))
      <4>1. (IsSealed(p))' /\ ~(IsPrivateOf(p, r))'
        BY <3>4, <3>1, SealedFields DEF IsSealed, IsPrivateOf
      <4> QED
        BY <3>1, <3>2, <3>4, <4>1, <1>4 DEF SlotRight
    <3> QED
      BY <3>2, <3>3, <3>4, <1>6
  <2> QED
    BY <2>1 DEF SlotsRight
<1>17. Placed'
  <2>1. ASSUME NEW p \in Pages, descriptors'[p].state = "Private"
        PROVE  \E i \in 1 .. Len(pages'[descriptors'[p].owner]) : pages'[descriptors'[p].owner][i] = p
    <3> DEFINE o == descriptors[p].owner
    <3>1. descriptors'[p] = descriptors[p] /\ D(p) = {}
      BY <2>1, <1>6, FreeFields, SealedFields
    <3>2. o \in SequenceIds
      BY <2>1, <3>1, DescriptorFields DEF IInv, TypeOK
    <3>3. PICK i \in 1 .. Len(pages[o]) : pages[o][i] = p
      BY <2>1, <3>1 DEF IInv, Placed
    <3>4. o # s
      BY <3>1, <3>3, <1>5
    <3> QED
      BY <3>1, <3>2, <3>3, <3>4, <1>4
  <2> QED
    BY <2>1 DEF Placed
<1>18. Counted'
  <2>1. ASSUME NEW p \in Pages, (IsSealed(p))'
        PROVE  IsFiniteSet((References(p))') /\ descriptors'[p].references = Cardinality((References(p))')
    <3>1. (References(p))' = References(p) \ ({s} \X D(p))
      <4>1. \A r \in SequenceIds : DOMAIN pages[r] = 1 .. Len(pages[r])
        BY Slots
      <4>2. {i \in DOMAIN pages'[s] : pages'[s][i] = p} = {}
        BY <1>4
      <4>3. D(p) = {i \in DOMAIN pages[s] : pages[s][i] = p}
        BY <4>1, <1>5
      <4>4. \A r \in SequenceIds : r # s => pages'[r] = pages[r]
        BY <1>4
      <4> HIDE DEF D
      <4> QED
        BY <4>2, <4>3, <4>4 DEF References
    <3>2. IsSealed(p)
      BY <2>1, <1>6, FreeFields DEF IsSealed
    <3>3. IsFiniteSet(References(p)) /\ descriptors[p].references = Cardinality(References(p))
      BY <3>2 DEF IInv, Counted
    <3>4. {s} \X D(p) \subseteq References(p) /\ Cardinality({s} \X D(p)) = Cardinality(D(p))
          /\ Cardinality(D(p)) \in Nat
      BY Dropped
    <3>5. descriptors'[p].references = descriptors[p].references - Cardinality(D(p))
      <4>1. CASE D(p) = {}
        <5>1. Cardinality(D(p)) = 0 /\ descriptors'[p] = descriptors[p]
          BY <4>1, <1>6, FS_EmptySet
        <5>2. descriptors[p].references \in Nat
          BY <3>2, DescriptorFields DEF IInv, TypeOK, IsSealed
        <5> QED
          BY <5>1, <5>2
      <4>2. CASE D(p) # {}
        BY <4>2, <2>1, <1>6, FreeFields, SealedFields DEF IsSealed
      <4> QED
        BY <4>1, <4>2
    <3> HIDE DEF D
    <3>6. References(p) \cap ({s} \X D(p)) = {s} \X D(p)
      BY <3>4
    <3>7. /\ IsFiniteSet(References(p) \ ({s} \X D(p)))
          /\ Cardinality(References(p) \ ({s} \X D(p)))
               = Cardinality(References(p)) - Cardinality(References(p) \cap ({s} \X D(p)))
      BY <3>3, FS_Difference
    <3> QED
      BY <3>1, <3>3, <3>4, <3>5, <3>6, <3>7
  <2> QED
    BY <2>1 DEF Counted
<1>19. SealedStays
  <2>1. ASSUME NEW p \in Pages, IsSealed(p)
        PROVE  \/ descriptors'[p].state = "Sealed"
               \/ /\ descriptors'[p] = Free
                  /\ \A r \in reserved' : \A i \in DOMAIN pages'[r] : pages'[r][i] # p
    <3>1. CASE freed(p) /\ descriptors'[p] = Free
      <4>1. ASSUME NEW r \in reserved', NEW i \in DOMAIN pages'[r]
            PROVE  pages'[r][i] # p
        <5>1. r \in SequenceIds \ {s}
          BY <1>1 DEF IInv, TypeOK
        <5>2. pages'[r] = pages[r] /\ i \in 1 .. Len(pages[r])
          BY <5>1, <1>4, <4>1, Slots
        <5> QED
          BY <3>1, <5>1, <5>2, <1>15
      <4> QED
        BY <3>1, <4>1
    <3>2. CASE descriptors'[p] = descriptors[p]
      BY <2>1, <3>2 DEF IsSealed
    <3>3. CASE descriptors'[p] = Sealed(descriptors[p].references - Cardinality(D(p)))
      BY <3>3, SealedFields
    <3> QED
      BY <3>1, <3>2, <3>3, <1>6
  <2> QED
    BY <2>1 DEF SealedStays
<1> QED
  BY <1>12, <1>13, <1>14, <1>16, <1>17, <1>18, <1>19 DEF IInv

-----------------------------------------------------------------------------
(* The invariant, and what it implies.                                     *)

\* Nothing is written while nothing is reserved.
LEMMA InitInv == Init => IInv
<1> SUFFICES ASSUME Init PROVE IInv
  OBVIOUS
<1>1. NumPages \in Nat \ {0} /\ PageSize \in Nat \ {0}
  BY PageManagerAssumption
<1>2. TypeOK
  <2>1. descriptors \in [Pages -> Descriptor]
    BY FreeFields DEF Init
  <2>2. free \in Seq(Pages)
    BY <1>1 DEF Init, Pages
  <2>3. pages \in [SequenceIds -> Seq(Pages)]
    BY EmptySeq DEF Init
  <2> QED
    BY <2>1, <2>2, <2>3 DEF Init, TypeOK
<1>3. FreeListExact
  <2>1. \A p \in Pages : descriptors[p].state = "Free" /\ \E i \in DOMAIN free : free[i] = p
    <3>1. ASSUME NEW p \in Pages
          PROVE  descriptors[p].state = "Free" /\ \E i \in DOMAIN free : free[i] = p
      <4>1. p + 1 \in 1 .. NumPages /\ (p + 1) - 1 = p
        BY <1>1 DEF Pages
      <4>2. DOMAIN free = 1 .. NumPages /\ \A i \in 1 .. NumPages : free[i] = i - 1
        BY DEF Init
      <4>3. descriptors[p] = Free
        BY DEF Init
      <4>4. PICK i \in 1 .. NumPages : i - 1 = p
        <5> USE <4>1
        <5> WITNESS p + 1 \in 1 .. NumPages
        <5> QED
          OBVIOUS
      <4>5. i \in DOMAIN free /\ free[i] = p
        BY <4>2, <4>4
      <4> QED
        BY <4>3, <4>5, FreeFields
    <3> QED
      BY <3>1
  <2> QED
    BY <2>1 DEF Init, FreeListExact
<1>4. Base(1) = 0 /\ \A s \in SequenceIds : pages[s] = << >> /\ Len(pages[s]) = 0 /\ Len(pages[s]) + 1 = 1
  BY BaseFacts DEF Init
<1>5. Fits
  BY <1>4 DEF Init, Fits
<1>6. SlotsRight
  BY <1>4 DEF SlotsRight
<1>7. Placed /\ Counted
  BY FreeFields DEF Init, Placed, Counted, IsSealed
<1> QED
  BY <1>2, <1>3, <1>5, <1>6, <1>7 DEF IInv

\* What a step keeps that touches nothing but the checkpoint.
LEMMA Unchanged ==
  ASSUME IInv, TypeOK', UNCHANGED <<descriptors, free, reserved, pages, committed, tentative>>
  PROVE  IInv' /\ SealedStays
<1>1. FreeListExact' /\ Fits' /\ Placed'
  BY DEF IInv, FreeListExact, Fits, Placed, Base
<1>2. \A p \in Pages : (References(p))' = References(p)
  BY DEF References
<1>3. Counted'
  BY <1>2 DEF IInv, Counted, IsSealed
<1>4. SlotsRight'
  BY DEF IInv, SlotsRight, SlotRight, IsPrivateOf, IsSealed
<1>5. SealedStays
  BY DEF SealedStays, IsSealed
<1> QED
  BY <1>1, <1>3, <1>4, <1>5 DEF IInv

\* No call leaves the invariant, or changes a sealed page.
LEMMA NextInv == IInv /\ [Next]_vars => IInv' /\ SealedStays
<1> SUFFICES ASSUME IInv, [Next]_vars PROVE IInv' /\ SealedStays
  OBVIOUS
<1>1. ASSUME NEW s \in SequenceIds, NEW n \in 0 .. NumPages, Reserve(s, n)
      PROVE  IInv' /\ SealedStays
  BY <1>1, ReserveStep, PageManagerAssumption
<1>2. ASSUME NEW s \in SequenceIds, NEW n \in 1 .. MaxTokens, AppendTentative(s, n)
      PROVE  IInv' /\ SealedStays
  BY <1>2, AppendStep, PageManagerAssumption
<1>3. ASSUME NEW s \in SequenceIds, NEW n \in 1 .. MaxTokens, Commit(s, n)
      PROVE  IInv' /\ SealedStays
  BY <1>3, CommitStep, PageManagerAssumption
<1>4. ASSUME NEW s \in SequenceIds, TakeCheckpoint(s)
      PROVE  IInv' /\ SealedStays
  <2>1. checkpoint' \in Checkpoint
    BY <1>4, Slots DEF TakeCheckpoint, Checkpoint
  <2>2. UNCHANGED <<descriptors, free, reserved, pages, committed, tentative>>
    BY <1>4 DEF TakeCheckpoint
  <2>3. TypeOK'
    BY <2>1, <2>2 DEF IInv, TypeOK
  <2> QED
    BY <2>2, <2>3, Unchanged
<1>5. ASSUME Rollback
      PROVE  IInv' /\ SealedStays
  <2>1. checkpoint \in Checkpoint
    BY <1>5 DEF Rollback, IInv, TypeOK, NoCheckpoint
  <2>2. /\ checkpoint.sequence \in SequenceIds
        /\ checkpoint.tentative \in Nat /\ checkpoint.committed \in Nat
    BY <2>1 DEF Checkpoint
  <2> QED
    BY <1>5, <2>2, ShrinkStep DEF Rollback
<1>6. ASSUME NEW s \in SequenceIds, NEW n \in 0 .. NumPages * PageSize, Truncate(s, n)
      PROVE  IInv' /\ SealedStays
  <2>1. n \in Nat
    OBVIOUS
  <2> QED
    BY <1>6, <2>1, ShrinkStep DEF Truncate
<1>7. ASSUME NEW s \in SequenceIds, SealCompletePages(s)
      PROVE  IInv' /\ SealedStays
  BY <1>7, SealStep
<1>8. ASSUME NEW s \in SequenceIds, NEW p \in Pages, ShareSealed(s, p)
      PROVE  IInv' /\ SealedStays
  BY <1>8, ShareStep
<1>9. ASSUME NEW s \in SequenceIds, Release(s)
      PROVE  IInv' /\ SealedStays
  BY <1>9, ReleaseStep
<1>10. ASSUME UNCHANGED vars
       PROVE  IInv' /\ SealedStays
  <2>1. UNCHANGED <<descriptors, free, reserved, pages, committed, tentative>> /\ checkpoint' = checkpoint
    BY <1>10 DEF vars
  <2>2. TypeOK'
    BY <2>1 DEF IInv, TypeOK
  <2> QED
    BY <2>1, <2>2, Unchanged
<1> QED
  BY <1>1, <1>2, <1>3, <1>4, <1>5, <1>6, <1>7, <1>8, <1>9, <1>10 DEF Next

\* The invariant holds in every state that the manager reaches.
LEMMA Invariant == Spec => []IInv
<1>1. Init => IInv
  BY InitInv
<1>2. IInv /\ [Next]_vars => IInv'
  BY NextInv
<1> QED
  BY <1>1, <1>2, PTL DEF Spec

\* The free queue lists exactly the free pages, each once: no page is lost, freed twice
\* or handed out while somebody holds it.  A private page is referred to once, by its
\* owner; a sealed page counts its references; nobody refers to a free page.
THEOREM PagesAreExact == Spec => []PagesExact
<1>1. IInv => OwnershipExact
  <2> SUFFICES ASSUME IInv PROVE OwnershipExact
    OBVIOUS
  <2>1. ASSUME NEW p \in Pages, descriptors[p].state = "Private"
        PROVE  \E i \in DOMAIN pages[descriptors[p].owner] :
                 References(p) = {<<descriptors[p].owner, i>>}
    <3> DEFINE o == descriptors[p].owner
    <3>1. o \in SequenceIds
      BY <2>1, DescriptorFields DEF IInv, TypeOK
    <3>2. PICK i \in 1 .. Len(pages[o]) : pages[o][i] = p
      BY <2>1 DEF IInv, Placed
    <3>3. References(p) = {<<o, i>>}
      BY <2>1, <3>1, <3>2, PrivateReferences DEF IsPrivateOf
    <3> QED
      BY <3>1, <3>2, <3>3, Slots
  <2>2. ASSUME NEW p \in Pages, descriptors[p].state = "Free"
        PROVE  References(p) = {}
    <3>1. \A s \in SequenceIds : \A i \in 1 .. Len(pages[s]) : pages[s][i] # p
      BY <2>2, Slots DEF SlotRight, IsPrivateOf, IsSealed
    <3> QED
      BY <3>1, ReferenceFacts
  <2>3. \A p \in Pages : IsSealed(p) => descriptors[p].references = Cardinality(References(p))
    BY DEF IInv, Counted
  <2>4. \A s \in SequenceIds : pages[s] # << >> => s \in reserved
    BY DEF IInv, Fits
  <2> QED
    BY <2>1, <2>2, <2>3, <2>4 DEF OwnershipExact
<1>2. IInv => PagesExact
  BY <1>1 DEF IInv, PagesExact
<1> QED
  BY <1>2, Invariant, PTL

\* A sealed page lies wholly below the committed length of every table it is in.
THEOREM SealedIsCommitted == Spec => []SealedBelowCommitted
<1>1. IInv => SealedBelowCommitted
  <2> SUFFICES ASSUME IInv, NEW s \in reserved, NEW i \in DOMAIN pages[s], IsSealed(pages[s][i])
               PROVE  InPage(committed[s], i) = PageSize
    BY DEF SealedBelowCommitted
  <2>1. s \in SequenceIds
    BY DEF IInv, TypeOK
  <2> QED
    BY <2>1, Slots DEF SlotRight
<1> QED
  BY <1>1, Invariant, PTL

\* A sealed page stays sealed until its last reference is released, and then it is free.
THEOREM SealedIsImmutable == Spec => SealedUntilReleased
<1>1. IInv /\ [Next]_vars => SealedStays
  BY NextInv
<1>2. SealedStays =>
        [\A p \in Pages :
           IsSealed(p) =>
             \/ descriptors'[p].state = "Sealed"
             \/ /\ descriptors'[p] = Free
                /\ \A s \in reserved' : \A i \in DOMAIN pages'[s] : pages'[s][i] # p]_vars
  BY DEF SealedStays
<1> QED
  BY <1>1, <1>2, Invariant, PTL DEF Spec, SealedUntilReleased

\* Every token up to the end of a table can be appended: an admitted request meets no
\* allocation failure later.
THEOREM ReservationIsHonoured == Spec => []ReservationHonoured
<1>1. IInv => ReservationHonoured
  <2> SUFFICES ASSUME IInv, NEW s \in reserved PROVE
          /\ committed[s] <= tentative[s]
          /\ tentative[s] <= Len(pages[s]) * PageSize
          /\ \A n \in tentative[s] .. Len(pages[s]) * PageSize - 1 : Appendable(s, n)
    BY DEF ReservationHonoured
  <2>1. s \in SequenceIds
    BY DEF IInv, TypeOK
  <2>2. Base(Len(pages[s]) + 1) = Len(pages[s]) * PageSize
    <3>1. Len(pages[s]) + 1 - 1 = Len(pages[s])
      BY <2>1, Lengths
    <3> QED
      BY <3>1 DEF Base
  <2>3. ASSUME NEW n \in tentative[s] .. Base(Len(pages[s]) + 1) - 1
        PROVE  Appendable(s, n)
    <3> DEFINE i == SlotOf(n)
    <3>1. n \in Nat /\ tentative[s] <= n /\ n < Base(Len(pages[s]) + 1)
      BY <2>1, Lengths
    <3>2. i \in Nat \ {0} /\ Base(i) <= n /\ n < Base(i) + PageSize /\ Base(i) \in Nat
      BY <3>1, SlotFacts, BaseFacts
    <3> HIDE DEF i
    <3>3. i \in 1 .. Len(pages[s])
      <4>1. Len(pages[s]) + 1 \in Nat \ {0}
        BY <2>1, Lengths
      <4>2. Len(pages[s]) + 1 <= i => Base(Len(pages[s]) + 1) <= Base(i)
        BY <3>2, <4>1, BaseMonotonic
      <4> QED
        BY <2>1, <3>1, <3>2, <4>2, Lengths
    <3>4. ASSUME NEW m \in Nat, m < Base(i) + PageSize
          PROVE  InPage(m, i) < PageSize
      <4>1. m <= Base(i) => InPage(m, i) = 0
        BY <3>2, InPageFacts
      <4>2. Base(i) < m => InPage(m, i) = m - Base(i)
        BY <3>2, <3>4, InPageFacts
      <4> QED
        BY <2>1, <3>2, <3>4, <4>1, <4>2, Lengths
    <3>5. InPage(tentative[s], i) < PageSize /\ InPage(committed[s], i) < PageSize
      <4>1. tentative[s] < Base(i) + PageSize /\ committed[s] < Base(i) + PageSize
        BY <2>1, <3>1, <3>2, Lengths
      <4> QED
        BY <2>1, <3>4, <4>1, Lengths
    <3>6. InPage(committed[s], i) # PageSize
      BY <2>1, <3>2, <3>5, Lengths, InPageFacts
    <3>7. IsPrivateOf(pages[s][i], s) /\ descriptors[pages[s][i]].tentative = InPage(tentative[s], i)
      BY <2>1, <3>3, <3>5, <3>6, Slots DEF SlotRight
    <3> QED
      BY <2>1, <3>3, <3>7, Lengths DEF Appendable, i
  <2> QED
    BY <2>1, <2>2, <2>3, Lengths
<1> QED
  BY <1>1, Invariant, PTL

-----------------------------------------------------------------------------
(* The page manager implements the ledger.                                 *)

\* The capacity of a table is what the positions call the base behind it.
LEMMA Capacity ==
  ASSUME IInv, NEW s \in SequenceIds
  PROVE  Base(Len(pages[s]) + 1) = Len(pages[s]) * PageSize
<1>1. Len(pages[s]) + 1 - 1 = Len(pages[s])
  BY Lengths
<1> QED
  BY <1>1 DEF Base

\* When nobody holds a reservation every page is in the free queue.
LEMMA AllFree ==
  ASSUME IInv, reserved = {}
  PROVE  Len(free) = NumPages
<1>1. \A s \in SequenceIds : pages[s] = << >> /\ Len(pages[s]) = 0
  BY DEF IInv, Fits
<1>2. ASSUME NEW p \in Pages
      PROVE  descriptors[p].state = "Free"
  <2>1. descriptors[p].state # "Private"
    <3>1. SUFFICES ASSUME descriptors[p].state = "Private" PROVE FALSE
      OBVIOUS
    <3>2. descriptors[p].owner \in SequenceIds
      BY <3>1, DescriptorFields DEF IInv, TypeOK
    <3>3. \E i \in 1 .. Len(pages[descriptors[p].owner]) : TRUE
      BY <3>1 DEF IInv, Placed
    <3> QED
      BY <3>2, <3>3, <1>1
  <2>2. ~IsSealed(p)
    <3>1. References(p) = {}
      BY <1>1, ReferenceFacts
    <3>2. IsSealed(p) => descriptors[p].references = 0
      BY <3>1, FS_EmptySet DEF IInv, Counted
    <3> QED
      BY <3>2, DescriptorFields DEF IInv, TypeOK, IsSealed
  <2> QED
    BY <2>1, <2>2, DescriptorFields DEF IInv, TypeOK, IsSealed
<1>3. Len(free) \in Nat /\ DOMAIN free = 1 .. Len(free) /\ free \in [1 .. Len(free) -> Pages]
  BY LenProperties DEF IInv, TypeOK
<1>4. free \in Injection(1 .. Len(free), Pages) /\ free \in Surjection(1 .. Len(free), Pages)
  <2>1. \A i, j \in 1 .. Len(free) : free[i] = free[j] => i = j
    BY <1>3 DEF IInv, FreeListExact
  <2>2. \A p \in Pages : \E i \in 1 .. Len(free) : free[i] = p
    BY <1>2, <1>3 DEF IInv, FreeListExact
  <2> QED
    BY <1>3, <2>1, <2>2 DEF Injection, IsInjective, Surjection
<1>5. NumPages \in Nat \ {0} /\ NumPages - 1 \in Int
  BY PageManagerAssumption
<1>6. IsFiniteSet(Pages) /\ Cardinality(Pages) = NumPages
  <2>1. IsFiniteSet(0 .. NumPages - 1)
        /\ Cardinality(0 .. NumPages - 1) = IF 0 > NumPages - 1 THEN 0 ELSE NumPages - 1 - 0 + 1
    BY <1>5, FS_Interval
  <2> QED
    BY <1>5, <2>1 DEF Pages
<1>7. Cardinality(1 .. Len(free)) = Len(free)
  <2>1. Cardinality(1 .. Len(free)) = IF 1 > Len(free) THEN 0 ELSE Len(free) - 1 + 1
    BY <1>3, FS_Interval
  <2> QED
    BY <1>3, <2>1
<1> QED
  BY <1>4, <1>6, <1>7, FS_Injection

\* A sealed page is somebody's committed token page.
LEMMA SealedHeld ==
  ASSUME IInv, NEW p \in Pages, IsSealed(p)
  PROVE  \E r \in reserved : committed[r] >= PageSize
<1>1. References(p) # {}
  BY FS_EmptySet, DescriptorFields DEF IInv, Counted, TypeOK, IsSealed
<1>2. PICK r \in SequenceIds : \E i \in 1 .. Len(pages[r]) : pages[r][i] = p
  BY <1>1, ReferenceFacts
<1>3. PICK i \in 1 .. Len(pages[r]) : pages[r][i] = p
  BY <1>2
<1>4. InPage(committed[r], i) = PageSize /\ i \in Nat \ {0}
  BY <1>3, Slots DEF SlotRight
<1>5. Base(i) \in Nat
  BY <1>4, BaseFacts
<1>6. committed[r] >= Base(i) + PageSize
  <2>1. committed[r] <= Base(i) => InPage(committed[r], i) = 0
    BY <1>4, Lengths, InPageFacts
  <2>2. Base(i) < committed[r] /\ committed[r] < Base(i) + PageSize
          => InPage(committed[r], i) = committed[r] - Base(i)
    BY <1>4, Lengths, InPageFacts
  <2> QED
    BY <1>4, <1>5, <2>1, <2>2, Lengths
<1>7. r \in reserved
  <2>1. pages[r] # << >>
    BY <1>3, Lengths
  <2> QED
    BY <2>1 DEF IInv, Fits
<1> QED
  BY <1>5, <1>6, <1>7, Lengths

\* A step of the ledger, and a step that the ledger does not see.
LedgerStep == Ledger!Next \/ UNCHANGED Ledger!vars

\* What the ledger sees of a table.
LEMMA LedgerCapacity ==
  ASSUME IInv, NEW s \in SequenceIds, NEW q \in Seq(Pages), pages' = [pages EXCEPT ![s] = q]
  PROVE  [r \in SequenceIds |-> Len(pages'[r]) * PageSize]
           = [[r \in SequenceIds |-> Len(pages[r]) * PageSize] EXCEPT ![s] = Len(q) * PageSize]
  BY DEF IInv, TypeOK

\* reserve takes a grant of the ledger.
LEMMA LedgerReserve ==
  ASSUME IInv, NEW s \in SequenceIds, NEW n \in 0 .. NumPages, Reserve(s, n)
  PROVE  Ledger!Grant(s, n)
<1>1. free \in Seq(Pages) /\ Len(free) \in Nat /\ \A i \in 1 .. Len(free) : free[i] \in Pages
  BY LenProperties, ElementOfSeq DEF IInv, TypeOK
<1>2. /\ s \notin reserved /\ n <= Len(free) /\ n \in Nat
      /\ reserved' = reserved \cup {s}
      /\ pages' = [pages EXCEPT ![s] = SubSeq(free, 1, n)]
      /\ free' = SubSeq(free, n + 1, Len(free))
      /\ UNCHANGED <<committed, tentative>>
  BY DEF Reserve
<1>3. SubSeq(free, 1, n) \in Seq(Pages) /\ Len(SubSeq(free, 1, n)) = n - 1 + 1
  BY <1>1, <1>2, SubSeqFacts
<1>4. Len(free') = Len(free) - (n + 1) + 1
  BY <1>1, <1>2, SubSeqFacts
<1>5. n - 1 + 1 = n /\ Len(free) - (n + 1) + 1 = Len(free) - n
  BY <1>1, <1>2
<1>6. [r \in SequenceIds |-> Len(pages'[r]) * PageSize]
        = [[r \in SequenceIds |-> Len(pages[r]) * PageSize] EXCEPT ![s] = n * PageSize]
  BY <1>2, <1>3, <1>5, LedgerCapacity
<1> QED
  BY <1>2, <1>4, <1>5, <1>6 DEF Ledger!Grant

\* append_tentative extends a length within the ledger's grant.
LEMMA LedgerAppend ==
  ASSUME IInv, NEW s \in SequenceIds, NEW n \in Nat, AppendTentative(s, n)
  PROVE  Ledger!Extend(s)
<1>1. IInv'
  BY AppendStep
<1>2. PICK granted \in 0 .. n : tentative' = [tentative EXCEPT ![s] = tentative[s] + granted]
  BY DEF AppendTentative
<1>3. s \in reserved /\ UNCHANGED <<free, reserved, pages, committed>>
  BY DEF AppendTentative
<1>4. tentative'[s] = tentative[s] + granted
  BY <1>2, Lengths DEF IInv, TypeOK
<1>5. tentative'[s] <= Len(pages[s]) * PageSize
  <2>1. tentative'[s] <= (Base(Len(pages[s]) + 1))'
    BY <1>1 DEF IInv, Fits
  <2>2. (Base(Len(pages[s]) + 1))' = Base(Len(pages[s]) + 1)
    BY <1>3 DEF Base
  <2> QED
    BY <2>1, <2>2, Capacity
<1>6. tentative[s] + granted \in tentative[s] .. Len(pages[s]) * PageSize
  <2>1. Len(pages[s]) * PageSize \in Nat
    BY Lengths, Capacity
  <2> QED
    BY <2>1, <1>4, <1>5, Lengths
<1> QED
  BY <1>2, <1>3, <1>6 DEF Ledger!Extend

\* commit moves the committed length up, or leaves the ledger as it is.
LEMMA LedgerCommit ==
  ASSUME IInv, NEW s \in SequenceIds, NEW n \in Nat, Commit(s, n)
  PROVE  LedgerStep
<1>1. PICK done \in 0 .. n :
        committed' = [committed EXCEPT ![s] = IF done = n THEN committed[s] + done ELSE @]
  BY DEF Commit
<1>2. /\ s \in reserved /\ committed[s] + n <= tentative[s]
      /\ UNCHANGED <<free, reserved, pages, tentative>>
  BY DEF Commit
<1>3. CASE done = n
  <2>1. committed[s] + n \in committed[s] .. tentative[s]
    BY <1>2, Lengths
  <2>2. Ledger!Publish(s)
    BY <1>1, <1>2, <1>3, <2>1 DEF Ledger!Publish
  <2> QED
    BY <2>2 DEF LedgerStep, Ledger!Next
<1>4. CASE done # n
  <2>1. committed' = committed
    BY <1>1, <1>4, Lengths DEF IInv, TypeOK
  <2> QED
    BY <1>2, <2>1 DEF LedgerStep, Ledger!vars
<1> QED
  BY <1>3, <1>4

\* rollback takes the tentative length back, in the ledger too.
LEMMA LedgerRollback ==
  ASSUME IInv, Rollback
  PROVE  LedgerStep
<1> DEFINE s == checkpoint.sequence
           t == checkpoint.tentative
<1>1. /\ s \in reserved /\ committed[s] = checkpoint.committed /\ t <= tentative[s]
      /\ ShrinkPrivateTail(s, t, committed[s])
  BY DEF Rollback, CheckpointIsCurrent
<1>2. s \in SequenceIds /\ t \in Nat
  <2>1. checkpoint \in Checkpoint
    BY DEF Rollback, IInv, TypeOK, NoCheckpoint
  <2> QED
    BY <2>1 DEF Checkpoint
<1> HIDE DEF s, t
<1>3. UNCHANGED <<free, reserved, pages>> /\ committed[s] <= t
  BY <1>1 DEF ShrinkPrivateTail
<1>4. \/ committed' = [committed EXCEPT ![s] = committed[s]] /\ tentative' = [tentative EXCEPT ![s] = t]
      \/ UNCHANGED <<committed, tentative>>
  BY <1>1 DEF ShrinkPrivateTail
<1>5. CASE committed' = [committed EXCEPT ![s] = committed[s]] /\ tentative' = [tentative EXCEPT ![s] = t]
  <2>1. committed' = committed
    BY <1>2, <1>5, Lengths
  <2>2. t \in committed[s] .. tentative[s]
    BY <1>1, <1>2, <1>3, Lengths
  <2>3. Ledger!Retract(s)
    BY <1>1, <1>3, <1>5, <2>1, <2>2 DEF Ledger!Retract
  <2> QED
    BY <1>2, <2>3 DEF LedgerStep, Ledger!Next
<1>6. CASE UNCHANGED <<committed, tentative>>
  BY <1>3, <1>6 DEF LedgerStep, Ledger!vars
<1> QED
  BY <1>4, <1>5, <1>6

\* truncate cuts both lengths of the ledger.
LEMMA LedgerTruncate ==
  ASSUME IInv, NEW s \in SequenceIds, NEW n \in Nat, Truncate(s, n)
  PROVE  LedgerStep
<1>1. s \in reserved /\ n <= committed[s] /\ ShrinkPrivateTail(s, n, n)
  BY DEF Truncate
<1>2. UNCHANGED <<free, reserved, pages>>
  BY <1>1 DEF ShrinkPrivateTail
<1>3. \/ committed' = [committed EXCEPT ![s] = n] /\ tentative' = [tentative EXCEPT ![s] = n]
      \/ UNCHANGED <<committed, tentative>>
  BY <1>1 DEF ShrinkPrivateTail
<1>4. CASE committed' = [committed EXCEPT ![s] = n] /\ tentative' = [tentative EXCEPT ![s] = n]
  <2>1. n \in 0 .. committed[s]
    BY <1>1, Lengths
  <2>2. Ledger!TruncateTo(s)
    BY <1>1, <1>2, <1>4, <2>1 DEF Ledger!TruncateTo
  <2> QED
    BY <2>2 DEF LedgerStep, Ledger!Next
<1>5. CASE UNCHANGED <<committed, tentative>>
  BY <1>2, <1>5 DEF LedgerStep, Ledger!vars
<1> QED
  BY <1>3, <1>4, <1>5

\* share_sealed adds a page to a sequence's grant without taking a free one.
LEMMA LedgerShare ==
  ASSUME IInv, NEW s \in SequenceIds, NEW p \in Pages, ShareSealed(s, p)
  PROVE  Ledger!Adopt(s)
<1> DEFINE table == InsertAt(pages[s], SlotOf(committed[s]), p)
<1>1. /\ s \in reserved /\ tentative[s] = committed[s] /\ committed[s] % PageSize = 0 /\ IsSealed(p)
      /\ pages' = [pages EXCEPT ![s] = table]
      /\ committed' = [committed EXCEPT ![s] = committed[s] + PageSize]
      /\ tentative' = [tentative EXCEPT ![s] = committed[s] + PageSize]
      /\ UNCHANGED <<free, reserved>>
  BY DEF ShareSealed
<1>2. \E r \in reserved : committed[r] >= PageSize
  BY <1>1, SealedHeld
<1>3. table \in Seq(Pages) /\ Len(table) = Len(pages[s]) + 1
  BY ShareTable
<1> HIDE DEF table
<1>4. (Len(pages[s]) + 1) * PageSize = Len(pages[s]) * PageSize + PageSize
  BY Lengths, Multiples
<1>5. [r \in SequenceIds |-> Len(pages'[r]) * PageSize]
        = [[r \in SequenceIds |-> Len(pages[r]) * PageSize]
             EXCEPT ![s] = Len(pages[s]) * PageSize + PageSize]
  BY <1>1, <1>3, <1>4, LedgerCapacity
<1>6. [r \in SequenceIds |-> Len(pages[r]) * PageSize][s] = Len(pages[s]) * PageSize
  OBVIOUS
<1>7. /\ committed' = [committed EXCEPT ![s] = @ + PageSize]
      /\ tentative' = [tentative EXCEPT ![s] = @ + PageSize]
  BY <1>1 DEF IInv, TypeOK
<1> QED
  BY <1>1, <1>2, <1>5, <1>6, <1>7 DEF Ledger!Adopt

\* release returns the grant, less what others still share.
LEMMA LedgerRelease ==
  ASSUME IInv, NEW s \in SequenceIds, Release(s)
  PROVE  Ledger!Return(s)
<1> DEFINE n == Cardinality(FreedAt(s))
<1>1. /\ s \in reserved
      /\ reserved' = reserved \ {s}
      /\ pages' = [pages EXCEPT ![s] = << >>]
      /\ committed' = [committed EXCEPT ![s] = 0]
      /\ tentative' = [tentative EXCEPT ![s] = 0]
  BY DEF Release
<1>2. Len(free') = Len(free) + n /\ n \in 0 .. Len(pages[s]) /\ Len(free) \in Nat
  BY ReturnedPages
<1> HIDE DEF n
<1>3. IInv'
  BY ReleaseStep
<1>4. reserved' = {} => Len(free') = NumPages
  <2>1. ASSUME reserved' = {} PROVE Len(free') = NumPages
    <3>1. (reserved = {} => Len(free) = NumPages)'
      BY <1>3, AllFree, PTL
    <3> QED
      BY <2>1, <3>1
  <2> QED
    BY <2>1
<1>5. (Len(pages[s]) * PageSize) \div PageSize = Len(pages[s])
  BY Lengths, Quotient
<1>6. [r \in SequenceIds |-> Len(pages[r]) * PageSize][s] = Len(pages[s]) * PageSize
  OBVIOUS
<1>7. Len(free') \in Len(free) .. Len(free) + Len(pages[s])
  BY <1>2, Lengths
<1>8. [r \in SequenceIds |-> Len(pages'[r]) * PageSize]
        = [[r \in SequenceIds |-> Len(pages[r]) * PageSize] EXCEPT ![s] = 0]
  <2> DEFINE empty == << >>
  <2>1. empty \in Seq(Pages) /\ Len(empty) * PageSize = 0
    BY EmptySeq, PageManagerAssumption
  <2>2. pages' = [pages EXCEPT ![s] = empty]
    BY <1>1
  <2> HIDE DEF empty
  <2>3. [r \in SequenceIds |-> Len(pages'[r]) * PageSize]
          = [[r \in SequenceIds |-> Len(pages[r]) * PageSize] EXCEPT ![s] = Len(empty) * PageSize]
    BY <2>1, <2>2, LedgerCapacity
  <2> QED
    BY <2>1, <2>3
<1> QED
  BY <1>1, <1>4, <1>5, <1>6, <1>7, <1>8 DEF Ledger!Return

\* The manager starts where the ledger starts.
LEMMA LedgerInit == Init => Ledger!Init
<1> SUFFICES ASSUME Init PROVE Ledger!Init
  OBVIOUS
<1>1. NumPages \in Nat \ {0} /\ PageSize \in Nat \ {0} /\ 0 * PageSize = 0
  BY PageManagerAssumption
<1>2. \A s \in SequenceIds : Len(pages[s]) = 0
  BY DEF Init
<1>3. [s \in SequenceIds |-> Len(pages[s]) * PageSize] = [s \in SequenceIds |-> 0]
  BY <1>1, <1>2
<1>4. Len(free) = NumPages
  BY <1>1 DEF Init
<1> QED
  BY <1>3, <1>4 DEF Init, Ledger!Init

\* Every step of the manager is a step of the ledger or leaves it as it is.
LEMMA LedgerNext == IInv /\ [Next]_vars => [Ledger!Next]_(Ledger!vars)
<1> SUFFICES ASSUME IInv, [Next]_vars PROVE LedgerStep
  BY DEF LedgerStep
<1>1. ASSUME NEW s \in SequenceIds, NEW n \in 0 .. NumPages, Reserve(s, n)
      PROVE  LedgerStep
  BY <1>1, LedgerReserve DEF LedgerStep, Ledger!Next
<1>2. ASSUME NEW s \in SequenceIds, NEW n \in 1 .. MaxTokens, AppendTentative(s, n)
      PROVE  LedgerStep
  BY <1>2, LedgerAppend, PageManagerAssumption DEF LedgerStep, Ledger!Next
<1>3. ASSUME NEW s \in SequenceIds, NEW n \in 1 .. MaxTokens, Commit(s, n)
      PROVE  LedgerStep
  BY <1>3, LedgerCommit, PageManagerAssumption
<1>4. ASSUME NEW s \in SequenceIds, TakeCheckpoint(s)
      PROVE  LedgerStep
  BY <1>4 DEF TakeCheckpoint, LedgerStep, Ledger!vars
<1>5. ASSUME Rollback
      PROVE  LedgerStep
  BY <1>5, LedgerRollback
<1>6. ASSUME NEW s \in SequenceIds, NEW n \in 0 .. NumPages * PageSize, Truncate(s, n)
      PROVE  LedgerStep
  <2>1. n \in Nat
    OBVIOUS
  <2> QED
    BY <1>6, <2>1, LedgerTruncate
<1>7. ASSUME NEW s \in SequenceIds, SealCompletePages(s)
      PROVE  LedgerStep
  BY <1>7 DEF SealCompletePages, LedgerStep, Ledger!vars
<1>8. ASSUME NEW s \in SequenceIds, NEW p \in Pages, ShareSealed(s, p)
      PROVE  LedgerStep
  BY <1>8, LedgerShare DEF LedgerStep, Ledger!Next
<1>9. ASSUME NEW s \in SequenceIds, Release(s)
      PROVE  LedgerStep
  BY <1>9, LedgerRelease DEF LedgerStep, Ledger!Next
<1>10. ASSUME UNCHANGED vars
       PROVE  LedgerStep
  BY <1>10 DEF vars, LedgerStep, Ledger!vars
<1> QED
  BY <1>1, <1>2, <1>3, <1>4, <1>5, <1>6, <1>7, <1>8, <1>9, <1>10 DEF Next

\* What the engine relies on, for any number of pages and sequences: a grant is all or
\* nothing, lengths stay within it, rollback takes back only what was never committed,
\* sharing allocates nothing, and the last release leaves every page unclaimed.
THEOREM LedgerIsImplemented == Spec => ImplementsLedger
<1>1. Init => Ledger!Init
  BY LedgerInit
<1>2. IInv /\ [Next]_vars => [Ledger!Next]_(Ledger!vars)
  BY LedgerNext
<1> QED
  BY <1>1, <1>2, Invariant, PTL DEF Spec, ImplementsLedger, Ledger!Spec
=============================================================================

-------------------------- MODULE PagingMetaProofs --------------------------
(***************************************************************************)
(* What the operators of PageList do to the pages of a queue, and those of *)
(* PagingState to the metadata and the page table of one process: what     *)
(* they preserve and what they return; what a step leaves of the invariant *)
(* for the processes it does not touch; and, from these facts, that the    *)
(* steps in which a process works on its child preserve Inv.               *)
(***************************************************************************)
EXTENDS PagingFork, PagingUnmap, WellFoundedInduction, TLAPS

\* A non-empty set of naturals has a least element.
LEMMA LeastElement ==
  ASSUME NEW R, R \subseteq Nat, R # {}
  PROVE  \E j \in R : \A k \in R : j <= k
<1> DEFINE L == OpToRel(<, Nat)
<1>1. IsWellFoundedOn(L, Nat)
  BY NatLessThanWellFounded, Zenon
<1>2. \A a, b \in Nat : a < b => <<a, b>> \in L
  BY Zenon DEF OpToRel
<1> HIDE DEF L
<1>3. PICK j \in R : \A k \in R : ~(<<k, j>> \in L)
  BY <1>1, WFMin, Zenon
<1>4. \A k \in R : j <= k
  <2> TAKE k \in R
  <2>1. ~(k < j)
    BY <1>2, <1>3, Zenon
  <2> QED  BY <2>1
<1> QED
  BY <1>4, Zenon

\* A function on 1 .. n is a sequence of length n.
LEMMA SeqOfFunction ==
  ASSUME NEW S, NEW n \in Nat, NEW f \in [1 .. n -> S]
  PROVE  f \in Seq(S) /\ Len(f) = n
OBVIOUS

\* in() adds its page at the tail and nothing else.
LEMMA PageInFacts ==
  ASSUME NEW S, NEW s \in Seq(S), NEW page \in S, NoDuplicates(s), page \notin Elems(s)
  PROVE  /\ PageIn(s, page) \in Seq(S)
         /\ Len(PageIn(s, page)) = Len(s) + 1
         /\ Elems(PageIn(s, page)) = Elems(s) \cup {page}
         /\ NoDuplicates(PageIn(s, page))
<1> DEFINE t == Append(s, page)
<1>1. t \in Seq(S) /\ Len(t) = Len(s) + 1
  OBVIOUS
<1>2. /\ \A j \in 1 .. Len(s) : t[j] = s[j]
      /\ t[Len(s) + 1] = page
  OBVIOUS
<1>3. Elems(t) = Elems(s) \cup {page}
  BY <1>1, <1>2, Len(s) \in Nat DEF Elems
<1>4. NoDuplicates(t)
  BY <1>1, <1>2, Len(s) \in Nat DEF NoDuplicates, Elems
<1> QED
  BY <1>1, <1>3, <1>4, Zenon DEF PageIn

\* PosOf() is a position of the page.
LEMMA PosOfFact ==
  ASSUME NEW S, NEW s \in Seq(S), NEW page \in Elems(s)
  PROVE  PosOf(s, page) \in 1 .. Len(s) /\ s[PosOf(s, page)] = page
BY Zenon DEF PosOf, Elems

\* removePage() takes out its page and no other, though it changes their order.
LEMMA PageRemovedFacts ==
  ASSUME NEW S, NEW s \in Seq(S), NEW page, NoDuplicates(s)
  PROVE  /\ PageRemoved(s, page) \in Seq(S)
         /\ Len(PageRemoved(s, page)) =
              IF page \in Elems(s) THEN Len(s) - 1 ELSE Len(s)
         /\ Elems(PageRemoved(s, page)) = Elems(s) \ {page}
         /\ NoDuplicates(PageRemoved(s, page))
<1>1. CASE page \notin Elems(s)
  BY <1>1, Zenon DEF PageRemoved
<1>2. CASE page \in Elems(s)
  <2> DEFINE n == Len(s)
             k == PosOf(s, page)
             t == PageRemoved(s, page)
             \* Where the page at position j of t comes from.
             src(j) == IF k = n THEN j
                       ELSE IF j = 1 THEN n
                       ELSE IF j <= k THEN j - 1 ELSE j
  <2>1. n \in Nat /\ k \in 1 .. n /\ s[k] = page
    BY <1>2, PosOfFact
  <2>2. t = [j \in 1 .. n - 1 |-> s[src(j)]]
    BY <1>2, <2>1, Zenon DEF PageRemoved
  <2>3. \A j \in 1 .. n - 1 : src(j) \in 1 .. n /\ src(j) # k
    BY <2>1
  <2>4. \A j, l \in 1 .. n - 1 : src(j) = src(l) => j = l
    BY <2>1
  <2>5. \A m \in (1 .. n) \ {k} : \E j \in 1 .. n - 1 : src(j) = m
    <3> TAKE m \in (1 .. n) \ {k}
    <3>1. CASE k = n
      BY <3>1, <2>1
    <3>2. CASE k # n /\ m = n
      <4>1. 1 \in 1 .. n - 1 /\ src(1) = m
        BY <3>2, <2>1
      <4> QED  BY <4>1, Zenon
    <3>3. CASE k # n /\ m < k
      <4>1. m + 1 \in 1 .. n - 1 /\ src(m + 1) = m
        BY <3>3, <2>1
      <4> QED  BY <4>1, Zenon
    <3>4. CASE k # n /\ m > k /\ m # n
      <4>1. m \in 1 .. n - 1 /\ src(m) = m
        BY <3>4, <2>1
      <4> QED  BY <4>1, Zenon
    <3> QED  BY <3>1, <3>2, <3>3, <3>4, <2>1
  <2> HIDE DEF src, t
  <2>6. t \in Seq(S) /\ Len(t) = n - 1
    <3>1. \A j \in 1 .. n - 1 : s[src(j)] \in S
      BY <2>3
    <3>2. t \in [1 .. n - 1 -> S] /\ n - 1 \in Nat
      BY <2>1, <2>2, <3>1
    <3> QED  BY <3>2, SeqOfFunction, Zenon
  <2>7. \A j \in 1 .. n - 1 : t[j] = s[src(j)]
    BY <2>2, Zenon
  <2>8. NoDuplicates(t)
    BY <2>3, <2>4, <2>6, <2>7 DEF NoDuplicates
  <2>9. Elems(t) = Elems(s) \ {page}
    <3>1. \A x \in Elems(t) : x \in Elems(s) /\ x # page
      BY <2>1, <2>3, <2>6, <2>7 DEF Elems, NoDuplicates
    <3>2. \A x \in Elems(s) \ {page} : x \in Elems(t)
      <4> TAKE x \in Elems(s) \ {page}
      <4>1. PICK m \in 1 .. n : s[m] = x
        BY Zenon DEF Elems
      <4>2. PICK j \in 1 .. n - 1 : src(j) = m
        BY <2>1, <2>5, <4>1, Zenon
      <4> QED  BY <2>6, <2>7, <4>1, <4>2, Zenon DEF Elems
    <3> QED  BY <3>1, <3>2, Zenon
  <2> QED
    BY <1>2, <2>6, <2>8, <2>9, Zenon DEF t
<1> QED
  BY <1>1, <1>2, Zenon
\* scfifo() returns a queued page.
LEMMA VictimPosFact ==
  ASSUME NEW S, NEW s \in Seq(S), NEW acc, s # <<>>
  PROVE  VictimPos(s, acc) \in 1 .. Len(s)
<1>1. Len(s) \in Nat /\ Len(s) > 0
  OBVIOUS
<1>2. CASE Unaccessed(s, acc) = {}
  BY <1>1, <1>2 DEF VictimPos
<1>3. CASE Unaccessed(s, acc) # {}
  <2>1. \E j \in Unaccessed(s, acc) : \A k \in Unaccessed(s, acc) : j <= k
    <3>1. Unaccessed(s, acc) \subseteq Nat
      BY <1>1 DEF Unaccessed
    <3> HIDE DEF Unaccessed
    <3> QED  BY <1>3, <3>1, LeastElement, Zenon
  <2> QED  BY <2>1, Zenon DEF VictimPos, Unaccessed
<1> QED
  BY <1>2, <1>3, Zenon
\* The victim of scfifo() leaves the queue, and it alone.
LEMMA AfterVictimFacts ==
  ASSUME NEW S, NEW s \in Seq(S), NEW acc, s # <<>>, NoDuplicates(s)
  PROVE  /\ Victim(s, acc) \in Elems(s)
         /\ AfterVictim(s, acc) \in Seq(S)
         /\ Len(AfterVictim(s, acc)) = Len(s) - 1
         /\ Elems(AfterVictim(s, acc)) = Elems(s) \ {Victim(s, acc)}
         /\ NoDuplicates(AfterVictim(s, acc))
<1> DEFINE n == Len(s)
           k == VictimPos(s, acc)
           t == AfterVictim(s, acc)
           src(j) == IF j <= n - k THEN k + j ELSE j - (n - k)
<1>1. n \in Nat /\ k \in 1 .. n /\ Victim(s, acc) = s[k]
  BY VictimPosFact DEF Victim
<1>2. t = [j \in 1 .. n - 1 |-> s[src(j)]]
  BY <1>1, Zenon DEF AfterVictim
<1>3. \A j \in 1 .. n - 1 : src(j) \in 1 .. n /\ src(j) # k
  BY <1>1
<1>4. \A j, l \in 1 .. n - 1 : src(j) = src(l) => j = l
  BY <1>1
<1>5. \A m \in (1 .. n) \ {k} : \E j \in 1 .. n - 1 : src(j) = m
  <2> TAKE m \in (1 .. n) \ {k}
  <2>1. CASE m > k
    <3>1. m - k \in 1 .. n - 1 /\ src(m - k) = m
      BY <2>1, <1>1
    <3> QED  BY <3>1, Zenon
  <2>2. CASE m < k
    <3>1. m + (n - k) \in 1 .. n - 1
      BY <2>2, <1>1
    <3>2. src(m + (n - k)) = m
      BY <2>2, <1>1
    <3> QED  BY <3>1, <3>2, Zenon
  <2> QED  BY <2>1, <2>2, <1>1
<1> HIDE DEF src, t, k
<1>6. t \in Seq(S) /\ Len(t) = n - 1
  <2>1. \A j \in 1 .. n - 1 : s[src(j)] \in S
    BY <1>3
  <2>2. t \in [1 .. n - 1 -> S] /\ n - 1 \in Nat
    BY <1>1, <1>2, <2>1
  <2> QED  BY <2>2, SeqOfFunction, Zenon
<1>7. \A j \in 1 .. n - 1 : t[j] = s[src(j)]
  BY <1>2, Zenon
<1>8. NoDuplicates(t)
  BY <1>3, <1>4, <1>6, <1>7 DEF NoDuplicates
<1>9. Elems(t) = Elems(s) \ {s[k]}
  <2>1. \A x \in Elems(t) : x \in Elems(s) /\ x # s[k]
    BY <1>1, <1>3, <1>6, <1>7 DEF Elems, NoDuplicates
  <2>2. \A x \in Elems(s) \ {s[k]} : x \in Elems(t)
    <3> TAKE x \in Elems(s) \ {s[k]}
    <3>1. PICK m \in 1 .. n : s[m] = x
      BY Zenon DEF Elems
    <3>2. PICK j \in 1 .. n - 1 : src(j) = m
      BY <1>1, <1>5, <3>1, Zenon
    <3> QED  BY <1>6, <1>7, <3>1, <3>2, Zenon DEF Elems
  <2> QED  BY <2>1, <2>2, Zenon
<1> QED
  BY <1>1, <1>6, <1>8, <1>9, Zenon DEF t, Elems

-----------------------------------------------------------------------------
(***************************************************************************)
(* The metadata of a process.                                              *)
(***************************************************************************)

USE MaxTotalPagesAssumption

\* A fresh process has good metadata.
LEMMA NoMetaGood == GoodMeta(NoMeta) /\ Used(NoMeta) = {}
<1>1. NoMeta \in Metas
  BY LimitsAssumption DEF NoMeta, Metas, NoOffset, Pages
<1>2. Used(NoMeta) = {}
  BY Zenon DEF NoMeta, Used
<1>3. NoMeta.queue = <<>> /\ NoMeta.pagesInMemory = 0
  BY Zenon DEF NoMeta
<1>4. NoDuplicates(<<>>) /\ Elems(<<>>) = {}
  BY DEF NoDuplicates, Elems
<1> QED
  BY <1>1, <1>2, <1>3, <1>4 DEF GoodMeta

\* initAging() and the assignments around it keep the metadata good when the
\* page was not in use and the limit is not reached.
LEMMA MadeResidentGood ==
  ASSUME NEW m, GoodMeta(m), NEW i \in Pages, ~m.inUse[i],
         m.pagesInMemory < MAX_PSYC_PAGES
  PROVE  /\ GoodMeta(MadeResident(m, i))
         /\ Used(MadeResident(m, i)) = Used(m) \cup {i}
         /\ MadeResident(m, i).offset = m.offset
         /\ MadeResident(m, i).pagesInMemory = m.pagesInMemory + 1
<1> DEFINE age == [m.aging EXCEPT ![i] = IF SELECTION = "LAPA" THEN 2 * TopBit - 1
                                         ELSE 0]
           q == IF SELECTION = "SCFIFO" THEN PageIn(m.queue, i) ELSE m.queue
           u == [m.inUse EXCEPT ![i] = TRUE]
           c == m.pagesInMemory + 1
           n == MadeResident(m, i)
<1>1. m \in Metas
  BY Zenon DEF GoodMeta
<1>2. n.queue = q /\ n.pagesInMemory = c /\ n.offset = m.offset /\ n.inUse = u
  BY <1>1, Zenon DEF Metas, MadeResident, initAging
<1>3. i \notin Used(m)
  BY Zenon DEF Used
<1>4. q \in Seq(Pages)
  BY <1>1, <1>3, PageInFacts DEF GoodMeta, Metas
<1>5. age \in [Pages -> 0 .. 2 * TopBit - 1]
  BY <1>1, LimitsAssumption DEF Metas
<1>6. u \in [Pages -> BOOLEAN] /\ c \in 0 .. MAX_PSYC_PAGES
  BY <1>1, LimitsAssumption DEF Metas
<1>7. n \in Metas
  <2> DEFINE k == [m EXCEPT !.inUse = u, !.pagesInMemory = c]
  <2> HIDE DEF u, c
  <2>1. k \in Metas /\ k.aging = m.aging /\ k.queue = m.queue
    BY <1>1, <1>6, Zenon DEF Metas
  <2>2. n = initAging(k, i)
    BY Zenon DEF MadeResident, u, c
  <2> HIDE DEF k
  <2>3. n = [k EXCEPT !.aging = age, !.queue = q]
    BY <2>1, <2>2, Zenon DEF initAging
  <2> HIDE DEF age, q, n
  <2> QED  BY <1>4, <1>5, <2>1, <2>3, Zenon DEF Metas
<1>8. Used(n) = Used(m) \cup {i}
  BY <1>1, <1>2, Zenon DEF Used, Metas
<1>9. SELECTION = "SCFIFO" => /\ NoDuplicates(q) /\ Elems(q) = Used(m) \cup {i}
                              /\ Len(q) = Len(m.queue) + 1
  BY <1>1, <1>3, PageInFacts DEF GoodMeta, Metas
<1>10. Len(m.queue) \in Nat /\ m.pagesInMemory \in Nat
  BY <1>1 DEF Metas
<1> HIDE DEF n
<1>11. GoodMeta(n)
  BY <1>2, <1>7, <1>8, <1>9, <1>10 DEF GoodMeta
<1> QED
  BY <1>2, <1>8, <1>11, Zenon DEF n

\* The same for the metadata part of uvmunmap().
LEMMA UnmappedGood ==
  ASSUME NEW m, GoodMeta(m), NEW i \in Pages
  PROVE  /\ GoodMeta(Unmapped(m, i))
         /\ Used(Unmapped(m, i)) = Used(m) \ {i}
         /\ Unmapped(m, i).pagesInMemory <= m.pagesInMemory
<1> DEFINE c == IF m.pagesInMemory = 0 THEN 0 ELSE m.pagesInMemory - 1
           q == PageRemoved(m.queue, i)
           o == [m.offset EXCEPT ![i] = NoOffset]
           u == [m.inUse EXCEPT ![i] = FALSE]
           n == Unmapped(m, i)
<1>1. m \in Metas
  BY Zenon DEF GoodMeta
<1>2. n.queue = q /\ n.pagesInMemory = c /\ n.inUse = u /\ n.offset = o
  BY <1>1, Zenon DEF Metas, Unmapped
<1>3. NoDuplicates(m.queue)
  BY DEF GoodMeta, NoDuplicates
<1>4. /\ q \in Seq(Pages) /\ NoDuplicates(q) /\ Elems(q) = Elems(m.queue) \ {i}
      /\ Len(q) = IF i \in Elems(m.queue) THEN Len(m.queue) - 1 ELSE Len(m.queue)
  BY <1>1, <1>3, PageRemovedFacts, Zenon DEF Metas
<1>5. /\ Len(m.queue) \in Nat /\ m.pagesInMemory \in 0 .. MAX_PSYC_PAGES
      /\ c \in 0 .. MAX_PSYC_PAGES /\ c <= m.pagesInMemory
  BY <1>1, LimitsAssumption DEF Metas
<1>6. o \in [Pages -> Pages \cup {NoOffset}] /\ u \in [Pages -> BOOLEAN]
  BY <1>1, Zenon DEF Metas
<1>7. n \in Metas
  <2>1. n = [m EXCEPT !.inUse = u, !.pagesInMemory = c, !.offset = o, !.queue = q]
    BY Zenon DEF Unmapped
  <2> HIDE DEF n, u, c, o, q
  <2> QED  BY <1>1, <1>4, <1>5, <1>6, <2>1, Zenon DEF Metas
<1>8. Used(n) = Used(m) \ {i}
  BY <1>1, <1>2, Zenon DEF Used, Metas
<1>9. SELECTION # "SCFIFO" => q = <<>>
  BY DEF GoodMeta, PageRemoved, Elems
<1> HIDE DEF n
<1>10. GoodMeta(n)
  <2>1. SELECTION = "SCFIFO" => c <= Len(q)
    BY <1>4, <1>5 DEF GoodMeta
  <2> QED  BY <1>2, <1>4, <1>7, <1>8, <1>9, <2>1, Zenon DEF GoodMeta
<1> QED
  BY <1>2, <1>5, <1>8, <1>10, Zenon DEF n

\* Giving up a slot touches nothing else.
LEMMA SlotForgottenGood ==
  ASSUME NEW m, GoodMeta(m), NEW i \in Pages
  PROVE  /\ GoodMeta(SlotForgotten(m, i)) /\ Used(SlotForgotten(m, i)) = Used(m)
         /\ SlotForgotten(m, i).inUse = m.inUse
         /\ SlotForgotten(m, i).pagesInMemory = m.pagesInMemory
         /\ SlotForgotten(m, i).offset = [m.offset EXCEPT ![i] = NoOffset]
<1> DEFINE n == SlotForgotten(m, i)
<1>1. m \in Metas
  BY Zenon DEF GoodMeta
<1>2. /\ n \in Metas /\ n.inUse = m.inUse /\ n.queue = m.queue
      /\ n.pagesInMemory = m.pagesInMemory /\ n.offset = [m.offset EXCEPT ![i] = NoOffset]
  BY <1>1, Zenon DEF Metas, SlotForgotten
<1>3. Used(n) = Used(m)
  BY <1>2, Zenon DEF Used
<1> HIDE DEF n
<1>4. GoodMeta(n)
  BY <1>2, <1>3, Zenon DEF GoodMeta
<1> QED
  BY <1>2, <1>3, <1>4, Zenon DEF n

\* What FirstLeast() returns is an element of its set, or NoPage.
LEMMA LeastPage ==
  ASSUME NEW S, S \subseteq Pages, S # {}
  PROVE  (CHOOSE i \in S : \A j \in S : i <= j) \in S
<1>1. S \subseteq Nat
  BY DEF Pages
<1> QED
  BY <1>1, LeastElement, Zenon

\* Each policy returns a page that is in use, or none.
LEMMA VictimInUse ==
  ASSUME NEW p \in Procs, GoodMeta(meta[p]), getIndexToRemove(p) # NoPage
  PROVE  getIndexToRemove(p) \in Used(meta[p])
<1> DEFINE m == meta[p]
<1>1. Candidates(m) \subseteq Used(m) /\ Used(m) \subseteq Pages
  BY LimitsAssumption DEF Candidates, Used, Pages
<1>2. CASE SELECTION = "NFUA"
  <2> DEFINE S == {i \in Candidates(m) : m.aging[i] < TopBit}
             least == {i \in S : \A j \in S : ~(m.aging[j] < m.aging[i])}
  <2>1. getIndexToRemove(p) = IF least = {} THEN NoPage
                              ELSE CHOOSE i \in least : \A j \in least : i <= j
    BY <1>2, Zenon DEF getIndexToRemove, nfua, FirstLeast
  <2>2. least \subseteq Candidates(m)
    BY Zenon
  <2> HIDE DEF least
  <2> QED  BY <1>1, <2>1, <2>2, LeastPage, Zenon
<1>3. CASE SELECTION = "LAPA"
  <2> DEFINE S == Candidates(m)
             Less(i, j) == \/ countOnes(m.aging[i]) < countOnes(m.aging[j])
                           \/ /\ countOnes(m.aging[i]) = countOnes(m.aging[j])
                              /\ m.aging[i] < m.aging[j]
             least == {i \in S : \A j \in S : ~Less(j, i)}
  <2>1. getIndexToRemove(p) = IF least = {} THEN NoPage
                              ELSE CHOOSE i \in least : \A j \in least : i <= j
    BY <1>3, Zenon DEF getIndexToRemove, lapa, FirstLeast
  <2>2. least \subseteq Candidates(m)
    BY Zenon
  <2> HIDE DEF least
  <2> QED  BY <1>1, <2>1, <2>2, LeastPage, Zenon
<1>4. CASE SELECTION = "SCFIFO"
  <2>1. m.queue # <<>> /\ getIndexToRemove(p) = Victim(m.queue, Accessed(p))
    BY <1>4, Zenon DEF getIndexToRemove
  <2>2. m.queue \in Seq(Pages) /\ NoDuplicates(m.queue) /\ Elems(m.queue) = Used(m)
    BY <1>4, Zenon DEF GoodMeta, Metas
  <2> QED  BY <2>1, <2>2, AfterVictimFacts, ZenonT(40)
<1> QED
  BY <1>2, <1>3, <1>4, SelectionAssumption, Zenon

\* page_to_file() takes its victim out of the metadata and gives it a slot.
LEMMA EvictedMetaGood ==
  ASSUME NEW p \in Procs, GoodMeta(meta[p]), NEW off \in Pages,
         getIndexToRemove(p) # NoPage, meta[p].pagesInMemory > 0
  PROVE  LET i == getIndexToRemove(p)
             n == page_to_file(p, off).meta
         IN  /\ GoodMeta(n)
             /\ Used(n) = Used(meta[p]) \ {i}
             /\ n.pagesInMemory = meta[p].pagesInMemory - 1
             /\ n.offset = [meta[p].offset EXCEPT ![i] = off]
<1> DEFINE i == getIndexToRemove(p)
           m == meta[p]
           n == page_to_file(p, off).meta
           o == [m.offset EXCEPT ![i] = off]
           u == [m.inUse EXCEPT ![i] = FALSE]
           c == m.pagesInMemory - 1
           q == IF SELECTION = "SCFIFO" THEN AfterVictim(m.queue, Accessed(p)) ELSE m.queue
<1>1. i \in Used(m) /\ i \in Pages
  BY VictimInUse, Zenon DEF Used
<1>2. n = [m EXCEPT !.offset = o, !.inUse = u, !.pagesInMemory = c, !.queue = q]
  BY Zenon DEF page_to_file
<1>3. m \in Metas
  BY Zenon DEF GoodMeta
<1>4. SELECTION = "SCFIFO" => /\ q \in Seq(Pages) /\ NoDuplicates(q)
                              /\ Elems(q) = Used(m) \ {i} /\ Len(q) = Len(m.queue) - 1
  <2> SUFFICES ASSUME SELECTION = "SCFIFO"
               PROVE  /\ q \in Seq(Pages) /\ NoDuplicates(q)
                      /\ Elems(q) = Used(m) \ {i} /\ Len(q) = Len(m.queue) - 1
    BY Zenon
  <2>1. m.queue # <<>> /\ i = Victim(m.queue, Accessed(p))
    BY Zenon DEF getIndexToRemove
  <2>2. m.queue \in Seq(Pages) /\ NoDuplicates(m.queue) /\ Elems(m.queue) = Used(m)
    BY <1>3, Zenon DEF GoodMeta, Metas
  <2> QED  BY <2>1, <2>2, AfterVictimFacts
<1>5. SELECTION # "SCFIFO" => q = <<>>
  BY Zenon DEF GoodMeta
<1>6. /\ o \in [Pages -> Pages \cup {NoOffset}] /\ u \in [Pages -> BOOLEAN]
      /\ c \in 0 .. MAX_PSYC_PAGES /\ q \in Seq(Pages) /\ Len(m.queue) \in Nat
  <2>1. /\ m.offset \in [Pages -> Pages \cup {NoOffset}] /\ m.inUse \in [Pages -> BOOLEAN]
        /\ m.pagesInMemory \in 0 .. MAX_PSYC_PAGES /\ m.queue \in Seq(Pages)
    BY <1>3, Zenon DEF Metas
  <2>2. q \in Seq(Pages) /\ Len(m.queue) \in Nat
    BY <1>4, <2>1
  <2>3. c \in 0 .. MAX_PSYC_PAGES
    BY <2>1, LimitsAssumption
  <2> QED  BY <2>1, <2>2, <2>3, Zenon
<1>7. Used(m) = {j \in Pages : m.inUse[j]}
  BY Zenon DEF Used
<1>8. u = [m.inUse EXCEPT ![i] = FALSE] /\ m.inUse \in [Pages -> BOOLEAN]
  BY <1>3, Zenon DEF Metas
<1>9. SELECTION = "SCFIFO" => c <= Len(q)
  BY <1>3, <1>4, <1>6 DEF GoodMeta, Metas
<1>10. c = m.pagesInMemory - 1 /\ o = [m.offset EXCEPT ![i] = off]
  BY Zenon
<1> HIDE DEF n, o, u, c, q, i
<1>11. n \in Metas /\ n.inUse = u /\ n.queue = q /\ n.pagesInMemory = c /\ n.offset = o
  BY <1>2, <1>3, <1>6, Zenon DEF Metas
<1>12. Used(n) = Used(m) \ {i}
  BY <1>1, <1>7, <1>8, <1>11, Zenon DEF Used
<1>13. GoodMeta(n)
  BY <1>4, <1>5, <1>9, <1>11, <1>12, Zenon DEF GoodMeta
<1> QED
  BY <1>10, <1>11, <1>12, <1>13, Zenon DEF n, i

\* The table tab is the table old without page x, which is in the swap file.
Without(old, tab, x) ==
  /\ tab \in [Pages -> Ptes]
  /\ \A j \in Pages : tab[j].v = (old[j].v /\ j # x)
  /\ \A j \in Pages : tab[j].pg = (old[j].pg \/ j = x)

\* Every page of S is resident; the pages of a table lie below n, and none is
\* both resident and paged out.
Resident(tab, S) == \A j \in S : tab[j].v
Below(tab, n) == \A j \in Pages : (tab[j].v => j < n) /\ (tab[j].pg => ~tab[j].v)

\* page_to_file() takes its victim out of the page table, and only PTE_A of the
\* other pages can change.
LEMMA EvictedTableGood ==
  ASSUME NEW p \in Procs, NEW off, pagetable[p] \in [Pages -> Ptes]
  PROVE  Without(pagetable[p], page_to_file(p, off).tab, getIndexToRemove(p))
<1> DEFINE i == getIndexToRemove(p)
           t == page_to_file(p, off).tab
           e(j) == IF j \in ClearedBits(p) THEN [pagetable[p][j] EXCEPT !.a = FALSE]
                   ELSE pagetable[p][j]
<1>1. t = [j \in Pages |-> IF j = i THEN SwappedOut(e(j)) ELSE e(j)]
  BY Zenon DEF page_to_file
<1>2. \A j \in Pages : /\ e(j) \in Ptes /\ e(j).v = pagetable[p][j].v
                       /\ e(j).pg = pagetable[p][j].pg
  BY Zenon DEF Ptes
<1>3. \A x \in Ptes : /\ SwappedOut(x) \in Ptes /\ SwappedOut(x).v = FALSE
                      /\ SwappedOut(x).pg = TRUE
  BY Zenon DEF Ptes, SwappedOut
<1>4. \A x \in Ptes : x.v \in BOOLEAN /\ x.pg \in BOOLEAN
  BY Zenon DEF Ptes
<1>5. pagetable[p] \in [Pages -> Ptes]
  BY Zenon
<1> HIDE DEF t, e, i
<1>6. t \in [Pages -> Ptes]
  BY <1>1, <1>2, <1>3, Zenon
<1>7. ASSUME NEW j \in Pages
      PROVE  t[j].v = (pagetable[p][j].v /\ j # i) /\ t[j].pg = (pagetable[p][j].pg \/ j = i)
  <2>1. CASE j = i
    BY <1>1, <1>2, <1>3, <1>4, <2>1, Zenon
  <2>2. CASE j # i
    <3>1. t[j].v = pagetable[p][j].v /\ t[j].pg = pagetable[p][j].pg
      BY <1>1, <1>2, <2>2, Zenon
    <3> QED  BY <1>4, <1>5, <2>2, <3>1, Zenon
  <2> QED  BY <2>1, <2>2, Zenon
<1> QED
  BY <1>6, <1>7, Zenon DEF Without, t, i

\* Writing a slot keeps the swap file a sequence of page contents.
LEMMA WriteAtType ==
  ASSUME NEW S, NEW file \in Seq(S), NEW off \in Nat, NEW c \in S, CanWrite(file, off)
  PROVE  WriteAt(file, off, c) \in Seq(S)
<1>1. CASE off = Len(file)
  BY <1>1 DEF WriteAt
<1>2. CASE off # Len(file)
  BY <1>2 DEF WriteAt, CanWrite
<1> QED
  BY <1>1, <1>2, Zenon

\* The page that page_to_file() evicts.
LEMMA EvictVictim ==
  ASSUME TypeOK, NEW p \in Procs, GoodMeta(meta[p]), ~HasRoom(meta[p]),
         NEW off, EvictPanic(p, off) = "none"
  PROVE  /\ getIndexToRemove(p) # NoPage /\ getIndexToRemove(p) \in Used(meta[p])
         /\ getIndexToRemove(p) \in Pages /\ CanWrite(swapFile[p], off)
         /\ pagetable[p][getIndexToRemove(p)].frame \in Frames
         /\ meta[p].pagesInMemory = MAX_PSYC_PAGES /\ meta[p].pagesInMemory > 0
<1> DEFINE x == getIndexToRemove(p)
<1>1. GoodMeta(meta[p]) /\ meta[p] \in Metas /\ pagetable[p] \in [Pages -> Ptes]
  BY Zenon DEF TypeOK
<1>2. x # NoPage /\ CanWrite(swapFile[p], off) /\ pagetable[p][x].frame # NoFrame
  BY Zenon DEF EvictPanic
<1>3. x \in Used(meta[p])
  BY <1>1, <1>2, VictimInUse, Zenon
<1> HIDE DEF x
<1>4. x \in Pages
  BY <1>3, Zenon DEF Used
<1>5. pagetable[p][x].frame \in Frames
  <2>1. pagetable[p][x] \in Ptes
    BY <1>1, <1>4, Zenon
  <2> QED  BY <1>2, <2>1, Zenon DEF Ptes
<1>6. meta[p].pagesInMemory = MAX_PSYC_PAGES /\ meta[p].pagesInMemory > 0
  <2>1. meta[p].pagesInMemory \in 0 .. MAX_PSYC_PAGES
    BY <1>1, Zenon DEF Metas
  <2> QED  BY <2>1, LimitsAssumption DEF HasRoom
<1> QED
  BY <1>2, <1>3, <1>4, <1>5, <1>6, Zenon DEF x

\* What its eviction leaves of the metadata and of the swap file.
LEMMA EvictedFacts ==
  ASSUME TypeOK, NEW p \in Procs, GoodMeta(meta[p]), ~HasRoom(meta[p]),
         NEW off \in Pages, EvictPanic(p, off) = "none"
  PROVE  LET e == page_to_file(p, off) IN
         /\ GoodMeta(e.meta) /\ Used(e.meta) = Used(meta[p]) \ {getIndexToRemove(p)}
         /\ e.meta.pagesInMemory < MAX_PSYC_PAGES
         /\ e.frame \in Frames /\ e.file \in Seq(Contents)
<1> DEFINE e == page_to_file(p, off)
           x == getIndexToRemove(p)
           f == pagetable[p][x].frame
           n == e.meta
           file == e.file
<1>1. GoodMeta(meta[p]) /\ TypeOK
  BY Zenon
<1>2. /\ x # NoPage /\ CanWrite(swapFile[p], off) /\ f \in Frames
      /\ meta[p].pagesInMemory = MAX_PSYC_PAGES /\ meta[p].pagesInMemory > 0
  BY EvictVictim, Zenon
<1>3. /\ GoodMeta(n) /\ Used(n) = Used(meta[p]) \ {x}
      /\ n.pagesInMemory = meta[p].pagesInMemory - 1
  BY <1>1, <1>2, EvictedMetaGood, Zenon
<1>4. e.frame = f /\ file = WriteAt(swapFile[p], off, mem[f])
  BY Zenon DEF page_to_file
<1> HIDE DEF n, f, file, e, x
<1>5. n.pagesInMemory < MAX_PSYC_PAGES
  BY <1>2, <1>3, LimitsAssumption
<1>6. swapFile[p] \in Seq(Contents) /\ mem[f] \in Contents /\ off \in Nat
  BY <1>1, <1>2 DEF TypeOK, Pages
<1>7. file \in Seq(Contents)
  BY <1>2, <1>4, <1>6, WriteAtType, Zenon
<1> QED
  BY <1>2, <1>3, <1>4, <1>5, <1>7, Zenon DEF n, f, file, e, x

LEMMA ReadAtType ==
  ASSUME NEW file \in Seq(Contents), NEW off \in Nat
  PROVE  ReadAt(file, off) \in Contents
BY DEF ReadAt, Contents

\* getOffset() returns a slot number.
LEMMA getOffsetType ==
  ASSUME NEW p \in Procs, sz[p] \in 0 .. MAX_TOTAL_PAGES
  PROVE  getOffset(p) \in Pages
<1> DEFINE unused == {o \in 0 .. sz[p] - 1 : \A i \in Pages : meta[p].offset[i] # o}
<1>1. unused \subseteq Pages /\ 0 \in Pages
  BY DEF Pages
<1>2. getOffset(p) = IF unused = {} THEN 0
                     ELSE CHOOSE o \in unused : \A u \in unused : o <= u
  BY Zenon DEF getOffset
<1> HIDE DEF unused
<1> QED
  BY <1>1, <1>2, LeastPage, Zenon

\* A step that changes no page of q, and of a child that q works on none either.
LEMMA TablesKept ==
  ASSUME NEW q \in Procs, TablesOK(q),
         pstate'[q] = pstate[q], sz'[q] = sz[q], act'[q] = act[q],
         \A j \in Pages : /\ pagetable'[q][j].v = pagetable[q][j].v
                          /\ pagetable'[q][j].pg = pagetable[q][j].pg
                          /\ sidetable'[q][j] = sidetable[q][j],
         Foreign(q) => /\ pagetable'[act[q].who] = pagetable[act[q].who]
                       /\ sz'[act[q].who] = sz[act[q].who]
  PROVE  TablesOK(q)'
<1> SUFFICES ASSUME NEW i \in Pages PROVE PageOK(q, i)'
  BY Zenon DEF TablesOK
<1>1. PageOK(q, i)
  BY Zenon DEF TablesOK
<1> QED  BY <1>1 DEF PageOK, Foreign

\* A step of p in its own memory leaves what the invariant says of the other
\* processes: none of them works on a process that can run.
LEMMA OthersUnaffected ==
  ASSUME Inv, NEW p \in Procs, pstate[p] = "RUN",
         pstate' = pstate, parent' = parent,
         \A q \in Procs \ {p} : /\ sz'[q] = sz[q] /\ act'[q] = act[q]
                                /\ meta'[q] = meta[q]
                                /\ pagetable'[q] = pagetable[q]
                                /\ sidetable'[q] = sidetable[q],
         Foreign(p)' => Foreign(p) /\ act'[p].who = act[p].who
  PROVE  \A q \in Procs \ {p} : ActOK(q)' /\ TablesOK(q)' /\ MetaOK(q)'
<1> TAKE q \in Procs \ {p}
<1>1. ActOK(q) /\ TablesOK(q) /\ MetaOK(q)
  BY Zenon DEF Inv
<1>2. Foreign(q) => act[q].who \in Procs \ {p}
  BY <1>1, Zenon DEF ActOK, Foreign
<1>3. /\ sz'[q] = sz[q] /\ act'[q] = act[q] /\ meta'[q] = meta[q]
      /\ pagetable'[q] = pagetable[q] /\ sidetable'[q] = sidetable[q]
      /\ Foreign(q)' = Foreign(q)
  BY ZenonT(40) DEF Foreign
<1>4. ActOK(q)'
  <2>1. \A r \in Procs : Foreign(q)' /\ Foreign(r)' /\ act'[r].who = act'[q].who => q = r
    <3> SUFFICES ASSUME NEW r \in Procs, Foreign(q)', Foreign(r)', act'[r].who = act'[q].who
                 PROVE  q = r
      BY Zenon
    <3>1. Foreign(r) /\ act'[r].who = act[r].who
      <4>1. CASE r = p  BY <4>1
      <4>2. CASE r # p  BY <4>2 DEF Foreign
      <4> QED  BY <4>1, <4>2, Zenon
    <3> QED  BY <1>1, <1>3, <3>1, Zenon DEF ActOK
  <2> QED  BY <1>1, <1>3, <2>1, ZenonT(40) DEF ActOK, Foreign
<1>5. TablesOK(q)'
  <2>1. Foreign(q) => /\ pagetable'[act[q].who] = pagetable[act[q].who]
                      /\ sz'[act[q].who] = sz[act[q].who]
    BY <1>2, Zenon
  <2> QED  BY <1>1, <1>3, <2>1, TablesKept, Zenon
<1>6. MetaOK(q)'
  BY <1>1, <1>3 DEF MetaOK, Tracked, GoodMeta, Used
<1> QED
  BY <1>4, <1>5, <1>6, Zenon

\* What is left to show for such a step.
LEMMA LocalStep ==
  ASSUME Inv, NEW p \in Procs, pstate[p] = "RUN",
         pstate' = pstate, parent' = parent,
         \A q \in Procs \ {p} : /\ sz'[q] = sz[q] /\ act'[q] = act[q]
                                /\ meta'[q] = meta[q]
                                /\ pagetable'[q] = pagetable[q]
                                /\ sidetable'[q] = sidetable[q],
         Foreign(p)' => Foreign(p) /\ act'[p].who = act[p].who,
         TypeOK', ActOK(p)', TablesOK(p)', MetaOK(p)'
  PROVE  Inv'
<1>1. \A q \in Procs \ {p} : ActOK(q)' /\ TablesOK(q)' /\ MetaOK(q)'
  BY OthersUnaffected, Zenon
<1> QED
  BY <1>1, Zenon DEF Inv

\* A step of p that changes act[p] and p->sz at most.
LEMMA ActStep ==
  ASSUME Inv, NEW p \in Procs, pstate[p] = "RUN", NEW b \in Acts, NEW s \in 0 .. MAX_TOTAL_PAGES,
         act' = [act EXCEPT ![p] = b], sz' = [sz EXCEPT ![p] = s],
         UNCHANGED <<pstate, parent, pagetable, sidetable, meta, swapFile, free, mem,
                     want, shadow>>,
         b.op \notin {"copy", "copyfile"}, b.then # "freeproc",
         ActOK(p)', TablesOK(p)', MetaOK(p)'
  PROVE  Inv'
<1>1. TypeOK'
  BY Zenon DEF Inv, TypeOK
<1>2. act'[p] = b /\ ~Foreign(p)'
  BY Zenon DEF Inv, TypeOK, Foreign
<1>3. \A q \in Procs \ {p} : /\ sz'[q] = sz[q] /\ act'[q] = act[q] /\ meta'[q] = meta[q]
                             /\ pagetable'[q] = pagetable[q]
                             /\ sidetable'[q] = sidetable[q]
  BY Zenon DEF Inv, TypeOK
<1> QED
  BY <1>1, <1>2, <1>3, LocalStep, Zenon

LEMMA IdleFacts ==
  Idle \in Acts /\ Idle.op = "user" /\ Idle.then = "none" /\ Idle.buf = NoFrame
BY DEF Acts, Idle

\* What the invariant says of one process.
LEMMA ProcFacts ==
  ASSUME Inv, NEW p \in Procs
  PROVE  /\ TypeOK /\ ActOK(p) /\ TablesOK(p) /\ MetaOK(p)
         /\ sz[p] \in 0 .. MAX_TOTAL_PAGES
         /\ pagetable[p] \in [Pages -> Ptes] /\ sidetable[p] \in [Pages -> Ptes]
         /\ meta[p] \in Metas /\ GoodMeta(meta[p])
         /\ meta[p].pagesInMemory \in 0 .. MAX_PSYC_PAGES
         /\ act[p] \in Acts /\ act[p].a \in 0 .. MAX_TOTAL_PAGES
         /\ act[p].lo \in 0 .. MAX_TOTAL_PAGES /\ act[p].end \in 0 .. MAX_TOTAL_PAGES
         /\ act[p].buf \in Frames \cup {NoFrame}
<1>1. TypeOK /\ ActOK(p) /\ TablesOK(p) /\ MetaOK(p)
  BY Zenon DEF Inv
<1>2. /\ sz[p] \in 0 .. MAX_TOTAL_PAGES
      /\ pagetable[p] \in [Pages -> Ptes] /\ sidetable[p] \in [Pages -> Ptes]
      /\ meta[p] \in Metas /\ act[p] \in Acts
  BY <1>1, Zenon DEF TypeOK
<1> QED
  BY <1>1, <1>2, Zenon DEF MetaOK, Acts, Metas

\* The values that a step of p in its own memory gives to p.
LEMMA OwnValues ==
  ASSUME Inv, NEW p \in Procs,
         NEW t \in [Pages -> Ptes], NEW u \in [Pages -> Ptes], NEW m \in Metas,
         NEW b \in Acts,
         pagetable' = [pagetable EXCEPT ![p] = t], sidetable' = [sidetable EXCEPT ![p] = u],
         meta' = [meta EXCEPT ![p] = m], act' = [act EXCEPT ![p] = b]
  PROVE  /\ pagetable' \in [Procs -> [Pages -> Ptes]]
         /\ sidetable' \in [Procs -> [Pages -> Ptes]]
         /\ meta' \in [Procs -> Metas] /\ act' \in [Procs -> Acts]
         /\ pagetable'[p] = t /\ sidetable'[p] = u /\ meta'[p] = m /\ act'[p] = b
         /\ \A q \in Procs \ {p} : /\ act'[q] = act[q] /\ meta'[q] = meta[q]
                                   /\ pagetable'[q] = pagetable[q]
                                   /\ sidetable'[q] = sidetable[q]
<1>1. /\ pagetable \in [Procs -> [Pages -> Ptes]]
      /\ sidetable \in [Procs -> [Pages -> Ptes]]
      /\ meta \in [Procs -> Metas] /\ act \in [Procs -> Acts]
  BY Zenon DEF Inv, TypeOK
<1> QED
  BY <1>1, Zenon

\* What the operators on PTEs give.
LEMMA PteFacts ==
  /\ NoPte \in Ptes /\ NoPte.v = FALSE /\ NoPte.pg = FALSE
  /\ \A f \in Frames \cup {NoFrame} :
       UserPte(f) \in Ptes /\ UserPte(f).v = TRUE /\ UserPte(f).pg = FALSE
BY Zenon DEF Ptes, NoPte, UserPte

LEMMA PteVOnly ==
  ASSUME NEW f \in Frames \cup {NoFrame}
  PROVE  LET e == [UserPte(f) EXCEPT !.leaf = FALSE]
         IN  e \in Ptes /\ e.v = TRUE /\ e.pg = FALSE
BY Zenon DEF Ptes, UserPte

LEMMA PteBack ==
  ASSUME NEW x \in Ptes, NEW f \in Frames \cup {NoFrame}
  PROVE  LET e == [x EXCEPT !.v = TRUE, !.pg = FALSE, !.frame = f]
         IN  e \in Ptes /\ e.v = TRUE /\ e.pg = FALSE
BY Zenon DEF Ptes

LEMMA PteAccessed ==
  ASSUME NEW x \in Ptes, NEW c \in BOOLEAN
  PROVE  LET e == [x EXCEPT !.a = c] IN e \in Ptes /\ e.v = x.v /\ e.pg = x.pg
BY Zenon DEF Ptes

\* Replacing a PTE of a table.
LEMMA PteStep ==
  ASSUME NEW tab \in [Pages -> Ptes], NEW i \in Pages, NEW e \in Ptes
  PROVE  /\ [tab EXCEPT ![i] = e] \in [Pages -> Ptes]
         /\ [tab EXCEPT ![i] = e][i] = e
         /\ \A j \in Pages \ {i} : [tab EXCEPT ![i] = e][j] = tab[j]
BY Zenon

\* kalloc() returns a page of the free list, if there is one.
LEMMA kallocFacts ==
  ASSUME TypeOK
  PROVE  kalloc \in Frames \cup {NoFrame} /\ (free # {} => kalloc \in Frames)
BY Zenon DEF TypeOK, kalloc

\* Contents that the code writes.
LEMMA ContentsFacts ==
  /\ Junk \in Contents /\ Zero \in Contents
  /\ \A i \in Pages : Written(i, 0) \in Contents
  /\ \A i \in Pages, v \in Versions : Written(i, v) \in Contents
BY DEF Contents

\* The metadata after an iteration of uvmunmap().
LEMMA UnmapMeta ==
  ASSUME NEW n, GoodMeta(n), NEW i \in Pages, NEW v \in BOOLEAN
  PROVE  LET m == IF v THEN Unmapped(n, i) ELSE SlotForgotten(n, i)
         IN  /\ GoodMeta(m) /\ m \in Metas
             /\ Used(m) \subseteq Used(n) /\ (v => i \notin Used(m))
<1>1. CASE v
  BY <1>1, UnmappedGood DEF GoodMeta
<1>2. CASE ~v
  BY <1>2, SlotForgottenGood, Zenon DEF GoodMeta
<1> QED
  BY <1>1, <1>2, Zenon

\* A process whose own state, and that of the child it works on, are unchanged.
LEMMA Kept ==
  ASSUME NEW q \in Procs, ActOK(q), TablesOK(q), MetaOK(q),
         pstate'[q] = pstate[q], sz'[q] = sz[q], act'[q] = act[q], meta'[q] = meta[q],
         pagetable'[q] = pagetable[q], sidetable'[q] = sidetable[q],
         Foreign(q) => /\ pagetable'[act[q].who] = pagetable[act[q].who]
                       /\ sz'[act[q].who] = sz[act[q].who]
                       /\ pstate'[act[q].who] = pstate[act[q].who]
                       /\ parent'[act[q].who] = parent[act[q].who],
         \A r \in Procs : Foreign(q)' /\ Foreign(r)' /\ act'[r].who = act'[q].who => q = r
  PROVE  ActOK(q)' /\ TablesOK(q)' /\ MetaOK(q)'
<1>1. ActOK(q)'
  BY ZenonT(40) DEF ActOK, Foreign
<1>2. TablesOK(q)'
  BY ZenonT(90) DEF TablesOK, PageOK, Foreign
<1>3. MetaOK(q)'
  BY Zenon DEF MetaOK, Tracked, GoodMeta, Used
<1> QED
  BY <1>1, <1>2, <1>3, Zenon

\* A step in which p works on a child c leaves what the invariant says of the
\* other processes: none of them works on c or on p.
LEMMA ChildStep ==
  ASSUME Inv, NEW p \in Procs, NEW c \in Procs, pstate[p] = "RUN", pstate[c] # "RUN",
         \A q \in Procs \ {p} : Foreign(q) => act[q].who # c,
         \A q \in Procs \ {p, c} : /\ pstate'[q] = pstate[q] /\ parent'[q] = parent[q]
                                   /\ sz'[q] = sz[q] /\ act'[q] = act[q]
                                   /\ meta'[q] = meta[q]
                                   /\ pagetable'[q] = pagetable[q]
                                   /\ sidetable'[q] = sidetable[q],
         act'[c] = Idle, Foreign(p)' => act'[p].who = c,
         TypeOK', ActOK(p)', TablesOK(p)', MetaOK(p)', ActOK(c)', TablesOK(c)', MetaOK(c)'
  PROVE  Inv'
<1>1. ASSUME NEW q \in Procs \ {p, c}
      PROVE  ActOK(q)' /\ TablesOK(q)' /\ MetaOK(q)'
  <2>1. ActOK(q) /\ TablesOK(q) /\ MetaOK(q)
    BY Zenon DEF Inv
  <2>2. /\ pstate'[q] = pstate[q] /\ parent'[q] = parent[q]
        /\ sz'[q] = sz[q] /\ act'[q] = act[q] /\ meta'[q] = meta[q]
        /\ pagetable'[q] = pagetable[q] /\ sidetable'[q] = sidetable[q]
        /\ Foreign(q)' = Foreign(q)
    BY Zenon DEF Foreign
  <2>3. Foreign(q) => act[q].who \in Procs \ {p, c}
    BY <2>1, ZenonT(40) DEF ActOK, Foreign
  <2>4. Foreign(q) => /\ pagetable'[act[q].who] = pagetable[act[q].who]
                      /\ sz'[act[q].who] = sz[act[q].who]
                      /\ pstate'[act[q].who] = pstate[act[q].who]
                      /\ parent'[act[q].who] = parent[act[q].who]
    BY <2>3, Zenon
  <2>5. \A r \in Procs : Foreign(q)' /\ Foreign(r)' /\ act'[r].who = act'[q].who => q = r
    <3> SUFFICES ASSUME NEW r \in Procs, Foreign(q)', Foreign(r)', act'[r].who = act'[q].who
                 PROVE  q = r
      BY Zenon
    <3>1. r # c
      BY IdleFacts, Zenon DEF Foreign
    <3>2. r # p
      BY <2>2, <2>3, Zenon
    <3>3. Foreign(r) /\ act'[r].who = act[r].who
      BY <3>1, <3>2, Zenon DEF Foreign
    <3> QED  BY <2>1, <2>2, <3>3, ZenonT(40) DEF ActOK
  <2> QED  BY <2>1, <2>2, <2>4, <2>5, Kept, Zenon
<1>2. \A q \in Procs : ActOK(q)' /\ TablesOK(q)' /\ MetaOK(q)'
  BY <1>1, Zenon
<1> QED
  BY <1>2, Zenon DEF Inv

\* The child that p works on: nobody else does, and it does nothing itself.
LEMMA ChildFacts ==
  ASSUME Inv, NEW p \in Procs, pstate[p] = "RUN", Foreign(p)
  PROVE  /\ act[p].who \in Procs /\ act[p].who # p /\ pstate[act[p].who] \in {"USED", "ZOMBIE"}
         /\ act[act[p].who] = Idle
         /\ \A q \in Procs \ {p} : Foreign(q) => act[q].who # act[p].who
<1>1. ActOK(p)
  BY Zenon DEF Inv
<1>2. act[p].who \in Procs /\ pstate[act[p].who] \in {"USED", "ZOMBIE"}
  BY <1>1, Zenon DEF ActOK, Foreign
<1>3. act[act[p].who] = Idle
  BY <1>2, Zenon DEF Inv, ActOK
<1>4. \A q \in Procs \ {p} : Foreign(q) => act[q].who # act[p].who
  BY <1>1, Zenon DEF ActOK
<1> QED
  BY <1>2, <1>3, <1>4, Zenon

\* An address and the end of the range that a loop of the kernel walks.
LEMMA PageOrder ==
  ASSUME NEW a \in 0 .. MAX_TOTAL_PAGES, NEW e \in 0 .. MAX_TOTAL_PAGES
  PROVE  /\ a < e => a \in Pages
         /\ ~(a < a)
         /\ a >= e => \A i \in Pages : ~(a <= i /\ i < e)
BY MaxTotalPagesAssumption DEF Pages

\* What the invariant says of a process that waits for its page.
LEMMA SwapInFacts ==
  ASSUME Inv, NEW p \in Procs, act[p].op = "swapin", pstate[p] = "RUN"
  PROVE  /\ act[p].a \in Pages /\ act[p].a < sz[p] /\ ~pagetable[p][act[p].a].v
         /\ act[p].then = "none" /\ meta[p].offset[act[p].a] \in Pages
         /\ act[p].buf \in Frames \cup {NoFrame}
         /\ GoodMeta(meta[p]) /\ meta[p] \in Metas /\ ~meta[p].inUse[act[p].a]
         /\ pagetable[p] \in [Pages -> Ptes]
         /\ \A j \in Used(meta[p]) : pagetable[p][j].v
         /\ \A j \in Pages : /\ pagetable[p][j].v => j < sz[p]
                             /\ pagetable[p][j].pg => ~pagetable[p][j].v
<1>1. TypeOK /\ ActOK(p) /\ TablesOK(p) /\ MetaOK(p)
  BY Zenon DEF Inv
<1>2. /\ act[p].a \in Pages /\ act[p].a < sz[p] /\ ~pagetable[p][act[p].a].v
      /\ act[p].then = "none" /\ meta[p].offset[act[p].a] # NoOffset
  BY <1>1, Zenon DEF ActOK
<1>3. /\ act[p] \in Acts /\ meta[p] \in Metas /\ pagetable[p] \in [Pages -> Ptes]
  BY <1>1, Zenon DEF TypeOK
<1>4. act[p].buf \in Frames \cup {NoFrame} /\ meta[p].offset[act[p].a] \in Pages
  BY <1>2, <1>3, Zenon DEF Acts, Metas
<1>5. Tracked(p) = pagetable[p]
  BY <1>2, Zenon DEF Tracked
<1>6. GoodMeta(meta[p]) /\ \A j \in Used(meta[p]) : pagetable[p][j].v
  BY <1>1, <1>5, Zenon DEF MetaOK
<1>7. ~meta[p].inUse[act[p].a]
  BY <1>2, <1>6, Zenon DEF Used
<1>8. \A j \in Pages : /\ pagetable[p][j].v => j < sz[p]
                       /\ pagetable[p][j].pg => ~pagetable[p][j].v
  BY <1>1, <1>2, Zenon DEF TablesOK, PageOK
<1> QED
  BY <1>2, <1>3, <1>4, <1>6, <1>7, <1>8, Zenon

-----------------------------------------------------------------------------
(***************************************************************************)
(* The steps of fork(), in which a process works on its child, those of    *)
(* exit() and wait(), and of uvmunmap() on the memory of a child.          *)
(***************************************************************************)

\* fork() takes a process.
LEMMA ForkInv ==
  ASSUME Inv, NEW p \in Procs, NEW c \in Procs, Fork(p, c)
  PROVE  Inv'
<1> DEFINE b == [Idle EXCEPT !.op = "copy", !.end = sz[p], !.who = c]
<1>1. pstate[p] = "RUN" /\ act[p] = Idle /\ pstate[c] = "UNUSED" /\ p # c
  BY Zenon DEF Fork, Syscall, InUser, Running
<1>2. /\ TypeOK /\ ActOK(p) /\ TablesOK(p) /\ MetaOK(p) /\ GoodMeta(meta[p])
      /\ pagetable[p] \in [Pages -> Ptes] /\ sidetable[p] \in [Pages -> Ptes]
      /\ act[p] \in Acts /\ sz[p] \in 0 .. MAX_TOTAL_PAGES
      /\ act[p].a \in 0 .. MAX_TOTAL_PAGES /\ act[p].end \in 0 .. MAX_TOTAL_PAGES
  BY ProcFacts, Zenon
<1>3. /\ ActOK(c) /\ TablesOK(c) /\ MetaOK(c) /\ act[c] = Idle
      /\ act[p].op = "user" /\ act[p].then = "none"
  BY <1>1, IdleFacts, Zenon DEF Inv, ActOK
<1>4. \A q \in Procs : Foreign(q) => act[q].who # c
  BY <1>1, Zenon DEF Inv, ActOK, Foreign
<1>5. b \in Acts /\ b.op = "copy" /\ b.then = "none" /\ b.a = 0 /\ b.end = sz[p] /\ b.who = c
  <2>1. b \in Acts
    BY <1>2, IdleFacts, Zenon DEF Acts
  <2> QED  BY <2>1, Zenon DEF Idle
<1>6. /\ pstate' = [pstate EXCEPT ![c] = "USED"] /\ meta' = [meta EXCEPT ![c] = NoMeta]
      /\ act' = [act EXCEPT ![p] = b]
      /\ UNCHANGED <<parent, sz, pagetable, sidetable, swapFile, free, mem, want, shadow>>
  BY Zenon DEF Fork, pt
<1> HIDE DEF b
<1>7. /\ pstate'[c] = "USED" /\ meta'[c] = NoMeta /\ act'[c] = Idle
      /\ pstate'[p] = "RUN" /\ meta'[p] = meta[p] /\ act'[p] = b
  BY <1>1, <1>2, <1>3, <1>6, Zenon DEF TypeOK
<1>8. TypeOK'
  BY <1>2, <1>5, <1>6, NoMetaGood, ZenonT(40) DEF TypeOK, GoodMeta
<1>9. ActOK(p)'
  <2>1. \A q \in Procs : Foreign(q)' /\ act'[q].who = c => q = p
    BY <1>2, <1>4, <1>6, Zenon DEF Foreign, TypeOK
  <2>2. b.a <= b.end
    BY <1>2, <1>5
  <2>3. act'[p].who = c /\ act'[p].end = sz'[p] /\ act'[p].a <= act'[p].end
    BY <1>5, <1>6, <1>7, <2>2, Zenon
  <2> QED  BY <1>5, <1>7, <2>1, <2>3, Zenon DEF ActOK
<1>10. ActOK(c)'
  BY <1>3, <1>7, IdleFacts, Zenon DEF ActOK, Foreign
<1>11. TablesOK(p)'
  <2>1. \A i \in Pages : ~pagetable[c][i].v /\ ~(i < 0)
    BY <1>1, <1>3 DEF TablesOK, PageOK, Pages
  <2> QED  BY <1>1, <1>2, <1>3, <1>5, <1>6, <1>7, <2>1, Zenon DEF TablesOK, PageOK
<1>12. TablesOK(c)'
  BY <1>1, <1>3, <1>6, <1>7, IdleFacts DEF TablesOK, PageOK
<1>13. MetaOK(p)'
  <2>1. Tracked(p)' = Tracked(p)
    BY <1>3, <1>5, <1>6, <1>7, Zenon DEF Tracked
  <2> QED  BY <1>1, <1>2, <1>7, <2>1 DEF MetaOK, GoodMeta, Used
<1>14. MetaOK(c)'
  BY <1>7, NoMetaGood, Zenon DEF MetaOK, GoodMeta, Used
<1>15. \A q \in Procs \ {p, c} : /\ pstate'[q] = pstate[q] /\ parent'[q] = parent[q]
                                   /\ sz'[q] = sz[q] /\ act'[q] = act[q]
                                   /\ meta'[q] = meta[q]
                                   /\ pagetable'[q] = pagetable[q]
                                   /\ sidetable'[q] = sidetable[q]
  BY <1>2, <1>6, Zenon DEF TypeOK
<1>16. /\ pstate[c] # "RUN" /\ (Foreign(p)' => act'[p].who = c)
       /\ \A q \in Procs \ {p} : Foreign(q) => act[q].who # c
  BY <1>1, <1>4, <1>5, <1>7, Zenon
<1> QED
  BY <1>1, <1>7, <1>8, <1>9, <1>10, <1>11, <1>12, <1>13, <1>14, <1>15, <1>16, ChildStep, ZenonT(60)

\* An iteration of uvmcopy() for a page that is not resident, or for a resident
\* one, with memory.
LEMMA ForkCopyInv ==
  ASSUME Inv, NEW p \in Procs, NEW c \in Procs, c = act[p].who, ForkCopy(p),
         panic' = panic,
         ~pagetable[p][act[p].a].v \/ free # {}
  PROVE  Inv'
<1> DEFINE i == act[p].a
           pte == pagetable[p][i]
           e == [pte EXCEPT !.frame = kalloc]
           t == IF pte.v THEN [pagetable[c] EXCEPT ![i] = e] ELSE pagetable[c]
           b == [act[p] EXCEPT !.a = i + 1]
<1>1. pstate[p] = "RUN" /\ act[p].op = "copy" /\ i < act[p].end /\ panic = "none"
  BY Zenon DEF ForkCopy, Running
<1>2. /\ TypeOK /\ ActOK(p) /\ TablesOK(p) /\ MetaOK(p) /\ GoodMeta(meta[p])
      /\ pagetable[p] \in [Pages -> Ptes] /\ sidetable[p] \in [Pages -> Ptes]
      /\ act[p] \in Acts /\ sz[p] \in 0 .. MAX_TOTAL_PAGES
      /\ act[p].a \in 0 .. MAX_TOTAL_PAGES /\ act[p].end \in 0 .. MAX_TOTAL_PAGES
  BY ProcFacts, Zenon
<1>3. /\ c # p /\ act[c] = Idle /\ pstate[c] # "RUN"
      /\ \A q \in Procs \ {p} : Foreign(q) => act[q].who # c
  BY <1>1, ChildFacts, Zenon DEF Foreign
<1>4. /\ ActOK(c) /\ TablesOK(c) /\ MetaOK(c) /\ sz[c] \in 0 .. MAX_TOTAL_PAGES
      /\ pagetable[c] \in [Pages -> Ptes]
  BY <1>3, Zenon DEF Inv, TypeOK
<1>5. i \in Pages /\ i + 1 \in 0 .. MAX_TOTAL_PAGES
  <2>1. i < act[p].end /\ i \in 0 .. MAX_TOTAL_PAGES /\ act[p].end \in 0 .. MAX_TOTAL_PAGES
    BY <1>1, <1>2, Zenon
  <2> HIDE DEF i
  <2> QED  BY <2>1 DEF Pages
<1>6. /\ act[p].then = "none" /\ act[p].end = sz[p] /\ pstate[c] = "USED"
  BY <1>1, <1>2, Zenon DEF ActOK
<1>7. /\ act' = [act EXCEPT ![p] = b]
      /\ IF pte.v THEN /\ pte.frame # NoFrame /\ free' = free \ {kalloc} /\ free # {}
                       /\ mem' = [mem EXCEPT ![kalloc] = mem[pte.frame]]
                       /\ pagetable' = [pagetable EXCEPT ![c] = [pagetable[c] EXCEPT ![i] = e]]
                  ELSE UNCHANGED <<pagetable, free, mem>>
      /\ UNCHANGED <<pstate, parent, sz, sidetable, meta, swapFile, want, shadow>>
  BY <1>1, Zenon DEF ForkCopy
<1>8. e \in Ptes /\ e.v = pte.v /\ e.pg = pte.pg /\ pte.v \in BOOLEAN
      /\ pte.frame \in Frames \cup {NoFrame} /\ (pte.v => ~pte.pg)
  <2>1. pte \in Ptes
    BY <1>2, <1>5, Zenon
  <2>2. kalloc \in Frames \cup {NoFrame}
    BY <1>2, kallocFacts, Zenon
  <2>3. pte.v => ~pte.pg
    BY <1>2, <1>5, Zenon DEF TablesOK, PageOK
  <2> HIDE DEF pte
  <2> QED  BY <2>1, <2>2, <2>3, Zenon DEF Ptes
<1>9. b \in Acts /\ b.op = "copy" /\ b.then = "none" /\ b.a = i + 1 /\ b.end = sz[p] /\ b.who = c
  BY <1>1, <1>2, <1>5, <1>6, Zenon DEF Acts
<1>10. pte = pagetable[p][i]
  BY Zenon
<1> HIDE DEF b, e, pte
<1>11. /\ t \in [Pages -> Ptes]
       /\ \A j \in Pages \ {i} : t[j] = pagetable[c][j]
       /\ t[i].v <=> pte.v \/ pagetable[c][i].v
       /\ t[i].pg => ~t[i].v
  <2>1. CASE pte.v
    <3>1. t = [pagetable[c] EXCEPT ![i] = e]
      BY <2>1, Zenon
    <3> HIDE DEF t
    <3>2. /\ t \in [Pages -> Ptes] /\ t[i] = e
          /\ \A j \in Pages \ {i} : t[j] = pagetable[c][j]
      <4>1. i \in Pages /\ e \in Ptes /\ pagetable[c] \in [Pages -> Ptes]
        BY <1>4, <1>5, <1>8, Zenon
      <4> QED  BY <3>1, <4>1, Zenon
    <3> QED  BY <1>8, <2>1, <3>2, Zenon
  <2>2. CASE ~pte.v
    <3>1. pagetable[c][i].v \in BOOLEAN
      BY <1>4, <1>5, Zenon DEF Ptes
    <3> QED  BY <1>4, <1>5, <2>2, <3>1, Zenon DEF TablesOK, PageOK
  <2> QED  BY <2>1, <2>2, Zenon
<1>12. pagetable' = [pagetable EXCEPT ![c] = t]
  <2>1. CASE pte.v
    BY <1>7, <2>1, Zenon
  <2>2. CASE ~pte.v
    BY <1>2, <1>3, <1>7, <2>2, Zenon DEF TypeOK
  <2> QED  BY <2>1, <2>2, Zenon
<1>13. free' \subseteq Frames /\ mem' \in [Frames -> Contents]
  <2>1. CASE pte.v
    <3>1. pte.frame \in Frames /\ mem[pte.frame] \in Contents
      BY <1>2, <1>7, <1>8, <2>1, Zenon DEF TypeOK
    <3> QED  BY <1>2, <1>7, <2>1, <3>1, Zenon DEF TypeOK
  <2>2. CASE ~pte.v
    BY <1>2, <1>7, <2>2, Zenon DEF TypeOK
  <2> QED  BY <2>1, <2>2, Zenon
<1> HIDE DEF t
<1>14. /\ pagetable'[c] = t /\ pagetable'[p] = pagetable[p] /\ act'[p] = b /\ act'[c] = Idle
  BY <1>2, <1>3, <1>7, <1>12, Zenon DEF TypeOK
<1>15. TypeOK'
  BY <1>2, <1>3, <1>7, <1>9, <1>11, <1>12, <1>13, ZenonT(40) DEF TypeOK
<1>16. ActOK(p)'
  <2>1. i + 1 <= sz[p]
    <3>1. i < sz[p] /\ i \in 0 .. MAX_TOTAL_PAGES /\ sz[p] \in 0 .. MAX_TOTAL_PAGES
      BY <1>1, <1>2, <1>6, Zenon
    <3> HIDE DEF i
    <3> QED  BY <3>1
  <2>2. \A q \in Procs : Foreign(q)' /\ act'[q].who = c => q = p
    BY <1>2, <1>3, <1>7, Zenon DEF Foreign, TypeOK
  <2> QED  BY <1>1, <1>3, <1>6, <1>7, <1>9, <1>14, <2>1, <2>2 DEF ActOK
<1>17. ActOK(c)'
  BY <1>3, <1>14, IdleFacts, ZenonT(40) DEF ActOK, Foreign
<1>18. TablesOK(p)'
  <2>1. /\ \A j \in Pages \ {i} : (j < i => j < i + 1) /\ (j < i + 1 => j < i)
        /\ i < i + 1
    BY <1>5 DEF Pages
  <2>2. \A j \in Pages : (t[j].v => j < i + 1) /\ (j < i + 1 /\ pagetable[p][j].v => t[j].v)
    <3> TAKE j \in Pages
    <3>1. CASE j = i
      BY <1>10, <1>11, <2>1, <3>1, Zenon
    <3>2. CASE j # i
      BY <1>1, <1>2, <1>11, <2>1, <3>2, Zenon DEF TablesOK, PageOK
    <3> QED  BY <3>1, <3>2, Zenon
  <2> QED  BY <1>1, <1>2, <1>6, <1>7, <1>9, <1>14, <2>2, ZenonT(40) DEF TablesOK, PageOK
<1>19. TablesOK(c)'
  <2>1. \A j \in Pages : t[j].pg => ~t[j].v
    BY <1>4, <1>11, Zenon DEF TablesOK, PageOK
  <2>2. \A j \in Pages : ~sidetable[c][j].v
    BY <1>3, <1>4, IdleFacts, Zenon DEF TablesOK, PageOK
  <2> QED  BY <1>6, <1>7, <1>14, <2>1, <2>2, IdleFacts, Zenon DEF TablesOK, PageOK
<1>20. MetaOK(p)'
  <2>1. Tracked(p)' = Tracked(p)
    BY <1>1, <1>6, <1>7, <1>9, <1>14, Zenon DEF Tracked
  <2> QED  BY <1>1, <1>2, <1>7, <2>1, Zenon DEF MetaOK, GoodMeta, Used
<1>21. MetaOK(c)'
  BY <1>4, <1>6, <1>7, Zenon DEF MetaOK, GoodMeta, Used
<1>22. \A q \in Procs \ {p, c} : /\ pstate'[q] = pstate[q] /\ parent'[q] = parent[q]
                                   /\ sz'[q] = sz[q] /\ act'[q] = act[q]
                                   /\ meta'[q] = meta[q]
                                   /\ pagetable'[q] = pagetable[q]
                                   /\ sidetable'[q] = sidetable[q]
  BY <1>2, <1>7, <1>12, Zenon DEF TypeOK
<1>23. Foreign(p)' => act'[p].who = c
  BY <1>9, <1>14, Zenon
<1> QED
  BY <1>1, <1>3, <1>14, <1>15, <1>16, <1>17, <1>18, <1>19, <1>20, <1>21, <1>22, <1>23, ChildStep, ZenonT(40)

\* uvmcopy() fails for lack of memory.
LEMMA ForkFailInv ==
  ASSUME Inv, NEW p \in Procs, NEW c \in Procs, c = act[p].who, ForkCopy(p),
         pagetable[p][act[p].a].v, free = {}
  PROVE  Inv'
<1> DEFINE i == act[p].a
           b == [Idle EXCEPT !.op = "unmap", !.end = i, !.who = c, !.then = "freeproc"]
<1>1. pstate[p] = "RUN" /\ act[p].op = "copy" /\ i < act[p].end
  BY Zenon DEF ForkCopy, Running
<1>2. /\ TypeOK /\ ActOK(p) /\ TablesOK(p) /\ MetaOK(p) /\ GoodMeta(meta[p])
      /\ pagetable[p] \in [Pages -> Ptes] /\ sidetable[p] \in [Pages -> Ptes]
      /\ act[p] \in Acts /\ sz[p] \in 0 .. MAX_TOTAL_PAGES
      /\ act[p].a \in 0 .. MAX_TOTAL_PAGES /\ act[p].end \in 0 .. MAX_TOTAL_PAGES
  BY ProcFacts, Zenon
<1>3. /\ c # p /\ act[c] = Idle /\ pstate[c] # "RUN"
      /\ \A q \in Procs \ {p} : Foreign(q) => act[q].who # c
  BY <1>1, ChildFacts, Zenon DEF Foreign
<1>4. /\ ActOK(c) /\ TablesOK(c) /\ MetaOK(c) /\ sz[c] \in 0 .. MAX_TOTAL_PAGES
      /\ pagetable[c] \in [Pages -> Ptes]
  BY <1>3, Zenon DEF Inv, TypeOK
<1>5. act[p].then = "none" /\ act[p].end = sz[p] /\ pstate[c] = "USED"
  BY <1>1, <1>2, Zenon DEF ActOK
<1>6. /\ act' = [act EXCEPT ![p] = b]
      /\ UNCHANGED <<pstate, parent, sz, pagetable, sidetable, meta, swapFile, free, mem,
                     want, shadow>>
  BY Zenon DEF ForkCopy
<1>7. b \in Acts /\ b.op = "unmap" /\ b.then = "freeproc" /\ b.a = 0 /\ b.end = i /\ b.who = c
  <2>1. b \in Acts
    BY <1>2, <1>3, IdleFacts, ZenonT(40) DEF Acts
  <2> QED  BY <2>1, Zenon DEF Idle
<1> HIDE DEF b
<1>8. act'[p] = b /\ act'[c] = Idle
  BY <1>2, <1>3, <1>6, Zenon DEF TypeOK
<1>9. TypeOK'
  BY <1>2, <1>6, <1>7, Zenon DEF TypeOK
<1>10. ActOK(p)'
  <2>1. \A q \in Procs : Foreign(q)' /\ act'[q].who = c => q = p
    BY <1>2, <1>3, <1>6, Zenon DEF Foreign, TypeOK
  <2> QED  BY <1>1, <1>3, <1>5, <1>6, <1>7, <1>8, <2>1, Zenon DEF ActOK
<1>11. ActOK(c)'
  BY <1>3, <1>8, IdleFacts, Zenon DEF ActOK, Foreign
<1>12. TablesOK(p)'
  <2>1. \A j \in Pages : 0 <= j
    BY DEF Pages
  <2> QED  BY <1>1, <1>2, <1>5, <1>6, <1>7, <1>8, <2>1, ZenonT(40) DEF TablesOK, PageOK
<1>13. TablesOK(c)'
  BY <1>3, <1>4, <1>5, <1>6, <1>8, IdleFacts, ZenonT(40) DEF TablesOK, PageOK
<1>14. MetaOK(p)'
  <2>1. Tracked(p)' = Tracked(p)
    BY <1>1, <1>5, <1>6, <1>7, <1>8, Zenon DEF Tracked
  <2> QED  BY <1>1, <1>2, <1>6, <2>1, Zenon DEF MetaOK, GoodMeta, Used
<1>15. MetaOK(c)'
  BY <1>4, <1>5, <1>6, Zenon DEF MetaOK, GoodMeta, Used
<1>16. \A q \in Procs \ {p, c} : /\ pstate'[q] = pstate[q] /\ parent'[q] = parent[q]
                                   /\ sz'[q] = sz[q] /\ act'[q] = act[q]
                                   /\ meta'[q] = meta[q]
                                   /\ pagetable'[q] = pagetable[q]
                                   /\ sidetable'[q] = sidetable[q]
  BY <1>2, <1>6, Zenon DEF TypeOK
<1>17. Foreign(p)' => act'[p].who = c
  BY <1>7, <1>8, Zenon
<1> QED
  BY <1>1, <1>3, <1>8, <1>9, <1>10, <1>11, <1>12, <1>13, <1>14, <1>15, <1>16, <1>17, ChildStep, ZenonT(90)

\* The child gets its swap file.
LEMMA createSwapFileInv ==
  ASSUME Inv, NEW p \in Procs, NEW c \in Procs, c = act[p].who, createSwapFile(p)
  PROVE  Inv'
<1> DEFINE b == [act[p] EXCEPT !.op = "copyfile", !.a = 0]
<1>1. pstate[p] = "RUN" /\ act[p].op = "copy" /\ act[p].a >= act[p].end
  BY Zenon DEF createSwapFile, Running
<1>2. /\ TypeOK /\ ActOK(p) /\ TablesOK(p) /\ MetaOK(p) /\ GoodMeta(meta[p])
      /\ pagetable[p] \in [Pages -> Ptes] /\ sidetable[p] \in [Pages -> Ptes]
      /\ act[p] \in Acts /\ sz[p] \in 0 .. MAX_TOTAL_PAGES
      /\ act[p].a \in 0 .. MAX_TOTAL_PAGES /\ act[p].end \in 0 .. MAX_TOTAL_PAGES
  BY ProcFacts, Zenon
<1>3. /\ c # p /\ act[c] = Idle /\ pstate[c] # "RUN"
      /\ \A q \in Procs \ {p} : Foreign(q) => act[q].who # c
  BY <1>1, ChildFacts, Zenon DEF Foreign
<1>4. /\ ActOK(c) /\ TablesOK(c) /\ MetaOK(c) /\ sz[c] \in 0 .. MAX_TOTAL_PAGES
      /\ pagetable[c] \in [Pages -> Ptes]
  BY <1>3, Zenon DEF Inv, TypeOK
<1>5. /\ act[p].then = "none" /\ act[p].end = sz[p] /\ pstate[c] = "USED"
      /\ act[p].a <= act[p].end
  BY <1>1, <1>2, Zenon DEF ActOK
<1>6. act[p].a = sz[p]
  BY <1>1, <1>2, <1>5
<1>7. /\ act' = [act EXCEPT ![p] = b] /\ sz' = [sz EXCEPT ![c] = sz[p]]
      /\ swapFile' = [swapFile EXCEPT ![c] = <<>>]
      /\ UNCHANGED <<pstate, parent, pagetable, sidetable, meta, free, mem, want, shadow>>
  BY Zenon DEF createSwapFile, pt
<1>8. /\ b \in Acts /\ b.op = "copyfile" /\ b.then = "none" /\ b.a = 0 /\ b.end = sz[p]
      /\ b.who = c
  <2>1. 0 \in 0 .. MAX_TOTAL_PAGES
    OBVIOUS
  <2>2. b \in Acts
    BY <1>2, <2>1, Zenon DEF Acts
  <2>3. act[p] \in Acts /\ act[p].who = c
    BY <1>2, Zenon
  <2> QED  BY <1>5, <2>2, <2>3, Zenon DEF Acts
<1> HIDE DEF b
<1>9. act'[p] = b /\ act'[c] = Idle /\ sz'[p] = sz[p] /\ sz'[c] = sz[p]
  BY <1>2, <1>3, <1>7, Zenon DEF TypeOK
<1>10. TypeOK'
  <2>1. <<>> \in Seq(Contents)
    OBVIOUS
  <2> QED  BY <1>2, <1>3, <1>7, <1>8, <2>1, Zenon DEF TypeOK
<1>11. ActOK(p)'
  <2>1. \A q \in Procs : Foreign(q)' /\ act'[q].who = c => q = p
    BY <1>2, <1>3, <1>7, Zenon DEF Foreign, TypeOK
  <2> QED  BY <1>1, <1>3, <1>5, <1>7, <1>8, <1>9, <2>1 DEF ActOK
<1>12. ActOK(c)'
  BY <1>3, <1>9, IdleFacts, ZenonT(40) DEF ActOK, Foreign
<1>13. TablesOK(p)'
  <2>1. \A j \in Pages : /\ pagetable[c][j].v => j < sz[p]
                         /\ pagetable[p][j].v => pagetable[c][j].v
    BY <1>1, <1>2, <1>5, <1>6, Zenon DEF TablesOK, PageOK
  <2>2. SUFFICES ASSUME NEW j \in Pages PROVE PageOK(p, j)'
    BY Zenon DEF TablesOK
  <2>3. PageOK(p, j)
    BY <1>2, Zenon DEF TablesOK
  <2>4. /\ pagetable'[p] = pagetable[p] /\ sidetable'[p] = sidetable[p] /\ pstate'[p] = "RUN"
        /\ act'[p].op = "copyfile" /\ act'[p].then = "none" /\ act'[p].who = c
        /\ pagetable'[c] = pagetable[c]
    BY <1>1, <1>7, <1>8, <1>9, Zenon
  <2> QED  BY <1>1, <1>5, <1>9, <2>1, <2>3, <2>4, Zenon DEF PageOK
<1>14. TablesOK(c)'
  BY <1>3, <1>4, <1>5, <1>7, <1>9, IdleFacts, Zenon DEF TablesOK, PageOK
<1>15. MetaOK(p)'
  <2>1. Tracked(p)' = Tracked(p)
    BY <1>1, <1>5, <1>7, <1>8, <1>9, Zenon DEF Tracked
  <2> QED  BY <1>1, <1>2, <1>7, <2>1, Zenon DEF MetaOK, GoodMeta, Used
<1>16. MetaOK(c)'
  BY <1>4, <1>5, <1>7, Zenon DEF MetaOK, GoodMeta, Used
<1>17. \A q \in Procs \ {p, c} : /\ pstate'[q] = pstate[q] /\ parent'[q] = parent[q]
                                   /\ sz'[q] = sz[q] /\ act'[q] = act[q]
                                   /\ meta'[q] = meta[q]
                                   /\ pagetable'[q] = pagetable[q]
                                   /\ sidetable'[q] = sidetable[q]
  BY <1>2, <1>7, Zenon DEF TypeOK
<1>18. Foreign(p)' => act'[p].who = c
  BY <1>8, <1>9, Zenon
<1> QED
  BY <1>1, <1>3, <1>9, <1>10, <1>11, <1>12, <1>13, <1>14, <1>15, <1>16, <1>17, <1>18, ChildStep, ZenonT(40)

\* What copySwapFile() writes.
LEMMA SlotCopiedType ==
  ASSUME TypeOK, NEW p \in Procs, NEW c \in Procs, c = act[p].who, NEW i \in Pages,
         meta[p].offset[i] # NoOffset
  PROVE  SlotCopied(p, i) \in Seq(Contents)
<1>1. meta[p] \in Metas /\ swapFile[p] \in Seq(Contents) /\ swapFile[c] \in Seq(Contents)
  BY Zenon DEF TypeOK
<1>2. meta[p].offset[i] \in Pages
  BY <1>1, Zenon DEF Metas
<1>3. meta[p].offset[i] \in Nat
  BY <1>2 DEF Pages
<1>4. ReadAt(swapFile[p], meta[p].offset[i]) \in Contents
  BY <1>1, <1>3, ReadAtType, Zenon
<1>5. CanWrite(swapFile[c], meta[p].offset[i]) =>
        WriteAt(swapFile[c], meta[p].offset[i], ReadAt(swapFile[p], meta[p].offset[i]))
          \in Seq(Contents)
  BY <1>1, <1>3, <1>4, WriteAtType, Zenon
<1> QED
  BY <1>1, <1>5, Zenon DEF SlotCopied

\* An iteration of copySwapFile().
LEMMA copySwapFileInv ==
  ASSUME Inv, NEW p \in Procs, NEW c \in Procs, c = act[p].who, copySwapFile(p)
  PROVE  Inv'
<1> DEFINE i == act[p].a
           a == IF meta[p].offset[i] # NoOffset /\ free = {} THEN act[p].end ELSE i + 1
           b == [act[p] EXCEPT !.a = a]
<1>1. pstate[p] = "RUN" /\ act[p].op = "copyfile" /\ i < act[p].end
  BY Zenon DEF copySwapFile, Running
<1>2. /\ TypeOK /\ ActOK(p) /\ TablesOK(p) /\ MetaOK(p) /\ GoodMeta(meta[p])
      /\ pagetable[p] \in [Pages -> Ptes] /\ sidetable[p] \in [Pages -> Ptes]
      /\ act[p] \in Acts /\ sz[p] \in 0 .. MAX_TOTAL_PAGES
      /\ act[p].a \in 0 .. MAX_TOTAL_PAGES /\ act[p].end \in 0 .. MAX_TOTAL_PAGES
  BY ProcFacts, Zenon
<1>3. /\ c # p /\ act[c] = Idle /\ pstate[c] # "RUN"
      /\ \A q \in Procs \ {p} : Foreign(q) => act[q].who # c
  BY <1>1, ChildFacts, Zenon DEF Foreign
<1>4. /\ ActOK(c) /\ TablesOK(c) /\ MetaOK(c) /\ sz[c] \in 0 .. MAX_TOTAL_PAGES
      /\ pagetable[c] \in [Pages -> Ptes]
  BY <1>3, Zenon DEF Inv, TypeOK
<1>5. act[p].then = "none" /\ act[p].end = sz[p] /\ pstate[c] = "USED"
  BY <1>1, <1>2, Zenon DEF ActOK
<1>6. i \in Pages /\ a \in 0 .. MAX_TOTAL_PAGES
  BY <1>1, <1>2 DEF Pages
<1>7. /\ act' = [act EXCEPT ![p] = b]
      /\ UNCHANGED <<pstate, parent, sz, pagetable, sidetable, meta, free, mem, want, shadow>>
      /\ \/ swapFile' = swapFile
         \/ /\ swapFile' = [swapFile EXCEPT ![c] = SlotCopied(p, i)]
            /\ meta[p].offset[i] # NoOffset
  BY Zenon DEF copySwapFile, pt
<1>8. swapFile' \in [Procs -> Seq(Contents)]
  <2>1. meta[p].offset[i] # NoOffset => SlotCopied(p, i) \in Seq(Contents)
    BY <1>2, <1>6, SlotCopiedType, Zenon
  <2>2. swapFile \in [Procs -> Seq(Contents)]
    BY Zenon DEF Inv, TypeOK
  <2> DEFINE s == SlotCopied(p, i)
  <2>3. s \in Seq(Contents) => [swapFile EXCEPT ![c] = s] \in [Procs -> Seq(Contents)]
    <3> HIDE DEF s
    <3> QED  BY <2>2, Zenon
  <2> QED  BY <1>7, <2>1, <2>2, <2>3, Zenon
<1> HIDE DEF a
<1>9. b \in Acts /\ b.op = "copyfile" /\ b.then = "none" /\ b.end = sz[p] /\ b.who = c
  BY <1>1, <1>2, <1>5, <1>6, Zenon DEF Acts
<1> HIDE DEF b
<1>10. act'[p] = b /\ act'[c] = Idle
  BY <1>2, <1>3, <1>7, Zenon DEF TypeOK
<1>11. TypeOK'
  BY <1>2, <1>7, <1>8, <1>9, ZenonT(40) DEF TypeOK
<1>12. ActOK(p)'
  <2>1. \A q \in Procs : Foreign(q)' /\ act'[q].who = c => q = p
    BY <1>2, <1>3, <1>7, Zenon DEF Foreign, TypeOK
  <2> QED  BY <1>1, <1>3, <1>5, <1>7, <1>9, <1>10, <2>1 DEF ActOK
<1>13. ActOK(c)'
  BY <1>3, <1>10, IdleFacts, Zenon DEF ActOK, Foreign
<1>14. TablesOK(p)'
  BY <1>1, <1>2, <1>5, <1>7, <1>9, <1>10, ZenonT(40) DEF TablesOK, PageOK
<1>15. TablesOK(c)'
  BY <1>3, <1>4, <1>5, <1>7, <1>10, IdleFacts, ZenonT(40) DEF TablesOK, PageOK
<1>16. MetaOK(p)'
  <2>1. Tracked(p)' = Tracked(p)
    BY <1>1, <1>5, <1>7, <1>9, <1>10, Zenon DEF Tracked
  <2> QED  BY <1>1, <1>2, <1>7, <2>1, Zenon DEF MetaOK, GoodMeta, Used
<1>17. MetaOK(c)'
  BY <1>4, <1>5, <1>7, Zenon DEF MetaOK, GoodMeta, Used
<1>18. \A q \in Procs \ {p, c} : /\ pstate'[q] = pstate[q] /\ parent'[q] = parent[q]
                                   /\ sz'[q] = sz[q] /\ act'[q] = act[q]
                                   /\ meta'[q] = meta[q]
                                   /\ pagetable'[q] = pagetable[q]
                                   /\ sidetable'[q] = sidetable[q]
  BY <1>2, <1>7, Zenon DEF TypeOK
<1>19. Foreign(p)' => act'[p].who = c
  BY <1>9, <1>10, Zenon
<1> QED
  BY <1>1, <1>3, <1>10, <1>11, <1>12, <1>13, <1>14, <1>15, <1>16, <1>17, <1>18, <1>19, ChildStep,
     ZenonT(40)

\* fork() returns and the child can run.
LEMMA ForkDoneInv ==
  ASSUME Inv, NEW p \in Procs, NEW c \in Procs, c = act[p].who, ForkDone(p)
  PROVE  Inv'
<1> DEFINE m == IF p > 2 THEN meta[p] ELSE meta[c]
<1>1. pstate[p] = "RUN" /\ act[p].op = "copyfile"
  BY Zenon DEF ForkDone, Running
<1>2. /\ TypeOK /\ ActOK(p) /\ TablesOK(p) /\ MetaOK(p) /\ GoodMeta(meta[p])
      /\ pagetable[p] \in [Pages -> Ptes] /\ sidetable[p] \in [Pages -> Ptes]
      /\ act[p] \in Acts /\ sz[p] \in 0 .. MAX_TOTAL_PAGES
      /\ act[p].a \in 0 .. MAX_TOTAL_PAGES /\ act[p].end \in 0 .. MAX_TOTAL_PAGES
  BY ProcFacts, Zenon
<1>3. /\ c # p /\ act[c] = Idle /\ pstate[c] # "RUN"
      /\ \A q \in Procs \ {p} : Foreign(q) => act[q].who # c
  BY <1>1, ChildFacts, Zenon DEF Foreign
<1>4. /\ ActOK(c) /\ TablesOK(c) /\ MetaOK(c) /\ sz[c] \in 0 .. MAX_TOTAL_PAGES
      /\ pagetable[c] \in [Pages -> Ptes]
  BY <1>3, Zenon DEF Inv, TypeOK
<1>5. act[p].then = "none" /\ pstate[c] = "USED" /\ Tracked(p) = pagetable[p]
  BY <1>1, <1>2, Zenon DEF ActOK, Tracked
<1>6. GoodMeta(m) /\ m \in Metas /\ \A j \in Used(m) : pagetable[p][j].v /\ j \in Pages
  <2>1. CASE p > 2
    BY <1>1, <1>2, <1>5, <2>1, Zenon DEF MetaOK, Used, GoodMeta
  <2>2. CASE ~(p > 2)
    <3>1. m = NoMeta
      BY <1>4, <1>5, <2>2, Zenon DEF MetaOK
    <3> QED  BY <3>1, NoMetaGood, Zenon DEF GoodMeta
  <2> QED  BY <2>1, <2>2, Zenon
<1>7. /\ act' = [act EXCEPT ![p] = Idle] /\ meta' = [meta EXCEPT ![c] = m]
      /\ parent' = [parent EXCEPT ![c] = p] /\ pstate' = [pstate EXCEPT ![c] = "RUN"]
      /\ UNCHANGED <<sz, pagetable, sidetable, swapFile, free, mem, want>>
      /\ shadow' = [shadow EXCEPT ![c] = shadow[p]]
  <2>1. meta' = [meta EXCEPT ![c] = m]
    BY <1>2, Zenon DEF ForkDone, TypeOK
  <2> QED  BY <2>1, Zenon DEF ForkDone, pt
<1> HIDE DEF m
<1>8. /\ act'[p] = Idle /\ act'[c] = Idle /\ meta'[p] = meta[p] /\ meta'[c] = m
      /\ pstate'[c] = "RUN" /\ pstate'[p] = "RUN"
  BY <1>1, <1>2, <1>3, <1>7, Zenon DEF TypeOK
<1>9. TypeOK'
  BY <1>2, <1>6, <1>7, IdleFacts, Zenon DEF TypeOK
<1>10. ActOK(p)' /\ ActOK(c)'
  BY <1>8, IdleFacts, Zenon DEF ActOK, Foreign
<1>11. TablesOK(p)'
  BY <1>1, <1>2, <1>5, <1>7, <1>8, IdleFacts, ZenonT(40) DEF TablesOK, PageOK
<1>12. TablesOK(c)'
  <2>1. \A j \in Pages : pagetable[c][j].v => j < sz[c]
    BY <1>1, <1>2, Zenon DEF TablesOK, PageOK
  <2> QED  BY <1>3, <1>4, <1>7, <1>8, <2>1, IdleFacts, ZenonT(40) DEF TablesOK, PageOK
<1>13. MetaOK(p)'
  <2>1. Tracked(p)' = pagetable[p]
    BY <1>7, <1>8, IdleFacts, Zenon DEF Tracked
  <2> QED  BY <1>1, <1>2, <1>5, <1>8, <2>1, Zenon DEF MetaOK, GoodMeta, Used
<1>14. MetaOK(c)'
  <2>1. Tracked(c)' = pagetable[c]
    BY <1>7, <1>8, IdleFacts, Zenon DEF Tracked
  <2>2. \A j \in Pages : pagetable[p][j].v => pagetable[c][j].v
    BY <1>1, <1>2, Zenon DEF TablesOK, PageOK
  <2>3. \A j \in Used(m) : pagetable[c][j].v
    BY <1>6, <2>2, Zenon
  <2> QED  BY <1>6, <1>8, <2>1, <2>3, Zenon DEF MetaOK, GoodMeta, Used
<1>15. \A q \in Procs \ {p, c} : /\ pstate'[q] = pstate[q] /\ parent'[q] = parent[q]
                                   /\ sz'[q] = sz[q] /\ act'[q] = act[q]
                                   /\ meta'[q] = meta[q]
                                   /\ pagetable'[q] = pagetable[q]
                                   /\ sidetable'[q] = sidetable[q]
  BY <1>2, <1>7, Zenon DEF TypeOK
<1>16. Foreign(p)' => act'[p].who = c
  BY <1>8, IdleFacts, Zenon DEF Foreign
<1> QED
  BY <1>1, <1>3, <1>8, <1>9, <1>10, <1>11, <1>12, <1>13, <1>14, <1>15, <1>16, ChildStep,
     ZenonT(40)

-----------------------------------------------------------------------------
(***************************************************************************)
(* exit() and wait().                                                      *)
(***************************************************************************)

\* exit() and the killing of a process.
LEMMA exitInv ==
  ASSUME Inv, NEW p \in Procs, exit(p), pstate[p] = "RUN", act[p] = Idle
  PROVE  Inv'
<1>1. TypeOK'
  <2>1. TypeOK
    BY Zenon DEF Inv
  <2>2. parent' \in [Procs -> Procs \cup {0}]
    BY <2>1, ProcsAssumption DEF TypeOK, exit, initproc
  <2>3. /\ pstate' \in [Procs -> {"UNUSED", "USED", "RUN", "ZOMBIE"}]
        /\ swapFile' \in [Procs -> Seq(Contents)]
        /\ want' \in [Procs -> Pages \cup {NoWant}]
    <3>1. <<>> \in Seq(Contents)
      OBVIOUS
    <3> QED  BY <2>1, <3>1, Zenon DEF TypeOK, exit
  <2>4. UNCHANGED <<sz, pagetable, sidetable, meta, free, mem, act, shadow>>
    BY Zenon DEF exit, pt
  <2> QED  BY <2>1, <2>2, <2>3, <2>4, Zenon DEF TypeOK
<1>2. /\ sz' = sz /\ pagetable' = pagetable /\ sidetable' = sidetable /\ meta' = meta
      /\ act' = act /\ pstate'[p] = "ZOMBIE"
      /\ \A q \in Procs \ {p} : pstate'[q] = pstate[q]
      /\ \A q \in Procs : parent[q] # p => parent'[q] = parent[q]
  BY Zenon DEF Inv, TypeOK, exit, pt
<1>3. \A q \in Procs : Foreign(q)' = Foreign(q) /\ Tracked(q)' = Tracked(q)
  BY <1>2, Zenon DEF Foreign, Tracked
<1>4. ASSUME NEW q \in Procs PROVE ActOK(q)' /\ TablesOK(q)' /\ MetaOK(q)'
  <2>1. ActOK(q) /\ TablesOK(q) /\ MetaOK(q)
    BY Zenon DEF Inv
  <2>2. ActOK(q)'
    <3>1. CASE q = p
      BY <1>2, <1>3, <3>1, IdleFacts, Zenon DEF ActOK, Foreign
    <3>2. CASE q # p
      <4>1. Foreign(q) => /\ act[q].who \in Procs \ {p}
                          /\ pstate[act[q].who] = "USED" \/ parent[act[q].who] # p
        BY <2>1, <3>2, Zenon DEF ActOK, Foreign
      <4>2. Foreign(q) => /\ pstate'[act[q].who] = pstate[act[q].who]
                          /\ \/ pstate[act[q].who] = "USED"
                             \/ parent'[act[q].who] = parent[act[q].who]
        BY <1>2, <4>1, Zenon
      <4> QED  BY <1>2, <1>3, <2>1, <3>2, <4>2, ZenonT(40) DEF ActOK, Foreign
    <3> QED  BY <3>1, <3>2, Zenon
  <2>3. TablesOK(q)'
    <3>1. CASE q = p
      BY <1>2, <2>1, <3>1, IdleFacts, ZenonT(40) DEF TablesOK, PageOK
    <3>2. CASE q # p
      <4>1. SUFFICES ASSUME NEW i \in Pages PROVE PageOK(q, i)'
        BY Zenon DEF TablesOK
      <4>2. PageOK(q, i) /\ pstate'[q] = pstate[q]
        BY <1>2, <2>1, <3>2, Zenon DEF TablesOK
      <4>3. sz' = sz /\ pagetable' = pagetable /\ sidetable' = sidetable /\ act' = act
        BY <1>2, Zenon
      <4> QED  BY <4>2, <4>3, Zenon DEF PageOK
    <3> QED  BY <3>1, <3>2, Zenon
  <2>4. MetaOK(q)'
    <3>1. CASE q = p
      BY <1>2, <2>1, <3>1, Zenon DEF MetaOK, GoodMeta, Used
    <3>2. CASE q # p
      BY <1>2, <1>3, <2>1, <3>2, Zenon DEF MetaOK, GoodMeta, Used
    <3> QED  BY <3>1, <3>2, Zenon
  <2> QED  BY <2>2, <2>3, <2>4, Zenon
<1> QED
  BY <1>1, <1>4, Zenon DEF Inv

\* wait() finds a zombie.
LEMMA WaitInv ==
  ASSUME Inv, NEW p \in Procs, NEW c \in Procs, Wait(p, c)
  PROVE  Inv'
<1> DEFINE b == [Idle EXCEPT !.op = "unmap", !.end = sz[c], !.who = c, !.then = "freeproc"]
<1>1. /\ pstate[p] = "RUN" /\ act[p] = Idle /\ pstate[c] = "ZOMBIE" /\ parent[c] = p
      /\ p # c
  BY Zenon DEF Wait, Syscall, InUser, Running
<1>2. /\ TypeOK /\ ActOK(p) /\ TablesOK(p) /\ MetaOK(p) /\ GoodMeta(meta[p])
      /\ pagetable[p] \in [Pages -> Ptes] /\ sidetable[p] \in [Pages -> Ptes]
      /\ act[p] \in Acts /\ sz[p] \in 0 .. MAX_TOTAL_PAGES
      /\ act[p].a \in 0 .. MAX_TOTAL_PAGES /\ act[p].end \in 0 .. MAX_TOTAL_PAGES
  BY ProcFacts, Zenon
<1>3. /\ ActOK(c) /\ TablesOK(c) /\ MetaOK(c) /\ act[c] = Idle
      /\ act[p].op = "user" /\ act[p].then = "none"
      /\ sz[c] \in 0 .. MAX_TOTAL_PAGES
  BY <1>1, IdleFacts, ZenonT(40) DEF Inv, ActOK, TypeOK
<1>4. \A q \in Procs : Foreign(q) => act[q].who # c
  <2> SUFFICES ASSUME NEW q \in Procs, Foreign(q), act[q].who = c PROVE FALSE
    BY Zenon
  <2>1. ActOK(q)
    BY Zenon DEF Inv
  <2>2. q # p
    BY <1>1, IdleFacts, Zenon DEF Foreign
  <2> QED  BY <1>1, <2>1, <2>2, Zenon DEF ActOK, Foreign
<1>5. /\ b \in Acts /\ b.op = "unmap" /\ b.then = "freeproc" /\ b.a = 0 /\ b.end = sz[c]
      /\ b.who = c
  <2>1. b \in Acts
    BY <1>3, IdleFacts, Zenon DEF Acts
  <2> QED  BY <2>1, Zenon DEF Idle
<1>6. /\ act' = [act EXCEPT ![p] = b]
      /\ UNCHANGED <<pstate, parent, sz, pagetable, sidetable, meta, swapFile, free, mem,
                     want, shadow>>
  BY Zenon DEF Wait, pt
<1> HIDE DEF b
<1>7. act'[c] = Idle /\ act'[p] = b
  BY <1>1, <1>2, <1>3, <1>6, Zenon DEF TypeOK
<1>8. TypeOK'
  BY <1>2, <1>5, <1>6, Zenon DEF TypeOK
<1>9. ActOK(p)'
  <2>1. \A q \in Procs : Foreign(q)' /\ act'[q].who = c => q = p
    BY <1>2, <1>4, <1>6, Zenon DEF Foreign, TypeOK
  <2> QED  BY <1>1, <1>5, <1>6, <1>7, <2>1, Zenon DEF ActOK
<1>10. ActOK(c)'
  BY <1>3, <1>7, IdleFacts, ZenonT(40) DEF ActOK, Foreign
<1>11. TablesOK(p)'
  <2>1. \A i \in Pages : pagetable[c][i].v => 0 <= i /\ i < sz[c]
    <3>1. \A i \in Pages : 0 <= i
      BY DEF Pages
    <3> QED  BY <1>1, <1>3, <3>1, IdleFacts, Zenon DEF TablesOK, PageOK
  <2> QED  BY <1>1, <1>2, <1>3, <1>5, <1>6, <1>7, <2>1, ZenonT(40) DEF TablesOK, PageOK
<1>12. TablesOK(c)'
  BY <1>1, <1>3, <1>6, <1>7, IdleFacts, Zenon DEF TablesOK, PageOK
<1>13. MetaOK(p)'
  <2>1. Tracked(p)' = Tracked(p)
    BY <1>3, <1>5, <1>6, <1>7, Zenon DEF Tracked
  <2> QED  BY <1>1, <1>2, <1>6, <2>1, Zenon DEF MetaOK, GoodMeta, Used
<1>14. MetaOK(c)'
  BY <1>1, <1>3, <1>6, Zenon DEF MetaOK, GoodMeta, Used
<1>15. \A q \in Procs \ {p, c} : /\ pstate'[q] = pstate[q] /\ parent'[q] = parent[q]
                                   /\ sz'[q] = sz[q] /\ act'[q] = act[q]
                                   /\ meta'[q] = meta[q]
                                   /\ pagetable'[q] = pagetable[q]
                                   /\ sidetable'[q] = sidetable[q]
  BY <1>2, <1>6, Zenon DEF TypeOK
<1>16. /\ pstate[c] # "RUN" /\ (Foreign(p)' => act'[p].who = c)
       /\ \A q \in Procs \ {p} : Foreign(q) => act[q].who # c
  BY <1>1, <1>4, <1>5, <1>7, Zenon
<1> QED
  BY <1>1, <1>7, <1>8, <1>9, <1>10, <1>11, <1>12, <1>13, <1>14, <1>15, <1>16, ChildStep, ZenonT(40)

\* An iteration of uvmunmap() on a child that is being freed.
LEMMA UnmapChildInv ==
  ASSUME Inv, NEW p \in Procs, NEW c \in Procs, c = act[p].who, UnmapPage(p),
         act[p].then = "freeproc", panic' = panic
  PROVE  Inv'
<1> DEFINE i == act[p].a
           pte == pagetable[c][i]
           t == [pagetable[c] EXCEPT ![i] = NoPte]
           m == IF pte.v THEN Unmapped(meta[p], i) ELSE SlotForgotten(meta[p], i)
           b == [act[p] EXCEPT !.a = i + 1]
<1>1. pstate[p] = "RUN" /\ act[p].op = "unmap" /\ i < act[p].end /\ panic = "none"
  BY Zenon DEF UnmapPage, Running
<1>2. /\ TypeOK /\ ActOK(p) /\ TablesOK(p) /\ MetaOK(p) /\ GoodMeta(meta[p])
      /\ pagetable[p] \in [Pages -> Ptes] /\ sidetable[p] \in [Pages -> Ptes]
      /\ act[p] \in Acts /\ sz[p] \in 0 .. MAX_TOTAL_PAGES
      /\ act[p].a \in 0 .. MAX_TOTAL_PAGES /\ act[p].end \in 0 .. MAX_TOTAL_PAGES
  BY ProcFacts, Zenon
<1>3. /\ c # p /\ act[c] = Idle /\ pstate[c] # "RUN"
      /\ \A q \in Procs \ {p} : Foreign(q) => act[q].who # c
  BY <1>1, ChildFacts, Zenon DEF Foreign
<1>4. /\ ActOK(c) /\ TablesOK(c) /\ MetaOK(c) /\ sz[c] \in 0 .. MAX_TOTAL_PAGES
      /\ pagetable[c] \in [Pages -> Ptes]
  BY <1>3, Zenon DEF Inv, TypeOK
<1>5. i \in Pages /\ i + 1 \in 0 .. MAX_TOTAL_PAGES
  <2>1. i < act[p].end /\ i \in 0 .. MAX_TOTAL_PAGES /\ act[p].end \in 0 .. MAX_TOTAL_PAGES
    BY <1>1, <1>2, Zenon
  <2> HIDE DEF i
  <2> QED  BY <2>1 DEF Pages
<1>6. pte \in Ptes /\ pte.v \in BOOLEAN /\ pte.frame \in Frames \cup {NoFrame}
  <2>1. pte \in Ptes
    BY <1>4, <1>5, Zenon
  <2> HIDE DEF pte
  <2> QED  BY <2>1, Zenon DEF Ptes
<1>7. /\ ~(pte.v /\ pte.frame = NoFrame)
      /\ IF pte.v
         THEN /\ free' = free \cup {pte.frame}
              /\ mem' = [mem EXCEPT ![pte.frame] = Junk]
              /\ meta' = [meta EXCEPT ![p] = Unmapped(@, i)]
         ELSE /\ meta' = [meta EXCEPT ![p] = SlotForgotten(@, i)]
              /\ UNCHANGED <<free, mem>>
      /\ pagetable' = [pagetable EXCEPT ![c] = t] /\ UNCHANGED sidetable
      /\ act' = [act EXCEPT ![p] = b]
      /\ shadow' = [shadow EXCEPT ![c][i] = Junk]
      /\ UNCHANGED <<pstate, parent, sz, swapFile, want>>
  BY <1>1, Zenon DEF UnmapPage, Panic
<1>8. b \in Acts /\ b.op = "unmap" /\ b.then = "freeproc" /\ b.a = i + 1
      /\ b.end = act[p].end /\ b.who = c
  BY <1>1, <1>2, <1>5, Zenon DEF Acts
<1>9. t \in [Pages -> Ptes] /\ t[i] = NoPte /\ \A j \in Pages \ {i} : t[j] = pagetable[c][j]
  BY <1>4, <1>5, PteFacts, PteStep
<1>10. shadow' \in [Procs -> [Pages -> Contents]]
  BY <1>2, <1>5, <1>7, ContentsFacts, Zenon DEF TypeOK
<1> HIDE DEF b, t, pte
<1>11. GoodMeta(m) /\ m \in Metas /\ Used(m) \subseteq Used(meta[p])
  BY <1>2, <1>5, <1>6, UnmapMeta, Zenon
<1>12. meta' = [meta EXCEPT ![p] = m]
  BY <1>7, Zenon
<1>13. free' \subseteq Frames /\ mem' \in [Frames -> Contents]
  <2>1. CASE pte.v
    <3>1. pte.frame \in Frames /\ free' = free \cup {pte.frame}
      BY <1>6, <1>7, <2>1, Zenon
    <3>2. mem' = [mem EXCEPT ![pte.frame] = Junk]
      BY <1>7, <2>1, Zenon
    <3> QED  BY <1>2, <3>1, <3>2, ContentsFacts, Zenon DEF TypeOK
  <2>2. CASE ~pte.v
    BY <1>2, <1>7, <2>2, Zenon DEF TypeOK
  <2> QED  BY <2>1, <2>2, Zenon
<1> HIDE DEF m
<1>14. /\ act'[p] = b /\ act'[c] = Idle /\ pagetable'[c] = t /\ pagetable'[p] = pagetable[p]
       /\ meta'[p] = m /\ meta'[c] = meta[c]
  BY <1>2, <1>3, <1>7, <1>12, Zenon DEF TypeOK
<1>15. TypeOK'
  BY <1>2, <1>7, <1>8, <1>9, <1>10, <1>11, <1>12, <1>13, ZenonT(40) DEF TypeOK
<1>16. ActOK(p)'
  <2>1. \A q \in Procs : Foreign(q)' /\ act'[q].who = c => q = p
    BY <1>2, <1>3, <1>7, Zenon DEF Foreign, TypeOK
  <2>2. \/ pstate[c] = "USED"
        \/ pstate[c] = "ZOMBIE" /\ parent[c] = p
    BY <1>2, Zenon DEF ActOK
  <2> QED  BY <1>1, <1>3, <1>7, <1>8, <1>14, <2>1, <2>2 DEF ActOK
<1>17. ActOK(c)'
  BY <1>3, <1>14, IdleFacts, Zenon DEF ActOK, Foreign
<1>18. TablesOK(p)'
  <2>1. \A j \in Pages \ {i} : i <= j => i + 1 <= j
    BY <1>5 DEF Pages
  <2>2. \A j \in Pages : t[j].v => i + 1 <= j /\ j < act[p].end
    BY <1>2, <1>9, <2>1, PteFacts, Zenon DEF TablesOK, PageOK
  <2>3. \A j \in Pages : /\ pagetable[p][j].pg => ~pagetable[p][j].v
                         /\ sidetable[p][j].pg => ~sidetable[p][j].v
                         /\ pagetable[p][j].v => j < sz[p]
                         /\ ~sidetable[p][j].v
    BY <1>1, <1>2, Zenon DEF TablesOK, PageOK
  <2>4. /\ act'[p].op = "unmap" /\ act'[p].then = "freeproc" /\ act'[p].a = i + 1
        /\ act'[p].end = act[p].end /\ pagetable'[act'[p].who] = t
        /\ sidetable'[p] = sidetable[p] /\ pstate'[p] = "RUN" /\ sz'[p] = sz[p]
    BY <1>1, <1>7, <1>8, <1>14, Zenon
  <2> QED  BY <1>14, <2>2, <2>3, <2>4, Zenon DEF TablesOK, PageOK
<1>19. TablesOK(c)'
  <2>1. \A j \in Pages : (t[j].v => pagetable[c][j].v) /\ (t[j].pg => ~t[j].v)
    BY <1>4, <1>9, PteFacts, Zenon DEF TablesOK, PageOK
  <2> QED  BY <1>3, <1>4, <1>7, <1>14, <2>1, IdleFacts, Zenon DEF TablesOK, PageOK
<1>20. MetaOK(p)'
  <2>1. Tracked(p)' = Tracked(p)
    BY <1>1, <1>7, <1>8, <1>14, Zenon DEF Tracked
  <2>2. \A j \in Used(m) : Tracked(p)[j].v
    BY <1>1, <1>2, <1>11, Zenon DEF MetaOK
  <2> QED  BY <1>1, <1>7, <1>11, <1>14, <2>1, <2>2, Zenon DEF MetaOK, GoodMeta, Used
<1>21. MetaOK(c)'
  BY <1>3, <1>4, <1>7, <1>14, Zenon DEF MetaOK, GoodMeta, Used
<1>22. \A q \in Procs \ {p, c} : /\ pstate'[q] = pstate[q] /\ parent'[q] = parent[q]
                                   /\ sz'[q] = sz[q] /\ act'[q] = act[q]
                                   /\ meta'[q] = meta[q]
                                   /\ pagetable'[q] = pagetable[q]
                                   /\ sidetable'[q] = sidetable[q]
  BY <1>2, <1>7, <1>12, Zenon DEF TypeOK
<1>23. Foreign(p)' => act'[p].who = c
  BY <1>8, <1>14, Zenon
<1> QED
  BY <1>1, <1>3, <1>14, <1>15, <1>16, <1>17, <1>18, <1>19, <1>20, <1>21, <1>22, <1>23, ChildStep,
     ZenonT(40)

\* freeproc() returns.
LEMMA UnmapDoneChildInv ==
  ASSUME Inv, NEW p \in Procs, NEW c \in Procs, c = act[p].who, UnmapDone(p),
         act[p].then = "freeproc"
  PROVE  Inv'
<1>1. pstate[p] = "RUN" /\ act[p].op = "unmap" /\ act[p].a >= act[p].end
  BY Zenon DEF UnmapDone, Running
<1>2. /\ TypeOK /\ ActOK(p) /\ TablesOK(p) /\ MetaOK(p) /\ GoodMeta(meta[p])
      /\ pagetable[p] \in [Pages -> Ptes] /\ sidetable[p] \in [Pages -> Ptes]
      /\ act[p] \in Acts /\ sz[p] \in 0 .. MAX_TOTAL_PAGES
      /\ act[p].a \in 0 .. MAX_TOTAL_PAGES /\ act[p].end \in 0 .. MAX_TOTAL_PAGES
  BY ProcFacts, Zenon
<1>3. /\ c # p /\ act[c] = Idle /\ pstate[c] # "RUN"
      /\ \A q \in Procs \ {p} : Foreign(q) => act[q].who # c
  BY <1>1, ChildFacts, Zenon DEF Foreign
<1>4. /\ ActOK(c) /\ TablesOK(c) /\ MetaOK(c) /\ sz[c] \in 0 .. MAX_TOTAL_PAGES
      /\ pagetable[c] \in [Pages -> Ptes]
  BY <1>3, Zenon DEF Inv, TypeOK
<1>5. /\ act' = [act EXCEPT ![p] = Idle] /\ meta' = [meta EXCEPT ![c] = NoMeta]
      /\ parent' = [parent EXCEPT ![c] = 0] /\ pstate' = [pstate EXCEPT ![c] = "UNUSED"]
      /\ sz' = [sz EXCEPT ![c] = 0]
      /\ UNCHANGED <<pagetable, sidetable, swapFile, free, mem, want, shadow>>
  BY Zenon DEF UnmapDone, pt
<1>6. /\ act'[p] = Idle /\ act'[c] = Idle /\ meta'[p] = meta[p] /\ meta'[c] = NoMeta
      /\ pstate'[c] = "UNUSED" /\ pstate'[p] = "RUN" /\ sz'[p] = sz[p]
  BY <1>1, <1>2, <1>3, <1>5, Zenon DEF TypeOK
<1>7. TypeOK'
  <2>1. NoMeta \in Metas /\ Idle \in Acts /\ 0 \in 0 .. MAX_TOTAL_PAGES
    BY NoMetaGood, IdleFacts DEF GoodMeta
  <2> QED  BY <1>2, <1>5, <2>1, Zenon DEF TypeOK
<1>8. ActOK(p)' /\ ActOK(c)'
  BY <1>6, IdleFacts, Zenon DEF ActOK, Foreign
<1>9. TablesOK(p)'
  BY <1>1, <1>2, <1>5, <1>6, IdleFacts, Zenon DEF TablesOK, PageOK
<1>10. TablesOK(c)'
  <2>1. \A j \in Pages : ~(act[p].a <= j /\ j < act[p].end)
    BY <1>1, <1>2 DEF Pages
  <2>2. \A j \in Pages : ~pagetable[c][j].v
    BY <1>2, <2>1, Zenon DEF TablesOK, PageOK
  <2> QED  BY <1>3, <1>4, <1>5, <1>6, <2>2, IdleFacts, Zenon DEF TablesOK, PageOK
<1>11. MetaOK(p)'
  <2>1. Tracked(p)' = Tracked(p)
    BY <1>1, <1>5, <1>6, IdleFacts, Zenon DEF Tracked
  <2> QED  BY <1>1, <1>2, <1>6, <2>1, Zenon DEF MetaOK, GoodMeta, Used
<1>12. MetaOK(c)'
  BY <1>6, NoMetaGood, Zenon DEF MetaOK, GoodMeta, Used
<1>13. \A q \in Procs \ {p, c} : /\ pstate'[q] = pstate[q] /\ parent'[q] = parent[q]
                                   /\ sz'[q] = sz[q] /\ act'[q] = act[q]
                                   /\ meta'[q] = meta[q]
                                   /\ pagetable'[q] = pagetable[q]
                                   /\ sidetable'[q] = sidetable[q]
  BY <1>2, <1>5, Zenon DEF TypeOK
<1>14. Foreign(p)' => act'[p].who = c
  BY <1>6, IdleFacts, Zenon DEF Foreign
<1> QED
  BY <1>1, <1>3, <1>6, <1>7, <1>8, <1>9, <1>10, <1>11, <1>12, <1>13, <1>14, ChildStep,
     ZenonT(60)
=============================================================================

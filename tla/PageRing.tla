------------------------------ MODULE PageRing ------------------------------
(***************************************************************************)
(* The SCFIFO queue as kernel/vm.c keeps it: the array pages[] with the    *)
(* indices head and tail and the count numOfPages of struct proc, and the  *)
(* loops of removePage() and scfifo() over it.  Only the indices live in   *)
(* the ring; the PTE_A bits are in the page table (variable accessed).     *)
(***************************************************************************)
EXTENDS Integers, Sequences, SequencesExt

CONSTANT MAX_TOTAL_PAGES

VARIABLES ring,       \* pages, head, tail, numOfPages of struct proc
          accessed    \* the pages whose PTE_A bit is set

vars == <<ring, accessed>>

NoPage == -1
Pages == 0 .. MAX_TOTAL_PAGES - 1
\* The values of the loop variable i, in order.
Steps == [j \in 1 .. MAX_TOTAL_PAGES |-> j - 1]

EmptyRing == [pages |-> [j \in Pages |-> NoPage],
              head |-> 0, tail |-> -1, numOfPages |-> 0]

in(r, page) ==
  LET t == (IF r.tail = MAX_TOTAL_PAGES - 1 THEN -1 ELSE r.tail) + 1
  IN  [r EXCEPT !.tail = t, !.pages[t] = page, !.numOfPages = @ + 1]

\* Variant: the head wraps to the second slot.
outNoWrap(r) ==
  [r EXCEPT !.head = IF @ = MAX_TOTAL_PAGES - 1 THEN 1 ELSE @ + 1,
            !.numOfPages = @ - 1]

out(r) ==
  [r EXCEPT !.head = IF @ = MAX_TOTAL_PAGES - 1 THEN 0 ELSE @ + 1,
            !.numOfPages = @ - 1]

\* One iteration of the loop of removePage(); its bound is re-read.
removeStep(r, i, pageNumber) ==
  LET page == r.pages[r.head]
  IN  IF i >= r.numOfPages THEN r
      ELSE IF page # pageNumber THEN in(out(r), page)
      ELSE out(r)

removePage(r, pageNumber) ==
  FoldLeft(LAMBDA s, i : removeStep(s, i, pageNumber), r, Steps)

\* One iteration of scfifo(), on [ring, acc, victim]; a victim ends the loop.
scfifoStep(s, i) ==
  LET page == s.ring.pages[s.ring.head]
  IN  IF s.victim # NoPage \/ i >= s.ring.numOfPages THEN s
      ELSE IF page \in s.acc
           THEN [s EXCEPT !.ring = in(out(@), page), !.acc = @ \ {page}]
           ELSE [s EXCEPT !.ring = out(@), !.victim = page]

scfifo(r, acc) ==
  LET s == FoldLeft(scfifoStep, [ring |-> r, acc |-> acc, victim |-> NoPage],
                    Steps)
  IN  IF s.victim # NoPage THEN s
      ELSE [s EXCEPT !.victim = s.ring.pages[s.ring.head], !.ring = out(@)]

\* The pages of a ring from head to tail.
Contents(r) ==
  [j \in 1 .. r.numOfPages |-> r.pages[(r.head + j - 1) % MAX_TOTAL_PAGES]]

-----------------------------------------------------------------------------
Init ==
  /\ ring = EmptyRing
  /\ accessed = {}

Insert(page) ==
  /\ page \notin ToSet(Contents(ring))
  /\ ring' = in(ring, page)
  /\ accessed' = accessed \ {page}

Unmap(page) ==
  /\ ring' = removePage(ring, page)
  /\ accessed' = accessed \ {page}

Select ==
  /\ ring.numOfPages > 0
  /\ LET s == scfifo(ring, accessed)
     IN  ring' = s.ring /\ accessed' = s.acc

Touch(page) ==
  /\ page \in ToSet(Contents(ring))
  /\ accessed' = accessed \cup {page}
  /\ UNCHANGED ring

Next ==
  \/ \E page \in Pages : Insert(page) \/ Unmap(page) \/ Touch(page)
  \/ Select

Spec == Init /\ [][Next]_vars

-----------------------------------------------------------------------------
Fifo == INSTANCE PageFifo WITH queue <- Contents(ring)

\* The ring buffer with its loops behaves as the sequence of PageFifo:
\* wrap-around of head and tail never loses, repeats or invents a page, and
\* removePage() and scfifo() have the closed forms given there.
RingImplementsFifo == Fifo!Spec
=============================================================================

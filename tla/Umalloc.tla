------------------------------ MODULE Umalloc ------------------------------
(***************************************************************************)
(* malloc() and free() of user/umalloc.c: a circular list of free blocks   *)
(* in address order, through headers in the blocks themselves.             *)
(*                                                                         *)
(* Addresses and sizes count headers.  Address 0 is the header base.       *)
(***************************************************************************)
EXTENDS Integers, Sequences, FiniteSets, FiniteSetsExt

CONSTANTS
  HeaderSize,    \* sizeof(Header)
  Requests,      \* numbers of bytes that are asked for
  MinCore,       \* least units that morecore() asks sbrk() for (4096)
  HeapStart,     \* where the break is at first
  MaxBreak       \* sbrk() fails beyond

VARIABLES
  heap,     \* ptr and size of the headers, freep, and the break
  used,     \* history: addresses of the headers of blocks in use
  core,     \* history: units that morecore() got
  failed    \* units of a malloc() that just returned 0, or 0

vars == <<heap, used, core, failed>>

Addrs == 0 .. MaxBreak
base == 0
NULL == -1

-----------------------------------------------------------------------------
(***************************************************************************)
(* free().                                                                 *)
(***************************************************************************)

Wraps(bp, p, next) == p >= next /\ (bp > p \/ bp < next)

RECURSIVE Before(_, _, _)
Before(h, bp, p) ==
  IF (bp > p /\ bp < h.ptr[p]) \/ Wraps(bp, p, h.ptr[p]) THEN p
  ELSE Before(h, bp, h.ptr[p])

JoinedUp(h, bp, p) ==
  IF bp + h.size[bp] = h.ptr[p]
  THEN [h EXCEPT !.size[bp] = @ + h.size[h.ptr[p]], !.ptr[bp] = h.ptr[h.ptr[p]]]
  ELSE [h EXCEPT !.ptr[bp] = h.ptr[p]]

JoinedDown(h, bp, p) ==
  IF p + h.size[p] = bp
  THEN [h EXCEPT !.size[p] = @ + h.size[bp], !.ptr[p] = h.ptr[bp]]
  ELSE [h EXCEPT !.ptr[p] = bp]

Freed(h, bp) == LET p == Before(h, bp, h.freep)
                IN [JoinedDown(JoinedUp(h, bp, p), bp, p) EXCEPT !.freep = p]

-----------------------------------------------------------------------------
(***************************************************************************)
(* malloc().                                                               *)
(***************************************************************************)
CoreSize(nu) == IF nu < MinCore THEN MinCore ELSE nu

\* morecore(), if sbrk() succeeds.
HasCore(h, nu) == h.brk + CoreSize(nu) <= MaxBreak
morecore(h, nu) ==
  Freed([h EXCEPT !.size[h.brk] = CoreSize(nu), !.brk = @ + CoreSize(nu)], h.brk)

\* Variant: the whole block goes, although part of it is returned.
TakenWhole(h, prevp, p, n) ==
  [h |-> [h EXCEPT !.ptr[prevp] = h.ptr[p], !.size[p] = n, !.freep = prevp], a |-> p]

\* The tail end of a block that is too large is returned.
Taken(h, prevp, p, n) ==
  LET a == p + h.size[p] - n
  IN IF h.size[p] = n
     THEN [h |-> [h EXCEPT !.ptr[prevp] = h.ptr[p], !.freep = prevp], a |-> p]
     ELSE [h |-> [h EXCEPT !.size = [@ EXCEPT ![p] = @ - n, ![a] = n], !.freep = prevp], a |-> a]

Searched(h, p) == p = h.freep

RECURSIVE Alloc(_, _, _, _)
Alloc(h, prevp, p, n) ==
  IF h.size[p] >= n THEN Taken(h, prevp, p, n)
  ELSE IF Searched(h, p)
  THEN IF HasCore(h, n)
       THEN LET m == morecore(h, n) IN Alloc(m, m.freep, m.ptr[m.freep], n)
       ELSE [h |-> h, a |-> NULL]
  ELSE Alloc(h, p, h.ptr[p], n)

nunits(nbytes) == (nbytes + HeaderSize - 1) \div HeaderSize + 1

Started(h) == IF h.freep = NULL
              THEN [h EXCEPT !.ptr[base] = base, !.size[base] = 0, !.freep = base] ELSE h

malloc(nbytes) ==
  LET h == Started(heap)
      x == Alloc(h, h.freep, h.ptr[h.freep], nunits(nbytes))
  IN /\ heap' = x.h
     /\ core' = core \cup heap.brk .. x.h.brk - 1
     /\ used' = IF x.a = NULL THEN used ELSE used \cup {x.a}
     /\ failed' = IF x.a = NULL THEN nunits(nbytes) ELSE 0

free(a) ==
  /\ a \in used
  /\ heap' = Freed(heap, a)
  /\ used' = used \ {a}
  /\ failed' = 0 /\ UNCHANGED core

\* The program calls sbrk() itself.
sbrk ==
  /\ heap.brk < MaxBreak
  /\ heap' = [heap EXCEPT !.brk = @ + 1]
  /\ failed' = 0 /\ UNCHANGED <<used, core>>

-----------------------------------------------------------------------------
Init ==
  /\ heap = [ptr |-> [a \in Addrs |-> 0], size |-> [a \in Addrs |-> 0],
             freep |-> NULL, brk |-> HeapStart]
  /\ used = {} /\ core = {} /\ failed = 0

Next == (\E n \in Requests : malloc(n)) \/ (\E a \in used : free(a)) \/ sbrk

Spec == Init /\ [][Next]_vars

-----------------------------------------------------------------------------
(***************************************************************************)
(* Properties.                                                             *)
(***************************************************************************)
RECURSIVE ListFrom(_)
ListFrom(a) == IF heap.ptr[a] = base THEN {a} ELSE {a} \cup ListFrom(heap.ptr[a])
FreeList == IF heap.freep = NULL THEN {} ELSE ListFrom(base) \ {base}

Block(a) == a .. a + heap.size[a] - 1

\* Blocks in use and free blocks divide what morecore() got among them: no unit
\* has two owners, and none is lost.  The list is in address order and neighbours
\* are joined, whatever the order of the calls of free() and where sbrk() put the
\* blocks.  malloc() returns 0 only if no free block is large enough.
UnitsOwnedOnce ==
  LET blocks == used \cup FreeList
  IN /\ used \cap FreeList = {}
     /\ \A a, b \in blocks : a # b => Block(a) \cap Block(b) = {}
     /\ UNION {Block(a) : a \in blocks} = core
     /\ \A a \in FreeList : heap.ptr[a] = base \/ heap.ptr[a] > a + heap.size[a]
     /\ failed > 0 => \A a \in FreeList : heap.size[a] < failed
=============================================================================

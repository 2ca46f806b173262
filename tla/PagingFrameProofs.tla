-------------------------- MODULE PagingFrameProofs -------------------------
(***************************************************************************)
(* Proof that kalloc() and kfree() are paired: in every state a physical   *)
(* page is on the free list or has exactly one holder (FramesOwnedOnce).   *)
(*                                                                         *)
(* The places that can hold a frame form one set, Cells: the PTEs of the   *)
(* page table of each process, those of the table that exec() builds or    *)
(* frees, and the buffer of swap_in().  The function held gives the frame  *)
(* in each of them, so that a step of the kernel is one of four updates of *)
(* a function: a page of the free list goes to an empty cell, a cell gives *)
(* its page back, a page moves to an empty cell, or two tables trade       *)
(* places.  What these do to OwnedOnce is proved first, without the state. *)
(***************************************************************************)
EXTENDS Paging, PagingMetaProofs

Cells == Procs \X {"table", "side", "buf"} \X Pages
FrameOf(pte) == IF pte.v THEN pte.frame ELSE NoFrame

held ==
  [c \in Cells |->
     IF c[2] = "table" THEN FrameOf(pagetable[c[1]][c[3]])
     ELSE IF c[2] = "side" THEN FrameOf(sidetable[c[1]][c[3]])
     ELSE IF c[3] = 0 THEN act[c[1]].buf ELSE NoFrame]

\* Two cells never hold one frame, and the free list has the frames of no cell.
OwnedOnce(h, fr) ==
  /\ \A x, y \in Cells : h[x] = h[y] /\ h[x] # NoFrame => x = y
  /\ \A f \in Frames : f \in fr <=> \A x \in Cells : h[x] # f

\* The inductive invariant, relative to Inv: only swap_in() has a buffer.
FrameInv ==
  /\ OwnedOnce(held, free)
  /\ \A p \in Procs : act[p].op # "swapin" => act[p].buf = NoFrame

-----------------------------------------------------------------------------
\* kalloc() into an empty cell; it may have returned the null pointer.
LEMMA AllocOwned ==
  ASSUME NEW h \in [Cells -> Frames \cup {NoFrame}], NEW fr \in SUBSET Frames,
         OwnedOnce(h, fr), NEW x \in Cells, h[x] = NoFrame, NEW f \in fr \cup {NoFrame}
  PROVE  OwnedOnce([h EXCEPT ![x] = f], fr \ {f})
<1> DEFINE g == [h EXCEPT ![x] = f]
<1>1. g[x] = f /\ \A y \in Cells : y # x => g[y] = h[y]
  BY Zenon
<1>2. ASSUME NEW y \in Cells, NEW z \in Cells, g[y] = g[z], g[y] # NoFrame PROVE y = z
  BY <1>1, <1>2, FramesAssumption DEF OwnedOnce
<1>3. ASSUME NEW k \in Frames PROVE k \in fr \ {f} <=> \A y \in Cells : g[y] # k
  BY <1>1, FramesAssumption DEF OwnedOnce
<1> QED  BY <1>2, <1>3, Zenon DEF OwnedOnce

\* kfree() of the page in a cell.
LEMMA FreeOwned ==
  ASSUME NEW h \in [Cells -> Frames \cup {NoFrame}], NEW fr \in SUBSET Frames,
         OwnedOnce(h, fr), NEW x \in Cells, h[x] # NoFrame
  PROVE  OwnedOnce([h EXCEPT ![x] = NoFrame], fr \cup {h[x]})
<1> DEFINE g == [h EXCEPT ![x] = NoFrame]
<1>1. g[x] = NoFrame /\ \A y \in Cells : y # x => g[y] = h[y]
  BY Zenon
<1>2. ASSUME NEW y \in Cells, NEW z \in Cells, g[y] = g[z], g[y] # NoFrame PROVE y = z
  BY <1>1, <1>2 DEF OwnedOnce
<1>3. ASSUME NEW k \in Frames PROVE k \in fr \cup {h[x]} <=> \A y \in Cells : g[y] # k
  BY <1>1, FramesAssumption DEF OwnedOnce
<1> QED  BY <1>2, <1>3, Zenon DEF OwnedOnce

\* A page moves from one cell to an empty one.
LEMMA MoveOwned ==
  ASSUME NEW h \in [Cells -> Frames \cup {NoFrame}], NEW fr \in SUBSET Frames,
         OwnedOnce(h, fr), NEW x \in Cells, NEW y \in Cells, x # y, h[x] = NoFrame
  PROVE  OwnedOnce([h EXCEPT ![x] = h[y], ![y] = NoFrame], fr)
<1> DEFINE g == [h EXCEPT ![x] = h[y], ![y] = NoFrame]
<1>1. g[x] = h[y] /\ g[y] = NoFrame /\ \A z \in Cells : z # x /\ z # y => g[z] = h[z]
  OBVIOUS
<1>2. ASSUME NEW z \in Cells, NEW w \in Cells, g[z] = g[w], g[z] # NoFrame PROVE z = w
  BY <1>1, <1>2 DEF OwnedOnce
<1>3. ASSUME NEW k \in Frames PROVE k \in fr <=> \A z \in Cells : g[z] # k
  BY <1>1, FramesAssumption DEF OwnedOnce
<1> QED  BY <1>2, <1>3, Zenon DEF OwnedOnce

\* Cells trade places.
LEMMA SwapOwned ==
  ASSUME NEW h, NEW fr, OwnedOnce(h, fr), NEW s \in [Cells -> Cells],
         \A x \in Cells : s[s[x]] = x
  PROVE  OwnedOnce([x \in Cells |-> h[s[x]]], fr)
<1> DEFINE g == [x \in Cells |-> h[s[x]]]
<1>1. ASSUME NEW z \in Cells, NEW w \in Cells, g[z] = g[w], g[z] # NoFrame PROVE z = w
  <2>1. s[z] = s[w]
    BY <1>1, Zenon DEF OwnedOnce
  <2> QED  BY <2>1, Zenon
<1>2. ASSUME NEW k \in Frames PROVE k \in fr <=> \A z \in Cells : g[z] # k
  BY Zenon DEF OwnedOnce
<1> QED  BY <1>1, <1>2, Zenon DEF OwnedOnce

-----------------------------------------------------------------------------
\* What held is, cell by cell.
LEMMA CellFacts ==
  ASSUME NEW q \in Procs, NEW j \in Pages
  PROVE  /\ <<q, "table", j>> \in Cells /\ <<q, "side", j>> \in Cells
         /\ <<q, "buf", j>> \in Cells
         /\ held[<<q, "table", j>>] = FrameOf(pagetable[q][j])
         /\ held[<<q, "side", j>>] = FrameOf(sidetable[q][j])
         /\ held[<<q, "buf", j>>] = IF j = 0 THEN act[q].buf ELSE NoFrame
BY DEF Cells, held

LEMMA HeldType ==
  ASSUME TypeOK
  PROVE  held \in [Cells -> Frames \cup {NoFrame}] /\ free \in SUBSET Frames
<1>1. ASSUME NEW e \in Ptes PROVE FrameOf(e) \in Frames \cup {NoFrame}
  BY Zenon DEF Ptes, FrameOf
<1>2. ASSUME NEW q \in Procs, NEW j \in Pages
      PROVE  /\ FrameOf(pagetable[q][j]) \in Frames \cup {NoFrame}
             /\ FrameOf(sidetable[q][j]) \in Frames \cup {NoFrame}
             /\ act[q].buf \in Frames \cup {NoFrame}
  <2>1. pagetable[q][j] \in Ptes /\ sidetable[q][j] \in Ptes /\ act[q] \in Acts
    BY Zenon DEF TypeOK
  <2>2. act[q].buf \in Frames \cup {NoFrame}
    BY <2>1, Zenon DEF Acts
  <2> QED  BY <1>1, <2>1, <2>2, Zenon
<1>3. ASSUME NEW c \in Cells PROVE c[1] \in Procs /\ c[3] \in Pages
  BY DEF Cells
<1>4. ASSUME NEW c \in Cells PROVE held[c] \in Frames \cup {NoFrame}
  BY <1>2, <1>3 DEF held
<1> QED  BY <1>4, Zenon DEF held, TypeOK

\* How to find held after a step.
HoldsAfter(h, q, j) ==
  /\ FrameOf(pagetable'[q][j]) = h[<<q, "table", j>>]
  /\ FrameOf(sidetable'[q][j]) = h[<<q, "side", j>>]
  /\ (IF j = 0 THEN act'[q].buf ELSE NoFrame) = h[<<q, "buf", j>>]

LEMMA HeldIs ==
  ASSUME NEW h, h = [c \in Cells |-> h[c]], \A q \in Procs, j \in Pages : HoldsAfter(h, q, j)
  PROVE  held' = h
<1> DEFINE v(c) == IF c[2] = "table" THEN FrameOf(pagetable'[c[1]][c[3]])
                   ELSE IF c[2] = "side" THEN FrameOf(sidetable'[c[1]][c[3]])
                   ELSE IF c[3] = 0 THEN act'[c[1]].buf ELSE NoFrame
<1>1. held' = [c \in Cells |-> v(c)]
  BY Zenon DEF held, FrameOf
<1>2. ASSUME NEW c \in Cells PROVE v(c) = h[c]
  <2>1. PICK q \in Procs, k \in {"table", "side", "buf"}, j \in Pages : c = <<q, k, j>>
    BY DEF Cells
  <2> QED  BY <2>1, Zenon DEF HoldsAfter
<1> QED  BY <1>1, <1>2, Zenon

-----------------------------------------------------------------------------
(***************************************************************************)
(* The same for steps of the kernel.                                       *)
(***************************************************************************)

\* No process gets or gives up the buffer of swap_in().
BuffersKept ==
  \A q \in Procs : /\ act'[q].buf = act[q].buf
                   /\ act[q].op = "swapin" => act'[q].op = "swapin"

LEMMA BufferRule ==
  ASSUME FrameInv, BuffersKept, OwnedOnce(held', free')
  PROVE  FrameInv'
<1>1. OwnedOnce(held, free)'
  BY Zenon DEF OwnedOnce
<1>2. ASSUME NEW q \in Procs, act'[q].op # "swapin" PROVE act'[q].buf = NoFrame
  BY <1>2, Zenon DEF FrameInv, BuffersKept
<1> QED  BY <1>1, <1>2, Zenon DEF FrameInv

\* A process that is not in swap_in() goes on elsewhere in the kernel.
LEMMA BufferKept ==
  ASSUME FrameInv, NEW p \in Procs, act[p].op # "swapin", act'[p].buf = NoFrame,
         \A q \in Procs \ {p} : act'[q] = act[q]
  PROVE  BuffersKept
<1>1. act[p].buf = NoFrame
  BY Zenon DEF FrameInv
<1>2. ASSUME NEW q \in Procs
      PROVE  act'[q].buf = act[q].buf /\ (act[q].op = "swapin" => act'[q].op = "swapin")
  BY <1>1
<1> QED  BY <1>2, Zenon DEF BuffersKept

\* Steps that allocate and free nothing.
LEMMA SameFrames ==
  ASSUME TypeOK, FrameInv, BuffersKept, free' = free,
         \A q \in Procs, j \in Pages :
           /\ FrameOf(pagetable'[q][j]) = FrameOf(pagetable[q][j])
           /\ FrameOf(sidetable'[q][j]) = FrameOf(sidetable[q][j])
  PROVE  FrameInv'
<1>1. held = [c \in Cells |-> held[c]]
  BY Zenon DEF held
<1>2. ASSUME NEW q \in Procs, NEW j \in Pages
      PROVE  HoldsAfter(held, q, j)
  <2>1. act'[q].buf = act[q].buf
    BY Zenon DEF BuffersKept
  <2> QED  BY <2>1, CellFacts, ZenonT(40) DEF HoldsAfter
<1>3. held' = held
  BY <1>1, <1>2, HeldIs, Zenon
<1> QED  BY <1>3, BufferRule, Zenon DEF FrameInv

LEMMA SameTables ==
  ASSUME TypeOK, FrameInv, BuffersKept, UNCHANGED <<pt, free>>
  PROVE  FrameInv'
BY SameFrames, Zenon DEF pt

\* One page of a page table gets another frame.
OnlyPage(p, i, f) ==
  \A q \in Procs, j \in Pages :
    FrameOf(pagetable'[q][j]) = IF q = p /\ j = i THEN f ELSE FrameOf(pagetable[q][j])

LEMMA PageFrame ==
  ASSUME NEW p \in Procs, NEW i \in Pages, NEW f, BuffersKept, sidetable' = sidetable,
         OnlyPage(p, i, f)
  PROVE  held' = [held EXCEPT ![<<p, "table", i>>] = f]
<1> DEFINE h == [held EXCEPT ![<<p, "table", i>>] = f]
<1>1. h = [c \in Cells |-> h[c]]
  BY Zenon DEF held
<1>2. ASSUME NEW q \in Procs, NEW j \in Pages
      PROVE  HoldsAfter(h, q, j)
  <2>1. act'[q].buf = act[q].buf
    BY Zenon DEF BuffersKept
  <2>2. held = [c \in Cells |-> held[c]] /\ <<p, "table", i>> \in Cells
    BY CellFacts, Zenon DEF held
  <2>3. \A c \in Cells : h[c] = IF c = <<p, "table", i>> THEN f ELSE held[c]
    BY <2>2, Zenon
  <2>4. /\ h[<<q, "table", j>>] = IF q = p /\ j = i THEN f ELSE FrameOf(pagetable[q][j])
        /\ h[<<q, "side", j>>] = FrameOf(sidetable[q][j])
        /\ h[<<q, "buf", j>>] = IF j = 0 THEN act[q].buf ELSE NoFrame
    BY <2>3, CellFacts
  <2> HIDE DEF h
  <2> QED  BY <2>1, <2>4, Zenon DEF HoldsAfter, OnlyPage
<1> HIDE DEF h
<1>3. held' = h
  BY <1>1, <1>2, HeldIs, Zenon
<1> QED  BY <1>3 DEF h

\* One PTE of a page table changes.
LEMMA TableFrame ==
  ASSUME TypeOK, NEW p \in Procs, NEW i \in Pages, NEW e, BuffersKept,
         pagetable' = [pagetable EXCEPT ![p][i] = e], sidetable' = sidetable
  PROVE  held' = [held EXCEPT ![<<p, "table", i>>] = FrameOf(e)]
<1>1. ASSUME NEW q \in Procs, NEW j \in Pages
      PROVE  pagetable'[q][j] = IF q = p /\ j = i THEN e ELSE pagetable[q][j]
  BY DEF TypeOK
<1>2. ASSUME NEW q \in Procs, NEW j \in Pages
      PROVE  FrameOf(pagetable'[q][j])
               = IF q = p /\ j = i THEN FrameOf(e) ELSE FrameOf(pagetable[q][j])
  BY <1>1
<1>3. OnlyPage(p, i, FrameOf(e))
  BY <1>2, Zenon DEF OnlyPage
<1> QED  BY <1>3, PageFrame, Zenon

\* One PTE of the table that exec() builds or frees changes.
LEMMA SideFrame ==
  ASSUME TypeOK, NEW p \in Procs, NEW i \in Pages, NEW e, BuffersKept,
         sidetable' = [sidetable EXCEPT ![p][i] = e], pagetable' = pagetable
  PROVE  held' = [held EXCEPT ![<<p, "side", i>>] = FrameOf(e)]
<1> DEFINE h == [held EXCEPT ![<<p, "side", i>>] = FrameOf(e)]
<1>1. h = [c \in Cells |-> h[c]]
  BY Zenon DEF held
<1>2. ASSUME NEW q \in Procs, NEW j \in Pages
      PROVE  HoldsAfter(h, q, j)
  <2>1. act'[q].buf = act[q].buf
    BY Zenon DEF BuffersKept
  <2>2. sidetable'[q][j] = IF q = p /\ j = i THEN e ELSE sidetable[q][j]
    BY DEF TypeOK
  <2>3. held = [c \in Cells |-> held[c]] /\ <<p, "side", i>> \in Cells
    BY CellFacts, Zenon DEF held
  <2>4. \A c \in Cells : h[c] = IF c = <<p, "side", i>> THEN FrameOf(e) ELSE held[c]
    BY <2>3, Zenon
  <2>5. /\ h[<<q, "side", j>>] = IF q = p /\ j = i THEN FrameOf(e) ELSE FrameOf(sidetable[q][j])
        /\ h[<<q, "table", j>>] = FrameOf(pagetable[q][j])
        /\ h[<<q, "buf", j>>] = IF j = 0 THEN act[q].buf ELSE NoFrame
    BY <2>4, CellFacts
  <2> HIDE DEF h
  <2> QED  BY <2>1, <2>2, <2>5, Zenon DEF HoldsAfter
<1> HIDE DEF h
<1>3. held' = h
  BY <1>1, <1>2, HeldIs, Zenon
<1> QED  BY <1>3 DEF h

\* kalloc() and kfree() as steps on held.
LEMMA kallocStep ==
  ASSUME TypeOK, FrameInv, BuffersKept, NEW c \in Cells, held[c] = NoFrame,
         held' = [held EXCEPT ![c] = kalloc], free' = free \ {kalloc}
  PROVE  FrameInv'
<1>1. kalloc \in free \cup {NoFrame}
  BY Zenon DEF kalloc
<1>2. OwnedOnce([held EXCEPT ![c] = kalloc], free \ {kalloc})
  BY <1>1, AllocOwned, HeldType, Zenon DEF FrameInv
<1> QED  BY <1>2, BufferRule, Zenon

LEMMA kfreeStep ==
  ASSUME TypeOK, FrameInv, BuffersKept, NEW c \in Cells, held[c] # NoFrame,
         held' = [held EXCEPT ![c] = NoFrame], free' = free \cup {held[c]}
  PROVE  FrameInv'
<1>1. OwnedOnce([held EXCEPT ![c] = NoFrame], free \cup {held[c]})
  BY FreeOwned, HeldType, Zenon DEF FrameInv
<1> QED  BY <1>1, BufferRule, Zenon

\* mappages() of a page just allocated, in a page table that does not map it.
LEMMA TableAlloc ==
  ASSUME TypeOK, FrameInv, BuffersKept, NEW p \in Procs, NEW i \in Pages,
         ~pagetable[p][i].v, NEW e, e.v = TRUE, e.frame = kalloc, free' = free \ {kalloc},
         pagetable' = [pagetable EXCEPT ![p][i] = e], sidetable' = sidetable
  PROVE  FrameInv'
<1>1. <<p, "table", i>> \in Cells /\ held[<<p, "table", i>>] = NoFrame
  BY CellFacts, Zenon DEF FrameOf
<1>2. FrameOf(e) = kalloc
  BY Zenon DEF FrameOf
<1>3. held' = [held EXCEPT ![<<p, "table", i>>] = FrameOf(e)]
  BY TableFrame, Zenon
<1> QED  BY <1>1, <1>2, <1>3, kallocStep, Zenon

-----------------------------------------------------------------------------
\* mappages() is only asked for pages that are not mapped.
LEMMA InvNoRemap == Inv => NoRemap
<1> SUFFICES ASSUME Inv, NEW p \in Procs, act[p].a < act[p].end
             PROVE  /\ act[p].op \in {"grow", "map"} => ~pagetable[p][act[p].a].v
                    /\ act[p].op = "exec" => ~sidetable[p][act[p].a].v
                    /\ act[p].op = "copy" => ~pagetable[act[p].who][act[p].a].v
  BY Zenon DEF NoRemap
<1>1. act[p].a \in 0 .. MAX_TOTAL_PAGES /\ act[p].end \in 0 .. MAX_TOTAL_PAGES
  BY Zenon DEF Inv, TypeOK, Acts
<1>2. act[p].a \in Pages /\ ~(act[p].a < act[p].a)
  BY <1>1, PageOrder, ZenonT(40)
<1>3. act[p].op # "unmap" => act[p].then = "none"
  BY Zenon DEF Inv, ActOK
<1> QED  BY <1>2, <1>3, ZenonT(40) DEF Inv, TablesOK, PageOK

(***************************************************************************)
(* One lemma per kind of action.                                           *)
(***************************************************************************)

\* Steps that leave the tables and the free list alone: a call starts, goes on
\* to its next part or returns.
LEMMA QuietFrames ==
  ASSUME Inv, FrameInv, NEW p \in Procs,
         \/ \E n \in 1 .. MaxGrow : Grow(p, n) \/ Shrink(p, n)
         \/ \E c \in Procs : Fork(p, c) \/ Wait(p, c)
         \/ \E n \in Images : Exec(p, n)
         \/ GrowFail(p) \/ GrowDone(p) \/ createSwapFile(p) \/ copySwapFile(p)
         \/ ForkDone(p) \/ ExecBad(p) \/ UnmapDone(p)
  PROVE  FrameInv'
<1>1. TypeOK /\ act[p] \in Acts
  BY Zenon DEF Inv, TypeOK
<1>2. UNCHANGED <<pt, free>>
  BY ZenonT(40) DEF Grow, Shrink, Fork, Wait, Exec, GrowFail, GrowDone, createSwapFile,
                    copySwapFile, ForkDone, ExecBad, UnmapDone
<1>3. act[p].op # "swapin"
  BY IdleFacts, ZenonT(40)
     DEF Grow, Shrink, Fork, Wait, Exec, GrowFail, GrowDone, createSwapFile, copySwapFile,
         ForkDone, ExecBad, UnmapDone, Syscall, InUser
<1>4. act[p].buf = NoFrame
  BY <1>3, Zenon DEF FrameInv
<1>5. act \in [Procs -> Acts] /\ act[p].buf = NoFrame
  BY <1>1, <1>4, Zenon DEF TypeOK
<1>6. \A q \in Procs \ {p} : act'[q] = act[q]
  <2>1. ASSUME NEW c \in Procs, Fork(p, c) \/ Wait(p, c)
        PROVE  \A q \in Procs \ {p} : act'[q] = act[q]
    BY <2>1, <1>5, Zenon DEF Fork, Wait
  <2>2. ASSUME NEW n, Grow(p, n) \/ Shrink(p, n) \/ Exec(p, n)
        PROVE  \A q \in Procs \ {p} : act'[q] = act[q]
    BY <2>2, <1>5, Zenon DEF Grow, Shrink, Exec
  <2>3. CASE GrowFail(p) \/ GrowDone(p) \/ createSwapFile(p) \/ copySwapFile(p)
    BY <2>3, <1>5, Zenon DEF GrowFail, GrowDone, createSwapFile, copySwapFile
  <2>4. CASE ForkDone(p) \/ ExecBad(p) \/ UnmapDone(p)
    BY <2>4, <1>5, Zenon DEF ForkDone, ExecBad, UnmapDone
  <2> QED  BY <2>1, <2>2, <2>3, <2>4, Zenon
<1>7. act'[p].buf = NoFrame
  <2>1. ASSUME NEW c \in Procs, Fork(p, c) \/ Wait(p, c) PROVE act'[p].buf = NoFrame
    <3>1. CASE Fork(p, c)
      <4>1. act'[p] = [Idle EXCEPT !.op = "copy", !.end = sz[p], !.who = c]
        BY <3>1, <1>5, Zenon DEF Fork
      <4> QED  BY <4>1 DEF Idle
    <3>2. CASE Wait(p, c)
      <4>1. act'[p] = [Idle EXCEPT !.op = "unmap", !.end = sz[c], !.who = c,
                                   !.then = "freeproc"]
        BY <3>2, <1>5, Zenon DEF Wait
      <4> QED  BY <4>1 DEF Idle
    <3> QED  BY <2>1, <3>1, <3>2
  <2>2. ASSUME NEW n, Grow(p, n) \/ Shrink(p, n) \/ Exec(p, n) PROVE act'[p].buf = NoFrame
    <3>1. CASE Grow(p, n)
      <4>1. act'[p] = [Idle EXCEPT !.op = "grow", !.a = sz[p], !.end = sz[p] + n]
        BY <3>1, <1>5, Zenon DEF Grow
      <4> QED  BY <4>1 DEF Idle
    <3>2. CASE Shrink(p, n)
      <4>1. act'[p] = [Idle EXCEPT !.op = "unmap", !.a = sz[p] - n, !.lo = sz[p] - n,
                                   !.end = sz[p], !.who = p, !.then = "sbrk"]
        BY <3>2, <1>5, Zenon DEF Shrink
      <4> QED  BY <4>1 DEF Idle
    <3>3. CASE Exec(p, n)
      <4>1. act'[p] = [Idle EXCEPT !.op = "exec", !.end = n]
        BY <3>3, <1>5, Zenon DEF Exec
      <4> QED  BY <4>1 DEF Idle
    <3> QED  BY <2>2, <3>1, <3>2, <3>3
  <2>3. CASE GrowFail(p) \/ ExecBad(p)
    <3>1. CASE GrowFail(p)
      <4>1. act'[p] = [Idle EXCEPT !.op = "unmap", !.a = sz[p], !.lo = sz[p],
                                   !.end = act[p].a, !.who = p, !.then = "sbrk"]
        BY <3>1, <1>5, Zenon DEF GrowFail
      <4> QED  BY <4>1 DEF Idle
    <3>2. CASE ExecBad(p)
      <4>1. act'[p] = [Idle EXCEPT !.op = "unmap", !.end = act[p].a, !.who = p, !.then = "bad"]
        BY <3>2, <1>5, Zenon DEF ExecBad
      <4> QED  BY <4>1 DEF Idle
    <3> QED  BY <2>3, <3>1, <3>2
  <2>4. CASE GrowDone(p) \/ ForkDone(p) \/ UnmapDone(p)
    BY <2>4, <1>5, IdleFacts, Zenon DEF GrowDone, ForkDone, UnmapDone
  <2>5. CASE createSwapFile(p) \/ copySwapFile(p)
    <3>1. CASE createSwapFile(p)
      <4>1. act'[p] = [act[p] EXCEPT !.op = "copyfile", !.a = 0]
        BY <3>1, <1>5, Zenon DEF createSwapFile
      <4> QED  BY <4>1, <1>1, <1>4 DEF Acts
    <3>2. CASE copySwapFile(p)
      <4>1. \E a : act'[p] = [act[p] EXCEPT !.a = a]
        BY <3>2, <1>5, Zenon DEF copySwapFile
      <4> QED  BY <4>1, <1>1, <1>4 DEF Acts
    <3> QED  BY <2>5, <3>1, <3>2
  <2> QED  BY <2>1, <2>2, <2>3, <2>4, <2>5, Zenon
<1>8. BuffersKept
  BY <1>3, <1>6, <1>7, BufferKept, Zenon
<1> QED  BY <1>1, <1>2, <1>8, SameTables, Zenon

\* exit(), the panics and the end of a run.
LEMMA StopFrames ==
  ASSUME Inv, FrameInv, UNCHANGED <<pt, free, act>>
  PROVE  FrameInv'
<1>1. BuffersKept
  BY Zenon DEF BuffersKept
<1> QED  BY <1>1, SameTables, Zenon DEF Inv

\* The PTE_A bits that the user's accesses set and the scheduler clears.
LEMMA AccessFrames ==
  ASSUME Inv, FrameInv, NEW p \in Procs,
         Tick(p) \/ \E i \in Pages, v \in Versions : Touch(p, i, v)
  PROVE  FrameInv'
<1>1. TypeOK /\ BuffersKept /\ free' = free /\ sidetable' = sidetable
  BY Zenon DEF Inv, BuffersKept, Tick, Touch
<1>2. \A e \in Ptes, b \in BOOLEAN : FrameOf([e EXCEPT !.a = b]) = FrameOf(e)
  BY DEF Ptes, FrameOf
<1>3. ASSUME NEW q \in Procs, NEW j \in Pages PROVE pagetable[q][j] \in Ptes
  <2>1. pagetable \in [Procs -> [Pages -> Ptes]]
    BY <1>1, Zenon DEF TypeOK
  <2> QED  BY <2>1, Zenon
<1>4. ASSUME NEW q \in Procs, NEW j \in Pages
      PROVE  \/ pagetable'[q][j] = pagetable[q][j]
             \/ \E b \in BOOLEAN : pagetable'[q][j] = [pagetable[q][j] EXCEPT !.a = b]
  <2>1. CASE Tick(p)
    <3>1. pagetable' = [pagetable EXCEPT ![p] = AccessReset(p)]
      BY <2>1, Zenon DEF Tick
    <3>2. pagetable'[q] = IF q = p THEN AccessReset(p) ELSE pagetable[q]
      BY <1>1, <3>1, Zenon DEF TypeOK
    <3> QED  BY <3>2, ZenonT(40) DEF AccessReset
  <2>2. ASSUME NEW i \in Pages, NEW v \in Versions, Touch(p, i, v)
        PROVE  \/ pagetable'[q][j] = pagetable[q][j]
               \/ \E b \in BOOLEAN : pagetable'[q][j] = [pagetable[q][j] EXCEPT !.a = b]
    <3>1. pagetable' = [pagetable EXCEPT ![p][i] = [@ EXCEPT !.a = TRUE]]
      BY <2>2, Zenon DEF Touch
    <3>2. pagetable'[q][j] = IF q = p /\ j = i THEN [pagetable[q][j] EXCEPT !.a = TRUE]
                             ELSE pagetable[q][j]
      BY <1>1, <3>1, Zenon DEF TypeOK
    <3> QED  BY <3>2, Zenon
  <2> QED  BY <2>1, <2>2, Zenon
<1>5. ASSUME NEW q \in Procs, NEW j \in Pages
      PROVE  FrameOf(pagetable'[q][j]) = FrameOf(pagetable[q][j])
  <2>1. ASSUME NEW b \in BOOLEAN, pagetable'[q][j] = [pagetable[q][j] EXCEPT !.a = b]
        PROVE  FrameOf(pagetable'[q][j]) = FrameOf(pagetable[q][j])
    <3>1. FrameOf([pagetable[q][j] EXCEPT !.a = b]) = FrameOf(pagetable[q][j])
      BY <1>2, <1>3, Zenon
    <3> QED  BY <2>1, <3>1, Zenon
  <2> QED  BY <1>4, <2>1, Zenon
<1> QED  BY <1>1, <1>5, SameFrames, Zenon

\* The pages that sbrk() and fork() map.
LEMMA MapFrames ==
  ASSUME Inv, FrameInv, NEW p \in Procs, GrowMap(p) \/ GrowPage(p)
  PROVE  FrameInv'
<1> DEFINE i == act[p].a
<1>1. TypeOK /\ act \in [Procs -> Acts] /\ act[p] \in Acts
  BY Zenon DEF Inv, TypeOK
<1>2. act[p].op \in {"grow", "map"} /\ act[p].a < act[p].end
  <2>1. act[p].op = "map" => act[p].a < act[p].end
    BY Zenon DEF Inv, ActOK
  <2> QED  BY <2>1, Zenon DEF GrowMap, GrowPage
<1>3. i \in Pages
  BY <1>1, <1>2, PageOrder DEF Acts
<1>4. ~pagetable[p][i].v
  BY <1>2, InvNoRemap, Zenon DEF NoRemap
<1>5. act[p].op # "swapin" /\ act[p].buf = NoFrame
  BY <1>2, Zenon DEF FrameInv
<1>6. BuffersKept
  <2>1. \A q \in Procs \ {p} : act'[q] = act[q]
    BY <1>1, Zenon DEF GrowMap, GrowPage
  <2>2. \/ act'[p] = [act[p] EXCEPT !.op = "grow", !.a = i + 1]
        \/ act'[p] = [act[p] EXCEPT !.a = i + 1]
    BY <1>1, Zenon DEF GrowMap, GrowPage
  <2>3. act'[p].buf = NoFrame
    BY <1>1, <1>5, <2>2, Zenon DEF Acts
  <2> QED  BY <1>5, <2>1, <2>3, BufferKept, Zenon
<1>7. /\ pagetable' = [pagetable EXCEPT ![p][i] = UserPte(kalloc)]
      /\ sidetable' = sidetable /\ free' = free \ {kalloc}
  BY Zenon DEF GrowMap, GrowPage
<1>8. UserPte(kalloc).v = TRUE /\ UserPte(kalloc).frame = kalloc
  BY Zenon DEF UserPte
<1> HIDE DEF i
<1> QED  BY <1>1, <1>3, <1>4, <1>6, <1>7, <1>8, TableAlloc, Zenon

\* The pages that uvmcopy() allocates for the child.
LEMMA CopyFrames ==
  ASSUME Inv, FrameInv, NEW p \in Procs, ForkCopy(p)
  PROVE  FrameInv'
<1> DEFINE i == act[p].a
           c == act[p].who
           e == [pagetable[p][i] EXCEPT !.frame = kalloc]
<1>1. TypeOK /\ act \in [Procs -> Acts] /\ act[p] \in Acts
  BY Zenon DEF Inv, TypeOK
<1>2. act[p].op = "copy" /\ act[p].a < act[p].end /\ sidetable' = sidetable
  BY Zenon DEF ForkCopy
<1>3. i \in Pages /\ c \in Procs
  <2>1. i \in Pages
    BY <1>1, <1>2, PageOrder DEF Acts
  <2>2. c \in Procs
    BY <1>2, Zenon DEF Inv, ActOK
  <2> QED  BY <2>1, <2>2
<1>4. ~pagetable[c][i].v
  BY <1>2, InvNoRemap, Zenon DEF NoRemap
<1>5. act[p].op # "swapin" /\ act[p].buf = NoFrame
  BY <1>2, Zenon DEF FrameInv
<1>6. BuffersKept
  <2>1. \A q \in Procs \ {p} : act'[q] = act[q]
    BY <1>1, Zenon DEF ForkCopy
  <2>2. \/ act'[p] = act[p]
        \/ act'[p] = [act[p] EXCEPT !.a = i + 1]
        \/ act'[p] = [Idle EXCEPT !.op = "unmap", !.end = i, !.who = c, !.then = "freeproc"]
    BY <1>1, Zenon DEF ForkCopy
  <2>3. act'[p].buf = NoFrame
    BY <1>1, <1>5, <2>2, Zenon DEF Acts, Idle
  <2> QED  BY <1>5, <2>1, <2>3, BufferKept, Zenon
<1>7. CASE UNCHANGED <<pagetable, free>>
  BY <1>1, <1>2, <1>6, <1>7, SameTables, Zenon DEF pt
<1>8. CASE /\ pagetable[p][i].v /\ free' = free \ {kalloc}
           /\ pagetable' = [pagetable EXCEPT ![c][i] = e]
  <2>1. pagetable[p][i] \in Ptes
    <3>1. pagetable[p] \in [Pages -> Ptes]
      BY ProcFacts, Zenon
    <3> QED  BY <1>3, <3>1, Zenon
  <2>2. e.v = TRUE /\ e.frame = kalloc
    BY <1>8, <2>1 DEF Ptes
  <2> HIDE DEF e, i, c
  <2> QED  BY <1>1, <1>2, <1>3, <1>4, <1>6, <1>8, <2>2, TableAlloc, Zenon
<1> QED  BY <1>7, <1>8, Zenon DEF ForkCopy

\* The pages of the image that exec() loads.
LEMMA ExecFrames ==
  ASSUME Inv, FrameInv, NEW p \in Procs, ExecPage(p)
  PROVE  FrameInv'
<1> DEFINE i == act[p].a
<1>1. TypeOK /\ act \in [Procs -> Acts] /\ act[p] \in Acts
  BY Zenon DEF Inv, TypeOK
<1>2. act[p].op = "exec" /\ act[p].a < act[p].end
  BY Zenon DEF ExecPage
<1>3. i \in Pages
  BY <1>1, <1>2, PageOrder DEF Acts
<1>4. ~sidetable[p][i].v
  BY <1>2, InvNoRemap, Zenon DEF NoRemap
<1>5. act[p].op # "swapin" /\ act[p].buf = NoFrame
  BY <1>2, Zenon DEF FrameInv
<1>6. BuffersKept
  <2>1. (\A q \in Procs \ {p} : act'[q] = act[q]) /\ act'[p] = [act[p] EXCEPT !.a = i + 1]
    BY <1>1, Zenon DEF ExecPage
  <2>2. act'[p].buf = NoFrame
    BY <1>1, <1>5, <2>1 DEF Acts
  <2> QED  BY <1>5, <2>1, <2>2, BufferKept, Zenon
<1>7. /\ sidetable' = [sidetable EXCEPT ![p][i] = UserPte(kalloc)]
      /\ pagetable' = pagetable /\ free' = free \ {kalloc}
  BY Zenon DEF ExecPage
<1>8. <<p, "side", i>> \in Cells /\ held[<<p, "side", i>>] = NoFrame
  BY <1>3, <1>4, CellFacts, Zenon DEF FrameOf
<1>9. FrameOf(UserPte(kalloc)) = kalloc
  BY Zenon DEF UserPte, FrameOf
<1> HIDE DEF i
<1>10. held' = [held EXCEPT ![<<p, "side", i>>] = FrameOf(UserPte(kalloc))]
  BY <1>1, <1>3, <1>6, <1>7, SideFrame, Zenon
<1> QED  BY <1>1, <1>6, <1>7, <1>8, <1>9, <1>10, kallocStep, Zenon

\* uvmunmap(): the page of a valid PTE goes back to the free list.
LEMMA UnmapFrames ==
  ASSUME Inv, FrameInv, NEW p \in Procs, UnmapPage(p)
  PROVE  FrameInv'
<1> DEFINE i == act[p].a
           w == act[p].who
           side == act[p].then \in {"exec", "bad"}
           pte == IF side THEN sidetable[w][i] ELSE pagetable[w][i]
<1>1. TypeOK /\ act \in [Procs -> Acts] /\ act[p] \in Acts
  BY Zenon DEF Inv, TypeOK
<1>2. act[p].op = "unmap" /\ act[p].a < act[p].end /\ act[p].then # "none"
  BY Zenon DEF UnmapPage, Inv, ActOK
<1>3. i \in Pages /\ w \in Procs
  <2>1. i \in Pages
    BY <1>1, <1>2, PageOrder DEF Acts
  <2>2. act[p].then \in {"sbrk", "exec", "bad", "freeproc"}
    BY <1>1, <1>2 DEF Acts
  <2>3. w \in Procs
    BY <2>2, Zenon DEF Inv, ActOK
  <2> QED  BY <2>1, <2>3
<1>4. CASE UNCHANGED <<pt, free, act>>
  BY <1>4, StopFrames, Zenon
<1>5. CASE /\ pte.v => pte.frame # NoFrame /\ free' = free \cup {pte.frame}
           /\ ~pte.v => free' = free
           /\ IF side
              THEN sidetable' = [sidetable EXCEPT ![w][i] = NoPte] /\ pagetable' = pagetable
              ELSE pagetable' = [pagetable EXCEPT ![w][i] = NoPte] /\ sidetable' = sidetable
           /\ act' = [act EXCEPT ![p].a = i + 1]
  <2> DEFINE cell == <<w, IF side THEN "side" ELSE "table", i>>
  <2>1. BuffersKept
    <3>1. (\A q \in Procs \ {p} : act'[q] = act[q]) /\ act'[p] = [act[p] EXCEPT !.a = i + 1]
      BY <1>1, <1>5, Zenon
    <3>2. act[p].op # "swapin" /\ act[p].buf = NoFrame
      BY <1>2, Zenon DEF FrameInv
    <3>3. act'[p].buf = NoFrame
      BY <1>1, <3>1, <3>2 DEF Acts
    <3> QED  BY <3>1, <3>2, <3>3, BufferKept, Zenon
  <2>2. FrameOf(NoPte) = NoFrame
    BY Zenon DEF FrameOf, NoPte
  <2>3. cell \in Cells /\ held[cell] = FrameOf(pte) /\ held' = [held EXCEPT ![cell] = NoFrame]
    <3>1. CASE side
      <4>1. /\ cell = <<w, "side", i>> /\ pte = sidetable[w][i]
            /\ sidetable' = [sidetable EXCEPT ![w][i] = NoPte] /\ pagetable' = pagetable
        BY <1>5, <3>1, Zenon
      <4> HIDE DEF cell, pte, side, w, i
      <4>2. <<w, "side", i>> \in Cells /\ held[<<w, "side", i>>] = FrameOf(sidetable[w][i])
        BY <1>3, CellFacts, Zenon
      <4>3. held' = [held EXCEPT ![<<w, "side", i>>] = FrameOf(NoPte)]
        BY <1>1, <1>3, <2>1, <4>1, SideFrame, Zenon
      <4> QED  BY <2>2, <4>1, <4>2, <4>3, Zenon
    <3>2. CASE ~side
      <4>1. /\ cell = <<w, "table", i>> /\ pte = pagetable[w][i]
            /\ pagetable' = [pagetable EXCEPT ![w][i] = NoPte] /\ sidetable' = sidetable
        BY <1>5, <3>2, Zenon
      <4> HIDE DEF cell, pte, side, w, i
      <4>2. <<w, "table", i>> \in Cells /\ held[<<w, "table", i>>] = FrameOf(pagetable[w][i])
        BY <1>3, CellFacts, Zenon
      <4>3. held' = [held EXCEPT ![<<w, "table", i>>] = FrameOf(NoPte)]
        BY <1>1, <1>3, <2>1, <4>1, TableFrame, Zenon
      <4> QED  BY <2>2, <4>1, <4>2, <4>3, Zenon
    <3> QED  BY <3>1, <3>2, Zenon
  <2> HIDE DEF cell, side, i, w
  <2>4. CASE pte.v
    <3>1. held[cell] = pte.frame
      BY <2>3, <2>4, Zenon DEF FrameOf
    <3> QED  BY <1>1, <1>5, <2>1, <2>3, <2>4, <3>1, kfreeStep, Zenon
  <2>5. CASE ~pte.v
    <3>1. held[cell] = NoFrame
      BY <2>3, <2>5, Zenon DEF FrameOf
    <3>2. held' = held
      BY <1>1, <2>3, <3>1, HeldType
    <3> QED  BY <1>5, <2>1, <2>5, <3>2, BufferRule, Zenon DEF FrameInv
  <2> QED  BY <2>4, <2>5, Zenon
<1> QED  BY <1>4, <1>5, Zenon DEF UnmapPage, Panic

\* page_to_file() takes the frame of its victim, a resident page, and no other.
LEMMA EvictedFrame ==
  ASSUME Inv, NEW p \in Procs, act[p].op \in {"swapin", "grow"}, pstate[p] = "RUN",
         NEW off, EvictPanic(p, off) = "none", ~HasRoom(meta[p])
  PROVE  LET x == getIndexToRemove(p)
             e == page_to_file(p, off)
         IN  /\ x \in Pages /\ pagetable[p][x].v
             /\ e.frame = FrameOf(pagetable[p][x]) /\ e.frame \in Frames
             /\ \A j \in Pages : FrameOf(e.tab[j]) = IF j = x THEN NoFrame
                                                     ELSE FrameOf(pagetable[p][j])
<1> DEFINE x == getIndexToRemove(p)
           e == page_to_file(p, off)
<1>1. TypeOK /\ GoodMeta(meta[p]) /\ pagetable[p] \in [Pages -> Ptes]
  BY ProcFacts, Zenon
<1>2. x \in Pages /\ x \in Used(meta[p]) /\ pagetable[p][x].frame \in Frames
  BY <1>1, EvictVictim, Zenon
<1>3. pagetable[p][x].v
  <2>1. act[p].op # "unmap" /\ act[p].op # "exec"
    BY Zenon
  <2>2. act[p].then = "none"
    BY <2>1, Zenon DEF Inv, ActOK
  <2>3. Tracked(p) = pagetable[p]
    BY <2>1, <2>2, Zenon DEF Tracked
  <2> QED  BY <1>2, <2>3, Zenon DEF Inv, MetaOK
<1>4. e.frame = pagetable[p][x].frame
  BY Zenon DEF page_to_file
<1>5. ASSUME NEW j \in Pages
      PROVE  FrameOf(e.tab[j]) = IF j = x THEN NoFrame ELSE FrameOf(pagetable[p][j])
  <2> DEFINE t == pagetable[p]
             k == IF j \in ClearedBits(p) THEN [t[j] EXCEPT !.a = FALSE] ELSE t[j]
  <2>1. e.tab[j] = IF j = x THEN SwappedOut(k) ELSE k
    BY Zenon DEF page_to_file
  <2>2. t[j] \in Ptes
    BY <1>1, Zenon
  <2>3. k \in Ptes /\ k.v = t[j].v /\ k.frame = t[j].frame
    BY <2>2, Zenon DEF Ptes
  <2> HIDE DEF k
  <2>4. SwappedOut(k).v = FALSE
    BY <2>3 DEF SwappedOut, Ptes
  <2> QED  BY <2>1, <2>3, <2>4, Zenon DEF FrameOf
<1> QED  BY <1>2, <1>3, <1>4, <1>5, Zenon DEF FrameOf

\* The eviction with which uvmalloc() makes room.
LEMMA GrowEvictFrames ==
  ASSUME Inv, FrameInv, NEW p \in Procs, GrowEvict(p)
  PROVE  FrameInv'
<1> DEFINE off == getOffset(p)
           x == getIndexToRemove(p)
           e == page_to_file(p, off)
<1>1. TypeOK /\ act \in [Procs -> Acts] /\ act[p] \in Acts
  BY Zenon DEF Inv, TypeOK
<1>2. act[p].op = "grow" /\ pstate[p] = "RUN" /\ ~HasRoom(meta[p]) /\ sidetable' = sidetable
  BY Zenon DEF GrowEvict, Running
<1>3. CASE EvictPanic(p, off) # "none"
  <2>1. UNCHANGED <<pt, free, act>>
    BY <1>2, <1>3, Zenon DEF GrowEvict, pt
  <2> QED  BY <2>1, StopFrames, Zenon
<1>4. CASE EvictPanic(p, off) = "none"
  <2>1. /\ pagetable' = [pagetable EXCEPT ![p] = e.tab] /\ free' = free \cup {e.frame}
        /\ act' = [act EXCEPT ![p].op = "map"]
    BY <1>4, Zenon DEF GrowEvict
  <2>2. BuffersKept
    <3>1. (\A q \in Procs \ {p} : act'[q] = act[q]) /\ act'[p] = [act[p] EXCEPT !.op = "map"]
      BY <1>1, <2>1, Zenon
    <3>2. act[p].op # "swapin" /\ act[p].buf = NoFrame
      BY <1>2, Zenon DEF FrameInv
    <3>3. act'[p].buf = NoFrame
      BY <1>1, <3>1, <3>2 DEF Acts
    <3> QED  BY <3>1, <3>2, <3>3, BufferKept, Zenon
  <2>3. /\ x \in Pages /\ e.frame = FrameOf(pagetable[p][x]) /\ e.frame \in Frames
        /\ \A j \in Pages : FrameOf(e.tab[j]) = IF j = x THEN NoFrame
                                                ELSE FrameOf(pagetable[p][j])
    BY <1>2, <1>4, EvictedFrame, Zenon
  <2> HIDE DEF x, e
  <2>4. ASSUME NEW q \in Procs, NEW j \in Pages
        PROVE  FrameOf(pagetable'[q][j])
                 = IF q = p /\ j = x THEN NoFrame ELSE FrameOf(pagetable[q][j])
    <3>1. pagetable'[q] = IF q = p THEN e.tab ELSE pagetable[q]
      BY <1>1, <2>1, Zenon DEF TypeOK
    <3> QED  BY <2>3, <3>1, Zenon
  <2>5. held' = [held EXCEPT ![<<p, "table", x>>] = NoFrame]
    <3>1. OnlyPage(p, x, NoFrame)
      BY <2>4, Zenon DEF OnlyPage
    <3> QED  BY <1>2, <2>2, <2>3, <3>1, PageFrame, Zenon
  <2>6. <<p, "table", x>> \in Cells /\ held[<<p, "table", x>>] = e.frame
    BY <2>3, CellFacts, Zenon
  <2>7. e.frame # NoFrame
    BY <2>3, FramesAssumption, Zenon
  <2> QED  BY <1>1, <2>1, <2>2, <2>5, <2>6, <2>7, kfreeStep, Zenon
<1> QED  BY <1>3, <1>4, Zenon

\* swap_in() allocates its buffer.
LEMMA SwapInStartFrames ==
  ASSUME Inv, FrameInv, NEW p \in Procs, NEW i \in Pages, SwapInStart(p, i)
  PROVE  FrameInv'
<1> DEFINE b == [Idle EXCEPT !.op = "swapin", !.a = i, !.buf = kalloc]
           h == [held EXCEPT ![<<p, "buf", 0>>] = kalloc]
<1>1. TypeOK /\ act \in [Procs -> Acts] /\ act[p] = Idle
  BY Zenon DEF Inv, TypeOK, SwapInStart, Faults, InUser
<1>2. CASE UNCHANGED <<pt, free, act>>
  BY <1>2, StopFrames, Zenon
<1>3. CASE free' = free \ {kalloc} /\ act' = [act EXCEPT ![p] = b] /\ UNCHANGED pt
  <2>1. \A q \in Procs : act'[q] = IF q = p THEN b ELSE act[q]
    BY <1>1, <1>3, Zenon
  <2>2. b.buf = kalloc /\ b.op = "swapin"
    BY DEF Idle
  <2>3. 0 \in Pages /\ <<p, "buf", 0>> \in Cells /\ held[<<p, "buf", 0>>] = NoFrame
    <3>1. 0 \in Pages
      BY MaxTotalPagesAssumption DEF Pages
    <3> QED  BY <1>1, <3>1, CellFacts, IdleFacts, Zenon
  <2>4. pagetable' = pagetable /\ sidetable' = sidetable
    BY <1>3, Zenon DEF pt
  <2> HIDE DEF b
  <2>5. held' = h
    <3>1. h = [c \in Cells |-> h[c]]
      BY Zenon DEF held
    <3>2. ASSUME NEW q \in Procs, NEW j \in Pages PROVE HoldsAfter(h, q, j)
      <4>1. \A c \in Cells : h[c] = IF c = <<p, "buf", 0>> THEN kalloc ELSE held[c]
        BY <2>3, Zenon DEF held
      <4> HIDE DEF h
      <4>2. /\ h[<<q, "table", j>>] = FrameOf(pagetable[q][j])
            /\ h[<<q, "side", j>>] = FrameOf(sidetable[q][j])
            /\ h[<<q, "buf", j>>] = IF q = p /\ j = 0 THEN kalloc ELSE held[<<q, "buf", j>>]
        BY <4>1, CellFacts
      <4>3. held[<<q, "buf", j>>] = IF j = 0 THEN act[q].buf ELSE NoFrame
        BY CellFacts, Zenon
      <4>4. act'[q].buf = IF q = p THEN kalloc ELSE act[q].buf
        BY <2>1, <2>2
      <4> QED  BY <2>4, <4>2, <4>3, <4>4 DEF HoldsAfter
    <3> HIDE DEF h
    <3> QED  BY <3>1, <3>2, HeldIs, Zenon
  <2>6. OwnedOnce(held', free')
    <3>1. kalloc \in free \cup {NoFrame}
      BY Zenon DEF kalloc
    <3>2. OwnedOnce([held EXCEPT ![<<p, "buf", 0>>] = kalloc], free \ {kalloc})
      BY <1>1, <2>3, <3>1, AllocOwned, HeldType, Zenon DEF FrameInv
    <3> QED  BY <1>3, <2>5, <3>2, Zenon
  <2>7. OwnedOnce(held, free)'
    BY <2>6, Zenon DEF OwnedOnce
  <2>8. ASSUME NEW q \in Procs, act'[q].op # "swapin" PROVE act'[q].buf = NoFrame
    <3>1. q # p
      BY <2>1, <2>2, <2>8, Zenon
    <3>2. act'[q] = act[q]
      BY <2>1, <3>1, Zenon
    <3> QED  BY <2>8, <3>2, Zenon DEF FrameInv
  <2> QED  BY <2>7, <2>8, Zenon DEF FrameInv
<1> QED  BY <1>2, <1>3, Zenon DEF SwapInStart, Panic

\* swap_in() hands its buffer to the page table, from a state where h is held.
MapsBuffer(p, i, h) ==
  \A q \in Procs, j \in Pages :
    /\ FrameOf(pagetable'[q][j]) = IF q = p /\ j = i THEN act[p].buf
                                   ELSE h[<<q, "table", j>>]
    /\ h[<<q, "side", j>>] = FrameOf(sidetable[q][j])
    /\ h[<<q, "buf", j>>] = IF j = 0 THEN act[q].buf ELSE NoFrame

LEMMA BufferMapped ==
  ASSUME TypeOK, FrameInv, NEW p \in Procs, NEW i \in Pages,
         NEW h \in [Cells -> Frames \cup {NoFrame}], NEW fr \in SUBSET Frames,
         OwnedOnce(h, fr), free' = fr, sidetable' = sidetable,
         h[<<p, "table", i>>] = NoFrame, h[<<p, "buf", 0>>] = act[p].buf,
         act' = [act EXCEPT ![p] = Idle], MapsBuffer(p, i, h)
  PROVE  FrameInv'
<1> DEFINE x == <<p, "table", i>>
           y == <<p, "buf", 0>>
           g == [h EXCEPT ![x] = h[y], ![y] = NoFrame]
<1>1. act \in [Procs -> Acts]
  BY Zenon DEF TypeOK
<1>2. x \in Cells /\ y \in Cells /\ x # y
  BY MaxTotalPagesAssumption DEF Cells, Pages
<1>3. OwnedOnce(g, fr)
  BY <1>2, MoveOwned, Zenon
<1>4. \A c \in Cells : g[c] = IF c = y THEN NoFrame ELSE IF c = x THEN h[y] ELSE h[c]
  BY <1>2
<1>5. g = [c \in Cells |-> g[c]]
  <2>1. g \in [Cells -> Frames \cup {NoFrame}]
    BY <1>2
  <2> HIDE DEF g
  <2> QED  BY <2>1
<1>6. \A q \in Procs : act'[q] = IF q = p THEN Idle ELSE act[q]
  BY <1>1, Zenon
<1> HIDE DEF g
<1>7. ASSUME NEW q \in Procs, NEW j \in Pages PROVE HoldsAfter(g, q, j)
  <2>1. /\ g[<<q, "table", j>>] = IF q = p /\ j = i THEN h[y] ELSE h[<<q, "table", j>>]
        /\ g[<<q, "side", j>>] = h[<<q, "side", j>>]
        /\ g[<<q, "buf", j>>] = IF q = p /\ j = 0 THEN NoFrame ELSE h[<<q, "buf", j>>]
    BY <1>4, CellFacts
  <2>2. act'[q].buf = IF q = p THEN NoFrame ELSE act[q].buf
    BY <1>6, IdleFacts
  <2> QED  BY <2>1, <2>2 DEF HoldsAfter, MapsBuffer
<1>8. held' = g
  BY <1>5, <1>7, HeldIs, Zenon
<1>9. OwnedOnce(held, free)'
  <2>1. OwnedOnce(held', free')
    BY <1>3, <1>8, Zenon
  <2> QED  BY <2>1, Zenon DEF OwnedOnce
<1>10. ASSUME NEW q \in Procs, act'[q].op # "swapin" PROVE act'[q].buf = NoFrame
  <2>1. CASE q = p
    BY <1>6, <2>1, IdleFacts, Zenon
  <2>2. CASE q # p
    <3>1. act'[q] = act[q]
      BY <1>6, <2>2, Zenon
    <3> QED  BY <1>10, <3>1, Zenon DEF FrameInv
  <2> QED  BY <2>1, <2>2, Zenon
<1> QED  BY <1>9, <1>10, Zenon DEF FrameInv

\* swap_in() with room for the page.
LEMMA SwapInRoomFrames ==
  ASSUME Inv, FrameInv, NEW p \in Procs, Running(p), act[p].op = "swapin",
         SwapInRoom(p, act[p].a), sidetable' = sidetable
  PROVE  FrameInv'
<1> DEFINE i == act[p].a
           f == act[p].buf
           e == [UserPte(f) EXCEPT !.leaf = FALSE]
<1>1. TypeOK /\ pstate[p] = "RUN"
  BY Zenon DEF Inv, Running
<1>2. i \in Pages /\ ~pagetable[p][i].v
  BY <1>1, SwapInFacts, Zenon
<1>3. /\ pagetable' = [pagetable EXCEPT ![p][i] = e] /\ free' = free
      /\ act' = [act EXCEPT ![p] = Idle]
  BY Zenon DEF SwapInRoom
<1>4. FrameOf(e) = f
  BY DEF UserPte, FrameOf
<1>5. 0 \in Pages
  BY MaxTotalPagesAssumption DEF Pages
<1>6. held[<<p, "table", i>>] = NoFrame /\ held[<<p, "buf", 0>>] = f
  BY <1>2, <1>5, CellFacts, Zenon DEF FrameOf
<1> HIDE DEF e, i, f
<1>7. MapsBuffer(p, i, held)
  <2> SUFFICES ASSUME NEW q \in Procs, NEW j \in Pages
               PROVE  /\ FrameOf(pagetable'[q][j]) = IF q = p /\ j = i THEN f
                                                     ELSE held[<<q, "table", j>>]
                      /\ held[<<q, "side", j>>] = FrameOf(sidetable[q][j])
                      /\ held[<<q, "buf", j>>] = IF j = 0 THEN act[q].buf ELSE NoFrame
    BY Zenon DEF MapsBuffer, f
  <2>1. pagetable'[q][j] = IF q = p /\ j = i THEN e ELSE pagetable[q][j]
    BY <1>1, <1>2, <1>3 DEF TypeOK
  <2>2. held[<<q, "table", j>>] = FrameOf(pagetable[q][j])
    BY CellFacts, Zenon
  <2>3. FrameOf(pagetable'[q][j]) = IF q = p /\ j = i THEN f ELSE held[<<q, "table", j>>]
    BY <1>4, <2>1, <2>2
  <2> QED  BY <2>3, CellFacts, Zenon
<1>8. held \in [Cells -> Frames \cup {NoFrame}] /\ free \in SUBSET Frames
  BY <1>1, HeldType, Zenon
<1>9. OwnedOnce(held, free)
  BY DEF FrameInv
<1> QED  BY <1>1, <1>2, <1>3, <1>6, <1>7, <1>8, <1>9, BufferMapped, Zenon DEF f

\* swap_in() at the limit: the victim gives up its frame, and the buffer is mapped.
LEMMA SwapInEvictFrames ==
  ASSUME Inv, FrameInv, NEW p \in Procs, Running(p), act[p].op = "swapin", NEW off,
         EvictPanic(p, off) = "none",
         SwapInEvict(p, act[p].a, page_to_file(p, off)), sidetable' = sidetable
  PROVE  FrameInv'
<1> DEFINE i == act[p].a
           f == act[p].buf
           x == getIndexToRemove(p)
           e == page_to_file(p, off)
           k == [e.tab[i] EXCEPT !.v = TRUE, !.pg = FALSE, !.frame = f]
           h == [held EXCEPT ![<<p, "table", x>>] = NoFrame]
<1>1. TypeOK /\ pstate[p] = "RUN" /\ pagetable[p] \in [Pages -> Ptes]
  BY ProcFacts, Zenon DEF Running
<1>2. i \in Pages /\ ~pagetable[p][i].v
  BY <1>1, SwapInFacts, Zenon
<1>3. /\ pagetable' = [pagetable EXCEPT ![p] = [e.tab EXCEPT ![i] = k]]
      /\ free' = free \cup {e.frame} /\ act' = [act EXCEPT ![p] = Idle]
      /\ ~HasRoom(meta[p])
  BY Zenon DEF SwapInEvict
<1>4. /\ x \in Pages /\ pagetable[p][x].v
      /\ e.frame = FrameOf(pagetable[p][x]) /\ e.frame \in Frames
      /\ \A j \in Pages : FrameOf(e.tab[j]) = IF j = x THEN NoFrame
                                              ELSE FrameOf(pagetable[p][j])
  BY <1>1, <1>3, EvictedFrame, Zenon
<1>5. e.tab \in [Pages -> Ptes]
  BY <1>1, EvictedTableGood, Zenon DEF Without
<1> HIDE DEF e, x
<1>6. FrameOf(k) = f
  <2>1. e.tab[i] \in Ptes
    BY <1>2, <1>5, Zenon
  <2> QED  BY <2>1 DEF Ptes, FrameOf
<1>7. 0 \in Pages /\ <<p, "table", x>> \in Cells /\ held[<<p, "table", x>>] = e.frame
  <2>1. 0 \in Pages
    BY MaxTotalPagesAssumption DEF Pages
  <2> QED  BY <1>4, <2>1, CellFacts, Zenon
<1>8. held \in [Cells -> Frames \cup {NoFrame}] /\ free \in SUBSET Frames
  BY <1>1, HeldType, Zenon
<1>9. e.frame # NoFrame
  BY <1>4, FramesAssumption, Zenon
<1>10. OwnedOnce(h, free \cup {e.frame})
  BY <1>7, <1>8, <1>9, FreeOwned, Zenon DEF FrameInv
<1>11. \A c \in Cells : h[c] = IF c = <<p, "table", x>> THEN NoFrame ELSE held[c]
  BY <1>7, <1>8, Zenon
<1>12. h \in [Cells -> Frames \cup {NoFrame}] /\ free \cup {e.frame} \in SUBSET Frames
  BY <1>4, <1>7, <1>8
<1> HIDE DEF h, k, i, f
<1>13. ASSUME NEW q \in Procs, NEW j \in Pages
       PROVE  /\ h[<<q, "table", j>>] = IF q = p /\ j = x THEN NoFrame
                                        ELSE FrameOf(pagetable[q][j])
              /\ h[<<q, "side", j>>] = FrameOf(sidetable[q][j])
              /\ h[<<q, "buf", j>>] = IF j = 0 THEN act[q].buf ELSE NoFrame
  BY <1>11, CellFacts
<1>14. h[<<p, "table", i>>] = NoFrame /\ h[<<p, "buf", 0>>] = f
  <2>1. FrameOf(pagetable[p][i]) = NoFrame
    BY <1>2, Zenon DEF FrameOf
  <2>2. h[<<p, "table", i>>] = IF i = x THEN NoFrame ELSE FrameOf(pagetable[p][i])
    BY <1>2, <1>13, Zenon
  <2>3. h[<<p, "buf", 0>>] = f
    BY <1>7, <1>13, Zenon DEF f
  <2> QED  BY <2>1, <2>2, <2>3, Zenon
<1>15. ASSUME NEW q \in Procs, NEW j \in Pages
       PROVE  FrameOf(pagetable'[q][j]) = IF q = p /\ j = i THEN f ELSE h[<<q, "table", j>>]
  <2>1. pagetable'[q] = IF q = p THEN [e.tab EXCEPT ![i] = k] ELSE pagetable[q]
    BY <1>1, <1>3, Zenon DEF TypeOK
  <2>2. [e.tab EXCEPT ![i] = k][j] = IF j = i THEN k ELSE e.tab[j]
    BY <1>5, Zenon
  <2>3. CASE q # p
    BY <1>13, <2>1, <2>3, Zenon
  <2>4. CASE q = p /\ j = i
    BY <1>6, <2>1, <2>2, <2>4, Zenon
  <2>5. CASE q = p /\ j # i
    <3>1. FrameOf(pagetable'[q][j]) = FrameOf(e.tab[j])
      BY <2>1, <2>2, <2>5, Zenon
    <3>2. FrameOf(e.tab[j]) = IF j = x THEN NoFrame ELSE FrameOf(pagetable[p][j])
      BY <1>4, Zenon
    <3>3. h[<<q, "table", j>>] = IF j = x THEN NoFrame ELSE FrameOf(pagetable[p][j])
      BY <1>13, <2>5, Zenon
    <3> QED  BY <2>5, <3>1, <3>2, <3>3, Zenon
  <2> QED  BY <2>3, <2>4, <2>5, Zenon
<1>16. MapsBuffer(p, i, h)
  BY <1>13, <1>15, Zenon DEF MapsBuffer, f
<1> QED
  BY <1>1, <1>2, <1>3, <1>10, <1>12, <1>14, <1>16, BufferMapped, Zenon DEF f

\* exec() swaps the old page table for the one it has built.
LEMMA CommitFrames ==
  ASSUME Inv, FrameInv, NEW p \in Procs, ExecCommit(p)
  PROVE  FrameInv'
<1> DEFINE other(k) == IF k = "table" THEN "side" ELSE IF k = "side" THEN "table" ELSE k
           to(c) == IF c[1] = p THEN <<p, other(c[2]), c[3]>> ELSE c
           s == [c \in Cells |-> to(c)]
           h == [c \in Cells |-> held[s[c]]]
<1>1. TypeOK /\ act \in [Procs -> Acts]
  BY Zenon DEF Inv, TypeOK
<1>2. /\ act[p].op = "exec"
      /\ pagetable' = [pagetable EXCEPT ![p] = sidetable[p]]
      /\ sidetable' = [sidetable EXCEPT ![p] = pagetable[p]]
      /\ act' = [act EXCEPT ![p] = [Idle EXCEPT !.op = "unmap", !.end = sz[p],
                                                !.who = p, !.then = "exec"]]
      /\ free' = free
  BY Zenon DEF ExecCommit
<1>3. BuffersKept
  <2>1. /\ \A q \in Procs \ {p} : act'[q] = act[q]
        /\ act'[p] = [Idle EXCEPT !.op = "unmap", !.end = sz[p], !.who = p, !.then = "exec"]
    BY <1>1, <1>2, Zenon
  <2>2. act'[p].buf = NoFrame
    BY <2>1 DEF Idle
  <2>3. act[p].op # "swapin"
    BY <1>2, Zenon
  <2> QED  BY <2>1, <2>2, <2>3, BufferKept, Zenon
<1>4. ASSUME NEW c \in Cells PROVE to(c) \in Cells /\ to(to(c)) = c
  <2>1. PICK q \in Procs, k \in {"table", "side", "buf"}, j \in Pages : c = <<q, k, j>>
    BY DEF Cells
  <2> QED  BY <2>1 DEF Cells
<1> HIDE DEF to
<1>5. s \in [Cells -> Cells] /\ \A c \in Cells : s[s[c]] = c
  BY <1>4, Zenon
<1>6. OwnedOnce(h, free)
  <2> HIDE DEF s
  <2> QED  BY <1>5, SwapOwned, Zenon DEF FrameInv
<1>7. ASSUME NEW q \in Procs, NEW j \in Pages PROVE HoldsAfter(h, q, j)
  <2>1. /\ <<q, "table", j>> \in Cells /\ <<q, "side", j>> \in Cells
        /\ <<q, "buf", j>> \in Cells
    BY CellFacts, Zenon
  <2>2. /\ h[<<q, "table", j>>] = held[to(<<q, "table", j>>)]
        /\ h[<<q, "side", j>>] = held[to(<<q, "side", j>>)]
        /\ h[<<q, "buf", j>>] = held[to(<<q, "buf", j>>)]
    BY <2>1, <1>5, Zenon
  <2> HIDE DEF h, s
  <2>3. /\ h[<<q, "table", j>>] = IF q = p THEN FrameOf(sidetable[p][j])
                                  ELSE FrameOf(pagetable[q][j])
        /\ h[<<q, "side", j>>] = IF q = p THEN FrameOf(pagetable[p][j])
                                 ELSE FrameOf(sidetable[q][j])
        /\ h[<<q, "buf", j>>] = IF j = 0 THEN act[q].buf ELSE NoFrame
    BY <2>2, CellFacts DEF to
  <2>4. /\ pagetable'[q] = IF q = p THEN sidetable[p] ELSE pagetable[q]
        /\ sidetable'[q] = IF q = p THEN pagetable[p] ELSE sidetable[q]
    BY <1>1, <1>2, Zenon DEF TypeOK
  <2>5. act'[q].buf = act[q].buf
    BY <1>3, Zenon DEF BuffersKept
  <2> QED  BY <2>3, <2>4, <2>5 DEF HoldsAfter
<1>8. h = [c \in Cells |-> h[c]]
  BY Zenon
<1> HIDE DEF h
<1>9. held' = h
  BY <1>7, <1>8, HeldIs, Zenon
<1> QED  BY <1>2, <1>3, <1>6, <1>9, BufferRule, Zenon

-----------------------------------------------------------------------------
\* The boot has given the shell's image its pages and nothing else.
LEMMA InitFrames ==
  ASSUME Init
  PROVE  FrameInv
<1> DEFINE g == ShFrames
           D == 0 .. ShPages - 1
<1>1. g \in [D -> Frames] /\ \A i, j \in D : g[i] = g[j] => i = j
  BY ShellAssumption, Zenon DEF ShFrames
<1>2. D \subseteq Pages /\ 2 \in Procs
  <2>1. D \subseteq Pages
    BY LimitsAssumption, MaxTotalPagesAssumption DEF Pages
  <2> QED  BY <2>1, ProcsAssumption
<1>3. \A i \in Pages : i < ShPages <=> i \in D
  BY LimitsAssumption DEF Pages
<1> HIDE DEF g, D
<1>4. /\ pagetable = [p \in Procs |-> [i \in Pages |->
                        IF p = 2 /\ i < ShPages THEN UserPte(g[i]) ELSE NoPte]]
      /\ sidetable = [p \in Procs |-> NoTable] /\ act = [p \in Procs |-> Idle]
      /\ free = Frames \ {g[i] : i \in DOMAIN g}
  BY Zenon DEF Init, g
<1>5. ASSUME NEW q \in Procs, NEW j \in Pages
      PROVE  /\ held[<<q, "table", j>>] = IF q = 2 /\ j \in D THEN g[j] ELSE NoFrame
             /\ held[<<q, "side", j>>] = NoFrame
             /\ held[<<q, "buf", j>>] = NoFrame
  <2>1. FrameOf(NoPte) = NoFrame /\ \A f : FrameOf(UserPte(f)) = f
    BY DEF FrameOf, NoPte, UserPte
  <2>2. pagetable[q][j] = IF q = 2 /\ j \in D THEN UserPte(g[j]) ELSE NoPte
    BY <1>3, <1>4, Zenon
  <2>3. sidetable[q][j] = NoPte /\ act[q].buf = NoFrame
    BY <1>4, IdleFacts, Zenon DEF NoTable
  <2> QED  BY <2>1, <2>2, <2>3, CellFacts
<1>6. ASSUME NEW c \in Cells
      PROVE  \/ held[c] = NoFrame
             \/ \E j \in D : c = <<2, "table", j>> /\ held[c] = g[j]
  <2>1. PICK q \in Procs, k \in {"table", "side", "buf"}, j \in Pages : c = <<q, k, j>>
    BY DEF Cells
  <2>2. /\ held[<<q, "table", j>>] = IF q = 2 /\ j \in D THEN g[j] ELSE NoFrame
        /\ held[<<q, "side", j>>] = NoFrame
        /\ held[<<q, "buf", j>>] = NoFrame
    BY <1>5, Zenon
  <2>3. CASE k = "table"
    BY <2>1, <2>2, <2>3, Zenon
  <2>4. CASE k # "table"
    BY <2>1, <2>2, <2>4, Zenon
  <2> QED  BY <2>3, <2>4, Zenon
<1>7. \A x, y \in Cells : held[x] = held[y] /\ held[x] # NoFrame => x = y
  <2> SUFFICES ASSUME NEW x \in Cells, NEW y \in Cells, held[x] = held[y], held[x] # NoFrame
               PROVE  x = y
    BY Zenon
  <2>1. PICK i \in D : x = <<2, "table", i>> /\ held[x] = g[i]
    BY <1>6, Zenon
  <2>2. PICK j \in D : y = <<2, "table", j>> /\ held[y] = g[j]
    BY <1>6, Zenon
  <2> QED  BY <1>1, <2>1, <2>2, Zenon
<1>8. \A f \in Frames : f \in free <=> \A x \in Cells : held[x] # f
  <2> SUFFICES ASSUME NEW f \in Frames
               PROVE  (\E i \in D : g[i] = f) <=> \E x \in Cells : held[x] = f
    BY <1>1, <1>4
  <2>1. ASSUME NEW i \in D, g[i] = f PROVE \E x \in Cells : held[x] = f
    <3>1. 2 \in Procs /\ i \in Pages
      BY <1>2, Zenon
    <3>2. held[<<2, "table", i>>] = IF 2 = 2 /\ i \in D THEN g[i] ELSE NoFrame
      BY <1>5, <3>1, Zenon
    <3>3. <<2, "table", i>> \in Cells
      BY <3>1, CellFacts, Zenon
    <3> QED  BY <2>1, <3>2, <3>3, Zenon
  <2>2. ASSUME NEW x \in Cells, held[x] = f PROVE \E i \in D : g[i] = f
    BY <1>6, <2>2, FramesAssumption, Zenon
  <2> QED  BY <2>1, <2>2, Zenon
<1>9. \A p \in Procs : act[p].buf = NoFrame
  BY <1>4, IdleFacts, Zenon
<1> QED  BY <1>7, <1>8, <1>9, Zenon DEF FrameInv, OwnedOnce

\* Every step of the system keeps the frames owned once.
LEMMA NextFrames ==
  ASSUME Inv, FrameInv, [Next]_vars
  PROVE  FrameInv'
<1>1. CASE UNCHANGED vars \/ Halted
  BY <1>1, StopFrames, Zenon DEF vars, Halted, pt
<1>2. ASSUME NEW p \in Procs, NEW i \in Pages, SwapInStart(p, i) PROVE FrameInv'
  BY <1>2, SwapInStartFrames, Zenon
<1>3. ASSUME NEW p \in Procs, SwapInFinish(p) PROVE FrameInv'
  <2> DEFINE off == meta[p].offset[act[p].a]
  <2>1. Running(p) /\ act[p].op = "swapin" /\ sidetable' = sidetable
    BY <1>3, Zenon DEF SwapInFinish
  <2>2. CASE SwapInRoom(p, act[p].a)
    BY <2>1, <2>2, SwapInRoomFrames, Zenon
  <2>3. CASE EvictPanic(p, off) = "none" /\ SwapInEvict(p, act[p].a, page_to_file(p, off))
    BY <2>1, <2>3, SwapInEvictFrames, Zenon
  <2>4. CASE SwapInPanic(p, off)
    BY <2>1, <2>4, StopFrames, Zenon DEF SwapInPanic, pt
  <2> QED  BY <1>3, <2>2, <2>3, <2>4, Zenon DEF SwapInFinish
<1>4. ASSUME NEW p \in Procs, NEW i \in Pages, Killed(p, i) \/ Exit(p) PROVE FrameInv'
  BY <1>4, StopFrames, Zenon DEF Killed, Exit, exit
<1>5. ASSUME NEW p \in Procs, Exit(p) PROVE FrameInv'
  BY <1>5, StopFrames, Zenon DEF Exit, exit
<1>6. ASSUME NEW p \in Procs,
             Tick(p) \/ \E i \in Pages, v \in Versions : Touch(p, i, v)
      PROVE  FrameInv'
  BY <1>6, AccessFrames, Zenon
<1>7. ASSUME NEW p \in Procs,
             \/ \E n \in 1 .. MaxGrow : Grow(p, n) \/ Shrink(p, n)
             \/ \E c \in Procs : Fork(p, c) \/ Wait(p, c)
             \/ \E n \in Images : Exec(p, n)
             \/ GrowFail(p) \/ GrowDone(p) \/ createSwapFile(p) \/ copySwapFile(p)
             \/ ForkDone(p) \/ ExecBad(p) \/ UnmapDone(p)
      PROVE  FrameInv'
  BY <1>7, QuietFrames, Zenon
<1>8. ASSUME NEW p \in Procs, GrowMap(p) \/ GrowPage(p) PROVE FrameInv'
  BY <1>8, MapFrames, Zenon
<1>9. ASSUME NEW p \in Procs, GrowEvict(p) PROVE FrameInv'
  BY <1>9, GrowEvictFrames, Zenon
<1>10. ASSUME NEW p \in Procs, ForkCopy(p) PROVE FrameInv'
  BY <1>10, CopyFrames, Zenon
<1>11. ASSUME NEW p \in Procs, ExecPage(p) PROVE FrameInv'
  BY <1>11, ExecFrames, Zenon
<1>12. ASSUME NEW p \in Procs, ExecCommit(p) PROVE FrameInv'
  BY <1>12, CommitFrames, Zenon
<1>13. ASSUME NEW p \in Procs, UnmapPage(p) PROVE FrameInv'
  BY <1>13, UnmapFrames, Zenon
<1> QED
  BY <1>1, <1>2, <1>3, <1>4, <1>5, <1>6, <1>7, <1>8, <1>9, <1>10, <1>11, <1>12, <1>13,
     ZenonT(60) DEF Next

\* The frame invariant says what the free list and the tables promise each other.
LEMMA FrameInvOwned == FrameInv => FramesOwnedOnce
<1> SUFFICES ASSUME FrameInv, NEW f \in Frames
             PROVE  /\ \A h, k \in Holders(f) : h = k
                    /\ \A p, q \in Buffers(f) : p = q
                    /\ Holders(f) = {} \/ Buffers(f) = {}
                    /\ f \in free <=> (Holders(f) = {} /\ Buffers(f) = {})
  BY Zenon DEF FramesOwnedOnce
<1> DEFINE cell(h) == <<h[1], IF h[2] THEN "side" ELSE "table", h[3]>>
           pte(h) == IF h[2] THEN sidetable[h[1]][h[3]] ELSE pagetable[h[1]][h[3]]
<1>1. Holders(f) = {h \in Procs \X BOOLEAN \X Pages : pte(h).v /\ pte(h).frame = f}
  BY Zenon DEF Holders
<1>2. ASSUME NEW q, NEW j
       PROVE  /\ pte(<<q, TRUE, j>>) = sidetable[q][j]
              /\ pte(<<q, FALSE, j>>) = pagetable[q][j]
              /\ cell(<<q, TRUE, j>>) = <<q, "side", j>>
              /\ cell(<<q, FALSE, j>>) = <<q, "table", j>>
  OBVIOUS
<1> HIDE DEF pte
<1>3. 0 \in Pages /\ f # NoFrame
  BY MaxTotalPagesAssumption, FramesAssumption DEF Pages
<1>4. ASSUME NEW h \in Holders(f)
      PROVE  cell(h) \in Cells /\ held[cell(h)] = f /\ h \in Procs \X BOOLEAN \X Pages
  <2>1. h \in Procs \X BOOLEAN \X Pages
    BY DEF Holders
  <2>2. PICK q \in Procs, b \in BOOLEAN, j \in Pages : h = <<q, b, j>>
    BY <2>1
  <2>3. pte(h).v /\ pte(h).frame = f
    BY <1>1, Zenon
  <2> HIDE DEF cell
  <2>4. CASE b = TRUE
    <3>1. h = <<q, TRUE, j>>
      BY <2>2, <2>4, Zenon
    <3>2. cell(h) = <<q, "side", j>> /\ sidetable[q][j].v /\ sidetable[q][j].frame = f
      BY <1>2, <2>3, <3>1, Zenon
    <3>3. FrameOf(sidetable[q][j]) = f
      BY <3>2, Zenon DEF FrameOf
    <3> QED  BY <2>1, <3>2, <3>3, CellFacts, Zenon
  <2>5. CASE b = FALSE
    <3>1. h = <<q, FALSE, j>>
      BY <2>2, <2>5, Zenon
    <3>2. cell(h) = <<q, "table", j>> /\ pagetable[q][j].v /\ pagetable[q][j].frame = f
      BY <1>2, <2>3, <3>1, Zenon
    <3>3. FrameOf(pagetable[q][j]) = f
      BY <3>2, Zenon DEF FrameOf
    <3> QED  BY <2>1, <3>2, <3>3, CellFacts, Zenon
  <2> QED  BY <2>4, <2>5, Zenon
<1>5. ASSUME NEW p \in Buffers(f)
      PROVE  p \in Procs /\ <<p, "buf", 0>> \in Cells /\ held[<<p, "buf", 0>>] = f
  BY <1>3, CellFacts, Zenon DEF Buffers
<1>6. ASSUME NEW c \in Cells, held[c] = f
      PROVE  Holders(f) # {} \/ Buffers(f) # {}
  <2>1. PICK q \in Procs, k \in {"table", "side", "buf"}, j \in Pages : c = <<q, k, j>>
    BY DEF Cells
  <2>5. \A b \in BOOLEAN : <<q, b, j>> \in Procs \X BOOLEAN \X Pages
    OBVIOUS
  <2>2. CASE k = "table"
    <3>1. pagetable[q][j].v /\ pagetable[q][j].frame = f
      BY <1>3, <1>6, <2>1, <2>2, CellFacts, Zenon DEF FrameOf
    <3>2. pte(<<q, FALSE, j>>).v /\ pte(<<q, FALSE, j>>).frame = f
      <4>1. pte(<<q, FALSE, j>>) = pagetable[q][j]
        BY DEF pte
      <4> QED  BY <3>1, <4>1, Zenon
    <3>3. <<q, FALSE, j>> \in Holders(f)
      BY <1>1, <2>5, <3>2, Zenon
    <3> QED  BY <3>3, Zenon
  <2>3. CASE k = "side"
    <3>1. sidetable[q][j].v /\ sidetable[q][j].frame = f
      BY <1>3, <1>6, <2>1, <2>3, CellFacts, Zenon DEF FrameOf
    <3>2. pte(<<q, TRUE, j>>).v /\ pte(<<q, TRUE, j>>).frame = f
      <4>1. pte(<<q, TRUE, j>>) = sidetable[q][j]
        BY DEF pte
      <4> QED  BY <3>1, <4>1, Zenon
    <3>3. <<q, TRUE, j>> \in Holders(f)
      BY <1>1, <2>5, <3>2, Zenon
    <3> QED  BY <3>3, Zenon
  <2>4. CASE k = "buf"
    <3>1. act[q].buf = f
      BY <1>3, <1>6, <2>1, <2>4, CellFacts, Zenon
    <3> QED  BY <3>1, Zenon DEF Buffers
  <2> QED  BY <2>2, <2>3, <2>4
<1>7. \A x, y \in Cells : held[x] = f /\ held[y] = f => x = y
  BY <1>3, Zenon DEF FrameInv, OwnedOnce
<1>8. f \in free <=> \A x \in Cells : held[x] # f
  BY Zenon DEF FrameInv, OwnedOnce
<1>9. ASSUME NEW h \in Holders(f), NEW k \in Holders(f) PROVE h = k
  <2>1. cell(h) = cell(k)
    BY <1>4, <1>7, Zenon
  <2>2. h \in Procs \X BOOLEAN \X Pages /\ k \in Procs \X BOOLEAN \X Pages
    BY <1>4, Zenon
  <2> QED  BY <2>1, <2>2
<1>10. ASSUME NEW p \in Buffers(f), NEW q \in Buffers(f) PROVE p = q
  <2>1. <<p, "buf", 0>> = <<q, "buf", 0>>
    BY <1>5, <1>7, Zenon
  <2> QED  BY <2>1
<1>11. ASSUME NEW h \in Holders(f), NEW p \in Buffers(f) PROVE FALSE
  <2>1. cell(h) = <<p, "buf", 0>>
    BY <1>4, <1>5, <1>7, Zenon
  <2> QED  BY <2>1
<1>12. f \in free <=> (Holders(f) = {} /\ Buffers(f) = {})
  <2>1. ASSUME f \in free PROVE Holders(f) = {} /\ Buffers(f) = {}
    <3>1. \A x \in Cells : held[x] # f
      BY <1>8, <2>1, Zenon
    <3>2. ASSUME NEW h \in Holders(f) PROVE FALSE
      BY <1>4, <3>1, Zenon
    <3>3. ASSUME NEW p \in Buffers(f) PROVE FALSE
      BY <1>5, <3>1, Zenon
    <3> QED  BY <3>2, <3>3, Zenon
  <2>2. ASSUME f \notin free PROVE ~(Holders(f) = {} /\ Buffers(f) = {})
    BY <1>6, <1>8, <2>2, Zenon
  <2> QED  BY <2>1, <2>2, Zenon
<1>13. Holders(f) = {} \/ Buffers(f) = {}
  BY <1>11
<1> QED  BY <1>9, <1>10, <1>12, <1>13, Zenon

=============================================================================

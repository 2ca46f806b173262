---------------------------- MODULE PagingProofs ----------------------------
(***************************************************************************)
(* Inv is an invariant of Paging, for all sizes, numbers of processes and  *)
(* frames, and workloads; TypeOK, MetadataAgrees, VictimExists,            *)
(* FreewalkFindsNoLeaf and NoRemap follow from it, and with FrameInv so    *)
(* does FramesOwnedOnce.                                                   *)
(***************************************************************************)
EXTENDS PagingMemoryProofs, PagingFrameProofs

USE MaxTotalPagesAssumption

(***************************************************************************)
(* All the steps.                                                          *)
(***************************************************************************)

\* The state that the boot leaves satisfies the invariant.
LEMMA InitInv ==
  ASSUME Init
  PROVE  Inv
<1> DEFINE g == ShFrames
<1>1. g \in [0 .. ShPages - 1 -> Frames]
  BY ShellAssumption, Zenon DEF ShFrames
<1> HIDE DEF g
<1>2. 0 .. ShPages - 1 \subseteq Pages /\ ShPages \in 0 .. MAX_TOTAL_PAGES
  BY LimitsAssumption DEF Pages
<1>3. /\ pstate = [p \in Procs |-> IF p <= 2 THEN "RUN" ELSE "UNUSED"]
      /\ parent = [p \in Procs |-> IF p = 2 THEN initproc ELSE 0]
      /\ sz = [p \in Procs |-> IF p = 2 THEN ShPages ELSE 0]
      /\ swapFile = [p \in Procs |-> <<>>]
      /\ act = [p \in Procs |-> Idle]
      /\ want = [p \in Procs |-> NoWant]
      /\ pagetable = [p \in Procs |-> [i \in Pages |->
                        IF p = 2 /\ i < ShPages THEN UserPte(g[i]) ELSE NoPte]]
      /\ sidetable = [p \in Procs |-> NoTable]
      /\ free = Frames \ {g[i] : i \in DOMAIN g}
      /\ mem = [f \in Frames |-> IF \E i \in DOMAIN g : g[i] = f
                                 THEN Written(CHOOSE i \in DOMAIN g : g[i] = f, 0)
                                 ELSE Junk]
      /\ shadow = [p \in Procs |-> [i \in Pages |->
                     IF p = 2 /\ i < ShPages THEN Written(i, 0) ELSE Junk]]
      /\ meta = [p \in Procs |-> NoMeta]
  BY Zenon DEF Init, g
<1>4. \A p \in Procs, i \in Pages :
        /\ pagetable[p][i] \in Ptes /\ ~pagetable[p][i].pg
        /\ pagetable[p][i].v => p = 2 /\ i < ShPages
        /\ sidetable[p][i] = NoPte
  <2> SUFFICES ASSUME NEW p \in Procs, NEW i \in Pages
               PROVE  /\ pagetable[p][i] \in Ptes /\ ~pagetable[p][i].pg
                      /\ pagetable[p][i].v => p = 2 /\ i < ShPages
                      /\ sidetable[p][i] = NoPte
    BY Zenon
  <2>1. sidetable[p][i] = NoPte
    BY <1>3, Zenon DEF NoTable
  <2>2. CASE p = 2 /\ i < ShPages
    <3>1. i \in 0 .. ShPages - 1
      BY <2>2, LimitsAssumption DEF Pages
    <3>2. pagetable[p][i] = UserPte(g[i]) /\ g[i] \in Frames
      BY <1>1, <1>3, <2>2, <3>1, Zenon
    <3> QED  BY <2>1, <2>2, <3>2 DEF UserPte, Ptes
  <2>3. CASE ~(p = 2 /\ i < ShPages)
    <3>1. pagetable[p][i] = NoPte
      BY <1>3, <2>3, Zenon
    <3> QED  BY <2>1, <3>1, PteFacts, Zenon
  <2> QED  BY <2>2, <2>3, Zenon
<1>5. pagetable \in [Procs -> [Pages -> Ptes]] /\ sidetable \in [Procs -> [Pages -> Ptes]]
  <2>1. NoTable \in [Pages -> Ptes]
    BY PteFacts, Zenon DEF NoTable
  <2>2. \A p \in Procs : pagetable[p] \in [Pages -> Ptes]
    BY <1>3, <1>4, Zenon
  <2>3. pagetable = [p \in Procs |-> pagetable[p]]
    BY <1>3, Zenon
  <2> QED  BY <1>3, <2>1, <2>2, <2>3, Zenon
<1>6. \A i \in Pages : Written(i, 0) \in Contents
  BY DEF Contents
<1>7. mem \in [Frames -> Contents]
  <2>1. \A f \in Frames : mem[f] \in Contents
    <3> SUFFICES ASSUME NEW f \in Frames PROVE mem[f] \in Contents
      BY Zenon
    <3>1. CASE \E i \in DOMAIN g : g[i] = f
      <4> DEFINE k == CHOOSE i \in DOMAIN g : g[i] = f
      <4>1. k \in DOMAIN g
        BY <3>1, Zenon
      <4>2. mem[f] = Written(k, 0)
        BY <1>3, <3>1, Zenon
      <4> HIDE DEF k
      <4> QED  BY <1>1, <1>2, <1>6, <4>1, <4>2
    <3>2. CASE ~\E i \in DOMAIN g : g[i] = f
      BY <1>3, <3>2, ContentsFacts, Zenon
    <3> QED  BY <3>1, <3>2, Zenon
  <2>2. mem = [f \in Frames |-> mem[f]]
    BY <1>3, Zenon
  <2> QED  BY <2>1, <2>2, Zenon
<1>8. shadow \in [Procs -> [Pages -> Contents]]
  BY <1>3, <1>6, ContentsFacts, Zenon
<1>9. TypeOK
  <2>1. NoMeta \in Metas /\ Idle \in Acts
    BY NoMetaGood, IdleFacts, Zenon DEF GoodMeta
  <2>2. pstate \in [Procs -> {"UNUSED", "USED", "RUN", "ZOMBIE"}] /\ parent \in [Procs -> Procs \cup {0}]
    BY <1>3, ProcsAssumption DEF initproc
  <2>3. sz \in [Procs -> 0 .. MAX_TOTAL_PAGES] /\ want \in [Procs -> Pages \cup {NoWant}]
    BY <1>2, <1>3
  <2>4. meta \in [Procs -> Metas] /\ act \in [Procs -> Acts]
    BY <1>3, <2>1, Zenon
  <2>5. swapFile \in [Procs -> Seq(Contents)] /\ free \subseteq Frames
    BY <1>3
  <2> QED  BY <1>5, <1>7, <1>8, <2>2, <2>3, <2>4, <2>5 DEF TypeOK
<1>10. ASSUME NEW p \in Procs
       PROVE  ActOK(p) /\ TablesOK(p) /\ MetaOK(p)
  <2>1. /\ act[p] = Idle /\ meta[p] = NoMeta /\ sz[2] = ShPages
        /\ pstate[p] # "USED" /\ pstate[p] = "UNUSED" => p > 2
    BY <1>3, ProcsAssumption
  <2>2. ActOK(p)
    BY <2>1, IdleFacts, Zenon DEF ActOK, Foreign
  <2>3. TablesOK(p)
    <3>1. pstate[p] = "UNUSED" => p # 2
      BY <2>1
    <3> QED  BY <1>4, <2>1, <3>1, IdleFacts, PteFacts, ZenonT(40) DEF TablesOK, PageOK
  <2>4. MetaOK(p)
    <3>1. \A i \in Used(NoMeta) : FALSE
      BY Zenon DEF Used, NoMeta
    <3> QED  BY <2>1, <3>1, NoMetaGood, Zenon DEF MetaOK
  <2> QED  BY <2>2, <2>3, <2>4, Zenon
<1> QED  BY <1>9, <1>10, Zenon DEF Inv

\* A step that panics, or that halts after a panic, leaves the invariant alone.
LEMMA PanicInv ==
  ASSUME Inv, NEW msg, Panic(msg)
  PROVE  Inv'
BY StutterInv, Zenon DEF Panic, pt

\* The steps of the page-fault handler.
LEMMA FaultInv ==
  ASSUME Inv, NEW p \in Procs, NEW i \in Pages, SwapInStart(p, i) \/ SwapInFinish(p)
  PROVE  Inv'
<1>1. CASE SwapInStart(p, i)
  <2>1. CASE meta[p].offset[i] # NoOffset /\ free # {}
    BY <1>1, <2>1, SwapInStartInv, Zenon
  <2>2. CASE ~(meta[p].offset[i] # NoOffset /\ free # {})
    <3>1. \E msg \in {"Fail in handling page fault",
                      "Fail in kalloc while handling page fault"} : Panic(msg)
      BY <1>1, <2>2, Zenon DEF SwapInStart
    <3> QED  BY <3>1, PanicInv, Zenon
  <2> QED  BY <2>1, <2>2, Zenon
<1>2. CASE SwapInFinish(p)
  <2> DEFINE off == meta[p].offset[act[p].a]
  <2>1. /\ Running(p) /\ act[p].op = "swapin"
        /\ UNCHANGED <<pstate, parent, sz, sidetable, want, shadow>>
    BY <1>2, Zenon DEF SwapInFinish
  <2>2. \/ SwapInRoom(p, act[p].a)
        \/ EvictPanic(p, off) = "none" /\ SwapInEvict(p, act[p].a, page_to_file(p, off))
        \/ SwapInPanic(p, off)
    BY <1>2, Zenon DEF SwapInFinish
  <2>3. CASE SwapInRoom(p, act[p].a)
    BY <2>1, <2>3, SwapInRoomInv, Zenon
  <2>4. CASE EvictPanic(p, off) = "none" /\ SwapInEvict(p, act[p].a, page_to_file(p, off))
    BY <2>1, <2>4, SwapInEvictInv, Zenon
  <2>5. CASE SwapInPanic(p, off)
    BY <2>1, <2>5, StutterInv, Zenon DEF SwapInPanic, pt
  <2> QED  BY <2>2, <2>3, <2>4, <2>5, Zenon
<1> QED  BY <1>1, <1>2, Zenon

\* The steps of sbrk().
LEMMA GrowStepInv ==
  ASSUME Inv, NEW p \in Procs,
         \/ GrowEvict(p) \/ GrowMap(p) \/ GrowPage(p) \/ GrowFail(p) \/ GrowDone(p)
         \/ \E n \in 1 .. MaxGrow : Grow(p, n) \/ Shrink(p, n)
  PROVE  Inv'
<1>1. CASE GrowEvict(p)
  <2>1. CASE EvictPanic(p, getOffset(p)) = "none"
    BY <1>1, <2>1, GrowEvictInv, Zenon
  <2>2. CASE EvictPanic(p, getOffset(p)) # "none"
    <3>1. /\ UNCHANGED <<pagetable, meta, swapFile, free, mem, act>>
          /\ UNCHANGED <<pstate, parent, sz, sidetable, want, shadow>>
      BY <1>1, <2>2, Zenon DEF GrowEvict
    <3> QED  BY <3>1, StutterInv, Zenon DEF pt
  <2> QED  BY <2>1, <2>2, Zenon
<1>2. CASE GrowMap(p)
  BY <1>2, GrowMapInv, Zenon
<1>3. CASE GrowPage(p)
  BY <1>3, GrowPageInv, Zenon
<1>4. CASE GrowFail(p)
  BY <1>4, GrowFailInv, Zenon
<1>5. CASE GrowDone(p)
  BY <1>5, GrowDoneInv, Zenon
<1>6. ASSUME NEW n \in 1 .. MaxGrow, Grow(p, n) PROVE Inv'
  BY <1>6, GrowInv, Zenon
<1>7. ASSUME NEW n \in 1 .. MaxGrow, Shrink(p, n) PROVE Inv'
  BY <1>7, ShrinkInv, Zenon
<1> QED  BY <1>1, <1>2, <1>3, <1>4, <1>5, <1>6, <1>7

\* The steps of uvmunmap() and of its callers.
LEMMA UnmapInv ==
  ASSUME Inv, NEW p \in Procs, UnmapPage(p) \/ UnmapDone(p)
  PROVE  Inv'
<1> DEFINE c == act[p].who
<1>1. act[p].then = "freeproc" => c \in Procs
  BY Zenon DEF Inv, ActOK
<1>2. CASE UnmapPage(p)
  <2>1. \/ panic' = panic
        \/ \E msg \in {"uvmunmap: not a leaf", "kfree"} : Panic(msg)
    BY <1>2, Zenon DEF UnmapPage
  <2>2. CASE \E msg \in {"uvmunmap: not a leaf", "kfree"} : Panic(msg)
    BY <2>2, PanicInv, Zenon
  <2>3. CASE panic' = panic /\ act[p].then # "freeproc"
    BY <1>2, <2>3, UnmapOwnInv, Zenon
  <2>4. CASE panic' = panic /\ act[p].then = "freeproc"
    BY <1>1, <1>2, <2>4, UnmapChildInv, Zenon
  <2> QED  BY <2>1, <2>2, <2>3, <2>4, Zenon
<1>3. CASE UnmapDone(p)
  BY <1>1, <1>3, UnmapDoneOwnInv, UnmapDoneChildInv, Zenon
<1> QED  BY <1>2, <1>3

\* The steps of fork() and wait().
LEMMA ForkStepInv ==
  ASSUME Inv, NEW p \in Procs,
         \/ ForkCopy(p) \/ createSwapFile(p) \/ copySwapFile(p) \/ ForkDone(p)
         \/ \E c \in Procs : Fork(p, c) \/ Wait(p, c)
  PROVE  Inv'
<1> DEFINE k == act[p].who
<1>1. act[p].op \in {"copy", "copyfile"} => k \in Procs
  BY Zenon DEF Inv, ActOK
<1>2. CASE ForkCopy(p)
  <2>1. k \in Procs
    BY <1>1, <1>2, Zenon DEF ForkCopy
  <2>2. \/ panic' = panic /\ (~pagetable[p][act[p].a].v \/ free # {})
        \/ panic' = panic /\ pagetable[p][act[p].a].v /\ free = {}
        \/ /\ UNCHANGED <<pagetable, free, mem, act>>
           /\ UNCHANGED <<pstate, parent, sz, sidetable, meta, swapFile, want, shadow>>
    BY <1>2, Zenon DEF ForkCopy
  <2>3. CASE panic' = panic /\ (~pagetable[p][act[p].a].v \/ free # {})
    BY <1>2, <2>1, <2>3, ForkCopyInv, Zenon
  <2>4. CASE panic' = panic /\ pagetable[p][act[p].a].v /\ free = {}
    BY <1>2, <2>1, <2>4, ForkFailInv, Zenon
  <2>5. CASE /\ UNCHANGED <<pagetable, free, mem, act>>
             /\ UNCHANGED <<pstate, parent, sz, sidetable, meta, swapFile, want, shadow>>
    BY <2>5, StutterInv, Zenon DEF pt
  <2> QED  BY <2>2, <2>3, <2>4, <2>5, Zenon
<1>3. CASE createSwapFile(p)
  <2>1. k \in Procs
    BY <1>1, <1>3, Zenon DEF createSwapFile
  <2> QED  BY <1>3, <2>1, createSwapFileInv, Zenon
<1>4. CASE copySwapFile(p)
  <2>1. k \in Procs
    BY <1>1, <1>4, Zenon DEF copySwapFile
  <2> QED  BY <1>4, <2>1, copySwapFileInv, Zenon
<1>5. CASE ForkDone(p)
  <2>1. k \in Procs
    BY <1>1, <1>5, Zenon DEF ForkDone
  <2> QED  BY <1>5, <2>1, ForkDoneInv, Zenon
<1>6. ASSUME NEW c \in Procs, Fork(p, c) PROVE Inv'
  BY <1>6, ForkInv, Zenon
<1>7. ASSUME NEW c \in Procs, Wait(p, c) PROVE Inv'
  BY <1>7, WaitInv, Zenon
<1> QED  BY <1>2, <1>3, <1>4, <1>5, <1>6, <1>7, ZenonT(40)

\* The steps of exec(), exit() and the clock, and the user's own.
LEMMA OtherStepInv ==
  ASSUME Inv, NEW p \in Procs,
         \/ ExecPage(p) \/ ExecBad(p) \/ ExecCommit(p) \/ Exit(p) \/ Tick(p)
         \/ \E n \in Images : Exec(p, n)
         \/ \E i \in Pages : Killed(p, i) \/ \E v \in Versions : Touch(p, i, v)
  PROVE  Inv'
<1>1. CASE ExecPage(p)
  BY <1>1, ExecPageInv, Zenon
<1>2. CASE ExecBad(p)
  BY <1>2, ExecBadInv, Zenon
<1>3. CASE ExecCommit(p)
  BY <1>3, ExecCommitInv, Zenon
<1>4. CASE Exit(p)
  BY <1>4, exitInv, Zenon DEF Exit, Syscall, InUser, Running
<1>5. CASE Tick(p)
  BY <1>5, TickInv, Zenon
<1>6. ASSUME NEW n \in Images, Exec(p, n) PROVE Inv'
  BY <1>6, ExecInv, Zenon
<1>7. ASSUME NEW i \in Pages, Killed(p, i) PROVE Inv'
  BY <1>7, exitInv, Zenon DEF Killed, Faults, InUser, Running
<1>8. ASSUME NEW i \in Pages, NEW v \in Versions, Touch(p, i, v) PROVE Inv'
  BY <1>8, TouchInv, Zenon
<1> QED  BY <1>1, <1>2, <1>3, <1>4, <1>5, <1>6, <1>7, <1>8, ZenonT(40)

\* Every step preserves the invariant.
LEMMA NextInv ==
  ASSUME Inv, [Next]_vars
  PROVE  Inv'
<1>1. CASE UNCHANGED vars \/ Halted
  BY <1>1, StutterInv, Zenon DEF vars, Halted, pt
<1>2. ASSUME NEW p \in Procs, NEW i \in Pages, SwapInStart(p, i) PROVE Inv'
  BY <1>2, FaultInv, Zenon
<1>3. ASSUME NEW p \in Procs, SwapInFinish(p) PROVE Inv'
  <2>1. 0 \in Pages
    BY DEF Pages
  <2> QED  BY <1>3, <2>1, FaultInv, Zenon
<1>4. ASSUME NEW p \in Procs,
             \/ ExecPage(p) \/ ExecBad(p) \/ ExecCommit(p) \/ Exit(p) \/ Tick(p)
             \/ \E n \in Images : Exec(p, n)
             \/ \E i \in Pages : Killed(p, i) \/ \E v \in Versions : Touch(p, i, v)
      PROVE  Inv'
  BY <1>4, OtherStepInv, Zenon
<1>5. ASSUME NEW p \in Procs,
             \/ GrowEvict(p) \/ GrowMap(p) \/ GrowPage(p) \/ GrowFail(p) \/ GrowDone(p)
             \/ \E n \in 1 .. MaxGrow : Grow(p, n) \/ Shrink(p, n)
      PROVE  Inv'
  BY <1>5, GrowStepInv, Zenon
<1>6. ASSUME NEW p \in Procs, UnmapPage(p) \/ UnmapDone(p) PROVE Inv'
  BY <1>6, UnmapInv, Zenon
<1>7. ASSUME NEW p \in Procs,
             \/ ForkCopy(p) \/ createSwapFile(p) \/ copySwapFile(p) \/ ForkDone(p)
             \/ \E c \in Procs : Fork(p, c) \/ Wait(p, c)
      PROVE  Inv'
  BY <1>7, ForkStepInv, Zenon
<1> QED
  BY <1>1, <1>2, <1>3, <1>4, <1>5, <1>6, <1>7, ZenonT(40) DEF Next

-----------------------------------------------------------------------------
\* The inductive invariant holds in every reachable state, for any number of
\* processes and frames, any limits and any of the three policies.
THEOREM InvHolds == Spec => []Inv
<1>1. Init => Inv
  BY InitInv, Zenon
<1>2. Inv /\ [Next]_vars => Inv'
  BY NextInv, Zenon
<1> QED
  BY <1>1, <1>2, PTL DEF Spec

\* Sizes, slots, counters and queues stay within the arrays of struct proc: in
\* particular pagesInMemory stays between 0 and MAX_PSYC_PAGES, although
\* uvmunmap() lowers the counter of the calling process for other tables.
THEOREM TypeCorrect == Spec => []TypeOK
<1>1. Inv => TypeOK
  BY Zenon DEF Inv
<1> QED
  BY <1>1, InvHolds, PTL

\* A page that the metadata marks resident is resident in the table that it
\* describes, and the SCFIFO queue holds exactly these pages, each once.
THEOREM MetadataAlwaysAgrees == Spec => []MetadataAgrees
<1>1. Inv => MetadataAgrees
  BY DEF Inv, MetaOK, GoodMeta, Used, MetadataAgrees
<1> QED
  BY <1>1, InvHolds, PTL

\* At the limit, scfifo() has a page to evict.
THEOREM VictimAlwaysExists == Spec => []VictimExists
<1>1. Inv => VictimExists
  <2> SUFFICES ASSUME Inv, NEW p \in Procs, SELECTION = "SCFIFO"
               PROVE  meta[p].pagesInMemory <= Len(meta[p].queue)
    BY Zenon DEF VictimExists
  <2>1. GoodMeta(meta[p])
    BY ZenonT(40) DEF Inv, MetaOK
  <2> QED  BY <2>1, Zenon DEF GoodMeta
<1> QED
  BY <1>1, InvHolds, PTL

\* uvmfree() has unmapped every page of a table before freewalk() takes it apart.
THEOREM FreewalkNeverFindsLeaf == Spec => []FreewalkFindsNoLeaf
<1>1. Inv => FreewalkFindsNoLeaf
  <2> SUFFICES ASSUME Inv, NEW p \in Procs, act[p].op = "unmap", act[p].a >= act[p].end,
                      NEW i \in Pages
               PROVE  /\ act[p].then = "freeproc" => ~pagetable[act[p].who][i].v
                      /\ act[p].then \in {"exec", "bad"} => ~sidetable[p][i].v
    BY Zenon DEF FreewalkFindsNoLeaf
  <2>1. act[p].a \in 0 .. MAX_TOTAL_PAGES /\ act[p].end \in 0 .. MAX_TOTAL_PAGES
    BY Zenon DEF Inv, TypeOK, Acts
  <2>2. ~(act[p].a <= i /\ i < act[p].end)
    BY <2>1, PageOrder, ZenonT(40)
  <2> QED  BY <2>2, ZenonT(40) DEF Inv, TablesOK, PageOK
<1> QED
  BY <1>1, InvHolds, PTL

\* mappages() is only asked for pages that are not mapped.
THEOREM NeverRemaps == Spec => []NoRemap
BY InvNoRemap, InvHolds, PTL

\* Every physical page is on the free list or has exactly one holder, for any
\* number of processes and frames and any interleaving of fork(), exec(), sbrk(),
\* page faults, exit() and wait(), calls that fail half way included.
THEOREM FramesAlwaysOwnedOnce == Spec => []FramesOwnedOnce
<1>1. Init => FrameInv
  BY InitFrames, Zenon
<1>2. Inv /\ FrameInv /\ [Next]_vars => FrameInv'
  BY NextFrames, Zenon
<1> QED
  BY <1>1, <1>2, InvHolds, FrameInvOwned, PTL DEF Spec
=============================================================================

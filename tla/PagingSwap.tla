----------------------------- MODULE PagingSwap -----------------------------
(***************************************************************************)
(* User mode, page faults and swap-in (usertrap() of kernel/trap.c and     *)
(* swap_in() of kernel/vm.c), and the aging of pages by the scheduler.     *)
(***************************************************************************)
EXTENDS PagingState

\* The user writes page i; the hardware sets PTE_A.  Reads change less.
Touch(p, i, v) ==
  /\ InUser(p) /\ p > 2
  /\ i < sz[p] /\ want[p] \in {NoWant, i}
  /\ pagetable[p][i].v /\ pagetable[p][i].leaf /\ pagetable[p][i].frame # NoFrame
  /\ pagetable' = [pagetable EXCEPT ![p][i] = [@ EXCEPT !.a = TRUE]]
  /\ mem' = [mem EXCEPT ![pagetable[p][i].frame] = Written(i, v)]
  /\ shadow' = [shadow EXCEPT ![p][i] = Written(i, v)]
  /\ want' = [want EXCEPT ![p] = NoWant]
  /\ UNCHANGED <<pstate, parent, sz, sidetable, meta, swapFile, free, act, panic>>

\* A touch that raises a page fault.
Faults(p, i) ==
  /\ InUser(p) /\ p > 2
  /\ i < sz[p] /\ want[p] \in {NoWant, i}
  /\ ~(pagetable[p][i].v /\ pagetable[p][i].leaf)

\* swap_in() up to the end of readFromSwapFile().
SwapInStart(p, i) ==
  /\ Faults(p, i) /\ pagetable[p][i].pg
  /\ \/ /\ meta[p].offset[i] = NoOffset
        /\ Panic("Fail in handling page fault")
     \/ /\ meta[p].offset[i] # NoOffset /\ free = {}
        /\ Panic("Fail in kalloc while handling page fault")
     \/ /\ meta[p].offset[i] # NoOffset /\ free # {}
        /\ free' = free \ {kalloc}
        /\ mem' = [mem EXCEPT ![kalloc] = ReadAt(swapFile[p], meta[p].offset[i])]
        /\ act' = [act EXCEPT ![p] = [Idle EXCEPT !.op = "swapin", !.a = i,
                                                  !.buf = kalloc]]
        /\ want' = [want EXCEPT ![p] = i]
        /\ UNCHANGED <<pstate, parent, sz, pt, meta, swapFile, shadow, panic>>

\* swap_in() from the test of pagesInMemory on.  The page leaves its slot.
Back(m, i) == MadeResident(SlotForgotten(m, i), i)

\* With room to spare the PTE is rebuilt from PTE_V alone.
SwapInRoom(p, i) ==
  /\ HasRoom(meta[p])
  /\ pagetable' = [pagetable EXCEPT ![p][i] = [UserPte(act[p].buf) EXCEPT !.leaf = FALSE]]
  /\ meta' = [meta EXCEPT ![p] = Back(@, i)]
  /\ act' = [act EXCEPT ![p] = Idle]
  /\ UNCHANGED <<swapFile, free, mem, panic>>

\* Otherwise a victim takes the slot just read.
SwapInEvict(p, i, e) ==
  /\ ~HasRoom(meta[p])
  /\ pagetable' = [pagetable EXCEPT ![p] =
       [e.tab EXCEPT ![i] = [@ EXCEPT !.v = TRUE, !.pg = FALSE, !.frame = act[p].buf]]]
  /\ meta' = [meta EXCEPT ![p] = Back(e.meta, i)]
  /\ swapFile' = [swapFile EXCEPT ![p] = e.file]
  /\ free' = free \cup {e.frame}
  /\ mem' = [mem EXCEPT ![e.frame] = Junk]
  /\ act' = [act EXCEPT ![p] = Idle]
  /\ UNCHANGED panic

SwapInPanic(p, off) ==
  /\ ~HasRoom(meta[p]) /\ EvictPanic(p, off) # "none"
  /\ panic' = EvictPanic(p, off)
  /\ UNCHANGED <<pagetable, meta, act, swapFile, free, mem>>

SwapInFinish(p) ==
  LET off == meta[p].offset[act[p].a] IN
  /\ Running(p) /\ act[p].op = "swapin"
  /\ \/ SwapInRoom(p, act[p].a)
     \/ EvictPanic(p, off) = "none" /\ SwapInEvict(p, act[p].a, page_to_file(p, off))
     \/ SwapInPanic(p, off)
  /\ UNCHANGED <<pstate, parent, sz, sidetable, want, shadow>>

\* updateAging(): the counters of the resident pages are shifted, and PTE_A
\* becomes their highest bit.
updateAging(p) ==
  [i \in Pages |->
     IF ~pagetable[p][i].v THEN meta[p].aging[i]
     ELSE meta[p].aging[i] \div 2 + (IF pagetable[p][i].a THEN TopBit ELSE 0)]
AccessReset(p) ==
  [i \in Pages |-> IF pagetable[p][i].v THEN [pagetable[p][i] EXCEPT !.a = FALSE]
                   ELSE pagetable[p][i]]

\* The process returns to the scheduler.
Tick(p) ==
  /\ SELECTION \in {"NFUA", "LAPA"} /\ Running(p)
  /\ meta' = [meta EXCEPT ![p] = [@ EXCEPT !.aging = updateAging(p)]]
  /\ pagetable' = [pagetable EXCEPT ![p] = AccessReset(p)]
  /\ UNCHANGED <<pstate, parent, sz, sidetable, swapFile, free, mem, act, want, shadow,
                 panic>>
=============================================================================

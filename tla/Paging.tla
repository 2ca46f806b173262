------------------------------- MODULE Paging -------------------------------
(***************************************************************************)
(* Demand paging with per-process swap files: the steps of PagingSwap,     *)
(* PagingGrow, PagingFork, PagingExec and PagingUnmap put together, and what*)
(* they guarantee.                                                         *)
(***************************************************************************)
EXTENDS PagingSwap, PagingGrow, PagingFork, PagingExec, FiniteSets

\* A fault on a page that is not in the swap file kills the process, and so
\* does the access fault on a page mapped to physical address 0.
Killed(p, i) ==
  /\ \/ Faults(p, i) /\ ~pagetable[p][i].pg
     \/ /\ InUser(p) /\ p > 2 /\ i < sz[p] /\ want[p] \in {NoWant, i}
        /\ pagetable[p][i].v /\ pagetable[p][i].frame = NoFrame
  /\ exit(p)

Exit(p) ==
  /\ Syscall(p, "exit")
  /\ exit(p)

\* panic() never returns.
Halted == panic # "none" /\ UNCHANGED vars

-----------------------------------------------------------------------------
\* Where the shell's image lies.
ShFrames == CHOOSE g \in [0 .. ShPages - 1 -> Frames] :
              \A i, j \in 0 .. ShPages - 1 : g[i] = g[j] => i = j

Init ==
  /\ pstate = [p \in Procs |-> IF p <= 2 THEN "RUN" ELSE "UNUSED"]
  /\ parent = [p \in Procs |-> IF p = 2 THEN initproc ELSE 0]
  /\ sz = [p \in Procs |-> IF p = 2 THEN ShPages ELSE 0]
  /\ swapFile = [p \in Procs |-> <<>>]
  /\ act = [p \in Procs |-> Idle]
  /\ want = [p \in Procs |-> NoWant]
  /\ panic = "none"
  /\ LET g == ShFrames IN
       /\ pagetable = [p \in Procs |-> [i \in Pages |->
                         IF p = 2 /\ i < ShPages THEN UserPte(g[i]) ELSE NoPte]]
       /\ sidetable = [p \in Procs |-> NoTable]
       /\ free = Frames \ {g[i] : i \in DOMAIN g}
       /\ mem = [f \in Frames |-> IF \E i \in DOMAIN g : g[i] = f
                                  THEN Written(CHOOSE i \in DOMAIN g : g[i] = f, 0)
                                  ELSE Junk]
  /\ shadow = [p \in Procs |-> [i \in Pages |->
                 IF p = 2 /\ i < ShPages THEN Written(i, 0) ELSE Junk]]
  \* The shell's exec() has unmapped init's image, and with it the metadata
  \* of the pages of its own (see UnmapPage).
  /\ meta = [p \in Procs |-> NoMeta]

Next ==
  \/ \E p \in Procs :
       \/ \E i \in Pages :
            \/ \E v \in Versions : Touch(p, i, v)
            \/ SwapInStart(p, i)
            \/ Killed(p, i)
       \/ \E n \in 1 .. MaxGrow : Grow(p, n) \/ Shrink(p, n)
       \/ \E c \in Procs : Fork(p, c) \/ Wait(p, c)
       \/ \E n \in Images : Exec(p, n)
       \/ SwapInFinish(p) \/ GrowEvict(p) \/ GrowMap(p) \/ GrowPage(p)
       \/ GrowFail(p) \/ GrowDone(p) \/ UnmapPage(p) \/ UnmapDone(p)
       \/ ForkCopy(p) \/ createSwapFile(p) \/ copySwapFile(p) \/ ForkDone(p)
       \/ ExecPage(p) \/ ExecBad(p) \/ ExecCommit(p) \/ Exit(p) \/ Tick(p)
  \/ Halted

Spec == Init /\ [][Next]_vars

\* What a process does without the user's say: go on in the kernel, and retry
\* the instruction that faulted.
Continue(p) ==
  \/ SwapInFinish(p) \/ GrowEvict(p) \/ GrowMap(p) \/ GrowPage(p) \/ GrowFail(p)
  \/ GrowDone(p) \/ UnmapPage(p) \/ UnmapDone(p) \/ ForkCopy(p)
  \/ createSwapFile(p) \/ copySwapFile(p) \/ ForkDone(p)
  \/ ExecPage(p) \/ ExecCommit(p)
  \/ \E i \in Pages : /\ want[p] = i
                      /\ \/ \E v \in Versions : Touch(p, i, v)
                         \/ SwapInStart(p, i)
                         \/ Killed(p, i)

\* scheduler() runs every runnable process again and again.
FairSpec == Spec /\ \A p \in Procs : WF_vars(Continue(p))
-----------------------------------------------------------------------------
(***************************************************************************)
(* Properties.                                                             *)
(***************************************************************************)

\* Who has a frame: a PTE, the buffer of swap_in(), or the free list.
Holders(f) ==
  {h \in Procs \X BOOLEAN \X Pages :
     LET pte == IF h[2] THEN sidetable[h[1]][h[3]] ELSE pagetable[h[1]][h[3]]
     IN  pte.v /\ pte.frame = f}
Buffers(f) == {p \in Procs : act[p].buf = f}

\* Every physical page is on the free list or has exactly one holder: kalloc()
\* and kfree() in fork(), exec(), sbrk(), page faults and wait() never share,
\* free twice or leak a frame, however the processes interleave.
FramesOwnedOnce ==
  \A f \in Frames :
    LET holders == Holders(f)
        buffers == Buffers(f)
    IN  /\ \A h, k \in holders : h = k
        /\ \A p, q \in buffers : p = q
        /\ holders = {} \/ buffers = {}
        /\ f \in free <=> (holders = {} /\ buffers = {})

\* The metadata of a live process agrees with its page table: a page marked
\* inUse is resident, so no policy evicts a page that is not there; and the
\* SCFIFO queue holds each of these pages once, so its ring cannot overflow.
MetadataAgrees ==
  \A p \in Procs : pstate[p] = "RUN" =>
    LET used == {i \in Pages : meta[p].inUse[i]}
    IN  /\ \A i \in used : Tracked(p)[i].v
        /\ SELECTION = "SCFIFO" =>
             NoDuplicates(meta[p].queue) /\ Elems(meta[p].queue) = used

\* pagesInMemory never exceeds the number of queued pages, even after
\* uvmunmap() has charged a process for pages of another one: when the limit
\* is reached, scfifo() finds a page to evict.
VictimExists ==
  SELECTION = "SCFIFO" =>
    \A p \in Procs : meta[p].pagesInMemory <= Len(meta[p].queue)

\* When a page table is about to be freed, no page of it is mapped any more,
\* as freewalk() demands (kernel/vm.c:392): p->sz, which tells uvmfree() how far
\* to unmap, covers every resident page, also after calls that failed half way.
FreewalkFindsNoLeaf ==
  \A p \in Procs : act[p].op = "unmap" /\ act[p].a >= act[p].end =>
    \A i \in Pages :
      /\ act[p].then = "freeproc" => ~pagetable[act[p].who][i].v
      /\ act[p].then \in {"exec", "bad"} => ~sidetable[p][i].v

\* mappages() never meets a page that is already mapped (its panic "remap",
\* kernel/vm.c:151), in sbrk(), exec() or fork().
NoRemap ==
  \A p \in Procs : act[p].a < act[p].end =>
    /\ act[p].op \in {"grow", "map"} => ~pagetable[p][act[p].a].v
    /\ act[p].op = "exec" => ~sidetable[p][act[p].a].v
    /\ act[p].op = "copy" => ~pagetable[act[p].who][act[p].a].v

-----------------------------------------------------------------------------
(***************************************************************************)
(* What the user of a process sees.  These hold for programs that grow,    *)
(* load images and touch their pages, with memory to spare.                *)
(***************************************************************************)
InUserMode(p) == pstate[p] = "RUN" /\ act[p].op = "user" /\ p > 2

\* Paging is transparent: whatever was swapped out and back in between, each
\* page of a process in user mode is resident or in its slot with the content
\* that the process last gave it; so no two pages share a slot, as the comment on
\* getOffset() promises (kernel/vm.c:292).
Transparent ==
  \A p \in Procs : InUserMode(p) =>
    \A i \in 0 .. sz[p] - 1 :
      LET pte == pagetable[p][i]
          off == meta[p].offset[i]
      IN  \/ /\ pte.v /\ pte.frame # NoFrame
             /\ mem[pte.frame] = shadow[p][i]
          \/ /\ ~pte.v /\ pte.pg /\ off \in 0 .. Len(swapFile[p]) - 1
             /\ swapFile[p][off + 1] = shadow[p][i]

\* With memory to spare, no panic() of the paging code is reached.
NoPanic == panic = "none"

\* A page fault is served: swap_in() leaves the page mapped and accessible, and
\* the process gets past the faulting instruction.
FaultServed ==
  \A p \in Procs :
    want[p] # NoWant ~> (want[p] = NoWant /\ pstate[p] = "RUN")

-----------------------------------------------------------------------------
(***************************************************************************)
(* What an assertion says, and the code does not do in every case.         *)
(***************************************************************************)

\* The assertion at the head of swap_in(): a page in the swap file has a slot.
SlotKnown == panic # "Fail in handling page fault"
=============================================================================

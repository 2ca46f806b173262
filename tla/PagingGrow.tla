----------------------------- MODULE PagingGrow -----------------------------
(***************************************************************************)
(* sbrk(): growproc() of kernel/proc.c, uvmalloc() and uvmdealloc() of     *)
(* kernel/vm.c.                                                            *)
(***************************************************************************)
EXTENDS PagingState

Grow(p, n) ==
  /\ Syscall(p, "grow")
  /\ sz[p] + n <= MAX_TOTAL_PAGES
  /\ act' = [act EXCEPT ![p] = [Idle EXCEPT !.op = "grow", !.a = sz[p],
                                            !.end = sz[p] + n]]
  /\ UNCHANGED <<pstate, parent, sz, pt, meta, swapFile, free, mem, want, shadow,
                 panic>>

\* The loop of uvmalloc() at its head, with the process at its limit.
GrowEvict(p) ==
  /\ Running(p) /\ act[p].op = "grow" /\ act[p].a < act[p].end
  /\ ~HasRoom(meta[p])
  /\ IF EvictPanic(p, getOffset(p)) # "none"
     THEN /\ panic' = EvictPanic(p, getOffset(p))
          /\ UNCHANGED <<pagetable, meta, swapFile, free, mem, act>>
     ELSE LET e == page_to_file(p, getOffset(p))
          IN  /\ pagetable' = [pagetable EXCEPT ![p] = e.tab]
              /\ meta' = [meta EXCEPT ![p] = e.meta]
              /\ swapFile' = [swapFile EXCEPT ![p] = e.file]
              /\ free' = free \cup {e.frame}
              /\ mem' = [mem EXCEPT ![e.frame] = Junk]
              /\ act' = [act EXCEPT ![p].op = "map"]
              /\ UNCHANGED panic
  /\ UNCHANGED <<pstate, parent, sz, sidetable, want, shadow>>

\* ... and the rest of that iteration.  The result of kalloc() is not tested,
\* and another CPU may have taken the frame that page_to_file() freed.
GrowMap(p) ==
  LET i == act[p].a IN
  /\ Running(p) /\ act[p].op = "map"
  /\ free' = free \ {kalloc}
  /\ pagetable' = [pagetable EXCEPT ![p][i] = UserPte(kalloc)]
  /\ meta' = [meta EXCEPT ![p] = MadeResident(SlotForgotten(@, i), i)]
  /\ shadow' = [shadow EXCEPT ![p][i] = Junk]
  /\ act' = [act EXCEPT ![p] = [@ EXCEPT !.op = "grow", !.a = i + 1]]
  /\ UNCHANGED <<pstate, parent, sz, sidetable, swapFile, mem, want, panic>>

\* An iteration below the limit: a zeroed page.
GrowPage(p) ==
  LET i == act[p].a IN
  /\ Running(p) /\ act[p].op = "grow" /\ i < act[p].end
  /\ HasRoom(meta[p])
  /\ free # {}
  /\ free' = free \ {kalloc}
  /\ pagetable' = [pagetable EXCEPT ![p][i] = UserPte(kalloc)]
  /\ mem' = [mem EXCEPT ![kalloc] = Zero]
  /\ meta' = [meta EXCEPT ![p] = MadeResident(@, i)]
  /\ shadow' = [shadow EXCEPT ![p][i] = Zero]
  /\ act' = [act EXCEPT ![p].a = i + 1]
  /\ UNCHANGED <<pstate, parent, sz, sidetable, swapFile, want, panic>>

\* kalloc() failed: uvmdealloc() takes back what this call has allocated.
GrowFail(p) ==
  /\ Running(p) /\ act[p].op = "grow" /\ act[p].a < act[p].end
  /\ HasRoom(meta[p]) /\ free = {}
  /\ act' = [act EXCEPT ![p] = [Idle EXCEPT !.op = "unmap", !.a = sz[p],
                                            !.lo = sz[p], !.end = act[p].a,
                                            !.who = p, !.then = "sbrk"]]
  /\ UNCHANGED <<pstate, parent, sz, pt, meta, swapFile, free, mem, want, shadow,
                 panic>>

GrowDone(p) ==
  /\ Running(p) /\ act[p].op = "grow" /\ act[p].a = act[p].end
  /\ sz' = [sz EXCEPT ![p] = act[p].end]
  /\ act' = [act EXCEPT ![p] = Idle]
  /\ UNCHANGED <<pstate, parent, pt, meta, swapFile, free, mem, want, shadow,
                 panic>>

Shrink(p, n) ==
  /\ Syscall(p, "shrink")
  /\ n < sz[p]
  /\ act' = [act EXCEPT ![p] = [Idle EXCEPT !.op = "unmap", !.a = sz[p] - n,
                                            !.lo = sz[p] - n, !.end = sz[p],
                                            !.who = p, !.then = "sbrk"]]
  /\ UNCHANGED <<pstate, parent, sz, pt, meta, swapFile, free, mem, want, shadow,
                 panic>>
=============================================================================

---------------------------- MODULE PagingUnmap -----------------------------
(***************************************************************************)
(* uvmunmap() of kernel/vm.c, and exit() and wait() of kernel/proc.c.      *)
(***************************************************************************)
EXTENDS PagingState

(***************************************************************************)
(* uvmunmap() on a page table of act[p].who.  The metadata it updates is   *)
(* that of myproc(), the process that calls it.                            *)
(***************************************************************************)
UnmapPage(p) ==
  LET i == act[p].a
      w == act[p].who
      side == act[p].then \in {"exec", "bad"}
      pte == IF side THEN sidetable[w][i] ELSE pagetable[w][i]
  IN
  /\ Running(p) /\ act[p].op = "unmap" /\ i < act[p].end
  /\ IF pte.v /\ ~pte.leaf
     THEN Panic("uvmunmap: not a leaf")
     ELSE IF pte.v /\ pte.frame = NoFrame
     THEN Panic("kfree")
     ELSE /\ IF pte.v
             THEN /\ free' = free \cup {pte.frame}
                  /\ mem' = [mem EXCEPT ![pte.frame] = Junk]
                  /\ meta' = [meta EXCEPT ![p] = Unmapped(@, i)]
             ELSE /\ meta' = [meta EXCEPT ![p] = SlotForgotten(@, i)]
                  /\ UNCHANGED <<free, mem>>
          /\ IF side
             THEN sidetable' = [sidetable EXCEPT ![w][i] = NoPte] /\ UNCHANGED pagetable
             ELSE pagetable' = [pagetable EXCEPT ![w][i] = NoPte] /\ UNCHANGED sidetable
          /\ act' = [act EXCEPT ![p].a = i + 1]
          /\ shadow' = IF side THEN shadow ELSE [shadow EXCEPT ![w][i] = Junk]
          /\ UNCHANGED <<pstate, parent, sz, swapFile, want, panic>>

\* What the caller of uvmunmap() does next: exec() returns, growproc() sets
\* p->sz (to what it was, if the growth failed), freeproc() clears the process.
UnmapDone(p) ==
  LET w == act[p].who
      freed == act[p].then = "freeproc"
  IN
  /\ Running(p) /\ act[p].op = "unmap" /\ act[p].a >= act[p].end
  /\ sz' = [sz EXCEPT ![w] = IF freed THEN 0
                             ELSE IF act[p].then = "sbrk" THEN act[p].lo ELSE @]
  /\ pstate' = [pstate EXCEPT ![w] = IF freed THEN "UNUSED" ELSE @]
  /\ parent' = [parent EXCEPT ![w] = IF freed THEN 0 ELSE @]
  /\ meta' = [meta EXCEPT ![w] = IF freed THEN NoMeta ELSE @]
  /\ act' = [act EXCEPT ![p] = Idle]
  /\ UNCHANGED <<pt, swapFile, free, mem, want, shadow, panic>>

\* exit(): the swap file goes, the children pass to init, the process waits
\* as a zombie with its memory.
exit(p) ==
  /\ swapFile' = [swapFile EXCEPT ![p] = <<>>]
  /\ pstate' = [pstate EXCEPT ![p] = "ZOMBIE"]
  /\ parent' = [q \in Procs |-> IF parent[q] = p THEN initproc ELSE parent[q]]
  /\ want' = [want EXCEPT ![p] = NoWant]
  /\ UNCHANGED <<sz, pt, meta, free, mem, act, shadow, panic>>

\* Variant: the last page of the child is forgotten.
WaitShort(p, c) ==
  /\ Syscall(p, "wait")
  /\ parent[c] = p /\ pstate[c] = "ZOMBIE"
  /\ act' = [act EXCEPT ![p] = [Idle EXCEPT !.op = "unmap", !.end = sz[c] - 1,
                                            !.who = c, !.then = "freeproc"]]
  /\ UNCHANGED <<pstate, parent, sz, pt, meta, swapFile, free, mem, want, shadow,
                 panic>>

\* wait() finds a zombie child and frees it; freeproc() begins by unmapping
\* the child's memory.  init waits for the orphans it is given.
Wait(p, c) ==
  /\ Syscall(p, "wait")
  /\ parent[c] = p /\ pstate[c] = "ZOMBIE"
  /\ act' = [act EXCEPT ![p] = [Idle EXCEPT !.op = "unmap", !.end = sz[c],
                                            !.who = c, !.then = "freeproc"]]
  /\ UNCHANGED <<pstate, parent, sz, pt, meta, swapFile, free, mem, want, shadow,
                 panic>>
=============================================================================

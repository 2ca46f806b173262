----------------------------- MODULE PagingExec -----------------------------
(***************************************************************************)
(* exec() of kernel/exec.c.                                                *)
(***************************************************************************)
EXTENDS PagingUnmap

\* exec() up to the first uvmalloc(): the metadata is reset at once.
Exec(p, n) ==
  /\ Syscall(p, "exec")
  /\ meta' = [meta EXCEPT ![p] = NoMeta]
  /\ act' = [act EXCEPT ![p] = [Idle EXCEPT !.op = "exec", !.end = n]]
  /\ UNCHANGED <<pstate, parent, sz, pt, swapFile, free, mem, want, shadow, panic>>

\* An iteration of uvmalloc() for the new image, and the load of its page.
ExecPage(p) ==
  LET i == act[p].a IN
  /\ Running(p) /\ act[p].op = "exec" /\ i < act[p].end
  /\ free # {}
  /\ free' = free \ {kalloc}
  /\ mem' = [mem EXCEPT ![kalloc] = Written(i, 0)]
  /\ sidetable' = [sidetable EXCEPT ![p][i] = UserPte(kalloc)]
  /\ meta' = [meta EXCEPT ![p] = MadeResident(@, i)]
  /\ act' = [act EXCEPT ![p].a = i + 1]
  /\ UNCHANGED <<pstate, parent, sz, pagetable, swapFile, want, shadow, panic>>

\* exec() fails, for lack of memory or because the file is no program, and
\* frees what it has built of the new image.
ExecBad(p) ==
  /\ Running(p) /\ act[p].op = "exec"
  /\ (act[p].a < act[p].end /\ free = {}) \/ "badexec" \in Calls[p]
  /\ act' = [act EXCEPT ![p] = [Idle EXCEPT !.op = "unmap", !.end = act[p].a,
                                            !.who = p, !.then = "bad"]]
  /\ UNCHANGED <<pstate, parent, sz, pt, meta, swapFile, free, mem, want, shadow,
                 panic>>

\* exec() commits to the new image and frees the old one.
ExecCommit(p) ==
  /\ Running(p) /\ act[p].op = "exec" /\ act[p].a = act[p].end
  /\ pagetable' = [pagetable EXCEPT ![p] = sidetable[p]]
  /\ sidetable' = [sidetable EXCEPT ![p] = pagetable[p]]
  /\ sz' = [sz EXCEPT ![p] = act[p].end]
  /\ shadow' = [shadow EXCEPT ![p] = [i \in Pages |-> IF i < act[p].end
                                        THEN Written(i, 0) ELSE Junk]]
  /\ act' = [act EXCEPT ![p] = [Idle EXCEPT !.op = "unmap", !.end = sz[p],
                                            !.who = p, !.then = "exec"]]
  /\ UNCHANGED <<pstate, parent, meta, swapFile, free, mem, want, panic>>
=============================================================================

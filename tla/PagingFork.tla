----------------------------- MODULE PagingFork -----------------------------
(***************************************************************************)
(* fork() of kernel/proc.c, with uvmcopy() of kernel/vm.c and copySwapFile()*)
(* of kernel/fs.c.                                                         *)
(***************************************************************************)
EXTENDS PagingState

\* allocproc(): the first unused slot.  The shell waits for each command it
\* forks (main() of user/sh.c) before it reads the next one.
Fork(p, c) ==
  /\ Syscall(p, "fork")
  /\ p = 2 => \A q \in Procs : parent[q] # 2
  /\ pstate[c] = "UNUSED" /\ \A q \in Procs : pstate[q] = "UNUSED" => c <= q
  /\ pstate' = [pstate EXCEPT ![c] = "USED"]
  /\ meta' = [meta EXCEPT ![c] = NoMeta]
  /\ act' = [act EXCEPT ![p] = [Idle EXCEPT !.op = "copy", !.end = sz[p],
                                            !.who = c]]
  /\ UNCHANGED <<parent, sz, pt, swapFile, free, mem, want, shadow, panic>>

\* An iteration of uvmcopy(): only pages with PTE_V are copied.  Without
\* memory, the pages copied so far are unmapped and the child is freed.
ForkCopy(p) ==
  LET i == act[p].a
      c == act[p].who
      pte == pagetable[p][i]
  IN
  /\ Running(p) /\ act[p].op = "copy" /\ i < act[p].end
  /\ \/ /\ ~pte.v
        /\ act' = [act EXCEPT ![p].a = i + 1]
        /\ UNCHANGED <<pagetable, free, mem, panic>>
     \/ /\ pte.v /\ free # {} /\ pte.frame # NoFrame
        /\ free' = free \ {kalloc}
        /\ mem' = [mem EXCEPT ![kalloc] = mem[pte.frame]]
        /\ pagetable' = [pagetable EXCEPT ![c][i] = [pte EXCEPT !.frame = kalloc]]
        /\ act' = [act EXCEPT ![p].a = i + 1]
        /\ UNCHANGED panic
     \/ /\ pte.v /\ free # {} /\ pte.frame = NoFrame
        /\ panic' = "kerneltrap"
        /\ UNCHANGED <<pagetable, free, mem, act>>
     \/ /\ pte.v /\ free = {}
        /\ act' = [act EXCEPT ![p] = [Idle EXCEPT !.op = "unmap", !.end = i,
                                                  !.who = c, !.then = "freeproc"]]
        /\ UNCHANGED <<pagetable, free, mem, panic>>
  /\ UNCHANGED <<pstate, parent, sz, sidetable, meta, swapFile, want,
                 shadow>>

\* uvmcopy() has returned and the child gets a swap file, empty so far.
createSwapFile(p) ==
  LET c == act[p].who IN
  /\ Running(p) /\ act[p].op = "copy" /\ act[p].a >= act[p].end
  /\ sz' = [sz EXCEPT ![c] = sz[p]]
  /\ swapFile' = [swapFile EXCEPT ![c] = <<>>]
  /\ act' = [act EXCEPT ![p] = [@ EXCEPT !.op = "copyfile", !.a = 0]]
  /\ UNCHANGED <<pstate, parent, pt, meta, free, mem, want, shadow, panic>>

\* The child's file after an iteration of copySwapFile(); a slot beyond the
\* end of the file is not written, and nobody looks at the result.
SlotCopied(p, i) ==
  LET off == meta[p].offset[i]
      file == swapFile[act[p].who]
  IN  IF off < Len(swapFile[p]) /\ CanWrite(file, off)
      THEN WriteAt(file, off, ReadAt(swapFile[p], off))
      ELSE file

\* An iteration of copySwapFile().  Without memory for the buffer the rest of
\* the file is not copied; fork() does not notice.
copySwapFile(p) ==
  LET i == act[p].a
      c == act[p].who
  IN
  /\ Running(p) /\ act[p].op = "copyfile" /\ i < act[p].end
  /\ \/ /\ meta[p].offset[i] = NoOffset
        /\ act' = [act EXCEPT ![p].a = i + 1]
        /\ UNCHANGED swapFile
     \/ /\ meta[p].offset[i] # NoOffset /\ free # {}
        /\ swapFile' = [swapFile EXCEPT ![c] = SlotCopied(p, i)]
        /\ act' = [act EXCEPT ![p].a = i + 1]
     \/ /\ meta[p].offset[i] # NoOffset /\ free = {}
        /\ act' = [act EXCEPT ![p].a = act[p].end]
        /\ UNCHANGED swapFile
  /\ UNCHANGED <<pstate, parent, sz, pt, meta, free, mem, want, shadow, panic>>

\* The rest of fork(): the metadata (only if the parent is neither init nor the
\* shell), and the child can run.
ForkDone(p) ==
  LET c == act[p].who IN
  /\ Running(p) /\ act[p].op = "copyfile" /\ act[p].a >= act[p].end
  /\ meta' = IF p > 2 THEN [meta EXCEPT ![c] = meta[p]] ELSE meta
  /\ parent' = [parent EXCEPT ![c] = p]
  /\ pstate' = [pstate EXCEPT ![c] = "RUN"]
  /\ act' = [act EXCEPT ![p] = Idle]
  /\ shadow' = [shadow EXCEPT ![c] = shadow[p]]
  /\ UNCHANGED <<sz, pt, swapFile, free, mem, want, panic>>
=============================================================================

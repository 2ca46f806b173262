------------------------------ MODULE MCPaging ------------------------------
(* Instances of Paging for TLC. *)
EXTENDS Paging, TLC

\* The shell forks and waits; user programs make the calls given.
Workload(user) ==
  [p \in Procs |-> CASE p = 1 -> {"wait"}
                     [] p = 2 -> {"fork", "wait"}
                     [] OTHER -> user]

\* A program that makes every call, its exec() failing only for lack of memory,
\* and children that grow and exit.
ManyCalls ==
  [p \in Procs |-> CASE p = 1 -> {"wait"}
                     [] p = 2 -> {"fork", "wait"}
                     [] p = 3 -> {"exit", "grow", "shrink", "fork", "wait", "exec"}
                     [] OTHER -> {"exit", "grow"}]

\* Programs that grow and load images.
LoadCalls == Workload({"exit", "grow", "exec"})

\* A program that grows, forks and waits for a child that only exits.
FamilyCalls ==
  [p \in Procs |-> CASE p = 1 -> {"wait"}
                     [] p = 2 -> {"fork", "wait"}
                     [] p = 3 -> {"grow", "fork", "wait"}
                     [] OTHER -> {"exit"}]

\* What the control of Paging depends on: which PTEs have a frame and how long
\* the swap files are, but neither which frame it is nor what the pages hold.
HasFrame(pte) == [pte EXCEPT !.frame = (@ # NoFrame)]
Shape ==
  <<pstate, parent, sz, meta, want, panic, Cardinality(free),
    [p \in Procs |-> Len(swapFile[p])],
    [p \in Procs |-> [act[p] EXCEPT !.buf = (@ = NoFrame)]],
    [p \in Procs |-> [i \in Pages |-> <<HasFrame(pagetable[p][i]),
                                        HasFrame(sidetable[p][i])>>]]>>

\* As a view for the structural invariants: FramesOwnedOnce tells frames apart,
\* so its value is part of the view.
ShapeAndOwners == <<Shape, FramesOwnedOnce>>

\* As a view for the invariants on what pages hold.
Held(f) == IF f = NoFrame THEN Junk ELSE mem[f]
ShapeAndContents ==
  <<Shape, swapFile, shadow,
    [p \in Procs |-> Held(act[p].buf)],
    [p \in Procs |-> [i \in Pages |-> <<Held(pagetable[p][i].frame),
                                        Held(sidetable[p][i].frame)>>]]>>
=============================================================================

----------------------------- MODULE AtomicDisk -----------------------------
(***************************************************************************)
(* What kernel/log.c promises to the file system: operations between       *)
(* begin_op() and end_op() write blocks, and a crash leaves on disk the    *)
(* effect of whole operations only, because what is there becomes durable  *)
(* at moments when no operation is under way.                              *)
(***************************************************************************)
CONSTANTS Procs, Blocks, Values

VARIABLES view,      \* the blocks as the running system sees them
          stable,    \* the blocks as they are found after a crash
          open       \* the processes inside an operation

vars == <<view, stable, open>>

Init ==
  /\ view \in [Blocks -> Values]
  /\ stable = view
  /\ open = {}

Begin(p) ==
  /\ p \notin open
  /\ open' = open \cup {p}
  /\ UNCHANGED <<view, stable>>

Write(p, b, v) ==
  /\ p \in open
  /\ view' = [view EXCEPT ![b] = v]
  /\ UNCHANGED <<stable, open>>

End(p) ==
  /\ p \in open
  /\ open' = open \ {p}
  /\ UNCHANGED <<view, stable>>

Commit ==
  /\ open = {}
  /\ stable' = view
  /\ UNCHANGED <<view, open>>

Crash ==
  /\ view' = stable
  /\ open' = {}
  /\ UNCHANGED stable

Next ==
  \/ \E p \in Procs :
       \/ Begin(p) \/ End(p)
       \/ \E b \in Blocks, v \in Values : Write(p, b, v)
  \/ Commit
  \/ Crash

Spec == Init /\ [][Next]_vars
=============================================================================

------------------------------ MODULE PageList ------------------------------
(***************************************************************************)
(* The queue of resident pages that the SCFIFO policy keeps for a process  *)
(* (in, out, removePage and scfifo in kernel/vm.c), seen as a sequence     *)
(* whose head is the oldest page.  The two loops of the code appear here   *)
(* in closed form; PageRing has them as loops over the ring buffer         *)
(* pages/head/tail/numOfPages of struct proc and implements this module.   *)
(*                                                                         *)
(* The operators are used by Paging and by the abstract queue PageFifo.    *)
(***************************************************************************)
EXTENDS Integers, Sequences

CONSTANT MAX_TOTAL_PAGES     \* capacity of the ring and number of pages

ASSUME MaxTotalPagesAssumption == MAX_TOTAL_PAGES \in Nat \ {0}

Pages == 0 .. MAX_TOTAL_PAGES - 1

\* The pages a sequence holds.
Elems(s) == {s[j] : j \in 1 .. Len(s)}

NoDuplicates(s) == \A j, k \in 1 .. Len(s) : s[j] = s[k] => j = k

\* in(): a page enters at the tail.
PageIn(s, page) == Append(s, page)

PosOf(s, page) == CHOOSE j \in 1 .. Len(s) : s[j] = page

(***************************************************************************)
(* removePage(): every page is taken out at the head and put back at the   *)
(* tail, except the one that goes.  Dropping it also lowers the bound of   *)
(* the loop, so the rotation stops one page short and the last page ends   *)
(* up at the head, unless the page dropped is itself the last.             *)
(***************************************************************************)
PageRemoved(s, page) ==
  IF page \notin Elems(s) THEN s
  ELSE LET n == Len(s)
           k == PosOf(s, page)
       IN  IF k = n
           THEN [j \in 1 .. n - 1 |-> s[j]]
           ELSE [j \in 1 .. n - 1 |-> IF j = 1 THEN s[n]
                                      ELSE IF j <= k THEN s[j - 1]
                                      ELSE s[j]]

(***************************************************************************)
(* scfifo(): accessed pages at the head lose their PTE_A bit and move to   *)
(* the tail; the first page found without the bit is the victim.  When     *)
(* every page was accessed the rotation is complete and the head goes.     *)
(***************************************************************************)
Unaccessed(s, accessed) == {j \in 1 .. Len(s) : s[j] \notin accessed}

VictimPos(s, accessed) ==
  IF Unaccessed(s, accessed) = {} THEN 1
  ELSE CHOOSE j \in Unaccessed(s, accessed) :
         \A k \in Unaccessed(s, accessed) : j <= k

Victim(s, accessed) == s[VictimPos(s, accessed)]

\* The queue once the victim has left it.
AfterVictim(s, accessed) ==
  LET n == Len(s)
      k == VictimPos(s, accessed)
  IN  [j \in 1 .. n - 1 |-> IF j <= n - k THEN s[k + j] ELSE s[j - (n - k)]]

\* The pages whose PTE_A bit the search clears.
Cleared(s, accessed) ==
  IF Unaccessed(s, accessed) = {} THEN Elems(s)
  ELSE {s[j] : j \in 1 .. VictimPos(s, accessed) - 1}
=============================================================================

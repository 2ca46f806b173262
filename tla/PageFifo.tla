------------------------------ MODULE PageFifo ------------------------------
(***************************************************************************)
(* The abstract queue of resident pages: a sequence of pages, changed only *)
(* by the operators of PageList.  PageRing implements it.                  *)
(***************************************************************************)
EXTENDS PageList

VARIABLES queue,      \* the pages in order, oldest first
          accessed    \* the pages whose PTE_A bit is set

vars == <<queue, accessed>>

Init ==
  /\ queue = <<>>
  /\ accessed = {}

\* initAging(): a page created or brought in is queued.  Its process never
\* queues a page twice (shown in Paging).
Insert(page) ==
  /\ page \notin Elems(queue)
  /\ queue' = PageIn(queue, page)
  /\ accessed' = accessed \ {page}

\* uvmunmap(): the page is unmapped, whether it is queued or not.
Unmap(page) ==
  /\ queue' = PageRemoved(queue, page)
  /\ accessed' = accessed \ {page}

\* page_to_file(): the victim leaves.
Select ==
  /\ queue # <<>>
  /\ queue' = AfterVictim(queue, accessed)
  /\ accessed' = accessed \ Cleared(queue, accessed)

\* The hardware sets PTE_A when the user touches a resident page.
Touch(page) ==
  /\ page \in Elems(queue)
  /\ accessed' = accessed \cup {page}
  /\ UNCHANGED queue

Next ==
  \/ \E page \in Pages : Insert(page) \/ Unmap(page) \/ Touch(page)
  \/ Select

Spec == Init /\ [][Next]_vars
=============================================================================

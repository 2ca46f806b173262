---------------------------- MODULE PagingState -----------------------------
(***************************************************************************)
(* The state of demand paging with per-process swap files (kernel/vm.c and *)
(* the fields of struct proc in kernel/proc.h), the operations on it that  *)
(* the system calls share, and the invariant from which PagingProofs       *)
(* derives what holds in every state.                                      *)
(*                                                                         *)
(* A process has a page table (pagetable[p]), the paging metadata of struct*)
(* proc (meta[p]) and a swap file (swapFile[p], one entry per page-sized   *)
(* slot).  Sizes, addresses and file offsets count pages.  A loop of the   *)
(* kernel over pages takes one step per page, because every iteration      *)
(* calls kalloc() or kfree(), the only state that processes on different   *)
(* CPUs share here; act[p] says where process p is in the kernel.          *)
(*                                                                         *)
(* Process 1 is init and process 2 the shell, as the tests pid > 1 and     *)
(* pid > 2 of the code have it.  They only fork and wait; init's own       *)
(* pages are left out.                                                     *)
(***************************************************************************)
EXTENDS PageList, FiniteSets

CONSTANTS
  Procs,            \* process identifiers, 1 and 2 among them
  Frames,           \* physical pages that kalloc() can hand out
  NoFrame,          \* the null pointer that kalloc() returns when out of memory
  MAX_PSYC_PAGES,   \* resident pages a process may have
  SELECTION,        \* "NFUA", "LAPA" or "SCFIFO"
  FirstCandidate,   \* first page that nfua() and lapa() consider (3)
  TopBit,           \* weight of the highest bit of agingCounter (2^31)
  ShPages,          \* size of the shell's image
  Images,           \* sizes of the programs that exec() loads
  MaxGrow,          \* most pages one sbrk() asks for
  Versions,         \* distinct values a user writes to a page
  Calls             \* the system calls that the program of each process makes

ASSUME ProcsAssumption == Procs \subseteq Nat \ {0} /\ {1, 2} \subseteq Procs
ASSUME FramesAssumption == NoFrame \notin Frames
ASSUME LimitsAssumption ==
  /\ MAX_PSYC_PAGES \in 1 .. MAX_TOTAL_PAGES
  /\ ShPages \in 1 .. MAX_PSYC_PAGES
  /\ Images \subseteq 1 .. MAX_PSYC_PAGES
  /\ MaxGrow \in Nat
  /\ TopBit \in Nat \ {0}
  /\ FirstCandidate \in Pages
\* init only waits, the shell also forks; the shell's own exec() is in its past.
ASSUME CallsAssumption ==
  /\ Calls \in [Procs -> SUBSET {"exit", "grow", "shrink", "fork", "wait", "exec",
                                "badexec"}]
  /\ Calls[1] = {"wait"} /\ Calls[2] \subseteq {"fork", "wait"}
ASSUME SelectionAssumption == SELECTION \in {"NFUA", "LAPA", "SCFIFO"}
\* There is memory for the shell's image.
ASSUME ShellAssumption ==
  \E g \in [0 .. ShPages - 1 -> Frames] :
    \A i, j \in 0 .. ShPages - 1 : g[i] = g[j] => i = j

VARIABLES
  pstate,     \* "UNUSED", "USED", "RUN" (runnable, running, sleeping), "ZOMBIE"
  parent,     \* p->parent
  sz,         \* p->sz
  pagetable,  \* p->pagetable
  sidetable,  \* the table that exec() builds, then the one that it frees
  meta,       \* p->data, p->pagesInMemory and the SCFIFO queue
  swapFile,   \* contents of p->swapFile
  free,       \* kmem.freelist
  mem,        \* contents of the frames
  act,        \* what p is doing: in user mode, or where in the kernel
  want,       \* page of the faulting instruction p has to retry, or -1
  shadow,     \* history: the content each page of p should show its user
  panic       \* argument of panic(), or "none"

pt == <<pagetable, sidetable>>
vars == <<pstate, parent, sz, pagetable, sidetable, meta, swapFile, free, mem, act,
          want, shadow, panic>>

initproc == 1
NoOffset == -1
NoWant == -1

\* Contents of a page: as kalloc() fills it, zeroed, or written by the user.
Junk == <<"junk">>
Zero == <<"zero">>
Written(i, v) == <<"page", i, v>>
Contents == {Junk, Zero} \cup {Written(i, v) : i \in Pages, v \in Versions \cup {0}}

\* A PTE: PTE_V, PTE_PG, PTE_A, and whether any of R, W, X, U is set (leaf).
NoPte == [v |-> FALSE, pg |-> FALSE, leaf |-> FALSE, a |-> FALSE,
          frame |-> NoFrame]
UserPte(f) == [v |-> TRUE, pg |-> FALSE, leaf |-> TRUE, a |-> FALSE,
               frame |-> f]
NoTable == [i \in Pages |-> NoPte]

\* The metadata that allocproc(), freeproc() and exec() start from.
NoMeta == [offset |-> [i \in Pages |-> NoOffset],
           inUse |-> [i \in Pages |-> FALSE],
           aging |-> [i \in Pages |-> 0],
           pagesInMemory |-> 0,
           queue |-> <<>>]

\* User mode.
Idle == [op |-> "user", a |-> 0, lo |-> 0, end |-> 0, who |-> 0,
         then |-> "none", buf |-> NoFrame]

\* kalloc(): the head of the free list.  Frames are interchangeable, so which
\* one that is does not matter.
kalloc == IF free = {} THEN NoFrame ELSE CHOOSE f \in free : TRUE

Running(p) == pstate[p] = "RUN" /\ panic = "none"
InUser(p) == Running(p) /\ act[p] = Idle
-----------------------------------------------------------------------------
(***************************************************************************)
(* Operations on the metadata of one process.                              *)
(***************************************************************************)

\* initAging(): the counter a page starts with; SCFIFO queues the page.
initAging(m, i) ==
  [m EXCEPT !.aging = [@ EXCEPT ![i] = IF SELECTION = "LAPA" THEN 2 * TopBit - 1
                                       ELSE 0],
            !.queue = IF SELECTION = "SCFIFO" THEN PageIn(@, i) ELSE @]

\* A page has become resident.
MadeResident(m, i) ==
  initAging([m EXCEPT !.inUse = [@ EXCEPT ![i] = TRUE], !.pagesInMemory = @ + 1], i)

\* Variants: no floor at zero; the page stays queued; the count is not lowered.
UnmappedNoFloor(m, i) ==
  [m EXCEPT !.inUse = [@ EXCEPT ![i] = FALSE], !.pagesInMemory = @ - 1, !.offset = [@ EXCEPT ![i] = NoOffset],
            !.queue = PageRemoved(@, i)]
UnmappedStillQueued(m, i) ==
  [m EXCEPT !.inUse = [@ EXCEPT ![i] = FALSE], !.offset = [@ EXCEPT ![i] = NoOffset],
            !.pagesInMemory = IF @ = 0 THEN 0 ELSE @ - 1]
UnmappedStillCounted(m, i) ==
  [m EXCEPT !.inUse = [@ EXCEPT ![i] = FALSE], !.offset = [@ EXCEPT ![i] = NoOffset], !.queue = PageRemoved(@, i)]

\* The metadata part of uvmunmap() for a resident page.
Unmapped(m, i) ==
  [m EXCEPT !.inUse = [@ EXCEPT ![i] = FALSE],
            !.pagesInMemory = IF @ = 0 THEN 0 ELSE @ - 1,
            !.offset = [@ EXCEPT ![i] = NoOffset],
            !.queue = PageRemoved(@, i)]

\* The page gives up its slot.
SlotForgotten(m, i) == [m EXCEPT !.offset = [@ EXCEPT ![i] = NoOffset]]

\* The test of uvmalloc() and swap_in() against the limit.
HasRoom(m) == m.pagesInMemory < MAX_PSYC_PAGES

\* Variants: any slot will do; the last slot instead of the first.
getOffsetZero(p) == 0
getOffsetLast(p) ==
  LET unused == {o \in 0 .. sz[p] - 1 : \A i \in Pages : meta[p].offset[i] # o}
  IN  IF unused = {} THEN 0
      ELSE CHOOSE o \in unused : \A u \in unused : o >= u

\* getOffset(): the first slot below p->sz no page uses; 0 if there is none.
getOffset(p) ==
  LET unused == {o \in 0 .. sz[p] - 1 : \A i \in Pages : meta[p].offset[i] # o}
  IN  IF unused = {} THEN 0
      ELSE CHOOSE o \in unused : \A u \in unused : o <= u

-----------------------------------------------------------------------------
(***************************************************************************)
(* The page to evict.                                                      *)
(***************************************************************************)
NoPage == -1

\* First element of S, in index order, that no element of S precedes.
FirstLeast(S, Precedes(_, _)) ==
  LET least == {i \in S : \A j \in S : ~Precedes(j, i)}
  IN  IF least = {} THEN NoPage
      ELSE CHOOSE i \in least : \A j \in least : i <= j

Candidates(m) == {i \in FirstCandidate .. MAX_TOTAL_PAGES - 1 : m.inUse[i]}

\* nfua(): the search starts from min = 1 << 31, and only goes down.
nfua(m) ==
  FirstLeast({i \in Candidates(m) : m.aging[i] < TopBit},
             LAMBDA i, j : m.aging[i] < m.aging[j])

countOnes(age) ==
  Cardinality({b \in 0 .. age : 2 ^ b <= age /\ (age \div 2 ^ b) % 2 = 1})

lapa(m) ==
  FirstLeast(Candidates(m),
             LAMBDA i, j : \/ countOnes(m.aging[i]) < countOnes(m.aging[j])
                           \/ /\ countOnes(m.aging[i]) = countOnes(m.aging[j])
                              /\ m.aging[i] < m.aging[j])

Accessed(p) == {i \in Pages : pagetable[p][i].a}

getIndexToRemove(p) ==
  CASE SELECTION = "NFUA" -> nfua(meta[p])
    [] SELECTION = "LAPA" -> lapa(meta[p])
    [] OTHER -> IF meta[p].queue = <<>> THEN NoPage
                ELSE Victim(meta[p].queue, Accessed(p))

\* The PTE_A bits that scfifo() clears on its way to the victim.
ClearedBits(p) ==
  IF SELECTION = "SCFIFO" THEN Cleared(meta[p].queue, Accessed(p)) ELSE {}

-----------------------------------------------------------------------------
(***************************************************************************)
(* page_to_file(): what it leaves behind, and when it panics.              *)
(***************************************************************************)

\* writei() refuses an offset beyond the end of the file.
CanWrite(file, off) == off <= Len(file)
WriteAt(file, off, c) ==
  IF off = Len(file) THEN Append(file, c) ELSE [file EXCEPT ![off + 1] = c]
\* readi() at or beyond the end returns nothing: the buffer keeps its junk.
ReadAt(file, off) == IF off < Len(file) THEN file[off + 1] ELSE Junk

\* Variants: the PTE stays valid; its permissions are lost.
SwappedOutStillValid(pte) == [pte EXCEPT !.pg = TRUE]
SwappedOutNoFlags(pte) ==
  [pte EXCEPT !.v = FALSE, !.pg = TRUE, !.leaf = FALSE, !.frame = NoFrame]

SwappedOut(pte) ==
  [pte EXCEPT !.v = FALSE, !.pg = TRUE, !.frame = NoFrame]

EvictPanic(p, off) ==
  LET i == getIndexToRemove(p)
  IN  CASE i = NoPage -> "walk"
        [] i # NoPage /\ ~CanWrite(swapFile[p], off) -> "write to file failed"
        [] i # NoPage /\ CanWrite(swapFile[p], off)
             /\ pagetable[p][i].frame = NoFrame -> "kerneltrap"
        [] OTHER -> "none"

page_to_file(p, off) ==
  LET i == getIndexToRemove(p)
      m == meta[p]
      t == pagetable[p]
  IN  [tab |-> [j \in Pages |->
                  LET e == IF j \in ClearedBits(p)
                           THEN [t[j] EXCEPT !.a = FALSE] ELSE t[j]
                  IN  IF j = i THEN SwappedOut(e) ELSE e],
       meta |-> [m EXCEPT !.offset = [@ EXCEPT ![i] = off],
                          !.inUse = [@ EXCEPT ![i] = FALSE],
                          !.pagesInMemory = @ - 1,
                          !.queue = IF SELECTION = "SCFIFO"
                                    THEN AfterVictim(@, Accessed(p)) ELSE @],
       file |-> WriteAt(swapFile[p], off, mem[t[i].frame]),
       frame |-> t[i].frame]

Panic(msg) ==
  /\ panic' = msg
  /\ UNCHANGED <<pstate, parent, sz, pt, meta, swapFile, free, mem, act, want,
                 shadow>>

\* A system call made by a user program that is not in the middle of a fault.
Syscall(p, name) ==
  name \in Calls[p] /\ InUser(p) /\ want[p] = NoWant

-----------------------------------------------------------------------------
(***************************************************************************)
(* Types.                                                                  *)
(***************************************************************************)
Acts == [op : {"user", "swapin", "grow", "map", "unmap", "copy", "copyfile",
               "exec"},
         a : 0 .. MAX_TOTAL_PAGES, lo : 0 .. MAX_TOTAL_PAGES,
         end : 0 .. MAX_TOTAL_PAGES, who : Procs \cup {0},
         then : {"none", "sbrk", "exec", "bad", "freeproc"},
         buf : Frames \cup {NoFrame}]
Ptes == [v : BOOLEAN, pg : BOOLEAN, leaf : BOOLEAN, a : BOOLEAN,
         frame : Frames \cup {NoFrame}]

Metas == [offset : [Pages -> Pages \cup {NoOffset}],
          inUse : [Pages -> BOOLEAN],
          aging : [Pages -> 0 .. 2 * TopBit - 1],
          pagesInMemory : 0 .. MAX_PSYC_PAGES,
          queue : Seq(Pages)]

\* Type invariant: sizes, slots and counters stay within the arrays of struct
\* proc, agingCounter within its width.
TypeOK ==
  /\ pstate \in [Procs -> {"UNUSED", "USED", "RUN", "ZOMBIE"}]
  /\ parent \in [Procs -> Procs \cup {0}]
  /\ sz \in [Procs -> 0 .. MAX_TOTAL_PAGES]
  /\ pagetable \in [Procs -> [Pages -> Ptes]]
  /\ sidetable \in [Procs -> [Pages -> Ptes]]
  /\ meta \in [Procs -> Metas]
  /\ swapFile \in [Procs -> Seq(Contents)]
  /\ free \subseteq Frames
  /\ mem \in [Frames -> Contents]
  /\ act \in [Procs -> Acts]
  /\ want \in [Procs -> Pages \cup {NoWant}]
  /\ shadow \in [Procs -> [Pages -> Contents]]

\* The table whose pages the metadata of p describes: exec() fills the
\* metadata while it builds the new image, and empties it if it fails.
Tracked(p) ==
  IF act[p].op = "exec" \/ act[p].then = "bad" THEN sidetable[p] ELSE pagetable[p]

-----------------------------------------------------------------------------
(***************************************************************************)
(* The inductive invariant from which PagingProofs derives TypeOK,         *)
(* MetadataAgrees, VictimExists, FreewalkFindsNoLeaf and NoRemap.          *)
(***************************************************************************)

\* p works on the child act[p].who: fork() fills it, wait() frees it.
Foreign(p) == act[p].op \in {"copy", "copyfile"} \/ act[p].then = "freeproc"

\* Where a process can be in the kernel, and that no two work on one child.
ActOK(p) ==
  LET a == act[p] IN
  /\ pstate[p] # "RUN" => a = Idle
  /\ a.then # "none" <=> a.op = "unmap"
  /\ a.op = "swapin" => /\ a.a \in Pages /\ a.a < sz[p]
                        /\ ~pagetable[p][a.a].v
                        /\ meta[p].offset[a.a] # NoOffset
  /\ a.op \in {"grow", "map"} => sz[p] <= a.a /\ a.a <= a.end
  /\ a.op = "map" => a.a < a.end /\ meta[p].pagesInMemory < MAX_PSYC_PAGES
  /\ a.op = "exec" => /\ a.a <= a.end /\ a.end <= MAX_PSYC_PAGES
                      /\ meta[p].pagesInMemory <= a.a
  /\ a.then = "sbrk" => a.who = p /\ a.lo <= a.a
  /\ a.then \in {"exec", "bad"} => a.who = p
  /\ a.op = "copy" => a.a <= a.end
  /\ a.op \in {"copy", "copyfile"} => /\ a.who \in Procs /\ a.end = sz[p]
                                      /\ pstate[a.who] = "USED"
  /\ a.then = "freeproc" => /\ a.who \in Procs
                            /\ \/ pstate[a.who] = "USED"
                               \/ pstate[a.who] = "ZOMBIE" /\ parent[a.who] = p
  /\ \A q \in Procs : Foreign(p) /\ Foreign(q) /\ act[q].who = a.who => p = q

\* What the tables can say of page i, at every point of the kernel.
PageOK(p, i) ==
  LET a == act[p]
      v == pagetable[p][i].v
      cv == pagetable[a.who][i].v
  IN
  /\ pagetable[p][i].pg => ~v
  /\ sidetable[p][i].pg => ~sidetable[p][i].v
  /\ pstate[p] = "UNUSED" => ~v
  /\ a.op \in {"grow", "map"} => (v => i < a.a)
  /\ a.then = "sbrk" => (v => i < a.lo \/ (a.a <= i /\ i < a.end))
  /\ pstate[p] \in {"RUN", "ZOMBIE"} /\ a.op \notin {"grow", "map"} /\ a.then # "sbrk"
       => (v => i < sz[p])
  /\ sidetable[p][i].v => \/ a.op = "exec" /\ i < a.a
                          \/ a.then \in {"exec", "bad"} /\ a.a <= i /\ i < a.end
  /\ a.op = "copy" => (cv => i < a.a) /\ (i < a.a /\ v => cv)
  /\ a.op = "copyfile" => (cv => i < sz[a.who]) /\ (v => cv)
  /\ a.then = "freeproc" => (cv => a.a <= i /\ i < a.end)

TablesOK(p) == \A i \in Pages : PageOK(p, i)

\* The pages that the metadata marks resident.
Used(m) == {i \in Pages : m.inUse[i]}

\* What the metadata alone satisfies: SCFIFO queues the pages in use once each,
\* and at least as many as it counts.
GoodMeta(m) ==
  /\ m \in Metas
  /\ SELECTION # "SCFIFO" => m.queue = <<>>
  /\ SELECTION = "SCFIFO" => /\ NoDuplicates(m.queue) /\ Elems(m.queue) = Used(m)
                             /\ m.pagesInMemory <= Len(m.queue)

\* The metadata, at every point of the kernel.
MetaOK(p) ==
  /\ GoodMeta(meta[p])
  /\ pstate[p] = "USED" => meta[p] = NoMeta
  /\ pstate[p] = "RUN" => \A i \in Used(meta[p]) : Tracked(p)[i].v

Inv == TypeOK /\ \A p \in Procs : ActOK(p) /\ TablesOK(p) /\ MetaOK(p)
=============================================================================

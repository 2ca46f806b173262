------------------------------ MODULE BlockIo ------------------------------
(***************************************************************************)
(* The block cache and the disk driver: kernel/bio.c, sleeplock.c and      *)
(* virtio_disk.c, with a disk that serves requests in any order.           *)
(*                                                                         *)
(* A step is a critical section of bcache.lock, of the spinlock of a       *)
(* sleep-lock, or of vdisk_lock up to a sleep(); the interrupt handler,    *)
(* which races with the device, takes one step per entry.                  *)
(***************************************************************************)
EXTENDS Integers, FiniteSets

CONSTANTS
  NCALLS,       \* bound on the calls; a process of its own makes each
  BlockNos,     \* blocks of the disk
  Held,         \* the blocks that the buffers hold when the run begins
  NBUF,
  NUM,          \* descriptors
  IdxRange,     \* values of a ring index, a multiple of NUM
  StartIdx,     \* values of the ring indexes when the run begins
  Calls         \* the calls that are made: a block and what is done with it

ASSUME SizesAssumption == NCALLS \in Nat /\ NBUF \in Nat \ {0} /\ NUM \in Nat \ {0}
\* The indexes of the rings wrap at a multiple of the size, and only after it.
ASSUME IndexAssumption ==
  /\ IdxRange \in Nat /\ IdxRange > NUM /\ IdxRange % NUM = 0
  /\ StartIdx \subseteq 0 .. IdxRange - 1
ASSUME BlocksAssumption ==
  /\ BlockNos \subseteq Nat
  /\ Held \in [1 .. NBUF -> BlockNos]
  /\ \A a, b \in 1 .. NBUF : Held[a] = Held[b] => a = b
  /\ Calls \subseteq BlockNos \X {"read", "write", "log", "install"}

VARIABLES
  buf,          \* the buffers
  lru,          \* bcache.head: the most recently used buffer first
  pr,           \* what each process does
  desc, ops, info, avail, used,                \* memory shared with the device
  used_idx, intr,                              \* the driver; intr: in the handler
  disk, taken, inflight, irq,                  \* the device
  latest,       \* the contents that each block should have
  count

dvars == <<desc, ops, info, avail, used, used_idx, intr, disk, taken, inflight, irq>>
vars == <<buf, lru, pr, dvars, latest, count>>

Procs == 1 .. NCALLS
Bufs == 1 .. NBUF
Descs == 0 .. NUM - 1
NoOp == [write |-> FALSE, blockno |-> 0]
NoInfo == [b |-> 0, status |-> 0]
NoDesc == [free |-> TRUE, next |-> 0, more |-> FALSE, buf |-> 0]
None == -1
Awake == <<"none", 0>>
Resting == [pc |-> "idle", op |-> "read", b |-> 0, write |-> FALSE, head |-> 0, chan |-> Awake]

\* wakeup(chan)
wakeup(s, chan) == [p \in Procs |-> IF s[p].chan = chan THEN [s[p] EXCEPT !.chan = Awake] ELSE s[p]]

At(p, pc) == pr[p].pc = pc /\ pr[p].chan = Awake
B(p) == pr[p].b

-----------------------------------------------------------------------------
(***************************************************************************)
(* The cache.                                                              *)
(***************************************************************************)

Cached(n) == {b \in Bufs : buf[b].blockno = n}

\* Variant: the old contents pass for those of the new block.
RecycledValid(b, n) == [buf EXCEPT ![b].blockno = n, ![b].refcnt = 1]

Recycled(b, n) == [buf EXCEPT ![b].blockno = n, ![b].valid = FALSE, ![b].refcnt = 1]

\* The last unused buffer of the list.
Unused == {k \in 1 .. NBUF : buf[lru[k]].refcnt = 0}
LeastRecent == lru[CHOOSE k \in Unused : \A j \in Unused : j <= k]

\* bread() begins: bget() finds a buffer.  Without any it would panic.
bget(p, n, op) ==
  /\ At(p, "idle") /\ p = count + 1
  /\ Cached(n) # {} \/ Unused # {}
  /\ LET b == IF Cached(n) # {} THEN CHOOSE x \in Cached(n) : TRUE ELSE LeastRecent
     IN /\ buf' = IF Cached(n) # {} THEN [buf EXCEPT ![b].refcnt = @ + 1] ELSE Recycled(b, n)
        /\ pr' = [pr EXCEPT ![p] = [Resting EXCEPT !.pc = "lock", !.b = b, !.op = op]]
  /\ count' = count + 1
  /\ UNCHANGED <<lru, dvars, latest>>

MustWait(p) == buf[B(p)].locked # 0

\* acquiresleep(), and the test of bread() after it.
acquiresleep(p) ==
  /\ At(p, "lock")
  /\ IF MustWait(p)
     THEN pr' = [pr EXCEPT ![p].chan = <<"lock", B(p)>>] /\ UNCHANGED buf
     ELSE /\ buf' = [buf EXCEPT ![B(p)].locked = p]
          /\ pr' = [pr EXCEPT ![p].pc = IF buf[B(p)].valid THEN "have" ELSE "rw"]
  /\ UNCHANGED <<lru, dvars, latest, count>>

\* What the caller of bread() does with the buffer: nothing, a change that it
\* writes, a change that it pins for the log, or the write that the log owed.
Use(p) ==
  LET op == pr[p].op
      data == IF op \in {"write", "log"} THEN 1 - buf[B(p)].data ELSE buf[B(p)].data
  IN /\ At(p, "have")
     /\ buf' = [buf EXCEPT ![B(p)].data = data,
                           ![B(p)].refcnt = IF op = "log" /\ ~buf[B(p)].pinned THEN @ + 1 ELSE @,
                           ![B(p)].pinned = @ \/ op = "log"]
     /\ latest' = [latest EXCEPT ![buf[B(p)].blockno] = data]
     /\ pr' = [pr EXCEPT ![p].write = op \in {"write", "install"},
                         ![p].pc = IF op \in {"write", "install"} THEN "rw" ELSE "rel"]
     /\ UNCHANGED <<lru, dvars, count>>

\* bunpin(), after the write of the log.
bunpin(p) ==
  /\ At(p, "written")
  /\ buf' = [buf EXCEPT ![B(p)].refcnt = IF pr[p].op = "install" /\ buf[B(p)].pinned THEN @ - 1 ELSE @,
                        ![B(p)].pinned = @ /\ pr[p].op # "install"]
  /\ pr' = [pr EXCEPT ![p].pc = "rel"]
  /\ UNCHANGED <<lru, dvars, latest, count>>

\* brelse() moves an unused buffer to the head of the list.
ToFront(b) ==
  LET k == CHOOSE i \in 1 .. NBUF : lru[i] = b
  IN [i \in 1 .. NBUF |-> IF i = 1 THEN b ELSE IF i <= k THEN lru[i - 1] ELSE lru[i]]

\* brelse(): first the sleep-lock, then the count and the list.
releasesleep(p) ==
  /\ At(p, "rel")
  /\ buf' = [buf EXCEPT ![B(p)].locked = 0]
  /\ pr' = [wakeup(pr, <<"lock", B(p)>>) EXCEPT ![p].pc = "unref"]
  /\ UNCHANGED <<lru, dvars, latest, count>>

brelse(p) ==
  /\ At(p, "unref")
  /\ buf' = [buf EXCEPT ![B(p)].refcnt = @ - 1]
  /\ lru' = IF buf[B(p)].refcnt = 1 THEN ToFront(B(p)) ELSE lru
  /\ pr' = [pr EXCEPT ![p] = Resting]
  /\ UNCHANGED <<dvars, latest, count>>

-----------------------------------------------------------------------------
(***************************************************************************)
(* The driver.                                                             *)
(***************************************************************************)

FreeDescs == {i \in Descs : desc[i].free}
Lowest(S) == CHOOSE i \in S : \A j \in S : i <= j

\* alloc3_desc() takes the first free descriptors, in order.
alloc3_desc == LET i == Lowest(FreeDescs)
                   j == Lowest(FreeDescs \ {i})
               IN <<i, j, Lowest(FreeDescs \ {i, j})>>

\* virtio_disk_rw(), up to the wait: three descriptors in a chain, and the head of
\* the chain for the device.
Submit(p) ==
  LET idx == alloc3_desc
      b == B(p)
  IN /\ At(p, "rw") /\ ~intr /\ Cardinality(FreeDescs) >= 3
     /\ desc' = [desc EXCEPT ![idx[1]] = [free |-> FALSE, next |-> idx[2], more |-> TRUE, buf |-> 0],
                             ![idx[2]] = [free |-> FALSE, next |-> idx[3], more |-> TRUE, buf |-> b],
                             ![idx[3]] = [free |-> FALSE, next |-> 0, more |-> FALSE, buf |-> 0]]
     /\ ops' = [ops EXCEPT ![idx[1]] = [write |-> pr[p].write, blockno |-> buf[b].blockno]]
     /\ info' = [info EXCEPT ![idx[1]] = [b |-> b, status |-> 255]]
     /\ avail' = [ring |-> [avail.ring EXCEPT ![avail.idx % NUM] = idx[1]],
                  idx |-> (avail.idx + 1) % IdxRange]
     /\ buf' = [buf EXCEPT ![b].disk = TRUE]
     /\ pr' = [pr EXCEPT ![p].pc = "io", ![p].head = idx[1], ![p].chan = <<"disk", b>>]
     /\ UNCHANGED <<lru, used, used_idx, intr, disk, taken, inflight, irq, latest, count>>

\* Too few: what was taken is given back, which wakes the others that wait.
SleepForDescs(p) ==
  /\ At(p, "rw") /\ ~intr /\ Cardinality(FreeDescs) < 3
  /\ LET s == IF FreeDescs = {} THEN pr ELSE wakeup(pr, <<"desc", 0>>)
     IN pr' = [s EXCEPT ![p].chan = <<"desc", 0>>]
  /\ UNCHANGED <<buf, lru, dvars, latest, count>>

\* Variant: the last descriptor of a chain is not freed.
free_chainShort(i) == {i, desc[i].next}

\* The descriptors that free_chain() frees.
free_chain(i) == {i, desc[i].next, desc[desc[i].next].next}

\* virtio_disk_rw() after its wait.
Complete(p) ==
  /\ At(p, "io") /\ ~intr
  /\ IF buf[B(p)].disk
     THEN pr' = [pr EXCEPT ![p].chan = <<"disk", B(p)>>] /\ UNCHANGED <<buf, desc, info, ops>>
     ELSE /\ info' = [info EXCEPT ![pr[p].head] = NoInfo]
          /\ ops' = [ops EXCEPT ![pr[p].head] = NoOp]
          /\ desc' = [i \in Descs |-> IF i \in free_chain(pr[p].head) THEN NoDesc ELSE desc[i]]
          /\ buf' = [buf EXCEPT ![B(p)].valid = TRUE]
          /\ pr' = [wakeup(pr, <<"desc", 0>>) EXCEPT ![p].pc = IF pr[p].write THEN "written" ELSE "have",
                                                    ![p].head = 0]
  /\ UNCHANGED <<lru, avail, used, used_idx, intr, disk, taken, inflight, irq, latest, count>>

\* virtio_disk_intr(): the acknowledgement, the loop over the used ring, the end.
IntrAck ==
  /\ irq /\ ~intr
  /\ irq' = FALSE /\ intr' = TRUE
  /\ UNCHANGED <<buf, lru, pr, desc, ops, info, avail, used, used_idx, disk, taken, inflight, latest, count>>

IntrEntry ==
  LET id == used.ring[used_idx % NUM] IN
  /\ intr /\ used_idx # used.idx
  /\ buf' = [buf EXCEPT ![info[id].b].disk = FALSE]
  /\ pr' = wakeup(pr, <<"disk", info[id].b>>)
  /\ used_idx' = (used_idx + 1) % IdxRange
  /\ used' = [used EXCEPT !.ring[used_idx % NUM] = None]
  /\ UNCHANGED <<lru, desc, ops, info, avail, intr, disk, taken, inflight, irq, latest, count>>

\* Variant: the handler may end with entries left in the ring.
IntrEndEarly ==
  /\ intr
  /\ intr' = FALSE
  /\ UNCHANGED <<buf, lru, pr, desc, ops, info, avail, used, used_idx, disk, taken, inflight, irq, latest, count>>

IntrEnd ==
  /\ intr /\ used_idx = used.idx
  /\ intr' = FALSE
  /\ UNCHANGED <<buf, lru, pr, desc, ops, info, avail, used, used_idx, disk, taken, inflight, irq, latest, count>>

-----------------------------------------------------------------------------
(***************************************************************************)
(* The device, as the driver relies on it.                                 *)
(***************************************************************************)

DeviceTakes ==
  /\ taken # avail.idx
  /\ inflight' = inflight \cup {avail.ring[taken % NUM]}
  /\ avail' = [avail EXCEPT !.ring[taken % NUM] = None]
  /\ taken' = (taken + 1) % IdxRange
  /\ UNCHANGED <<buf, lru, pr, desc, ops, info, used, used_idx, intr, disk, irq, latest, count>>

DeviceDone(id) ==
  LET b == desc[desc[id].next].buf
      n == ops[id].blockno
  IN /\ id \in inflight
     /\ inflight' = inflight \ {id}
     /\ IF ops[id].write THEN disk' = [disk EXCEPT ![n] = buf[b].data] /\ UNCHANGED buf
                         ELSE buf' = [buf EXCEPT ![b].data = disk[n]] /\ UNCHANGED disk
     /\ info' = [info EXCEPT ![id].status = 0]
     /\ used' = [ring |-> [used.ring EXCEPT ![used.idx % NUM] = id], idx |-> (used.idx + 1) % IdxRange]
     /\ irq' = TRUE
     /\ UNCHANGED <<lru, pr, desc, ops, avail, used_idx, intr, taken, latest, count>>

-----------------------------------------------------------------------------
\* The cache has been in use: it holds other blocks, with other contents.
Contents0(n) == n % 2
Init ==
  /\ buf = [b \in Bufs |-> [blockno |-> Held[b], valid |-> TRUE, refcnt |-> 0, locked |-> 0,
                            disk |-> FALSE, data |-> Contents0(Held[b]), pinned |-> FALSE]]
  /\ lru = [k \in 1 .. NBUF |-> NBUF + 1 - k]
  /\ pr = [p \in Procs |-> Resting]
  /\ desc = [i \in Descs |-> NoDesc]
  /\ ops = [i \in Descs |-> NoOp]
  /\ info = [i \in Descs |-> NoInfo]
  /\ \E k \in StartIdx :
       /\ avail = [ring |-> [i \in Descs |-> None], idx |-> k]
       /\ used = [ring |-> [i \in Descs |-> None], idx |-> k]
       /\ used_idx = k /\ taken = k
  /\ intr = FALSE /\ irq = FALSE /\ inflight = {}
  /\ disk = [n \in BlockNos |-> Contents0(n)]
  /\ latest = [n \in BlockNos |-> Contents0(n)]
  /\ count = 0

\* What install_trans() asks for: a block that log_write() has pinned, once.  All
\* other calls may be for any block, pinned or not.
Owed(n) ==
  /\ \E b \in Cached(n) : buf[b].pinned
  /\ \A q \in Procs : pr[q].op = "install" => buf[B(q)].blockno # n

Call(p) == \E c \in Calls : (c[2] = "install" => Owed(c[1])) /\ bget(p, c[1], c[2])
Step(p) == \/ acquiresleep(p) \/ Use(p) \/ bunpin(p) \/ releasesleep(p) \/ brelse(p)
           \/ Submit(p) \/ SleepForDescs(p) \/ Complete(p)
Handler == IntrAck \/ IntrEntry \/ IntrEnd
Device == DeviceTakes \/ \E id \in Descs : DeviceDone(id)

Next == (\E p \in Procs : Call(p) \/ Step(p)) \/ Handler \/ Device

Spec == Init /\ [][Next]_vars

\* Processes that are not asleep run, an interrupt is served, the disk answers.
FairSpec ==
  /\ Spec
  /\ \A p \in Procs : WF_vars(Step(p))
  /\ WF_vars(Handler) /\ WF_vars(DeviceTakes) /\ WF_vars(\E id \in Descs : DeviceDone(id))

-----------------------------------------------------------------------------
(***************************************************************************)
(* Properties.                                                             *)
(***************************************************************************)

\* A block has one buffer: bget() looks and recycles in one critical section.
\* Whoever has it from bread() has its sleep-lock, also while the disk works on it,
\* and sees the last contents given to the block, through recycling, reads and
\* writes in flight and pins; and what is not cached is on the disk.
CacheCoherent ==
  /\ \A a, b \in Bufs : buf[a].blockno = buf[b].blockno => a = b
  /\ \A p \in Procs : pr[p].pc \in {"have", "rw", "io", "written", "rel"}
        => buf[B(p)].locked = p /\ (buf[B(p)].disk => pr[p].pc = "io")
  /\ \A p \in Procs : pr[p].pc \in {"have", "written", "rel"} => buf[B(p)].data = latest[buf[B(p)].blockno]
  /\ \A n \in BlockNos : Cached(n) = {} => disk[n] = latest[n]

\* The chains of the requests are disjoint and every other descriptor is free, so
\* none is lost or freed twice; a used entry has a good status and its buffer.
Chain(i) == {i, desc[i].next, desc[desc[i].next].next}
DescriptorsSound ==
  /\ {i \in Descs : ~desc[i].free} = UNION {Chain(pr[p].head) : p \in {q \in Procs : pr[q].pc = "io"}}
  /\ \A p, q \in Procs : p # q /\ pr[p].pc = "io" /\ pr[q].pc = "io"
                           => Chain(pr[p].head) \cap Chain(pr[q].head) = {}
  /\ used_idx # used.idx => LET id == used.ring[used_idx % NUM]
                            IN id # None /\ info[id].status = 0 /\ info[id].b # 0

\* Every call returns: no completion is lost between the handler and the device,
\* and no wakeup of a sleeper for a lock, a descriptor or the disk.
CallsReturn == \A p \in Procs : pr[p].pc # "idle" ~> pr[p].pc = "idle"
=============================================================================

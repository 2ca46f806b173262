--------------------------- MODULE BlockIoProofs ---------------------------
(***************************************************************************)
(* The cache shows the last contents of every block and the driver loses   *)
(* no descriptor, for any number of calls, buffers and descriptors: the    *)
(* steps of the driver, the device and the handler preserve BInv too.      *)
(***************************************************************************)
EXTENDS BlockCacheProofs

(***************************************************************************)
(* The device and the handler.                                             *)
(***************************************************************************)

\* A request is known by its head, which is not free.
LEMMA Heads ==
  ASSUME CacheTypes, ChainsOK, NEW p \in Procs, Requesting(p)
  PROVE  /\ pr[p].head \in Descs /\ ~desc[pr[p].head].free /\ RequestOK(p)
         /\ \A q \in Procs : Requesting(q) /\ pr[q].head = pr[p].head => q = p
<1>1. pr[p] \in Process
  BY Zenon DEF CacheTypes
<1>2. pr[p].head \in Descs
  BY <1>1 DEF Process
<1>3. pr[p].head \in Chain(pr[p].head)
  BY Zenon DEF Chain
<1>4. ASSUME NEW q \in Procs, Requesting(q), pr[q].head = pr[p].head PROVE q = p
  <2>1. pr[p].head \in Chain(pr[q].head)
    BY <1>3, <1>4, Zenon
  <2> QED  BY <1>2, <1>3, <1>4, <2>1, Zenon DEF ChainsOK
<1> QED  BY <1>2, <1>3, <1>4, Zenon DEF ChainsOK

\* The chains in a step of the device or the handler.
LEMMA ChainsKept ==
  ASSUME CacheTypes, LockOK, ChainsOK, desc' = desc, ops' = ops,
         \A h \in Descs : info'[h].b = info[h].b,
         \A q \in Procs : Same(q),
         \A a \in Bufs : buf'[a].blockno = buf[a].blockno
  PROVE  ChainsOK'
<1>1. \A q \in Procs : Requesting(q)' <=> Requesting(q)
  BY Zenon DEF Same, Requesting
<1>2. \A q \in Procs : Chain(pr[q].head)' = Chain(pr[q].head)
  BY Zenon DEF Same, Chain
<1>3. ASSUME NEW q \in Procs, Requesting(q)' PROVE RequestOK(q)'
  <2>1. Requesting(q) /\ pr'[q].head = pr[q].head /\ pr'[q].b = B(q) /\ pr'[q].write = pr[q].write
    BY <1>1, <1>3, Zenon DEF Same, B
  <2>2. RequestOK(q) /\ pr[q].head \in Descs /\ B(q) \in Bufs
    BY <2>1, Heads, RequestingBuffer, Zenon
  <2>3. info'[pr[q].head].b = info[pr[q].head].b /\ buf'[B(q)].blockno = buf[B(q)].blockno
    BY <2>2, Zenon
  <2> QED  BY <2>1, <2>2, <2>3, Zenon DEF RequestOK, B
<1>4. ASSUME NEW p \in Procs, NEW q \in Procs, NEW i \in Descs, Requesting(p)', Requesting(q)',
             i \in Chain(pr[p].head)', i \in Chain(pr[q].head)'
      PROVE  p = q
  <2>1. Requesting(p) /\ Requesting(q) /\ i \in Chain(pr[p].head) /\ i \in Chain(pr[q].head)
    BY <1>1, <1>2, <1>4, Zenon
  <2> QED  BY <2>1, Zenon DEF ChainsOK
<1>5. ASSUME NEW i \in Descs
      PROVE  ~desc'[i].free <=> \E q \in Procs : Requesting(q)' /\ i \in Chain(pr[q].head)'
  <2>1. \A q \in Procs : Requesting(q)' /\ i \in Chain(pr[q].head)' <=> Requesting(q) /\ i \in Chain(pr[q].head)
    BY <1>1, <1>2, Zenon
  <2>2. ~desc[i].free <=> \E q \in Procs : Requesting(q) /\ i \in Chain(pr[q].head)
    BY Zenon DEF ChainsOK
  <2> QED  BY <2>1, <2>2, Zenon
<1> QED  BY <1>3, <1>4, <1>5, Zenon DEF ChainsOK

\* A step of the device or the handler moves a request from stage to stage.
Advance(Q, D, R, E) ==
  /\ \A q \in Procs : Same(q)
  /\ RingOK(avail'.ring, taken', avail'.idx, R) /\ RingOK(used'.ring, used_idx', used'.idx, E)
  /\ R \cap inflight' = {} /\ R \cap E = {} /\ inflight' \cap E = {}
  /\ R \subseteq Descs /\ E \subseteq Descs
  /\ R \cup inflight' \cup E \subseteq Q \cup inflight \cup D
  /\ \A q \in Procs : Requesting(q) => (buf'[B(q)].disk <=> pr[q].head \in R \cup inflight' \cup E)
  /\ \A a \in Bufs : buf'[a].disk => buf[a].disk
  /\ \A h \in E : info'[h].status = 0
  /\ \A q \in Procs : Requesting(q) /\ pr[q].head \notin R \cup inflight'
        => /\ buf'[B(q)].data = latest'[buf'[B(q)].blockno]
           /\ disk'[buf'[B(q)].blockno] = latest'[buf'[B(q)].blockno]
LEMMA StagesStep ==
  ASSUME LockOK, NEW Q, NEW D, StagesOK(Q, D), NEW R, NEW E, Advance(Q, D, R, E)
  PROVE  StagesOK(R, E)'
<1> USE DEF Advance
<1>1. ASSUME NEW q \in Procs
      PROVE  /\ Requesting(q)' <=> Requesting(q)
             /\ pr'[q].head = pr[q].head /\ pr'[q].b = B(q)
  BY Zenon DEF Same, Requesting, B
<1>2. \A q \in Procs : Requesting(q)' => (buf'[pr'[q].b].disk <=> pr'[q].head \in R \cup inflight' \cup E)
  BY <1>1, Zenon
<1>3. ASSUME NEW h \in R \cup inflight' \cup E PROVE \E q \in Procs : Requesting(q)' /\ pr'[q].head = h
  <2>1. h \in Q \cup inflight \cup D
    BY <1>3, Zenon
  <2>2. PICK q \in Procs : Requesting(q) /\ pr[q].head = h
    BY <2>1, Zenon DEF StagesOK
  <2> QED  BY <1>1, <2>2, Zenon
<1>4. ASSUME NEW a \in Bufs, buf'[a].disk PROVE \E q \in Procs : Requesting(q)' /\ pr'[q].b = a
  <2>1. buf[a].disk
    BY <1>4, Zenon
  <2>2. PICK q \in Procs : Requesting(q) /\ B(q) = a
    BY <2>1, Zenon DEF StagesOK
  <2> QED  BY <1>1, <2>2, Zenon
<1>5. ASSUME NEW q \in Procs, Requesting(q)', pr'[q].head \notin R \cup inflight'
      PROVE  /\ buf'[pr'[q].b].data = latest'[buf'[pr'[q].b].blockno]
             /\ disk'[buf'[pr'[q].b].blockno] = latest'[buf'[pr'[q].b].blockno]
  BY <1>1, <1>5, Zenon
<1> QED  BY <1>2, <1>3, <1>4, <1>5, Zenon DEF StagesOK, B

\* What such a step has to keep.
LEMMA DeviceStep ==
  ASSUME BInv, pr' \in [Procs -> Process], \A q \in Procs : Same(q),
         buf' \in [Bufs -> Buffer],
         \A a \in Bufs : /\ buf'[a].refcnt = buf[a].refcnt /\ buf'[a].pinned = buf[a].pinned
                         /\ buf'[a].blockno = buf[a].blockno,
         UNCHANGED <<lru, desc, ops, latest, count>>, disk' \in [BlockNos -> Int],
         info' \in [Descs -> [b : 0 .. NBUF, status : Nat]], \A h \in Descs : info'[h].b = info[h].b,
         avail' \in Ring, used' \in Ring, inflight' \subseteq Descs,
         used_idx' \in 0 .. IdxRange - 1, taken' \in 0 .. IdxRange - 1,
         LockOK' /\ PlaceOK' /\ OneBuffer' /\ DataOK',
         NEW R, NEW E, StagesOK(R, E)'
  PROVE  BInv'
<1>1. CacheTypes /\ CountOK /\ LockOK /\ DriverTypes /\ ChainsOK
  BY Zenon DEF BInv, CacheInv
<1>2. CacheTypes'
  BY <1>1, Zenon DEF CacheTypes
<1>3. DriverTypes'
  BY <1>1, Zenon DEF DriverTypes
<1>4. CountOK'
  <2>1. \A q \in Procs : pr'[q].b = pr[q].b /\ (pr'[q].pc # "idle" <=> pr[q].pc # "idle")
    BY Zenon DEF Same
  <2>2. \A a \in Bufs : buf[a].refcnt \in Nat
    BY <1>1 DEF CacheTypes, Buffer
  <2>3. \A a \in Bufs : /\ buf[a].refcnt \in Nat
                        /\ \/ buf'[a].refcnt = buf[a].refcnt /\ buf'[a].pinned = buf[a].pinned
                           \/ buf'[a].refcnt = buf[a].refcnt + 1 /\ ~buf[a].pinned /\ buf'[a].pinned
                           \/ buf'[a].refcnt = buf[a].refcnt - 1 /\ buf[a].pinned /\ ~buf'[a].pinned
    BY <2>2, Zenon
  <2> QED  BY <1>1, <2>1, <2>3, CountKept, Zenon
<1>5. ChainsOK'
  BY <1>1, ChainsKept, Zenon
<1> QED  BY <1>2, <1>3, <1>4, <1>5, Zenon DEF BInv, CacheInv

\* The handler begins, or ends.
LEMMA QuietStep ==
  ASSUME BInv, UNCHANGED <<buf, lru, pr, desc, ops, info, avail, used, used_idx, disk, taken, inflight,
                           latest, count>>
  PROVE  BInv'
<1>1. CacheInv /\ CacheTypes /\ LockOK /\ DriverTypes
  BY Zenon DEF BInv, CacheInv
<1>2. PICK Q, D : StagesOK(Q, D)
  BY Zenon DEF BInv
<1>3. \A q \in Procs : Same(q)
  BY Zenon DEF Same
<1>4. LockOK' /\ PlaceOK' /\ OneBuffer' /\ DataOK'
  BY <1>1, <1>3, RefStep, Zenon
<1>5. StagesOK(Q, D)'
  <2>1. /\ RingOK(avail'.ring, taken', avail'.idx, Q) /\ RingOK(used'.ring, used_idx', used'.idx, D)
        /\ Q \cap inflight' = {} /\ Q \cap D = {} /\ inflight' \cap D = {}
        /\ Q \subseteq Descs /\ D \subseteq Descs
        /\ Q \cup inflight' \cup D \subseteq Q \cup inflight \cup D
        /\ \A h \in D : info'[h].status = 0
    BY <1>2, Zenon DEF StagesOK
  <2>2. \A q \in Procs : Requesting(q) => (buf'[B(q)].disk <=> pr[q].head \in Q \cup inflight' \cup D)
    BY <1>2, Zenon DEF StagesOK
  <2>3. \A q \in Procs : Requesting(q) /\ pr[q].head \notin Q \cup inflight'
           => /\ buf'[B(q)].data = latest'[buf'[B(q)].blockno]
              /\ disk'[buf'[B(q)].blockno] = latest'[buf'[B(q)].blockno]
    BY <1>2, Zenon DEF StagesOK
  <2>4. Advance(Q, D, Q, D)
    BY <1>3, <2>1, <2>2, <2>3, Zenon DEF Advance
  <2> QED  BY <1>1, <1>2, <2>4, StagesStep, Zenon
<1>6. /\ pr' \in [Procs -> Process] /\ buf' \in [Bufs -> Buffer] /\ disk' \in [BlockNos -> Int]
      /\ info' \in [Descs -> [b : 0 .. NBUF, status : Nat]] /\ avail' \in Ring /\ used' \in Ring
      /\ inflight' \subseteq Descs /\ used_idx' \in 0 .. IdxRange - 1 /\ taken' \in 0 .. IdxRange - 1
  BY <1>1, Zenon DEF CacheTypes, DriverTypes
<1> QED  BY <1>3, <1>4, <1>5, <1>6, DeviceStep, Zenon

\* An index that advances stays in range.
LEMMA Advances ==
  ASSUME NEW k \in 0 .. IdxRange - 1
  PROVE  (k + 1) % IdxRange \in 0 .. IdxRange - 1 /\ k % NUM \in Descs
<1>1. IdxRange \in Nat \ {0} /\ NUM \in Nat \ {0} /\ k \in Int /\ k + 1 \in Int
  BY SizesAssumption, IndexAssumption
<1>2. (k + 1) % IdxRange \in 0 .. IdxRange - 1 /\ k % NUM \in 0 .. NUM - 1
  BY <1>1, Quotient
<1> QED  BY <1>2 DEF Descs

\* The device takes the request at the head of the available ring.
LEMMA DeviceTakesInv ==
  ASSUME BInv, DeviceTakes
  PROVE  BInv'
<1>1. CacheInv /\ CacheTypes /\ LockOK /\ DriverTypes
  BY Zenon DEF BInv, CacheInv
<1>2. PICK Q, D : StagesOK(Q, D)
  BY Zenon DEF BInv
<1>3. /\ taken # avail.idx /\ taken' = (taken + 1) % IdxRange
      /\ UNCHANGED <<buf, lru, pr, desc, ops, info, used, used_idx, disk, latest, count>>
  BY Zenon DEF DeviceTakes
<1>4. avail \in Ring /\ taken \in 0 .. IdxRange - 1
  BY <1>1, Zenon DEF DriverTypes
<1>5. avail.ring \in [Descs -> Descs \cup {None}] /\ avail.idx \in 0 .. IdxRange - 1
  BY <1>4 DEF Ring
<1>6. PICK h : h = avail.ring[taken % NUM]
  BY Zenon
<1>7. taken' \in 0 .. IdxRange - 1 /\ taken % NUM \in Descs
  BY <1>3, <1>4, Advances, Zenon
<1>8. avail' \in Ring /\ avail'.ring = [avail.ring EXCEPT ![taken % NUM] = None] /\ avail'.idx = avail.idx
  <2> DEFINE r == [avail.ring EXCEPT ![taken % NUM] = None]
  <2>1. r \in [Descs -> Descs \cup {None}]
    BY <1>5, Zenon
  <2>2. avail' = [avail EXCEPT !.ring = r]
    BY <1>4 DEF DeviceTakes, Ring
  <2> HIDE DEF r
  <2>3. avail' \in Ring /\ avail'.ring = r /\ avail'.idx = avail.idx
    BY <1>4, <2>1, <2>2 DEF Ring
  <2> QED  BY <2>3, Zenon DEF r
<1>9. inflight' = inflight \cup {h}
  BY <1>6, Zenon DEF DeviceTakes
<1>10. /\ RingOK(avail.ring, taken, avail.idx, Q) /\ RingOK(used.ring, used_idx, used.idx, D)
       /\ Q \cap inflight = {} /\ Q \cap D = {} /\ inflight \cap D = {}
       /\ Q \subseteq Descs /\ D \subseteq Descs
  BY <1>2, Zenon DEF StagesOK
<1>11. /\ h \in Q
       /\ RingOK([avail.ring EXCEPT ![taken % NUM] = None], (taken + 1) % IdxRange, avail.idx, Q \ {h})
  <2>1. /\ avail.ring[taken % NUM] \in Q
        /\ RingOK([avail.ring EXCEPT ![taken % NUM] = None], (taken + 1) % IdxRange, avail.idx,
                  Q \ {avail.ring[taken % NUM]})
    BY <1>3, <1>4, <1>5, <1>10, RingTake, Zenon
  <2> QED  BY <1>6, <2>1, Zenon
<1>12. \A q \in Procs : Same(q)
  BY <1>3, Zenon DEF Same
<1>13. LockOK' /\ PlaceOK' /\ OneBuffer' /\ DataOK'
  BY <1>1, <1>3, <1>12, RefStep, Zenon
<1> DEFINE R == Q \ {h}
<1>14. StagesOK(R, D)'
  <2>1. RingOK(avail'.ring, taken', avail'.idx, R)
    BY <1>3, <1>8, <1>11, Zenon
  <2>2. RingOK(used'.ring, used_idx', used'.idx, D)
    BY <1>3, <1>10, Zenon
  <2>3. /\ R \cap inflight' = {} /\ R \cap D = {} /\ inflight' \cap D = {}
        /\ R \subseteq Descs /\ D \subseteq Descs /\ R \cup inflight' \cup D \subseteq Q \cup inflight \cup D
    BY <1>9, <1>10, <1>11
  <2>4. R \cup inflight' \cup D = Q \cup inflight \cup D /\ Q \cup inflight \subseteq R \cup inflight'
    BY <1>9, <1>11
  <2> HIDE DEF R
  <2>5. ASSUME NEW q \in Procs, Requesting(q)
        PROVE  buf'[B(q)].disk <=> pr[q].head \in R \cup inflight' \cup D
    BY <1>2, <1>3, <2>4, <2>5, Zenon DEF StagesOK
  <2>6. ASSUME NEW q \in Procs, Requesting(q), pr[q].head \notin R \cup inflight'
        PROVE  /\ buf'[B(q)].data = latest'[buf'[B(q)].blockno]
               /\ disk'[buf'[B(q)].blockno] = latest'[buf'[B(q)].blockno]
    <3>1. pr[q].head \notin Q \cup inflight
      BY <2>4, <2>6, Zenon
    <3> QED  BY <1>2, <1>3, <2>6, <3>1, Zenon DEF StagesOK
  <2>7. \A k \in D : info'[k].status = 0
    BY <1>2, <1>3, Zenon DEF StagesOK
  <2>8. \A a \in Bufs : buf'[a].disk => buf[a].disk
    BY <1>3, Zenon
  <2>9. Advance(Q, D, R, D)
    BY <1>12, <2>1, <2>2, <2>3, <2>5, <2>6, <2>7, <2>8, Zenon DEF Advance
  <2> QED  BY <1>1, <1>2, <2>9, StagesStep, Zenon
<1> HIDE DEF R
<1>15. inflight' \subseteq Descs
  BY <1>1, <1>9, <1>10, <1>11, Zenon DEF DriverTypes
<1>16. /\ pr' \in [Procs -> Process] /\ buf' \in [Bufs -> Buffer] /\ disk' \in [BlockNos -> Int]
       /\ info' \in [Descs -> [b : 0 .. NBUF, status : Nat]] /\ used' \in Ring
       /\ used_idx' \in 0 .. IdxRange - 1
  BY <1>1, <1>3, Zenon DEF CacheTypes, DriverTypes
<1> QED  BY <1>3, <1>7, <1>8, <1>12, <1>13, <1>14, <1>15, <1>16, DeviceStep, Zenon

\* The handler finishes the request at the head of the used ring.
LEMMA IntrEntryInv ==
  ASSUME BInv, IntrEntry
  PROVE  BInv'
<1>1. CacheInv /\ CacheTypes /\ LockOK /\ DriverTypes /\ ChainsOK
  BY Zenon DEF BInv, CacheInv
<1>2. PICK Q, D : StagesOK(Q, D)
  BY Zenon DEF BInv
<1>3. PICK id : id = used.ring[used_idx % NUM]
  BY Zenon
<1>4. PICK b : b = info[id].b
  BY Zenon
<1>5. /\ used_idx # used.idx /\ used_idx' = (used_idx + 1) % IdxRange
      /\ buf' = [buf EXCEPT ![b].disk = FALSE] /\ pr' = wakeup(pr, <<"disk", b>>)
      /\ UNCHANGED <<lru, desc, ops, info, avail, disk, taken, inflight, latest, count>>
  BY <1>3, <1>4, Zenon DEF IntrEntry
<1>6. used \in Ring /\ used_idx \in 0 .. IdxRange - 1
  BY <1>1, Zenon DEF DriverTypes
<1>7. used.ring \in [Descs -> Descs \cup {None}] /\ used.idx \in 0 .. IdxRange - 1
  BY <1>6 DEF Ring
<1>8. used_idx' \in 0 .. IdxRange - 1 /\ used_idx % NUM \in Descs
  BY <1>5, <1>6, Advances, Zenon
<1>9. used' \in Ring /\ used'.ring = [used.ring EXCEPT ![used_idx % NUM] = None] /\ used'.idx = used.idx
  <2> DEFINE r == [used.ring EXCEPT ![used_idx % NUM] = None]
  <2>1. r \in [Descs -> Descs \cup {None}]
    BY <1>7, Zenon
  <2>2. used' = [used EXCEPT !.ring = r]
    BY <1>6 DEF IntrEntry, Ring
  <2> HIDE DEF r
  <2>3. used' \in Ring /\ used'.ring = r /\ used'.idx = used.idx
    BY <1>6, <2>1, <2>2 DEF Ring
  <2> QED  BY <2>3, Zenon DEF r
<1>10. /\ RingOK(avail.ring, taken, avail.idx, Q) /\ RingOK(used.ring, used_idx, used.idx, D)
       /\ Q \cap inflight = {} /\ Q \cap D = {} /\ inflight \cap D = {}
       /\ Q \subseteq Descs /\ D \subseteq Descs
  BY <1>2, Zenon DEF StagesOK
<1>11. /\ id \in D
       /\ RingOK([used.ring EXCEPT ![used_idx % NUM] = None], (used_idx + 1) % IdxRange, used.idx, D \ {id})
  <2>1. /\ used.ring[used_idx % NUM] \in D
        /\ RingOK([used.ring EXCEPT ![used_idx % NUM] = None], (used_idx + 1) % IdxRange, used.idx,
                  D \ {used.ring[used_idx % NUM]})
    BY <1>5, <1>6, <1>7, <1>10, RingTake, Zenon
  <2> QED  BY <1>3, <2>1, Zenon
<1>12. PICK p \in Procs : Requesting(p) /\ pr[p].head = id
  <2>1. id \in Q \cup inflight \cup D
    BY <1>11, Zenon
  <2> QED  BY <1>2, <2>1, Zenon DEF StagesOK
<1>13. b = B(p) /\ b \in Bufs
  <2>1. RequestOK(p) /\ B(p) \in Bufs
    BY <1>1, <1>12, Heads, RequestingBuffer, Zenon
  <2> QED  BY <1>4, <1>12, <2>1, Zenon DEF RequestOK
<1>14. buf \in [Bufs -> Buffer] /\ pr \in [Procs -> Process]
  BY <1>1, Zenon DEF CacheTypes
<1> DEFINE c == [buf[b] EXCEPT !.disk = FALSE]
<1>15. buf' = [buf EXCEPT ![b] = c]
  BY <1>5, <1>14, Zenon
<1>16. /\ c \in Buffer /\ c.blockno = buf[b].blockno /\ c.refcnt = buf[b].refcnt
       /\ c.locked = buf[b].locked /\ c.data = buf[b].data
  <2>1. buf[b] \in Buffer
    BY <1>13, <1>14, Zenon
  <2>2. c \in Buffer
    BY <2>1, Zenon DEF Buffer
  <2> QED  BY <2>1, <2>2 DEF Buffer
<1>17. c.valid = buf[b].valid /\ c.pinned = buf[b].pinned /\ c.disk = FALSE
  <2>1. buf[b] \in Buffer
    BY <1>13, <1>14, Zenon
  <2> QED  BY <2>1, Zenon DEF Buffer
<1> HIDE DEF c
<1>18. /\ buf' \in [Bufs -> Buffer] /\ buf'[b] = c
       /\ \A a \in Bufs : a # b => buf'[a] = buf[a]
  BY <1>13, <1>14, <1>15, <1>16, Zenon
<1>19. ASSUME NEW a \in Bufs
       PROVE  /\ buf'[a].blockno = buf[a].blockno /\ buf'[a].valid = buf[a].valid
              /\ buf'[a].locked = buf[a].locked /\ buf'[a].data = buf[a].data
              /\ buf'[a].pinned = buf[a].pinned /\ buf'[a].refcnt = buf[a].refcnt
              /\ buf'[a].disk => buf[a].disk
  <2>1. CASE a = b
    BY <1>16, <1>17, <1>18, <2>1, Zenon
  <2>2. CASE a # b
    BY <1>18, <2>2, Zenon
  <2> QED  BY <2>1, <2>2, Zenon
<1>20. pr' \in [Procs -> Process] /\ \A q \in Procs : Same(q)
  BY <1>5, <1>14, WakeupKeeps DEF Same
<1>21. LockOK' /\ PlaceOK' /\ OneBuffer' /\ DataOK'
  BY <1>1, <1>5, <1>19, <1>20, RefStep, Zenon
<1> DEFINE E == D \ {id}
<1>22. StagesOK(Q, E)'
  <2>1. RingOK(avail'.ring, taken', avail'.idx, Q)
    BY <1>5, <1>10, Zenon
  <2>2. RingOK(used'.ring, used_idx', used'.idx, E)
    BY <1>5, <1>9, <1>11, Zenon
  <2>3. /\ Q \cap inflight' = {} /\ Q \cap E = {} /\ inflight' \cap E = {}
        /\ Q \subseteq Descs /\ E \subseteq Descs /\ Q \cup inflight' \cup E \subseteq Q \cup inflight \cup D
    BY <1>5, <1>10, <1>11
  <2>4. id \notin Q \cup inflight' \cup E /\ \A h : h # id => (h \in Q \cup inflight' \cup E <=> h \in Q \cup inflight \cup D)
    BY <1>5, <1>10, <1>11
  <2>5. \A h \in E : info'[h].status = 0
    BY <1>2, <1>5, Zenon DEF StagesOK
  <2> HIDE DEF E
  <2>6. ASSUME NEW q \in Procs, Requesting(q)
        PROVE  buf'[B(q)].disk <=> pr[q].head \in Q \cup inflight' \cup E
    <3>1. CASE q = p
      BY <1>12, <1>13, <1>17, <1>18, <2>4, <3>1, Zenon
    <3>2. CASE q # p
      <4>1. pr[q].head # id
        BY <1>1, <1>12, <2>6, <3>2, Heads, Zenon
      <4>2. B(q) # b /\ B(q) \in Bufs
        <5>1. pr[p].pc \in Owning /\ pr[q].pc \in Owning /\ B(q) \in Bufs
          BY <1>1, <1>12, <2>6, RequestingBuffer, Zenon
        <5> QED  BY <1>1, <1>13, <3>2, <5>1, OwnerAlone, Zenon
      <4>3. buf[B(q)].disk <=> pr[q].head \in Q \cup inflight \cup D
        BY <1>2, <2>6, Zenon DEF StagesOK
      <4>4. buf'[B(q)] = buf[B(q)]
        BY <1>18, <4>2, Zenon
      <4> QED  BY <2>4, <4>1, <4>3, <4>4, Zenon
    <3> QED  BY <3>1, <3>2, Zenon
  <2>7. ASSUME NEW q \in Procs, Requesting(q), pr[q].head \notin Q \cup inflight'
        PROVE  /\ buf'[B(q)].data = latest'[buf'[B(q)].blockno]
               /\ disk'[buf'[B(q)].blockno] = latest'[buf'[B(q)].blockno]
    <3>1. buf'[B(q)].data = buf[B(q)].data /\ buf'[B(q)].blockno = buf[B(q)].blockno
      BY <1>1, <1>19, <2>7, RequestingBuffer, Zenon
    <3>2. /\ buf[B(q)].data = latest[buf[B(q)].blockno]
          /\ disk[buf[B(q)].blockno] = latest[buf[B(q)].blockno]
      BY <1>2, <1>5, <2>7, Zenon DEF StagesOK
    <3> QED  BY <1>5, <3>1, <3>2, Zenon
  <2>8. Advance(Q, D, Q, E)
    BY <1>19, <1>20, <2>1, <2>2, <2>3, <2>5, <2>6, <2>7, Zenon DEF Advance
  <2> QED  BY <1>1, <1>2, <2>8, StagesStep, Zenon
<1> HIDE DEF E
<1>23. /\ disk' \in [BlockNos -> Int] /\ info' \in [Descs -> [b : 0 .. NBUF, status : Nat]]
       /\ avail' \in Ring /\ taken' \in 0 .. IdxRange - 1 /\ inflight' \subseteq Descs
  BY <1>1, <1>5, Zenon DEF CacheTypes, DriverTypes
<1> QED  BY <1>5, <1>8, <1>9, <1>18, <1>19, <1>20, <1>21, <1>22, <1>23, DeviceStep, Zenon

\* The device has served a request.
LEMMA DeviceDoneInv ==
  ASSUME BInv, NEW id \in Descs, DeviceDone(id)
  PROVE  BInv'
<1>1. CacheInv /\ CacheTypes /\ LockOK /\ OneBuffer /\ DriverTypes /\ ChainsOK
  BY Zenon DEF BInv, CacheInv
<1>2. PICK Q, D : StagesOK(Q, D)
  BY Zenon DEF BInv
<1>3. /\ id \in inflight /\ inflight' = inflight \ {id}
      /\ UNCHANGED <<lru, pr, desc, ops, avail, used_idx, taken, latest, count>>
      /\ info' = [info EXCEPT ![id].status = 0]
      /\ used' = [ring |-> [used.ring EXCEPT ![used.idx % NUM] = id], idx |-> (used.idx + 1) % IdxRange]
  BY Zenon DEF DeviceDone
<1>4. PICK p \in Procs : Requesting(p) /\ pr[p].head = id
  <2>1. id \in Q \cup inflight \cup D
    BY <1>3, Zenon
  <2> QED  BY <1>2, <2>1, Zenon DEF StagesOK
<1>5. PICK b : b = B(p)
  BY Zenon
<1>6. PICK n : n = buf[b].blockno
  BY Zenon
<1>7. pr[p].pc \in Owning /\ RequestOK(p)
  BY <1>1, <1>4, Heads, RequestingBuffer, Zenon
<1>8. /\ b \in Bufs /\ buf[b] \in Buffer /\ buf[b].locked = p /\ PlaceOf(p) /\ DataOf(b)
      /\ (\A q \in Procs : buf[b].locked = q => q = p) /\ n \in BlockNos
  BY <1>5, <1>6, <1>7, OwnerKnows, Zenon
<1>9. desc[desc[id].next].buf = b /\ ops[id].blockno = n /\ ops[id].write = pr[p].write
  BY <1>4, <1>5, <1>6, <1>7, Zenon DEF RequestOK
<1>10. pr[p].write = buf[b].valid
  <2>1. pr[p].pc \in {"rw", "io"}
    BY <1>4 DEF Requesting
  <2> QED  BY <1>5, <1>8, <2>1, Zenon DEF PlaceOf
<1>11. IF buf[b].valid THEN disk' = [disk EXCEPT ![n] = buf[b].data] /\ buf' = buf
                       ELSE buf' = [buf EXCEPT ![b].data = disk[n]] /\ disk' = disk
  BY <1>9, <1>10, Zenon DEF DeviceDone
<1>12. /\ buf \in [Bufs -> Buffer] /\ pr \in [Procs -> Process] /\ disk \in [BlockNos -> Int]
  BY <1>1, Zenon DEF CacheTypes
<1>13. buf[b].data \in Int /\ disk[n] \in Int
  BY <1>8, <1>12 DEF Buffer
\* Either way the block and its buffer have the last contents.
<1>14. /\ buf' \in [Bufs -> Buffer] /\ disk' \in [BlockNos -> Int]
       /\ \A a \in Bufs : a # b => buf'[a] = buf[a]
       /\ \A m \in BlockNos : m # n => disk'[m] = disk[m]
       /\ buf'[b].blockno = n /\ buf'[b].refcnt = buf[b].refcnt /\ buf'[b].locked = p
       /\ buf'[b].valid = buf[b].valid /\ buf'[b].disk = buf[b].disk /\ buf'[b].pinned = buf[b].pinned
       /\ buf'[b].data = latest[n] /\ disk'[n] = latest[n]
  <2>1. CASE buf[b].valid
    <3>1. buf[b].data = latest[n]
      BY <1>6, <1>8, <2>1, Zenon DEF DataOf
    <3>2. disk' = [disk EXCEPT ![n] = buf[b].data] /\ buf' = buf
      BY <1>11, <2>1, Zenon
    <3>3. /\ disk' \in [BlockNos -> Int] /\ disk'[n] = buf[b].data
          /\ \A m \in BlockNos : m # n => disk'[m] = disk[m]
      BY <1>8, <1>12, <1>13, <3>2, Zenon
    <3> QED  BY <1>6, <1>8, <1>12, <3>1, <3>2, <3>3, Zenon
  <2>2. CASE ~buf[b].valid
    <3> DEFINE c == [buf[b] EXCEPT !.data = disk[n]]
    <3>1. disk[n] = latest[n]
      BY <1>6, <1>8, <2>2, Zenon DEF DataOf
    <3>2. buf' = [buf EXCEPT ![b] = c] /\ disk' = disk
      BY <1>11, <1>12, <2>2, Zenon
    <3>3. c \in Buffer /\ c.blockno = n /\ c.refcnt = buf[b].refcnt /\ c.locked = p /\ c.data = disk[n]
      BY <1>6, <1>8, <1>13 DEF Buffer
    <3>4. c.valid = buf[b].valid /\ c.disk = buf[b].disk /\ c.pinned = buf[b].pinned
      BY <1>8, Zenon DEF Buffer
    <3> HIDE DEF c
    <3>5. /\ buf' \in [Bufs -> Buffer] /\ buf'[b] = c /\ \A a \in Bufs : a # b => buf'[a] = buf[a]
      BY <1>8, <1>12, <3>2, <3>3, Zenon
    <3> QED  BY <1>12, <3>1, <3>2, <3>3, <3>4, <3>5, Zenon
  <2> QED  BY <2>1, <2>2, Zenon
<1>15. ASSUME NEW a \in Bufs
       PROVE  /\ buf'[a].refcnt = buf[a].refcnt /\ buf'[a].pinned = buf[a].pinned
              /\ buf'[a].blockno = buf[a].blockno /\ buf'[a].disk = buf[a].disk
  <2>1. CASE a = b
    BY <1>6, <1>14, <2>1, Zenon
  <2>2. CASE a # b
    BY <1>14, <2>2, Zenon
  <2> QED  BY <2>1, <2>2, Zenon
<1>16. \A q \in Procs : Same(q)
  BY <1>3, Zenon DEF Same
<1>17. LockOK' /\ PlaceOK' /\ OneBuffer' /\ DataOK'
  <2>1. PlaceOf(p)'
    <3>1. /\ pr'[p].pc \notin {"lock", "have"} /\ pr'[p].pc \notin {"have", "written", "rel"}
          /\ pr'[p].pc # "written"
      BY <1>3, <1>4 DEF Requesting
    <3>2. pr'[p].write = buf'[pr'[p].b].valid
      BY <1>3, <1>5, <1>10, <1>14, Zenon DEF B
    <3> QED  BY <3>1, <3>2, Zenon DEF PlaceOf, B
  <2>2. DataOf(b)'
    BY <1>3, <1>14, Zenon DEF DataOf
  <2>3. \A q \in Procs : q # p => Same(q)
    BY <1>16, Zenon
  <2>4. buf'[b].blockno = buf[b].blockno
    BY <1>6, <1>14, Zenon
  <2>5. \A m \in BlockNos : m # buf[b].blockno => disk'[m] = disk[m] /\ latest'[m] = latest[m]
    BY <1>3, <1>6, <1>14, Zenon
  <2>6. /\ pr[p].pc # "idle" => B(p) = b
        /\ pr'[p].pc # "idle" => pr'[p].b = b
        /\ pr'[p].pc \in Owning => buf'[b].locked = p
        /\ pr'[p].pc \notin Owning => buf'[b].locked = 0
    BY <1>3, <1>5, <1>7, <1>14, Zenon DEF B
  <2> QED  BY <1>1, <1>8, <1>14, <2>1, <2>2, <2>3, <2>4, <2>5, <2>6, LocalStep, Zenon
<1>18. used \in Ring /\ used_idx \in 0 .. IdxRange - 1 /\ info \in [Descs -> [b : 0 .. NBUF, status : Nat]]
  BY <1>1, Zenon DEF DriverTypes
<1>19. used.ring \in [Descs -> Descs \cup {None}] /\ used.idx \in 0 .. IdxRange - 1
  BY <1>18 DEF Ring
<1>20. used' \in Ring /\ used'.ring = [used.ring EXCEPT ![used.idx % NUM] = id] /\ used'.idx = (used.idx + 1) % IdxRange
  <2> DEFINE r == [used.ring EXCEPT ![used.idx % NUM] = id]
             k == (used.idx + 1) % IdxRange
  <2>1. r \in [Descs -> Descs \cup {None}]
    BY <1>19, Zenon
  <2>2. k \in 0 .. IdxRange - 1
    BY <1>19, Advances, Zenon
  <2>3. used' = [ring |-> r, idx |-> k]
    BY <1>3, Zenon
  <2> HIDE DEF r, k
  <2>4. used' \in Ring /\ used'.ring = r /\ used'.idx = k
    BY <2>1, <2>2, <2>3 DEF Ring
  <2> QED  BY <2>4, Zenon DEF r, k
<1>21. /\ info' \in [Descs -> [b : 0 .. NBUF, status : Nat]] /\ info'[id].status = 0
       /\ (\A h \in Descs : info'[h].b = info[h].b) /\ \A h \in Descs : h # id => info'[h] = info[h]
  BY <1>3, <1>18
<1>22. /\ RingOK(avail.ring, taken, avail.idx, Q) /\ RingOK(used.ring, used_idx, used.idx, D)
       /\ Q \cap inflight = {} /\ Q \cap D = {} /\ inflight \cap D = {}
       /\ Q \subseteq Descs /\ D \subseteq Descs
  BY <1>2, Zenon DEF StagesOK
<1> DEFINE E == D \cup {id}
<1>23. StagesOK(Q, E)'
  <2>1. RingOK(avail'.ring, taken', avail'.idx, Q)
    BY <1>3, <1>22, Zenon
  <2>2. RingOK(used'.ring, used_idx', used'.idx, E)
    <3>1. id \notin D /\ D \in SUBSET Descs
      BY <1>3, <1>22
    <3>2. RingOK([used.ring EXCEPT ![used.idx % NUM] = id], used_idx, (used.idx + 1) % IdxRange, D \cup {id})
      BY <1>18, <1>19, <1>22, <3>1, RingPut, Zenon
    <3> QED  BY <1>3, <1>20, <3>2, Zenon
  <2>3. /\ Q \cap inflight' = {} /\ Q \cap E = {} /\ inflight' \cap E = {}
        /\ Q \subseteq Descs /\ E \subseteq Descs /\ Q \cup inflight' \cup E \subseteq Q \cup inflight \cup D
    BY <1>3, <1>22
  <2>4. Q \cup inflight' \cup E = Q \cup inflight \cup D /\ \A h : h # id /\ h \notin Q \cup inflight' => h \notin Q \cup inflight
    BY <1>3
  <2>5. ASSUME NEW h \in E PROVE info'[h].status = 0
    <3>1. CASE h = id
      BY <1>21, <3>1, Zenon
    <3>2. CASE h # id
      <4>1. h \in D /\ h \in Descs
        BY <1>22, <2>5, <3>2, Zenon
      <4> QED  BY <1>2, <1>21, <3>2, <4>1, Zenon DEF StagesOK
    <3> QED  BY <3>1, <3>2, Zenon
  <2> HIDE DEF E
  <2>6. ASSUME NEW q \in Procs, Requesting(q)
        PROVE  buf'[B(q)].disk <=> pr[q].head \in Q \cup inflight' \cup E
    <3>1. buf'[B(q)].disk = buf[B(q)].disk
      BY <1>1, <1>15, <2>6, RequestingBuffer, Zenon
    <3>2. buf[B(q)].disk <=> pr[q].head \in Q \cup inflight \cup D
      BY <1>2, <2>6, Zenon DEF StagesOK
    <3> QED  BY <2>4, <3>1, <3>2, Zenon
  <2>7. ASSUME NEW q \in Procs, Requesting(q), pr[q].head \notin Q \cup inflight'
        PROVE  /\ buf'[B(q)].data = latest'[buf'[B(q)].blockno]
               /\ disk'[buf'[B(q)].blockno] = latest'[buf'[B(q)].blockno]
    <3>1. CASE q = p
      BY <1>3, <1>5, <1>14, <3>1, Zenon
    <3>2. CASE q # p
      <4>1. pr[q].head # id
        BY <1>1, <1>4, <2>7, <3>2, Heads, Zenon
      <4>2. B(q) # b /\ B(q) \in Bufs
        <5>1. pr[q].pc \in Owning /\ B(q) \in Bufs
          BY <1>1, <2>7, RequestingBuffer, Zenon
        <5> QED  BY <1>1, <1>5, <1>7, <3>2, <5>1, OwnerAlone, Zenon
      <4>3. buf'[B(q)] = buf[B(q)]
        BY <1>14, <4>2, Zenon
      <4>4. buf[B(q)].blockno # n /\ buf[B(q)].blockno \in BlockNos
        <5>1. buf[B(q)].blockno # n
          BY <1>1, <1>6, <1>8, <4>2, Zenon DEF OneBuffer
        <5>2. buf[B(q)] \in Buffer
          BY <1>12, <4>2, Zenon
        <5>3. buf[B(q)].blockno \in BlockNos
          BY <5>2 DEF Buffer
        <5> QED  BY <5>1, <5>3, Zenon
      <4>5. disk'[buf[B(q)].blockno] = disk[buf[B(q)].blockno]
        BY <1>14, <4>4, Zenon
      <4>6. /\ buf[B(q)].data = latest[buf[B(q)].blockno]
            /\ disk[buf[B(q)].blockno] = latest[buf[B(q)].blockno]
        <5>1. pr[q].head \notin Q \cup inflight
          BY <2>4, <2>7, <4>1, Zenon
        <5> QED  BY <1>2, <2>7, <5>1, Zenon DEF StagesOK
      <4> QED  BY <1>3, <4>3, <4>5, <4>6, Zenon
    <3> QED  BY <3>1, <3>2, Zenon
  <2>8. Advance(Q, D, Q, E)
    BY <1>15, <1>16, <2>1, <2>2, <2>3, <2>5, <2>6, <2>7, Zenon DEF Advance
  <2> QED  BY <1>1, <1>2, <2>8, StagesStep, Zenon
<1> HIDE DEF E
<1>24. /\ pr' \in [Procs -> Process] /\ inflight' \subseteq Descs
       /\ avail' \in Ring /\ taken' \in 0 .. IdxRange - 1 /\ used_idx' \in 0 .. IdxRange - 1
  BY <1>1, <1>3, <1>12, Zenon DEF DriverTypes
<1> QED  BY <1>3, <1>14, <1>15, <1>16, <1>17, <1>20, <1>21, <1>23, <1>24, DeviceStep, Zenon

-----------------------------------------------------------------------------
(***************************************************************************)
(* Requests begin and end.                                                 *)
(***************************************************************************)

\* Of at least m descriptors one is the lowest.
LEMMA LowestOf ==
  ASSUME NEW S \in SUBSET Descs, NEW m \in Nat, Cardinality(S) >= m + 1
  PROVE  /\ Lowest(S) \in S
         /\ Cardinality(S \ {Lowest(S)}) >= m
<1>1. IsFiniteSet(S)
  <2>1. IsFiniteSet(Descs)
    BY SizesAssumption, FS_Interval DEF Descs
  <2> QED  BY <2>1, FS_Subset
<1>2. Cardinality(S) \in Nat
  BY <1>1, FS_CardinalityType
<1>3. S # {}
  <2>1. SUFFICES ASSUME S = {} PROVE FALSE
    OBVIOUS
  <2>2. Cardinality(S) = 0
    BY <2>1, FS_EmptySet
  <2> QED  BY <2>2
<1>4. S \in SUBSET Nat
  BY SizesAssumption DEF Descs
<1>5. \E i \in S : \A y \in S : i <= y
  BY <1>3, <1>4, LeastNat, Zenon
<1>6. Lowest(S) \in S
  BY <1>5, Zenon DEF Lowest
<1>7. Cardinality(S \ {Lowest(S)}) = Cardinality(S) - 1
  BY <1>1, <1>6, FS_RemoveElement
<1> QED  BY <1>2, <1>6, <1>7

\* alloc3_desc() takes three free descriptors.
LEMMA Alloc ==
  ASSUME Cardinality(FreeDescs) >= 3
  PROVE  \E i, j, k \in Descs : /\ i # j /\ i # k /\ j # k
                                /\ desc[i].free /\ desc[j].free /\ desc[k].free
                                /\ alloc3_desc = <<i, j, k>>
<1>1. FreeDescs \in SUBSET Descs
  BY DEF FreeDescs
<1>2. PICK i : i = Lowest(FreeDescs)
  BY Zenon
<1>3. i \in FreeDescs /\ Cardinality(FreeDescs \ {i}) >= 2
  BY <1>1, <1>2, LowestOf
<1>4. PICK j : j = Lowest(FreeDescs \ {i})
  BY Zenon
<1>5. j \in FreeDescs \ {i} /\ Cardinality((FreeDescs \ {i}) \ {j}) >= 1
  <2>1. FreeDescs \ {i} \in SUBSET Descs
    BY <1>1, Zenon
  <2> QED  BY <1>3, <1>4, <2>1, LowestOf
<1>6. (FreeDescs \ {i}) \ {j} = FreeDescs \ {i, j}
  OBVIOUS
<1>7. PICK k : k = Lowest(FreeDescs \ {i, j})
  BY Zenon
<1>8. k \in FreeDescs \ {i, j}
  <2>1. FreeDescs \ {i, j} \in SUBSET Descs
    BY <1>1, Zenon
  <2>2. Cardinality(FreeDescs \ {i, j}) >= 0 + 1
    BY <1>5, <1>6
  <2> QED  BY <1>7, <2>1, <2>2, LowestOf
<1>9. alloc3_desc = <<i, j, k>>
  BY <1>2, <1>4, <1>7, Zenon DEF alloc3_desc
<1>10. /\ i \in Descs /\ j \in Descs /\ k \in Descs /\ i # j /\ i # k /\ j # k
       /\ desc[i].free /\ desc[j].free /\ desc[k].free
  BY <1>3, <1>5, <1>8, Zenon DEF FreeDescs
<1> QED  BY <1>9, <1>10, Zenon

\* A chain is made of descriptors.
LEMMA ChainType ==
  ASSUME CacheTypes, DriverTypes, NEW q \in Procs
  PROVE  Chain(pr[q].head) \subseteq Descs /\ pr[q].head \in Chain(pr[q].head)
<1>1. pr[q] \in Process /\ desc \in [Descs -> Descriptor]
  BY Zenon DEF CacheTypes, DriverTypes
<1>2. pr[q].head \in Descs /\ \A i \in Descs : desc[i].next \in Descs
  BY <1>1 DEF Process, Descriptor
<1> QED  BY <1>2, Zenon DEF Chain

\* What a process does to descriptors T changes no request of another one.
LEMMA OthersKept ==
  ASSUME CacheTypes, LockOK, DriverTypes, ChainsOK, NEW p \in Procs, NEW T,
         \A q \in Procs : q # p => Same(q),
         \A c \in Descs : c \notin T => desc'[c] = desc[c] /\ ops'[c] = ops[c] /\ info'[c] = info[c],
         \A q \in Procs : q # p /\ Requesting(q) => Chain(pr[q].head) \cap T = {},
         \A a \in Bufs : buf'[a].blockno = buf[a].blockno
  PROVE  \A q \in Procs : q # p
           => /\ Requesting(q)' <=> Requesting(q)
              /\ pr'[q].head = pr[q].head /\ pr'[q].b = B(q)
              /\ Requesting(q) => RequestOK(q)' /\ Chain(pr[q].head)' = Chain(pr[q].head)
<1> SUFFICES ASSUME NEW q \in Procs, q # p
             PROVE  /\ Requesting(q)' <=> Requesting(q)
                    /\ pr'[q].head = pr[q].head /\ pr'[q].b = B(q)
                    /\ Requesting(q) => RequestOK(q)' /\ Chain(pr[q].head)' = Chain(pr[q].head)
  BY Zenon
<1>1. /\ Requesting(q)' <=> Requesting(q)
      /\ pr'[q].head = pr[q].head /\ pr'[q].b = B(q) /\ pr'[q].write = pr[q].write
  BY Zenon DEF Same, Requesting, B
<1>2. ASSUME Requesting(q) PROVE RequestOK(q)' /\ Chain(pr[q].head)' = Chain(pr[q].head)
  <2>1. PICK h : h = pr[q].head
    BY Zenon
  <2>2. /\ RequestOK(q) /\ B(q) \in Bufs /\ Chain(h) \subseteq Descs /\ Chain(h) \cap T = {}
    BY <1>2, <2>1, Heads, RequestingBuffer, ChainType, Zenon
  <2>3. \A c \in Chain(h) : desc'[c] = desc[c] /\ ops'[c] = ops[c] /\ info'[c] = info[c]
    BY <2>2, Zenon
  <2>4. h \in Chain(h) /\ desc[h].next \in Chain(h)
    BY Zenon DEF Chain
  <2>5. /\ desc'[h] = desc[h] /\ desc'[desc[h].next] = desc[desc[h].next]
        /\ ops'[h] = ops[h] /\ info'[h] = info[h]
    BY <2>3, <2>4, Zenon
  <2>6. Chain(pr[q].head)' = Chain(pr[q].head)
    BY <1>1, <2>1, <2>5, Zenon DEF Chain
  <2>7. RequestOK(q)'
    <3>1. /\ desc[desc[h].next].buf = B(q) /\ ops[h].write = pr[q].write
          /\ ops[h].blockno = buf[B(q)].blockno /\ info[h].b = B(q)
      BY <2>1, <2>2, Zenon DEF RequestOK
    <3>2. buf'[B(q)].blockno = buf[B(q)].blockno
      BY <2>2, Zenon
    <3> QED  BY <1>1, <2>1, <2>5, <3>1, <3>2, ZenonT(40) DEF RequestOK, B
  <2> QED  BY <2>6, <2>7, Zenon
<1> QED  BY <1>1, <1>2, Zenon

\* virtio_disk_rw() submits a request.
LEMMA SubmitInv ==
  ASSUME BInv, NEW p \in Procs, Submit(p)
  PROVE  BInv'
<1>1. CacheInv /\ CacheTypes /\ CountOK /\ LockOK /\ OneBuffer /\ DriverTypes /\ ChainsOK
  BY Zenon DEF BInv, CacheInv
<1>2. PICK Q, D : StagesOK(Q, D)
  BY Zenon DEF BInv
<1>3. pr[p].pc = "rw" /\ Cardinality(FreeDescs) >= 3
  BY Zenon DEF Submit, At
<1>4. PICK i, j, k \in Descs : /\ i # j /\ i # k /\ j # k
                               /\ desc[i].free /\ desc[j].free /\ desc[k].free
                               /\ alloc3_desc = <<i, j, k>>
  BY <1>3, Alloc, Zenon
<1>5. PICK b : b = B(p)
  BY Zenon
<1>6. alloc3_desc[1] = i /\ alloc3_desc[2] = j /\ alloc3_desc[3] = k
  BY <1>4
<1> DEFINE di == [free |-> FALSE, next |-> j, more |-> TRUE, buf |-> 0]
           dj == [free |-> FALSE, next |-> k, more |-> TRUE, buf |-> b]
           dk == [free |-> FALSE, next |-> 0, more |-> FALSE, buf |-> 0]
           oi == [write |-> pr[p].write, blockno |-> buf[b].blockno]
           ii == [b |-> b, status |-> 255]
<1>7. /\ desc' = [desc EXCEPT ![i] = di, ![j] = dj, ![k] = dk]
      /\ ops' = [ops EXCEPT ![i] = oi] /\ info' = [info EXCEPT ![i] = ii]
      /\ avail' = [ring |-> [avail.ring EXCEPT ![avail.idx % NUM] = i], idx |-> (avail.idx + 1) % IdxRange]
      /\ buf' = [buf EXCEPT ![b].disk = TRUE]
      /\ pr' = [pr EXCEPT ![p].pc = "io", ![p].head = i, ![p].chan = <<"disk", b>>]
      /\ UNCHANGED <<lru, used, used_idx, disk, taken, inflight, latest, count>>
  BY <1>5, <1>6, Zenon DEF Submit
<1>8. pr[p].pc \in Owning /\ pr[p].pc # "idle" /\ ~Requesting(p)
  BY <1>3 DEF Owning, Requesting
<1>9. /\ b \in Bufs /\ buf[b] \in Buffer /\ buf[b].locked = p /\ PlaceOf(p) /\ DataOf(b)
      /\ (\A q \in Procs : buf[b].locked = q => q = p) /\ buf[b].blockno \in BlockNos
  BY <1>5, <1>8, OwnerKnows, Zenon
<1>10. /\ buf \in [Bufs -> Buffer] /\ pr \in [Procs -> Process] /\ desc \in [Descs -> Descriptor]
       /\ ops \in [Descs -> [write : BOOLEAN, blockno : Nat]]
       /\ info \in [Descs -> [b : 0 .. NBUF, status : Nat]]
       /\ avail \in Ring /\ taken \in 0 .. IdxRange - 1
  BY <1>1, Zenon DEF CacheTypes, DriverTypes
\* The process.
<1>11. /\ pr' \in [Procs -> Process] /\ pr'[p].pc = "io" /\ pr'[p].head = i /\ pr'[p].b = b
       /\ pr'[p].write = pr[p].write /\ \A q \in Procs : q # p => pr'[q] = pr[q]
  <2> DEFINE r == [pr[p] EXCEPT !.pc = "io", !.head = i, !.chan = <<"disk", b>>]
  <2>1. pr[p] \in Process
    BY <1>10, Zenon
  <2>2. <<"disk", b>> \in Channel /\ "io" \in Owning \cup {"idle", "lock", "unref"}
    BY <1>9, SizesAssumption DEF Bufs, Channel, Owning
  <2>3. r \in Process
    BY <1>4, <2>1, <2>2, Zenon DEF Process
  <2>4. r.pc = "io" /\ r.head = i /\ r.b = pr[p].b
    BY <2>1 DEF Process
  <2>5. r.write = pr[p].write
    BY <2>1, Zenon DEF Process
  <2>6. pr' = [pr EXCEPT ![p] = r]
    <3>1. PICK u : u = [pr[p] EXCEPT !.pc = "io"]
      BY Zenon
    <3>2. PICK v : v = [u EXCEPT !.head = i]
      BY Zenon
    <3>3. PICK s : s = [pr EXCEPT ![p] = u]
      BY Zenon
    <3>4. s[p] = u /\ \A w : [s EXCEPT ![p] = w] = [pr EXCEPT ![p] = w]
      BY <1>10, <3>3, Twice
    <3>5. PICK t : t = [pr EXCEPT ![p] = v]
      BY Zenon
    <3>6. t[p] = v /\ \A w : [t EXCEPT ![p] = w] = [pr EXCEPT ![p] = w]
      BY <1>10, <3>5, Twice
    <3>7. [s EXCEPT ![p].head = i] = t
      BY <3>2, <3>4, <3>5, Zenon
    <3>8. pr' = [t EXCEPT ![p].chan = <<"disk", b>>]
      BY <1>7, <3>1, <3>3, <3>7, Zenon
    <3>9. r = [v EXCEPT !.chan = <<"disk", b>>]
      BY <3>1, <3>2, Zenon
    <3> QED  BY <3>6, <3>8, <3>9, Zenon
  <2> HIDE DEF r
  <2>7. pr' \in [Procs -> Process] /\ pr'[p] = r /\ \A q \in Procs : q # p => pr'[q] = pr[q]
    BY <1>10, <2>3, <2>6, Zenon
  <2> QED  BY <1>5, <2>4, <2>5, <2>7, Zenon DEF B
<1>12. \A q \in Procs : q # p => Same(q)
  BY <1>11, Zenon DEF Same
\* The buffer.
<1> DEFINE c == [buf[b] EXCEPT !.disk = TRUE]
<1>13. buf' = [buf EXCEPT ![b] = c]
  BY <1>7, <1>10, Zenon
<1>14. /\ c \in Buffer /\ c.blockno = buf[b].blockno /\ c.refcnt = buf[b].refcnt
       /\ c.locked = p /\ c.data = buf[b].data
  <2>1. c \in Buffer
    BY <1>9, Zenon DEF Buffer
  <2> QED  BY <1>9, <2>1 DEF Buffer
<1>15. c.valid = buf[b].valid /\ c.pinned = buf[b].pinned /\ c.disk = TRUE
  BY <1>9, Zenon DEF Buffer
<1> HIDE DEF c
<1>16. /\ buf' \in [Bufs -> Buffer] /\ buf'[b] = c
       /\ \A a \in Bufs : a # b => buf'[a] = buf[a]
  BY <1>9, <1>10, <1>13, <1>14, Zenon
<1>17. ASSUME NEW a \in Bufs
       PROVE  /\ buf'[a].blockno = buf[a].blockno
              /\ buf'[a].refcnt = buf[a].refcnt /\ buf'[a].pinned = buf[a].pinned
  <2>1. CASE a = b
    BY <1>14, <1>15, <1>16, <2>1, Zenon
  <2>2. CASE a # b
    BY <1>16, <2>2, Zenon
  <2> QED  BY <2>1, <2>2, Zenon
<1>18. LockOK' /\ PlaceOK' /\ OneBuffer' /\ DataOK'
  <2>1. PlaceOf(p)'
    <3>1. /\ pr'[p].pc \notin {"lock", "have"} /\ pr'[p].pc \notin {"have", "written", "rel"}
          /\ pr'[p].pc # "written"
      BY <1>11
    <3>2. pr[p].write = buf[b].valid
      <4>1. pr[p].pc \in {"rw", "io"}
        BY <1>3
      <4> QED  BY <1>5, <1>9, <4>1, Zenon DEF PlaceOf
    <3>3. pr'[p].write = buf'[pr'[p].b].valid
      BY <1>11, <1>15, <1>16, <3>2, Zenon
    <3> QED  BY <3>1, <3>3, Zenon DEF PlaceOf, B
  <2>2. DataOf(b)'
    <3>1. Writing(b) => Writing(b)'
      <4>1. SUFFICES ASSUME NEW q \in Procs, pr[q].pc \in {"rw", "io"}, pr[q].write, B(q) = b PROVE Writing(b)'
        BY Zenon DEF Writing
      <4>2. pr'[q].pc \in {"rw", "io"}
        BY <1>11, <4>1
      <4>3. pr'[q].write /\ pr'[q].b = b
        BY <1>11, <4>1, Zenon DEF B
      <4> QED  BY <4>2, <4>3, Zenon DEF Writing, B
    <3>2. /\ buf'[b].valid = buf[b].valid /\ buf'[b].data = buf[b].data /\ buf'[b].pinned = buf[b].pinned
          /\ latest'[buf'[b].blockno] = latest[buf[b].blockno]
          /\ disk'[buf'[b].blockno] = disk[buf[b].blockno]
      BY <1>7, <1>14, <1>15, <1>16, Zenon
    <3> QED  BY <1>9, <3>1, <3>2, Zenon DEF DataOf
  <2>3. /\ buf'[b].blockno = buf[b].blockno
        /\ \A m \in BlockNos : m # buf[b].blockno => disk'[m] = disk[m] /\ latest'[m] = latest[m]
    BY <1>7, <1>9, <1>17, Zenon
  <2>4. /\ pr[p].pc # "idle" => B(p) = b
        /\ pr'[p].pc # "idle" => pr'[p].b = b
        /\ pr'[p].pc \in Owning => buf'[b].locked = p
    BY <1>5, <1>11, <1>14, <1>16, Zenon
  <2>5. pr'[p].pc \in Owning
    BY <1>11 DEF Owning
  <2> QED  BY <1>1, <1>9, <1>12, <1>16, <2>1, <2>2, <2>3, <2>4, <2>5, LocalStep, Zenon
<1>19. CacheTypes' /\ CountOK'
  <2>1. CacheTypes'
    BY <1>1, <1>7, <1>11, <1>16, Zenon DEF CacheTypes
  <2>2. \A q \in Procs : pr'[q].b = pr[q].b /\ (pr'[q].pc # "idle" <=> pr[q].pc # "idle")
    BY <1>3, <1>5, <1>11, Zenon DEF B
  <2>3. \A a \in Bufs : buf[a].refcnt \in Nat
    BY <1>10 DEF Buffer
  <2>4. \A a \in Bufs : /\ buf[a].refcnt \in Nat
                        /\ \/ buf'[a].refcnt = buf[a].refcnt /\ buf'[a].pinned = buf[a].pinned
                           \/ buf'[a].refcnt = buf[a].refcnt + 1 /\ ~buf[a].pinned /\ buf'[a].pinned
                           \/ buf'[a].refcnt = buf[a].refcnt - 1 /\ buf[a].pinned /\ ~buf'[a].pinned
    BY <1>17, <2>3, Zenon
  <2> QED  BY <1>1, <2>1, <2>2, <2>4, CountKept, Zenon
\* The driver.
<1>20. /\ desc' \in [Descs -> Descriptor] /\ desc'[i] = di /\ desc'[j] = dj /\ desc'[k] = dk
       /\ \A m \in Descs : m \notin {i, j, k} => desc'[m] = desc[m]
  <2>1. FALSE \in BOOLEAN /\ TRUE \in BOOLEAN /\ 0 \in Descs /\ 0 \in 0 .. NBUF /\ b \in 0 .. NBUF
    BY <1>9, SizesAssumption DEF Descs, Bufs
  <2>2. di \in Descriptor /\ dj \in Descriptor /\ dk \in Descriptor
    BY <1>4, <2>1, Zenon DEF Descriptor
  <2> HIDE DEF di, dj, dk
  <2>3. PICK s : s = [desc EXCEPT ![i] = di]
    BY Zenon
  <2>4. PICK t : t = [s EXCEPT ![j] = dj]
    BY Zenon
  <2>5. desc' = [t EXCEPT ![k] = dk]
    BY <1>7, <2>3, <2>4, Zenon
  <2>6. s \in [Descs -> Descriptor] /\ s[i] = di /\ \A m \in Descs : m # i => s[m] = desc[m]
    BY <1>4, <1>10, <2>2, <2>3, Zenon
  <2>7. t \in [Descs -> Descriptor] /\ t[j] = dj /\ \A m \in Descs : m # j => t[m] = s[m]
    BY <1>4, <2>2, <2>4, <2>6, Zenon
  <2>8. desc' \in [Descs -> Descriptor] /\ desc'[k] = dk /\ \A m \in Descs : m # k => desc'[m] = t[m]
    BY <1>4, <2>2, <2>5, <2>7, Zenon
  <2> QED  BY <1>4, <2>6, <2>7, <2>8, Zenon
<1>21. di.next = j /\ dj.next = k /\ dj.buf = b /\ oi.blockno = buf[b].blockno /\ ii.b = b
  OBVIOUS
<1>22. di.free = FALSE /\ dj.free = FALSE /\ dk.free = FALSE /\ oi.write = pr[p].write
  BY Zenon
<1>23. /\ ops' \in [Descs -> [write : BOOLEAN, blockno : Nat]] /\ ops'[i] = oi
       /\ \A m \in Descs : m # i => ops'[m] = ops[m]
  <2>1. pr[p].write \in BOOLEAN
    BY <1>10 DEF Process
  <2>2. oi \in [write : BOOLEAN, blockno : Nat]
    BY <1>9, <2>1, BlocksAssumption, Zenon
  <2> HIDE DEF oi
  <2> QED  BY <1>4, <1>7, <1>10, <2>2, Zenon
<1>24. /\ info' \in [Descs -> [b : 0 .. NBUF, status : Nat]] /\ info'[i] = ii
       /\ \A m \in Descs : m # i => info'[m] = info[m]
  <2>1. ii \in [b : 0 .. NBUF, status : Nat]
    BY <1>9, SizesAssumption DEF Bufs
  <2> HIDE DEF ii
  <2> QED  BY <1>4, <1>7, <1>10, <2>1, Zenon
<1> HIDE DEF di, dj, dk, oi, ii
<1>25. avail.ring \in [Descs -> Descs \cup {None}] /\ avail.idx \in 0 .. IdxRange - 1
  BY <1>10 DEF Ring
<1>26. avail' \in Ring /\ avail'.ring = [avail.ring EXCEPT ![avail.idx % NUM] = i] /\ avail'.idx = (avail.idx + 1) % IdxRange
  <2> DEFINE r == [avail.ring EXCEPT ![avail.idx % NUM] = i]
             x == (avail.idx + 1) % IdxRange
  <2>1. r \in [Descs -> Descs \cup {None}]
    BY <1>4, <1>25, Zenon
  <2>2. x \in 0 .. IdxRange - 1
    BY <1>25, Advances, Zenon
  <2>3. avail' = [ring |-> r, idx |-> x]
    BY <1>7, Zenon
  <2> HIDE DEF r, x
  <2>4. avail' \in Ring /\ avail'.ring = r /\ avail'.idx = x
    BY <2>1, <2>2, <2>3 DEF Ring
  <2> QED  BY <2>4, Zenon DEF r, x
<1>27. DriverTypes'
  BY <1>1, <1>7, <1>20, <1>23, <1>24, <1>26, Zenon DEF DriverTypes
\* The other requests use other descriptors.
<1> DEFINE T == {i, j, k}
<1>28. ASSUME NEW q \in Procs, Requesting(q) PROVE Chain(pr[q].head) \cap T = {}
  <2>1. \A m \in Chain(pr[q].head) : m \in Descs
    BY <1>1, ChainType, Zenon
  <2>2. \A m \in Chain(pr[q].head) : ~desc[m].free
    BY <1>1, <1>28, <2>1, Zenon DEF ChainsOK
  <2>3. \A m \in T : desc[m].free
    BY <1>4, Zenon
  <2> QED  BY <2>2, <2>3, Zenon
<1>29. \A m \in Descs : m \notin T => desc'[m] = desc[m] /\ ops'[m] = ops[m] /\ info'[m] = info[m]
  BY <1>20, <1>23, <1>24, Zenon
<1>30. Chain(pr[p].head)' = T /\ Requesting(p)' /\ RequestOK(p)'
  <2>1. desc'[i].next = j /\ desc'[j].next = k /\ desc'[j].buf = b
    BY <1>20, <1>21, Zenon
  <2>2. ops'[i].write = pr[p].write /\ ops'[i].blockno = buf[b].blockno /\ info'[i].b = b
    BY <1>21, <1>22, <1>23, <1>24, Zenon
  <2>3. Chain(pr[p].head)' = T
    BY <1>11, <2>1, Zenon DEF Chain
  <2>4. Requesting(p)'
    BY <1>11, Zenon DEF Requesting
  <2>5. RequestOK(p)'
    BY <1>9, <1>11, <1>17, <2>1, <2>2, Zenon DEF RequestOK, B
  <2> QED  BY <2>3, <2>4, <2>5, Zenon
<1> HIDE DEF T
<1>31. \A q \in Procs : q # p
         => /\ Requesting(q)' <=> Requesting(q)
            /\ pr'[q].head = pr[q].head /\ pr'[q].b = B(q)
            /\ Requesting(q) => RequestOK(q)' /\ Chain(pr[q].head)' = Chain(pr[q].head)
  BY <1>1, <1>12, <1>17, <1>28, <1>29, OthersKept, Zenon
<1>32. ChainsOK'
  <2>1. ASSUME NEW q \in Procs, Requesting(q)' PROVE RequestOK(q)'
    BY <1>30, <1>31, <2>1, Zenon
  <2>2. ASSUME NEW q \in Procs, Requesting(q)', q # p
        PROVE  Requesting(q) /\ Chain(pr[q].head)' = Chain(pr[q].head) /\ Chain(pr[q].head)' \cap T = {}
    BY <1>28, <1>31, <2>2, Zenon
  <2>3. ASSUME NEW q \in Procs, NEW s \in Procs, NEW m \in Descs, Requesting(q)', Requesting(s)',
               m \in Chain(pr[q].head)', m \in Chain(pr[s].head)'
        PROVE  q = s
    <3>1. CASE q = p \/ s = p
      BY <1>30, <2>2, <2>3, <3>1, Zenon
    <3>2. CASE q # p /\ s # p
      <4>1. Requesting(q) /\ Requesting(s) /\ m \in Chain(pr[q].head) /\ m \in Chain(pr[s].head)
        BY <2>2, <2>3, <3>2, Zenon
      <4> QED  BY <1>1, <4>1, Zenon DEF ChainsOK
    <3> QED  BY <3>1, <3>2, Zenon
  <2>4. ASSUME NEW m \in Descs
        PROVE  ~desc'[m].free <=> \E q \in Procs : Requesting(q)' /\ m \in Chain(pr[q].head)'
    <3>1. CASE m \in T
      <4>1. desc'[m].free = FALSE
        BY <1>20, <1>22, <3>1, Zenon DEF T
      <4> QED  BY <1>30, <3>1, <4>1, Zenon
    <3>2. CASE m \notin T
      <4>1. ~desc[m].free <=> \E q \in Procs : Requesting(q) /\ m \in Chain(pr[q].head)
        BY <1>1, Zenon DEF ChainsOK
      <4>2. \A q \in Procs : Requesting(q)' /\ m \in Chain(pr[q].head)' <=> Requesting(q) /\ m \in Chain(pr[q].head)
        BY <1>8, <1>30, <1>31, <3>2, Zenon
      <4>3. desc'[m] = desc[m]
        BY <1>29, <3>2, Zenon
      <4> QED  BY <4>1, <4>2, <4>3, Zenon
    <3> QED  BY <3>1, <3>2, Zenon
  <2> QED  BY <2>1, <2>3, <2>4, Zenon DEF ChainsOK
\* The request waits for the device.
<1> DEFINE R == Q \cup {i}
<1>33. /\ RingOK(avail.ring, taken, avail.idx, Q) /\ RingOK(used.ring, used_idx, used.idx, D)
       /\ Q \cap inflight = {} /\ Q \cap D = {} /\ inflight \cap D = {}
       /\ Q \subseteq Descs /\ D \subseteq Descs
  BY <1>2, Zenon DEF StagesOK
<1>34. i \notin Q \cup inflight \cup D
  <2> SUFFICES ASSUME i \in Q \cup inflight \cup D PROVE FALSE
    BY Zenon
  <2>1. PICK q \in Procs : Requesting(q) /\ pr[q].head = i
    BY <1>2, Zenon DEF StagesOK
  <2> QED  BY <1>1, <1>4, <2>1, Heads, Zenon
<1>35. RingOK(avail'.ring, taken', avail'.idx, R) /\ RingOK(used'.ring, used_idx', used'.idx, D)
  <2>1. i \notin Q /\ Q \in SUBSET Descs
    BY <1>33, <1>34, Zenon
  <2>2. RingOK([avail.ring EXCEPT ![avail.idx % NUM] = i], taken, (avail.idx + 1) % IdxRange, Q \cup {i})
    BY <1>4, <1>10, <1>25, <1>33, <2>1, RingPut, Zenon
  <2> QED  BY <1>7, <1>26, <1>33, <2>2, Zenon
<1>36. /\ R \cap inflight' = {} /\ R \cap D = {} /\ inflight' \cap D = {} /\ R \subseteq Descs /\ D \subseteq Descs
  BY <1>4, <1>7, <1>33, <1>34
<1>37. /\ \A h : h # i => (h \in R \cup inflight' \cup D <=> h \in Q \cup inflight \cup D)
       /\ \A h : h \notin R \cup inflight' => h \notin Q \cup inflight
       /\ i \in R \cup inflight' \cup D /\ i \in R \cup inflight'
  BY <1>7
<1> HIDE DEF R
<1>38. ASSUME NEW q \in Procs, Requesting(q)', q # p
       PROVE  /\ Requesting(q) /\ pr'[q].head = pr[q].head /\ pr'[q].b = B(q) /\ pr[q].head # i
              /\ B(q) \in Bufs /\ buf'[B(q)] = buf[B(q)]
  <2>1. Requesting(q) /\ pr'[q].head = pr[q].head /\ pr'[q].b = B(q)
    BY <1>31, <1>38, Zenon
  <2>2. pr[q].head # i /\ B(q) \in Bufs /\ pr[q].pc \in Owning
    BY <1>1, <1>4, <2>1, Heads, RequestingBuffer, Zenon
  <2>3. B(q) # b
    BY <1>1, <1>5, <1>8, <1>38, <2>2, OwnerAlone, Zenon
  <2> QED  BY <1>16, <2>1, <2>2, <2>3, Zenon
<1>39. StagesOK(R, D)'
  <2>1. ASSUME NEW q \in Procs, Requesting(q)'
        PROVE  buf'[pr'[q].b].disk <=> pr'[q].head \in R \cup inflight' \cup D
    <3>1. CASE q = p
      BY <1>11, <1>15, <1>16, <1>37, <3>1, Zenon
    <3>2. CASE q # p
      <4>1. /\ Requesting(q) /\ pr'[q].head = pr[q].head /\ pr'[q].b = B(q) /\ pr[q].head # i
            /\ buf'[B(q)] = buf[B(q)]
        BY <1>38, <2>1, <3>2, Zenon
      <4>2. buf[B(q)].disk <=> pr[q].head \in Q \cup inflight \cup D
        BY <1>2, <4>1, Zenon DEF StagesOK
      <4> QED  BY <1>37, <4>1, <4>2, Zenon
    <3> QED  BY <3>1, <3>2, Zenon
  <2>2. ASSUME NEW h \in R \cup inflight' \cup D PROVE \E q \in Procs : Requesting(q)' /\ pr'[q].head = h
    <3>1. CASE h = i
      BY <1>11, <1>30, <3>1, Zenon
    <3>2. CASE h # i
      <4>1. PICK q \in Procs : Requesting(q) /\ pr[q].head = h
        BY <1>2, <1>37, <2>2, <3>2, Zenon DEF StagesOK
      <4> QED  BY <1>8, <1>31, <4>1, Zenon
    <3> QED  BY <3>1, <3>2, Zenon
  <2>3. ASSUME NEW a \in Bufs, buf'[a].disk PROVE \E q \in Procs : Requesting(q)' /\ pr'[q].b = a
    <3>1. CASE a = b
      BY <1>11, <1>30, <3>1, Zenon
    <3>2. CASE a # b
      <4>1. buf[a].disk
        BY <1>16, <2>3, <3>2, Zenon
      <4>2. PICK q \in Procs : Requesting(q) /\ B(q) = a
        BY <1>2, <4>1, Zenon DEF StagesOK
      <4> QED  BY <1>8, <1>31, <4>2, Zenon
    <3> QED  BY <3>1, <3>2, Zenon
  <2>4. ASSUME NEW h \in D PROVE info'[h].status = 0
    <3>1. h # i /\ h \in Descs /\ info[h].status = 0
      BY <1>2, <1>33, <1>34, Zenon DEF StagesOK
    <3> QED  BY <1>24, <3>1, Zenon
  <2>5. ASSUME NEW q \in Procs, Requesting(q)', pr'[q].head \notin R \cup inflight'
        PROVE  /\ buf'[pr'[q].b].data = latest'[buf'[pr'[q].b].blockno]
               /\ disk'[buf'[pr'[q].b].blockno] = latest'[buf'[pr'[q].b].blockno]
    <3>1. q # p
      BY <1>11, <1>37, <2>5, Zenon
    <3>2. /\ Requesting(q) /\ pr'[q].head = pr[q].head /\ pr'[q].b = B(q) /\ buf'[B(q)] = buf[B(q)]
      BY <1>38, <2>5, <3>1, Zenon
    <3>3. pr[q].head \notin Q \cup inflight
      BY <1>37, <2>5, <3>2, Zenon
    <3>4. /\ buf[B(q)].data = latest[buf[B(q)].blockno] /\ disk[buf[B(q)].blockno] = latest[buf[B(q)].blockno]
      BY <1>2, <3>2, <3>3, Zenon DEF StagesOK
    <3> QED  BY <1>7, <3>2, <3>4, Zenon
  <2> QED  BY <1>35, <1>36, <2>1, <2>2, <2>3, <2>4, <2>5, Zenon DEF StagesOK, B
<1> QED  BY <1>18, <1>19, <1>27, <1>32, <1>39, Zenon DEF BInv, CacheInv

\* virtio_disk_rw() ends: the handler has seen the request.
LEMMA FinishInv ==
  ASSUME BInv, NEW p \in Procs, Complete(p), ~buf[B(p)].disk
  PROVE  BInv'
<1>1. CacheInv /\ CacheTypes /\ CountOK /\ LockOK /\ OneBuffer /\ DriverTypes /\ ChainsOK
  BY Zenon DEF BInv, CacheInv
<1>2. PICK Q, D : StagesOK(Q, D)
  BY Zenon DEF BInv
<1>3. pr[p].pc = "io" /\ Requesting(p)
  BY Zenon DEF Complete, At, Requesting
<1>4. PICK b : b = B(p)
  BY Zenon
<1>5. PICK h : h = pr[p].head
  BY Zenon
<1> DEFINE x == IF pr[p].write THEN "written" ELSE "have"
           s == wakeup(pr, <<"desc", 0>>)
<1>6. /\ info' = [info EXCEPT ![h] = NoInfo] /\ ops' = [ops EXCEPT ![h] = NoOp]
      /\ desc' = [i \in Descs |-> IF i \in Chain(h) THEN NoDesc ELSE desc[i]]
      /\ buf' = [buf EXCEPT ![b].valid = TRUE]
      /\ pr' = [s EXCEPT ![p].pc = x, ![p].head = 0]
      /\ UNCHANGED <<lru, avail, used, used_idx, disk, taken, inflight, latest, count>>
  <2>1. free_chain(pr[p].head) = Chain(h)
    BY <1>5, Zenon DEF free_chain, Chain
  <2> QED  BY <1>4, <1>5, <2>1, ZenonT(40) DEF Complete
<1>7. pr[p].pc \in Owning /\ pr[p].pc # "idle"
  BY <1>3 DEF Owning
<1>8. /\ b \in Bufs /\ buf[b] \in Buffer /\ buf[b].locked = p /\ PlaceOf(p)
      /\ (\A q \in Procs : buf[b].locked = q => q = p) /\ buf[b].blockno \in BlockNos
  BY <1>4, <1>7, OwnerKnows, Zenon
<1>9. /\ buf \in [Bufs -> Buffer] /\ pr \in [Procs -> Process] /\ desc \in [Descs -> Descriptor]
      /\ ops \in [Descs -> [write : BOOLEAN, blockno : Nat]]
      /\ info \in [Descs -> [b : 0 .. NBUF, status : Nat]]
  BY <1>1, Zenon DEF CacheTypes, DriverTypes
<1>10. h \in Descs /\ RequestOK(p) /\ \A q \in Procs : Requesting(q) /\ pr[q].head = h => q = p
  BY <1>1, <1>3, <1>5, Heads, Zenon
\* The request has left every stage, with the last contents.
<1>11. /\ h \notin Q \cup inflight \cup D
       /\ buf[b].data = latest[buf[b].blockno] /\ disk[buf[b].blockno] = latest[buf[b].blockno]
  <2>1. h \notin Q \cup inflight \cup D
    BY <1>2, <1>3, <1>5, Zenon DEF StagesOK
  <2>2. h \notin Q \cup inflight
    BY <2>1, Zenon
  <2> QED  BY <1>2, <1>3, <1>4, <1>5, <2>1, <2>2, Zenon DEF StagesOK
\* The process.
<1>12. /\ s \in [Procs -> Process]
       /\ \A q \in Procs : /\ s[q].pc = pr[q].pc /\ s[q].b = pr[q].b
                           /\ s[q].write = pr[q].write /\ s[q].head = pr[q].head
  BY <1>9, WakeupKeeps
<1>13. x \in {"have", "written"} /\ (pr[p].write => x = "written") /\ (~pr[p].write => x = "have")
  OBVIOUS
<1> HIDE DEF s, x
<1>14. x \in Owning \cup {"idle", "lock", "unref"} /\ x \in Owning /\ x # "idle" /\ x # "io" /\ 0 \in Descs
  BY <1>13, SizesAssumption DEF Owning, Descs
<1>15. /\ pr' \in [Procs -> Process] /\ pr'[p].pc = x /\ pr'[p].b = b /\ pr'[p].write = pr[p].write
       /\ \A q \in Procs : q # p => pr'[q] = s[q]
  <2> DEFINE r == [s[p] EXCEPT !.pc = x, !.head = 0]
  <2>1. s[p] \in Process
    BY <1>12, Zenon
  <2>2. r \in Process
    BY <1>14, <2>1, Zenon DEF Process
  <2>3. r.pc = x /\ r.b = s[p].b
    BY <2>1 DEF Process
  <2>4. r.write = s[p].write
    BY <2>1, Zenon DEF Process
  <2>5. pr' = [s EXCEPT ![p] = r]
    <3>1. PICK u : u = [s[p] EXCEPT !.pc = x]
      BY Zenon
    <3>2. PICK t : t = [s EXCEPT ![p] = u]
      BY Zenon
    <3>3. t[p] = u /\ \A w : [t EXCEPT ![p] = w] = [s EXCEPT ![p] = w]
      BY <1>12, <3>2, Twice
    <3>4. pr' = [t EXCEPT ![p].head = 0]
      BY <1>6, <3>1, <3>2, Zenon
    <3>5. r = [u EXCEPT !.head = 0]
      BY <3>1, Zenon
    <3> QED  BY <3>3, <3>4, <3>5, Zenon
  <2> HIDE DEF r
  <2>6. pr' \in [Procs -> Process] /\ pr'[p] = r /\ \A q \in Procs : q # p => pr'[q] = s[q]
    BY <1>12, <2>2, <2>5, Zenon
  <2> QED  BY <1>4, <1>12, <2>3, <2>4, <2>6, Zenon DEF B
<1>16. \A q \in Procs : q # p => Same(q)
  BY <1>12, <1>15, Zenon DEF Same
\* The buffer.
<1> DEFINE c == [buf[b] EXCEPT !.valid = TRUE]
<1>17. buf' = [buf EXCEPT ![b] = c]
  BY <1>6, <1>9, Zenon
<1>18. /\ c \in Buffer /\ c.blockno = buf[b].blockno /\ c.refcnt = buf[b].refcnt
       /\ c.locked = p /\ c.data = buf[b].data
  <2>1. c \in Buffer
    BY <1>8, Zenon DEF Buffer
  <2> QED  BY <1>8, <2>1 DEF Buffer
<1>19. c.valid = TRUE /\ c.pinned = buf[b].pinned /\ c.disk = buf[b].disk
  BY <1>8, Zenon DEF Buffer
<1> HIDE DEF c
<1>20. /\ buf' \in [Bufs -> Buffer] /\ buf'[b] = c
       /\ \A a \in Bufs : a # b => buf'[a] = buf[a]
  BY <1>8, <1>9, <1>17, <1>18, Zenon
<1>21. ASSUME NEW a \in Bufs
       PROVE  /\ buf'[a].blockno = buf[a].blockno /\ buf'[a].disk = buf[a].disk
              /\ buf'[a].refcnt = buf[a].refcnt /\ buf'[a].pinned = buf[a].pinned
              /\ buf'[a].data = buf[a].data
  <2>1. CASE a = b
    BY <1>18, <1>19, <1>20, <2>1, Zenon
  <2>2. CASE a # b
    BY <1>20, <2>2, Zenon
  <2> QED  BY <2>1, <2>2, Zenon
<1>22. LockOK' /\ PlaceOK' /\ OneBuffer' /\ DataOK'
  <2>1. buf'[b].valid /\ disk'[buf'[b].blockno] = latest'[buf'[b].blockno] /\ buf'[b].data = latest'[buf'[b].blockno]
    BY <1>6, <1>11, <1>18, <1>19, <1>20, Zenon
  <2>2. PlaceOf(p)'
    <3>1. pr'[p].pc \notin {"rw", "io"}
      BY <1>13, <1>15
    <3>2. pr'[p].pc \in {"lock", "have"} => ~pr'[p].write
      <4>1. pr'[p].pc \in {"lock", "have"} => x # "written"
        BY <1>15
      <4> QED  BY <1>13, <1>15, <4>1, Zenon
    <3> QED  BY <1>15, <2>1, <3>1, <3>2, Zenon DEF PlaceOf, B
  <2>3. DataOf(b)'
    BY <2>1, Zenon DEF DataOf
  <2>4. /\ buf'[b].blockno = buf[b].blockno
        /\ \A m \in BlockNos : m # buf[b].blockno => disk'[m] = disk[m] /\ latest'[m] = latest[m]
    BY <1>6, <1>8, <1>21, Zenon
  <2>5. /\ pr[p].pc # "idle" => B(p) = b
        /\ pr'[p].pc # "idle" => pr'[p].b = b
        /\ pr'[p].pc \in Owning => buf'[b].locked = p
    BY <1>4, <1>15, <1>18, <1>20, Zenon
  <2>6. pr'[p].pc \in Owning
    BY <1>14, <1>15, Zenon
  <2> QED  BY <1>1, <1>8, <1>16, <1>20, <2>2, <2>3, <2>4, <2>5, <2>6, LocalStep, Zenon
<1>23. CacheTypes' /\ CountOK'
  <2>1. CacheTypes'
    BY <1>1, <1>6, <1>15, <1>20, Zenon DEF CacheTypes
  <2>2. \A q \in Procs : pr'[q].b = pr[q].b /\ (pr'[q].pc # "idle" <=> pr[q].pc # "idle")
    BY <1>4, <1>7, <1>12, <1>14, <1>15, Zenon DEF B
  <2>3. \A a \in Bufs : buf[a].refcnt \in Nat
    BY <1>9 DEF Buffer
  <2>4. \A a \in Bufs : /\ buf[a].refcnt \in Nat
                        /\ \/ buf'[a].refcnt = buf[a].refcnt /\ buf'[a].pinned = buf[a].pinned
                           \/ buf'[a].refcnt = buf[a].refcnt + 1 /\ ~buf[a].pinned /\ buf'[a].pinned
                           \/ buf'[a].refcnt = buf[a].refcnt - 1 /\ buf[a].pinned /\ ~buf'[a].pinned
    BY <1>21, <2>3, Zenon
  <2> QED  BY <1>1, <2>1, <2>2, <2>4, CountKept, Zenon
\* The driver.
<1> DEFINE T == Chain(h)
<1>24. T \subseteq Descs /\ h \in T
  BY <1>1, <1>5, ChainType, Zenon
<1>25. \A m \in Descs : (m \in T => desc'[m] = NoDesc) /\ (m \notin T => desc'[m] = desc[m])
  BY <1>6, Zenon
<1>26. DriverTypes'
  <2>1. 0 \in Descs /\ 0 \in 0 .. NBUF /\ 0 \in Nat /\ TRUE \in BOOLEAN /\ FALSE \in BOOLEAN
    BY SizesAssumption DEF Descs
  <2>2. NoDesc \in Descriptor
    BY <2>1, Zenon DEF NoDesc, Descriptor
  <2>3. NoInfo \in [b : 0 .. NBUF, status : Nat] /\ NoOp \in [write : BOOLEAN, blockno : Nat]
    BY <2>1, Zenon DEF NoInfo, NoOp
  <2>4. desc' \in [Descs -> Descriptor]
    BY <1>6, <1>9, <2>2, Zenon
  <2>5. /\ info' \in [Descs -> [b : 0 .. NBUF, status : Nat]]
        /\ ops' \in [Descs -> [write : BOOLEAN, blockno : Nat]]
    BY <1>6, <1>9, <1>10, <2>3, Zenon
  <2> QED  BY <1>1, <1>6, <2>4, <2>5, Zenon DEF DriverTypes
<1>27. \A m \in Descs : m # h => ops'[m] = ops[m] /\ info'[m] = info[m]
  BY <1>6, <1>9, Zenon
<1>28. ASSUME NEW q \in Procs, q # p, Requesting(q) PROVE Chain(pr[q].head) \cap T = {}
  <2> SUFFICES ASSUME NEW m, m \in Chain(pr[q].head), m \in T PROVE FALSE
    BY Zenon
  <2>1. m \in Descs
    BY <1>24, Zenon
  <2> QED  BY <1>1, <1>3, <1>5, <1>28, <2>1, Zenon DEF ChainsOK
<1>29. \A m \in Descs : m \notin T => desc'[m] = desc[m] /\ ops'[m] = ops[m] /\ info'[m] = info[m]
  BY <1>24, <1>25, <1>27, Zenon
<1> HIDE DEF T
<1>30. \A q \in Procs : q # p
         => /\ Requesting(q)' <=> Requesting(q)
            /\ pr'[q].head = pr[q].head /\ pr'[q].b = B(q)
            /\ Requesting(q) => RequestOK(q)' /\ Chain(pr[q].head)' = Chain(pr[q].head)
  BY <1>1, <1>16, <1>21, <1>28, <1>29, OthersKept, Zenon
<1>31. ~Requesting(p)'
  BY <1>14, <1>15, Zenon DEF Requesting
<1>32. ASSUME NEW q \in Procs, Requesting(q)'
       PROVE  /\ q # p /\ Requesting(q) /\ pr'[q].head = pr[q].head /\ pr'[q].b = B(q)
              /\ RequestOK(q)' /\ Chain(pr[q].head)' = Chain(pr[q].head)
              /\ pr[q].head # h /\ B(q) \in Bufs
  <2>1. q # p
    BY <1>31, <1>32, Zenon
  <2>2. Requesting(q)
    BY <1>30, <1>32, <2>1, Zenon
  <2>3. B(q) \in Bufs /\ pr[q].head # h
    BY <1>1, <1>10, <2>1, <2>2, RequestingBuffer, Zenon
  <2> QED  BY <1>30, <2>1, <2>2, <2>3, Zenon
<1>33. ChainsOK'
  <2>1. ASSUME NEW q \in Procs, NEW u \in Procs, NEW m \in Descs, Requesting(q)', Requesting(u)',
               m \in Chain(pr[q].head)', m \in Chain(pr[u].head)'
        PROVE  q = u
    <3>1. Requesting(q) /\ Requesting(u) /\ m \in Chain(pr[q].head) /\ m \in Chain(pr[u].head)
      BY <1>32, <2>1, Zenon
    <3> QED  BY <1>1, <3>1, Zenon DEF ChainsOK
  <2>2. ASSUME NEW m \in Descs
        PROVE  ~desc'[m].free <=> \E q \in Procs : Requesting(q)' /\ m \in Chain(pr[q].head)'
    <3>1. CASE m \in T
      <4>1. desc'[m].free = TRUE
        <5>1. NoDesc.free = TRUE
          BY Zenon DEF NoDesc
        <5> QED  BY <1>25, <3>1, <5>1, Zenon
      <4>2. \A q \in Procs : Requesting(q)' => m \notin Chain(pr[q].head)'
        BY <1>28, <1>32, <3>1, Zenon
      <4> QED  BY <4>1, <4>2, Zenon
    <3>2. CASE m \notin T
      <4>1. ~desc[m].free <=> \E q \in Procs : Requesting(q) /\ m \in Chain(pr[q].head)
        BY <1>1, Zenon DEF ChainsOK
      <4>2. ASSUME NEW q \in Procs
            PROVE  Requesting(q)' /\ m \in Chain(pr[q].head)' <=> Requesting(q) /\ m \in Chain(pr[q].head)
        <5>1. CASE q = p
          BY <1>5, <1>31, <3>2, <5>1, Zenon DEF T
        <5>2. CASE q # p
          BY <1>30, <5>2, Zenon
        <5> QED  BY <5>1, <5>2, Zenon
      <4>3. desc'[m] = desc[m]
        BY <1>29, <3>2, Zenon
      <4> QED  BY <4>1, <4>2, <4>3, Zenon
    <3> QED  BY <3>1, <3>2, Zenon
  <2> QED  BY <1>32, <2>1, <2>2, Zenon DEF ChainsOK
<1>34. StagesOK(Q, D)'
  <2>1. /\ RingOK(avail'.ring, taken', avail'.idx, Q) /\ RingOK(used'.ring, used_idx', used'.idx, D)
        /\ Q \cap inflight' = {} /\ Q \cap D = {} /\ inflight' \cap D = {}
        /\ Q \subseteq Descs /\ D \subseteq Descs
    BY <1>2, <1>6, Zenon DEF StagesOK
  <2>2. ASSUME NEW q \in Procs, Requesting(q)'
        PROVE  buf'[pr'[q].b].disk <=> pr'[q].head \in Q \cup inflight' \cup D
    <3>1. Requesting(q) /\ pr'[q].head = pr[q].head /\ pr'[q].b = B(q) /\ buf'[B(q)].disk = buf[B(q)].disk
      BY <1>21, <1>32, <2>2, Zenon
    <3>2. buf[B(q)].disk <=> pr[q].head \in Q \cup inflight \cup D
      BY <1>2, <3>1, Zenon DEF StagesOK
    <3> QED  BY <1>6, <3>1, <3>2, Zenon
  <2>3. ASSUME NEW i \in Q \cup inflight' \cup D PROVE \E q \in Procs : Requesting(q)' /\ pr'[q].head = i
    <3>1. i \in Q \cup inflight \cup D
      BY <1>6, <2>3, Zenon
    <3>2. PICK q \in Procs : Requesting(q) /\ pr[q].head = i
      BY <1>2, <3>1, Zenon DEF StagesOK
    <3>3. q # p
      BY <1>5, <1>11, <3>1, <3>2, Zenon
    <3> QED  BY <1>30, <3>2, <3>3, Zenon
  <2>4. ASSUME NEW a \in Bufs, buf'[a].disk PROVE \E q \in Procs : Requesting(q)' /\ pr'[q].b = a
    <3>1. buf[a].disk
      BY <1>21, <2>4, Zenon
    <3>2. PICK q \in Procs : Requesting(q) /\ B(q) = a
      BY <1>2, <3>1, Zenon DEF StagesOK
    <3>3. q # p
      BY <3>1, <3>2, Zenon
    <3> QED  BY <1>30, <3>2, <3>3, Zenon
  <2>5. ASSUME NEW i \in D PROVE info'[i].status = 0
    <3>1. i # h /\ i \in Descs /\ info[i].status = 0
      BY <1>2, <1>11, <2>1, Zenon DEF StagesOK
    <3> QED  BY <1>27, <3>1, Zenon
  <2>6. ASSUME NEW q \in Procs, Requesting(q)', pr'[q].head \notin Q \cup inflight'
        PROVE  /\ buf'[pr'[q].b].data = latest'[buf'[pr'[q].b].blockno]
               /\ disk'[buf'[pr'[q].b].blockno] = latest'[buf'[pr'[q].b].blockno]
    <3>1. /\ Requesting(q) /\ pr'[q].head = pr[q].head /\ pr'[q].b = B(q)
          /\ buf'[B(q)].data = buf[B(q)].data /\ buf'[B(q)].blockno = buf[B(q)].blockno
      BY <1>21, <1>32, <2>6, Zenon
    <3>2. pr[q].head \notin Q \cup inflight
      BY <1>6, <2>6, <3>1, Zenon
    <3>3. /\ buf[B(q)].data = latest[buf[B(q)].blockno] /\ disk[buf[B(q)].blockno] = latest[buf[B(q)].blockno]
      BY <1>2, <3>1, <3>2, Zenon DEF StagesOK
    <3> QED  BY <1>6, <3>1, <3>3, Zenon
  <2> QED  BY <2>1, <2>2, <2>3, <2>4, <2>5, <2>6, Zenon DEF StagesOK, B
<1> QED  BY <1>22, <1>23, <1>26, <1>33, <1>34, Zenon DEF BInv, CacheInv

\* virtio_disk_rw() after its wait: it waits on, or ends.
LEMMA CompleteInv ==
  ASSUME BInv, NEW p \in Procs, Complete(p)
  PROVE  BInv'
<1>1. CASE buf[B(p)].disk
  <2>1. pr' = [pr EXCEPT ![p].chan = <<"disk", B(p)>>] /\ UNCHANGED <<buf, lru, dvars, latest, count>>
    BY <1>1, Zenon DEF Complete, dvars
  <2>2. pr \in [Procs -> Process]
    BY Zenon DEF BInv, CacheInv, CacheTypes
  <2>3. pr[p] \in Process
    BY <2>2, Zenon
  <2>4. <<"disk", B(p)>> \in Channel
    BY <2>3, SizesAssumption DEF Process, Channel, B
  <2>5. PICK ch \in Channel : pr' = [pr EXCEPT ![p].chan = ch]
    BY <2>1, <2>4, Zenon
  <2>6. pr' \in [Procs -> Process] /\ \A q \in Procs : Same(q)
    BY <2>2, <2>5, GoesToSleep DEF Same
  <2> QED  BY <2>1, <2>6, ChannelStep, Zenon
<1>2. CASE ~buf[B(p)].disk
  BY <1>2, FinishInv, Zenon
<1> QED  BY <1>1, <1>2, Zenon

-----------------------------------------------------------------------------
(***************************************************************************)
(* The theorems.                                                           *)
(***************************************************************************)

\* The invariant holds when the run begins.
LEMMA InitBInv == Init => BInv
<1> SUFFICES ASSUME Init PROVE BInv
  OBVIOUS
<1> DEFINE c(b) == [blockno |-> Held[b], valid |-> TRUE, refcnt |-> 0, locked |-> 0,
                    disk |-> FALSE, data |-> Contents0(Held[b]), pinned |-> FALSE]
<1>1. /\ buf = [b \in Bufs |-> c(b)] /\ lru = [k \in 1 .. NBUF |-> NBUF + 1 - k]
      /\ pr = [p \in Procs |-> Resting] /\ count = 0 /\ inflight = {}
      /\ desc = [i \in Descs |-> NoDesc] /\ ops = [i \in Descs |-> NoOp] /\ info = [i \in Descs |-> NoInfo]
      /\ disk = [n \in BlockNos |-> Contents0(n)] /\ latest = [n \in BlockNos |-> Contents0(n)]
  BY Zenon DEF Init
<1>2. /\ 0 \in Descs /\ 0 \in 0 .. NBUF /\ 0 \in Nat /\ 0 \in 0 .. NCALLS /\ Awake \in Channel
      /\ TRUE \in BOOLEAN /\ FALSE \in BOOLEAN
  BY SizesAssumption DEF Descs, Awake, Channel
<1>3. \A b \in Bufs : Held[b] \in BlockNos
  BY BlocksAssumption DEF Bufs
<1>4. \A n \in BlockNos : Contents0(n) \in Int
  BY BlocksAssumption DEF Contents0
<1>5. \A b \in Bufs : /\ c(b) \in Buffer /\ c(b).blockno = Held[b] /\ c(b).refcnt = 0 /\ c(b).locked = 0
                      /\ c(b).data = Contents0(Held[b])
  BY <1>2, <1>3, <1>4 DEF Buffer
<1>6. \A b \in Bufs : c(b).valid = TRUE /\ c(b).disk = FALSE /\ c(b).pinned = FALSE
  BY Zenon
<1> HIDE DEF c
<1>7. ASSUME NEW b \in Bufs
      PROVE  /\ buf[b].blockno = Held[b] /\ buf[b].refcnt = 0 /\ buf[b].locked = 0
             /\ buf[b].data = Contents0(Held[b]) /\ buf[b].valid /\ ~buf[b].disk /\ ~buf[b].pinned
  <2>1. buf[b] = c(b)
    BY <1>1, Zenon
  <2> QED  BY <1>5, <1>6, <2>1, Zenon
<1>8. Resting \in Process /\ Resting.pc = "idle"
  <2>1. "idle" \in Owning \cup {"idle", "lock", "unref"} /\ "read" \in {"read", "write", "log", "install"}
    OBVIOUS
  <2>2. Resting \in Process
    BY <1>2, <2>1, Zenon DEF Process, Resting
  <2>3. Resting.pc = "idle"
    BY DEF Resting
  <2> QED  BY <2>2, <2>3, Zenon
<1>9. ASSUME NEW p \in Procs PROVE pr[p].pc = "idle" /\ pr[p].pc \notin Owning /\ ~Requesting(p)
  <2>1. pr[p].pc = "idle"
    BY <1>1, <1>8, Zenon
  <2> QED  BY <2>1 DEF Owning, Requesting
<1>10. CacheTypes
  <2>1. buf \in [Bufs -> Buffer] /\ pr \in [Procs -> Process]
    BY <1>1, <1>5, <1>8, Zenon
  <2>2. lru \in [1 .. NBUF -> Bufs]
    BY <1>1, SizesAssumption DEF Bufs
  <2>3. disk \in [BlockNos -> Int] /\ latest \in [BlockNos -> Int]
    BY <1>1, <1>4, Zenon
  <2> QED  BY <1>1, <1>2, <2>1, <2>2, <2>3, Zenon DEF CacheTypes
<1>11. CountOK
  <2> SUFFICES ASSUME NEW b \in Bufs
               PROVE  buf[b].refcnt = Cardinality(Users(b)) + (IF buf[b].pinned THEN 1 ELSE 0)
    BY Zenon DEF CountOK
  <2>1. Users(b) = {}
    BY <1>9, Zenon DEF Users
  <2>2. Cardinality(Users(b)) = 0
    BY <2>1, FS_EmptySet
  <2>3. (IF buf[b].pinned THEN 1 ELSE 0) = 0
    BY <1>7, Zenon
  <2>4. buf[b].refcnt = 0
    BY <1>7, Zenon
  <2> QED  BY <2>2, <2>3, <2>4
<1>12. LockOK
  <2>1. \A b \in Bufs : \A p \in Procs : buf[b].locked # p
    BY <1>7 DEF Procs
  <2> QED  BY <1>9, <2>1, Zenon DEF LockOK
<1>13. PlaceOK
  <2> SUFFICES ASSUME NEW p \in Procs PROVE PlaceOf(p)
    BY Zenon DEF PlaceOK
  <2>1. /\ pr[p].pc \notin {"lock", "have"} /\ pr[p].pc \notin {"rw", "io"}
        /\ pr[p].pc \notin {"have", "written", "rel"} /\ pr[p].pc # "written"
    BY <1>9
  <2> QED  BY <2>1, Zenon DEF PlaceOf
<1>14. OneBuffer
  <2> SUFFICES ASSUME NEW a \in Bufs, NEW b \in Bufs, buf[a].blockno = buf[b].blockno PROVE a = b
    BY Zenon DEF OneBuffer
  <2>1. Held[a] = Held[b]
    BY <1>7, Zenon
  <2> QED  BY <2>1, BlocksAssumption, Zenon DEF Bufs
<1>15. DataOK
  <2>1. \A n \in BlockNos : disk[n] = Contents0(n) /\ latest[n] = Contents0(n)
    BY <1>1, Zenon
  <2>2. ASSUME NEW b \in Bufs PROVE DataOf(b)
    <3>1. buf[b].blockno = Held[b] /\ Held[b] \in BlockNos /\ buf[b].data = Contents0(Held[b])
      BY <1>3, <1>7, Zenon
    <3>2. buf[b].data = latest[buf[b].blockno] /\ disk[buf[b].blockno] = latest[buf[b].blockno]
      BY <2>1, <3>1, Zenon
    <3> QED  BY <3>2, Zenon DEF DataOf
  <2> QED  BY <2>1, <2>2, Zenon DEF DataOK
<1>16. PICK k \in StartIdx : /\ avail = [ring |-> [i \in Descs |-> None], idx |-> k]
                             /\ used = [ring |-> [i \in Descs |-> None], idx |-> k]
                             /\ used_idx = k /\ taken = k
  BY Zenon DEF Init
<1>17. k \in 0 .. IdxRange - 1
  BY IndexAssumption, Zenon
<1>18. avail \in Ring /\ used \in Ring /\ avail.idx = k /\ used.idx = k
  BY <1>16, <1>17 DEF Ring
<1>19. DriverTypes
  <2>1. NoDesc \in Descriptor
    BY <1>2, Zenon DEF NoDesc, Descriptor
  <2>2. NoInfo \in [b : 0 .. NBUF, status : Nat] /\ NoOp \in [write : BOOLEAN, blockno : Nat]
    BY <1>2, Zenon DEF NoInfo, NoOp
  <2>3. /\ desc \in [Descs -> Descriptor] /\ info \in [Descs -> [b : 0 .. NBUF, status : Nat]]
        /\ ops \in [Descs -> [write : BOOLEAN, blockno : Nat]]
    BY <1>1, <2>1, <2>2, Zenon
  <2> QED  BY <1>1, <1>16, <1>17, <1>18, <2>3, Zenon DEF DriverTypes
<1>20. ChainsOK
  <2>1. NoDesc.free = TRUE
    BY Zenon DEF NoDesc
  <2>2. \A i \in Descs : desc[i].free
    BY <1>1, <2>1, Zenon
  <2> QED  BY <1>9, <2>2, Zenon DEF ChainsOK
<1>21. StagesOK({}, {})
  <2>1. RingOK(avail.ring, taken, avail.idx, {}) /\ RingOK(used.ring, used_idx, used.idx, {})
    BY <1>16, <1>17, <1>18, RingEmpty, Zenon
  <2>2. {} \cup inflight \cup {} = {}
    BY <1>1, Zenon
  <2> QED  BY <1>1, <1>7, <1>9, <2>1, <2>2, Zenon DEF StagesOK
<1> QED  BY <1>10, <1>11, <1>12, <1>13, <1>14, <1>15, <1>19, <1>20, <1>21, Zenon DEF BInv, CacheInv

\* Every step keeps it.
LEMMA NextBInv == BInv /\ [Next]_vars => BInv'
<1> SUFFICES ASSUME BInv, [Next]_vars PROVE BInv'
  OBVIOUS
<1>1. ASSUME NEW p \in Procs, Call(p) PROVE BInv'
  <2>1. PICK c \in Calls : bget(p, c[1], c[2])
    BY <1>1, Zenon DEF Call
  <2>2. PICK n, op : n = c[1] /\ op = c[2]
    BY Zenon
  <2>3. n \in BlockNos /\ op \in {"read", "write", "log", "install"}
    <3>1. c \in BlockNos \X {"read", "write", "log", "install"}
      BY BlocksAssumption, Zenon
    <3> QED  BY <2>2, <3>1
  <2>4. bget(p, n, op)
    BY <2>1, <2>2, Zenon
  <2> QED  BY <2>3, <2>4, bgetCached, bgetRecycles, Zenon
<1>2. ASSUME NEW p \in Procs, Step(p) PROVE BInv'
  BY <1>2, acquiresleepInv, UseInv, bunpinInv, releasesleepInv, brelseInv, SubmitInv, SleepForDescsInv,
     CompleteInv, Zenon DEF Step
<1>3. CASE Handler
  <2>1. CASE IntrAck
    BY <2>1, QuietStep, Zenon DEF IntrAck
  <2>2. CASE IntrEnd
    BY <2>2, QuietStep, Zenon DEF IntrEnd
  <2> QED  BY <1>3, <2>1, <2>2, IntrEntryInv, Zenon DEF Handler
<1>4. CASE Device
  BY <1>4, DeviceTakesInv, DeviceDoneInv, Zenon DEF Device
<1>5. CASE UNCHANGED vars
  BY <1>5, QuietStep, Zenon DEF vars, dvars
<1> QED  BY <1>1, <1>2, <1>3, <1>4, <1>5, Zenon DEF Next

\* The cache, the driver and the device keep the invariant BInv: the references
\* of every buffer are counted, its lock has the owner that it names, and every
\* request of virtio_disk_rw() is in one stage of its way.
THEOREM CacheInvariant == Spec => []BInv
BY InitBInv, NextBInv, PTL DEF Spec

\* Whoever has a buffer from bread() has the only buffer of the block, its
\* sleep-lock and the last contents given to the block; and what is in no buffer
\* is on the disk.
THEOREM CacheAlwaysCoherent == Spec => []CacheCoherent
<1>1. BInv => CacheCoherent
  <2> SUFFICES ASSUME BInv PROVE CacheCoherent
    OBVIOUS
  <2>1. CacheTypes /\ LockOK /\ OneBuffer /\ DataOK
    BY Zenon DEF BInv, CacheInv
  <2>2. PICK Q, D : StagesOK(Q, D)
    BY Zenon DEF BInv
  <2>3. ASSUME NEW p \in Procs, pr[p].pc \in {"have", "rw", "io", "written", "rel"}
        PROVE  buf[B(p)].locked = p /\ (buf[B(p)].disk => pr[p].pc = "io")
    <3>1. pr[p].pc \in Owning
      BY <2>3, Zenon DEF Owning
    <3>2. B(p) \in Bufs /\ buf[B(p)].locked = p
      BY <2>1, <3>1, OwnerHas, Zenon
    <3>3. ASSUME buf[B(p)].disk PROVE pr[p].pc = "io"
      <4>1. PICK q \in Procs : Requesting(q) /\ B(q) = B(p)
        BY <2>2, <3>2, <3>3, Zenon DEF StagesOK
      <4>2. pr[q].pc \in Owning
        BY <2>1, <4>1, RequestingBuffer, Zenon
      <4>3. q = p
        BY <2>1, <3>1, <4>1, <4>2, OwnerAlone, Zenon
      <4> QED  BY <4>1, <4>3, Zenon DEF Requesting
    <3> QED  BY <3>2, <3>3, Zenon
  <2>4. ASSUME NEW p \in Procs, pr[p].pc \in {"have", "written", "rel"}
        PROVE  buf[B(p)].data = latest[buf[B(p)].blockno]
    <3>1. pr[p].pc \in Owning
      BY <2>4 DEF Owning
    <3>2. PlaceOf(p) /\ DataOf(B(p))
      BY <3>1, OwnerKnows, Zenon
    <3> QED  BY <2>4, <3>2, Zenon DEF PlaceOf, DataOf
  <2> QED  BY <2>1, <2>3, <2>4, Zenon DEF CacheCoherent, OneBuffer, DataOK
<1> QED  BY <1>1, CacheInvariant, PTL

\* The descriptors that are not free are those of the requests in flight, each in
\* one chain; and what the handler finds in the used ring is a served request.
THEOREM DescriptorsAlwaysSound == Spec => []DescriptorsSound
<1>1. BInv => DescriptorsSound
  <2> SUFFICES ASSUME BInv PROVE DescriptorsSound
    OBVIOUS
  <2>1. CacheTypes /\ LockOK /\ DriverTypes /\ ChainsOK
    BY Zenon DEF BInv, CacheInv
  <2>2. PICK Q, D : StagesOK(Q, D)
    BY Zenon DEF BInv
  <2>3. {i \in Descs : ~desc[i].free} = UNION {Chain(pr[p].head) : p \in {q \in Procs : pr[q].pc = "io"}}
    <3> DEFINE U == UNION {Chain(pr[p].head) : p \in {q \in Procs : pr[q].pc = "io"}}
    <3>1. \A i : i \in U <=> \E p \in Procs : Requesting(p) /\ i \in Chain(pr[p].head)
      BY Zenon DEF Requesting
    <3>2. \A i \in U : i \in Descs
      BY <2>1, <3>1, ChainType, Zenon
    <3> HIDE DEF U
    <3>3. \A i : i \in {m \in Descs : ~desc[m].free} <=> i \in U
      BY <2>1, <3>1, <3>2, Zenon DEF ChainsOK
    <3>4. {i \in Descs : ~desc[i].free} = U
      BY <3>3, Zenon
    <3> QED  BY <3>4, Zenon DEF U
  <2>4. ASSUME NEW p \in Procs, NEW q \in Procs, p # q, pr[p].pc = "io", pr[q].pc = "io"
        PROVE  Chain(pr[p].head) \cap Chain(pr[q].head) = {}
    <3> SUFFICES ASSUME NEW i, i \in Chain(pr[p].head), i \in Chain(pr[q].head) PROVE FALSE
      BY Zenon
    <3>1. i \in Descs
      BY <2>1, ChainType, Zenon
    <3> QED  BY <2>1, <2>4, <3>1, Zenon DEF ChainsOK, Requesting
  <2>5. ASSUME used_idx # used.idx
        PROVE  /\ used.ring[used_idx % NUM] # None /\ info[used.ring[used_idx % NUM]].status = 0
               /\ info[used.ring[used_idx % NUM]].b # 0
    <3>1. used \in Ring /\ used_idx \in 0 .. IdxRange - 1
      BY <2>1, Zenon DEF DriverTypes
    <3>2. used.ring \in [Descs -> Descs \cup {None}]
      BY <3>1 DEF Ring
    <3>3. RingOK(used.ring, used_idx, used.idx, D) /\ D \subseteq Descs
      BY <2>2, Zenon DEF StagesOK
    <3>4. PICK id : id = used.ring[used_idx % NUM]
      BY Zenon
    <3>5. id \in D
      BY <2>5, <3>1, <3>2, <3>3, <3>4, RingTake, Zenon
    <3>6. id \in Descs /\ info[id].status = 0
      BY <2>2, <3>3, <3>5, Zenon DEF StagesOK
    <3>7. PICK p \in Procs : Requesting(p) /\ pr[p].head = id
      <4>1. id \in Q \cup inflight \cup D
        BY <3>5, Zenon
      <4> QED  BY <2>2, <4>1, Zenon DEF StagesOK
    <3>8. info[id].b = B(p) /\ B(p) \in Bufs
      <4>1. RequestOK(p) /\ B(p) \in Bufs
        BY <2>1, <3>7, Heads, RequestingBuffer, Zenon
      <4> QED  BY <3>7, <4>1, Zenon DEF RequestOK
    <3>9. id # None /\ info[id].b # 0
      BY <3>6, <3>8 DEF Descs, None, Bufs
    <3> QED  BY <3>4, <3>6, <3>9, Zenon
  <2> QED  BY <2>3, <2>4, <2>5, Zenon DEF DescriptorsSound
<1> QED  BY <1>1, CacheInvariant, PTL
=============================================================================

-------------------------- MODULE BlockCacheProofs --------------------------
(***************************************************************************)
(* The inductive invariant BInv of BlockIo follows a buffer from its       *)
(* recycling over the request and the interrupt to its release.  A request *)
(* is in one of three places, the available ring, the device and the used  *)
(* ring, until the handler has seen it.  The steps that leave the driver   *)
(* alone, those of bget(), of the sleeplock and of brelse(), preserve it.  *)
(***************************************************************************)
EXTENDS BlockIo, FiniteSetTheorems, WellFoundedInduction, TLAPS

Owning == {"have", "rw", "io", "written", "rel"}

Buffer == [blockno : BlockNos, valid : BOOLEAN, refcnt : Nat, locked : 0 .. NCALLS,
           disk : BOOLEAN, data : Int, pinned : BOOLEAN]
Channel == {"none", "lock", "desc", "disk"} \X Nat
Process == [pc : Owning \cup {"idle", "lock", "unref"}, op : {"read", "write", "log", "install"},
            b : 0 .. NBUF, write : BOOLEAN, head : Descs, chan : Channel]
Descriptor == [free : BOOLEAN, next : Descs, more : BOOLEAN, buf : 0 .. NBUF]
Ring == [ring : [Descs -> Descs \cup {None}], idx : 0 .. IdxRange - 1]

CacheTypes ==
  /\ buf \in [Bufs -> Buffer] /\ lru \in [1 .. NBUF -> Bufs]
  /\ pr \in [Procs -> Process]
  /\ disk \in [BlockNos -> Int] /\ latest \in [BlockNos -> Int]
  /\ count \in Nat

DriverTypes ==
  /\ desc \in [Descs -> Descriptor]
  /\ ops \in [Descs -> [write : BOOLEAN, blockno : Nat]]
  /\ info \in [Descs -> [b : 0 .. NBUF, status : Nat]]
  /\ avail \in Ring /\ used \in Ring
  /\ used_idx \in 0 .. IdxRange - 1 /\ taken \in 0 .. IdxRange - 1
  /\ inflight \subseteq Descs

\* Who has a buffer, or waits for it.
Users(b) == {p \in Procs : pr[p].pc # "idle" /\ B(p) = b}

\* A reference for each of them and one for the pin.
CountOK ==
  \A b \in Bufs : buf[b].refcnt = Cardinality(Users(b)) + (IF buf[b].pinned THEN 1 ELSE 0)

LockOK ==
  /\ \A p \in Procs : pr[p].pc # "idle" => B(p) \in Bufs
  /\ \A p \in Procs : pr[p].pc \in Owning => buf[B(p)].locked = p
  /\ \A b \in Bufs : \A p \in Procs : buf[b].locked = p => pr[p].pc \in Owning /\ B(p) = b

\* A buffer is written with its contents, and read without.
PlaceOf(p) ==
  /\ pr[p].pc \in {"lock", "have"} => ~pr[p].write
  /\ pr[p].pc \in {"rw", "io"} => pr[p].write = buf[B(p)].valid
  /\ pr[p].pc \in {"have", "written", "rel"} => buf[B(p)].valid
  /\ pr[p].pc = "written" => disk[buf[B(p)].blockno] = latest[buf[B(p)].blockno]
PlaceOK == \A p \in Procs : PlaceOf(p)

OneBuffer == \A a, b \in Bufs : buf[a].blockno = buf[b].blockno => a = b

\* The owner of b is about to write it.
Writing(b) == \E p \in Procs : pr[p].pc \in {"rw", "io"} /\ pr[p].write /\ B(p) = b

\* The last contents of a block are in its buffer if that is valid, and on
\* the disk unless the log or a writer owes them.
DataOf(b) ==
  /\ buf[b].valid => buf[b].data = latest[buf[b].blockno]
  /\ \/ disk[buf[b].blockno] = latest[buf[b].blockno]
     \/ buf[b].valid /\ (buf[b].pinned \/ Writing(b))
DataOK ==
  /\ \A b \in Bufs : DataOf(b)
  /\ \A n \in BlockNos : Cached(n) = {} => disk[n] = latest[n]

\* The ring holds the elements of S, each once, from index lo to before hi.
RingOK(ring, lo, hi, S) ==
  \E n \in 0 .. NUM :
    /\ hi = (lo + n) % IdxRange
    /\ S = {ring[(lo + j) % NUM] : j \in 0 .. n - 1}
    /\ \A i, j \in 0 .. n - 1 : ring[(lo + i) % NUM] = ring[(lo + j) % NUM] => i = j

Requesting(p) == pr[p].pc = "io"

\* The request of p as the device finds it.
RequestOK(p) ==
  LET h == pr[p].head
  IN /\ desc[desc[h].next].buf = B(p)
     /\ ops[h].write = pr[p].write /\ ops[h].blockno = buf[B(p)].blockno
     /\ info[h].b = B(p)

ChainsOK ==
  /\ \A p \in Procs : Requesting(p) => RequestOK(p)
  /\ \A p, q \in Procs : \A i \in Descs :
       Requesting(p) /\ Requesting(q) /\ i \in Chain(pr[p].head) /\ i \in Chain(pr[q].head) => p = q
  /\ \A i \in Descs : ~desc[i].free <=> \E p \in Procs : Requesting(p) /\ i \in Chain(pr[p].head)

\* The requests Q wait for the device, and D for the handler.
StagesOK(Q, D) ==
  /\ RingOK(avail.ring, taken, avail.idx, Q)
  /\ RingOK(used.ring, used_idx, used.idx, D)
  /\ Q \cap inflight = {} /\ Q \cap D = {} /\ inflight \cap D = {}
  /\ Q \subseteq Descs /\ D \subseteq Descs
  /\ \A p \in Procs : Requesting(p) => (buf[B(p)].disk <=> pr[p].head \in Q \cup inflight \cup D)
  /\ \A h \in Q \cup inflight \cup D : \E p \in Procs : Requesting(p) /\ pr[p].head = h
  /\ \A b \in Bufs : buf[b].disk => \E p \in Procs : Requesting(p) /\ B(p) = b
  /\ \A h \in D : info[h].status = 0
  /\ \A p \in Procs : Requesting(p) /\ pr[p].head \notin Q \cup inflight
        => LET n == buf[B(p)].blockno IN buf[B(p)].data = latest[n] /\ disk[n] = latest[n]

CacheInv == CacheTypes /\ CountOK /\ LockOK /\ PlaceOK /\ OneBuffer /\ DataOK
BInv == CacheInv /\ DriverTypes /\ ChainsOK /\ \E Q, D : StagesOK(Q, D)

-----------------------------------------------------------------------------
(***************************************************************************)
(* The rings.                                                              *)
(***************************************************************************)

\* Remainder and quotient.
LEMMA Quotient ==
  ASSUME NEW N \in Nat \ {0}, NEW x \in Int
  PROVE  x % N \in 0 .. N - 1 /\ x \div N \in Int /\ x = N * (x \div N) + (x % N)
OBVIOUS

\* They are unique.
LEMMA Unique ==
  ASSUME NEW N \in Nat \ {0}, NEW q \in Int, NEW r \in Int, NEW s \in Int, NEW t \in Int,
         0 <= r, r < N, 0 <= t, t < N, N * q + r = N * s + t
  PROVE  q = s /\ r = t
<1>1. CASE q > s
  <2>1. N * (q - s) = t - r
    OBVIOUS
  <2>2. N * (q - s) >= N
    BY <1>1
  <2> QED  BY <2>1, <2>2
<1>2. CASE s > q
  <2>1. N * (s - q) = r - t
    OBVIOUS
  <2>2. N * (s - q) >= N
    BY <1>2
  <2> QED  BY <2>1, <2>2
<1> QED  BY <1>1, <1>2

\* Multiples do not change a remainder.
LEMMA ModPeriod ==
  ASSUME NEW N \in Nat \ {0}, NEW x \in Int, NEW q \in Int
  PROVE  (N * q + x) % N = x % N
<1> DEFINE y == N * q + x
<1>1. y \in Int
  OBVIOUS
<1>2. /\ x % N \in 0 .. N - 1 /\ x \div N \in Int /\ x = N * (x \div N) + (x % N)
      /\ y % N \in 0 .. N - 1 /\ y \div N \in Int /\ y = N * (y \div N) + (y % N)
  <2> HIDE DEF y
  <2> QED  BY <1>1, Quotient
<1>3. y = N * (q + (x \div N)) + (x % N)
  <2>1. PICK d \in Int : d = x \div N
    BY <1>2
  <2>2. PICK r \in Int : r = x % N
    BY <1>2
  <2>3. x = N * d + r
    BY <1>2, <2>1, <2>2
  <2>4. N * q + (N * d + r) = N * (q + d) + r
    OBVIOUS
  <2> QED  BY <2>1, <2>2, <2>3, <2>4
<1> HIDE DEF y
<1>4. q + (x \div N) \in Int
  BY <1>2
<1>5. PICK u \in Int : u = y \div N
  BY <1>2
<1>6. PICK v \in Int : v = q + (x \div N)
  BY <1>4
<1>7. PICK r \in Int : r = y % N
  BY <1>2
<1>8. PICK t \in Int : t = x % N
  BY <1>2
<1>9. N * u + r = N * v + t /\ 0 <= r /\ r < N /\ 0 <= t /\ t < N
  BY <1>2, <1>3, <1>5, <1>6, <1>7, <1>8
<1>10. r = t
  BY <1>9, Unique
<1> QED  BY <1>7, <1>8, <1>10 DEF y

\* Numbers less than N apart have different remainders.
LEMMA ModApart ==
  ASSUME NEW N \in Nat \ {0}, NEW x \in Int, NEW y \in Int, x < y, y < x + N
  PROVE  x % N # y % N
<1> SUFFICES ASSUME x % N = y % N PROVE FALSE
  OBVIOUS
<1>2. /\ x % N \in 0 .. N - 1 /\ x \div N \in Int /\ x = N * (x \div N) + (x % N)
      /\ y \div N \in Int /\ y = N * (y \div N) + (y % N)
  BY Quotient
<1>3. PICK c \in Int : c = x \div N
  BY <1>2
<1>4. PICK d \in Int : d = y \div N
  BY <1>2
<1>5. y - x = N * d - N * c
  BY <1>2, <1>3, <1>4
<1>6. N * d - N * c = N * (d - c)
  OBVIOUS
<1>7. d - c < 1 => N * (d - c) <= 0
  OBVIOUS
<1>8. d - c >= 1 => N * (d - c) >= N
  OBVIOUS
<1> QED  BY <1>5, <1>6, <1>7, <1>8

\* An index of a ring may wrap at any time before it is used.
LEMMA Wraps ==
  ASSUME NEW x \in Nat, NEW j \in Nat
  PROVE  /\ ((x % IdxRange) + j) % IdxRange = (x + j) % IdxRange
         /\ ((x % IdxRange) + j) % NUM = (x + j) % NUM
         /\ x % IdxRange \in 0 .. IdxRange - 1
<1>1. NUM \in Nat \ {0} /\ IdxRange \in Nat \ {0} /\ IdxRange % NUM = 0
  BY SizesAssumption, IndexAssumption
<1>2. x % IdxRange \in 0 .. IdxRange - 1 /\ x \div IdxRange \in Int /\ x = IdxRange * (x \div IdxRange) + (x % IdxRange)
  BY <1>1, Quotient
<1>3. IdxRange \div NUM \in Int /\ IdxRange = NUM * (IdxRange \div NUM) + (IdxRange % NUM)
  BY <1>1, Quotient
<1>4. PICK q \in Int : q = x \div IdxRange
  BY <1>2
<1>5. PICK r \in Int : r = x % IdxRange
  BY <1>2
<1>6. PICK m \in Int : m = IdxRange \div NUM
  BY <1>3
<1>7. IdxRange = NUM * m
  BY <1>1, <1>3, <1>6
<1>8. x = IdxRange * q + r
  BY <1>2, <1>4, <1>5
<1>9. x + j = IdxRange * q + (r + j)
  BY <1>1, <1>8
<1>10. IdxRange * q = NUM * (m * q)
  BY <1>1, <1>7
<1>11. x + j = NUM * (m * q) + (r + j) /\ m * q \in Int
  BY <1>9, <1>10
<1> DEFINE z == r + j
<1>12. z \in Int
  OBVIOUS
<1> DEFINE w == m * q
<1>13. w \in Int /\ x + j = IdxRange * q + z /\ x + j = NUM * w + z
  BY <1>9, <1>11
<1> HIDE DEF z, w
<1>14. (x + j) % IdxRange = z % IdxRange
  <2>1. (IdxRange * q + z) % IdxRange = z % IdxRange
    BY <1>1, <1>12, ModPeriod
  <2> QED  BY <1>13, <2>1, Zenon
<1>15. (x + j) % NUM = z % NUM
  <2>1. (NUM * w + z) % NUM = z % NUM
    BY <1>1, <1>12, <1>13, ModPeriod
  <2> QED  BY <1>13, <2>1, Zenon
<1> QED  BY <1>2, <1>5, <1>14, <1>15, Zenon DEF z

\* A new element goes to index hi: the ring is not full, since S and h are
\* descriptors.
LEMMA RingPut ==
  ASSUME NEW ring \in [Descs -> Descs \cup {None}], NEW lo \in 0 .. IdxRange - 1, NEW hi,
         NEW S \in SUBSET Descs, NEW h \in Descs, h \notin S, RingOK(ring, lo, hi, S)
  PROVE  RingOK([ring EXCEPT ![hi % NUM] = h], lo, (hi + 1) % IdxRange, S \cup {h})
<1> USE SizesAssumption, IndexAssumption
<1>1. PICK n \in 0 .. NUM :
        /\ hi = (lo + n) % IdxRange
        /\ S = {ring[(lo + j) % NUM] : j \in 0 .. n - 1}
        /\ \A i, j \in 0 .. n - 1 : ring[(lo + i) % NUM] = ring[(lo + j) % NUM] => i = j
  BY Zenon DEF RingOK
<1>2. n # NUM
  <2> SUFFICES ASSUME n = NUM PROVE FALSE
    OBVIOUS
  <2> DEFINE f == [j \in 0 .. n - 1 |-> ring[(lo + j) % NUM]]
  <2>1. f \in [0 .. n - 1 -> Descs \ {h}]
    BY <1>1
  <2>2. IsFiniteSet(0 .. n - 1) /\ Cardinality(0 .. n - 1) = n
    BY FS_Interval
  <2>3. IsFiniteSet(Descs) /\ Cardinality(Descs) = NUM
    BY FS_Interval DEF Descs
  <2>4. IsFiniteSet(Descs \ {h}) /\ Cardinality(Descs \ {h}) = NUM - 1
    BY <2>3, FS_RemoveElement
  <2>5. Cardinality(Descs \ {h}) < Cardinality(0 .. n - 1)
    BY <2>2, <2>4
  <2> HIDE DEF f
  <2>6. PICK i, j \in 0 .. n - 1 : i # j /\ f[i] = f[j]
    <3> DEFINE X == 0 .. n - 1
               Y == Descs \ {h}
    <3>1. f \in [X -> Y] /\ IsFiniteSet(X) /\ IsFiniteSet(Y) /\ Cardinality(Y) < Cardinality(X)
      BY <2>1, <2>2, <2>4, <2>5, Zenon
    <3> HIDE DEF X, Y
    <3>2. \E i, j \in X : i # j /\ f[i] = f[j]
      BY <3>1, FS_PigeonHole
    <3> QED  BY <3>2, Zenon DEF X
  <2>7. ring[(lo + i) % NUM] = ring[(lo + j) % NUM]
    BY <2>6, Zenon DEF f
  <2> QED  BY <1>1, <2>6, <2>7, Zenon
<1>3. hi % NUM = (lo + n) % NUM /\ (hi + 1) % IdxRange = (lo + (n + 1)) % IdxRange
  <2>1. PICK x \in Nat : x = lo + n
    OBVIOUS
  <2>2. /\ ((x % IdxRange) + 0) % NUM = (x + 0) % NUM
        /\ ((x % IdxRange) + 1) % IdxRange = (x + 1) % IdxRange
        /\ x % IdxRange \in 0 .. IdxRange - 1
    <3>1. 0 \in Nat /\ 1 \in Nat
      OBVIOUS
    <3> QED  BY <3>1, Wraps, Zenon
  <2>3. (x % IdxRange) + 0 = x % IdxRange /\ x + 0 = x /\ x + 1 = lo + (n + 1)
    BY <2>1, <2>2
  <2> QED  BY <1>1, <2>1, <2>2, <2>3, Zenon
<1>4. \A j \in 0 .. n - 1 : (lo + j) % NUM # (lo + n) % NUM
  <2> TAKE j \in 0 .. n - 1
  <2>1. PICK x \in Int : x = lo + j
    OBVIOUS
  <2>2. PICK y \in Int : y = lo + n
    OBVIOUS
  <2>3. x < y /\ y < x + NUM /\ NUM \in Nat \ {0}
    BY <1>2, <2>1, <2>2
  <2> QED  BY <2>1, <2>2, <2>3, ModApart, Zenon
<1> DEFINE new == [ring EXCEPT ![hi % NUM] = h]
<1>5. \A j \in Nat : (lo + j) % NUM \in Descs
  <2> TAKE j \in Nat
  <2>1. PICK x \in Int : x = lo + j
    OBVIOUS
  <2> QED  BY <2>1, Quotient DEF Descs
<1>6. \A j \in 0 .. n - 1 : new[(lo + j) % NUM] = ring[(lo + j) % NUM]
  <2>1. \A j \in 0 .. n - 1 : j \in Nat
    OBVIOUS
  <2> QED  BY <1>3, <1>4, <1>5, <2>1, Zenon
<1>7. new[(lo + n) % NUM] = h
  <2>1. n \in Nat
    OBVIOUS
  <2>2. (lo + n) % NUM \in Descs
    BY <1>5, <2>1, Zenon
  <2> QED  BY <1>3, <2>2, Zenon
<1> HIDE DEF new
<1>8. \A j \in 0 .. (n + 1) - 1 : j = n \/ j \in 0 .. n - 1
  OBVIOUS
<1>9. n + 1 \in 0 .. NUM /\ n \in 0 .. (n + 1) - 1 /\ \A j \in 0 .. n - 1 : j \in 0 .. (n + 1) - 1
  BY <1>2
<1>10. S \cup {h} = {new[(lo + j) % NUM] : j \in 0 .. (n + 1) - 1}
  <2> DEFINE T == {new[(lo + j) % NUM] : j \in 0 .. (n + 1) - 1}
  <2>1. h \in T
    BY <1>7, <1>9, Zenon
  <2>2. ASSUME NEW x \in S PROVE x \in T
    <3>1. PICK j \in 0 .. n - 1 : x = ring[(lo + j) % NUM]
      BY <1>1, Zenon
    <3>2. x = new[(lo + j) % NUM] /\ j \in 0 .. (n + 1) - 1
      BY <1>6, <1>9, <3>1, Zenon
    <3> QED  BY <3>2, Zenon
  <2>3. ASSUME NEW x \in T PROVE x \in S \cup {h}
    <3>1. PICK j \in 0 .. (n + 1) - 1 : x = new[(lo + j) % NUM]
      BY Zenon
    <3>2. CASE j = n
      BY <1>7, <3>1, <3>2, Zenon
    <3>3. CASE j \in 0 .. n - 1
      BY <1>1, <1>6, <3>1, <3>3, Zenon
    <3> QED  BY <1>8, <3>2, <3>3, Zenon
  <2> HIDE DEF T
  <2>4. S \cup {h} = T
    BY <2>1, <2>2, <2>3, Zenon
  <2> QED  BY <2>4, Zenon DEF T
<1>11. \A j \in 0 .. n - 1 : new[(lo + j) % NUM] \in S
  BY <1>1, <1>6, Zenon
<1>12. \A i, j \in 0 .. (n + 1) - 1 : new[(lo + i) % NUM] = new[(lo + j) % NUM] => i = j
  <2> SUFFICES ASSUME NEW i \in 0 .. (n + 1) - 1, NEW j \in 0 .. (n + 1) - 1,
                      new[(lo + i) % NUM] = new[(lo + j) % NUM]
               PROVE  i = j
    BY Zenon
  <2>1. CASE i \in 0 .. n - 1 /\ j \in 0 .. n - 1
    BY <1>1, <1>6, <2>1, Zenon
  <2>2. CASE i = n /\ j \in 0 .. n - 1
    BY <1>7, <1>11, <2>2, Zenon
  <2>3. CASE j = n /\ i \in 0 .. n - 1
    BY <1>7, <1>11, <2>3, Zenon
  <2> QED  BY <1>8, <2>1, <2>2, <2>3, Zenon
<1> QED  BY <1>3, <1>9, <1>10, <1>12, Zenon DEF RingOK, new

\* The element at index lo is taken.
LEMMA RingTake ==
  ASSUME NEW ring \in [Descs -> Descs \cup {None}], NEW lo \in 0 .. IdxRange - 1, NEW hi,
         NEW S, lo # hi, RingOK(ring, lo, hi, S)
  PROVE  /\ ring[lo % NUM] \in S
         /\ RingOK([ring EXCEPT ![lo % NUM] = None], (lo + 1) % IdxRange, hi, S \ {ring[lo % NUM]})
<1> USE SizesAssumption, IndexAssumption
<1>1. PICK n \in 0 .. NUM :
        /\ hi = (lo + n) % IdxRange
        /\ S = {ring[(lo + j) % NUM] : j \in 0 .. n - 1}
        /\ \A i, j \in 0 .. n - 1 : ring[(lo + i) % NUM] = ring[(lo + j) % NUM] => i = j
  BY Zenon DEF RingOK
<1>2. n # 0 /\ lo + 0 = lo
  BY <1>1
<1>3. 0 \in 0 .. n - 1 /\ n - 1 \in 0 .. NUM
  BY <1>2
<1>4. ring[lo % NUM] \in S
  BY <1>1, <1>2, <1>3, Zenon
<1> DEFINE new == [ring EXCEPT ![lo % NUM] = None]
           l == (lo + 1) % IdxRange
<1>5. \A j \in Nat : /\ (l + j) % NUM = (lo + (j + 1)) % NUM
                     /\ (l + j) % IdxRange = (lo + (j + 1)) % IdxRange
  <2> TAKE j \in Nat
  <2>1. PICK x \in Nat : x = lo + 1
    OBVIOUS
  <2>2. x + j = lo + (j + 1)
    BY <2>1
  <2>3. l = x % IdxRange
    BY <2>1, Zenon
  <2> HIDE DEF l
  <2>4. /\ ((x % IdxRange) + j) % IdxRange = (x + j) % IdxRange
        /\ ((x % IdxRange) + j) % NUM = (x + j) % NUM
    BY Wraps, Zenon
  <2> QED  BY <2>2, <2>3, <2>4, Zenon
<1>6. (l + (n - 1)) % IdxRange = hi
  <2>1. n - 1 \in Nat /\ (n - 1) + 1 = n
    BY <1>2
  <2> QED  BY <1>1, <1>5, <2>1, Zenon
<1>7. \A j \in 0 .. (n - 1) - 1 : j + 1 \in 0 .. n - 1 /\ j + 1 # 0 /\ j \in Nat
  OBVIOUS
<1>8. \A j \in 0 .. n - 1 : j # 0 => j - 1 \in 0 .. (n - 1) - 1 /\ (j - 1) + 1 = j
  OBVIOUS
<1>9. \A j \in 0 .. n - 1 : j # 0 => new[(lo + j) % NUM] = ring[(lo + j) % NUM]
  <2> SUFFICES ASSUME NEW j \in 0 .. n - 1, j # 0
               PROVE  new[(lo + j) % NUM] = ring[(lo + j) % NUM]
    OBVIOUS
  <2>1. PICK y \in Int : y = lo + j
    OBVIOUS
  <2>2. lo < y /\ y < lo + NUM /\ NUM \in Nat \ {0} /\ lo \in Int
    BY <2>1
  <2>3. y % NUM # lo % NUM
    BY <2>2, ModApart, Zenon
  <2>4. y % NUM \in Descs
    BY <2>2, Quotient DEF Descs
  <2> QED  BY <2>1, <2>3, <2>4, Zenon
<1> HIDE DEF l, new
<1>10. \A j \in 0 .. (n - 1) - 1 : new[(l + j) % NUM] = ring[(lo + (j + 1)) % NUM]
  BY <1>5, <1>7, <1>9, Zenon
<1>11. \A j \in 0 .. n - 1 : j # 0 => ring[(lo + j) % NUM] # ring[lo % NUM]
  BY <1>1, <1>2, <1>3, Zenon
<1>12. \A j \in 0 .. n - 1 : j # 0 => ring[(lo + j) % NUM] = new[(l + (j - 1)) % NUM]
  <2> SUFFICES ASSUME NEW j \in 0 .. n - 1, j # 0
               PROVE  ring[(lo + j) % NUM] = new[(l + (j - 1)) % NUM]
    BY Zenon
  <2>1. PICK i \in 0 .. (n - 1) - 1 : i = j - 1 /\ i + 1 = j
    BY <1>8
  <2>2. new[(l + i) % NUM] = ring[(lo + (i + 1)) % NUM]
    BY <1>10, Zenon
  <2> QED  BY <2>1, <2>2, Zenon
<1>13. S \ {ring[lo % NUM]} = {new[(l + j) % NUM] : j \in 0 .. (n - 1) - 1}
  <2>1. ASSUME NEW x \in S, x # ring[lo % NUM]
        PROVE  x \in {new[(l + j) % NUM] : j \in 0 .. (n - 1) - 1}
    <3>1. PICK j \in 0 .. n - 1 : x = ring[(lo + j) % NUM]
      BY <1>1, Zenon
    <3>2. j # 0
      BY <1>2, <2>1, <3>1, Zenon
    <3> QED  BY <1>8, <1>12, <3>1, <3>2, Zenon
  <2>2. ASSUME NEW j \in 0 .. (n - 1) - 1
        PROVE  new[(l + j) % NUM] \in S /\ new[(l + j) % NUM] # ring[lo % NUM]
    <3>1. PICK i \in 0 .. n - 1 : i = j + 1 /\ i # 0
      BY <1>7, <2>2, Zenon
    <3>2. new[(l + j) % NUM] = ring[(lo + i) % NUM]
      BY <1>10, <2>2, <3>1, Zenon
    <3> QED  BY <1>1, <1>11, <3>1, <3>2, Zenon
  <2> QED  BY <2>1, <2>2, Zenon
<1>14. \A i, j \in 0 .. (n - 1) - 1 : new[(l + i) % NUM] = new[(l + j) % NUM] => i = j
  <2> SUFFICES ASSUME NEW i \in 0 .. (n - 1) - 1, NEW j \in 0 .. (n - 1) - 1,
                      new[(l + i) % NUM] = new[(l + j) % NUM]
               PROVE  i = j
    BY Zenon
  <2>1. PICK a, b \in 0 .. n - 1 : a = i + 1 /\ b = j + 1
    BY <1>7, Zenon
  <2>2. ring[(lo + a) % NUM] = ring[(lo + b) % NUM]
    BY <1>10, <2>1, Zenon
  <2>3. a = b
    BY <1>1, <2>2, Zenon
  <2> QED  BY <2>1, <2>3
<1> QED  BY <1>3, <1>4, <1>6, <1>13, <1>14, Zenon DEF RingOK, l, new

\* An empty ring.
LEMMA RingEmpty ==
  ASSUME NEW ring, NEW k \in 0 .. IdxRange - 1
  PROVE  RingOK(ring, k, k, {})
<1>1. 0 \in 0 .. NUM /\ k = (k + 0) % IdxRange /\ 0 .. 0 - 1 = {}
  BY SizesAssumption, IndexAssumption
<1>2. {} = {ring[(k + j) % NUM] : j \in 0 .. 0 - 1}
  BY <1>1, Zenon
<1> QED  BY <1>1, <1>2, Zenon DEF RingOK

-----------------------------------------------------------------------------
(***************************************************************************)
(* What the steps have in common.                                          *)
(***************************************************************************)

\* Of process q only the channel and the call may have changed.
Same(q) == /\ pr'[q].pc = pr[q].pc /\ pr'[q].b = pr[q].b
           /\ pr'[q].write = pr[q].write /\ pr'[q].head = pr[q].head

\* wakeup() changes channels only.
LEMMA WakeupKeeps ==
  ASSUME NEW s \in [Procs -> Process], NEW chan, NEW t, t = wakeup(s, chan)
  PROVE  /\ t \in [Procs -> Process]
         /\ \A q \in Procs : /\ t[q].pc = s[q].pc /\ t[q].b = s[q].b /\ t[q].write = s[q].write
                             /\ t[q].head = s[q].head /\ t[q].op = s[q].op
<1>1. \A q \in Procs : t[q] = IF s[q].chan = chan THEN [s[q] EXCEPT !.chan = Awake] ELSE s[q]
  BY Zenon DEF wakeup
<1>2. t = [q \in Procs |-> IF s[q].chan = chan THEN [s[q] EXCEPT !.chan = Awake] ELSE s[q]]
  BY Zenon DEF wakeup
<1>3. Awake \in Channel
  BY DEF Awake, Channel
<1>4. ASSUME NEW q \in Procs
      PROVE  /\ t[q] \in Process
             /\ t[q].pc = s[q].pc /\ t[q].b = s[q].b /\ t[q].write = s[q].write
             /\ t[q].head = s[q].head /\ t[q].op = s[q].op
  <2>1. s[q] \in Process
    OBVIOUS
  <2> DEFINE r == [s[q] EXCEPT !.chan = Awake]
  <2>2. r \in Process
    BY <1>3, <2>1 DEF Process
  <2>3. r.pc = s[q].pc /\ r.b = s[q].b /\ r.head = s[q].head /\ r.op = s[q].op
    BY <2>1 DEF Process
  <2>4. r.write = s[q].write
    BY <2>1, Zenon DEF Process
  <2> HIDE DEF r
  <2>5. t[q] = r \/ t[q] = s[q]
    BY <1>1, Zenon DEF r
  <2> QED  BY <2>1, <2>2, <2>3, <2>4, <2>5, Zenon
<1>5. t \in [Procs -> Process]
  BY <1>2, <1>4, Zenon
<1> QED  BY <1>4, <1>5, Zenon

\* There are finitely many users of a buffer.
LEMMA UsersFinite ==
  ASSUME NEW b
  PROVE  IsFiniteSet(Users(b)) /\ Cardinality(Users(b)) \in Nat
<1>1. IsFiniteSet(Procs)
  BY SizesAssumption, FS_Interval DEF Procs
<1>2. Users(b) \in SUBSET Procs
  BY Zenon DEF Users
<1>3. IsFiniteSet(Users(b))
  BY <1>1, <1>2, FS_Subset, Zenon
<1> QED  BY <1>3, FS_CardinalityType, Zenon

\* Nobody starts or ends, and references and pins change together.
LEMMA CountKept ==
  ASSUME CountOK,
         \A q \in Procs : pr'[q].b = pr[q].b /\ (pr'[q].pc # "idle" <=> pr[q].pc # "idle"),
         \A a \in Bufs : /\ buf[a].refcnt \in Nat
                         /\ \/ buf'[a].refcnt = buf[a].refcnt /\ buf'[a].pinned = buf[a].pinned
                            \/ buf'[a].refcnt = buf[a].refcnt + 1 /\ ~buf[a].pinned /\ buf'[a].pinned
                            \/ buf'[a].refcnt = buf[a].refcnt - 1 /\ buf[a].pinned /\ ~buf'[a].pinned
  PROVE  CountOK'
<1> SUFFICES ASSUME NEW a \in Bufs
             PROVE  buf'[a].refcnt = Cardinality(Users(a)') + (IF buf'[a].pinned THEN 1 ELSE 0)
  BY Zenon DEF CountOK
<1>1. Users(a)' = Users(a)
  BY Zenon DEF Users, B
<1>2. Cardinality(Users(a)) \in Nat
  BY UsersFinite, Zenon
<1>3. buf[a].refcnt = Cardinality(Users(a)) + (IF buf[a].pinned THEN 1 ELSE 0)
  BY Zenon DEF CountOK
<1>4. Cardinality(Users(a)') = Cardinality(Users(a))
  BY <1>1, Zenon
<1> QED  BY <1>2, <1>3, <1>4

\* A buffer without references has no users, no owner and no pin.
LEMMA NoReferences ==
  ASSUME CacheTypes, CountOK, LockOK, NEW b \in Bufs, buf[b].refcnt = 0
  PROVE  /\ Users(b) = {} /\ ~buf[b].pinned /\ \A q \in Procs : pr[q].pc # "idle" => B(q) # b
         /\ \A q \in Procs : buf[b].locked # q
<1>1. buf[b].refcnt = Cardinality(Users(b)) + (IF buf[b].pinned THEN 1 ELSE 0)
  BY Zenon DEF CountOK
<1>2. Cardinality(Users(b)) \in Nat /\ IsFiniteSet(Users(b))
  BY UsersFinite, Zenon
<1>3. Cardinality(Users(b)) = 0 /\ ~buf[b].pinned
  BY <1>1, <1>2
<1>4. Users(b) = {}
  BY <1>2, <1>3, FS_EmptySet, Zenon
<1>5. \A q \in Procs : pr[q].pc # "idle" => B(q) # b
  BY <1>4, Zenon DEF Users
<1>6. \A q \in Procs : pr[q].pc \in Owning => pr[q].pc # "idle"
  BY DEF Owning
<1>7. \A q \in Procs : buf[b].locked # q
  BY <1>5, <1>6, Zenon DEF LockOK
<1> QED  BY <1>3, <1>4, <1>5, <1>7, Zenon

\* An owner has its buffer for itself.
LEMMA OwnerAlone ==
  ASSUME LockOK, NEW p \in Procs, NEW q \in Procs,
         pr[p].pc \in Owning, pr[q].pc \in Owning, B(p) = B(q)
  PROVE  p = q
BY Zenon DEF LockOK

\* The place of q in a step that changes nothing of what it speaks.
LEMMA Moved ==
  ASSUME NEW q \in Procs, PlaceOf(q),
         pr'[q].pc = pr[q].pc, pr'[q].write = pr[q].write,
         buf'[pr'[q].b].valid = buf[B(q)].valid,
         disk'[buf'[pr'[q].b].blockno] = disk[buf[B(q)].blockno],
         latest'[buf'[pr'[q].b].blockno] = latest[buf[B(q)].blockno]
  PROVE  PlaceOf(q)'
BY Zenon DEF PlaceOf, B

\* Without a buffer there is little to say.
LEMMA NoPlace ==
  ASSUME NEW q \in Procs, pr[q].pc \notin {"have", "rw", "io", "written", "rel"},
         pr[q].pc = "lock" => ~pr[q].write,
         pr'[q].pc = pr[q].pc, pr'[q].write = pr[q].write
  PROVE  PlaceOf(q)'
<1>1. pr'[q].pc \notin {"rw", "io"} /\ pr'[q].pc \notin {"have", "written", "rel"} /\ pr'[q].pc # "written"
  OBVIOUS
<1>2. pr'[q].pc \in {"lock", "have"} => pr'[q].pc = "lock"
  OBVIOUS
<1> QED  BY <1>1, <1>2, Zenon DEF PlaceOf

\* An owner has locked its buffer.
LEMMA OwnerHas ==
  ASSUME LockOK, NEW q \in Procs, pr[q].pc \in Owning
  PROVE  B(q) \in Bufs /\ buf[B(q)].locked = q /\ pr[q].pc # "idle"
<1>1. pr[q].pc # "idle"
  BY DEF Owning
<1> QED  BY <1>1, Zenon DEF LockOK

\* A step of p on its buffer b that nobody else owns: what has to be shown of p
\* and of b is enough.
LEMMA LocalStep ==
  ASSUME CacheInv, NEW p \in Procs, NEW b \in Bufs,
         \A q \in Procs : buf[b].locked = q => q = p,
         \A q \in Procs : q # p => Same(q),
         \A a \in Bufs : a # b => buf'[a] = buf[a],
         buf'[b].blockno = buf[b].blockno,
         \A n \in BlockNos : n # buf[b].blockno => disk'[n] = disk[n] /\ latest'[n] = latest[n],
         pr[p].pc # "idle" => B(p) = b,
         pr'[p].pc # "idle" => pr'[p].b = b,
         pr'[p].pc \in Owning => buf'[b].locked = p,
         pr'[p].pc \notin Owning => buf'[b].locked = 0,
         PlaceOf(p)', DataOf(b)'
  PROVE  LockOK' /\ PlaceOK' /\ OneBuffer' /\ DataOK'
<1>1. CacheTypes /\ LockOK /\ PlaceOK /\ OneBuffer /\ DataOK
  BY Zenon DEF CacheInv
<1>2. ASSUME NEW q \in Procs, q # p, pr[q].pc \in Owning
      PROVE  B(q) # b /\ B(q) \in Bufs /\ buf[B(q)].locked = q
  <2>1. B(q) \in Bufs /\ buf[B(q)].locked = q
    BY <1>1, <1>2, OwnerHas, Zenon
  <2> QED  BY <1>2, <2>1, Zenon
<1>3. \A a \in Bufs : buf'[a].blockno = buf[a].blockno /\ buf[a].blockno \in BlockNos
  <2>1. \A a \in Bufs : buf[a] \in Buffer
    BY <1>1, Zenon DEF CacheTypes
  <2>2. \A a \in Bufs : buf[a].blockno \in BlockNos
    BY <2>1 DEF Buffer
  <2> QED  BY <2>2, Zenon
<1>4. \A a \in Bufs : a # b => /\ buf[a].blockno # buf[b].blockno
                               /\ disk'[buf[a].blockno] = disk[buf[a].blockno]
                               /\ latest'[buf[a].blockno] = latest[buf[a].blockno]
  BY <1>1, <1>3, Zenon DEF OneBuffer
<1>5. \A q \in Procs : 0 # q
  BY DEF Procs
<1>6. LockOK'
  <2>1. \A q \in Procs : pr'[q].pc # "idle" => pr'[q].b \in Bufs
    BY <1>1, ZenonT(40) DEF LockOK, Same, B
  <2>2. ASSUME NEW q \in Procs, pr'[q].pc \in Owning PROVE buf'[pr'[q].b].locked = q
    <3>1. CASE q = p
      <4>1. pr'[q].pc # "idle"
        BY <2>2 DEF Owning
      <4> QED  BY <2>2, <3>1, <4>1, Zenon
    <3>2. CASE q # p
      <4>1. pr'[q].pc = pr[q].pc /\ pr'[q].b = B(q)
        BY <3>2, Zenon DEF Same, B
      <4>2. pr[q].pc \in Owning
        BY <2>2, <4>1, Zenon
      <4>3. B(q) # b /\ B(q) \in Bufs /\ buf[B(q)].locked = q
        BY <1>2, <3>2, <4>2, Zenon
      <4>4. buf'[B(q)] = buf[B(q)]
        BY <4>3, Zenon
      <4> QED  BY <4>1, <4>3, <4>4, Zenon
    <3> QED  BY <3>1, <3>2, Zenon
  <2>3. ASSUME NEW a \in Bufs, NEW q \in Procs, buf'[a].locked = q
        PROVE  pr'[q].pc \in Owning /\ pr'[q].b = a
    <3>1. CASE a = b
      <4>1. q = p /\ pr'[p].pc \in Owning
        BY <1>5, <2>3, <3>1, Zenon
      <4>2. pr'[p].pc # "idle"
        BY <4>1 DEF Owning
      <4> QED  BY <3>1, <4>1, <4>2, Zenon
    <3>2. CASE a # b
      <4>1. buf[a].locked = q
        BY <2>3, <3>2, Zenon
      <4>2. pr[q].pc \in Owning /\ B(q) = a
        BY <1>1, <4>1, Zenon DEF LockOK
      <4>3. pr[q].pc # "idle"
        BY <4>2 DEF Owning
      <4>4. q # p
        BY <3>2, <4>2, <4>3, Zenon
      <4> QED  BY <4>2, <4>4, Zenon DEF Same, B
    <3> QED  BY <3>1, <3>2, Zenon
  <2> QED  BY <2>1, <2>2, <2>3, Zenon DEF LockOK, B
<1>7. PlaceOK'
  <2> SUFFICES ASSUME NEW q \in Procs, q # p PROVE PlaceOf(q)'
    BY Zenon DEF PlaceOK
  <2>1. PlaceOf(q) /\ Same(q)
    BY <1>1, Zenon DEF PlaceOK
  <2>2. CASE pr[q].pc \in Owning
    <3>1. B(q) \in Bufs /\ B(q) # b
      BY <1>2, <2>2, Zenon
    <3>2. /\ buf'[B(q)] = buf[B(q)]
          /\ disk'[buf[B(q)].blockno] = disk[buf[B(q)].blockno]
          /\ latest'[buf[B(q)].blockno] = latest[buf[B(q)].blockno]
      BY <1>4, <3>1, Zenon
    <3>3. pr'[q].pc = pr[q].pc /\ pr'[q].b = B(q) /\ pr'[q].write = pr[q].write
      BY <2>1, Zenon DEF Same, B
    <3>4. /\ buf'[pr'[q].b].valid = buf[B(q)].valid /\ buf'[pr'[q].b].blockno = buf[B(q)].blockno
          /\ disk'[buf'[pr'[q].b].blockno] = disk[buf[B(q)].blockno]
          /\ latest'[buf'[pr'[q].b].blockno] = latest[buf[B(q)].blockno]
      BY <3>2, <3>3, Zenon
    <3> QED  BY <2>1, <3>3, <3>4, Moved, Zenon
  <2>3. CASE pr[q].pc \notin Owning
    <3>1. pr[q].pc \notin {"have", "rw", "io", "written", "rel"}
      BY <2>3, Zenon DEF Owning
    <3>2. pr[q].pc = "lock" => ~pr[q].write
      BY <2>1, Zenon DEF PlaceOf
    <3>3. pr'[q].pc = pr[q].pc /\ pr'[q].write = pr[q].write
      BY <2>1, Zenon DEF Same
    <3> QED  BY <3>1, <3>2, <3>3, NoPlace, Zenon
  <2> QED  BY <2>2, <2>3, Zenon
<1>8. OneBuffer'
  <2> SUFFICES ASSUME NEW x \in Bufs, NEW y \in Bufs, buf'[x].blockno = buf'[y].blockno PROVE x = y
    BY Zenon DEF OneBuffer
  <2>1. buf[x].blockno = buf[y].blockno
    BY <1>3, Zenon
  <2> QED  BY <1>1, <2>1, Zenon DEF OneBuffer
<1>9. ASSUME NEW a \in Bufs PROVE DataOf(a)'
  <2>1. CASE a = b
    BY <2>1, Zenon
  <2>2. CASE a # b
    <3>1. Writing(a) => Writing(a)'
      <4> SUFFICES ASSUME Writing(a) PROVE Writing(a)'
        OBVIOUS
      <4>1. PICK q \in Procs : pr[q].pc \in {"rw", "io"} /\ pr[q].write /\ B(q) = a
        BY Zenon DEF Writing
      <4>2. pr[q].pc # "idle"
        BY <4>1
      <4>3. q # p
        BY <2>2, <4>1, <4>2, Zenon
      <4> QED  BY <4>1, <4>3, Zenon DEF Writing, Same, B
    <3>2. DataOf(a)
      BY <1>1, Zenon DEF DataOK
    <3>3. /\ buf'[a] = buf[a] /\ disk'[buf[a].blockno] = disk[buf[a].blockno]
          /\ latest'[buf[a].blockno] = latest[buf[a].blockno]
      BY <1>4, <2>2, Zenon
    <3> QED  BY <3>1, <3>2, <3>3, Zenon DEF DataOf
  <2> QED  BY <2>1, <2>2, Zenon
<1>10. ASSUME NEW n \in BlockNos, Cached(n)' = {} PROVE disk'[n] = latest'[n]
  <2>1. Cached(n) = {}
    BY <1>3, <1>10, Zenon DEF Cached
  <2>2. n # buf[b].blockno
    BY <2>1, Zenon DEF Cached
  <2>3. disk[n] = latest[n]
    BY <1>1, <2>1, Zenon DEF DataOK
  <2> QED  BY <2>2, <2>3, Zenon
<1> QED  BY <1>6, <1>7, <1>8, <1>9, <1>10, Zenon DEF DataOK

\* A step that changes no buffer but for references and the disk's mark, and no
\* process that owns one.
LEMMA RefStep ==
  ASSUME CacheInv,
         \A a \in Bufs : /\ buf'[a].blockno = buf[a].blockno /\ buf'[a].valid = buf[a].valid
                         /\ buf'[a].locked = buf[a].locked /\ buf'[a].data = buf[a].data
                         /\ buf'[a].pinned = buf[a].pinned,
         \A q \in Procs : \/ Same(q)
                          \/ /\ pr[q].pc \notin Owning /\ pr'[q].pc \notin Owning /\ ~pr'[q].write
                             /\ pr'[q].pc # "idle" => pr'[q].b \in Bufs,
         disk' = disk, latest' = latest
  PROVE  LockOK' /\ PlaceOK' /\ OneBuffer' /\ DataOK'
<1>1. LockOK /\ PlaceOK /\ OneBuffer /\ DataOK
  BY Zenon DEF CacheInv
<1>2. \A q \in Procs : /\ pr'[q].pc \in Owning <=> pr[q].pc \in Owning
                       /\ pr[q].pc \in Owning => Same(q)
  BY Zenon DEF Same
<1>3. \A q \in Procs : pr[q].pc \in Owning => B(q) \in Bufs
  <2>1. \A q \in Procs : pr[q].pc \in Owning => pr[q].pc # "idle"
    BY DEF Owning
  <2> QED  BY <1>1, <2>1, Zenon DEF LockOK
<1>4. LockOK'
  <2>1. \A q \in Procs : pr'[q].pc # "idle" => pr'[q].b \in Bufs
    BY <1>1, Zenon DEF LockOK, Same, B
  <2>2. ASSUME NEW q \in Procs, pr'[q].pc \in Owning PROVE buf'[pr'[q].b].locked = q
    <3>1. pr[q].pc \in Owning /\ Same(q)
      BY <1>2, <2>2, Zenon
    <3>2. pr'[q].b = B(q)
      BY <3>1, Zenon DEF Same, B
    <3>3. B(q) \in Bufs /\ buf[B(q)].locked = q
      BY <1>1, <3>1, OwnerHas, Zenon
    <3> QED  BY <3>2, <3>3, Zenon
  <2>3. ASSUME NEW a \in Bufs, NEW q \in Procs, buf'[a].locked = q
        PROVE  pr'[q].pc \in Owning /\ pr'[q].b = a
    <3>1. buf[a].locked = q
      BY <2>3, Zenon
    <3>2. pr[q].pc \in Owning /\ B(q) = a
      BY <1>1, <3>1, Zenon DEF LockOK
    <3>3. Same(q) /\ pr'[q].pc \in Owning
      BY <1>2, <3>2, Zenon
    <3> QED  BY <3>2, <3>3, Zenon DEF Same, B
  <2> QED  BY <2>1, <2>2, <2>3, Zenon DEF LockOK, B
<1>5. PlaceOK'
  <2> SUFFICES ASSUME NEW q \in Procs PROVE PlaceOf(q)'
    BY Zenon DEF PlaceOK
  <2>1. PlaceOf(q)
    BY <1>1, Zenon DEF PlaceOK
  <2>2. CASE pr[q].pc \in Owning
    <3>1. B(q) \in Bufs /\ Same(q)
      BY <1>2, <1>3, <2>2, Zenon
    <3> QED  BY <2>1, <3>1, Zenon DEF PlaceOf, Same, B
  <2>3. CASE pr[q].pc \notin Owning
    <3>1. pr'[q].pc \notin {"have", "rw", "io", "written", "rel"}
      BY <1>2, <2>3, Zenon DEF Owning
    <3>2. pr'[q].pc \in {"lock", "have"} => ~pr'[q].write
      BY <2>1, Zenon DEF PlaceOf, Same
    <3> QED  BY <3>1, <3>2 DEF PlaceOf
  <2> QED  BY <2>2, <2>3, Zenon
<1>6. OneBuffer'
  <2> SUFFICES ASSUME NEW x \in Bufs, NEW y \in Bufs, buf'[x].blockno = buf'[y].blockno PROVE x = y
    BY Zenon DEF OneBuffer
  <2>1. buf[x].blockno = buf[y].blockno
    BY Zenon
  <2> QED  BY <1>1, <2>1, Zenon DEF OneBuffer
<1>7. ASSUME NEW a \in Bufs PROVE DataOf(a)'
  <2>1. Writing(a) => Writing(a)'
    <3> SUFFICES ASSUME Writing(a) PROVE Writing(a)'
      OBVIOUS
    <3>1. PICK q \in Procs : pr[q].pc \in {"rw", "io"} /\ pr[q].write /\ B(q) = a
      BY Zenon DEF Writing
    <3>2. pr[q].pc \in Owning
      BY <3>1 DEF Owning
    <3> QED  BY <1>2, <3>1, <3>2, Zenon DEF Writing, Same, B
  <2>2. DataOf(a)
    BY <1>1, Zenon DEF DataOK
  <2> QED  BY <2>1, <2>2, Zenon DEF DataOf
<1>8. ASSUME NEW n \in BlockNos, Cached(n)' = {} PROVE disk'[n] = latest'[n]
  <2>1. Cached(n) = {}
    BY <1>8, Zenon DEF Cached
  <2> QED  BY <1>1, <2>1, Zenon DEF DataOK
<1> QED  BY <1>4, <1>5, <1>6, <1>7, <1>8, Zenon DEF DataOK

\* Who requests has a buffer.
LEMMA RequestingBuffer ==
  ASSUME LockOK
  PROVE  \A q \in Procs : Requesting(q) => B(q) \in Bufs /\ buf[B(q)].locked = q /\ pr[q].pc \in Owning
<1>1. \A q \in Procs : Requesting(q) => pr[q].pc \in Owning /\ pr[q].pc # "idle"
  BY DEF Requesting, Owning
<1> QED  BY <1>1, Zenon DEF LockOK

\* A step of the cache leaves the requests as they are.
LEMMA DriverKept ==
  ASSUME DriverTypes, LockOK, ChainsOK, NEW Q, NEW D, StagesOK(Q, D), UNCHANGED dvars,
         \A q \in Procs : Requesting(q)' <=> Requesting(q),
         \A q \in Procs : Requesting(q) =>
            /\ Same(q) /\ buf'[B(q)].blockno = buf[B(q)].blockno /\ buf'[B(q)].data = buf[B(q)].data
            /\ latest'[buf[B(q)].blockno] = latest[buf[B(q)].blockno],
         \A a \in Bufs : buf'[a].disk = buf[a].disk
  PROVE  DriverTypes' /\ ChainsOK' /\ StagesOK(Q, D)'
<1>1. /\ desc' = desc /\ ops' = ops /\ info' = info /\ avail' = avail /\ used' = used
      /\ used_idx' = used_idx /\ disk' = disk /\ taken' = taken /\ inflight' = inflight
  BY Zenon DEF dvars
<1>2. DriverTypes'
  BY <1>1, Zenon DEF DriverTypes
<1>3. \A q \in Procs : Requesting(q) => B(q) \in Bufs
  BY RequestingBuffer, Zenon
<1>4. \A q \in Procs : Requesting(q) => Chain(pr[q].head)' = Chain(pr[q].head)
  BY <1>1, Zenon DEF Chain, Same
<1>5. ChainsOK'
  <2>1. ASSUME NEW q \in Procs, Requesting(q)' PROVE RequestOK(q)'
    <3>1. RequestOK(q) /\ Requesting(q)
      BY <2>1, Zenon DEF ChainsOK
    <3> QED  BY <1>1, <3>1, Zenon DEF RequestOK, Same, B
  <2>2. \A i \in Descs : ~desc'[i].free <=> \E q \in Procs : Requesting(q)' /\ i \in Chain(pr[q].head)'
    <3> SUFFICES ASSUME NEW i \in Descs
                 PROVE  ~desc'[i].free <=> \E q \in Procs : Requesting(q)' /\ i \in Chain(pr[q].head)'
      BY Zenon
    <3>1. \A q \in Procs : Requesting(q)' /\ i \in Chain(pr[q].head)'
                            <=> Requesting(q) /\ i \in Chain(pr[q].head)
      BY <1>4, Zenon
    <3>2. ~desc[i].free <=> \E q \in Procs : Requesting(q) /\ i \in Chain(pr[q].head)
      BY Zenon DEF ChainsOK
    <3> QED  BY <1>1, <3>1, <3>2, Zenon
  <2>3. ASSUME NEW p \in Procs, NEW q \in Procs, NEW i \in Descs, Requesting(p)', Requesting(q)',
               i \in Chain(pr[p].head)', i \in Chain(pr[q].head)'
        PROVE  p = q
    <3>1. Requesting(p) /\ Requesting(q) /\ i \in Chain(pr[p].head) /\ i \in Chain(pr[q].head)
      BY <1>4, <2>3, Zenon
    <3> QED  BY <3>1, Zenon DEF ChainsOK
  <2> QED  BY <2>1, <2>2, <2>3, Zenon DEF ChainsOK
<1>6. StagesOK(Q, D)'
  <2>1. /\ RingOK(avail'.ring, taken', avail'.idx, Q) /\ RingOK(used'.ring, used_idx', used'.idx, D)
        /\ Q \cap inflight' = {} /\ Q \cap D = {} /\ inflight' \cap D = {}
        /\ Q \subseteq Descs /\ D \subseteq Descs
        /\ \A h \in D : info'[h].status = 0
    BY <1>1, Zenon DEF StagesOK
  <2>2. \A q \in Procs : Requesting(q)' =>
          /\ buf'[pr'[q].b].disk <=> pr'[q].head \in Q \cup inflight' \cup D
          /\ pr'[q].head \notin Q \cup inflight'
               => /\ buf'[pr'[q].b].data = latest'[buf'[pr'[q].b].blockno]
                  /\ disk'[buf'[pr'[q].b].blockno] = latest'[buf'[pr'[q].b].blockno]
    <3> SUFFICES ASSUME NEW q \in Procs, Requesting(q)'
                 PROVE  /\ buf'[pr'[q].b].disk <=> pr'[q].head \in Q \cup inflight' \cup D
                        /\ pr'[q].head \notin Q \cup inflight'
                           => /\ buf'[pr'[q].b].data = latest'[buf'[pr'[q].b].blockno]
                              /\ disk'[buf'[pr'[q].b].blockno] = latest'[buf'[pr'[q].b].blockno]
      BY Zenon
    <3>1. /\ Requesting(q) /\ B(q) \in Bufs /\ pr'[q].b = B(q) /\ pr'[q].head = pr[q].head
          /\ buf'[B(q)].disk = buf[B(q)].disk
          /\ buf'[B(q)].blockno = buf[B(q)].blockno /\ buf'[B(q)].data = buf[B(q)].data
          /\ latest'[buf[B(q)].blockno] = latest[buf[B(q)].blockno]
      BY <1>3, Zenon DEF Same, B
    <3>2. buf[B(q)].disk <=> pr[q].head \in Q \cup inflight \cup D
      BY <3>1, Zenon DEF StagesOK
    <3>3. pr[q].head \notin Q \cup inflight
            => /\ buf[B(q)].data = latest[buf[B(q)].blockno]
               /\ disk[buf[B(q)].blockno] = latest[buf[B(q)].blockno]
      BY <3>1, Zenon DEF StagesOK
    <3> QED  BY <1>1, <3>1, <3>2, <3>3, Zenon
  <2>3. ASSUME NEW h \in Q \cup inflight' \cup D PROVE \E q \in Procs : Requesting(q)' /\ pr'[q].head = h
    <3>1. h \in Q \cup inflight \cup D
      BY <1>1, Zenon
    <3>2. PICK q \in Procs : Requesting(q) /\ pr[q].head = h
      BY <3>1, Zenon DEF StagesOK
    <3>3. Requesting(q)' /\ pr'[q].head = h
      BY <3>2, Zenon DEF Same
    <3> QED  BY <3>3, Zenon
  <2>4. ASSUME NEW a \in Bufs, buf'[a].disk PROVE \E q \in Procs : Requesting(q)' /\ pr'[q].b = a
    <3>1. buf[a].disk
      BY <2>4, Zenon
    <3>2. PICK q \in Procs : Requesting(q) /\ B(q) = a
      BY <3>1, Zenon DEF StagesOK
    <3>3. Requesting(q)' /\ pr'[q].b = a
      BY <3>2, Zenon DEF Same, B
    <3> QED  BY <3>3, Zenon
  <2> QED  BY <2>1, <2>2, <2>3, <2>4, Zenon DEF StagesOK, B
<1> QED  BY <1>2, <1>5, <1>6, Zenon

-----------------------------------------------------------------------------
(***************************************************************************)
(* The steps of the cache.                                                 *)
(***************************************************************************)

\* A set of natural numbers has a least element.
LEMMA LeastNat ==
  ASSUME NEW S \in SUBSET Nat, S # {}
  PROVE  \E m \in S : \A y \in S : m <= y
<1> DEFINE R == OpToRel(<, Nat)
<1>1. \A x, y \in Nat : x < y => <<x, y>> \in R
  BY Zenon DEF OpToRel
<1>2. IsWellFoundedOn(R, Nat)
  BY NatLessThanWellFounded, Zenon
<1> HIDE DEF R
<1>3. PICK m \in S : \A y \in S : ~(<<y, m>> \in R)
  BY <1>2, WFMin, Zenon
<1>4. \A y \in S : m <= y
  <2> TAKE y \in S
  <2>1. ~(y < m) /\ y \in Nat /\ m \in Nat
    BY <1>1, <1>3, Zenon
  <2> QED  BY <2>1
<1> QED  BY <1>4, Zenon

\* The buffer that bget() recycles is one that nobody uses.
LEMMA LeastRecentUnused ==
  ASSUME CacheTypes, Unused # {}
  PROVE  LeastRecent \in Bufs /\ buf[LeastRecent].refcnt = 0
<1>1. NBUF \in Nat /\ Unused \subseteq 1 .. NBUF
  BY SizesAssumption, Zenon DEF Unused
<1> DEFINE S == {NBUF - k : k \in Unused}
<1>2. S \in SUBSET Nat /\ S # {}
  <2>1. \A k \in Unused : NBUF - k \in Nat
    BY <1>1
  <2> QED  BY <2>1, Zenon
<1>3. PICK m \in S : \A y \in S : m <= y
  <2> HIDE DEF S
  <2> QED  BY <1>2, LeastNat, Zenon
<1>4. PICK k \in Unused : m = NBUF - k
  BY <1>3, Zenon
<1>5. \A j \in Unused : j <= k
  <2> TAKE j \in Unused
  <2>1. NBUF - j \in S
    BY Zenon
  <2>2. m <= NBUF - j
    BY <1>3, <2>1, Zenon
  <2> HIDE DEF S
  <2>3. j \in Int /\ k \in Int
    BY <1>1
  <2> QED  BY <1>1, <1>4, <2>2, <2>3
<1> DEFINE c == CHOOSE i \in Unused : \A j \in Unused : j <= i
<1>6. c \in Unused
  BY <1>5, Zenon
<1>7. LeastRecent = lru[c]
  BY Zenon DEF LeastRecent
<1> HIDE DEF c
<1>8. c \in 1 .. NBUF /\ buf[lru[c]].refcnt = 0
  BY <1>6, Zenon DEF Unused
<1>9. lru[c] \in Bufs
  BY <1>8, Zenon DEF CacheTypes
<1> QED  BY <1>7, <1>8, <1>9, Zenon

\* A call begins: p goes from idle to waiting for b, with one reference more.
LEMMA CountGrows ==
  ASSUME CountOK, NEW p \in Procs, NEW b \in Bufs, pr[p].pc = "idle", pr'[p].pc # "idle", pr'[p].b = b,
         \A q \in Procs : q # p => Same(q),
         \A a \in Bufs : a # b => buf'[a].refcnt = buf[a].refcnt /\ buf'[a].pinned = buf[a].pinned,
         buf[b].refcnt \in Nat,
         buf'[b].refcnt = buf[b].refcnt + 1, buf'[b].pinned = buf[b].pinned
  PROVE  CountOK'
<1>1. \A a \in Bufs : a # b => Users(a)' = Users(a)
  BY Zenon DEF Users, Same, B
<1>2. Users(b)' = Users(b) \cup {p} /\ p \notin Users(b)
  BY Zenon DEF Users, Same, B
<1>3. Cardinality(Users(b)') = Cardinality(Users(b)) + 1
  <2>1. IsFiniteSet(Users(b))
    BY UsersFinite, Zenon
  <2>2. Cardinality(Users(b) \cup {p}) = Cardinality(Users(b)) + 1
    BY <1>2, <2>1, FS_AddElement, Zenon
  <2> QED  BY <1>2, <2>2, Zenon
<1>4. buf'[b].refcnt = Cardinality(Users(b)') + (IF buf'[b].pinned THEN 1 ELSE 0)
  <2>1. buf[b].refcnt = Cardinality(Users(b)) + (IF buf[b].pinned THEN 1 ELSE 0)
    BY Zenon DEF CountOK
  <2>2. Cardinality(Users(b)) \in Nat
    BY UsersFinite, Zenon
  <2> QED  BY <1>3, <2>1, <2>2
<1>5. \A a \in Bufs : buf'[a].refcnt = Cardinality(Users(a)') + (IF buf'[a].pinned THEN 1 ELSE 0)
  BY <1>1, <1>4, Zenon DEF CountOK
<1> QED  BY <1>5, Zenon DEF CountOK

\* A call ends.
LEMMA CountShrinks ==
  ASSUME CountOK, NEW p \in Procs, NEW b \in Bufs, pr[p].pc # "idle", pr'[p].pc = "idle", B(p) = b,
         \A q \in Procs : q # p => Same(q),
         \A a \in Bufs : a # b => buf'[a].refcnt = buf[a].refcnt /\ buf'[a].pinned = buf[a].pinned,
         buf'[b].refcnt = buf[b].refcnt - 1, buf'[b].pinned = buf[b].pinned
  PROVE  CountOK' /\ buf[b].refcnt > 0
<1>1. \A a \in Bufs : a # b => Users(a)' = Users(a)
  BY ZenonT(40) DEF Users, Same, B
<1>2. Users(b)' = Users(b) \ {p} /\ p \in Users(b)
  BY Zenon DEF Users, Same, B
<1>3. Cardinality(Users(b)') = Cardinality(Users(b)) - 1
  <2>1. IsFiniteSet(Users(b))
    BY UsersFinite, Zenon
  <2>2. Cardinality(Users(b) \ {p}) = Cardinality(Users(b)) - 1
    BY <1>2, <2>1, FS_RemoveElement, Zenon
  <2> QED  BY <1>2, <2>2, Zenon
<1>4. buf[b].refcnt = Cardinality(Users(b)) + (IF buf[b].pinned THEN 1 ELSE 0)
  BY Zenon DEF CountOK
<1>5. Cardinality(Users(b)) \in Nat /\ Cardinality(Users(b)) # 0
  <2>1. IsFiniteSet(Users(b)) /\ Cardinality(Users(b)) \in Nat
    BY UsersFinite, Zenon
  <2>2. Users(b) # {}
    BY <1>2, Zenon
  <2> QED  BY <2>1, <2>2, FS_EmptySet, Zenon
<1>6. buf'[b].refcnt = Cardinality(Users(b)') + (IF buf'[b].pinned THEN 1 ELSE 0)
  BY <1>3, <1>4, <1>5
<1>7. \A a \in Bufs : buf'[a].refcnt = Cardinality(Users(a)') + (IF buf'[a].pinned THEN 1 ELSE 0)
  BY <1>1, <1>6, Zenon DEF CountOK
<1>8. buf[b].refcnt > 0
  BY <1>4, <1>5
<1> QED  BY <1>7, <1>8, Zenon DEF CountOK

\* A process that begins or ends a call is no owner and requests nothing.
LEMMA Bystander ==
  ASSUME NEW p \in Procs, pr[p].pc \notin Owning, pr'[p].pc \notin Owning,
         \A q \in Procs : q # p => Same(q)
  PROVE  /\ \A q \in Procs : Requesting(q)' <=> Requesting(q)
         /\ \A q \in Procs : Requesting(q) => Same(q)
<1>1. ~Requesting(p) /\ ~Requesting(p)'
  BY DEF Requesting, Owning
<1> QED  BY <1>1, Zenon DEF Requesting, Same

\* The fields of a process that begins a call.
LEMMA Beginning ==
  ASSUME NEW b \in Bufs, NEW op \in {"read", "write", "log", "install"}
  PROVE  LET r == [Resting EXCEPT !.pc = "lock", !.b = b, !.op = op]
         IN r \in Process /\ r.pc = "lock" /\ r.b = b /\ ~r.write
<1> DEFINE r == [Resting EXCEPT !.pc = "lock", !.b = b, !.op = op]
<1>2. 0 \in Descs /\ 0 \in 0 .. NBUF /\ b \in 0 .. NBUF /\ Awake \in Channel
  BY SizesAssumption DEF Descs, Bufs, Awake, Channel
<1>3. "lock" \in Owning \cup {"idle", "lock", "unref"}
  OBVIOUS
<1>4. Resting \in Process /\ Resting.write = FALSE
  <2>1. FALSE \in BOOLEAN /\ "idle" \in Owning \cup {"idle", "lock", "unref"}
        /\ "read" \in {"read", "write", "log", "install"}
    OBVIOUS
  <2>2. Resting \in Process
    BY <1>2, <2>1, Zenon DEF Process, Resting
  <2>3. Resting.write = FALSE
    BY Zenon DEF Resting
  <2> QED  BY <2>2, <2>3, Zenon
<1>5. r \in Process
  BY <1>2, <1>3, <1>4, Zenon DEF Process
<1>6. r.pc = "lock" /\ r.b = b
  BY <1>4 DEF Process
<1>7. r.write = Resting.write
  BY <1>4, Zenon DEF Process
<1> QED  BY <1>4, <1>5, <1>6, <1>7, Zenon

\* bget() finds the block in the cache.
LEMMA bgetCached ==
  ASSUME BInv, NEW p \in Procs, NEW n \in BlockNos, NEW op \in {"read", "write", "log", "install"},
         bget(p, n, op), Cached(n) # {}
  PROVE  BInv'
<1>1. /\ CacheInv /\ CacheTypes /\ CountOK /\ LockOK /\ DriverTypes /\ ChainsOK
      /\ \E Q, D : StagesOK(Q, D)
  BY Zenon DEF BInv, CacheInv
<1>2. PICK b : b = CHOOSE x \in Cached(n) : TRUE
  BY Zenon
<1>3. b \in Bufs
  BY <1>2, Zenon DEF Cached
<1> DEFINE r == [Resting EXCEPT !.pc = "lock", !.b = b, !.op = op]
<1>4. r \in Process /\ r.pc = "lock" /\ r.b = b /\ ~r.write
  BY <1>3, Beginning, Zenon
<1>5. /\ pr[p].pc = "idle" /\ buf' = [buf EXCEPT ![b].refcnt = @ + 1]
      /\ pr' = [pr EXCEPT ![p] = r] /\ count' = count + 1
      /\ lru' = lru /\ latest' = latest /\ UNCHANGED dvars
  BY <1>2, Zenon DEF bget, At
<1> HIDE DEF r
<1>6. disk' = disk
  BY <1>5, Zenon DEF dvars
<1>7. buf[b] \in Buffer /\ buf \in [Bufs -> Buffer] /\ pr \in [Procs -> Process] /\ count \in Nat
  BY <1>1, <1>3, Zenon DEF CacheTypes
<1> DEFINE c == [buf[b] EXCEPT !.refcnt = @ + 1]
<1>8. /\ c \in Buffer
      /\ c.blockno = buf[b].blockno /\ c.locked = buf[b].locked /\ c.data = buf[b].data
      /\ c.refcnt = buf[b].refcnt + 1 /\ buf[b].refcnt \in Nat
  <2>1. buf[b].refcnt \in Nat
    BY <1>7, Zenon DEF Buffer
  <2>2. buf[b].refcnt + 1 \in Nat
    BY <2>1
  <2> QED  BY <1>7, <2>1, <2>2, Zenon DEF Buffer
<1>9. c.valid = buf[b].valid /\ c.pinned = buf[b].pinned /\ c.disk = buf[b].disk
  BY <1>7, Zenon DEF Buffer
<1>10. buf' = [buf EXCEPT ![b] = c]
  BY <1>5, <1>7, Zenon
<1> HIDE DEF c
<1>11. buf' \in [Bufs -> Buffer] /\ buf'[b] = c /\ \A a \in Bufs : a # b => buf'[a] = buf[a]
  BY <1>3, <1>7, <1>8, <1>10, Zenon
<1>12. pr' \in [Procs -> Process] /\ pr'[p] = r /\ \A q \in Procs : q # p => pr'[q] = pr[q]
  BY <1>4, <1>5, <1>7, Zenon
<1>13. CacheTypes'
  <2>1. count' \in Nat
    BY <1>5, <1>7
  <2> QED  BY <1>1, <1>5, <1>6, <1>11, <1>12, <2>1, Zenon DEF CacheTypes
<1>14. \A q \in Procs : q # p => Same(q)
  BY <1>12, Zenon DEF Same
<1>15. pr[p].pc \notin Owning /\ pr'[p].pc \notin Owning /\ pr'[p].pc # "idle"
  BY <1>4, <1>5, <1>12 DEF Owning
<1>16. CountOK'
  <2>1. pr'[p].b = b /\ buf'[b].refcnt = buf[b].refcnt + 1 /\ buf'[b].pinned = buf[b].pinned
    BY <1>4, <1>8, <1>9, <1>11, <1>12, Zenon
  <2>2. \A a \in Bufs : a # b => buf'[a].refcnt = buf[a].refcnt /\ buf'[a].pinned = buf[a].pinned
    BY <1>11, Zenon
  <2> QED  BY <1>1, <1>3, <1>5, <1>8, <1>14, <1>15, <2>1, <2>2, CountGrows, Zenon
<1>17. \A a \in Bufs : /\ buf'[a].blockno = buf[a].blockno /\ buf'[a].valid = buf[a].valid
                       /\ buf'[a].locked = buf[a].locked /\ buf'[a].data = buf[a].data
                       /\ buf'[a].pinned = buf[a].pinned /\ buf'[a].disk = buf[a].disk
  BY <1>8, <1>9, <1>11, Zenon
<1>18. LockOK' /\ PlaceOK' /\ OneBuffer' /\ DataOK'
  <2>1. \A q \in Procs : \/ Same(q)
                         \/ /\ pr[q].pc \notin Owning /\ pr'[q].pc \notin Owning /\ ~pr'[q].write
                            /\ pr'[q].pc # "idle" => pr'[q].b \in Bufs
    BY <1>3, <1>4, <1>12, <1>14, <1>15, Zenon
  <2> QED  BY <1>1, <1>5, <1>6, <1>17, <2>1, RefStep, Zenon
<1>19. PICK Q, D : StagesOK(Q, D)
  BY <1>1, Zenon
<1>20. DriverTypes' /\ ChainsOK' /\ StagesOK(Q, D)'
  <2>1. /\ \A q \in Procs : Requesting(q)' <=> Requesting(q)
        /\ \A q \in Procs : Requesting(q) => Same(q)
    BY <1>14, <1>15, Bystander, Zenon
  <2>2. \A q \in Procs : Requesting(q) => B(q) \in Bufs
    BY <1>1, RequestingBuffer, Zenon
  <2> QED  BY <1>1, <1>5, <1>17, <1>19, <2>1, <2>2, DriverKept, Zenon
<1> QED  BY <1>13, <1>16, <1>18, <1>20, Zenon DEF BInv, CacheInv

\* bget() recycles a buffer: what it held is on the disk.
LEMMA bgetRecycles ==
  ASSUME BInv, NEW p \in Procs, NEW n \in BlockNos, NEW op \in {"read", "write", "log", "install"},
         bget(p, n, op), Cached(n) = {}
  PROVE  BInv'
<1>1. /\ CacheTypes /\ CountOK /\ LockOK /\ PlaceOK /\ OneBuffer /\ DataOK
      /\ DriverTypes /\ ChainsOK /\ \E Q, D : StagesOK(Q, D)
  BY Zenon DEF BInv, CacheInv
<1>2. PICK b : b = LeastRecent
  BY Zenon
<1>3. b \in Bufs /\ buf[b].refcnt = 0
  <2>1. Unused # {}
    BY Zenon DEF bget
  <2> QED  BY <1>1, <1>2, <2>1, LeastRecentUnused, Zenon
<1> DEFINE r == [Resting EXCEPT !.pc = "lock", !.b = b, !.op = op]
<1>4. r \in Process /\ r.pc = "lock" /\ r.b = b /\ ~r.write
  BY <1>3, Beginning, Zenon
<1>5. /\ pr[p].pc = "idle" /\ buf' = Recycled(b, n)
      /\ pr' = [pr EXCEPT ![p] = r] /\ count' = count + 1
      /\ lru' = lru /\ latest' = latest /\ UNCHANGED dvars
  BY <1>2, Zenon DEF bget, At
<1> HIDE DEF r
<1>6. disk' = disk
  BY <1>5, Zenon DEF dvars
<1>7. buf[b] \in Buffer /\ buf \in [Bufs -> Buffer] /\ pr \in [Procs -> Process] /\ count \in Nat
  BY <1>1, <1>3, Zenon DEF CacheTypes
<1> DEFINE c == [buf[b] EXCEPT !.blockno = n, !.valid = FALSE, !.refcnt = 1]
<1>8. c \in Buffer /\ c.blockno = n /\ c.locked = buf[b].locked /\ c.refcnt = 1
  BY <1>7 DEF Buffer
<1>9. ~c.valid /\ c.pinned = buf[b].pinned /\ c.disk = buf[b].disk
  BY <1>7, Zenon DEF Buffer
<1>10. buf' = [buf EXCEPT ![b] = c]
  BY <1>3, <1>5, <1>7 DEF Recycled
<1> HIDE DEF c
<1>11. buf' \in [Bufs -> Buffer] /\ buf'[b] = c /\ \A a \in Bufs : a # b => buf'[a] = buf[a]
  BY <1>3, <1>7, <1>8, <1>10, Zenon
<1>12. pr' \in [Procs -> Process] /\ pr'[p] = r /\ \A q \in Procs : q # p => pr'[q] = pr[q]
  BY <1>4, <1>5, <1>7, Zenon
<1>13. CacheTypes'
  <2>1. count' \in Nat
    BY <1>5, <1>7
  <2> QED  BY <1>1, <1>5, <1>6, <1>11, <1>12, <2>1, Zenon DEF CacheTypes
<1>14. \A q \in Procs : q # p => Same(q)
  BY <1>12, Zenon DEF Same
<1>15. pr[p].pc \notin Owning /\ pr'[p].pc \notin Owning /\ pr'[p].pc # "idle"
  BY <1>4, <1>5, <1>12 DEF Owning
<1>16. /\ ~buf[b].pinned /\ \A q \in Procs : buf[b].locked # q
       /\ \A q \in Procs : pr[q].pc # "idle" => B(q) # b
  BY <1>1, <1>3, NoReferences, Zenon
<1>17. CountOK'
  <2>1. buf'[b].refcnt = buf[b].refcnt + 1 /\ buf[b].refcnt \in Nat
    BY <1>3, <1>8, <1>11
  <2>2. pr'[p].b = b /\ buf'[b].pinned = buf[b].pinned
    BY <1>4, <1>9, <1>11, <1>12, Zenon
  <2>3. \A a \in Bufs : a # b => buf'[a].refcnt = buf[a].refcnt /\ buf'[a].pinned = buf[a].pinned
    BY <1>11, Zenon
  <2> QED  BY <1>1, <1>3, <1>5, <1>14, <1>15, <2>1, <2>2, <2>3, CountGrows, Zenon
<1>18. \A q \in Procs : pr[q].pc \in Owning =>
          q # p /\ B(q) \in Bufs /\ B(q) # b /\ pr'[q] = pr[q] /\ buf'[B(q)] = buf[B(q)]
  <2>1. \A q \in Procs : pr[q].pc \in Owning => pr[q].pc # "idle"
    BY DEF Owning
  <2> QED  BY <1>1, <1>11, <1>12, <1>15, <1>16, <2>1, Zenon DEF LockOK
<1>19. \A a \in Bufs : buf[a].blockno # n
  BY Zenon DEF Cached
<1>20. LockOK'
  <2>1. \A q \in Procs : pr'[q].pc # "idle" => pr'[q].b \in Bufs
    BY <1>1, <1>3, <1>4, <1>12, Zenon DEF LockOK, B
  <2>2. ASSUME NEW q \in Procs, pr'[q].pc \in Owning PROVE buf'[pr'[q].b].locked = q
    <3>1. q # p
      BY <1>15, <2>2, Zenon
    <3>2. pr'[q] = pr[q] /\ pr[q].pc \in Owning
      BY <1>12, <2>2, <3>1, Zenon
    <3>3. pr'[q].b = B(q) /\ buf'[B(q)] = buf[B(q)]
      BY <1>18, <3>2, Zenon DEF B
    <3>4. buf[B(q)].locked = q
      BY <1>1, <3>2, OwnerHas, Zenon
    <3> QED  BY <3>3, <3>4, Zenon
  <2>3. \A a \in Bufs : \A q \in Procs : buf'[a].locked = q => a # b /\ buf[a].locked = q
    BY <1>8, <1>11, <1>16, Zenon
  <2>4. ASSUME NEW a \in Bufs, NEW q \in Procs, buf'[a].locked = q
        PROVE  pr'[q].pc \in Owning /\ pr'[q].b = a
    <3>1. buf[a].locked = q
      BY <2>3, <2>4, Zenon
    <3>2. pr[q].pc \in Owning /\ B(q) = a
      BY <1>1, <3>1, Zenon DEF LockOK
    <3> QED  BY <1>18, <3>2, Zenon DEF B
  <2> QED  BY <2>1, <2>2, <2>4, Zenon DEF LockOK, B
<1>21. PlaceOK'
  <2> SUFFICES ASSUME NEW q \in Procs PROVE PlaceOf(q)'
    BY Zenon DEF PlaceOK
  <2>1. CASE pr[q].pc \in Owning
    <3>1. PlaceOf(q) /\ pr'[q] = pr[q] /\ buf'[B(q)] = buf[B(q)]
      BY <1>1, <1>18, <2>1, Zenon DEF PlaceOK
    <3>2. pr'[q].pc = pr[q].pc /\ pr'[q].b = B(q) /\ pr'[q].write = pr[q].write
      BY <3>1, Zenon DEF B
    <3>3. /\ buf'[pr'[q].b].valid = buf[B(q)].valid /\ buf'[pr'[q].b].blockno = buf[B(q)].blockno
          /\ disk'[buf'[pr'[q].b].blockno] = disk[buf[B(q)].blockno]
          /\ latest'[buf'[pr'[q].b].blockno] = latest[buf[B(q)].blockno]
      BY <1>5, <1>6, <3>1, <3>2, Zenon
    <3> QED  BY <3>1, <3>2, <3>3, Moved, Zenon
  <2>2. CASE pr[q].pc \notin Owning
    <3>1. pr'[q].pc \notin Owning
      BY <1>12, <1>15, <2>2, Zenon
    <3>2. pr'[q].pc \notin {"have", "rw", "io", "written", "rel"}
      BY <3>1, Zenon DEF Owning
    <3>3. pr'[q].pc = "lock" => ~pr'[q].write
      <4>1. pr[q].pc = "lock" => ~pr[q].write
        BY <1>1 DEF PlaceOK, PlaceOf
      <4> QED  BY <1>4, <1>12, <4>1, Zenon
    <3> QED  BY <3>2, <3>3 DEF PlaceOf
  <2> QED  BY <2>1, <2>2, Zenon
<1>22. OneBuffer'
  BY <1>1, <1>8, <1>11, <1>19, ZenonT(40) DEF OneBuffer
<1>23. ASSUME NEW m \in BlockNos, Cached(m) = {} \/ m = buf[b].blockno
       PROVE  disk[m] = latest[m]
  <2>1. CASE Cached(m) = {}
    BY <1>1, <2>1, Zenon DEF DataOK
  <2>2. CASE m = buf[b].blockno
    <3>1. ~Writing(b)
      <4> SUFFICES ASSUME Writing(b) PROVE FALSE
        OBVIOUS
      <4>1. PICK q \in Procs : pr[q].pc \in {"rw", "io"} /\ pr[q].write /\ B(q) = b
        BY Zenon DEF Writing
      <4>2. pr[q].pc # "idle"
        BY <4>1
      <4> QED  BY <1>16, <4>1, <4>2, Zenon
    <3>2. DataOf(b)
      BY <1>1, <1>3, Zenon DEF DataOK
    <3> QED  BY <1>16, <2>2, <3>1, <3>2, Zenon DEF DataOf
  <2> QED  BY <1>23, <2>1, <2>2, Zenon
<1>24. DataOK'
  <2>1. ASSUME NEW a \in Bufs PROVE DataOf(a)'
    <3>1. CASE a = b
      <4>1. disk[n] = latest[n]
        BY <1>23, Zenon
      <4> QED  BY <1>5, <1>6, <1>8, <1>9, <1>11, <3>1, <4>1, Zenon DEF DataOf
    <3>2. CASE a # b
      <4>1. Writing(a) => Writing(a)'
        <5> SUFFICES ASSUME Writing(a) PROVE Writing(a)'
          OBVIOUS
        <5>1. PICK q \in Procs : pr[q].pc \in {"rw", "io"} /\ pr[q].write /\ B(q) = a
          BY Zenon DEF Writing
        <5>2. pr[q].pc \in Owning
          BY <5>1 DEF Owning
        <5> QED  BY <1>18, <5>1, <5>2, Zenon DEF Writing, B
      <4>2. DataOf(a) /\ buf'[a] = buf[a]
        BY <1>1, <1>11, <3>2, Zenon DEF DataOK
      <4> QED  BY <1>5, <1>6, <4>1, <4>2, Zenon DEF DataOf
    <3> QED  BY <3>1, <3>2, Zenon
  <2>2. ASSUME NEW m \in BlockNos, Cached(m)' = {} PROVE disk'[m] = latest'[m]
    <3>1. \A a \in Bufs : a # b => buf[a].blockno # m
      BY <1>11, <2>2, Zenon DEF Cached
    <3>2. Cached(m) = {} \/ m = buf[b].blockno
      BY <3>1, Zenon DEF Cached
    <3> QED  BY <1>5, <1>6, <1>23, <3>2, Zenon
  <2> QED  BY <2>1, <2>2, Zenon DEF DataOK
<1>25. PICK Q, D : StagesOK(Q, D)
  BY <1>1, Zenon
<1>26. DriverTypes' /\ ChainsOK' /\ StagesOK(Q, D)'
  <2>1. /\ \A q \in Procs : Requesting(q)' <=> Requesting(q)
        /\ \A q \in Procs : Requesting(q) => Same(q)
    BY <1>14, <1>15, Bystander, Zenon
  <2>2. \A q \in Procs : Requesting(q) => buf'[B(q)] = buf[B(q)]
    BY <1>1, <1>18, RequestingBuffer, Zenon
  <2>3. \A a \in Bufs : buf'[a].disk = buf[a].disk
    BY <1>9, <1>11, Zenon
  <2> QED  BY <1>1, <1>5, <1>25, <2>1, <2>2, <2>3, DriverKept, Zenon
<1> QED  BY <1>13, <1>17, <1>20, <1>21, <1>22, <1>24, <1>26, Zenon DEF BInv, CacheInv

\* A step that only sends processes to sleep or wakes them.
LEMMA ChannelStep ==
  ASSUME BInv, pr' \in [Procs -> Process], \A q \in Procs : Same(q),
         UNCHANGED <<buf, lru, dvars, latest, count>>
  PROVE  BInv'
<1>1. /\ CacheInv /\ CacheTypes /\ CountOK /\ LockOK /\ DriverTypes /\ ChainsOK
      /\ \E Q, D : StagesOK(Q, D)
  BY Zenon DEF BInv, CacheInv
<1>2. buf' = buf /\ lru' = lru /\ latest' = latest /\ count' = count /\ disk' = disk /\ UNCHANGED dvars
  BY Zenon DEF dvars
<1>3. CacheTypes'
  BY <1>1, <1>2, Zenon DEF CacheTypes
<1>4. CountOK'
  <2>1. \A a \in Bufs : Users(a)' = Users(a)
    BY Zenon DEF Users, B, Same
  <2> QED  BY <1>1, <1>2, <2>1, Zenon DEF CountOK
<1>5. LockOK' /\ PlaceOK' /\ OneBuffer' /\ DataOK'
  BY <1>1, <1>2, RefStep, Zenon
<1>6. PICK Q, D : StagesOK(Q, D)
  BY <1>1, Zenon
<1>7. DriverTypes' /\ ChainsOK' /\ StagesOK(Q, D)'
  <2>1. \A q \in Procs : Requesting(q)' <=> Requesting(q)
    BY Zenon DEF Requesting, Same
  <2> QED  BY <1>1, <1>2, <1>6, <2>1, DriverKept, Zenon
<1> QED  BY <1>3, <1>4, <1>5, <1>7, Zenon DEF BInv, CacheInv

\* A step of p on its buffer b, outside of the driver.
LEMMA OwnerStep ==
  ASSUME BInv, NEW p \in Procs, NEW b \in Bufs, NEW c \in Buffer, B(p) = b, pr'[p].b = b,
         pr[p].pc \notin {"idle", "io"}, pr'[p].pc \notin {"idle", "io"},
         \A q \in Procs : buf[b].locked = q => q = p,
         pr' \in [Procs -> Process], \A q \in Procs : q # p => Same(q),
         buf' = [buf EXCEPT ![b] = c], c.blockno = buf[b].blockno, c.disk = buf[b].disk,
         \/ c.refcnt = buf[b].refcnt /\ c.pinned = buf[b].pinned
         \/ c.refcnt = buf[b].refcnt + 1 /\ ~buf[b].pinned /\ c.pinned
         \/ c.refcnt = buf[b].refcnt - 1 /\ buf[b].pinned /\ ~c.pinned,
         UNCHANGED <<lru, dvars, count>>, latest' \in [BlockNos -> Int],
         \A n \in BlockNos : n # buf[b].blockno => latest'[n] = latest[n],
         pr'[p].pc \in Owning => c.locked = p, pr'[p].pc \notin Owning => c.locked = 0,
         PlaceOf(p)', DataOf(b)'
  PROVE  BInv'
<1>1. /\ CacheInv /\ CacheTypes /\ CountOK /\ LockOK /\ OneBuffer /\ DriverTypes /\ ChainsOK
      /\ \E Q, D : StagesOK(Q, D)
  BY Zenon DEF BInv, CacheInv
<1>2. lru' = lru /\ count' = count /\ disk' = disk /\ UNCHANGED dvars
  BY Zenon DEF dvars
<1>3. buf \in [Bufs -> Buffer]
  BY <1>1, Zenon DEF CacheTypes
<1>4. buf' \in [Bufs -> Buffer] /\ buf'[b] = c /\ \A a \in Bufs : a # b => buf'[a] = buf[a]
  BY <1>3, Zenon
<1>5. CacheTypes'
  BY <1>1, <1>2, <1>4, Zenon DEF CacheTypes
<1>6. CountOK'
  <2>1. \A q \in Procs : pr'[q].b = pr[q].b /\ (pr'[q].pc # "idle" <=> pr[q].pc # "idle")
    <3>1. pr'[p].pc # "idle" /\ pr[p].pc # "idle"
      OBVIOUS
    <3> QED  BY <3>1, Zenon DEF Same, B
  <2>2. \A a \in Bufs : buf[a].refcnt \in Nat
    BY <1>3 DEF Buffer
  <2>3. \A a \in Bufs : \/ buf'[a].refcnt = buf[a].refcnt /\ buf'[a].pinned = buf[a].pinned
                        \/ buf'[a].refcnt = buf[a].refcnt + 1 /\ ~buf[a].pinned /\ buf'[a].pinned
                        \/ buf'[a].refcnt = buf[a].refcnt - 1 /\ buf[a].pinned /\ ~buf'[a].pinned
    BY <1>4, Zenon
  <2> QED  BY <1>1, <2>1, <2>2, <2>3, CountKept, Zenon
<1>7. LockOK' /\ PlaceOK' /\ OneBuffer' /\ DataOK'
  <2>1. \A n \in BlockNos : n # buf[b].blockno => disk'[n] = disk[n] /\ latest'[n] = latest[n]
    BY <1>2, Zenon
  <2>2. buf'[b].blockno = buf[b].blockno
    BY <1>4, Zenon
  <2>3. (pr'[p].pc \in Owning => buf'[b].locked = p) /\ (pr'[p].pc \notin Owning => buf'[b].locked = 0)
    BY <1>4, Zenon
  <2> QED  BY <1>1, <1>4, <2>1, <2>2, <2>3, LocalStep, Zenon
<1>8. PICK Q, D : StagesOK(Q, D)
  BY <1>1, Zenon
<1>9. DriverTypes' /\ ChainsOK' /\ StagesOK(Q, D)'
  <2>1. ~Requesting(p) /\ ~Requesting(p)'
    BY DEF Requesting
  <2>2. \A q \in Procs : Requesting(q)' <=> Requesting(q)
    BY <2>1, Zenon DEF Requesting, Same
  <2>3. ASSUME NEW q \in Procs, Requesting(q)
        PROVE  Same(q) /\ buf'[B(q)] = buf[B(q)] /\ latest'[buf[B(q)].blockno] = latest[buf[B(q)].blockno]
    <3>1. q # p
      BY <2>1, <2>3, Zenon
    <3>2. B(q) \in Bufs /\ buf[B(q)].locked = q
      BY <1>1, <2>3, RequestingBuffer, Zenon
    <3>3. B(q) # b
      BY <3>1, <3>2, Zenon
    <3>4. buf[B(q)].blockno \in BlockNos /\ buf[B(q)].blockno # buf[b].blockno
      <4>1. buf[B(q)] \in Buffer
        BY <1>3, <3>2, Zenon
      <4>2. buf[B(q)].blockno \in BlockNos
        BY <4>1 DEF Buffer
      <4> QED  BY <1>1, <3>2, <3>3, <4>2, Zenon DEF OneBuffer
    <3> QED  BY <1>4, <3>1, <3>2, <3>3, <3>4, Zenon
  <2>4. \A a \in Bufs : buf'[a].disk = buf[a].disk
    BY <1>4, Zenon
  <2> QED  BY <1>1, <1>2, <1>8, <2>2, <2>3, <2>4, DriverKept, Zenon
<1> QED  BY <1>5, <1>6, <1>7, <1>9, Zenon DEF BInv, CacheInv

\* Of two assignments the last one counts.
LEMMA Twice ==
  ASSUME NEW S, NEW V, NEW f \in [S -> V], NEW x \in S, NEW v, NEW t, t = [f EXCEPT ![x] = v]
  PROVE  t[x] = v /\ \A w : [t EXCEPT ![x] = w] = [f EXCEPT ![x] = w]
<1> SUFFICES ASSUME NEW w PROVE t[x] = v /\ [t EXCEPT ![x] = w] = [f EXCEPT ![x] = w]
  BY Zenon
<1>1. t = [y \in S |-> IF y = x THEN v ELSE f[y]]
  OBVIOUS
<1> QED  BY <1>1

\* A process goes on to x.
GoingOn(s, p, w, x) == [s EXCEPT ![p].write = w, ![p].pc = x]
LEMMA GoesOn ==
  ASSUME NEW s \in [Procs -> Process], NEW p \in Procs, NEW w \in BOOLEAN,
         NEW x \in Owning \cup {"idle", "lock", "unref"},
         NEW t, t = GoingOn(s, p, w, x)
  PROVE  /\ t \in [Procs -> Process]
         /\ t[p].pc = x /\ t[p].write = w /\ t[p].b = s[p].b /\ t[p].op = s[p].op
         /\ t[p].head = s[p].head
         /\ \A q \in Procs : q # p => t[q] = s[q]
<1> DEFINE r == [s[p] EXCEPT !.write = w, !.pc = x]
<1>1. s[p] \in Process
  OBVIOUS
<1>2. r \in Process
  BY <1>1, Zenon DEF Process
<1>3. r.pc = x /\ r.b = s[p].b /\ r.op = s[p].op /\ r.head = s[p].head
  BY <1>1 DEF Process
<1>4. r.write = w
  BY <1>1, Zenon DEF Process
<1>5. t = [s EXCEPT ![p] = r]
  BY <1>1 DEF GoingOn
<1> HIDE DEF r
<1>6. t \in [Procs -> Process] /\ t[p] = r /\ \A q \in Procs : q # p => t[q] = s[q]
  BY <1>2, <1>5, Zenon
<1> QED  BY <1>3, <1>4, <1>6, Zenon

\* The same where only pc changes.
LEMMA MovesOn ==
  ASSUME NEW s \in [Procs -> Process], NEW p \in Procs, NEW x \in Owning \cup {"idle", "lock", "unref"},
         NEW t, t = [s EXCEPT ![p].pc = x]
  PROVE  /\ t \in [Procs -> Process]
         /\ t[p].pc = x /\ t[p].write = s[p].write /\ t[p].b = s[p].b /\ t[p].op = s[p].op
         /\ t[p].head = s[p].head
         /\ \A q \in Procs : q # p => t[q] = s[q]
<1> DEFINE r == [s[p] EXCEPT !.pc = x]
<1>1. s[p] \in Process
  OBVIOUS
<1>2. r \in Process
  BY <1>1, Zenon DEF Process
<1>3. r.pc = x /\ r.b = s[p].b /\ r.op = s[p].op /\ r.head = s[p].head
  BY <1>1 DEF Process
<1>4. r.write = s[p].write
  BY <1>1, Zenon DEF Process
<1>5. t = [s EXCEPT ![p] = r]
  BY <1>1, Zenon
<1> HIDE DEF r
<1>6. t \in [Procs -> Process] /\ t[p] = r /\ \A q \in Procs : q # p => t[q] = s[q]
  BY <1>2, <1>5, Zenon
<1> QED  BY <1>3, <1>4, <1>6, Zenon

\* The same where only the channel changes.
LEMMA GoesToSleep ==
  ASSUME NEW s \in [Procs -> Process], NEW p \in Procs, NEW ch \in Channel,
         NEW t, t = [s EXCEPT ![p].chan = ch]
  PROVE  /\ t \in [Procs -> Process]
         /\ \A q \in Procs : /\ t[q].pc = s[q].pc /\ t[q].write = s[q].write /\ t[q].b = s[q].b
                             /\ t[q].head = s[q].head
<1> DEFINE r == [s[p] EXCEPT !.chan = ch]
<1>1. s[p] \in Process
  OBVIOUS
<1>2. r \in Process
  BY <1>1, Zenon DEF Process
<1>3. r.pc = s[p].pc /\ r.b = s[p].b /\ r.head = s[p].head
  BY <1>1 DEF Process
<1>4. r.write = s[p].write
  BY <1>1, Zenon DEF Process
<1>5. t = [s EXCEPT ![p] = r]
  BY <1>1, Zenon
<1> HIDE DEF r
<1>6. t \in [Procs -> Process] /\ t[p] = r /\ \A q \in Procs : q # p => t[q] = s[q]
  BY <1>2, <1>5, Zenon
<1> QED  BY <1>3, <1>4, <1>6, Zenon

\* acquiresleep()
LEMMA acquiresleepInv ==
  ASSUME BInv, NEW p \in Procs, acquiresleep(p)
  PROVE  BInv'
<1>1. CacheTypes /\ LockOK /\ PlaceOK /\ DataOK
  BY Zenon DEF BInv, CacheInv
<1>2. pr[p].pc = "lock" /\ UNCHANGED <<lru, dvars, latest, count>>
  BY Zenon DEF acquiresleep, At
<1>3. PICK b : b = B(p)
  BY Zenon
<1>4. b \in Bufs
  <2>1. pr[p].pc # "idle"
    BY <1>2
  <2> QED  BY <1>1, <1>3, <2>1, Zenon DEF LockOK
<1>5. buf \in [Bufs -> Buffer] /\ pr \in [Procs -> Process] /\ latest \in [BlockNos -> Int]
  BY <1>1, Zenon DEF CacheTypes
<1>6. CASE MustWait(p)
  <2>1. pr' = [pr EXCEPT ![p].chan = <<"lock", b>>] /\ buf' = buf
    BY <1>3, <1>6, Zenon DEF acquiresleep
  <2>2. <<"lock", b>> \in Channel
    BY <1>4, SizesAssumption DEF Bufs, Channel
  <2>3. pr' \in [Procs -> Process] /\ \A q \in Procs : Same(q)
    BY <1>5, <2>1, <2>2, GoesToSleep DEF Same
  <2> QED  BY <1>2, <2>1, <2>3, ChannelStep, Zenon
<1>7. CASE ~MustWait(p)
  <2> DEFINE c == [buf[b] EXCEPT !.locked = p]
             x == IF buf[b].valid THEN "have" ELSE "rw"
  <2>1. buf' = [buf EXCEPT ![b].locked = p] /\ pr' = [pr EXCEPT ![p].pc = x] /\ buf[b].locked = 0
    BY <1>3, <1>7, Zenon DEF acquiresleep, MustWait
  <2>2. buf[b] \in Buffer
    BY <1>4, <1>5, Zenon
  <2>3. /\ c \in Buffer /\ c.blockno = buf[b].blockno /\ c.refcnt = buf[b].refcnt /\ c.locked = p
        /\ c.data = buf[b].data
    BY <2>2, SizesAssumption DEF Buffer, Procs
  <2>4. c.valid = buf[b].valid /\ c.disk = buf[b].disk /\ c.pinned = buf[b].pinned
    BY <2>2, Zenon DEF Buffer
  <2>5. buf' = [buf EXCEPT ![b] = c]
    BY <1>5, <2>1, Zenon
  <2>6. x \in {"have", "rw"} /\ (x = "have" <=> buf[b].valid)
    OBVIOUS
  <2> HIDE DEF c, x
  <2>7. x \in Owning /\ x \notin {"idle", "io"} /\ x \in Owning \cup {"idle", "lock", "unref"}
    BY <2>6 DEF Owning
  <2>8. /\ pr' \in [Procs -> Process] /\ pr'[p].pc = x /\ pr'[p].write = pr[p].write /\ pr'[p].b = b
        /\ \A q \in Procs : q # p => pr'[q] = pr[q]
    BY <1>3, <1>5, <2>1, <2>7, MovesOn DEF B
  <2>9. \A q \in Procs : q # p => Same(q)
    BY <2>8, Zenon DEF Same
  <2>10. \A q \in Procs : buf[b].locked # q
    BY <2>1 DEF Procs
  <2>11. buf'[b] = c /\ disk' = disk /\ latest' = latest
    BY <1>2, <1>4, <1>5, <2>5, Zenon DEF dvars
  <2>12. PlaceOf(p)'
    <3>1. ~pr[p].write
      BY <1>1, <1>2 DEF PlaceOK, PlaceOf
    <3>2. ~pr'[p].write /\ pr'[p].b = b /\ buf'[b].valid = buf[b].valid
      BY <2>4, <2>8, <2>11, <3>1, Zenon
    <3>3. CASE buf[b].valid
      <4>1. pr'[p].pc = "have" /\ buf'[pr'[p].b].valid
        BY <2>6, <2>8, <3>2, <3>3, Zenon
      <4> QED  BY <3>2, <4>1 DEF PlaceOf, B
    <3>4. CASE ~buf[b].valid
      <4>1. pr'[p].pc = "rw"
        BY <2>6, <2>8, <3>4, Zenon
      <4>2. pr'[p].write = buf'[pr'[p].b].valid
        <5>1. pr'[p].write \in BOOLEAN /\ buf'[pr'[p].b].valid \in BOOLEAN
          <6>1. pr'[p] \in Process /\ buf'[b] \in Buffer
            BY <2>3, <2>8, <2>11, Zenon
          <6>2. pr'[p].write \in BOOLEAN
            BY <6>1 DEF Process
          <6>3. buf'[b].valid \in BOOLEAN
            BY <6>1 DEF Buffer
          <6> QED  BY <3>2, <6>2, <6>3, Zenon
        <5> QED  BY <3>2, <3>4, <5>1, Zenon
      <4> QED  BY <4>1, <4>2 DEF PlaceOf, B
    <3> QED  BY <3>3, <3>4, Zenon
  <2>13. DataOf(b)'
    <3>1. ~Writing(b)
      <4> SUFFICES ASSUME Writing(b) PROVE FALSE
        OBVIOUS
      <4>1. PICK q \in Procs : pr[q].pc \in {"rw", "io"} /\ B(q) = b
        BY Zenon DEF Writing
      <4>2. pr[q].pc \in Owning
        BY <4>1 DEF Owning
      <4> QED  BY <1>1, <2>10, <4>1, <4>2, Zenon DEF LockOK
    <3>2. DataOf(b)
      BY <1>1, <1>4, Zenon DEF DataOK
    <3> QED  BY <2>3, <2>4, <2>11, <3>1, <3>2, Zenon DEF DataOf
  <2>14. pr[p].pc \notin {"idle", "io"}
    BY <1>2
  <2>15. pr'[p].pc \notin {"idle", "io"} /\ pr'[p].pc \in Owning
    BY <2>7, <2>8, Zenon
  <2>16. UNCHANGED <<lru, dvars, count>> /\ latest' \in [BlockNos -> Int]
    BY <1>2, <1>5, Zenon
  <2> QED
    BY <1>3, <1>4, <2>3, <2>4, <2>5, <2>8, <2>9, <2>10, <2>11, <2>12, <2>13, <2>14, <2>15, <2>16,
       OwnerStep, Zenon
<1> QED  BY <1>6, <1>7, Zenon

\* What an owner knows of its buffer.
LEMMA OwnerKnows ==
  ASSUME BInv, NEW p \in Procs, pr[p].pc \in Owning
  PROVE  /\ B(p) \in Bufs /\ buf[B(p)] \in Buffer /\ buf[B(p)].locked = p
         /\ PlaceOf(p) /\ DataOf(B(p))
         /\ \A q \in Procs : buf[B(p)].locked = q => q = p
         /\ pr[p].pc \notin {"rw", "io"} => ~Writing(B(p))
         /\ buf[B(p)].blockno \in BlockNos
<1>1. CacheTypes /\ LockOK /\ PlaceOK /\ DataOK
  BY Zenon DEF BInv, CacheInv
<1>2. pr[p].pc # "idle"
  BY DEF Owning
<1>3. B(p) \in Bufs /\ buf[B(p)].locked = p
  BY <1>1, <1>2, Zenon DEF LockOK
<1>4. buf[B(p)] \in Buffer /\ PlaceOf(p) /\ DataOf(B(p))
  BY <1>1, <1>3, Zenon DEF CacheTypes, PlaceOK, DataOK
<1>5. ASSUME pr[p].pc \notin {"rw", "io"}, Writing(B(p)) PROVE FALSE
  <2>1. PICK q \in Procs : pr[q].pc \in {"rw", "io"} /\ B(q) = B(p)
    BY <1>5, Zenon DEF Writing
  <2>2. pr[q].pc \in Owning
    BY <2>1 DEF Owning
  <2>3. q = p
    BY <1>1, <2>1, <2>2, OwnerAlone, Zenon
  <2> QED  BY <1>5, <2>1, <2>3, Zenon
<1>6. buf[B(p)].blockno \in BlockNos
  BY <1>4 DEF Buffer
<1> QED  BY <1>3, <1>4, <1>5, <1>6, Zenon

\* The caller of bread() uses the buffer.
LEMMA UseInv ==
  ASSUME BInv, NEW p \in Procs, Use(p)
  PROVE  BInv'
<1>1. pr[p].pc = "have" /\ UNCHANGED <<lru, dvars, count>>
  BY Zenon DEF Use, At
<1>2. PICK b : b = B(p)
  BY Zenon
<1>3. pr[p].pc \in Owning /\ pr[p].pc \notin {"idle", "io"} /\ pr[p].pc \notin {"rw", "io"}
  BY <1>1 DEF Owning
<1>4. /\ b \in Bufs /\ buf[b] \in Buffer /\ buf[b].locked = p /\ PlaceOf(p) /\ DataOf(b)
      /\ \A q \in Procs : buf[b].locked = q => q = p
      /\ ~Writing(b) /\ buf[b].blockno \in BlockNos
  BY <1>2, <1>3, OwnerKnows, Zenon
<1>5. /\ buf \in [Bufs -> Buffer] /\ pr \in [Procs -> Process] /\ pr[p] \in Process
      /\ latest \in [BlockNos -> Int]
  BY Zenon DEF BInv, CacheInv, CacheTypes
<1> DEFINE op == pr[p].op
           d == IF op \in {"write", "log"} THEN 1 - buf[b].data ELSE buf[b].data
           k == IF op = "log" /\ ~buf[b].pinned THEN buf[b].refcnt + 1 ELSE buf[b].refcnt
           m == buf[b].pinned \/ op = "log"
           w == op \in {"write", "install"}
           x == IF op \in {"write", "install"} THEN "rw" ELSE "rel"
           c == [buf[b] EXCEPT !.data = d, !.refcnt = k, !.pinned = m]
<1>6. op \in {"read", "write", "log", "install"} /\ d \in Int /\ k \in Nat /\ m \in BOOLEAN /\ w \in BOOLEAN
  BY <1>4, <1>5 DEF Process, Buffer
<1>7. /\ op = "read" => d = buf[b].data
      /\ \/ k = buf[b].refcnt /\ m = buf[b].pinned
         \/ k = buf[b].refcnt + 1 /\ ~buf[b].pinned /\ m
      /\ w => x = "rw"
      /\ ~w => x = "rel"
      /\ op = "log" => m
      /\ w \/ op = "log" \/ op = "read"
      /\ buf[b].pinned => m
  <2>1. buf[b].pinned \in BOOLEAN
    BY <1>4 DEF Buffer
  <2> QED  BY <1>6, <2>1
<1>8. /\ pr' = [pr EXCEPT ![p].write = w, ![p].pc = x]
      /\ latest' = [latest EXCEPT ![buf[b].blockno] = d]
  BY <1>2, Zenon DEF Use
<1>9. buf' = [buf EXCEPT ![b] = c]
  <2>1. buf' = [buf EXCEPT ![b].data = d,
                           ![b].refcnt = IF op = "log" /\ ~buf[b].pinned THEN @ + 1 ELSE @,
                           ![b].pinned = @ \/ op = "log"]
    BY <1>2, Zenon DEF Use
  <2> QED  BY <1>4, <1>5, <2>1 DEF Buffer
<1> HIDE DEF op, d, k, m, w, x
<1>10. c \in Buffer /\ c.blockno = buf[b].blockno /\ c.refcnt = k /\ c.locked = p /\ c.data = d
  BY <1>4, <1>6 DEF Buffer
<1>11. c.valid = buf[b].valid /\ c.disk = buf[b].disk /\ c.pinned = m
  BY <1>4, Zenon DEF Buffer
<1> HIDE DEF c
<1>12. buf'[b] = c
  BY <1>4, <1>5, <1>9, Zenon
<1>13. x \in Owning /\ x \notin {"idle", "io"} /\ x \in Owning \cup {"idle", "lock", "unref"}
  BY <1>6, <1>7 DEF Owning
<1>14. /\ pr' \in [Procs -> Process] /\ pr'[p].pc = x /\ pr'[p].write = w /\ pr'[p].b = b
       /\ \A q \in Procs : q # p => pr'[q] = pr[q]
  <2>1. pr' = GoingOn(pr, p, w, x)
    BY <1>8, Zenon DEF GoingOn
  <2>2. w \in BOOLEAN /\ x \in Owning \cup {"idle", "lock", "unref"} /\ pr \in [Procs -> Process]
    BY <1>5, <1>6, <1>13, Zenon
  <2>3. /\ pr' \in [Procs -> Process]
        /\ pr'[p].pc = x /\ pr'[p].write = w /\ pr'[p].b = pr[p].b /\ pr'[p].op = pr[p].op
        /\ pr'[p].head = pr[p].head
        /\ \A q \in Procs : q # p => pr'[q] = pr[q]
    BY <2>1, <2>2, GoesOn
  <2> QED  BY <1>2, <2>3, Zenon DEF B
<1>15. \A q \in Procs : q # p => Same(q)
  BY <1>14, Zenon DEF Same
<1>16. /\ latest' \in [BlockNos -> Int] /\ latest'[buf[b].blockno] = d
       /\ \A n \in BlockNos : n # buf[b].blockno => latest'[n] = latest[n]
  BY <1>4, <1>5, <1>6, <1>8
<1>17. buf[b].valid
  BY <1>1, <1>2, <1>4 DEF PlaceOf
<1>18. PlaceOf(p)'
  <2>1. CASE w
    <3>1. pr'[p].pc = "rw" /\ pr'[p].write /\ buf'[pr'[p].b].valid
      BY <1>7, <1>11, <1>12, <1>14, <1>17, <2>1, Zenon
    <3>2. pr'[p].write = buf'[pr'[p].b].valid
      <4>1. pr'[p].write \in BOOLEAN /\ c.valid \in BOOLEAN
        BY <1>6, <1>10, <1>14 DEF Buffer
      <4> QED  BY <1>12, <1>14, <3>1, <4>1, Zenon
    <3> QED  BY <3>1, <3>2 DEF PlaceOf, B
  <2>2. CASE ~w
    <3>1. pr'[p].pc = "rel" /\ buf'[pr'[p].b].valid
      BY <1>7, <1>11, <1>12, <1>14, <1>17, <2>2, Zenon
    <3> QED  BY <3>1 DEF PlaceOf, B
  <2> QED  BY <2>1, <2>2, Zenon
<1>19. DataOf(b)'
  <2>1. buf'[b].data = latest'[buf'[b].blockno]
    BY <1>10, <1>12, <1>16, Zenon
  <2>2. disk' = disk /\ buf'[b].blockno = buf[b].blockno /\ buf'[b].valid
    BY <1>1, <1>10, <1>11, <1>12, <1>17, Zenon DEF dvars
  <2>3. CASE w
    <3>1. Writing(b)'
      <4>1. pr'[p].pc \in {"rw", "io"} /\ pr'[p].write /\ pr'[p].b = b
        BY <1>7, <1>14, <2>3, Zenon
      <4> QED  BY <4>1, Zenon DEF Writing, B
    <3> QED  BY <2>1, <2>2, <3>1, Zenon DEF DataOf
  <2>4. CASE op = "log"
    BY <1>7, <1>11, <1>12, <2>1, <2>2, <2>4, Zenon DEF DataOf
  <2>5. CASE op = "read"
    <3>1. latest'[buf[b].blockno] = latest[buf[b].blockno]
      BY <1>4, <1>7, <1>16, <1>17, <2>5, Zenon DEF DataOf
    <3>2. disk[buf[b].blockno] = latest[buf[b].blockno] \/ buf[b].pinned
      BY <1>4, Zenon DEF DataOf
    <3> QED  BY <1>7, <1>11, <1>12, <2>1, <2>2, <3>1, <3>2, Zenon DEF DataOf
  <2> QED  BY <1>7, <2>3, <2>4, <2>5, Zenon
<1>20. pr'[p].pc \notin {"idle", "io"} /\ pr'[p].pc \in Owning
  BY <1>13, <1>14, Zenon
<1>21. \/ c.refcnt = buf[b].refcnt /\ c.pinned = buf[b].pinned
       \/ c.refcnt = buf[b].refcnt + 1 /\ ~buf[b].pinned /\ c.pinned
  BY <1>7, <1>10, <1>11, Zenon
<1> QED
  BY <1>1, <1>2, <1>3, <1>4, <1>9, <1>10, <1>11, <1>14, <1>15, <1>16, <1>18, <1>19, <1>20, <1>21,
     OwnerStep, Zenon

\* bunpin(): the log has written the block.
LEMMA bunpinInv ==
  ASSUME BInv, NEW p \in Procs, bunpin(p)
  PROVE  BInv'
<1>1. pr[p].pc = "written" /\ UNCHANGED <<lru, dvars, count>> /\ latest' = latest
  BY Zenon DEF bunpin, At
<1>2. PICK b : b = B(p)
  BY Zenon
<1>3. pr[p].pc \in Owning /\ pr[p].pc \notin {"idle", "io"} /\ pr[p].pc \notin {"rw", "io"}
  BY <1>1 DEF Owning
<1>4. /\ b \in Bufs /\ buf[b] \in Buffer /\ buf[b].locked = p /\ PlaceOf(p) /\ DataOf(b)
      /\ \A q \in Procs : buf[b].locked = q => q = p
  BY <1>2, <1>3, OwnerKnows, Zenon
<1>5. /\ buf \in [Bufs -> Buffer] /\ pr \in [Procs -> Process] /\ latest \in [BlockNos -> Int] /\ CountOK
  BY Zenon DEF BInv, CacheInv, CacheTypes
<1> DEFINE i == pr[p].op = "install"
           k == IF i /\ buf[b].pinned THEN buf[b].refcnt - 1 ELSE buf[b].refcnt
           m == buf[b].pinned /\ ~i
           c == [buf[b] EXCEPT !.refcnt = k, !.pinned = m]
<1>6. buf[b].pinned => buf[b].refcnt - 1 \in Nat
  <2>1. buf[b].refcnt = Cardinality(Users(b)) + (IF buf[b].pinned THEN 1 ELSE 0)
    BY <1>4, <1>5, Zenon DEF CountOK
  <2>2. Cardinality(Users(b)) \in Nat
    BY UsersFinite, Zenon
  <2> QED  BY <2>1, <2>2
<1>7. /\ k \in Nat /\ m \in BOOLEAN
      /\ \/ k = buf[b].refcnt /\ m = buf[b].pinned
         \/ k = buf[b].refcnt - 1 /\ buf[b].pinned /\ ~m
  <2>1. buf[b].pinned \in BOOLEAN /\ buf[b].refcnt \in Nat
    BY <1>4 DEF Buffer
  <2> QED  BY <1>6, <2>1
<1>8. pr' = [pr EXCEPT ![p].pc = "rel"]
  BY Zenon DEF bunpin
<1>9. buf' = [buf EXCEPT ![b] = c]
  <2>1. buf' = [buf EXCEPT ![b].refcnt = IF pr[p].op = "install" /\ buf[b].pinned THEN @ - 1 ELSE @,
                           ![b].pinned = @ /\ pr[p].op # "install"]
    BY <1>2, Zenon DEF bunpin
  <2> QED  BY <1>4, <1>5, <2>1 DEF Buffer
<1> HIDE DEF i, k, m
<1>10. /\ c \in Buffer /\ c.blockno = buf[b].blockno /\ c.refcnt = k /\ c.locked = p
       /\ c.data = buf[b].data
  BY <1>4, <1>7 DEF Buffer
<1>11. c.valid = buf[b].valid /\ c.disk = buf[b].disk /\ c.pinned = m
  BY <1>4, Zenon DEF Buffer
<1> HIDE DEF c
<1>12. buf'[b] = c /\ disk' = disk
  BY <1>1, <1>4, <1>5, <1>9, Zenon DEF dvars
<1>13. "rel" \in Owning /\ "rel" \notin {"idle", "io"} /\ "rel" \in Owning \cup {"idle", "lock", "unref"}
  BY DEF Owning
<1>14. /\ pr' \in [Procs -> Process] /\ pr'[p].pc = "rel" /\ pr'[p].b = b
       /\ \A q \in Procs : q # p => pr'[q] = pr[q]
  BY <1>2, <1>5, <1>8, <1>13, MovesOn DEF B
<1>15. \A q \in Procs : q # p => Same(q)
  BY <1>14, Zenon DEF Same
<1>16. buf[b].valid /\ disk[buf[b].blockno] = latest[buf[b].blockno]
  BY <1>1, <1>2, <1>4 DEF PlaceOf
<1>17. PlaceOf(p)'
  <2>1. pr'[p].pc = "rel" /\ buf'[pr'[p].b].valid
    BY <1>11, <1>12, <1>14, <1>16, Zenon
  <2> QED  BY <2>1 DEF PlaceOf, B
<1>18. DataOf(b)'
  BY <1>1, <1>4, <1>10, <1>11, <1>12, <1>16, Zenon DEF DataOf
<1>19. pr'[p].pc \notin {"idle", "io"} /\ pr'[p].pc \in Owning
  BY <1>13, <1>14, Zenon
<1>20. \/ c.refcnt = buf[b].refcnt /\ c.pinned = buf[b].pinned
       \/ c.refcnt = buf[b].refcnt - 1 /\ buf[b].pinned /\ ~c.pinned
  BY <1>7, <1>10, <1>11, Zenon
<1> QED
  BY <1>1, <1>2, <1>3, <1>4, <1>5, <1>9, <1>10, <1>11, <1>14, <1>15, <1>17, <1>18, <1>19, <1>20,
     OwnerStep, Zenon

\* releasesleep()
LEMMA releasesleepInv ==
  ASSUME BInv, NEW p \in Procs, releasesleep(p)
  PROVE  BInv'
<1>1. pr[p].pc = "rel" /\ UNCHANGED <<lru, dvars, count>> /\ latest' = latest
  BY Zenon DEF releasesleep, At
<1>2. PICK b : b = B(p)
  BY Zenon
<1>3. pr[p].pc \in Owning /\ pr[p].pc \notin {"idle", "io"} /\ pr[p].pc \notin {"rw", "io"}
  BY <1>1 DEF Owning
<1>4. /\ b \in Bufs /\ buf[b] \in Buffer /\ PlaceOf(p) /\ DataOf(b) /\ ~Writing(b)
      /\ \A q \in Procs : buf[b].locked = q => q = p
  BY <1>2, <1>3, OwnerKnows, Zenon
<1>5. /\ buf \in [Bufs -> Buffer] /\ pr \in [Procs -> Process] /\ latest \in [BlockNos -> Int]
  BY Zenon DEF BInv, CacheInv, CacheTypes
<1> DEFINE c == [buf[b] EXCEPT !.locked = 0]
           s == wakeup(pr, <<"lock", b>>)
<1>6. buf' = [buf EXCEPT ![b] = c] /\ pr' = [s EXCEPT ![p].pc = "unref"]
  <2>1. buf' = [buf EXCEPT ![b].locked = 0] /\ pr' = [s EXCEPT ![p].pc = "unref"]
    BY <1>2, Zenon DEF releasesleep
  <2> QED  BY <1>5, <2>1, Zenon
<1>7. /\ s \in [Procs -> Process]
      /\ \A q \in Procs : /\ s[q].pc = pr[q].pc /\ s[q].b = pr[q].b
                          /\ s[q].write = pr[q].write /\ s[q].head = pr[q].head
  BY <1>5, WakeupKeeps
<1> HIDE DEF s
<1>8. /\ c \in Buffer /\ c.blockno = buf[b].blockno /\ c.refcnt = buf[b].refcnt /\ c.locked = 0
      /\ c.data = buf[b].data
  BY <1>4, SizesAssumption DEF Buffer
<1>9. c.valid = buf[b].valid /\ c.disk = buf[b].disk /\ c.pinned = buf[b].pinned
  BY <1>4, Zenon DEF Buffer
<1> HIDE DEF c
<1>10. buf'[b] = c /\ disk' = disk
  BY <1>1, <1>4, <1>5, <1>6, Zenon DEF dvars
<1>11. "unref" \in Owning \cup {"idle", "lock", "unref"}
  OBVIOUS
<1>12. /\ pr' \in [Procs -> Process] /\ pr'[p].pc = "unref" /\ pr'[p].b = s[p].b
       /\ \A q \in Procs : q # p => pr'[q] = s[q]
  <2>1. pr' = [s EXCEPT ![p].pc = "unref"] /\ s \in [Procs -> Process]
    BY <1>6, <1>7, Zenon
  <2> QED  BY <1>11, <2>1, MovesOn
<1>13. pr'[p].b = b /\ \A q \in Procs : q # p => Same(q)
  BY <1>2, <1>7, <1>12, Zenon DEF Same, B
<1>14. PlaceOf(p)'
  BY <1>12 DEF PlaceOf
<1>15. DataOf(b)'
  BY <1>1, <1>4, <1>8, <1>9, <1>10, Zenon DEF DataOf
<1>16. pr'[p].pc \notin {"idle", "io"} /\ pr'[p].pc \notin Owning
  BY <1>12 DEF Owning
<1> QED
  BY <1>1, <1>2, <1>3, <1>4, <1>5, <1>6, <1>8, <1>9, <1>12, <1>13, <1>14, <1>15, <1>16,
     OwnerStep, Zenon

\* The list holds buffers after it was rearranged.
LEMMA ToFrontType ==
  ASSUME lru \in [1 .. NBUF -> Bufs], NEW b \in Bufs
  PROVE  ToFront(b) \in [1 .. NBUF -> Bufs]
<1> DEFINE k == CHOOSE i \in 1 .. NBUF : lru[i] = b
<1>1. ToFront(b) = [i \in 1 .. NBUF |-> IF i = 1 THEN b ELSE IF i <= k THEN lru[i - 1] ELSE lru[i]]
  BY Zenon DEF ToFront
<1> HIDE DEF k
<1>2. \A i \in 1 .. NBUF : i # 1 => i - 1 \in 1 .. NBUF
  BY SizesAssumption
<1>3. \A i \in 1 .. NBUF : (IF i = 1 THEN b ELSE IF i <= k THEN lru[i - 1] ELSE lru[i]) \in Bufs
  BY <1>2, Zenon
<1> QED  BY <1>1, <1>3, Zenon

\* brelse() gives the reference back.
LEMMA brelseInv ==
  ASSUME BInv, NEW p \in Procs, brelse(p)
  PROVE  BInv'
<1>1. /\ CacheInv /\ CacheTypes /\ CountOK /\ LockOK /\ DriverTypes /\ ChainsOK
      /\ \E Q, D : StagesOK(Q, D)
  BY Zenon DEF BInv, CacheInv
<1>2. PICK b : b = B(p)
  BY Zenon
<1>3. /\ pr[p].pc = "unref" /\ buf' = [buf EXCEPT ![b].refcnt = @ - 1]
      /\ lru' = (IF buf[b].refcnt = 1 THEN ToFront(b) ELSE lru)
      /\ pr' = [pr EXCEPT ![p] = Resting]
      /\ latest' = latest /\ count' = count /\ UNCHANGED dvars
  BY <1>2, Zenon DEF brelse, At
<1>4. pr[p].pc # "idle" /\ pr[p].pc \notin Owning
  BY <1>3 DEF Owning
<1>5. b \in Bufs /\ disk' = disk
  BY <1>1, <1>2, <1>3, <1>4, Zenon DEF LockOK, dvars
<1>6. buf[b] \in Buffer /\ buf \in [Bufs -> Buffer] /\ pr \in [Procs -> Process]
  BY <1>1, <1>5, Zenon DEF CacheTypes
<1>7. Resting \in Process /\ Resting.pc = "idle" /\ ~Resting.write /\ Resting.pc \notin Owning
  <2>1. 0 \in Descs /\ 0 \in 0 .. NBUF /\ Awake \in Channel
    BY SizesAssumption DEF Descs, Awake, Channel
  <2>2. "idle" \in Owning \cup {"idle", "lock", "unref"} /\ "read" \in {"read", "write", "log", "install"}
    OBVIOUS
  <2>3. Resting \in Process
    BY <2>1, <2>2, Zenon DEF Process, Resting
  <2>4. Resting.pc = "idle" /\ ~Resting.write
    BY Zenon DEF Resting
  <2> QED  BY <2>3, <2>4 DEF Owning
<1>8. pr' \in [Procs -> Process] /\ pr'[p] = Resting /\ \A q \in Procs : q # p => pr'[q] = pr[q]
  BY <1>3, <1>6, <1>7, Zenon
<1>9. \A q \in Procs : q # p => Same(q)
  BY <1>8, Zenon DEF Same
<1> DEFINE c == [buf[b] EXCEPT !.refcnt = @ - 1]
<1>10. buf' = [buf EXCEPT ![b] = c]
  BY <1>3, <1>6, Zenon
<1>11. /\ c.blockno = buf[b].blockno /\ c.locked = buf[b].locked /\ c.data = buf[b].data
       /\ c.refcnt = buf[b].refcnt - 1
  BY <1>6 DEF Buffer
<1>12. c.valid = buf[b].valid /\ c.pinned = buf[b].pinned /\ c.disk = buf[b].disk
  BY <1>6, Zenon DEF Buffer
<1>13. buf'[b] = c /\ \A a \in Bufs : a # b => buf'[a] = buf[a]
  BY <1>5, <1>6, <1>10, Zenon
<1>14. CountOK' /\ buf[b].refcnt > 0
  <2> HIDE DEF c
  <2>1. pr'[p].pc = "idle" /\ B(p) = b
    BY <1>2, <1>7, <1>8, Zenon
  <2>2. \A a \in Bufs : a # b => buf'[a].refcnt = buf[a].refcnt /\ buf'[a].pinned = buf[a].pinned
    BY <1>13, Zenon
  <2>3. buf'[b].refcnt = buf[b].refcnt - 1 /\ buf'[b].pinned = buf[b].pinned
    BY <1>11, <1>12, <1>13, Zenon
  <2> QED  BY <1>1, <1>4, <1>5, <1>9, <2>1, <2>2, <2>3, CountShrinks, Zenon
<1>15. c \in Buffer
  BY <1>6, <1>14 DEF Buffer
<1> HIDE DEF c
<1>16. CacheTypes'
  <2>1. buf' \in [Bufs -> Buffer]
    BY <1>6, <1>10, <1>15, Zenon
  <2>2. lru' \in [1 .. NBUF -> Bufs]
    BY <1>1, <1>3, <1>5, ToFrontType, Zenon DEF CacheTypes
  <2> QED  BY <1>1, <1>3, <1>5, <1>8, <2>1, <2>2, Zenon DEF CacheTypes
<1>17. \A a \in Bufs : /\ buf'[a].blockno = buf[a].blockno /\ buf'[a].valid = buf[a].valid
                       /\ buf'[a].locked = buf[a].locked /\ buf'[a].data = buf[a].data
                       /\ buf'[a].pinned = buf[a].pinned /\ buf'[a].disk = buf[a].disk
  BY <1>11, <1>12, <1>13, Zenon
<1>18. LockOK' /\ PlaceOK' /\ OneBuffer' /\ DataOK'
  <2>1. \A q \in Procs : \/ Same(q)
                         \/ /\ pr[q].pc \notin Owning /\ pr'[q].pc \notin Owning /\ ~pr'[q].write
                            /\ pr'[q].pc # "idle" => pr'[q].b \in Bufs
    BY <1>4, <1>7, <1>8, <1>9, Zenon
  <2> QED  BY <1>1, <1>3, <1>5, <1>17, <2>1, RefStep, Zenon
<1>19. PICK Q, D : StagesOK(Q, D)
  BY <1>1, Zenon
<1>20. DriverTypes' /\ ChainsOK' /\ StagesOK(Q, D)'
  <2>1. /\ \A q \in Procs : Requesting(q)' <=> Requesting(q)
        /\ \A q \in Procs : Requesting(q) => Same(q)
    BY <1>4, <1>7, <1>8, <1>9, Bystander, Zenon
  <2>2. \A q \in Procs : Requesting(q) => B(q) \in Bufs
    BY <1>1, RequestingBuffer, Zenon
  <2> QED  BY <1>1, <1>3, <1>17, <1>19, <2>1, <2>2, DriverKept, Zenon
<1> QED  BY <1>14, <1>16, <1>18, <1>20, Zenon DEF BInv, CacheInv

\* virtio_disk_rw() finds too few descriptors.
LEMMA SleepForDescsInv ==
  ASSUME BInv, NEW p \in Procs, SleepForDescs(p)
  PROVE  BInv'
<1>1. pr \in [Procs -> Process]
  BY Zenon DEF BInv, CacheInv, CacheTypes
<1>2. PICK s : /\ s = pr \/ s = wakeup(pr, <<"desc", 0>>)
               /\ pr' = [s EXCEPT ![p].chan = <<"desc", 0>>]
  BY Zenon DEF SleepForDescs
<1>3. UNCHANGED <<buf, lru, dvars, latest, count>>
  BY Zenon DEF SleepForDescs
<1>4. /\ s \in [Procs -> Process]
      /\ \A q \in Procs : /\ s[q].pc = pr[q].pc /\ s[q].b = pr[q].b
                          /\ s[q].write = pr[q].write /\ s[q].head = pr[q].head
  BY <1>1, <1>2, WakeupKeeps
<1>5. <<"desc", 0>> \in Channel
  BY DEF Channel
<1>6. /\ pr' \in [Procs -> Process]
      /\ \A q \in Procs : /\ pr'[q].pc = s[q].pc /\ pr'[q].write = s[q].write /\ pr'[q].b = s[q].b
                          /\ pr'[q].head = s[q].head
  <2>1. pr' = [s EXCEPT ![p].chan = <<"desc", 0>>] /\ s \in [Procs -> Process]
    BY <1>2, <1>4, Zenon
  <2> QED  BY <1>5, <2>1, GoesToSleep
<1>7. \A q \in Procs : Same(q)
  BY <1>4, <1>6, Zenon DEF Same
<1> QED  BY <1>3, <1>6, <1>7, ChannelStep, Zenon
=============================================================================

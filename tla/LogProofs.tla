----------------------------- MODULE LogProofs ------------------------------
(***************************************************************************)
(* The log keeps its reservations, and implements AtomicDisk: for any      *)
(* number of processes and blocks, and any sizes that leave an operation   *)
(* room for what it writes.                                                *)
(***************************************************************************)
EXTENDS Log, FiniteSetTheorems, TLAPS

(***************************************************************************)
(* The inductive invariant.                                                *)
(***************************************************************************)
Types ==
  /\ outstanding \in Nat /\ committing \in BOOLEAN
  /\ lh \in Seq(Blocks) /\ dhead \in Seq(Blocks)
  /\ cache \in [Blocks -> Values \cup {NoValue}] /\ pins \in [Blocks -> Nat]
  /\ disk \in [Blocks -> Values] /\ dlog \in [Slots -> Values]
  /\ pc \in [Procs -> {"user", "begin", "sleeping", "op", "commit"}]
  /\ wrote \in [Procs -> SUBSET Blocks]
  /\ io \in [step : {"none", "log", "install", "finish", "readhead", "recover"},
             tail : Nat \ {0}]

\* log.outstanding counts the operations under way, which have written only
\* blocks of the transaction, and not too many.
Counted ==
  /\ outstanding = Cardinality(InOp)
  /\ \A p \in InOp : /\ wrote[p] \subseteq Elems(lh) /\ IsFiniteSet(wrote[p])
                     /\ Cardinality(wrote[p]) <= OpBlocks
  /\ Reserved

\* A header names a block once, and has a slot of the log for each.
IsHeader(h) ==
  /\ \A j, k \in 1 .. Len(h) : h[j] = h[k] => j = k
  /\ 1 .. Len(h) \subseteq Slots

\* What the headers in memory and on disk are in each phase of commit() and of
\* recovery; operations are under way in none of these phases.
Phases ==
  /\ IsHeader(lh) /\ IsHeader(dhead) /\ Len(dhead) <= LOGSIZE
  /\ committing <=> io.step \in {"log", "install", "finish"}
  /\ io.step # "none" => InOp = {}
  /\ io.step = "none" /\ InOp = {} => lh = <<>>
  /\ io.step \in {"finish", "readhead"} => lh = <<>>
  /\ io.step \in {"none", "log", "finish"} => dhead = <<>>
  /\ io.step \in {"install", "recover"} => dhead = lh

\* The blocks of the transaction that are not yet at home: their buffers are
\* pinned, and may differ from the disk.
Pending(j) == io.step \in {"none", "log"} \/ (io.step = "install" /\ j >= io.tail)
Held == {lh[j] : j \in {k \in 1 .. Len(lh) : Pending(k)}}
CacheOK ==
  \A b \in Blocks :
    /\ pins[b] = IF b \in Held THEN 1 ELSE 0
    /\ IF b \in Held THEN cache[b] # NoValue ELSE cache[b] \in {NoValue, disk[b]}

\* What write_log() has written, and what install_trans() has brought home.
DlogOK ==
  \A j \in 1 .. Len(lh) :
    /\ io.step = "log" /\ j < io.tail => dlog[j] = cache[lh[j]]
    /\ io.step = "install" /\ j >= io.tail => dlog[j] = cache[lh[j]]
    /\ io.step \in {"install", "recover"} /\ j < io.tail => dlog[j] = disk[lh[j]]

LInv == Types /\ Counted /\ Phases /\ CacheOK /\ DlogOK

-----------------------------------------------------------------------------
(***************************************************************************)
(* Counting reservations.                                                  *)
(***************************************************************************)

\* The sets that Reserved counts are finite.
LEMMA InOpFinite ==
  /\ IsFiniteSet(InOp) /\ Cardinality(InOp) \in Nat
  /\ IsFiniteSet(Unspent) /\ Cardinality(Unspent) \in Nat
  /\ Cardinality(Unspent) <= Cardinality(InOp) * MAXOPBLOCKS
<1>1. IsFiniteSet(InOp)
  BY ProcsFinite, FS_Subset DEF InOp
<1>2. /\ IsFiniteSet(1 .. MAXOPBLOCKS) /\ Cardinality(1 .. MAXOPBLOCKS) = MAXOPBLOCKS
  BY SizesAssumption, FS_Interval
<1>3. /\ IsFiniteSet(InOp \X (1 .. MAXOPBLOCKS))
      /\ Cardinality(InOp \X (1 .. MAXOPBLOCKS)) = Cardinality(InOp) * MAXOPBLOCKS
  BY <1>1, <1>2, FS_Product, Zenon
<1>4. Unspent \in SUBSET (InOp \X (1 .. MAXOPBLOCKS))
  BY DEF Unspent
<1> QED  BY <1>1, <1>3, <1>4, FS_Subset, FS_CardinalityType

\* begin_op() adds a full reservation.
LEMMA UnspentAdmitted ==
  ASSUME NEW p \in Procs, p \notin InOp, InOp' = InOp \cup {p},
         \A q \in InOp : wrote'[q] = wrote[q], wrote'[p] = {}
  PROVE  /\ IsFiniteSet(Unspent')
         /\ Cardinality(Unspent') = Cardinality(Unspent) + MAXOPBLOCKS
<1> DEFINE R == {p} \X (1 .. MAXOPBLOCKS)
<1>1. IsFiniteSet(R) /\ Cardinality(R) = MAXOPBLOCKS
  <2>1. /\ IsFiniteSet(1 .. MAXOPBLOCKS) /\ Cardinality(1 .. MAXOPBLOCKS) = MAXOPBLOCKS
    BY SizesAssumption, FS_Interval
  <2>2. IsFiniteSet({p}) /\ Cardinality({p}) = 1
    BY FS_Singleton, Zenon
  <2>3. /\ IsFiniteSet(R)
        /\ Cardinality(R) = Cardinality({p}) * Cardinality(1 .. MAXOPBLOCKS)
    BY <2>1, <2>2, FS_Product, Zenon
  <2> HIDE DEF R
  <2> QED  BY <2>1, <2>2, <2>3, SizesAssumption
<1>2. Cardinality({}) = 0
  BY FS_EmptySet
<1>3. Unspent' = Unspent \cup R
  BY <1>2, SizesAssumption DEF Unspent
<1>4. Unspent \cap R = {}
  BY DEF Unspent
<1> HIDE DEF R
<1>5. /\ IsFiniteSet(Unspent \cup R)
      /\ Cardinality(Unspent \cup R)
           = Cardinality(Unspent) + Cardinality(R) - Cardinality(Unspent \cap R)
  BY <1>1, InOpFinite, FS_Union, Zenon
<1>6. Cardinality(Unspent') = Cardinality(Unspent) + MAXOPBLOCKS - 0
  BY <1>1, <1>2, <1>3, <1>4, <1>5, Zenon
<1> QED  BY <1>3, <1>5, <1>6, InOpFinite, SizesAssumption

\* A block that the operation had not written uses up a unit of its reservation.
LEMMA UnspentSpent ==
  ASSUME NEW p \in InOp, NEW b, b \notin wrote[p], IsFiniteSet(wrote[p]),
         Cardinality(wrote[p]) < MAXOPBLOCKS, InOp' = InOp,
         \A q \in InOp \ {p} : wrote'[q] = wrote[q], wrote'[p] = wrote[p] \cup {b}
  PROVE  /\ IsFiniteSet(Unspent')
         /\ Cardinality(Unspent') = Cardinality(Unspent) - 1
<1> DEFINE n == Cardinality(wrote[p])
<1>1. n \in Nat /\ Cardinality(wrote'[p]) = n + 1
  <2>1. n \in Nat
    BY FS_CardinalityType, Zenon
  <2>2. Cardinality(wrote[p] \cup {b}) = n + 1
    BY FS_AddElement, Zenon
  <2> QED  BY <2>1, <2>2, Zenon
<1> HIDE DEF n
<1>2. n < MAXOPBLOCKS /\ n = Cardinality(wrote[p])
  BY DEF n
<1>3. Unspent' = Unspent \ {<<p, n + 1>>} /\ <<p, n + 1>> \in Unspent
  <2>1. <<p, n + 1>> \in Unspent
    BY <1>1, <1>2, SizesAssumption DEF Unspent
  <2>2. \A s \in InOp \X (1 .. MAXOPBLOCKS) :
          s[2] > Cardinality(wrote'[s[1]]) <=> s[2] > Cardinality(wrote[s[1]]) /\ s # <<p, n + 1>>
    <3> TAKE s \in InOp \X (1 .. MAXOPBLOCKS)
    <3>1. PICK q \in InOp, k \in 1 .. MAXOPBLOCKS : s = <<q, k>>
      OBVIOUS
    <3>2. CASE q = p
      <4>1. k > n + 1 <=> k > n /\ k # n + 1
        BY <1>1
      <4>2. s = <<p, n + 1>> <=> k = n + 1
        BY <3>1, <3>2
      <4> QED  BY <1>1, <1>2, <3>1, <3>2, <4>1, <4>2
    <3>3. CASE q # p
      BY <3>1, <3>3
    <3> QED  BY <3>2, <3>3, Zenon
  <2> QED  BY <2>1, <2>2 DEF Unspent
<1> QED  BY <1>3, InOpFinite, FS_RemoveElement

\* An operation keeps what it may still write reserved.
LEMMA UnspentOf ==
  ASSUME NEW p \in InOp, IsFiniteSet(wrote[p]), Cardinality(wrote[p]) <= MAXOPBLOCKS
  PROVE  Cardinality(Unspent) >= MAXOPBLOCKS - Cardinality(wrote[p])
<1> DEFINE n == Cardinality(wrote[p])
           R == {p} \X (n + 1 .. MAXOPBLOCKS)
<1>1. n \in Nat
  BY FS_CardinalityType
<1>2. IsFiniteSet(R) /\ Cardinality(R) = MAXOPBLOCKS - n
  <2> HIDE DEF n
  <2>1. /\ IsFiniteSet(n + 1 .. MAXOPBLOCKS) /\ Cardinality(n + 1 .. MAXOPBLOCKS) = MAXOPBLOCKS - n
    <3>1. n <= MAXOPBLOCKS
      BY DEF n
    <3> QED  BY <1>1, <3>1, SizesAssumption, FS_Interval
  <2>2. IsFiniteSet({p}) /\ Cardinality({p}) = 1
    BY FS_Singleton, Zenon
  <2>3. /\ IsFiniteSet(R)
        /\ Cardinality(R) = Cardinality({p}) * Cardinality(n + 1 .. MAXOPBLOCKS)
    BY <2>1, <2>2, FS_Product, Zenon
  <2> HIDE DEF R
  <2> QED  BY <1>1, <2>1, <2>2, <2>3, SizesAssumption
<1>3. R \in SUBSET Unspent
  BY <1>1, SizesAssumption DEF Unspent
<1> HIDE DEF R
<1> QED  BY <1>2, <1>3, InOpFinite, FS_Subset

-----------------------------------------------------------------------------
(***************************************************************************)
(* Every step keeps the invariant.                                         *)
(***************************************************************************)

\* A header with one more block.
LEMMA AppendHeader ==
  ASSUME NEW h \in Seq(Blocks), NEW b \in Blocks, IsHeader(h), b \notin Elems(h),
         Len(h) < nlog - 1
  PROVE  /\ Append(h, b) \in Seq(Blocks)
         /\ Len(Append(h, b)) = Len(h) + 1
         /\ \A j \in 1 .. Len(h) : Append(h, b)[j] = h[j]
         /\ Append(h, b)[Len(h) + 1] = b
         /\ Elems(Append(h, b)) = Elems(h) \cup {b}
         /\ IsHeader(Append(h, b))
<1> DEFINE g == Append(h, b)
<1>1. /\ g \in Seq(Blocks) /\ Len(g) = Len(h) + 1 /\ Len(h) \in Nat
      /\ \A j \in 1 .. Len(h) : g[j] = h[j]
      /\ g[Len(h) + 1] = b
  OBVIOUS
<1> HIDE DEF g
<1>2. 1 .. Len(g) = 1 .. Len(h) \cup {Len(h) + 1}
  BY <1>1
<1>3. Elems(g) = Elems(h) \cup {b}
  BY <1>1, <1>2 DEF Elems
<1>4. IsHeader(g)
  <2>1. 1 .. Len(g) \subseteq Slots
    BY <1>1, SizesAssumption DEF Slots
  <2>2. \A j, k \in 1 .. Len(g) : g[j] = g[k] => j = k
    BY <1>1, <1>2 DEF Elems, IsHeader
  <2> QED  BY <2>1, <2>2 DEF IsHeader
<1> QED  BY <1>1, <1>3, <1>4 DEF g

\* The system starts in a state of the invariant.
LEMMA InitLInv == Init => LInv
<1> SUFFICES ASSUME Init PROVE LInv
  OBVIOUS
<1> USE DEF Init, Booting
<1>1. Types
  <2>1. dlog \in [Slots -> Values]
    OBVIOUS
  <2>2. lh \in Seq(Blocks) /\ dhead \in Seq(Blocks)
    OBVIOUS
  <2>3. /\ pins \in [Blocks -> Nat] /\ cache \in [Blocks -> Values \cup {NoValue}]
        /\ disk \in [Blocks -> Values]
    OBVIOUS
  <2>4. /\ pc \in [Procs -> {"user", "begin", "sleeping", "op", "commit"}]
        /\ wrote \in [Procs -> SUBSET Blocks]
    OBVIOUS
  <2>5. io \in [step : {"none", "log", "install", "finish", "readhead", "recover"},
                tail : Nat \ {0}]
    OBVIOUS
  <2>6. outstanding \in Nat /\ committing \in BOOLEAN
    BY Zenon
  <2> QED  BY <2>1, <2>2, <2>3, <2>4, <2>5, <2>6, Zenon DEF Types
<1>2. InOp = {} /\ Unspent = {}
  BY DEF InOp, Unspent
<1>3. Counted
  <2>1. Cardinality({}) = 0
    BY FS_EmptySet
  <2> QED  BY <1>2, <2>1, SizesAssumption DEF Counted, Reserved
<1>4. Phases
  BY <1>2, SizesAssumption DEF Phases, IsHeader
<1>5. CacheOK
  BY DEF CacheOK, Held, Pending
<1>6. DlogOK
  BY DEF DlogOK
<1> QED  BY <1>1, <1>3, <1>4, <1>5, <1>6 DEF LInv

\* begin_op() reserves only what HasSpace has found free.
LEMMA BeginLInv ==
  ASSUME LInv, NEW p \in Procs, begin_op(p)
  PROVE  LInv'
<1> USE DEF LInv
<1>0. UNCHANGED <<committing, lh, cache, pins, io, disk, dlog, dhead, panic>>
  BY DEF begin_op, persistent
<1>1. CASE Admitted
  <2>1. /\ outstanding' = outstanding + 1 /\ pc' = [pc EXCEPT ![p] = "op"]
        /\ wrote' = [wrote EXCEPT ![p] = {}] /\ pc[p] # "op"
    BY <1>1 DEF begin_op
  <2>2. io.step = "none"
    BY <1>1 DEF Types, Phases, begin_op, Up, Admitted
  <2>3. p \notin InOp /\ InOp' = InOp \cup {p}
    BY <2>1 DEF InOp, Types
  <2>4. /\ wrote'[p] = {} /\ \A q \in InOp : wrote'[q] = wrote[q]
    BY <2>1, <2>3 DEF InOp, Types
  <2>5. /\ IsFiniteSet(Unspent')
        /\ Cardinality(Unspent') = Cardinality(Unspent) + MAXOPBLOCKS
    BY <2>3, <2>4, UnspentAdmitted
  <2>6. Types'
    BY <1>0, <2>1 DEF Types
  <2>7. Counted'
    <3>1. outstanding' = Cardinality(InOp')
      BY <2>1, <2>3, InOpFinite, FS_AddElement, Zenon DEF Counted
    <3>2. \A q \in InOp' : /\ wrote'[q] \subseteq Elems(lh') /\ IsFiniteSet(wrote'[q])
                           /\ Cardinality(wrote'[q]) <= OpBlocks
      <4>1. IsFiniteSet({}) /\ Cardinality({}) = 0 /\ 0 <= OpBlocks
        BY FS_EmptySet, SizesAssumption
      <4> QED  BY <1>0, <2>3, <2>4, <4>1 DEF Counted
    <3>3. Reserved'
      <4>1. Len(lh) + outstanding * MAXOPBLOCKS + MAXOPBLOCKS <= LOGSIZE
        <5>1. outstanding \in Nat /\ MAXOPBLOCKS \in Nat /\ Len(lh) \in Nat
          BY SizesAssumption DEF Types
        <5>2. (outstanding + 1) * MAXOPBLOCKS = outstanding * MAXOPBLOCKS + MAXOPBLOCKS
          BY <5>1
        <5> QED  BY <1>1, <5>1, <5>2 DEF Admitted, HasSpace
      <4>2. Cardinality(Unspent) <= outstanding * MAXOPBLOCKS
        BY InOpFinite DEF Counted
      <4>3. outstanding * MAXOPBLOCKS \in Nat /\ MAXOPBLOCKS \in Nat /\ Len(lh) \in Nat
        BY SizesAssumption DEF Types
      <4> QED  BY <1>0, <2>5, <4>1, <4>2, <4>3, InOpFinite, SizesAssumption
                DEF Reserved, Counted
    <3> QED  BY <3>1, <3>2, <3>3 DEF Counted
  <2>8. Phases'
    BY <1>0, <2>2, <2>3 DEF Phases, IsHeader
  <2> QED  BY <1>0, <2>6, <2>7, <2>8 DEF CacheOK, DlogOK, Held, Pending
<1>2. CASE ~Admitted
  <2>1. /\ UNCHANGED <<outstanding, wrote>> /\ pc' = [pc EXCEPT ![p] = "sleeping"]
        /\ pc[p] # "op"
    BY <1>2 DEF begin_op
  <2>2. InOp' = InOp
    BY <2>1 DEF InOp, Types
  <2>3. Types'
    BY <1>0, <2>1 DEF Types
  <2>4. Counted' /\ Phases'
    BY <1>0, <2>1, <2>2 DEF Counted, Reserved, Unspent, Phases, IsHeader
  <2> QED  BY <1>0, <2>3, <2>4 DEF CacheOK, DlogOK, Held, Pending
<1> QED  BY <1>1, <1>2

\* What is left as it is by the steps that change the buffers and the disk only.
LEMMA CountedKept ==
  ASSUME Counted, UNCHANGED <<outstanding, lh, pc, wrote, panic>>
  PROVE  Counted' /\ InOp' = InOp
BY DEF Counted, Reserved, Unspent, InOp

\* log_write() finds room: what the operation may still write is reserved.
LEMMA LogWriteGuards ==
  ASSUME LInv, NEW p \in InOp
  PROVE  /\ Len(lh) < LOGSIZE /\ Len(lh) < nlog - 1 /\ outstanding >= 1
         /\ ~committing /\ io.step = "none"
<1>1. io.step = "none" /\ ~committing
  BY DEF LInv, Phases, Types
<1>2. outstanding >= 1
  <2>1. Cardinality(InOp) # 0
    BY InOpFinite, FS_EmptySet
  <2> QED  BY <2>1, InOpFinite DEF LInv, Counted
<1>3. Cardinality(Unspent) >= MAXOPBLOCKS - OpBlocks
  <2>1. Cardinality(wrote[p]) \in Nat
    BY FS_CardinalityType DEF LInv, Counted
  <2>2. Cardinality(wrote[p]) <= OpBlocks /\ IsFiniteSet(wrote[p])
    BY DEF LInv, Counted
  <2>3. Cardinality(Unspent) >= MAXOPBLOCKS - Cardinality(wrote[p])
    BY <2>1, <2>2, UnspentOf, SizesAssumption
  <2> QED  BY <2>1, <2>2, <2>3, InOpFinite, SizesAssumption
<1>4. Len(lh) \in Nat /\ Len(lh) + Cardinality(Unspent) <= LOGSIZE
  BY DEF LInv, Counted, Reserved, Types
<1> QED  BY <1>1, <1>2, <1>3, <1>4, InOpFinite, SizesAssumption, OpBlocksAssumption

\* log_write() enters a block in the transaction once, and pins it once.
LEMMA LogWriteLInv ==
  ASSUME LInv, NEW p \in Procs, NEW b \in Blocks, NEW v \in Values, log_write(p, b, v)
  PROVE  LInv'
<1> USE DEF LInv
<1>1. p \in InOp
  BY Zenon DEF log_write, InOp
<1>2. /\ Len(lh) < LOGSIZE /\ Len(lh) < nlog - 1 /\ outstanding >= 1
      /\ ~committing /\ io.step = "none"
  BY <1>1, LogWriteGuards
<1>3. /\ cache' = [cache EXCEPT ![b] = v]
      /\ wrote' = [wrote EXCEPT ![p] = @ \cup {b}]
      /\ IF b \in Elems(lh) THEN UNCHANGED <<lh, pins>>
                            ELSE lh' = Append(lh, b) /\ pins' = [pins EXCEPT ![b] = @ + 1]
      /\ UNCHANGED <<outstanding, committing, pc, io, disk, dlog, dhead, panic>>
      /\ Cardinality(wrote[p] \cup {b}) <= OpBlocks
  <2>1. ~(Len(lh) >= LOGSIZE \/ Len(lh) >= nlog - 1) /\ ~(outstanding < 1)
    BY <1>2, SizesAssumption DEF Types
  <2> QED  BY <2>1 DEF log_write, Logged, persistent, Pinned
<1>4. InOp' = InOp
  BY <1>3 DEF InOp
<1>5. /\ wrote'[p] = wrote[p] \cup {b} /\ \A q \in InOp \ {p} : wrote'[q] = wrote[q]
  BY <1>1, <1>3 DEF Types, InOp
<1>6. /\ IsFiniteSet(wrote[p]) /\ Cardinality(wrote[p]) \in Nat
      /\ wrote[p] \subseteq Elems(lh)
      /\ IsFiniteSet(wrote'[p]) /\ Cardinality(wrote'[p]) <= OpBlocks
  <2>1. IsFiniteSet(wrote[p]) /\ wrote[p] \subseteq Elems(lh)
    BY <1>1 DEF Counted
  <2>2. IsFiniteSet(wrote[p] \cup {b})
    BY <2>1, FS_AddElement, Zenon
  <2> QED  BY <1>3, <1>5, <2>1, <2>2, FS_CardinalityType, Zenon
<1>7. CASE b \in Elems(lh)
  <2>1. UNCHANGED <<lh, pins>>
    BY <1>3, <1>7
  <2>2. Types'
    BY <1>3, <2>1 DEF Types
  <2>3. Counted'
    <3>1. \A q \in InOp' : /\ wrote'[q] \subseteq Elems(lh') /\ IsFiniteSet(wrote'[q])
                           /\ Cardinality(wrote'[q]) <= OpBlocks
      BY <1>4, <1>5, <1>6, <1>7, <2>1, Zenon DEF Counted
    <3>2. Unspent' \in SUBSET Unspent
      <4>1. Cardinality(wrote'[p]) >= Cardinality(wrote[p]) /\ Cardinality(wrote'[p]) \in Nat
        <5>1. Cardinality(wrote[p] \cup {b}) =
                IF b \in wrote[p] THEN Cardinality(wrote[p]) ELSE Cardinality(wrote[p]) + 1
          BY <1>6, FS_AddElement, Zenon
        <5> QED  BY <1>5, <1>6, <5>1
      <4>2. \A s \in InOp \X (1 .. MAXOPBLOCKS) :
              s[2] > Cardinality(wrote'[s[1]]) => s[2] > Cardinality(wrote[s[1]])
        <5> TAKE s \in InOp \X (1 .. MAXOPBLOCKS)
        <5>1. CASE s[1] = p
          BY <1>6, <4>1, <5>1, SizesAssumption
        <5>2. CASE s[1] # p
          BY <1>5, <5>2
        <5> QED  BY <5>1, <5>2
      <4> QED  BY <1>4, <4>2 DEF Unspent
    <3>3. Cardinality(Unspent') \in Nat /\ Cardinality(Unspent') <= Cardinality(Unspent)
      BY <3>2, InOpFinite, FS_Subset, FS_CardinalityType
    <3>4. Reserved'
      <4>1. Len(lh) \in Nat
        BY DEF Types
      <4> QED  BY <1>3, <2>1, <3>3, <4>1, InOpFinite, SizesAssumption DEF Reserved, Counted
    <3> QED  BY <1>3, <1>4, <3>1, <3>4, Zenon DEF Counted
  <2>4. Phases'
    BY <1>2, <1>3, <1>4, <2>1 DEF Phases, IsHeader
  <2>5. CacheOK'
    <3>1. Held' = Held /\ b \in Held
      BY <1>2, <1>3, <1>7, <2>1 DEF Held, Pending, Elems
    <3> QED  BY <1>3, <2>1, <3>1, NoValueAssumption DEF CacheOK, Types
  <2>6. DlogOK'
    BY <1>2, <1>3 DEF DlogOK
  <2> QED  BY <2>2, <2>3, <2>4, <2>5, <2>6
<1>8. CASE b \notin Elems(lh)
  <2>1. lh' = Append(lh, b) /\ pins' = [pins EXCEPT ![b] = @ + 1]
    BY <1>3, <1>8
  <2>2. /\ lh' \in Seq(Blocks) /\ Len(lh') = Len(lh) + 1 /\ Len(lh) \in Nat
        /\ Elems(lh') = Elems(lh) \cup {b} /\ IsHeader(lh')
    BY <1>2, <1>8, <2>1, AppendHeader DEF Types, Phases
  <2>3. Types'
    <3>1. pins' \in [Blocks -> Nat]
      BY <2>1 DEF Types
    <3> QED  BY <1>3, <2>2, <3>1 DEF Types
  <2>4. Counted'
    <3>1. \A q \in InOp' : /\ wrote'[q] \subseteq Elems(lh') /\ IsFiniteSet(wrote'[q])
                           /\ Cardinality(wrote'[q]) <= OpBlocks
      BY <1>4, <1>5, <1>6, <2>2, Zenon DEF Counted
    <3>2. b \notin wrote[p] /\ Cardinality(wrote[p]) < MAXOPBLOCKS
      <4>1. b \notin wrote[p]
        BY <1>6, <1>8
      <4>2. Cardinality(wrote[p]) <= OpBlocks
        BY <1>1 DEF Counted
      <4> QED  BY <1>6, <4>1, <4>2, OpBlocksAssumption, SizesAssumption
    <3>3. Cardinality(Unspent') = Cardinality(Unspent) - 1
      BY <1>1, <1>4, <1>5, <1>6, <3>2, UnspentSpent
    <3>4. Reserved'
      BY <1>3, <2>2, <3>3, InOpFinite, SizesAssumption DEF Reserved, Counted
    <3> QED  BY <1>3, <1>4, <3>1, <3>4, Zenon DEF Counted
  <2>5. Phases'
    BY <1>1, <1>2, <1>3, <1>4, <2>2 DEF Phases, IsHeader
  <2>6. CacheOK'
    <3>1. Held = Elems(lh) /\ Held' = Held \cup {b} /\ b \notin Held
      BY <1>2, <1>3, <1>8, <2>2 DEF Held, Pending, Elems
    <3>2. pins'[b] = 1 /\ cache'[b] # NoValue
      BY <1>3, <2>1, <3>1, NoValueAssumption DEF CacheOK, Types
    <3>3. \A c \in Blocks \ {b} : pins'[c] = pins[c] /\ cache'[c] = cache[c]
      BY <1>3, <2>1 DEF Types
    <3> QED  BY <1>3, <3>1, <3>2, <3>3 DEF CacheOK
  <2>7. DlogOK'
    BY <1>2, <1>3 DEF DlogOK
  <2> QED  BY <2>3, <2>4, <2>5, <2>6, <2>7
<1> QED  BY <1>7, <1>8

\* end_op() of the last operation begins the commit.
LEMMA EndLInv ==
  ASSUME LInv, NEW p \in Procs, end_op(p)
  PROVE  LInv'
<1> USE DEF LInv
<1>1. p \in InOp
  BY DEF end_op, InOp
<1>2. ~committing /\ io.step = "none" /\ outstanding >= 1
  BY <1>1, LogWriteGuards
<1>3. /\ UNCHANGED <<lh, cache, pins, disk, dlog, dhead, panic>>
      /\ outstanding' = outstanding - 1 /\ wrote' = [wrote EXCEPT ![p] = {}]
      /\ IF outstanding - 1 = 0
         THEN /\ committing' = TRUE
              /\ pc' = [pc EXCEPT ![p] = "commit"]
              /\ io' = IF lh = <<>> THEN [step |-> "finish", tail |-> 1]
                       ELSE [step |-> "log", tail |-> 1]
         ELSE /\ pc' = Awake([pc EXCEPT ![p] = "user"])
              /\ UNCHANGED <<committing, io>>
  BY <1>2 DEF end_op, persistent
<1>4. InOp' = InOp \ {p}
  <2>1. CASE outstanding - 1 = 0
    BY <1>3, <2>1 DEF InOp, Types
  <2>2. CASE outstanding - 1 # 0
    BY <1>3, <2>2 DEF InOp, Awake, Types
  <2> QED  BY <2>1, <2>2
<1>5. Types'
  <2>1. pc' \in [Procs -> {"user", "begin", "sleeping", "op", "commit"}]
    BY <1>3, Zenon DEF Types, Awake
  <2>2. outstanding' \in Nat
    BY <1>2, <1>3 DEF Types
  <2>3. io' \in [step : {"none", "log", "install", "finish", "readhead", "recover"},
                 tail : Nat \ {0}]
    BY <1>3 DEF Types
  <2>4. committing' \in BOOLEAN /\ wrote' \in [Procs -> SUBSET Blocks]
    BY <1>3, Zenon DEF Types
  <2> QED  BY <1>3, <2>1, <2>2, <2>3, <2>4 DEF Types
<1>6. Counted'
  <2>1. outstanding' = Cardinality(InOp')
    BY <1>1, <1>3, <1>4, InOpFinite, FS_RemoveElement, Zenon DEF Counted
  <2>2. \A q \in InOp' : wrote'[q] = wrote[q]
    BY <1>3, <1>4 DEF InOp, Types
  <2>3. \A q \in InOp' : /\ wrote'[q] \subseteq Elems(lh') /\ IsFiniteSet(wrote'[q])
                         /\ Cardinality(wrote'[q]) <= OpBlocks
    BY <1>3, <1>4, <2>2 DEF Counted
  <2>4. Unspent' \in SUBSET Unspent
    BY <1>4, <2>2 DEF Unspent
  <2>5. Cardinality(Unspent') \in Nat /\ Cardinality(Unspent') <= Cardinality(Unspent)
    BY <2>4, InOpFinite, FS_Subset, FS_CardinalityType
  <2>6. Len(lh) \in Nat
    BY DEF Types
  <2>7. Reserved'
    BY <1>3, <2>5, <2>6, InOpFinite, SizesAssumption DEF Reserved, Counted
  <2> QED  BY <2>1, <2>3, <2>7 DEF Counted
<1>7. Phases'
  <2>1. CASE outstanding - 1 = 0
    <3>1. InOp' = {}
      <4>1. Cardinality(InOp') = 0
        BY <1>3, <1>6, <2>1 DEF Counted
      <4>2. IsFiniteSet(InOp')
        BY <1>4, InOpFinite, FS_RemoveElement
      <4> QED  BY <4>1, <4>2, FS_EmptySet
    <3>2. dhead = <<>> /\ io'.step \in {"log", "finish"} /\ (io'.step = "finish" => lh = <<>>)
      BY <1>2, <1>3, <2>1 DEF Phases
    <3> QED  BY <1>3, <2>1, <3>1, <3>2 DEF Phases, IsHeader
  <2>2. CASE outstanding - 1 # 0
    <3>1. InOp' # {}
      BY <1>3, <1>6, <2>2, FS_EmptySet, Zenon DEF Counted
    <3> QED  BY <1>2, <1>3, <2>2, <3>1 DEF Phases, IsHeader
  <2> QED  BY <2>1, <2>2
<1>8. Held' = Held
  <2>1. \A j \in 1 .. Len(lh) : Pending(j)' <=> Pending(j)
    BY <1>2, <1>3 DEF Pending
  <2> QED  BY <1>3, <2>1 DEF Held
<1>9. CacheOK'
  BY <1>3, <1>8 DEF CacheOK
<1>10. DlogOK'
  BY <1>2, <1>3 DEF DlogOK, Types
<1> QED  BY <1>5, <1>6, <1>7, <1>9, <1>10

\* A block that is not cached, or not pinned, is not part of the transaction.
LEMMA UnpinnedNotHeld ==
  ASSUME CacheOK, NEW b \in Blocks, bread(b) \/ Recycle(b)
  PROVE  b \notin Held
<1>1. cache[b] = NoValue \/ pins[b] = 0
  BY DEF bread, Recycle
<1> QED  BY <1>1 DEF CacheOK

\* bread() and the recycling of a buffer, of a block that is not pinned.
LEMMA BufferLInv ==
  ASSUME LInv, NEW b \in Blocks, bread(b) \/ Recycle(b)
  PROVE  LInv'
<1> USE DEF LInv
<1>1. /\ UNCHANGED <<outstanding, committing, lh, pins, pc, wrote, io, disk, dlog, dhead, panic>>
      /\ Held' = Held
  BY DEF bread, Recycle, persistent, Held, Pending
<1>2. PICK u \in {NoValue, disk[b]} : cache' = [cache EXCEPT ![b] = u]
  BY DEF bread, Recycle
<1>3. b \notin Held
  BY UnpinnedNotHeld
<1>4. Types'
  BY <1>1, <1>2 DEF Types
<1>5. Counted' /\ InOp' = InOp
  BY <1>1, CountedKept
<1>6. Phases'
  BY <1>1, <1>5 DEF Phases, IsHeader
<1>7. CacheOK'
  BY <1>1, <1>2, <1>3 DEF CacheOK, Types
<1>8. DlogOK'
  <2>1. \A j \in 1 .. Len(lh) : Pending(j) => cache'[lh[j]] = cache[lh[j]]
    <3> TAKE j \in 1 .. Len(lh)
    <3> HAVE Pending(j)
    <3>1. lh[j] \in Held
      BY DEF Held
    <3>2. lh[j] # b
      BY <1>3, <3>1, Zenon
    <3> QED  BY <1>2, <3>2 DEF Types
  <2> QED  BY <1>1, <2>1 DEF DlogOK, Pending
<1> QED  BY <1>4, <1>5, <1>6, <1>7, <1>8

\* write_log() copies the buffer of a block, which is pinned, to the log.
LEMMA WriteLogLInv ==
  ASSUME LInv, write_log
  PROVE  LInv'
<1> USE DEF LInv
<1> DEFINE t == io.tail
<1>1. t \in 1 .. Len(lh) /\ Len(lh) \in Nat /\ t \in Slots /\ lh[t] \in Blocks
  BY DEF write_log, Types, Phases, IsHeader
<1>2. lh[t] \in Held
  BY <1>1 DEF Held, Pending, write_log
<1>3. Current(lh[t]) = cache[lh[t]]
  BY <1>1, <1>2 DEF Current, CacheOK
<1>4. cache' = cache
  BY <1>1, <1>3 DEF write_log, Types
<1>5. /\ UNCHANGED <<outstanding, committing, lh, pins, pc, wrote, disk, dhead, panic>>
      /\ dlog' = [dlog EXCEPT ![t] = cache[lh[t]]]
      /\ io' = [io EXCEPT !.tail = t + 1] /\ io.step = "log"
  BY <1>3 DEF write_log
<1>6. io'.step = "log" /\ io'.tail = t + 1
  BY <1>5 DEF Types
<1>7. Types'
  <2>1. cache[lh[t]] \in Values
    BY <1>1, <1>2 DEF CacheOK, Types
  <2>2. dlog' \in [Slots -> Values]
    BY <1>1, <1>5, <2>1 DEF Types
  <2>3. io' \in [step : {"none", "log", "install", "finish", "readhead", "recover"},
                 tail : Nat \ {0}]
    <3>1. t + 1 \in Nat \ {0}
      BY <1>1
    <3> QED  BY <1>5, <3>1 DEF Types
  <2> QED  BY <1>4, <1>5, <2>2, <2>3 DEF Types
<1>8. Counted' /\ InOp' = InOp
  BY <1>5, CountedKept
<1>9. Phases'
  BY <1>5, <1>6, <1>8 DEF Phases, IsHeader
<1>10. CacheOK'
  BY <1>4, <1>5, <1>6 DEF CacheOK, Held, Pending
<1>11. DlogOK'
  <2> SUFFICES ASSUME NEW j \in 1 .. Len(lh), j < t + 1
               PROVE  dlog'[j] = cache[lh[j]]
    BY <1>4, <1>5, <1>6 DEF DlogOK
  <2>1. j \in Slots
    BY DEF Phases, IsHeader
  <2>2. CASE j = t
    BY <1>1, <1>5, <2>2 DEF Types
  <2>3. CASE j # t
    <3>1. j < t
      BY <1>1, <2>3
    <3> QED  BY <1>1, <1>5, <2>1, <2>3, <3>1 DEF Types, DlogOK
  <2> QED  BY <2>2, <2>3
<1> QED  BY <1>7, <1>8, <1>9, <1>10, <1>11

\* write_head(): every block of the transaction is in the log.
LEMMA WriteHeadLInv ==
  ASSUME LInv, write_head
  PROVE  LInv'
<1> USE DEF LInv
<1>1. /\ UNCHANGED <<outstanding, committing, lh, cache, pins, pc, wrote, disk, dlog, panic>>
      /\ io.step = "log" /\ io.tail > Len(lh) /\ dhead' = lh
      /\ io' = [step |-> "install", tail |-> 1]
  BY DEF write_head
<1>2. Len(lh) \in Nat /\ io.tail \in Nat
  BY DEF Types
<1>3. Types'
  BY <1>1 DEF Types
<1>4. Counted' /\ InOp' = InOp
  BY <1>1, CountedKept
<1>5. Phases'
  <2>1. Len(lh) <= LOGSIZE
    BY <1>2, InOpFinite, SizesAssumption DEF Counted, Reserved
  <2> QED  BY <1>1, <1>4, <2>1 DEF Phases, IsHeader
<1>6. CacheOK'
  <2>1. Held' = Held
    <3>1. \A j \in 1 .. Len(lh) : Pending(j)' <=> Pending(j)
      BY <1>1, <1>2 DEF Pending
    <3> QED  BY <1>1, <3>1 DEF Held
  <2> QED  BY <1>1, <2>1 DEF CacheOK
<1>7. DlogOK'
  BY <1>1, <1>2 DEF DlogOK
<1> QED  BY <1>3, <1>4, <1>5, <1>6, <1>7

\* install_trans() brings one block home; its buffer is no longer needed.
LEMMA InstallLInv ==
  ASSUME LInv, install_trans
  PROVE  LInv'
<1> USE DEF LInv
<1> DEFINE t == io.tail
           b == lh[t]
<1>1. /\ t \in 1 .. Len(lh) /\ Len(lh) \in Nat /\ t \in Slots /\ b \in Blocks
      /\ dlog[t] \in Values
  BY DEF install_trans, Types, Phases, IsHeader
<1>2. /\ UNCHANGED <<outstanding, committing, lh, dlog, dhead, pc, wrote, panic>>
      /\ disk' = [disk EXCEPT ![b] = dlog[t]]
      /\ cache' = [cache EXCEPT ![b] = dlog[t]]
      /\ pins' = IF io.step = "install" THEN [pins EXCEPT ![b] = @ - 1] ELSE pins
      /\ io' = [io EXCEPT !.tail = t + 1] /\ io.step \in {"install", "recover"}
  BY DEF install_trans
<1>3. io'.step = io.step /\ io'.tail = t + 1
  BY <1>2 DEF Types
<1>4. \A j \in 1 .. Len(lh) : lh[j] = b => j = t
  BY <1>1 DEF Phases, IsHeader
<1>5. /\ Held' = Held \ {b}
      /\ IF io.step = "install" THEN b \in Held ELSE Held = {}
  <2>1. CASE io.step = "recover"
    BY <1>2, <1>3, <2>1 DEF Held, Pending
  <2>2. CASE io.step = "install"
    <3>1. Held = {lh[j] : j \in {k \in 1 .. Len(lh) : k >= t}}
      BY <2>2 DEF Held, Pending
    <3>2. Held' = {lh[j] : j \in {k \in 1 .. Len(lh) : k >= t + 1}}
      BY <1>2, <1>3, <2>2 DEF Held, Pending
    <3>3. \A j \in 1 .. Len(lh) : j >= t + 1 <=> j >= t /\ j # t
      BY <1>1
    <3> QED  BY <1>1, <1>4, <2>2, <3>1, <3>2, <3>3
  <2> QED  BY <1>2, <2>1, <2>2
<1>6. pins'[b] = 0 /\ \A c \in Blocks \ {b} : pins'[c] = pins[c]
  <2>1. CASE io.step = "install"
    BY <1>1, <1>2, <1>5, <2>1 DEF CacheOK, Types
  <2>2. CASE io.step # "install"
    BY <1>1, <1>2, <1>5, <2>2 DEF CacheOK, Types
  <2> QED  BY <2>1, <2>2
<1>7. Types'
  <2>1. pins' \in [Blocks -> Nat]
    <3>1. DOMAIN pins' = Blocks /\ pins' = [c \in Blocks |-> pins'[c]]
      BY <1>2, Zenon DEF Types
    <3>2. \A c \in Blocks : pins'[c] \in Nat
      <4>1. \A c \in Blocks : pins[c] \in Nat
        BY DEF Types
      <4> QED  BY <1>6, <4>1
    <3> QED  BY <3>1, <3>2
  <2>2. disk' \in [Blocks -> Values] /\ cache' \in [Blocks -> Values \cup {NoValue}]
    BY <1>1, <1>2 DEF Types
  <2>3. io' \in [step : {"none", "log", "install", "finish", "readhead", "recover"},
                 tail : Nat \ {0}]
    <3>1. t + 1 \in Nat \ {0}
      BY <1>1
    <3> QED  BY <1>2, <3>1, Zenon DEF Types
  <2> QED  BY <1>2, <2>1, <2>2, <2>3 DEF Types
<1>8. Counted' /\ InOp' = InOp
  BY <1>2, CountedKept
<1>9. Phases'
  BY <1>2, <1>3, <1>8 DEF Phases, IsHeader
<1>10. CacheOK'
  <2>1. cache'[b] = disk'[b]
    BY <1>1, <1>2 DEF Types
  <2>2. \A c \in Blocks \ {b} : cache'[c] = cache[c] /\ disk'[c] = disk[c]
    BY <1>2 DEF Types
  <2> QED  BY <1>5, <1>6, <2>1, <2>2 DEF CacheOK
<1>11. DlogOK'
  <2> SUFFICES ASSUME NEW j \in 1 .. Len(lh)
               PROVE  /\ io.step = "install" /\ j >= t + 1 => dlog[j] = cache'[lh[j]]
                      /\ j < t + 1 => dlog[j] = disk'[lh[j]]
    BY <1>2, <1>3 DEF DlogOK
  <2>1. lh[j] \in Blocks
    BY DEF Types
  <2>2. CASE j = t
    BY <1>1, <1>2, <2>2 DEF Types
  <2>3. CASE j # t
    <3>1. lh[j] # b
      BY <1>4, <2>3
    <3>2. cache'[lh[j]] = cache[lh[j]] /\ disk'[lh[j]] = disk[lh[j]]
      BY <1>2, <2>1, <3>1 DEF Types
    <3>3. (j >= t + 1 => j >= t) /\ (j < t + 1 => j < t)
      BY <1>1, <2>3
    <3> QED  BY <1>2, <3>2, <3>3 DEF DlogOK
  <2> QED  BY <2>2, <2>3
<1> QED  BY <1>7, <1>8, <1>9, <1>10, <1>11

\* The second write_head(): every block is at home, and none is pinned.
LEMMA EraseLInv ==
  ASSUME LInv, EraseHead
  PROVE  LInv'
<1> USE DEF LInv
<1>1. /\ UNCHANGED <<outstanding, committing, cache, pins, disk, dlog, pc, wrote, panic>>
      /\ io.step \in {"install", "recover"} /\ io.tail > Len(lh)
      /\ lh' = <<>> /\ dhead' = <<>>
      /\ io' = IF io.step = "install" THEN [step |-> "finish", tail |-> 1] ELSE NoIo
  BY DEF EraseHead
<1>2. Len(lh) \in Nat /\ io.tail \in Nat /\ InOp = {}
  BY <1>1 DEF Types, Phases
<1>3. Types'
  BY <1>1 DEF Types, NoIo
<1>4. InOp' = {} /\ Unspent' = {} /\ Cardinality({}) = 0
  BY <1>1, <1>2, FS_EmptySet DEF InOp, Unspent
<1>5. Counted'
  BY <1>1, <1>2, <1>4, SizesAssumption DEF Counted, Reserved
<1>6. Phases'
  BY <1>1, <1>4, SizesAssumption DEF Phases, IsHeader, NoIo
<1>7. CacheOK'
  <2>1. Held = {}
    BY <1>1, <1>2 DEF Held, Pending
  <2>2. Held' = {}
    BY <1>1 DEF Held
  <2> QED  BY <1>1, <2>1, <2>2 DEF CacheOK
<1>8. DlogOK'
  BY <1>1 DEF DlogOK
<1> QED  BY <1>3, <1>5, <1>6, <1>7, <1>8

\* The rest of end_op() opens the log to operations again.
LEMMA FinishLInv ==
  ASSUME LInv, NEW p \in Procs, Finish(p)
  PROVE  LInv'
<1> USE DEF LInv
<1>1. /\ UNCHANGED <<outstanding, lh, cache, pins, wrote, disk, dlog, dhead, panic>>
      /\ io.step = "finish" /\ committing' = FALSE
      /\ pc' = Awake([pc EXCEPT ![p] = "user"]) /\ io' = NoIo
  BY DEF Finish, persistent
<1>2. InOp = {} /\ lh = <<>> /\ dhead = <<>>
  BY <1>1 DEF Phases
<1>3. InOp' = {}
  BY <1>1, <1>2 DEF InOp, Awake, Types
<1>4. Types'
  <2>1. pc' \in [Procs -> {"user", "begin", "sleeping", "op", "commit"}]
    BY <1>1 DEF Types, Awake
  <2>2. io' \in [step : {"none", "log", "install", "finish", "readhead", "recover"},
                 tail : Nat \ {0}]
    BY <1>1 DEF NoIo
  <2>3. committing' \in BOOLEAN
    BY <1>1, Zenon
  <2> QED  BY <1>1, <2>1, <2>2, <2>3, Zenon DEF Types
<1>5. Counted'
  BY <1>1, <1>2, <1>3 DEF Counted, Reserved, Unspent
<1>6. Phases'
  BY <1>1, <1>2, <1>3 DEF Phases, IsHeader, NoIo
<1>7. CacheOK'
  BY <1>1, <1>2 DEF CacheOK, Held
<1>8. DlogOK'
  BY <1>1, <1>2 DEF DlogOK
<1> QED  BY <1>4, <1>5, <1>6, <1>7, <1>8

\* A crash leaves what is on disk.
LEMMA CrashLInv ==
  ASSUME LInv, Crash
  PROVE  LInv'
<1> USE DEF LInv
<1>1. /\ UNCHANGED <<disk, dlog, dhead, panic>>
      /\ outstanding' = 0 /\ committing' = FALSE /\ lh' = <<>>
      /\ cache' = [b \in Blocks |-> NoValue] /\ pins' = [b \in Blocks |-> 0]
      /\ pc' = [p \in Procs |-> "user"] /\ wrote' = [p \in Procs |-> {}]
      /\ io' = Booting
  BY DEF Crash, persistent
<1>2. InOp' = {} /\ Unspent' = {} /\ Cardinality({}) = 0
  BY <1>1, FS_EmptySet DEF InOp, Unspent
<1>3. Types'
  <2>1. lh' \in Seq(Blocks) /\ outstanding' \in Nat
    BY <1>1
  <2>5. committing' \in BOOLEAN
    BY <1>1, Zenon
  <2>2. /\ cache' \in [Blocks -> Values \cup {NoValue}] /\ pins' \in [Blocks -> Nat]
    BY <1>1
  <2>3. /\ pc' \in [Procs -> {"user", "begin", "sleeping", "op", "commit"}]
        /\ wrote' \in [Procs -> SUBSET Blocks]
    BY <1>1
  <2>4. io' \in [step : {"none", "log", "install", "finish", "readhead", "recover"},
                 tail : Nat \ {0}]
    BY <1>1 DEF Booting
  <2> QED  BY <1>1, <2>1, <2>2, <2>3, <2>4, <2>5 DEF Types
<1>4. Counted'
  BY <1>1, <1>2, SizesAssumption DEF Counted, Reserved
<1>5. Phases'
  BY <1>1, <1>2 DEF Phases, IsHeader, Booting
<1>6. CacheOK'
  BY <1>1 DEF CacheOK, Held
<1>7. DlogOK'
  BY <1>1 DEF DlogOK
<1> QED  BY <1>3, <1>4, <1>5, <1>6, <1>7

\* read_head(): recovery installs what the header on disk names.
LEMMA ReadHeadLInv ==
  ASSUME LInv, read_head
  PROVE  LInv'
<1> USE DEF LInv
<1>1. /\ UNCHANGED <<outstanding, committing, cache, pins, pc, wrote, disk, dlog, dhead, panic>>
      /\ io.step = "readhead" /\ lh' = dhead /\ io' = [step |-> "recover", tail |-> 1]
  BY DEF read_head, persistent
<1>2. InOp' = {} /\ Unspent' = {} /\ Cardinality({}) = 0
  BY <1>1, FS_EmptySet DEF InOp, Unspent, Phases
<1>3. Types'
  BY <1>1 DEF Types
<1>4. Counted'
  <2>1. outstanding = 0
    BY <1>1, <1>2, Zenon DEF Phases, Counted
  <2>2. Len(lh') <= LOGSIZE /\ Len(lh') \in Nat
    BY <1>1 DEF Phases, Types
  <2> QED  BY <1>1, <1>2, <2>1, <2>2, SizesAssumption DEF Counted, Reserved
<1>5. Phases'
  BY <1>1, <1>2 DEF Phases, IsHeader
<1>6. CacheOK'
  <2>1. Held = {}
    BY <1>1 DEF Held, Pending
  <2>2. Held' = {}
    BY <1>1 DEF Held, Pending
  <2> QED  BY <1>1, <2>1, <2>2 DEF CacheOK
<1>7. DlogOK'
  BY <1>1, SMTT(40) DEF DlogOK, Types
<1> QED  BY <1>3, <1>4, <1>5, <1>6, <1>7

\* Every step keeps the invariant.
LEMMA NextLInv == LInv /\ [Next]_vars => LInv'
<1> SUFFICES ASSUME LInv, [Next]_vars PROVE LInv'
  OBVIOUS
<1>1. CASE \E p \in Procs : begin_op(p)
  BY <1>1, BeginLInv
<1>2. CASE \E p \in Procs : end_op(p)
  BY <1>2, EndLInv
<1>3. CASE \E p \in Procs : Finish(p)
  BY <1>3, FinishLInv
<1>4. CASE \E p \in Procs, b \in Blocks, v \in Values : log_write(p, b, v)
  BY <1>4, LogWriteLInv
<1>5. CASE \E b \in Blocks : bread(b) \/ Recycle(b)
  BY <1>5, BufferLInv
<1>6. CASE write_log
  BY <1>6, WriteLogLInv
<1>7. CASE write_head
  BY <1>7, WriteHeadLInv
<1>8. CASE install_trans
  BY <1>8, InstallLInv
<1>9. CASE EraseHead
  BY <1>9, EraseLInv
<1>10. CASE Crash
  BY <1>10, CrashLInv
<1>11. CASE read_head
  BY <1>11, ReadHeadLInv
<1>12. CASE UNCHANGED vars
  <2> USE DEF LInv
  <2>1. UNCHANGED <<outstanding, committing, lh, cache, pins, disk, dlog, dhead, pc, wrote,
                    io, panic>>
    BY <1>12 DEF vars
  <2>2. Types' /\ Counted' /\ InOp' = InOp
    BY <2>1, CountedKept DEF Types
  <2>3. Phases'
    BY <2>1, <2>2 DEF Phases, IsHeader
  <2>4. CacheOK' /\ DlogOK'
    <3>1. Held' = Held
      BY <2>1 DEF Held, Pending
    <3>2. CacheOK'
      BY <2>1, <3>1 DEF CacheOK
    <3>3. DlogOK'
      BY <2>1 DEF DlogOK
    <3> QED  BY <3>2, <3>3
  <2> QED  BY <2>2, <2>3, <2>4
<1> QED  BY <1>1, <1>2, <1>3, <1>4, <1>5, <1>6, <1>7, <1>8, <1>9, <1>10, <1>11, <1>12
          DEF Next

\* The invariant of the log holds for any number of processes and of blocks.
THEOREM LogInvariant == Spec => []LInv
BY InitLInv, NextLInv, PTL DEF Spec

\* What begin_op() reserves is covered: no operation that keeps to OpBlocks
\* blocks overflows the log or meets a panic() of log.c.
THEOREM AlwaysReserved == Spec => []Reserved
<1>1. LInv => Reserved
  BY DEF LInv, Counted
<1> QED  BY <1>1, LogInvariant, PTL

-----------------------------------------------------------------------------
(***************************************************************************)
(* The log implements AtomicDisk.                                          *)
(***************************************************************************)

\* What recovery makes of a block: what the log holds for it, if the header on
\* disk names it, and what is at home otherwise.
LEMMA RecoveredBlock ==
  ASSUME LInv
  PROVE  /\ \A j \in 1 .. Len(dhead) : Recovered[dhead[j]] = dlog[j]
         /\ \A b \in Blocks \ Elems(dhead) : Recovered[b] = disk[b]
         /\ Recovered \in [Blocks -> Values]
<1>1. ASSUME NEW j \in 1 .. Len(dhead)
      PROVE  Recovered[dhead[j]] = dlog[j]
  <2>1. dhead[j] \in Blocks /\ dhead[j] \in Elems(dhead)
    <3>1. dhead[j] \in Blocks
      BY DEF LInv, Types
    <3> QED  BY <3>1, Zenon DEF Elems
  <2>2. (CHOOSE k \in 1 .. Len(dhead) : dhead[k] = dhead[j]) = j
    BY DEF LInv, Phases, IsHeader
  <2> QED  BY <2>1, <2>2, Zenon DEF Recovered
<1>2. \A b \in Blocks \ Elems(dhead) : Recovered[b] = disk[b]
  BY DEF Recovered
<1>3. \A b \in Blocks : Recovered[b] \in Values
  <2> TAKE b \in Blocks
  <2>1. CASE b \in Elems(dhead)
    <3>1. PICK j \in 1 .. Len(dhead) : dhead[j] = b
      BY <2>1 DEF Elems
    <3>2. j \in Slots
      BY DEF LInv, Phases, IsHeader
    <3> QED  BY <1>1, <3>1, <3>2 DEF LInv, Types
  <2>2. CASE b \notin Elems(dhead)
    BY <1>2, <2>2 DEF LInv, Types
  <2> QED  BY <2>1, <2>2
<1>4. Recovered \in [Blocks -> Values]
  <2>1. Recovered = [b \in Blocks |-> Recovered[b]]
    BY DEF Recovered
  <2> QED  BY <1>3, <2>1
<1> QED  BY <1>1, <1>2, <1>4

\* Outside of the installation of a transaction, recovery changes nothing.
LEMMA RecoveredIsDisk ==
  ASSUME LInv, io.step \in {"none", "log", "finish"}
  PROVE  Recovered = disk
<1>1. dhead = <<>> /\ Elems(dhead) = {}
  BY DEF LInv, Phases, Elems
<1>2. \A b \in Blocks : Recovered[b] = disk[b]
  BY <1>1, RecoveredBlock
<1>3. Recovered = [b \in Blocks |-> Recovered[b]] /\ disk = [b \in Blocks |-> disk[b]]
  BY DEF Recovered, LInv, Types
<1> QED  BY <1>2, <1>3

\* A block that is not pinned is read as it is at home.
LEMMA CurrentIsDisk ==
  ASSUME LInv, NEW b \in Blocks \ Held
  PROVE  Current(b) = disk[b]
BY DEF LInv, CacheOK, Current

\* After the last end_op() has committed, a crash loses nothing.
LEMMA LInvDurable == LInv => QuiescentIsDurable
<1> SUFFICES ASSUME LInv, Up, outstanding = 0, ~committing
             PROVE  View = Recovered
  BY DEF QuiescentIsDurable
<1>1. io.step = "none"
  BY DEF LInv, Phases, Types, Up
<1>2. InOp = {}
  BY InOpFinite, FS_EmptySet, Zenon DEF LInv, Counted
<1>3. Held = {}
  BY <1>1, <1>2 DEF LInv, Phases, Held
<1>4. \A b \in Blocks : View[b] = disk[b]
  BY <1>3, CurrentIsDisk DEF View
<1>5. Recovered = disk /\ disk = [b \in Blocks |-> disk[b]]
  BY <1>1, RecoveredIsDisk DEF LInv, Types
<1>6. View = [b \in Blocks |-> View[b]]
  BY DEF View
<1> QED  BY <1>4, <1>5, <1>6

\* When nothing is under way, everything that was written survives a crash.
THEOREM AlwaysDurable == Spec => []QuiescentIsDurable
BY LInvDurable, LogInvariant, PTL

\* Views that agree on every block are equal.
LEMMA ViewEqual ==
  ASSUME \A b \in Blocks : View'[b] = View[b]
  PROVE  View' = View
<1>1. View = [b \in Blocks |-> View[b]]
  BY DEF View
<1>2. View' = [b \in Blocks |-> View'[b]]
  BY DEF View
<1> QED  BY <1>1, <1>2

\* What makes a step a stutter of AtomicDisk.
Unseen == View' = View /\ Recovered' = Recovered /\ InOp' = InOp

\* Recovery depends on what is on disk alone.
LEMMA SameRecovered ==
  ASSUME UNCHANGED <<disk, dlog, dhead>>
  PROVE  Recovered' = Recovered
BY DEF Recovered

\* Steps that touch no block, and do not take the system up or down.
LEMMA SameBlocks ==
  ASSUME UNCHANGED <<cache, disk, dlog, dhead>>, Up' = Up
  PROVE  View' = View /\ Recovered' = Recovered
<1>1. Recovered' = Recovered
  BY SameRecovered, Zenon
<1>2. \A b \in Blocks : View'[b] = View[b]
  BY <1>1 DEF View, Current
<1> QED  BY <1>1, <1>2, ViewEqual

\* begin_op() opens an operation, or puts the process to sleep.
LEMMA BeginSim ==
  ASSUME LInv, NEW p \in Procs, begin_op(p)
  PROVE  Atomic!Begin(p) \/ Unseen
<1>1. View' = View /\ Recovered' = Recovered
  BY SameBlocks DEF begin_op, persistent, Up
<1>2. CASE Admitted
  <2>1. p \notin InOp /\ InOp' = InOp \cup {p}
    BY <1>2 DEF begin_op, InOp, LInv, Types
  <2> QED  BY <1>1, <2>1 DEF Atomic!Begin
<1>3. CASE ~Admitted
  <2>1. InOp' = InOp
    BY <1>3 DEF begin_op, InOp, LInv, Types
  <2> QED  BY <1>1, <2>1 DEF Unseen
<1> QED  BY <1>2, <1>3

\* log_write() writes the block as the running system sees it.
LEMMA LogWriteSim ==
  ASSUME LInv, NEW p \in Procs, NEW b \in Blocks, NEW v \in Values, log_write(p, b, v)
  PROVE  Atomic!Write(p, b, v)
<1>1. p \in InOp
  BY Zenon DEF log_write, InOp
<1>2. /\ Len(lh) < LOGSIZE /\ Len(lh) < nlog - 1 /\ outstanding >= 1
  BY <1>1, LogWriteGuards
<1>3. ~(Len(lh) >= LOGSIZE \/ Len(lh) >= nlog - 1) /\ ~(outstanding < 1)
  BY <1>2, SizesAssumption DEF LInv, Types
<1>4. /\ cache' = [cache EXCEPT ![b] = v]
      /\ UNCHANGED <<pc, io, disk, dlog, dhead, panic>>
  BY <1>3 DEF log_write, Logged, persistent
<1>5. InOp' = InOp /\ Recovered' = Recovered /\ Up /\ Up'
  <2>1. InOp' = InOp /\ Up /\ Up'
    BY <1>4, Zenon DEF InOp, Up, log_write
  <2> QED  BY <1>4, <2>1, SameRecovered, Zenon
<1>6. View' = [View EXCEPT ![b] = v]
  <2>1. \A c \in Blocks : View'[c] = IF c = b THEN v ELSE View[c]
    BY <1>4, <1>5, NoValueAssumption DEF View, Current, LInv, Types
  <2>2. View' = [c \in Blocks |-> View'[c]] /\ View = [c \in Blocks |-> View[c]]
    BY DEF View
  <2> QED  BY <2>1, <2>2
<1> QED  BY <1>1, <1>5, <1>6 DEF Atomic!Write

\* end_op() closes the operation.
LEMMA EndSim ==
  ASSUME LInv, NEW p \in Procs, end_op(p)
  PROVE  Atomic!End(p)
<1>1. p \in InOp
  BY DEF end_op, InOp
<1>2. ~committing /\ io.step = "none"
  BY <1>1, LogWriteGuards
<1>3. Up /\ Up' /\ UNCHANGED <<cache, disk, dlog, dhead>>
  <2>1. io'.step \in {"none", "log", "finish"} /\ panic' = panic
    BY <1>2 DEF end_op
  <2> QED  BY <2>1 DEF Up, end_op, persistent
<1>4. View' = View /\ Recovered' = Recovered
  BY <1>3, SameBlocks
<1>5. InOp' = InOp \ {p}
  <2>1. CASE outstanding - 1 = 0
    BY <1>2, <2>1 DEF end_op, InOp, LInv, Types
  <2>2. CASE outstanding - 1 # 0
    BY <1>2, <2>2 DEF end_op, InOp, Awake, LInv, Types
  <2> QED  BY <2>1, <2>2
<1> QED  BY <1>1, <1>4, <1>5 DEF Atomic!End

\* Reading or recycling a buffer shows the same block.
LEMMA BufferSim ==
  ASSUME LInv, NEW b \in Blocks, bread(b) \/ Recycle(b)
  PROVE  Unseen
<1>1. /\ UNCHANGED <<pc, io, disk, dlog, dhead, panic>>
      /\ cache'[b] \in {NoValue, disk[b]}
      /\ \A c \in Blocks \ {b} : cache'[c] = cache[c]
  BY DEF bread, Recycle, persistent, LInv, Types
<1>2. InOp' = InOp /\ Recovered' = Recovered /\ Up' = Up
  <2>1. InOp' = InOp /\ Up' = Up
    BY <1>1, Zenon DEF InOp, Up
  <2> QED  BY <1>1, <2>1, SameRecovered, Zenon
<1>3. Current(b) = disk[b]
  <2>1. b \notin Held
    BY UnpinnedNotHeld, Zenon DEF LInv
  <2> QED  BY <2>1, CurrentIsDisk
<1>4. \A c \in Blocks : Current(c)' = Current(c)
  <2> TAKE c \in Blocks
  <2>1. CASE c = b
    BY <1>1, <1>3, <2>1 DEF Current
  <2>2. CASE c # b
    BY <1>1, <2>2 DEF Current
  <2> QED  BY <2>1, <2>2
<1>5. \A c \in Blocks : View'[c] = View[c]
  BY <1>2, <1>4 DEF View
<1> QED  BY <1>2, <1>5, ViewEqual DEF Unseen

\* What recovery makes of a block after a step.
LEMMA RecoveredBlockNext ==
  LInv' => /\ \A j \in 1 .. Len(dhead') : Recovered'[dhead'[j]] = dlog'[j]
           /\ \A b \in Blocks \ Elems(dhead') : Recovered'[b] = disk'[b]
<1> DEFINE Q == /\ \A j \in 1 .. Len(dhead) : Recovered[dhead[j]] = dlog[j]
                /\ \A b \in Blocks \ Elems(dhead) : Recovered[b] = disk[b]
<1>1. LInv => Q
  BY RecoveredBlock
<1>2. LInv' => Q'
  BY <1>1, PTL
<1> QED  BY <1>2

\* write_log() writes where the header on disk does not point yet.
LEMMA WriteLogSim ==
  ASSUME LInv, write_log
  PROVE  Unseen
<1>1. /\ UNCHANGED <<pc, disk, dhead, panic>> /\ io.step = "log" /\ io'.step = "log"
      /\ dhead = <<>>
  BY DEF write_log, LInv, Types, Phases
<1>2. Elems(dhead) = {}
  BY <1>1 DEF Elems
<1>3. Recovered' = Recovered
  BY <1>1, <1>2 DEF Recovered
<1>4. lh[io.tail] \in Blocks
  BY DEF write_log, LInv, Types
<1>5. \A b \in Blocks : Current(b)' = Current(b)
  BY <1>1, <1>4 DEF write_log, Current, LInv, Types
<1>6. \A b \in Blocks : View'[b] = View[b]
  <2>1. Up' = Up
    BY <1>1 DEF Up
  <2> QED  BY <1>3, <1>5, <2>1 DEF View
<1> QED  BY <1>1, <1>3, <1>6, ViewEqual DEF Unseen, InOp

\* write_head() makes what the running system sees what a crash will leave, and
\* no operation is under way.
LEMMA WriteHeadSim ==
  ASSUME LInv, LInv', write_head
  PROVE  Atomic!Commit
<1>1. /\ UNCHANGED <<cache, pc, disk, dlog, lh, panic>> /\ io.step = "log"
      /\ io'.step = "install" /\ dhead' = lh /\ io.tail > Len(lh) /\ panic = "none"
  BY DEF write_head
<1>2. InOp = {} /\ InOp' = InOp
  BY <1>1 DEF LInv, Phases, InOp
<1>3. \A b \in Blocks : Recovered'[b] = Current(b)
  <2> TAKE b \in Blocks
  <2>1. CASE b \in Elems(lh)
    <3>1. PICK j \in 1 .. Len(lh) : lh[j] = b
      BY <2>1 DEF Elems
    <3>2. Recovered'[b] = dlog[j]
      BY <1>1, <3>1, RecoveredBlockNext
    <3>3. j < io.tail
      BY <1>1 DEF LInv, Types
    <3>4. dlog[j] = cache[b]
      BY <1>1, <3>1, <3>3 DEF LInv, DlogOK
    <3>5. b \in Held
      BY <1>1, <3>1 DEF Held, Pending
    <3> QED  BY <3>2, <3>4, <3>5 DEF Current, LInv, CacheOK
  <2>2. CASE b \notin Elems(lh)
    <3>1. Recovered'[b] = disk[b]
      BY <1>1, <2>2, RecoveredBlockNext
    <3>2. b \notin Held
      BY <2>2 DEF Held, Elems
    <3> QED  BY <3>1, <3>2, CurrentIsDisk
  <2> QED  BY <2>1, <2>2
<1>4. Up /\ Up'
  BY <1>1 DEF Up
<1>5. \A b \in Blocks : View[b] = Recovered'[b] /\ View'[b] = View[b]
  BY <1>1, <1>3, <1>4 DEF View, Current
<1>6. Recovered' = View
  <2>1. Recovered' = [b \in Blocks |-> Recovered'[b]]
    BY DEF Recovered
  <2>2. View = [b \in Blocks |-> View[b]]
    BY DEF View
  <2> QED  BY <1>5, <2>1, <2>2
<1> QED  BY <1>2, <1>5, <1>6, ViewEqual DEF Atomic!Commit

\* install_trans() does at home what recovery would do.
LEMMA InstallSim ==
  ASSUME LInv, LInv', install_trans
  PROVE  Unseen
<1> DEFINE t == io.tail
           c == lh[t]
<1>1. /\ UNCHANGED <<lh, dlog, dhead, pc, panic>>
      /\ disk' = [disk EXCEPT ![c] = dlog[t]] /\ cache' = [cache EXCEPT ![c] = dlog[t]]
      /\ io.step \in {"install", "recover"} /\ io'.step = io.step /\ t <= Len(lh)
  BY DEF install_trans, LInv, Types
<1>2. /\ t \in 1 .. Len(lh) /\ c \in Blocks /\ dhead = lh
  <2>1. t \in 1 .. Len(lh) /\ c \in Blocks
    BY <1>1 DEF LInv, Types
  <2> QED  BY <1>1, <2>1, Zenon DEF LInv, Phases
<1>3. Recovered' = Recovered
  <2>1. ASSUME NEW b \in Blocks PROVE Recovered'[b] = Recovered[b]
    <3>1. CASE b \in Elems(dhead)
      BY <1>1, <3>1 DEF Recovered
    <3>2. CASE b \notin Elems(dhead)
      <4>1. b # c
        BY <1>2, <3>2 DEF Elems
      <4>2. disk'[b] = disk[b]
        BY <1>1, <4>1 DEF LInv, Types
      <4> QED  BY <1>1, <3>2, <4>2 DEF Recovered
    <3> QED  BY <3>1, <3>2
  <2>2. /\ Recovered' = [b \in Blocks |-> Recovered'[b]]
        /\ Recovered = [b \in Blocks |-> Recovered[b]]
    BY DEF Recovered
  <2> QED  BY <2>1, <2>2
<1>4. Up' = Up
  BY <1>1 DEF Up
<1>5. \A b \in Blocks : View'[b] = View[b]
  <2>1. CASE ~Up
    BY <1>3, <1>4, <2>1 DEF View
  <2>2. CASE Up
    <3>1. io.step = "install" /\ c \in Held
      BY <1>1, <1>2, <2>2 DEF Up, Held, Pending
    <3>2. cache[c] = dlog[t] /\ cache[c] # NoValue
      <4>1. cache[c] = dlog[t]
        <5>1. t >= t
          BY <1>2
        <5> QED  BY <1>2, <3>1, <5>1, Zenon DEF LInv, DlogOK
      <4> QED  BY <1>2, <3>1, <4>1 DEF LInv, CacheOK
    <3>3. \A b \in Blocks : Current(b)' = Current(b)
      BY <1>1, <1>2, <3>2 DEF Current, LInv, Types
    <3> QED  BY <1>4, <2>2, <3>3 DEF View
  <2> QED  BY <2>1, <2>2
<1> QED  BY <1>1, <1>3, <1>5, ViewEqual DEF Unseen, InOp

\* The second write_head(): everything is at home, and nothing is left to recover.
LEMMA EraseSim ==
  ASSUME LInv, EraseHead
  PROVE  Unseen
<1>1. /\ UNCHANGED <<cache, disk, pc, panic>> /\ panic = "none" /\ dhead' = <<>>
      /\ io.step \in {"install", "recover"} /\ io.tail > Len(lh)
      /\ io'.step = IF io.step = "install" THEN "finish" ELSE "none"
  BY DEF EraseHead, NoIo
<1>2. \A b \in Blocks : Recovered[b] = disk[b]
  <2> TAKE b \in Blocks
  <2>1. CASE b \in Elems(dhead)
    <3>1. dhead = lh
      BY <1>1 DEF LInv, Phases
    <3>2. PICK j \in 1 .. Len(lh) : lh[j] = b
      BY <2>1, <3>1 DEF Elems
    <3>3. j < io.tail
      BY <1>1 DEF LInv, Types
    <3>4. dlog[j] = disk[b]
      BY <1>1, <3>2, <3>3 DEF LInv, DlogOK
    <3> QED  BY <3>1, <3>2, <3>4, RecoveredBlock
  <2>2. CASE b \notin Elems(dhead)
    BY <2>2, RecoveredBlock
  <2> QED  BY <2>1, <2>2
<1>3. \A b \in Blocks : Recovered'[b] = disk[b]
  BY <1>1 DEF Recovered, Elems
<1>4. Recovered' = Recovered
  <2>1. /\ Recovered' = [b \in Blocks |-> Recovered'[b]]
        /\ Recovered = [b \in Blocks |-> Recovered[b]]
    BY DEF Recovered
  <2> QED  BY <1>2, <1>3, <2>1
<1>5. \A b \in Blocks : Current(b)' = disk[b] /\ Current(b) = disk[b]
  <2>1. Held = {}
    BY <1>1 DEF Held, Pending, LInv, Types
  <2>2. \A b \in Blocks : Current(b) = disk[b]
    BY <2>1, CurrentIsDisk
  <2> QED  BY <1>1, <2>2 DEF Current
<1>6. \A b \in Blocks : View'[b] = disk[b] /\ View[b] = disk[b]
  BY <1>2, <1>3, <1>5 DEF View
<1> QED  BY <1>1, <1>4, <1>6, ViewEqual DEF Unseen, InOp

\* The rest of end_op() touches no block.
LEMMA FinishSim ==
  ASSUME LInv, NEW p \in Procs, Finish(p)
  PROVE  Unseen
<1>1. UNCHANGED <<cache, disk, dlog, dhead>> /\ Up' = Up
  BY DEF Finish, persistent, Up, NoIo
<1>2. InOp' = InOp
  BY DEF Finish, InOp, Awake, LInv, Types
<1> QED  BY <1>1, <1>2, SameBlocks DEF Unseen

\* A crash leaves what recovery will find.
LEMMA CrashSim ==
  ASSUME LInv, Crash
  PROVE  Atomic!Crash
<1>1. UNCHANGED <<disk, dlog, dhead>> /\ ~Up' /\ InOp' = {}
  BY DEF Crash, persistent, Up, Booting, InOp
<1>2. Recovered' = Recovered
  BY <1>1, SameRecovered, Zenon
<1>3. View' = Recovered
  <2>1. View' = [b \in Blocks |-> Recovered[b]]
    BY <1>1, <1>2 DEF View
  <2>2. Recovered = [b \in Blocks |-> Recovered[b]]
    BY DEF Recovered
  <2> QED  BY <2>1, <2>2
<1> QED  BY <1>1, <1>2, <1>3 DEF Atomic!Crash

\* read_head() touches no block.
LEMMA ReadHeadSim ==
  ASSUME LInv, read_head
  PROVE  Unseen
<1>1. UNCHANGED <<cache, disk, dlog, dhead>> /\ Up' = Up /\ InOp' = InOp
  BY DEF read_head, persistent, Up, InOp
<1> QED  BY <1>1, SameBlocks DEF Unseen

\* Every step of the log is a step of AtomicDisk, or changes nothing in it.
LEMMA NextSim == LInv /\ LInv' /\ [Next]_vars => [Atomic!Next]_(Atomic!vars)
<1> SUFFICES ASSUME LInv, LInv', [Next]_vars PROVE Atomic!Next \/ Unseen
  BY DEF Unseen, Atomic!vars
<1>1. CASE \E p \in Procs : begin_op(p)
  BY <1>1, BeginSim DEF Atomic!Next
<1>2. CASE \E p \in Procs : end_op(p)
  BY <1>2, EndSim DEF Atomic!Next
<1>3. CASE \E p \in Procs : Finish(p)
  BY <1>3, FinishSim
<1>4. CASE \E p \in Procs, b \in Blocks, v \in Values : log_write(p, b, v)
  BY <1>4, LogWriteSim DEF Atomic!Next
<1>5. CASE \E b \in Blocks : bread(b) \/ Recycle(b)
  BY <1>5, BufferSim
<1>6. CASE write_log
  BY <1>6, WriteLogSim
<1>7. CASE write_head
  BY <1>7, WriteHeadSim DEF Atomic!Next
<1>8. CASE install_trans
  BY <1>8, InstallSim
<1>9. CASE EraseHead
  BY <1>9, EraseSim
<1>10. CASE Crash
  BY <1>10, CrashSim DEF Atomic!Next
<1>11. CASE read_head
  BY <1>11, ReadHeadSim
<1>12. CASE UNCHANGED vars
  <2>1. UNCHANGED <<cache, disk, dlog, dhead>> /\ Up' = Up /\ InOp' = InOp
    BY <1>12 DEF vars, Up, InOp
  <2> QED  BY <2>1, SameBlocks DEF Unseen
<1> QED  BY <1>1, <1>2, <1>3, <1>4, <1>5, <1>6, <1>7, <1>8, <1>9, <1>10, <1>11, <1>12
          DEF Next

\* The first boot finds the disk that mkfs has made.
LEMMA InitSim == Init => Atomic!Init
<1> SUFFICES ASSUME Init PROVE Atomic!Init
  OBVIOUS
<1>1. LInv
  BY InitLInv
<1>2. ~Up /\ InOp = {}
  BY DEF Init, Up, Booting, InOp
<1>3. View = Recovered
  <2>1. View = [b \in Blocks |-> Recovered[b]]
    BY <1>2 DEF View
  <2>2. Recovered = [b \in Blocks |-> Recovered[b]]
    BY DEF Recovered
  <2> QED  BY <2>1, <2>2
<1> QED  BY <1>1, <1>2, <1>3, RecoveredBlock DEF Atomic!Init

\* The log makes operations atomic: whatever the moment of a crash, in commit(),
\* in install_trans() or in recovery itself, the disk comes back as it was at a
\* moment when no operation was under way.
THEOREM LogIsAtomic == Spec => AtomicOperations
<1>1. LInv /\ LInv' /\ [Next]_vars => [Atomic!Next]_(Atomic!vars)
  BY NextSim
<1> QED  BY <1>1, InitSim, LogInvariant, PTL DEF Spec, AtomicOperations, Atomic!Spec
=============================================================================

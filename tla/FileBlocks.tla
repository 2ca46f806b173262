----------------------------- MODULE FileBlocks -----------------------------
(***************************************************************************)
(* The contents of files: the block bitmap, bmap(), itrunc(), readi() and  *)
(* writei() of kernel/fs.c, and the loops of kernel/file.c over them.      *)
(*                                                                         *)
(* The inode lock is held over each step; between the steps of a long      *)
(* write it is not.                                                        *)
(***************************************************************************)
EXTENDS Integers, Sequences, FiniteSets, FiniteSetsExt

CONSTANTS
  Procs,            \* numbers; a process writes bytes that hold its own
  Inodes,
  Handles,          \* entries of the file table
  HandleInode,      \* the inode of each
  Blocks,           \* data blocks of the disk
  BSIZE, NDIRECT, NINDIRECT,
  MaxChunk,         \* bytes that filewrite() writes in one transaction
  Sizes,            \* sizes of reads and writes, as unsigned integers
  UintRange,        \* values of an unsigned integer
  MaxOps            \* bound on the number of operations

VARIABLES
  fs,      \* bitmap, block contents and inodes
  off,     \* f->off
  call,    \* the write() a process is in
  ops

vars == <<fs, off, call, ops>>

MAXFILE == NDIRECT + NINDIRECT
NoWrite == [left |-> 0]

\* A block of zeros, as data and as a block of addresses.
Zeros == [data |-> [k \in 0 .. BSIZE - 1 |-> 0], addr |-> [k \in 0 .. NINDIRECT - 1 |-> 0]]
NoAddrs == [k \in 0 .. NDIRECT |-> 0]

-----------------------------------------------------------------------------
\* balloc() takes the first free block and clears it.
Allocated(d, b) == [fs |-> [d EXCEPT !.bitmap = @ \cup {b}, !.block[b] = Zeros], addr |-> b]
balloc(d) == Allocated(d, Min(Blocks \ d.bitmap))

\* bmap(): the address of a block of a file, which is allocated if need be.
InInode(n, i, k) == [n EXCEPT !.fs.inode[i].addrs[k] = n.addr]
Direct(d, i, k) ==
  IF d.inode[i].addrs[k] # 0 THEN [fs |-> d, addr |-> d.inode[i].addrs[k]]
  ELSE InInode(balloc(d), i, k)

InBlock(n, b, k) == [n EXCEPT !.fs.block[b].addr[k] = n.addr]
InIndirect(base, k) ==
  IF base.fs.block[base.addr].addr[k] # 0
  THEN [fs |-> base.fs, addr |-> base.fs.block[base.addr].addr[k]]
  ELSE InBlock(balloc(base.fs), base.addr, k)

bmap(d, i, bn) ==
  IF bn < NDIRECT THEN Direct(d, i, bn) ELSE InIndirect(Direct(d, i, NDIRECT), bn - NDIRECT)

\* The blocks of a file: its data, and the block of addresses.
Indirect(d, i) == d.inode[i].addrs[NDIRECT]
DataBlocks(d, i) ==
  ({d.inode[i].addrs[bn] : bn \in 0 .. NDIRECT - 1}
   \cup IF Indirect(d, i) = 0 THEN {}
        ELSE {d.block[Indirect(d, i)].addr[bn] : bn \in 0 .. NINDIRECT - 1}) \ {0}

\* Variant: the block of addresses is kept.
FreedByTruncKept(d, i) == DataBlocks(d, i)

FreedByTrunc(d, i) == DataBlocks(d, i) \cup ({Indirect(d, i)} \ {0})

itrunc(d, i) ==
  [d EXCEPT !.bitmap = @ \ FreedByTrunc(d, i),
            !.inode[i] = [size |-> 0, addrs |-> NoAddrs]]

\* Variant: a write that begins inside a block goes on past its end.
SpanWhole(pos, n) == Min({n, BSIZE})

\* The bytes that lie in the block of pos.
Span(pos, n) == Min({n, BSIZE - (pos % BSIZE)})

\* The loop of writei() over blocks, with the first ok bytes readable at the
\* source: when either_copyin() fails the block it was for stays allocated, and
\* the bytes copied before stay in its buffer.
Copied(data, from, n, v) ==
  [k \in 0 .. BSIZE - 1 |-> IF k >= from /\ k < from + n THEN v ELSE data[k]]
InBuffer(x, from, n, v) == [x.fs EXCEPT !.block[x.addr].data = Copied(@, from, n, v)]

RECURSIVE WriteLoop(_, _, _, _, _, _)
Written(d, i, pos, n, v, ok, m) ==
  IF m > ok THEN [fs |-> d, pos |-> pos] ELSE WriteLoop(d, i, pos + m, n - m, v, ok - m)

WriteLoop(d, i, pos, n, v, ok) ==
  IF n = 0 THEN [fs |-> d, pos |-> pos]
  ELSE Written(InBuffer(bmap(d, i, pos \div BSIZE), pos % BSIZE, Min({Span(pos, n), ok}), v),
               i, pos, n, v, ok, Span(pos, n))

Refused(d, i, pos, n) ==
  \/ pos > d.inode[i].size \/ (pos + n) % UintRange < pos
  \/ (pos + n) % UintRange > MAXFILE * BSIZE

\* The size grows to the end of what was written.
Sized(w, i, pos) ==
  [fs |-> [w.fs EXCEPT !.inode[i].size = Max({@, w.pos})], ret |-> w.pos - pos]

\* writei(): -1, or the bytes written.
writei(d, i, pos, n, v, ok) ==
  IF Refused(d, i, pos, n)
  THEN [fs |-> d, ret |-> -1]
  ELSE Sized(WriteLoop(d, i, pos, n, v, ok), i, pos)

\* readi(): the bytes that are there.
ReadLength(d, i, pos, n) ==
  IF pos > d.inode[i].size \/ (pos + n) % UintRange < pos THEN 0
  ELSE Min({n, d.inode[i].size - pos})

-----------------------------------------------------------------------------
\* write() is called on an open file.
write(p, h, n) ==
  /\ call[p] = NoWrite /\ ops < MaxOps /\ n > 0
  /\ call' = [call EXCEPT ![p] = [left |-> n, file |-> h]]
  /\ ops' = ops + 1
  /\ UNCHANGED <<fs, off>>

\* One transaction of the loop of filewrite(), and of kfilewrite(), whose source
\* is the kernel's.  A short write ends the loop.
Chunk(p) == Min({call[p].left, MaxChunk})
ChunkDone(p, h, w) ==
  /\ fs' = w.fs
  /\ off' = [off EXCEPT ![h] = IF w.ret > 0 THEN @ + w.ret ELSE @]
  /\ call' = [call EXCEPT ![p] = IF w.ret # Chunk(p) \/ @.left = Chunk(p) THEN NoWrite
                                 ELSE [@ EXCEPT !.left = @ - Chunk(p)]]
WriteChunk(p, ok) ==
  /\ call[p] # NoWrite
  /\ LET h == call[p].file
     IN ChunkDone(p, h, writei(fs, HandleInode[h], off[h], Chunk(p), p, ok))
  /\ UNCHANGED ops

kfilewrite(p) == WriteChunk(p, Chunk(p))
filewrite(p) == \E ok \in 0 .. Chunk(p) - 1 : WriteChunk(p, ok)

\* fileread() and kfileread() move the offset by what was read.
fileread(h, n) ==
  /\ ops < MaxOps
  /\ off' = [off EXCEPT ![h] = @ + ReadLength(fs, HandleInode[h], off[h], n)]
  /\ ops' = ops + 1
  /\ UNCHANGED <<fs, call>>

\* writeToSwapFile() and readFromSwapFile() set the offset first.
seek(h, pos) ==
  /\ ops < MaxOps /\ \A p \in Procs : call[p] # NoWrite => call[p].file # h
  /\ off' = [off EXCEPT ![h] = pos]
  /\ ops' = ops + 1
  /\ UNCHANGED <<fs, call>>

\* open(O_TRUNC), or the last iput() of a file without a name.
truncate(i) ==
  /\ ops < MaxOps
  /\ fs' = itrunc(fs, i)
  /\ ops' = ops + 1
  /\ UNCHANGED <<off, call>>

Init ==
  /\ fs = [bitmap |-> {}, block |-> [b \in Blocks |-> Zeros],
           inode |-> [i \in Inodes |-> [size |-> 0, addrs |-> NoAddrs]]]
  /\ off = [h \in Handles |-> 0]
  /\ call = [p \in Procs |-> NoWrite]
  /\ ops = 0

Next ==
  \/ \E p \in Procs : \/ \E h \in Handles, n \in Sizes : write(p, h, n)
                      \/ kfilewrite(p) \/ filewrite(p)
  \/ \E h \in Handles, n \in Sizes : fileread(h, n) \/ seek(h, n)
  \/ \E i \in Inodes : truncate(i)

Spec == Init /\ [][Next]_vars

-----------------------------------------------------------------------------
(***************************************************************************)
(* Properties.                                                             *)
(***************************************************************************)

\* The bitmap marks the blocks of files and no others, no block belongs to two
\* files or twice to one: itrunc() gives back all that bmap() took, and bfree()
\* never meets a free block.  Every byte below the size of a file has a block, so
\* readi() allocates none.
Places(d) == (Inodes \X (0 .. NDIRECT)) \cup (Inodes \X {NDIRECT + 1 + bn : bn \in 0 .. NINDIRECT - 1})
BlockAt(d, x) ==
  IF x[2] <= NDIRECT THEN d.inode[x[1]].addrs[x[2]]
  ELSE IF Indirect(d, x[1]) = 0 THEN 0 ELSE d.block[Indirect(d, x[1])].addr[x[2] - NDIRECT - 1]
BlocksOwnedOnce ==
  /\ fs.bitmap = {BlockAt(fs, x) : x \in Places(fs)} \ {0}
  /\ \A x, y \in Places(fs) : BlockAt(fs, x) = BlockAt(fs, y) /\ x # y => BlockAt(fs, x) = 0
  /\ \A i \in Inodes : \A k \in 0 .. fs.inode[i].size - 1 : bmap(fs, i, k \div BSIZE).fs = fs

\* The contents of a file, what a write of n bytes v at pos makes of them, and
\* the same without growing.
Contents(d, i) ==
  [k \in 1 .. d.inode[i].size |->
     d.block[bmap(d, i, (k - 1) \div BSIZE).addr].data[(k - 1) % BSIZE]]
Overwritten(c, pos, n, v) ==
  [k \in 1 .. Max({Len(c), pos + n}) |-> IF k > pos /\ k <= pos + n THEN v ELSE c[k]]
Spoilt(c, pos, n, v) == [k \in DOMAIN c |-> IF k > pos /\ k <= pos + n THEN v ELSE c[k]]

\* A step of a write changes the bytes from the offset on, as many as it says,
\* and nothing else in any file; it appends without a hole or fails, and two
\* writers on one open file never write to the same place.  Only a write that
\* ends early may have spoilt bytes that follow, up to the end of the block.
WritesLand ==
  [][\A p \in Procs : call[p] # NoWrite /\ call'[p] # call[p] =>
       LET h == call[p].file
           n == off'[h] - off[h]
           room == IF call'[p] = NoWrite /\ n < Chunk(p) THEN BSIZE - 1 - (off'[h] % BSIZE) ELSE 0
       IN \A i \in Inodes : \E e \in 0 .. room :
            Contents(fs', i) = IF i = HandleInode[h]
                               THEN Spoilt(IF n = 0 THEN Contents(fs, i)
                                           ELSE Overwritten(Contents(fs, i), off[h], n, p),
                                           off'[h], e, p)
                               ELSE Contents(fs, i)]_vars
=============================================================================

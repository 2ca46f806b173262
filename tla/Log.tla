-------------------------------- MODULE Log --------------------------------
(***************************************************************************)
(* The write-ahead log of kernel/log.c with the part of the buffer cache   *)
(* (kernel/bio.c) it relies on: group commit, sleep and wakeup on the log, *)
(* absorption, installation, crashes at any point and recovery.            *)
(*                                                                         *)
(* Every write of a disk block is a step, since the machine may stop       *)
(* between any two; writing one block is taken to be atomic.  What happens *)
(* under log.lock is one step.                                             *)
(***************************************************************************)
EXTENDS Integers, Sequences, FiniteSets

CONSTANTS
  Procs,          \* processes that make file system calls
  Blocks,         \* blocks outside the log
  Values,         \* contents of a block
  NoValue,        \* not cached
  LOGSIZE,        \* limit that begin_op() and log_write() use
  nlog,           \* log.size: blocks of the on-disk log, the header included
  MAXOPBLOCKS,    \* blocks that begin_op() reserves for an operation
  OpBlocks        \* most distinct blocks an operation really writes

ASSUME SizesAssumption ==
  /\ LOGSIZE \in Nat \ {0} /\ nlog \in Nat /\ MAXOPBLOCKS \in Nat \ {0}
  /\ OpBlocks \in 0 .. MAXOPBLOCKS
\* Even when an operation has used up OpBlocks blocks, log_write() finds the log
\* shorter than its two limits: an operation reserves more than it writes.
ASSUME OpBlocksAssumption ==
  OpBlocks < MAXOPBLOCKS /\ LOGSIZE + OpBlocks < MAXOPBLOCKS + nlog - 1
ASSUME ProcsFinite == IsFiniteSet(Procs)
ASSUME NoValueAssumption == NoValue \notin Values

VARIABLES
  outstanding, committing,   \* of struct log
  lh,          \* log.lh: the blocks of the transaction, in order
  cache,       \* contents of the buffer cache
  pins,        \* references that bpin() holds on the buffer of a block
  disk,        \* blocks at their home location
  dlog,        \* blocks of the log area
  dhead,       \* header block of the log area
  pc,          \* where each process is
  wrote,       \* blocks written so far by the operation of each process
  io,          \* progress of commit() or of recover_from_log()
  panic

volatile == <<outstanding, committing, lh, cache, pins, pc, wrote, io>>
persistent == <<disk, dlog, dhead>>
vars == <<outstanding, committing, lh, cache, pins, disk, dlog, dhead, pc, wrote,
          io, panic>>

Slots == 1 .. nlog - 1
Elems(s) == {s[j] : j \in 1 .. Len(s)}

\* A block as bread() returns it.
Current(b) == IF cache[b] = NoValue THEN disk[b] ELSE cache[b]

NoIo == [step |-> "none", tail |-> 1]
Up == io.step \notin {"readhead", "recover"} /\ panic = "none"

-----------------------------------------------------------------------------
(***************************************************************************)
(* Operations.                                                             *)
(***************************************************************************)

\* Variant: the reservation of the operation itself is forgotten.
HasSpaceOffByOne == Len(lh) + outstanding * MAXOPBLOCKS <= LOGSIZE

\* The test of begin_op().
HasSpace == Len(lh) + (outstanding + 1) * MAXOPBLOCKS <= LOGSIZE

\* wakeup(&log).
Awake(f) == [p \in Procs |-> IF f[p] = "sleeping" THEN "begin" ELSE f[p]]

\* begin_op() lets the operation in.
Admitted == ~committing /\ HasSpace

\* begin_op() from the top of its loop; a woken process starts there again.
begin_op(p) ==
  /\ Up /\ pc[p] \in {"user", "begin"}
  /\ IF Admitted
     THEN /\ outstanding' = outstanding + 1
          /\ pc' = [pc EXCEPT ![p] = "op"]
          /\ wrote' = [wrote EXCEPT ![p] = {}]
     ELSE /\ pc' = [pc EXCEPT ![p] = "sleeping"]
          /\ UNCHANGED <<outstanding, wrote>>
  /\ UNCHANGED <<committing, lh, cache, pins, io, persistent, panic>>

\* Variant: the buffer is not pinned.
PinnedNot(b) == pins

\* bpin().
Pinned(b) == [pins EXCEPT ![b] = @ + 1]

\* Variant: no absorption.
LoggedNever(b) == FALSE

\* The block is in the transaction already.
Logged(b) == b \in Elems(lh)

\* bread(), a change of the buffer, log_write() and brelse(); the buffer is
\* locked all along.  Operations write no more blocks than they may.
log_write(p, b, v) ==
  /\ Up /\ pc[p] = "op"
  /\ Cardinality(wrote[p] \cup {b}) <= OpBlocks
  /\ IF Len(lh) >= LOGSIZE \/ Len(lh) >= nlog - 1
     THEN /\ panic' = "too big a transaction"
          /\ UNCHANGED <<volatile, persistent>>
     ELSE IF outstanding < 1
     THEN /\ panic' = "log_write outside of trans"
          /\ UNCHANGED <<volatile, persistent>>
     ELSE /\ cache' = [cache EXCEPT ![b] = v]
          /\ wrote' = [wrote EXCEPT ![p] = @ \cup {b}]
          /\ IF Logged(b)
             THEN UNCHANGED <<lh, pins>>
             ELSE lh' = Append(lh, b) /\ pins' = Pinned(b)
          /\ UNCHANGED <<outstanding, committing, pc, io, persistent, panic>>

\* end_op() up to the call of commit().
end_op(p) ==
  /\ Up /\ pc[p] = "op"
  /\ outstanding' = outstanding - 1
  /\ wrote' = [wrote EXCEPT ![p] = {}]
  /\ IF committing
     THEN /\ panic' = "log.committing"
          /\ UNCHANGED <<committing, pc, io>>
     ELSE IF outstanding - 1 = 0
     THEN /\ committing' = TRUE
          /\ pc' = [pc EXCEPT ![p] = "commit"]
          /\ io' = IF lh = <<>> THEN [step |-> "finish", tail |-> 1]
                   ELSE [step |-> "log", tail |-> 1]
          /\ UNCHANGED panic
     ELSE /\ pc' = Awake([pc EXCEPT ![p] = "user"])
          /\ UNCHANGED <<committing, io, panic>>
  /\ UNCHANGED <<lh, cache, pins, persistent>>

\* bread() by anyone, and bget() recycling an unused buffer.
bread(b) ==
  /\ Up /\ cache[b] = NoValue
  /\ cache' = [cache EXCEPT ![b] = disk[b]]
  /\ UNCHANGED <<outstanding, committing, lh, pins, pc, wrote, io, persistent, panic>>

Recycle(b) ==
  /\ Up /\ cache[b] # NoValue /\ pins[b] = 0
  /\ cache' = [cache EXCEPT ![b] = NoValue]
  /\ UNCHANGED <<outstanding, committing, lh, pins, pc, wrote, io, persistent, panic>>

-----------------------------------------------------------------------------
(***************************************************************************)
(* commit(), one disk write at a time, by the process that ended the last  *)
(* operation.                                                              *)
(***************************************************************************)

write_log ==
  /\ io.step = "log" /\ panic = "none" /\ io.tail <= Len(lh)
  /\ dlog' = [dlog EXCEPT ![io.tail] = Current(lh[io.tail])]
  /\ cache' = [cache EXCEPT ![lh[io.tail]] = Current(lh[io.tail])]
  /\ io' = [io EXCEPT !.tail = @ + 1]
  /\ UNCHANGED <<outstanding, committing, lh, pins, pc, wrote, disk, dhead, panic>>

\* write_head(), the commit point.
write_head ==
  /\ io.step = "log" /\ panic = "none" /\ io.tail > Len(lh)
  /\ dhead' = lh
  /\ io' = [step |-> "install", tail |-> 1]
  /\ UNCHANGED <<outstanding, committing, lh, cache, pins, pc, wrote, disk, dlog,
                 panic>>

\* One block of install_trans(); recovery has pinned nothing.
install_trans ==
  LET b == lh[io.tail] IN
  /\ io.step \in {"install", "recover"} /\ panic = "none" /\ io.tail <= Len(lh)
  /\ disk' = [disk EXCEPT ![b] = dlog[io.tail]]
  /\ cache' = [cache EXCEPT ![b] = dlog[io.tail]]
  /\ pins' = IF io.step = "install" THEN [pins EXCEPT ![b] = @ - 1] ELSE pins
  /\ io' = [io EXCEPT !.tail = @ + 1]
  /\ UNCHANGED <<outstanding, committing, lh, dlog, dhead, pc, wrote, panic>>

\* Variant: the last block is not installed.
EraseHeadEarly ==
  /\ io.step \in {"install", "recover"} /\ panic = "none" /\ io.tail >= Len(lh)
  /\ lh' = <<>>
  /\ dhead' = <<>>
  /\ io' = IF io.step = "install" THEN [step |-> "finish", tail |-> 1] ELSE NoIo
  /\ UNCHANGED <<outstanding, committing, cache, pins, disk, dlog, pc, wrote, panic>>

\* lh.n = 0 and the second write_head(): the transaction leaves the log.
EraseHead ==
  /\ io.step \in {"install", "recover"} /\ panic = "none" /\ io.tail > Len(lh)
  /\ lh' = <<>>
  /\ dhead' = <<>>
  /\ io' = IF io.step = "install" THEN [step |-> "finish", tail |-> 1] ELSE NoIo
  /\ UNCHANGED <<outstanding, committing, cache, pins, disk, dlog, pc, wrote, panic>>

\* Variant: nobody is woken.
FinishSilent(p) ==
  /\ pc[p] = "commit" /\ io.step = "finish" /\ panic = "none"
  /\ committing' = FALSE
  /\ pc' = [pc EXCEPT ![p] = "user"]
  /\ io' = NoIo
  /\ UNCHANGED <<outstanding, lh, cache, pins, wrote, persistent, panic>>

\* The rest of end_op().
Finish(p) ==
  /\ pc[p] = "commit" /\ io.step = "finish" /\ panic = "none"
  /\ committing' = FALSE
  /\ pc' = Awake([pc EXCEPT ![p] = "user"])
  /\ io' = NoIo
  /\ UNCHANGED <<outstanding, lh, cache, pins, wrote, persistent, panic>>

-----------------------------------------------------------------------------
(***************************************************************************)
(* Crash and recovery: initlog() runs before any other use of the disk.    *)
(***************************************************************************)
Booting == [step |-> "readhead", tail |-> 1]

Crash ==
  /\ panic = "none"
  /\ outstanding' = 0 /\ committing' = FALSE /\ lh' = <<>>
  /\ cache' = [b \in Blocks |-> NoValue]
  /\ pins' = [b \in Blocks |-> 0]
  /\ pc' = [p \in Procs |-> "user"]
  /\ wrote' = [p \in Procs |-> {}]
  /\ io' = Booting
  /\ UNCHANGED <<persistent, panic>>

read_head ==
  /\ io.step = "readhead" /\ panic = "none"
  /\ lh' = dhead
  /\ io' = [step |-> "recover", tail |-> 1]
  /\ UNCHANGED <<outstanding, committing, cache, pins, pc, wrote, persistent, panic>>

Init ==
  /\ outstanding = 0 /\ committing = FALSE /\ lh = <<>>
  /\ cache = [b \in Blocks |-> NoValue]
  /\ pins = [b \in Blocks |-> 0]
  /\ disk \in [Blocks -> Values]
  /\ dlog \in {[s \in Slots |-> v] : v \in Values}     \* as mkfs leaves it
  /\ dhead = <<>>
  /\ pc = [p \in Procs |-> "user"]
  /\ wrote = [p \in Procs |-> {}]
  /\ io = Booting
  /\ panic = "none"

Next ==
  \/ \E p \in Procs :
       \/ begin_op(p) \/ end_op(p) \/ Finish(p)
       \/ \E b \in Blocks, v \in Values : log_write(p, b, v)
  \/ \E b \in Blocks : bread(b) \/ Recycle(b)
  \/ write_log \/ write_head \/ install_trans \/ EraseHead
  \/ Crash \/ read_head

Spec == Init /\ [][Next]_vars

CommitStep == write_log \/ write_head \/ install_trans \/ EraseHead \/ read_head

\* Processes run again and again (scheduler()), disk requests complete, and
\* every file system call ends its operation.
FairSpec ==
  /\ Spec
  /\ WF_vars(CommitStep)
  /\ \A p \in Procs : WF_vars(end_op(p)) /\ WF_vars(Finish(p))
                      /\ WF_vars(pc[p] = "begin" /\ begin_op(p))

-----------------------------------------------------------------------------
InOp == {p \in Procs : pc[p] = "op"}

\* The blocks reserved by the operations under way and not yet used by them.
Unspent ==
  {s \in InOp \X (1 .. MAXOPBLOCKS) : s[2] > Cardinality(wrote[s[1]])}

\* The reservations of begin_op() are covered: what is in the log and what the
\* operations under way may still add to it fits in LOGSIZE blocks, and no
\* operation that keeps to OpBlocks blocks meets a panic() of log.c.
Reserved == Len(lh) + Cardinality(Unspent) <= LOGSIZE /\ panic = "none"

\* What the disk will hold once recover_from_log() has run.
Recovered ==
  [b \in Blocks |->
     IF b \in Elems(dhead)
     THEN dlog[CHOOSE j \in 1 .. Len(dhead) : dhead[j] = b]
     ELSE disk[b]]

\* What a running system sees, and what it will see when it is down.
View == [b \in Blocks |-> IF Up THEN Current(b) ELSE Recovered[b]]

Atomic == INSTANCE AtomicDisk WITH view <- View, stable <- Recovered, open <- InOp

\* The log makes operations atomic: at any crash, in the middle of commit(),
\* of install_trans() or of recovery itself, recovery leaves on disk the state
\* of a moment when no operation was under way.
AtomicOperations == Atomic!Spec

\* When no operation is under way and none is being committed, everything that
\* operations wrote survives a crash: end_op() of the last one has seen to it.
QuiescentIsDurable ==
  (Up /\ outstanding = 0 /\ ~committing) => View = Recovered

\* No wakeup is lost: a process asleep in begin_op() is woken.
SleeperWakes == \A p \in Procs : pc[p] = "sleeping" ~> pc[p] # "sleeping"
=============================================================================

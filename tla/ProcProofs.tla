----------------------------- MODULE ProcProofs -----------------------------
(***************************************************************************)
(* Proof that the spinlocks of Proc are balanced (LocksCounted), that no   *)
(* two CPUs share a kernel stack (OneStackOneCpu) and that no wakeup of a  *)
(* parent is lost (NoLostWakeup), for any number of CPUs and processes.    *)
(*                                                                         *)
(* The inductive invariant says which locks a CPU holds at each point of a *)
(* kernel thread, how the state of a process, the place of its thread and  *)
(* the CPUs agree, and what exit(), wait() and fork() know of the family   *)
(* of a process while they hold or have released wait_lock.                *)
(***************************************************************************)
EXTENDS Proc, FiniteSetTheorems, WellFoundedInduction, TLAPS

\* Where a thread can be, and where a timer interrupt can find it.
Open == {"user", "fork", "exit", "wait", "ticking"}
Pcs == Open \cup {"sched", "zombie", "waitsleep", "ticksleep"}

CpuType == [proc : Procs \cup {0}, noff : Nat, intena : BOOLEAN, ie : BOOLEAN,
            trap : {"none", "tick", "yield", "ret"}]
ProcType == [state : {"UNUSED", "USED", "RUNNABLE", "RUNNING", "SLEEPING", "ZOMBIE"},
             chan : Procs \cup {ticks}, killed : BOOLEAN, parent : Procs \cup {0},
             role : {"none", "init", "sh", "child"}]
ThreadType == [pc : Pcs, intena : BOOLEAN, back : Open \cup {"none"}, kid : Procs \cup {0},
               left : Nat]

TypeOK == /\ cpu \in [CPUs -> CpuType] /\ lock \in [Locks -> CPUs \cup {0}]
          /\ proc \in [Procs -> ProcType] /\ thread \in [Procs -> ThreadType]

\* The locks that a thread holds between its steps.
HeldAt(pc, p) ==
  IF pc = "sched" THEN {p} ELSE IF pc \in {"zombie", "waitsleep"} THEN {wait_lock}
  ELSE IF pc = "ticksleep" THEN {tickslock} ELSE {}
Holds(c) == IF cpu[c].proc = 0 THEN {} ELSE HeldAt(thread[cpu[c].proc].pc, cpu[c].proc)

\* The locks of a CPU, their number and its interrupts agree.
CpuOK(c) ==
  /\ \A l \in Locks : lock[l] = c <=> l \in Holds(c)
  /\ cpu[c].noff = IF Holds(c) = {} THEN 0 ELSE 1
  /\ Holds(c) # {} => cpu[c].trap = "none" /\ ~cpu[c].ie
  /\ cpu[c].trap # "none" => ~cpu[c].ie

\* A CPU and the process that it runs, which no other CPU does.
RunOK(c) ==
  LET p == cpu[c].proc IN
  p # 0 =>
    /\ \A d \in CPUs : cpu[d].proc = p => d = c
    /\ ~thread[p].intena
    /\ IF thread[p].pc = "sched"
       THEN /\ proc[p].state \in {"RUNNABLE", "SLEEPING", "ZOMBIE"}
            /\ thread[p].back # "none" => ~cpu[c].intena
       ELSE proc[p].state = "RUNNING"

\* The state of a process and the place of its thread.
StateOK(p) ==
  /\ proc[p].state = "RUNNING" => \E c \in CPUs : cpu[c].proc = p
  /\ proc[p].state \in {"SLEEPING", "ZOMBIE"} => thread[p].pc = "sched"
  /\ proc[p].state = "USED" => thread[p].pc = "user"
  /\ thread[p].pc \notin {"sched", "user"} => proc[p].state = "RUNNING"
  /\ thread[p].pc = "sched" => proc[p].state # "RUNNING"
  /\ thread[p].back # "none" =>
       thread[p].pc = "sched" /\ proc[p].state = "RUNNABLE" /\ ~thread[p].intena

\* p may sleep in wait(): it has children, and none to collect.
MaySleep(p) == Kids(p) # {} /\ \A q \in Kids(p) : proc[q].state # "ZOMBIE"
InWait(p) == proc[p].state = "SLEEPING" /\ proc[p].chan = p

\* What exit() and wait() know of a family.
FamilyOK(p) ==
  /\ InWait(p) \/ thread[p].pc = "waitsleep" => MaySleep(p)
  /\ thread[p].pc = "zombie" => \A q \in Procs : /\ proc[q].parent # p
                                                 /\ proc[p].parent = q => ~InWait(q)
  /\ proc[p].parent # 0 => /\ proc[p].state # "UNUSED"
                           /\ proc[proc[p].parent].state \notin {"UNUSED", "ZOMBIE"}

\* The entry that fork() has taken, and nobody else uses.
InFork(p) == "fork" \in {thread[p].pc, thread[p].back}
KidOK(p) ==
  /\ proc[p].state = "USED" => proc[p].parent = 0
  /\ InFork(p) => /\ thread[p].kid \in Procs /\ proc[thread[p].kid].state = "USED"
                  /\ \A q \in Procs : InFork(q) /\ thread[q].kid = thread[p].kid => q = p

\* init does not exit.
InitprocOK ==
  /\ proc[initproc].role = "init" /\ ~proc[initproc].killed
  /\ {thread[initproc].pc, thread[initproc].back} \cap {"exit", "zombie"} = {}
  /\ proc[initproc].state \notin {"UNUSED", "USED", "ZOMBIE"}
  /\ \A p \in Procs : proc[p].role = "init" => p = initproc

PInv == /\ TypeOK /\ InitprocOK
        /\ \A c \in CPUs : CpuOK(c) /\ RunOK(c)
        /\ \A p \in Procs : StateOK(p) /\ FamilyOK(p) /\ KidOK(p)

-----------------------------------------------------------------------------
(***************************************************************************)
(* What the invariant says of one CPU, of one process and of wait_lock.    *)
(***************************************************************************)

\* Locks and processes have different names.
LEMMA Names ==
  /\ initproc \in Procs /\ 0 \notin Procs /\ ticks \notin Procs
  /\ \A p \in Procs : p \in Locks /\ p # wait_lock /\ p # tickslock
  /\ wait_lock \in Locks /\ tickslock \in Locks /\ wait_lock # tickslock
BY NamesAssumption DEF initproc, Procs, ticks, Locks, wait_lock, tickslock

\* A thread that a timer interrupt can find holds no lock, and the other way round.
LEMMA HeldNone ==
  ASSUME NEW pc \in Pcs, NEW p \in Procs
  PROVE  /\ HeldAt(pc, p) = {} <=> pc \in Open
         /\ HeldAt("sched", p) = {p} /\ HeldAt("zombie", p) = {wait_lock}
         /\ HeldAt("waitsleep", p) = {wait_lock} /\ HeldAt("ticksleep", p) = {tickslock}
BY DEF HeldAt, Pcs, Open

\* A CPU that runs p.
LEMMA OnCpu ==
  ASSUME PInv, NEW c \in CPUs, NEW p \in Procs, cpu[c].proc = p
  PROVE  /\ Holds(c) = HeldAt(thread[p].pc, p)
         /\ \A d \in CPUs \ {c} : cpu[d].proc # p
         /\ ~thread[p].intena
         /\ thread[p].pc # "sched" => proc[p].state = "RUNNING" /\ thread[p].back = "none"
         /\ thread[p].pc \in Open => Holds(c) = {} /\ cpu[c].noff = 0
         /\ cpu[c].trap # "none" \/ cpu[c].ie => thread[p].pc \in Open
<1>1. /\ CpuOK(c) /\ RunOK(c) /\ StateOK(p) /\ thread[p].pc \in Pcs /\ p # 0
      /\ \A d \in CPUs : RunOK(d)
  BY Names DEF PInv, TypeOK, ThreadType
<1>2. Holds(c) = HeldAt(thread[p].pc, p)
  BY <1>1, Zenon DEF Holds
<1>3. \A d \in CPUs \ {c} : cpu[d].proc # p
  BY <1>1, Zenon DEF RunOK
<1>4. /\ ~thread[p].intena
      /\ thread[p].pc # "sched" => proc[p].state = "RUNNING"
  BY <1>1, Zenon DEF RunOK
<1>5. thread[p].pc # "sched" => thread[p].back = "none"
  BY <1>1, Zenon DEF StateOK
<1>6. thread[p].pc \in Open <=> Holds(c) = {}
  BY <1>1, <1>2, HeldNone, Zenon
<1>7. Holds(c) = {} => cpu[c].noff = 0
  BY <1>1, Zenon DEF CpuOK
<1>8. cpu[c].trap # "none" \/ cpu[c].ie => Holds(c) = {}
  BY <1>1, Zenon DEF CpuOK
<1> QED
  BY <1>2, <1>3, <1>4, <1>5, <1>6, <1>7, <1>8, Zenon

\* A process that does not run, and whose lock is free, is on no CPU.
LEMMA OffCpu ==
  ASSUME PInv, NEW p \in Procs, Free(p), proc[p].state # "RUNNING", NEW d \in CPUs
  PROVE  cpu[d].proc # p
<1> SUFFICES ASSUME cpu[d].proc = p
             PROVE  FALSE
  OBVIOUS
<1>1. thread[p].pc = "sched" /\ Holds(d) = HeldAt(thread[p].pc, p)
  BY OnCpu, Zenon
<1>2. p \in Holds(d) /\ p \in Locks
  BY <1>1, Names DEF HeldAt
<1>3. lock[p] = d
  BY <1>2, Zenon DEF PInv, CpuOK
<1> QED
  BY <1>3, NamesAssumption, Zenon DEF Free

\* Nor is one that is not there.
LEMMA UnusedOff ==
  ASSUME PInv, NEW p \in Procs, proc[p].state \in {"UNUSED", "USED"}, NEW d \in CPUs
  PROVE  cpu[d].proc # p
<1> SUFFICES ASSUME cpu[d].proc = p
             PROVE  FALSE
  OBVIOUS
<1>1. RunOK(d) /\ p # 0
  BY Names, Zenon DEF PInv
<1> QED
  BY <1>1 DEF RunOK

\* Only one process at a time is between the steps that wait_lock protects.
LEMMA WaitLockOnce ==
  ASSUME PInv, NEW p \in Procs, thread[p].pc \in {"zombie", "waitsleep"}
  PROVE  /\ ~Free(wait_lock)
         /\ \A q \in Procs : thread[q].pc \in {"zombie", "waitsleep"} => q = p
<1>1. ASSUME NEW q \in Procs, thread[q].pc \in {"zombie", "waitsleep"}
      PROVE  \E d \in CPUs : cpu[d].proc = q /\ lock[wait_lock] = d
  <2>1. StateOK(q)
    BY Zenon DEF PInv
  <2>2. PICK d \in CPUs : cpu[d].proc = q
    BY <1>1, <2>1 DEF StateOK
  <2>3. Holds(d) = {wait_lock}
    BY <1>1, <2>2, OnCpu, HeldNone DEF HeldAt
  <2>4. lock[wait_lock] = d
    BY <2>3, Names, Zenon DEF PInv, CpuOK
  <2> QED  BY <2>2, <2>4, Zenon
<1>2. PICK c \in CPUs : cpu[c].proc = p /\ lock[wait_lock] = c
  BY <1>1, Zenon
<1> QED
  BY <1>1, <1>2, NamesAssumption, Zenon DEF Free

-----------------------------------------------------------------------------
(***************************************************************************)
(* What a step leaves alone.                                               *)
(***************************************************************************)

\* The thread of q stays where it is, and at most a wakeup() reaches q.
OnlyWoken(q) ==
  /\ thread'[q].pc = thread[q].pc /\ thread'[q].back = thread[q].back
  /\ thread'[q].intena = thread[q].intena
  /\ \/ proc'[q].state = proc[q].state
     \/ proc[q].state = "SLEEPING" /\ proc'[q].state = "RUNNABLE"

\* A step of c changes no lock of another CPU.
OwnLocks(c) == \A l \in Locks : lock'[l] = lock[l] \/ {lock[l], lock'[l]} \subseteq {0, c}

\* The other CPUs, when a step of c leaves what they run alone.
LEMMA CpusKept ==
  ASSUME PInv, NEW c \in CPUs, OwnLocks(c), CpuOK(c)', RunOK(c)',
         \A d \in CPUs \ {c} : /\ cpu'[d] = cpu[d]
                               /\ cpu[d].proc # 0 => /\ OnlyWoken(cpu[d].proc)
                                                     /\ cpu[d].proc # cpu'[c].proc
  PROVE  \A d \in CPUs : CpuOK(d)' /\ RunOK(d)'
<1> SUFFICES ASSUME NEW d \in CPUs \ {c}
             PROVE  CpuOK(d)' /\ RunOK(d)'
  BY Zenon
<1>1. CpuOK(d) /\ RunOK(d) /\ d # 0
  BY NamesAssumption, Zenon DEF PInv
<1>2. Holds(d)' = Holds(d)
  BY Zenon DEF Holds, OnlyWoken
<1>3. \A l \in Locks : lock'[l] = d <=> lock[l] = d
  BY <1>1 DEF OwnLocks
<1>4. CpuOK(d)'
  BY <1>1, <1>2, <1>3, Zenon DEF CpuOK
<1>5. RunOK(d)'
  <2> DEFINE p == cpu[d].proc
  <2> SUFFICES ASSUME p # 0
               PROVE  /\ \A e \in CPUs : cpu'[e].proc = p => e = d
                      /\ ~thread'[p].intena
                      /\ IF thread'[p].pc = "sched"
                         THEN /\ proc'[p].state \in {"RUNNABLE", "SLEEPING", "ZOMBIE"}
                              /\ thread'[p].back # "none" => ~cpu[d].intena
                         ELSE proc'[p].state = "RUNNING"
    BY Zenon DEF RunOK
  <2>1. \A e \in CPUs : cpu'[e].proc = p => e = d
    BY <1>1, Zenon DEF RunOK
  <2>2. /\ OnlyWoken(p) /\ ~thread[p].intena
        /\ IF thread[p].pc = "sched"
           THEN /\ proc[p].state \in {"RUNNABLE", "SLEEPING", "ZOMBIE"}
                /\ thread[p].back # "none" => ~cpu[d].intena
           ELSE proc[p].state = "RUNNING"
    BY <1>1, Zenon DEF RunOK
  <2> HIDE DEF p
  <2>3. /\ ~thread'[p].intena
        /\ IF thread'[p].pc = "sched"
           THEN /\ proc'[p].state \in {"RUNNABLE", "SLEEPING", "ZOMBIE"}
                /\ thread'[p].back # "none" => ~cpu[d].intena
           ELSE proc'[p].state = "RUNNING"
    BY <2>2 DEF OnlyWoken
  <2> QED  BY <2>1, <2>3, Zenon
<1> QED
  BY <1>4, <1>5, Zenon

\* A process that a step leaves alone, and on its CPU.
LEMMA StateKept ==
  ASSUME PInv, NEW q \in Procs, OnlyWoken(q),
         \A d \in CPUs : cpu[d].proc = q => cpu'[d].proc = q
  PROVE  StateOK(q)'
<1>1. StateOK(q)
  BY Zenon DEF PInv
<1>2. proc'[q].state = "RUNNING" => \E d \in CPUs : cpu'[d].proc = q
  BY <1>1 DEF StateOK, OnlyWoken
<1>3. /\ proc'[q].state \in {"SLEEPING", "ZOMBIE"} => thread'[q].pc = "sched"
      /\ proc'[q].state = "USED" => thread'[q].pc = "user"
      /\ thread'[q].pc \notin {"sched", "user"} => proc'[q].state = "RUNNING"
      /\ thread'[q].pc = "sched" => proc'[q].state # "RUNNING"
      /\ thread'[q].back # "none" =>
           thread'[q].pc = "sched" /\ proc'[q].state = "RUNNABLE" /\ ~thread'[q].intena
  BY <1>1 DEF StateOK, OnlyWoken
<1> QED
  BY <1>2, <1>3, Zenon DEF StateOK

\* The entries that fork() has taken, in the other system calls.
LEMMA KidsKept ==
  ASSUME PInv,
         \A q \in Procs : /\ InFork(q)' => InFork(q) /\ thread'[q].kid = thread[q].kid
                          /\ proc'[q].state = "USED" <=> proc[q].state = "USED"
                          /\ proc[q].parent = 0 => proc'[q].parent = 0
  PROVE  \A q \in Procs : KidOK(q)'
<1> SUFFICES ASSUME NEW q \in Procs
             PROVE  KidOK(q)'
  BY Zenon
<1>1. KidOK(q)
  BY Zenon DEF PInv
<1>2. proc'[q].state = "USED" => proc'[q].parent = 0
  BY <1>1, Zenon DEF KidOK
<1>3. ASSUME InFork(q)'
      PROVE  /\ thread'[q].kid \in Procs /\ proc'[thread'[q].kid].state = "USED"
             /\ \A r \in Procs : InFork(r)' /\ thread'[r].kid = thread'[q].kid => r = q
  <2>1. thread'[q].kid = thread[q].kid /\ InFork(q)
    BY <1>3, Zenon
  <2>2. /\ thread[q].kid \in Procs /\ proc[thread[q].kid].state = "USED"
        /\ \A r \in Procs : InFork(r) /\ thread[r].kid = thread[q].kid => r = q
    BY <1>1, <2>1, Zenon DEF KidOK
  <2> QED  BY <2>1, <2>2, Zenon
<1> QED
  BY <1>2, <1>3, Zenon DEF KidOK

\* Families, in a step that makes no zombie and changes no parent.
LEMMA FamilyKept ==
  ASSUME PInv,
         \A q \in Procs :
           /\ proc'[q].parent = proc[q].parent
           /\ InWait(q)' => InWait(q) \/ thread[q].pc = "waitsleep"
           /\ thread'[q].pc = "waitsleep" => thread[q].pc = "waitsleep" \/ MaySleep(q)
           /\ thread'[q].pc = "zombie" => thread[q].pc = "zombie"
           /\ proc'[q].state \in {"UNUSED", "ZOMBIE"} => proc'[q].state = proc[q].state
  PROVE  \A q \in Procs : FamilyOK(q)'
<1> SUFFICES ASSUME NEW q \in Procs
             PROVE  FamilyOK(q)'
  BY Zenon
<1>1. FamilyOK(q) /\ proc[q].parent \in Procs \cup {0}
  BY DEF PInv, TypeOK, ProcType
<1>2. Kids(q)' = Kids(q)
  BY Zenon DEF Kids
<1>3. MaySleep(q) => MaySleep(q)'
  <2>1. \A r \in Kids(q) : proc[r].state # "ZOMBIE" => proc'[r].state # "ZOMBIE"
    BY Zenon DEF Kids
  <2> QED  BY <1>2, <2>1, Zenon DEF MaySleep
<1>4. InWait(q)' \/ thread'[q].pc = "waitsleep" => MaySleep(q)'
  BY <1>1, <1>3, Zenon DEF FamilyOK
<1>5. ASSUME thread'[q].pc = "zombie", NEW r \in Procs
      PROVE  proc'[r].parent # q /\ (proc'[q].parent = r => ~InWait(r)')
  <2>1. thread[q].pc = "zombie"
    BY <1>5, Zenon
  <2>2. proc[r].parent # q /\ (proc[q].parent = r => ~InWait(r))
    BY <1>1, <2>1, Zenon DEF FamilyOK
  <2>3. thread[r].pc # "waitsleep"
    BY <2>1, WaitLockOnce
  <2> QED  BY <2>2, <2>3, Zenon
<1>6. proc'[q].parent # 0 => /\ proc'[q].state # "UNUSED"
                             /\ proc'[proc'[q].parent].state \notin {"UNUSED", "ZOMBIE"}
  <2> SUFFICES ASSUME proc[q].parent # 0
               PROVE  /\ proc'[q].state # "UNUSED"
                      /\ proc'[proc[q].parent].state \notin {"UNUSED", "ZOMBIE"}
    BY Zenon
  <2>1. /\ proc[q].parent \in Procs /\ proc[proc[q].parent].state \notin {"UNUSED", "ZOMBIE"}
        /\ proc[q].state # "UNUSED"
    BY <1>1, Zenon DEF FamilyOK
  <2> QED  BY <2>1, Zenon
<1> QED
  BY <1>4, <1>5, <1>6, Zenon DEF FamilyOK

\* init, in a step that does not kill it or end it.
LEMMA InitprocKept ==
  ASSUME PInv,
         \A q \in Procs : proc'[q].role = "init" <=> proc[q].role = "init",
         proc'[initproc].killed = proc[initproc].killed,
         {thread'[initproc].pc, thread'[initproc].back} \cap {"exit", "zombie"} = {},
         proc'[initproc].state \notin {"UNUSED", "USED", "ZOMBIE"}
  PROVE  InitprocOK'
BY Names, Zenon DEF PInv, InitprocOK

-----------------------------------------------------------------------------
(***************************************************************************)
(* Steps of a CPU alone, and of a thread that leaves the table alone.      *)
(***************************************************************************)

\* A step of c, which holds no lock, that changes the interrupts of c, and nothing
\* else.
SameButInterrupts(r, s) == /\ s.proc = r.proc /\ s.noff = r.noff /\ s.intena = r.intena
                           /\ s.trap # "none" => ~s.ie
OnlyInterrupts(c) ==
  /\ cpu' \in [CPUs -> CpuType] /\ \A d \in CPUs \ {c} : cpu'[d] = cpu[d]
  /\ SameButInterrupts(cpu[c], cpu'[c])
  /\ Holds(c) = {}
  /\ UNCHANGED <<lock, proc, thread>>

LEMMA InterruptsInv ==
  ASSUME PInv, NEW c \in CPUs, OnlyInterrupts(c)
  PROVE  PInv'
<1>1. /\ \A d \in CPUs \ {c} : cpu'[d] = cpu[d]
      /\ cpu'[c].proc = cpu[c].proc /\ cpu'[c].noff = cpu[c].noff
      /\ cpu'[c].intena = cpu[c].intena /\ lock' = lock /\ proc' = proc /\ thread' = thread
  BY Zenon DEF OnlyInterrupts, SameButInterrupts
<1>2. TypeOK'
  BY Zenon DEF PInv, TypeOK, OnlyInterrupts
<1>3. \A d \in CPUs : cpu'[d].proc = cpu[d].proc /\ cpu'[d].intena = cpu[d].intena
  BY <1>1, Zenon
<1>4. CpuOK(c)'
  <2>1. CpuOK(c)
    BY Zenon DEF PInv
  <2>2. Holds(c)' = Holds(c)
    BY <1>1, Zenon DEF Holds
  <2> QED  BY <1>1, <2>1, <2>2, Zenon DEF CpuOK, OnlyInterrupts, SameButInterrupts
<1>5. RunOK(c)' /\ RunOK(c)
  <2>1. RunOK(c)
    BY Zenon DEF PInv
  <2> QED  BY <1>1, <1>3, <2>1, Zenon DEF RunOK
<1>6. OwnLocks(c) /\ \A q \in Procs : OnlyWoken(q)
  BY <1>1, Zenon DEF OwnLocks, OnlyWoken
<1>7. \A d \in CPUs : cpu[d].proc # 0 => cpu[d].proc \in Procs
  BY DEF PInv, TypeOK, CpuType
<1>8. \A d \in CPUs \ {c} : cpu[d].proc # 0 => cpu[d].proc # cpu'[c].proc
  BY <1>1, <1>5, Zenon DEF RunOK
<1>9. \A d \in CPUs : CpuOK(d)' /\ RunOK(d)'
  BY <1>1, <1>4, <1>5, <1>6, <1>7, <1>8, CpusKept, Zenon
<1>10. \A q \in Procs : StateOK(q)'
  BY <1>3, <1>6, StateKept, Zenon
<1>11. \A q \in Procs : FamilyOK(q)' /\ KidOK(q)'
  <2>1. \A q \in Procs : (InWait(q)' <=> InWait(q)) /\ (InFork(q)' <=> InFork(q))
    BY <1>1, Zenon DEF InWait, InFork
  <2> QED  BY <1>1, <2>1, FamilyKept, KidsKept, Zenon
<1>12. InitprocOK'
  BY <1>1, Zenon DEF PInv, InitprocOK
<1> QED
  BY <1>2, <1>9, <1>10, <1>11, <1>12, Zenon DEF PInv

\* The interrupt of the timer comes, its handler returns, the scheduler allows
\* interrupts.
LEMMA timerInv ==
  ASSUME PInv, NEW c \in CPUs,
         timer(c) \/ TrapScheduler(c) \/ TrapReturn(c) \/ intr_on(c)
  PROVE  PInv'
<1>1. cpu \in [CPUs -> CpuType] /\ cpu[c] \in CpuType /\ CpuOK(c)
  BY Zenon DEF PInv, TypeOK
<1>2. UNCHANGED <<lock, proc, thread>>
  BY Zenon DEF timer, TrapScheduler, TrapReturn, intr_on
<1>3. Holds(c) = {}
  <2>1. cpu[c].ie \/ cpu[c].trap # "none" \/ cpu[c].proc = 0
    BY Zenon DEF timer, TrapScheduler, TrapReturn, intr_on
  <2> QED  BY <1>1, <2>1, Zenon DEF CpuOK, Holds
<1>4. \E s \in CpuType : cpu' = [cpu EXCEPT ![c] = s] /\ SameButInterrupts(cpu[c], s)
  <2>1. CASE timer(c)
    <3> DEFINE t == IF c = 1 THEN "tick" ELSE "yield"
               s == [cpu[c] EXCEPT !.ie = FALSE, !.trap = t]
    <3>1. cpu' = [cpu EXCEPT ![c] = s] /\ s \in CpuType
      BY <1>1, <2>1, Zenon DEF timer, CpuType
    <3>2. SameButInterrupts(cpu[c], s)
      BY <1>1 DEF CpuType, SameButInterrupts
    <3> QED  BY <3>1, <3>2, Zenon
  <2>2. CASE TrapScheduler(c) \/ TrapReturn(c)
    <3> DEFINE s == [cpu[c] EXCEPT !.ie = TRUE, !.trap = "none"]
    <3>1. cpu' = [cpu EXCEPT ![c] = s] /\ s \in CpuType
      BY <1>1, <2>2, Zenon DEF TrapScheduler, TrapReturn, CpuType
    <3>2. SameButInterrupts(cpu[c], s)
      BY <1>1 DEF CpuType, SameButInterrupts
    <3> QED  BY <3>1, <3>2, Zenon
  <2>3. CASE intr_on(c)
    <3> DEFINE s == [cpu[c] EXCEPT !.ie = TRUE]
    <3>1. cpu' = [cpu EXCEPT ![c] = s] /\ s \in CpuType /\ cpu[c].trap = "none"
      BY <1>1, <2>3, Zenon DEF intr_on, CpuType
    <3>2. SameButInterrupts(cpu[c], s)
      BY <1>1, <3>1 DEF CpuType, SameButInterrupts
    <3> QED  BY <3>1, <3>2, Zenon
  <2> QED  BY <2>1, <2>2, <2>3, Zenon
<1>5. PICK s \in CpuType : cpu' = [cpu EXCEPT ![c] = s] /\ SameButInterrupts(cpu[c], s)
  BY <1>4, Zenon
<1>6. /\ cpu' \in [CPUs -> CpuType] /\ \A d \in CPUs \ {c} : cpu'[d] = cpu[d]
      /\ cpu'[c] = s
  BY <1>1, <1>5, Zenon
<1> QED
  BY <1>2, <1>3, <1>5, <1>6, InterruptsInv, Zenon DEF OnlyInterrupts, SameButInterrupts

\* The thread of p, on c, moves on: it takes at most one lock and leaves the table
\* alone.
Moves(c, p) ==
  LET pc == thread'[p].pc IN
  /\ cpu[c].proc = p /\ thread[p].pc \in Open /\ proc' = proc
  /\ cpu' \in [CPUs -> CpuType] /\ \A d \in CPUs \ {c} : cpu'[d] = cpu[d]
  /\ thread' \in [Procs -> ThreadType] /\ \A q \in Procs \ {p} : thread'[q] = thread[q]
  /\ pc \in Pcs \ {"fork", "sched", "zombie"} /\ thread'[p].back = "none" /\ ~thread'[p].intena
  /\ pc = "exit" => p # initproc
  /\ pc = "waitsleep" => MaySleep(p)
  /\ lock' \in [Locks -> CPUs \cup {0}]
  /\ \A l \in Locks : IF l \in HeldAt(pc, p) THEN Free(l) /\ lock'[l] = c ELSE lock'[l] = lock[l]
  /\ cpu'[c].proc = p /\ cpu'[c].trap = "none"
  /\ cpu'[c].noff = IF HeldAt(pc, p) = {} THEN 0 ELSE 1
  /\ HeldAt(pc, p) # {} => ~cpu'[c].ie

LEMMA MovesInv ==
  ASSUME PInv, NEW c \in CPUs, NEW p \in Procs, Moves(c, p)
  PROVE  PInv'
<1> DEFINE pc == thread'[p].pc
<1>1. /\ cpu[c].proc = p /\ cpu'[c].proc = p /\ proc' = proc /\ thread[p].pc \in Open
      /\ \A d \in CPUs \ {c} : cpu'[d] = cpu[d]
      /\ \A q \in Procs \ {p} : thread'[q] = thread[q]
      /\ pc \in Pcs \ {"fork", "sched", "zombie"} /\ thread'[p].back = "none" /\ ~thread'[p].intena
      /\ pc = "exit" => p # initproc
      /\ pc = "waitsleep" => MaySleep(p)
  BY Zenon DEF Moves
<1>2. /\ \A l \in Locks : IF l \in HeldAt(pc, p) THEN Free(l) /\ lock'[l] = c
                          ELSE lock'[l] = lock[l]
      /\ cpu'[c].trap = "none" /\ cpu'[c].noff = IF HeldAt(pc, p) = {} THEN 0 ELSE 1
      /\ HeldAt(pc, p) # {} => ~cpu'[c].ie
  BY Zenon DEF Moves
<1>3. /\ Holds(c) = {} /\ proc[p].state = "RUNNING" /\ thread[p].pc # "sched"
      /\ thread[p].back = "none" /\ \A d \in CPUs \ {c} : cpu[d].proc # p
  <2>1. thread[p].pc # "sched"
    BY <1>1 DEF Open
  <2> QED  BY <1>1, <2>1, OnCpu, Zenon
<1>4. TypeOK'
  BY Zenon DEF PInv, TypeOK, Moves
<1>5. Holds(c)' = HeldAt(pc, p)
  BY <1>1, Names, Zenon DEF Holds
<1>6. CpuOK(c)'
  <2>1. \A l \in Locks : lock[l] # c
    BY <1>3, Zenon DEF PInv, CpuOK
  <2> QED  BY <1>2, <1>5, <2>1, Zenon DEF CpuOK
<1>7. RunOK(c)'
  <2>1. proc'[p].state = "RUNNING" /\ pc # "sched"
    BY <1>1, <1>3, Zenon
  <2>2. \A d \in CPUs : cpu'[d].proc = p => d = c
    BY <1>1, <1>3, Zenon
  <2> QED  BY <1>1, <2>1, <2>2, Zenon DEF RunOK
<1>8. OwnLocks(c)
  BY <1>2 DEF OwnLocks, Free
<1>9. \A q \in Procs \ {p} : OnlyWoken(q)
  BY <1>1, Zenon DEF OnlyWoken
<1>10. \A d \in CPUs : CpuOK(d)' /\ RunOK(d)'
  <2>1. \A d \in CPUs : cpu[d].proc # 0 => cpu[d].proc \in Procs
    BY DEF PInv, TypeOK, CpuType
  <2> QED  BY <1>1, <1>3, <1>6, <1>7, <1>8, <1>9, <2>1, CpusKept, Zenon
<1>11. StateOK(p)'
  BY <1>1, <1>3 DEF StateOK
<1>12. \A q \in Procs : StateOK(q)'
  <2>1. \A q \in Procs : \A d \in CPUs : cpu[d].proc = q => cpu'[d].proc = q
    BY <1>1, Zenon
  <2> QED  BY <1>9, <1>11, <2>1, StateKept, Zenon
<1>13. \A q \in Procs : FamilyOK(q)'
  <2>1. \A q \in Procs : InWait(q)' <=> InWait(q)
    BY <1>1, Zenon DEF InWait
  <2>2. \A q \in Procs : /\ thread'[q].pc = "waitsleep" => thread[q].pc = "waitsleep" \/ MaySleep(q)
                         /\ thread'[q].pc = "zombie" => thread[q].pc = "zombie"
    BY <1>1, Zenon
  <2> QED  BY <1>1, <2>1, <2>2, FamilyKept, Zenon
<1>14. \A q \in Procs : KidOK(q)'
  <2>1. ~InFork(p)'
    BY <1>1 DEF InFork
  <2>2. \A q \in Procs : InFork(q)' => InFork(q) /\ thread'[q].kid = thread[q].kid
    BY <1>1, <2>1, Zenon DEF InFork
  <2> QED  BY <1>1, <2>2, KidsKept, Zenon
<1>15. InitprocOK'
  <2>1. {thread'[initproc].pc, thread'[initproc].back} \cap {"exit", "zombie"} = {}
    <3>1. CASE p = initproc
      BY <1>1, <3>1
    <3>2. CASE p # initproc
      BY <1>1, <3>2, Names, Zenon DEF PInv, InitprocOK
    <3> QED  BY <3>1, <3>2, Zenon
  <2>2. proc[initproc].state \notin {"UNUSED", "USED", "ZOMBIE"}
    BY Zenon DEF PInv, InitprocOK
  <2> QED  BY <1>1, <2>1, <2>2, InitprocKept, Zenon
<1> QED
  BY <1>4, <1>10, <1>12, <1>13, <1>14, <1>15, Zenon DEF PInv

\* push_off() and pop_off(), as acquire() and release() call them.
LEMMA Push ==
  ASSUME NEW r \in CpuType, r.noff = 0
  PROVE  /\ push_off(r) \in CpuType /\ push_off(r).proc = r.proc /\ push_off(r).trap = r.trap
         /\ push_off(r).noff = 1 /\ ~push_off(r).ie /\ push_off(r).intena = r.ie
<1> DEFINE s == [r EXCEPT !.noff = 1, !.intena = r.ie, !.ie = FALSE]
<1>1. r.noff + 1 = 1 /\ 1 \in Nat /\ FALSE \in BOOLEAN /\ r.ie \in BOOLEAN
  BY DEF CpuType
<1>2. push_off(r) = s
  BY <1>1, Zenon DEF push_off
<1>3. s \in CpuType
  BY <1>1, Zenon DEF CpuType
<1>4. s.proc = r.proc /\ s.trap = r.trap /\ s.noff = 1 /\ ~s.ie
  BY DEF CpuType
<1>5. s.intena = r.ie
  BY DEF CpuType
<1> QED
  BY <1>2, <1>3, <1>4, <1>5, Zenon

\* pop_off(), when one lock is held or two.
LEMMA Pop ==
  ASSUME NEW r \in CpuType, r.noff = 1
  PROVE  /\ pop_off(r) \in CpuType /\ pop_off(r).proc = r.proc /\ pop_off(r).trap = r.trap
         /\ pop_off(r).noff = 0 /\ pop_off(r).ie = (r.ie \/ r.intena)
<1> DEFINE s == [r EXCEPT !.noff = 0, !.ie = r.ie \/ r.intena, !.intena = FALSE]
<1>1. r.noff - 1 = 0 /\ 0 \in Nat /\ FALSE \in BOOLEAN /\ (r.ie \/ r.intena) \in BOOLEAN
  BY DEF CpuType
<1>2. pop_off(r) = s
  <2>1. ~(r.noff > 1)
    OBVIOUS
  <2>2. (r.ie \/ (r.noff = 1 /\ r.intena)) = (r.ie \/ r.intena)
    BY Zenon
  <2>3. (r.noff > 1 /\ r.intena) = FALSE
    BY <2>1
  <2> QED  BY <1>1, <2>2, <2>3, Zenon DEF pop_off
<1>3. s \in CpuType
  BY <1>1, Zenon DEF CpuType
<1>4. s.proc = r.proc /\ s.trap = r.trap /\ s.noff = 0
  BY DEF CpuType
<1>5. s.ie = (r.ie \/ r.intena)
  BY DEF CpuType
<1> QED
  BY <1>2, <1>3, <1>4, <1>5, Zenon

LEMMA PushPop ==
  ASSUME NEW r \in CpuType, r.noff = 1, ~r.ie
  PROVE  LET t == pop_off(push_off(r)) IN
         /\ t \in CpuType /\ t.proc = r.proc /\ t.trap = r.trap
         /\ t.noff = 1 /\ ~t.ie /\ t.intena = r.intena
<1> DEFINE s == [r EXCEPT !.noff = 2, !.intena = r.intena, !.ie = FALSE]
<1>1. r.noff + 1 = 2 /\ 2 - 1 = 1 /\ 2 # 1 /\ 2 > 1 /\ r.noff # 0
  OBVIOUS
<1>2. push_off(r) = s
  BY <1>1, Zenon DEF push_off
<1>3. s.noff = 2 /\ ~s.ie /\ s.intena = r.intena
  BY DEF CpuType
<1> DEFINE t == [s EXCEPT !.noff = 1, !.ie = FALSE, !.intena = r.intena]
<1>4. pop_off(s) = t
  <2>1. (s.ie \/ (s.noff = 1 /\ s.intena)) = FALSE
    BY <1>1, <1>3, Zenon
  <2>2. (s.noff > 1 /\ s.intena) = r.intena
    BY <1>1, <1>3 DEF CpuType
  <2> QED  BY <1>1, <1>3, <2>1, <2>2, Zenon DEF pop_off
<1>5. t \in CpuType
  <2>1. 1 \in Nat /\ 2 \in Nat /\ FALSE \in BOOLEAN /\ r.intena \in BOOLEAN
    BY DEF CpuType
  <2>2. s \in CpuType
    BY <2>1, Zenon DEF CpuType
  <2> QED  BY <2>1, <2>2, Zenon DEF CpuType
<1>6. t.proc = r.proc /\ t.trap = r.trap /\ t.noff = 1 /\ ~t.ie
  BY DEF CpuType
<1>7. t.intena = r.intena
  BY DEF CpuType
<1> QED
  BY <1>2, <1>4, <1>5, <1>6, <1>7, Zenon

\* A CPU and a thread that a step changes.
LEMMA SetCpu ==
  ASSUME TypeOK, NEW c \in CPUs, NEW r \in CpuType, cpu' = [cpu EXCEPT ![c] = r]
  PROVE  cpu' \in [CPUs -> CpuType] /\ cpu'[c] = r /\ \A d \in CPUs \ {c} : cpu'[d] = cpu[d]
BY Zenon DEF TypeOK

LEMMA SetThread ==
  ASSUME TypeOK, NEW p \in Procs, NEW t \in ThreadType, thread' = [thread EXCEPT ![p] = t]
  PROVE  /\ thread' \in [Procs -> ThreadType] /\ thread'[p] = t
         /\ \A q \in Procs \ {p} : thread'[q] = thread[q]
BY Zenon DEF TypeOK

LEMMA SetPc ==
  ASSUME TypeOK, NEW p \in Procs, NEW pc \in Pcs, Goto(p, pc)
  PROVE  /\ thread' \in [Procs -> ThreadType] /\ thread'[p].pc = pc
         /\ \A q \in Procs \ {p} : thread'[q] = thread[q]
         /\ thread'[p].back = thread[p].back /\ thread'[p].kid = thread[p].kid
         /\ thread'[p].intena = thread[p].intena
<1> DEFINE t == [thread[p] EXCEPT !.pc = pc]
<1>1. thread[p] \in ThreadType /\ thread \in [Procs -> ThreadType]
  BY Zenon DEF TypeOK
<1>2. t \in ThreadType
  BY <1>1, Zenon DEF ThreadType
<1>3. thread' = [thread EXCEPT ![p] = t]
  BY <1>1, Zenon DEF Goto
<1>4. t.pc = pc /\ t.back = thread[p].back /\ t.kid = thread[p].kid
  BY <1>1 DEF ThreadType
<1>5. t.intena = thread[p].intena
  BY <1>1 DEF ThreadType
<1> QED
  BY <1>2, <1>3, <1>4, <1>5, SetThread, Zenon

\* A CPU without a lock acquires one.
LEMMA Acquired ==
  ASSUME PInv, NEW c \in CPUs, NEW l \in Locks, Holds(c) = {}, acquire(c, l)
  PROVE  /\ Free(l) /\ lock' \in [Locks -> CPUs \cup {0}] /\ lock'[l] = c
         /\ \A m \in Locks \ {l} : lock'[m] = lock[m]
         /\ cpu' \in [CPUs -> CpuType] /\ \A d \in CPUs \ {c} : cpu'[d] = cpu[d]
         /\ cpu'[c].proc = cpu[c].proc /\ cpu'[c].trap = cpu[c].trap
         /\ cpu'[c].noff = 1 /\ ~cpu'[c].ie
<1>1. TypeOK /\ CpuOK(c) /\ cpu[c] \in CpuType /\ lock \in [Locks -> CPUs \cup {0}]
  BY Zenon DEF PInv, TypeOK
<1>2. cpu[c].noff = 0
  BY <1>1, Zenon DEF CpuOK
<1>3. cpu' = [cpu EXCEPT ![c] = push_off(cpu[c])] /\ push_off(cpu[c]) \in CpuType
  BY <1>1, <1>2, Push, Zenon DEF acquire
<1>4. cpu' \in [CPUs -> CpuType] /\ cpu'[c] = push_off(cpu[c]) /\ \A d \in CPUs \ {c} : cpu'[d] = cpu[d]
  BY <1>1, <1>3, SetCpu, Zenon
<1>5. /\ Free(l) /\ lock' \in [Locks -> CPUs \cup {0}] /\ lock'[l] = c
      /\ \A m \in Locks \ {l} : lock'[m] = lock[m]
  BY <1>1, Zenon DEF acquire
<1>6. /\ push_off(cpu[c]).proc = cpu[c].proc /\ push_off(cpu[c]).trap = cpu[c].trap
      /\ push_off(cpu[c]).noff = 1 /\ ~push_off(cpu[c]).ie
  BY <1>1, <1>2, Push, Zenon
<1> QED
  BY <1>4, <1>5, <1>6, Zenon

\* The thread of p, on c, moves on without a lock.
LEMMA OpenMoves ==
  ASSUME PInv, NEW c \in CPUs, NEW p \in Procs, NEW r \in CpuType, NEW t \in ThreadType,
         cpu[c].proc = p, thread[p].pc \in Open, UNCHANGED <<lock, proc>>,
         cpu' = [cpu EXCEPT ![c] = r], r.proc = p, r.trap = "none", r.noff = 0,
         thread' = [thread EXCEPT ![p] = t], t.back = "none", ~t.intena,
         t.pc \in Open \ {"fork"}, t.pc = "exit" => p # initproc
  PROVE  PInv'
<1>1. TypeOK /\ lock \in [Locks -> CPUs \cup {0}]
  BY Zenon DEF PInv, TypeOK
<1>2. cpu' \in [CPUs -> CpuType] /\ cpu'[c] = r /\ \A d \in CPUs \ {c} : cpu'[d] = cpu[d]
  BY <1>1, SetCpu, Zenon
<1>3. /\ thread' \in [Procs -> ThreadType] /\ thread'[p] = t
      /\ \A q \in Procs \ {p} : thread'[q] = thread[q]
  BY <1>1, SetThread, Zenon
<1>4. t.pc \in Pcs \ {"fork", "sched", "zombie"} /\ t.pc # "waitsleep"
  BY DEF Pcs, Open
<1>5. HeldAt(t.pc, p) = {}
  BY <1>4, HeldNone, Zenon
<1>6. \A l \in Locks : IF l \in HeldAt(t.pc, p) THEN Free(l) /\ lock'[l] = c ELSE lock'[l] = lock[l]
  BY <1>5
<1>7. Moves(c, p)
  BY <1>1, <1>2, <1>3, <1>4, <1>5, <1>6, Zenon DEF Moves
<1> QED
  BY <1>7, MovesInv, Zenon

\* Only a process that was killed exits on its own, and init is not killed.
LEMMA NotInit ==
  ASSUME PInv, NEW p \in Procs
  PROVE  /\ proc[p].killed => p # initproc
         /\ proc[p].role # "init" => p # initproc
         /\ AfterCall(p) \in {"exit", "user"} /\ (AfterCall(p) = "exit" => p # initproc)
<1>1. (proc[p].killed => p # initproc) /\ (proc[p].role # "init" => p # initproc)
  BY Zenon DEF PInv, InitprocOK
<1> QED
  BY <1>1 DEF AfterCall

\* What a step finds of the thread that it runs.
LEMMA OpenFacts ==
  ASSUME PInv, NEW c \in CPUs, NEW p \in Procs, cpu[c].proc = p, thread[p].pc \in Open
  PROVE  /\ TypeOK /\ cpu[c] \in CpuType /\ thread[p] \in ThreadType
         /\ cpu \in [CPUs -> CpuType] /\ thread \in [Procs -> ThreadType]
         /\ Holds(c) = {} /\ cpu[c].noff = 0
         /\ proc[p].state = "RUNNING" /\ thread[p].back = "none" /\ ~thread[p].intena
<1>1. thread[p].pc # "sched"
  BY DEF Open
<1>2. /\ Holds(c) = {} /\ cpu[c].noff = 0
      /\ proc[p].state = "RUNNING" /\ thread[p].back = "none" /\ ~thread[p].intena
  BY <1>1, OnCpu, Zenon
<1> QED
  BY <1>2, Zenon DEF PInv, TypeOK

\* A killed process is made to exit at the end of a trap.
LEMMA TrapKilledInv ==
  ASSUME PInv, NEW c \in CPUs, NEW p \in Procs, TrapKilled(c, p)
  PROVE  PInv'
<1>1. cpu[c].proc = p /\ thread[p].pc = "user" /\ UNCHANGED <<lock, proc>> /\ proc[p].killed
  BY Zenon DEF TrapKilled
<1>2. "user" \in Open /\ "exit" \in Open \ {"fork"}
  BY DEF Open
<1> DEFINE r == [cpu[c] EXCEPT !.trap = "none"]
           t == [thread[p] EXCEPT !.pc = "exit"]
<1>3. /\ TypeOK /\ cpu[c] \in CpuType /\ thread[p] \in ThreadType
      /\ cpu \in [CPUs -> CpuType] /\ thread \in [Procs -> ThreadType]
      /\ cpu[c].noff = 0 /\ thread[p].back = "none" /\ ~thread[p].intena
  BY <1>1, <1>2, OpenFacts, Zenon
<1>4. cpu' = [cpu EXCEPT ![c] = r] /\ thread' = [thread EXCEPT ![p] = t]
  BY <1>3, Zenon DEF TrapKilled, Goto
<1>5. r \in CpuType /\ t \in ThreadType
  BY <1>2, <1>3, Zenon DEF CpuType, ThreadType, Pcs
<1>6. r.proc = cpu[c].proc /\ r.trap = "none" /\ r.noff = cpu[c].noff
  BY <1>3 DEF CpuType
<1>7. t.pc = "exit" /\ t.back = thread[p].back
  BY <1>3 DEF ThreadType
<1>8. t.intena = thread[p].intena
  BY <1>3 DEF ThreadType
<1>9. p # initproc
  BY <1>1, NotInit, Zenon
<1> HIDE DEF r, t
<1> QED
  BY <1>1, <1>2, <1>3, <1>4, <1>5, <1>6, <1>7, <1>8, <1>9, OpenMoves, Zenon

\* A system call is made: exit() or wait().
LEMMA EcallInv ==
  ASSUME PInv, NEW c \in CPUs, NEW p \in Procs, exit(c, p) \/ wait(c, p)
  PROVE  PInv'
<1>1. PICK pc \in {"exit", "wait"} : /\ Ecall(c, p, pc) /\ UNCHANGED <<lock, proc>>
                                     /\ pc = "exit" => proc[p].role # "init"
  BY Zenon DEF exit, wait
<1> DEFINE to == IF proc[p].killed THEN "exit" ELSE pc
           r == [cpu[c] EXCEPT !.ie = ~proc[p].killed]
           t == [thread[p] EXCEPT !.pc = to]
<1>2. cpu[c].proc = p /\ cpu[c].trap = "none" /\ thread[p].pc = "user" /\ "user" \in Open
  BY <1>1 DEF Ecall, On, Open
<1>3. /\ TypeOK /\ cpu[c] \in CpuType /\ thread[p] \in ThreadType
      /\ cpu \in [CPUs -> CpuType] /\ thread \in [Procs -> ThreadType]
      /\ cpu[c].noff = 0 /\ thread[p].back = "none" /\ ~thread[p].intena
  BY <1>2, OpenFacts, Zenon
<1>4. cpu' = [cpu EXCEPT ![c] = r] /\ thread' = [thread EXCEPT ![p] = t]
  BY <1>1, <1>3, Zenon DEF Ecall
<1>5. to \in Open \ {"fork"} /\ to \in Pcs /\ (~proc[p].killed) \in BOOLEAN
  BY DEF Open, Pcs
<1>6. r \in CpuType /\ t \in ThreadType
  BY <1>3, <1>5, Zenon DEF CpuType, ThreadType
<1>7. to = "exit" => p # initproc
  BY <1>1, NotInit, Zenon
<1> HIDE DEF to
<1>8. r.proc = cpu[c].proc /\ r.trap = cpu[c].trap /\ r.noff = cpu[c].noff
  BY <1>3 DEF CpuType
<1>9. t.pc = to /\ t.back = thread[p].back
  BY <1>3 DEF ThreadType
<1>10. t.intena = thread[p].intena
  BY <1>3 DEF ThreadType
<1> HIDE DEF r, t
<1> QED
  BY <1>1, <1>2, <1>3, <1>4, <1>5, <1>6, <1>7, <1>8, <1>9, <1>10, OpenMoves, ZenonT(40)

\* wait() fails; sleep() begins or returns.
LEMMA ReturnInv ==
  ASSUME PInv, NEW c \in CPUs, NEW p \in Procs,
         waitFails(c, p) \/ sleepReturns(c, p) \/ sys_sleep(c, p)
  PROVE  PInv'
<1>1. /\ cpu[c].proc = p /\ cpu[c].trap = "none" /\ thread[p].pc \in {"wait", "ticking", "user"}
      /\ UNCHANGED <<lock, proc>>
  BY Zenon DEF waitFails, sleepReturns, sys_sleep, On, Through
<1>2. thread[p].pc \in Open
  BY <1>1 DEF Open
<1>3. /\ TypeOK /\ cpu[c] \in CpuType /\ thread[p] \in ThreadType
      /\ cpu \in [CPUs -> CpuType] /\ thread \in [Procs -> ThreadType]
      /\ cpu[c].noff = 0 /\ thread[p].back = "none" /\ ~thread[p].intena
  BY <1>1, <1>2, OpenFacts, Zenon
<1>4. \E r \in CpuType : /\ cpu' = [cpu EXCEPT ![c] = r]
                         /\ r.proc = p /\ r.trap = "none" /\ r.noff = 0
  <2>1. CASE sys_sleep(c, p)
    <3> DEFINE r == [cpu[c] EXCEPT !.ie = TRUE]
    <3>1. cpu' = [cpu EXCEPT ![c] = r] /\ r \in CpuType
      BY <1>3, <2>1, Zenon DEF sys_sleep, CpuType
    <3>2. r.proc = cpu[c].proc /\ r.trap = cpu[c].trap /\ r.noff = cpu[c].noff
      BY <1>3 DEF CpuType
    <3> QED  BY <1>1, <1>3, <3>1, <3>2, Zenon
  <2>2. CASE waitFails(c, p) \/ sleepReturns(c, p)
    <3>1. cpu' = cpu
      BY <2>2, Zenon DEF waitFails, sleepReturns
    <3>2. cpu' = [cpu EXCEPT ![c] = cpu[c]]
      BY <1>3, <3>1, Zenon
    <3> QED  BY <1>1, <1>3, <3>2, Zenon
  <2> QED  BY <2>1, <2>2, Zenon
<1> DEFINE Moved(t) == /\ thread' = [thread EXCEPT ![p] = t]
                       /\ t.back = "none" /\ ~t.intena /\ t.pc \in Open \ {"fork"}
                       /\ t.pc = "exit" => p # initproc
<1>5. \E t \in ThreadType : Moved(t)
  <2>1. ASSUME NEW pc \in {"user", "exit", "ticking"}, NEW n \in Nat,
               pc = "exit" => p # initproc,
               \/ thread' = [thread EXCEPT ![p].pc = pc]
               \/ thread' = [thread EXCEPT ![p].pc = pc, ![p].left = n]
        PROVE  \E t \in ThreadType : Moved(t)
    <3>1. pc \in Pcs /\ pc \in Open \ {"fork"}
      BY <2>1 DEF Pcs, Open
    <3>2. PICK m \in Nat : thread' = [thread EXCEPT ![p] = [thread[p] EXCEPT !.pc = pc, !.left = m]]
      <4>1. CASE thread' = [thread EXCEPT ![p].pc = pc]
        <5>1. thread[p].left \in Nat
          BY <1>3 DEF ThreadType
        <5>2. [thread[p] EXCEPT !.pc = pc] = [thread[p] EXCEPT !.pc = pc, !.left = thread[p].left]
          BY <1>3, <3>1, Zenon DEF ThreadType
        <5>3. thread' = [thread EXCEPT ![p] = [thread[p] EXCEPT !.pc = pc]]
          BY <1>3, <4>1, Zenon
        <5> QED  BY <5>1, <5>2, <5>3, Zenon
      <4>2. CASE thread' = [thread EXCEPT ![p].pc = pc, ![p].left = n]
        <5>1. thread' = [thread EXCEPT ![p] = [thread[p] EXCEPT !.pc = pc, !.left = n]]
          BY <1>3, <4>2, Zenon
        <5> QED  BY <5>1, Zenon
      <4> QED  BY <2>1, <4>1, <4>2, Zenon
    <3> DEFINE t == [thread[p] EXCEPT !.pc = pc, !.left = m]
    <3>3. t \in ThreadType
      BY <1>3, <3>1, Zenon DEF ThreadType
    <3>4. t.pc = pc /\ t.back = thread[p].back
      BY <1>3 DEF ThreadType
    <3>5. t.intena = thread[p].intena
      BY <1>3 DEF ThreadType
    <3> QED  BY <1>3, <2>1, <3>1, <3>2, <3>3, <3>4, <3>5, Zenon
  <2>2. AfterCall(p) \in {"user", "exit", "ticking"} /\ (AfterCall(p) = "exit" => p # initproc)
    BY NotInit
  <2>3. CASE sys_sleep(c, p)
    <3>1. PICK n \in 1 .. MaxSleep : thread' = [thread EXCEPT ![p].pc = "ticking", ![p].left = n]
      BY <2>3, Zenon DEF sys_sleep
    <3>2. n \in Nat
      OBVIOUS
    <3>3. "ticking" \in {"user", "exit", "ticking"} /\ "ticking" # "exit"
      OBVIOUS
    <3> HIDE DEF Moved
    <3> QED  BY <2>1, <3>1, <3>2, <3>3, Zenon
  <2>4. CASE waitFails(c, p)
    <3>1. thread' = [thread EXCEPT ![p].pc = AfterCall(p)] /\ 0 \in Nat
      BY <2>4 DEF waitFails, Goto
    <3> HIDE DEF Moved
    <3> QED  BY <2>1, <2>2, <3>1, Zenon
  <2>5. CASE sleepReturns(c, p)
    <3>1. thread' = [thread EXCEPT ![p].pc = AfterCall(p), ![p].left = 0] /\ 0 \in Nat
      BY <2>5 DEF sleepReturns
    <3> HIDE DEF Moved
    <3> QED  BY <2>1, <2>2, <3>1, Zenon
  <2> QED  BY <2>3, <2>4, <2>5, Zenon
<1>6. PICK t \in ThreadType : Moved(t)
  BY <1>5, Zenon
<1>7. PICK r \in CpuType : /\ cpu' = [cpu EXCEPT ![c] = r]
                           /\ r.proc = p /\ r.trap = "none" /\ r.noff = 0
  BY <1>4, Zenon
<1> QED
  BY <1>1, <1>2, <1>6, <1>7, OpenMoves, Zenon

\* wait() and sleep() take the lock under which they go to sleep.
LEMMA ScanInv ==
  ASSUME PInv, NEW c \in CPUs, NEW p \in Procs, waitScan(c, p) \/ sleepTicks(c, p)
  PROVE  PInv'
<1>1. \E l \in Locks, pc \in Pcs \ {"fork", "exit", "sched", "zombie"} :
        /\ acquire(c, l) /\ Goto(p, pc) /\ HeldAt(pc, p) = {l}
        /\ pc = "waitsleep" => MaySleep(p)
  <2>1. CASE waitScan(c, p)
    <3>1. MaySleep(p)
      BY <2>1, Zenon DEF waitScan, MaySleep, Zombies
    <3>2. "waitsleep" \in Pcs \ {"fork", "exit", "sched", "zombie"}
      BY DEF Pcs
    <3>3. acquire(c, wait_lock) /\ Goto(p, "waitsleep")
      BY <2>1, Zenon DEF waitScan
    <3>4. HeldAt("waitsleep", p) = {wait_lock}
      BY <3>2, HeldNone, Zenon
    <3> QED  BY <3>1, <3>2, <3>3, <3>4, Names, Zenon
  <2>2. CASE sleepTicks(c, p)
    <3>1. "ticksleep" \in Pcs \ {"fork", "exit", "sched", "zombie"} /\ "ticksleep" # "waitsleep"
      BY DEF Pcs
    <3>2. acquire(c, tickslock) /\ Goto(p, "ticksleep")
      BY <2>2, Zenon DEF sleepTicks
    <3>3. HeldAt("ticksleep", p) = {tickslock}
      BY <3>1, HeldNone, Zenon
    <3> QED  BY <3>1, <3>2, <3>3, Names, Zenon
  <2> QED  BY <2>1, <2>2, Zenon
<1>2. PICK l \in Locks, pc \in Pcs \ {"fork", "exit", "sched", "zombie"} :
        /\ acquire(c, l) /\ Goto(p, pc) /\ HeldAt(pc, p) = {l}
        /\ pc = "waitsleep" => MaySleep(p)
  BY <1>1, Zenon
<1>3. /\ cpu[c].proc = p /\ cpu[c].trap = "none" /\ thread[p].pc \in {"wait", "ticking"}
      /\ proc' = proc
  BY Zenon DEF waitScan, sleepTicks, On
<1>4. thread[p].pc \in Open
  BY <1>3 DEF Open
<1>5. /\ TypeOK /\ Holds(c) = {} /\ thread[p].back = "none" /\ ~thread[p].intena
  BY <1>3, <1>4, OpenFacts, Zenon
<1>6. /\ Free(l) /\ lock' \in [Locks -> CPUs \cup {0}] /\ lock'[l] = c
      /\ \A m \in Locks \ {l} : lock'[m] = lock[m]
      /\ cpu' \in [CPUs -> CpuType] /\ \A d \in CPUs \ {c} : cpu'[d] = cpu[d]
      /\ cpu'[c].proc = p /\ cpu'[c].trap = "none" /\ cpu'[c].noff = 1 /\ ~cpu'[c].ie
  BY <1>2, <1>3, <1>5, Acquired, Zenon
<1>7. /\ thread' \in [Procs -> ThreadType] /\ thread'[p].pc = pc
      /\ \A q \in Procs \ {p} : thread'[q] = thread[q]
      /\ thread'[p].back = "none" /\ ~thread'[p].intena
  BY <1>2, <1>5, SetPc, Zenon
<1>8. \A m \in Locks : IF m \in {l} THEN Free(m) /\ lock'[m] = c ELSE lock'[m] = lock[m]
  BY <1>6
<1>9. {l} # {}
  OBVIOUS
<1>10. Moves(c, p)
  BY <1>2, <1>3, <1>4, <1>6, <1>7, <1>8, <1>9, Zenon DEF Moves
<1> QED
  BY <1>10, MovesInv, Zenon

-----------------------------------------------------------------------------
(***************************************************************************)
(* The scheduler.                                                          *)
(***************************************************************************)

\* A step of c, with a thread p that leaves or enters c; the table changes for p
\* alone, and its parent, its role and what fork() does with it stay.
Switches(c, p) ==
  /\ cpu' \in [CPUs -> CpuType] /\ \A d \in CPUs \ {c} : cpu'[d] = cpu[d] /\ cpu[d].proc # p
  /\ thread' \in [Procs -> ThreadType] /\ \A q \in Procs \ {p} : thread'[q] = thread[q]
  /\ proc' \in [Procs -> ProcType] /\ \A q \in Procs \ {p} : proc'[q] = proc[q]
  /\ lock' \in [Locks -> CPUs \cup {0}] /\ OwnLocks(c)
  /\ cpu[c].proc \in {0, p} /\ cpu'[c].proc \in {0, p}
  /\ proc'[p].parent = proc[p].parent /\ proc'[p].role = proc[p].role
  /\ proc'[p].killed = proc[p].killed
  /\ InFork(p)' => InFork(p) /\ thread'[p].kid = thread[p].kid

\* What is left to show of such a step, if it is not the end of exit().
LEMMA SwitchInv ==
  ASSUME PInv, NEW c \in CPUs, NEW p \in Procs, Switches(c, p),
         CpuOK(c)', RunOK(c)', StateOK(p)',
         \/ proc'[p].state = proc[p].state
         \/ /\ proc[p].state \notin {"UNUSED", "USED", "ZOMBIE"}
            /\ proc'[p].state \notin {"UNUSED", "USED", "ZOMBIE"},
         InWait(p)' => thread[p].pc = "waitsleep" \/ InWait(p),
         thread'[p].pc \notin {"waitsleep", "zombie"},
         "exit" \in {thread'[p].pc, thread'[p].back} =>
           "exit" \in {thread[p].pc, thread[p].back},
         thread'[p].back # "zombie"
  PROVE  PInv'
<1>1. /\ \A d \in CPUs \ {c} : cpu'[d] = cpu[d] /\ cpu[d].proc # p
      /\ \A q \in Procs \ {p} : thread'[q] = thread[q] /\ proc'[q] = proc[q]
      /\ proc'[p].parent = proc[p].parent /\ proc'[p].role = proc[p].role
      /\ proc'[p].killed = proc[p].killed /\ OwnLocks(c)
      /\ InFork(p)' => InFork(p) /\ thread'[p].kid = thread[p].kid
  BY Zenon DEF Switches
<1>2. cpu[c].proc \in {0, p} /\ cpu'[c].proc \in {0, p}
  BY Zenon DEF Switches
<1>3. TypeOK'
  BY Zenon DEF TypeOK, Switches
<1>4. \A q \in Procs \ {p} : OnlyWoken(q)
  BY <1>1, Zenon DEF OnlyWoken
<1>5. \A d \in CPUs : CpuOK(d)' /\ RunOK(d)'
  <2>1. \A d \in CPUs : cpu[d].proc # 0 => cpu[d].proc \in Procs
    BY DEF PInv, TypeOK, CpuType
  <2>2. \A d \in CPUs \ {c} : cpu[d].proc # 0 => OnlyWoken(cpu[d].proc) /\ cpu[d].proc # cpu'[c].proc
    BY <1>1, <1>2, <1>4, <2>1
  <2> QED  BY <1>1, <2>2, CpusKept, Zenon
<1>6. \A q \in Procs : StateOK(q)'
  <2>1. \A q \in Procs \ {p} : \A d \in CPUs : cpu[d].proc = q => cpu'[d].proc = q
    BY <1>1, <1>2, Names
  <2> QED  BY <1>4, <2>1, StateKept, Zenon
<1>7. \A q \in Procs : FamilyOK(q)'
  <2>1. \A q \in Procs \ {p} : InWait(q)' <=> InWait(q)
    BY <1>1, Zenon DEF InWait
  <2>2. \A q \in Procs : proc'[q].state \in {"UNUSED", "ZOMBIE"} => proc'[q].state = proc[q].state
    <3>1. proc'[p].state \in {"UNUSED", "ZOMBIE"} => proc'[p].state = proc[p].state
      OBVIOUS
    <3> QED  BY <1>1, <3>1, Zenon
  <2>3. thread'[p].pc # "waitsleep" /\ thread'[p].pc # "zombie"
    OBVIOUS
  <2> QED  BY <1>1, <2>1, <2>2, <2>3, FamilyKept, Zenon
<1>8. \A q \in Procs : KidOK(q)'
  <2>1. \A q \in Procs : InFork(q)' => InFork(q) /\ thread'[q].kid = thread[q].kid
    BY <1>1, Zenon DEF InFork
  <2>2. \A q \in Procs : proc'[q].state = "USED" <=> proc[q].state = "USED"
    <3>1. proc'[p].state = "USED" <=> proc[p].state = "USED"
      OBVIOUS
    <3> QED  BY <1>1, <3>1, Zenon
  <2> QED  BY <1>1, <2>1, <2>2, KidsKept, Zenon
<1>9. InitprocOK'
  <2>1. InitprocOK
    BY Zenon DEF PInv
  <2>2. {thread'[initproc].pc, thread'[initproc].back} \cap {"exit", "zombie"} = {}
    <3>1. CASE p = initproc
      BY <2>1, <3>1 DEF InitprocOK
    <3>2. CASE p # initproc
      BY <1>1, <2>1, <3>2, Names, Zenon DEF InitprocOK
    <3> QED  BY <3>1, <3>2, Zenon
  <2>3. /\ \A q \in Procs : proc'[q].role = "init" <=> proc[q].role = "init"
        /\ proc'[initproc].killed = proc[initproc].killed
    BY <1>1, Names, Zenon
  <2>4. proc'[initproc].state \notin {"UNUSED", "USED", "ZOMBIE"}
    <3>1. CASE p = initproc
      BY <2>1, <3>1 DEF InitprocOK
    <3>2. CASE p # initproc
      BY <1>1, <2>1, <3>2, Names, Zenon DEF InitprocOK
    <3> QED  BY <3>1, <3>2, Zenon
  <2> QED  BY <2>2, <2>3, <2>4, InitprocKept, Zenon
<1> QED
  BY <1>3, <1>5, <1>6, <1>7, <1>8, <1>9, Zenon DEF PInv

\* An entry of the table that a step changes.
LEMMA SetState ==
  ASSUME TypeOK, NEW p \in Procs,
         NEW s \in {"UNUSED", "USED", "RUNNABLE", "RUNNING", "SLEEPING", "ZOMBIE"},
         proc' = [proc EXCEPT ![p].state = s]
  PROVE  /\ proc' \in [Procs -> ProcType] /\ proc'[p].state = s
         /\ \A q \in Procs \ {p} : proc'[q] = proc[q]
         /\ proc'[p].parent = proc[p].parent /\ proc'[p].chan = proc[p].chan
         /\ proc'[p].role = proc[p].role /\ proc'[p].killed = proc[p].killed
<1> DEFINE r == [proc[p] EXCEPT !.state = s]
<1>1. proc[p] \in ProcType /\ proc \in [Procs -> ProcType]
  BY Zenon DEF TypeOK
<1>2. r \in ProcType
  BY <1>1, Zenon DEF ProcType
<1>3. proc' = [proc EXCEPT ![p] = r]
  BY <1>1, Zenon
<1>4. r.state = s /\ r.parent = proc[p].parent /\ r.chan = proc[p].chan /\ r.role = proc[p].role
  BY <1>1 DEF ProcType
<1>5. r.killed = proc[p].killed
  BY <1>1 DEF ProcType
<1> QED
  BY <1>1, <1>2, <1>3, <1>4, <1>5, Zenon

\* sched() leaves p to the scheduler.
LEMMA schedInv ==
  ASSUME PInv, NEW c \in CPUs, NEW p \in Procs, sched(c, p)
  PROVE  PInv'
<1>1. /\ cpu[c].proc = p /\ cpu[c].trap = "none" /\ thread[p].pc = "sched" /\ proc' = proc
      /\ thread' = [thread EXCEPT ![p].intena = cpu[c].intena]
      /\ cpu' = [cpu EXCEPT ![c] = [pop_off(cpu[c]) EXCEPT !.proc = 0]]
      /\ lock' = [lock EXCEPT ![p] = 0]
  BY Zenon DEF sched, On
<1>2. /\ TypeOK /\ CpuOK(c) /\ RunOK(c) /\ StateOK(p) /\ KidOK(p) /\ proc \in [Procs -> ProcType]
      /\ cpu[c] \in CpuType /\ thread[p] \in ThreadType /\ cpu[c].intena \in BOOLEAN
      /\ thread \in [Procs -> ThreadType] /\ lock \in [Locks -> CPUs \cup {0}]
  BY DEF PInv, TypeOK, CpuType
<1>3. Holds(c) = {p} /\ \A d \in CPUs \ {c} : cpu[d].proc # p
  BY <1>1, OnCpu DEF HeldAt
<1>4. cpu[c].noff = 1
  BY <1>2, <1>3 DEF CpuOK
<1> DEFINE r == [pop_off(cpu[c]) EXCEPT !.proc = 0]
           t == [thread[p] EXCEPT !.intena = cpu[c].intena]
<1>5. r \in CpuType /\ r.proc = 0 /\ r.trap = "none" /\ r.noff = 0
  <2>1. pop_off(cpu[c]) \in CpuType /\ pop_off(cpu[c]).trap = "none" /\ pop_off(cpu[c]).noff = 0
    BY <1>1, <1>2, <1>4, Pop, Zenon
  <2>2. r \in CpuType
    BY <2>1, Zenon DEF CpuType
  <2> QED  BY <2>1, <2>2 DEF CpuType
<1>6. t \in ThreadType
  BY <1>2, Zenon DEF ThreadType
<1>7. t.pc = "sched" /\ t.back = thread[p].back /\ t.kid = thread[p].kid
  BY <1>1, <1>2 DEF ThreadType
<1>8. t.intena = cpu[c].intena
  BY <1>2 DEF ThreadType
<1> HIDE DEF r, t
<1>9. cpu' \in [CPUs -> CpuType] /\ cpu'[c] = r /\ \A d \in CPUs \ {c} : cpu'[d] = cpu[d]
  BY <1>1, <1>2, <1>5, SetCpu, Zenon DEF r
<1>10. /\ thread' \in [Procs -> ThreadType] /\ thread'[p] = t
       /\ \A q \in Procs \ {p} : thread'[q] = thread[q]
  <2>1. thread' = [thread EXCEPT ![p] = t]
    BY <1>1, <1>2, Zenon DEF t
  <2> QED  BY <1>2, <1>6, <2>1, SetThread, Zenon
<1>11. /\ lock' \in [Locks -> CPUs \cup {0}] /\ lock'[p] = 0
       /\ \A l \in Locks \ {p} : lock'[l] = lock[l]
  BY <1>1, <1>2, Names
<1>12. OwnLocks(c) /\ CpuOK(c)'
  <2>1. \A l \in Locks : lock[l] = c <=> l = p
    BY <1>2, <1>3 DEF CpuOK
  <2>2. Holds(c)' = {}
    BY <1>5, <1>9, Zenon DEF Holds
  <2>3. \A l \in Locks : lock'[l] # c
    BY <1>11, <2>1, NamesAssumption, Zenon
  <2>4. OwnLocks(c)
    BY <1>11, <2>1, Names DEF OwnLocks
  <2> QED  BY <1>5, <1>9, <2>2, <2>3, <2>4, Zenon DEF CpuOK
<1>13. RunOK(c)'
  BY <1>5, <1>9, Zenon DEF RunOK
<1>14. proc[p].state # "RUNNING" /\ (thread[p].back # "none" => ~cpu[c].intena)
  BY <1>1, <1>2, Names DEF RunOK
<1>15. StateOK(p)'
  <2>1. thread'[p].pc = "sched" /\ thread'[p].back = thread[p].back /\ thread'[p].intena = cpu[c].intena
    BY <1>7, <1>8, <1>10, Zenon
  <2> QED  BY <1>1, <1>2, <1>14, <2>1 DEF StateOK
<1>16. Switches(c, p)
  <2>1. InFork(p)' => InFork(p) /\ thread'[p].kid = thread[p].kid
    BY <1>1, <1>7, <1>10, Zenon DEF InFork
  <2> QED  BY <1>1, <1>2, <1>3, <1>5, <1>9, <1>10, <1>11, <1>12, <2>1, Zenon DEF Switches
<1>17. InWait(p)' => InWait(p)
  BY <1>1, Zenon DEF InWait
<1>18. /\ thread'[p].pc \notin {"waitsleep", "zombie"} /\ thread'[p].back # "zombie"
       /\ "exit" \in {thread'[p].pc, thread'[p].back} => "exit" \in {thread[p].pc, thread[p].back}
  BY <1>1, <1>2, <1>7, <1>10 DEF ThreadType, Open
<1> QED
  BY <1>1, <1>12, <1>13, <1>15, <1>16, <1>17, <1>18, SwitchInv, Zenon

\* yield(): the process stays ready to run.
LEMMA yieldInv ==
  ASSUME PInv, NEW c \in CPUs, NEW p \in Procs, yield(c, p)
  PROVE  PInv'
<1>1. /\ cpu[c].proc = p /\ cpu[c].trap # "none" /\ Free(p)
      /\ lock' = [lock EXCEPT ![p] = c]
      /\ cpu' = [cpu EXCEPT ![c] = [push_off(cpu[c]) EXCEPT !.trap = "none"]]
      /\ proc' = [proc EXCEPT ![p].state = "RUNNABLE"]
      /\ thread' = [thread EXCEPT ![p].back = thread[p].pc, ![p].pc = "sched"]
  BY Zenon DEF yield
<1>2. thread[p].pc \in Open /\ \A d \in CPUs \ {c} : cpu[d].proc # p
  <2>1. cpu[c].proc = p /\ cpu[c].trap # "none"
    BY <1>1, Zenon
  <2> QED  BY <2>1, OnCpu, Zenon
<1>3. /\ TypeOK /\ cpu[c] \in CpuType /\ thread[p] \in ThreadType
      /\ cpu \in [CPUs -> CpuType] /\ thread \in [Procs -> ThreadType]
      /\ Holds(c) = {} /\ cpu[c].noff = 0
      /\ proc[p].state = "RUNNING" /\ thread[p].back = "none" /\ ~thread[p].intena
  BY <1>1, <1>2, OpenFacts, Zenon
<1>4. CpuOK(c) /\ ~cpu[c].ie /\ lock \in [Locks -> CPUs \cup {0}]
  BY <1>1, Zenon DEF PInv, CpuOK, TypeOK
<1>5. \A d \in CPUs \ {c} : cpu[d].proc # p
  BY <1>2, Zenon
<1> DEFINE r == [push_off(cpu[c]) EXCEPT !.trap = "none"]
           t == [thread[p] EXCEPT !.back = thread[p].pc, !.pc = "sched"]
<1>6. r \in CpuType /\ r.proc = p /\ r.trap = "none" /\ r.noff = 1 /\ ~r.ie /\ ~r.intena
  <2> DEFINE s == push_off(cpu[c])
  <2>1. s \in CpuType /\ s.proc = p /\ s.noff = 1 /\ ~s.ie /\ ~s.intena
    BY <1>1, <1>3, <1>4, Push, Zenon
  <2> HIDE DEF s
  <2>2. [s EXCEPT !.trap = "none"] \in CpuType
    BY <2>1, Zenon DEF CpuType
  <2>3. /\ [s EXCEPT !.trap = "none"].proc = s.proc /\ [s EXCEPT !.trap = "none"].noff = s.noff
        /\ [s EXCEPT !.trap = "none"].trap = "none"
    BY <2>1 DEF CpuType
  <2>4. [s EXCEPT !.trap = "none"].ie = s.ie /\ [s EXCEPT !.trap = "none"].intena = s.intena
    BY <2>1 DEF CpuType
  <2> QED  BY <2>1, <2>2, <2>3, <2>4, Zenon DEF s
<1>7. t \in ThreadType
  <2>1. "sched" \in Pcs /\ thread[p].pc \in Open \cup {"none"}
    BY <1>2 DEF Pcs
  <2> QED  BY <1>3, <2>1, Zenon DEF ThreadType
<1>8. t.pc = "sched" /\ t.back = thread[p].pc /\ t.kid = thread[p].kid
  BY <1>3 DEF ThreadType
<1>9. t.intena = thread[p].intena
  BY <1>3 DEF ThreadType
<1> HIDE DEF r, t
<1>10. cpu' \in [CPUs -> CpuType] /\ cpu'[c] = r /\ \A d \in CPUs \ {c} : cpu'[d] = cpu[d]
  BY <1>1, <1>3, <1>6, SetCpu, Zenon DEF r
<1>11. /\ thread' \in [Procs -> ThreadType] /\ thread'[p] = t
       /\ \A q \in Procs \ {p} : thread'[q] = thread[q]
  <2>1. thread' = [thread EXCEPT ![p] = t]
    BY <1>1, <1>3, Zenon DEF t
  <2> QED  BY <1>3, <1>7, <2>1, SetThread, Zenon
<1>12. /\ proc' \in [Procs -> ProcType] /\ proc'[p].state = "RUNNABLE"
       /\ \A q \in Procs \ {p} : proc'[q] = proc[q]
       /\ proc'[p].parent = proc[p].parent /\ proc'[p].role = proc[p].role
       /\ proc'[p].killed = proc[p].killed
  BY <1>1, <1>3, SetState, Zenon
<1>13. /\ lock' \in [Locks -> CPUs \cup {0}] /\ lock'[p] = c
       /\ \A l \in Locks \ {p} : lock'[l] = lock[l]
  BY <1>1, <1>4, Names
<1>14. Holds(c)' = {p}
  BY <1>6, <1>8, <1>10, <1>11, Names DEF Holds, HeldAt
<1>15. OwnLocks(c) /\ CpuOK(c)'
  <2>1. \A l \in Locks : lock[l] # c
    BY <1>3, <1>4, Zenon DEF CpuOK
  <2>2. OwnLocks(c)
    BY <1>1, <1>13, Names DEF OwnLocks, Free
  <2>3. \A l \in Locks : lock'[l] = c <=> l \in {p}
    BY <1>13, <2>1, Names
  <2>4. {p} # {}
    OBVIOUS
  <2> QED  BY <1>6, <1>10, <1>14, <2>2, <2>3, <2>4, Zenon DEF CpuOK
<1>16. RunOK(c)'
  <2>1. \A d \in CPUs : cpu'[d].proc = p => d = c
    BY <1>5, <1>10, Zenon
  <2>2. ~thread'[p].intena /\ thread'[p].pc = "sched" /\ ~cpu'[c].intena /\ cpu'[c].proc = p
    BY <1>3, <1>6, <1>8, <1>9, <1>10, <1>11, Zenon
  <2> QED  BY <1>12, <2>1, <2>2, Zenon DEF RunOK
<1>17. StateOK(p)'
  BY <1>3, <1>8, <1>9, <1>11, <1>12 DEF StateOK
<1>18. Switches(c, p)
  <2>1. InFork(p)' => InFork(p) /\ thread'[p].kid = thread[p].kid
    BY <1>8, <1>11 DEF InFork
  <2> QED  BY <1>1, <1>5, <1>6, <1>10, <1>11, <1>12, <1>13, <1>15, <2>1, Zenon DEF Switches
<1>19. ~InWait(p)'
  BY <1>12 DEF InWait
<1>20. /\ thread'[p].pc \notin {"waitsleep", "zombie"} /\ thread'[p].back # "zombie"
       /\ "exit" \in {thread'[p].pc, thread'[p].back} => "exit" \in {thread[p].pc, thread[p].back}
       /\ proc[p].state \notin {"UNUSED", "USED", "ZOMBIE"}
       /\ proc'[p].state \notin {"UNUSED", "USED", "ZOMBIE"}
  BY <1>2, <1>3, <1>8, <1>11, <1>12 DEF Open
<1> QED
  BY <1>15, <1>16, <1>17, <1>18, <1>19, <1>20, SwitchInv, Zenon

\* The place where a thread goes on, once the scheduler has taken it.
LEMMA Resumed ==
  ASSUME PInv, NEW p \in Procs, proc[p].state = "RUNNABLE"
  PROVE  LET to == IF thread[p].back # "none" THEN thread[p].back
                   ELSE IF thread[p].pc # "sched" THEN thread[p].pc
                   ELSE IF proc[p].chan = ticks THEN "ticking" ELSE "wait" IN
         /\ to \in Open /\ to \in Pcs
         /\ to = "fork" => InFork(p)
         /\ to = "exit" => "exit" \in {thread[p].pc, thread[p].back}
         /\ IsNew(p) => thread[p].back = "none"
         /\ thread[p].back # "none" => ~thread[p].intena
<1>1. StateOK(p) /\ thread[p] \in ThreadType
  BY Zenon DEF PInv, TypeOK
<1>2. thread[p].pc \in {"sched", "user"} /\ (thread[p].back # "none" => ~thread[p].intena)
  BY <1>1 DEF StateOK
<1>3. thread[p].back \in Open \cup {"none"}
  BY <1>1 DEF ThreadType
<1> QED
  BY <1>2, <1>3 DEF Open, Pcs, InFork, IsNew

\* The scheduler takes p, and p releases its lock.
LEMMA schedulerInv ==
  ASSUME PInv, NEW c \in CPUs, NEW p \in Procs, scheduler(c, p)
  PROVE  PInv'
<1> DEFINE to == IF thread[p].back # "none" THEN thread[p].back
                 ELSE IF thread[p].pc # "sched" THEN thread[p].pc
                 ELSE IF proc[p].chan = ticks THEN "ticking" ELSE "wait"
           i == Intena(p, push_off(cpu[c]))
           a == [push_off(cpu[c]) EXCEPT !.intena = i]
           b == pop_off(a)
           u == IF thread[p].back = "none" THEN "none" ELSE "ret"
           r == [b EXCEPT !.proc = p, !.ie = b.ie \/ IsNew(p), !.trap = u]
           t == [thread[p] EXCEPT !.back = "none", !.intena = FALSE, !.pc = to]
           s == [proc[p] EXCEPT !.state = "RUNNING", !.chan = ticks]
<1>1. /\ cpu[c].proc = 0 /\ cpu[c].trap = "none" /\ Free(p) /\ proc[p].state = "RUNNABLE"
      /\ lock' = lock
  BY Zenon DEF scheduler, Runnable
<1>2. /\ TypeOK /\ CpuOK(c) /\ cpu[c] \in CpuType /\ thread[p] \in ThreadType
      /\ proc[p] \in ProcType /\ proc \in [Procs -> ProcType]
      /\ cpu \in [CPUs -> CpuType] /\ thread \in [Procs -> ThreadType]
      /\ lock \in [Locks -> CPUs \cup {0}]
  BY Zenon DEF PInv, TypeOK
<1>3. cpu' = [cpu EXCEPT ![c] = r]
  BY <1>2, Zenon DEF scheduler
<1>4. thread' = [thread EXCEPT ![p] = t] /\ proc' = [proc EXCEPT ![p] = s]
  <2>1. proc' = [proc EXCEPT ![p] = s]
    BY <1>2, Zenon DEF scheduler
  <2>2. thread' = [thread EXCEPT ![p] = t]
    BY <1>2, Zenon DEF scheduler
  <2> QED  BY <2>1, <2>2, Zenon
<1>5. \A d \in CPUs : cpu[d].proc # p
  BY <1>1, OffCpu
<1>6. /\ to \in Open /\ to \in Pcs
      /\ to = "fork" => InFork(p)
      /\ to = "exit" => "exit" \in {thread[p].pc, thread[p].back}
      /\ IsNew(p) => thread[p].back = "none"
      /\ thread[p].back # "none" => ~thread[p].intena
  BY <1>1, Resumed, Zenon
<1>7. i \in BOOLEAN /\ (thread[p].back # "none" => ~i)
  <2>1. thread[p].intena \in BOOLEAN /\ push_off(cpu[c]).intena \in BOOLEAN
    <3>1. Holds(c) = {}
      BY <1>1, Zenon DEF Holds
    <3>2. cpu[c].noff = 0
      BY <1>2, <3>1, Zenon DEF CpuOK
    <3>3. push_off(cpu[c]) \in CpuType
      BY <1>2, <3>2, Push, Zenon
    <3> QED  BY <1>2, <3>3, Zenon DEF ThreadType, CpuType
  <2> QED  BY <1>6, <2>1, Zenon DEF Intena
<1>8. /\ r \in CpuType /\ r.proc = p /\ r.noff = 0 /\ r.trap = u
      /\ u # "none" => ~r.ie
  <2>1. cpu[c].noff = 0
    BY <1>1, <1>2, Zenon DEF CpuOK, Holds
  <2> DEFINE x == push_off(cpu[c])
  <2>2. x \in CpuType /\ x.noff = 1 /\ ~x.ie
    BY <1>2, <2>1, Push, Zenon
  <2> HIDE DEF x, i
  <2>3. a \in CpuType /\ a.noff = 1 /\ ~a.ie /\ a.intena = i
    <3>1. [x EXCEPT !.intena = i] \in CpuType
      BY <1>7, <2>2, Zenon DEF CpuType
    <3>2. [x EXCEPT !.intena = i].noff = x.noff /\ [x EXCEPT !.intena = i].ie = x.ie
      BY <1>7, <2>2 DEF CpuType
    <3>3. [x EXCEPT !.intena = i].intena = i
      BY <1>7, <2>2 DEF CpuType
    <3> QED  BY <2>2, <3>1, <3>2, <3>3, Zenon DEF x
  <2> HIDE DEF a
  <2>4. b \in CpuType /\ b.noff = 0 /\ (b.ie <=> i)
    BY <2>3, Pop, Zenon
  <2> HIDE DEF b
  <2> DEFINE w == b.ie \/ IsNew(p)
  <2>5. w \in BOOLEAN /\ u \in {"none", "tick", "yield", "ret"} /\ p \in Procs \cup {0}
    BY DEF IsNew
  <2>6. u # "none" => ~w
    BY <1>6, <1>7, <2>4, Zenon
  <2> HIDE DEF w, u
  <2>7. [b EXCEPT !.proc = p, !.ie = w, !.trap = u] \in CpuType
    BY <2>4, <2>5, Zenon DEF CpuType
  <2>8. /\ [b EXCEPT !.proc = p, !.ie = w, !.trap = u].proc = p
        /\ [b EXCEPT !.proc = p, !.ie = w, !.trap = u].noff = b.noff
        /\ [b EXCEPT !.proc = p, !.ie = w, !.trap = u].trap = u
    BY <2>4 DEF CpuType
  <2>9. [b EXCEPT !.proc = p, !.ie = w, !.trap = u].ie = w
    BY <2>4, <2>5 DEF CpuType
  <2> QED  BY <2>4, <2>6, <2>7, <2>8, <2>9, Zenon DEF w
<1>9. t \in ThreadType /\ t.pc = to /\ t.back = "none" /\ t.kid = thread[p].kid /\ ~t.intena
  <2>1. FALSE \in BOOLEAN
    OBVIOUS
  <2> HIDE DEF to
  <2>2. t \in ThreadType
    BY <1>2, <1>6, <2>1, Zenon DEF ThreadType
  <2>3. t.pc = to /\ t.back = "none" /\ t.kid = thread[p].kid
    BY <1>2 DEF ThreadType
  <2>4. t.intena = FALSE
    BY <1>2 DEF ThreadType
  <2> QED  BY <2>2, <2>3, <2>4, Zenon
<1>10. /\ s \in ProcType /\ s.state = "RUNNING" /\ s.parent = proc[p].parent
       /\ s.role = proc[p].role /\ s.killed = proc[p].killed
  <2>1. s \in ProcType
    BY <1>2, Zenon DEF ProcType
  <2>2. s.state = "RUNNING" /\ s.parent = proc[p].parent /\ s.role = proc[p].role
    BY <1>2 DEF ProcType
  <2>3. s.killed = proc[p].killed
    BY <1>2 DEF ProcType
  <2> QED  BY <2>1, <2>2, <2>3, Zenon
<1> HIDE DEF r, t, s, to
<1>11. cpu' \in [CPUs -> CpuType] /\ cpu'[c] = r /\ \A d \in CPUs \ {c} : cpu'[d] = cpu[d]
  BY <1>2, <1>3, <1>8, SetCpu, Zenon
<1>12. /\ thread' \in [Procs -> ThreadType] /\ thread'[p] = t
       /\ \A q \in Procs \ {p} : thread'[q] = thread[q]
  BY <1>2, <1>4, <1>9, SetThread, Zenon
<1>13. /\ proc' \in [Procs -> ProcType] /\ proc'[p] = s
       /\ \A q \in Procs \ {p} : proc'[q] = proc[q]
  BY <1>2, <1>4, <1>10, Zenon
<1>14. OwnLocks(c) /\ CpuOK(c)'
  <2>1. HeldAt(to, p) = {} /\ Holds(c) = {}
    BY <1>1, <1>6, HeldNone, Zenon DEF Holds
  <2>2. Holds(c)' = {}
    BY <1>8, <1>9, <1>11, <1>12, <2>1, Zenon DEF Holds
  <2>3. OwnLocks(c)
    BY <1>1, Zenon DEF OwnLocks
  <2> QED  BY <1>1, <1>2, <1>8, <1>11, <2>1, <2>2, <2>3, Zenon DEF CpuOK
<1>15. RunOK(c)'
  <2>1. \A d \in CPUs : cpu'[d].proc = p => d = c
    BY <1>5, <1>11, Zenon
  <2>2. to # "sched"
    BY <1>6 DEF Open
  <2>3. ~thread'[p].intena /\ thread'[p].pc # "sched" /\ proc'[p].state = "RUNNING" /\ cpu'[c].proc = p
    BY <1>8, <1>9, <1>10, <1>11, <1>12, <1>13, <2>2, Zenon
  <2> QED  BY <2>1, <2>3, Zenon DEF RunOK
<1>16. StateOK(p)'
  <2>1. to # "sched"
    BY <1>6 DEF Open
  <2>2. \E d \in CPUs : cpu'[d].proc = p
    BY <1>8, <1>11, Zenon
  <2> QED  BY <1>9, <1>10, <1>12, <1>13, <2>1, <2>2 DEF StateOK
<1>17. Switches(c, p)
  <2>1. InFork(p)' => InFork(p) /\ thread'[p].kid = thread[p].kid
    BY <1>6, <1>9, <1>12 DEF InFork
  <2> QED  BY <1>1, <1>2, <1>5, <1>8, <1>10, <1>11, <1>12, <1>13, <1>14, <2>1, Zenon DEF Switches
<1>18. ~InWait(p)'
  BY <1>10, <1>13 DEF InWait
<1>19. /\ thread'[p].pc \notin {"waitsleep", "zombie"} /\ thread'[p].back # "zombie"
       /\ "exit" \in {thread'[p].pc, thread'[p].back} => "exit" \in {thread[p].pc, thread[p].back}
       /\ proc[p].state \notin {"UNUSED", "USED", "ZOMBIE"}
       /\ proc'[p].state \notin {"UNUSED", "USED", "ZOMBIE"}
  BY <1>1, <1>6, <1>9, <1>10, <1>12, <1>13 DEF Open
<1> QED
  BY <1>14, <1>15, <1>16, <1>17, <1>18, <1>19, SwitchInv, Zenon

\* sleep() releases the lock of its caller and goes on to sched() with p->lock.
LEMMA SleepInv ==
  ASSUME PInv, NEW c \in CPUs, NEW p \in Procs, waitSleep(c, p) \/ ticksSleep(c, p)
  PROVE  PInv'
<1>1. \E pc \in {"waitsleep", "ticksleep"}, chan \in {p, ticks} :
        /\ On(c, p, pc) /\ Sleep(c, p, chan) /\ (chan = p => pc = "waitsleep")
        /\ HeldAt(pc, p) = {LockOf(chan)} /\ LockOf(chan) \in {wait_lock, tickslock}
  <2>1. LockOf(p) = wait_lock /\ LockOf(ticks) = tickslock /\ p # ticks
    BY Names DEF LockOf
  <2>2. HeldAt("waitsleep", p) = {wait_lock} /\ HeldAt("ticksleep", p) = {tickslock}
    BY DEF HeldAt
  <2>3. CASE waitSleep(c, p)
    BY <2>1, <2>2, <2>3, Zenon DEF waitSleep
  <2>4. CASE ticksSleep(c, p)
    BY <2>1, <2>2, <2>4, Zenon DEF ticksSleep
  <2> QED  BY <2>3, <2>4, Zenon
<1>2. PICK pc \in {"waitsleep", "ticksleep"}, chan \in {p, ticks} :
        /\ On(c, p, pc) /\ Sleep(c, p, chan) /\ (chan = p => pc = "waitsleep")
        /\ HeldAt(pc, p) = {LockOf(chan)} /\ LockOf(chan) \in {wait_lock, tickslock}
  BY <1>1, Zenon
<1> DEFINE l == LockOf(chan)
           s == [proc[p] EXCEPT !.chan = chan, !.state = "SLEEPING"]
<1> HIDE DEF l
<1>3. /\ cpu[c].proc = p /\ cpu[c].trap = "none" /\ thread[p].pc = pc /\ Free(p)
      /\ lock' = [lock EXCEPT ![p] = c, ![l] = 0]
      /\ cpu' = [cpu EXCEPT ![c] = pop_off(push_off(cpu[c]))]
      /\ Goto(p, "sched")
  BY <1>2, Zenon DEF On, Sleep, l
<1>4. /\ TypeOK /\ CpuOK(c) /\ cpu[c] \in CpuType /\ lock \in [Locks -> CPUs \cup {0}]
      /\ proc[p] \in ProcType /\ proc \in [Procs -> ProcType]
  BY Zenon DEF PInv, TypeOK
<1>5. proc' = [proc EXCEPT ![p] = s]
  BY <1>2, <1>4, Zenon DEF Sleep
<1>6. l \in Locks /\ l # p /\ HeldAt(pc, p) = {l} /\ p \in Locks
  BY <1>2, Names DEF l
<1>7. /\ Holds(c) = {l} /\ \A d \in CPUs \ {c} : cpu[d].proc # p
      /\ proc[p].state = "RUNNING" /\ thread[p].back = "none" /\ ~thread[p].intena
  <2>1. thread[p].pc # "sched"
    BY <1>3
  <2>2. cpu[c].proc = p
    BY <1>3, Zenon
  <2>3. /\ Holds(c) = HeldAt(thread[p].pc, p) /\ \A d \in CPUs \ {c} : cpu[d].proc # p
        /\ proc[p].state = "RUNNING" /\ thread[p].back = "none" /\ ~thread[p].intena
    BY <2>1, <2>2, OnCpu, Zenon
  <2> QED  BY <1>3, <1>6, <2>3, Zenon
<1>8. cpu[c].noff = 1 /\ ~cpu[c].ie /\ \A m \in Locks : lock[m] = c <=> m = l
  <2>1. {l} # {} /\ \A m \in Locks : m \in {l} <=> m = l
    OBVIOUS
  <2> QED  BY <1>4, <1>7, <2>1, Zenon DEF CpuOK
<1>9. LET r == pop_off(push_off(cpu[c])) IN
      /\ r \in CpuType /\ r.proc = p /\ r.trap = "none" /\ r.noff = 1 /\ ~r.ie
  BY <1>3, <1>4, <1>8, PushPop, Zenon
<1>10. /\ cpu' \in [CPUs -> CpuType] /\ \A d \in CPUs \ {c} : cpu'[d] = cpu[d]
       /\ cpu'[c].proc = p /\ cpu'[c].trap = "none" /\ cpu'[c].noff = 1 /\ ~cpu'[c].ie
  BY <1>3, <1>4, <1>9, SetCpu, Zenon
<1>11. /\ thread' \in [Procs -> ThreadType] /\ thread'[p].pc = "sched"
       /\ \A q \in Procs \ {p} : thread'[q] = thread[q]
       /\ thread'[p].back = "none" /\ ~thread'[p].intena
  <2>1. "sched" \in Pcs
    BY DEF Pcs
  <2> QED  BY <1>3, <1>4, <1>7, <2>1, SetPc, Zenon
<1>12. /\ s \in ProcType /\ s.state = "SLEEPING" /\ s.parent = proc[p].parent
       /\ s.role = proc[p].role /\ s.killed = proc[p].killed /\ s.chan = chan
  <2>1. chan \in Procs \cup {ticks}
    BY <1>2
  <2>2. s \in ProcType
    BY <1>4, <2>1, Zenon DEF ProcType
  <2>3. s.state = "SLEEPING" /\ s.parent = proc[p].parent /\ s.role = proc[p].role /\ s.chan = chan
    BY <1>4 DEF ProcType
  <2>4. s.killed = proc[p].killed
    BY <1>4 DEF ProcType
  <2> QED  BY <2>2, <2>3, <2>4, Zenon
<1> HIDE DEF s
<1>13. /\ proc' \in [Procs -> ProcType] /\ proc'[p] = s
       /\ \A q \in Procs \ {p} : proc'[q] = proc[q]
  BY <1>4, <1>5, <1>12, Zenon
<1>14. /\ lock' \in [Locks -> CPUs \cup {0}] /\ lock'[p] = c /\ lock'[l] = 0
       /\ \A m \in Locks \ {p, l} : lock'[m] = lock[m]
  BY <1>3, <1>4, <1>6
<1>15. Holds(c)' = {p}
  BY <1>10, <1>11, Names DEF Holds, HeldAt
<1>16. OwnLocks(c) /\ CpuOK(c)'
  <2>1. OwnLocks(c)
    BY <1>3, <1>8, <1>14 DEF OwnLocks, Free
  <2>2. \A m \in Locks : lock'[m] = c <=> m \in {p}
    BY <1>6, <1>8, <1>14, NamesAssumption
  <2>3. {p} # {}
    OBVIOUS
  <2> QED  BY <1>10, <1>15, <2>1, <2>2, <2>3, Zenon DEF CpuOK
<1>17. RunOK(c)'
  <2>1. \A d \in CPUs : cpu'[d].proc = p => d = c
    BY <1>7, <1>10, Zenon
  <2>2. proc'[p].state = "SLEEPING"
    BY <1>12, <1>13, Zenon
  <2> QED  BY <1>10, <1>11, <2>1, <2>2, Zenon DEF RunOK
<1>18. StateOK(p)'
  BY <1>11, <1>12, <1>13 DEF StateOK
<1>19. Switches(c, p)
  <2>1. ~InFork(p)'
    BY <1>11 DEF InFork
  <2> QED  BY <1>3, <1>7, <1>10, <1>11, <1>12, <1>13, <1>14, <1>16, <2>1, Zenon DEF Switches
<1>20. InWait(p)' => thread[p].pc = "waitsleep"
  BY <1>2, <1>3, <1>12, <1>13, Zenon DEF InWait
<1>21. /\ thread'[p].pc \notin {"waitsleep", "zombie"} /\ thread'[p].back # "zombie"
       /\ "exit" \notin {thread'[p].pc, thread'[p].back}
       /\ proc[p].state \notin {"UNUSED", "USED", "ZOMBIE"}
       /\ proc'[p].state \notin {"UNUSED", "USED", "ZOMBIE"}
  BY <1>7, <1>11, <1>12, <1>13
<1> QED
  BY <1>16, <1>17, <1>18, <1>19, <1>20, <1>21, SwitchInv, Zenon

-----------------------------------------------------------------------------
(***************************************************************************)
(* wakeup() and kill().                                                    *)
(***************************************************************************)

\* wakeup(), by me, changes the state of the sleepers, and nothing else.
LEMMA Wakes ==
  ASSUME TypeOK, NEW me, NEW chans, NEW q \in Procs
  PROVE  LET w == wakeup(proc, me, chans)[q] IN
         /\ w \in ProcType /\ w.parent = proc[q].parent /\ w.chan = proc[q].chan
         /\ w.role = proc[q].role /\ w.killed = proc[q].killed
         /\ w.state = IF q # me /\ \E chan \in chans : Woken(q, chan) THEN "RUNNABLE" ELSE proc[q].state
         /\ \/ w.state = proc[q].state
            \/ proc[q].state = "SLEEPING" /\ w.state = "RUNNABLE"
<1> DEFINE x == [proc[q] EXCEPT !.state = "RUNNABLE"]
           w == wakeup(proc, me, chans)[q]
<1>1. proc[q] \in ProcType
  BY Zenon DEF TypeOK
<1>2. x \in ProcType
  BY <1>1, Zenon DEF ProcType
<1>3. x.state = "RUNNABLE" /\ x.parent = proc[q].parent /\ x.chan = proc[q].chan /\ x.role = proc[q].role
  BY <1>1 DEF ProcType
<1>4. x.killed = proc[q].killed
  BY <1>1 DEF ProcType
<1>5. w = IF q # me /\ \E chan \in chans : Woken(q, chan) THEN x ELSE proc[q]
  BY Zenon DEF wakeup
<1>6. CASE q # me /\ \E chan \in chans : Woken(q, chan)
  <2>1. proc[q].state = "SLEEPING"
    BY <1>6, Zenon DEF Woken
  <2> QED  BY <1>2, <1>3, <1>4, <1>5, <1>6, <2>1, Zenon
<1>7. CASE ~(q # me /\ \E chan \in chans : Woken(q, chan))
  BY <1>1, <1>5, <1>7, Zenon
<1> QED
  BY <1>6, <1>7, Zenon

\* A step that wakes or kills processes, and changes the interrupts of c.
WakesOnly(c) ==
  /\ cpu' \in [CPUs -> CpuType] /\ \A d \in CPUs \ {c} : cpu'[d] = cpu[d]
  /\ SameButInterrupts(cpu[c], cpu'[c])
  /\ Holds(c) = {} /\ lock' = lock
  /\ thread' \in [Procs -> ThreadType] /\ proc' \in [Procs -> ProcType]
  /\ \A q \in Procs : /\ OnlyWoken(q) /\ thread'[q].kid = thread[q].kid
                      /\ proc'[q].parent = proc[q].parent /\ proc'[q].chan = proc[q].chan
                      /\ proc'[q].role = proc[q].role
  /\ ~proc'[initproc].killed

LEMMA WakesOnlyInv ==
  ASSUME PInv, NEW c \in CPUs, WakesOnly(c)
  PROVE  PInv'
<1>1. /\ \A d \in CPUs \ {c} : cpu'[d] = cpu[d]
      /\ cpu'[c].proc = cpu[c].proc /\ cpu'[c].noff = cpu[c].noff
      /\ cpu'[c].intena = cpu[c].intena /\ lock' = lock /\ Holds(c) = {}
      /\ cpu'[c].trap # "none" => ~cpu'[c].ie
  BY Zenon DEF WakesOnly, SameButInterrupts
<1>2. /\ \A q \in Procs : /\ OnlyWoken(q) /\ thread'[q].kid = thread[q].kid
                          /\ proc'[q].parent = proc[q].parent /\ proc'[q].chan = proc[q].chan
                          /\ proc'[q].role = proc[q].role
      /\ ~proc'[initproc].killed
  BY Zenon DEF WakesOnly
<1>3. TypeOK' /\ TypeOK
  BY Zenon DEF PInv, TypeOK, WakesOnly
<1>4. \A d \in CPUs : /\ cpu'[d].proc = cpu[d].proc /\ cpu'[d].intena = cpu[d].intena
                      /\ cpu[d].proc # 0 => cpu[d].proc \in Procs
  <2>1. \A d \in CPUs : cpu[d].proc # 0 => cpu[d].proc \in Procs
    BY <1>3 DEF TypeOK, CpuType
  <2> QED  BY <1>1, <2>1, Zenon
<1>5. \A q \in Procs : thread'[q].pc = thread[q].pc /\ thread'[q].back = thread[q].back
  BY <1>2, Zenon DEF OnlyWoken
<1>6. CpuOK(c)'
  <2>1. CpuOK(c)
    BY Zenon DEF PInv
  <2>2. Holds(c)' = Holds(c)
    BY <1>4, <1>5, Zenon DEF Holds
  <2> QED  BY <1>1, <2>1, <2>2, Zenon DEF CpuOK
<1>7. RunOK(c) /\ RunOK(c)'
  <2> DEFINE p == cpu[c].proc
  <2>1. RunOK(c)
    BY Zenon DEF PInv
  <2>2. SUFFICES ASSUME p # 0
                 PROVE  /\ ~thread'[p].intena
                        /\ IF thread'[p].pc = "sched"
                           THEN /\ proc'[p].state \in {"RUNNABLE", "SLEEPING", "ZOMBIE"}
                                /\ thread'[p].back # "none" => ~cpu[c].intena
                           ELSE proc'[p].state = "RUNNING"
    BY <1>4, <2>1, Zenon DEF RunOK
  <2>3. OnlyWoken(p)
    BY <1>2, <1>4, <2>2, Zenon
  <2>4. /\ ~thread[p].intena
        /\ IF thread[p].pc = "sched"
           THEN /\ proc[p].state \in {"RUNNABLE", "SLEEPING", "ZOMBIE"}
                /\ thread[p].back # "none" => ~cpu[c].intena
           ELSE proc[p].state = "RUNNING"
    BY <2>1, <2>2, Zenon DEF RunOK
  <2> HIDE DEF p
  <2> QED  BY <2>3, <2>4 DEF OnlyWoken
<1>8. \A d \in CPUs : CpuOK(d)' /\ RunOK(d)'
  <2>1. OwnLocks(c)
    BY <1>1, Zenon DEF OwnLocks
  <2>2. \A d \in CPUs \ {c} : cpu[d].proc # 0 => OnlyWoken(cpu[d].proc) /\ cpu[d].proc # cpu'[c].proc
    BY <1>1, <1>2, <1>4, <1>7, Zenon DEF RunOK
  <2> QED  BY <1>1, <1>6, <1>7, <2>1, <2>2, CpusKept, Zenon
<1>9. \A q \in Procs : StateOK(q)'
  BY <1>2, <1>4, StateKept, Zenon
<1>10. \A q \in Procs : /\ InWait(q)' => InWait(q)
                        /\ proc'[q].state = "USED" <=> proc[q].state = "USED"
                        /\ proc'[q].state \in {"UNUSED", "USED", "ZOMBIE"} => proc'[q].state = proc[q].state
  BY <1>2 DEF OnlyWoken, InWait
<1>11. \A q \in Procs : FamilyOK(q)'
  BY <1>2, <1>5, <1>10, FamilyKept, Zenon
<1>12. \A q \in Procs : KidOK(q)'
  <2>1. \A q \in Procs : InFork(q)' => InFork(q)
    BY <1>5, Zenon DEF InFork
  <2> QED  BY <1>2, <1>10, <2>1, KidsKept, Zenon
<1>13. InitprocOK'
  <2>1. InitprocOK
    BY Zenon DEF PInv
  <2>2. proc'[initproc].state \notin {"UNUSED", "USED", "ZOMBIE"}
    BY <1>10, <2>1, Names, Zenon DEF InitprocOK
  <2>3. {thread'[initproc].pc, thread'[initproc].back} \cap {"exit", "zombie"} = {}
    BY <1>5, <2>1, Names, Zenon DEF InitprocOK
  <2>4. proc'[initproc].killed = proc[initproc].killed
    <3>1. proc'[initproc].killed \in BOOLEAN /\ proc[initproc].killed \in BOOLEAN
      BY <1>3, Names, Zenon DEF TypeOK, ProcType
    <3> QED  BY <1>2, <2>1, <3>1, Zenon DEF InitprocOK
  <2> QED  BY <1>2, <2>2, <2>3, <2>4, InitprocKept, Zenon
<1> QED
  BY <1>3, <1>8, <1>9, <1>11, <1>12, <1>13, Zenon DEF PInv

\* The clock interrupt wakes the processes that sleep for a tick.
LEMMA clockintrInv ==
  ASSUME PInv, NEW c \in CPUs, clockintr(c)
  PROVE  PInv'
<1>1. /\ cpu[c].trap # "none" /\ lock' = lock
      /\ cpu' = [cpu EXCEPT ![c].trap = "yield"]
      /\ thread' = [p \in Procs |-> [thread[p] EXCEPT !.left = IF @ = 0 THEN 0 ELSE @ - 1]]
      /\ proc' = wakeup(proc, cpu[c].proc, {ticks})
  BY DEF clockintr, Through
<1>2. TypeOK /\ CpuOK(c) /\ cpu[c] \in CpuType /\ cpu \in [CPUs -> CpuType]
  BY Zenon DEF PInv, TypeOK
<1>3. Holds(c) = {} /\ ~cpu[c].ie
  BY <1>1, <1>2, Zenon DEF CpuOK
<1> DEFINE r == [cpu[c] EXCEPT !.trap = "yield"]
<1>4. r \in CpuType /\ cpu' = [cpu EXCEPT ![c] = r]
  BY <1>1, <1>2, Zenon DEF CpuType
<1>5. SameButInterrupts(cpu[c], r)
  <2>1. r.ie = cpu[c].ie /\ r.intena = cpu[c].intena
    BY <1>2 DEF CpuType
  <2>2. r.proc = cpu[c].proc /\ r.noff = cpu[c].noff
    BY <1>2 DEF CpuType
  <2> QED  BY <1>3, <2>1, <2>2, Zenon DEF SameButInterrupts
<1> HIDE DEF r
<1>6. cpu' \in [CPUs -> CpuType] /\ cpu'[c] = r /\ \A d \in CPUs \ {c} : cpu'[d] = cpu[d]
  BY <1>2, <1>4, SetCpu, Zenon
<1>7. ASSUME NEW q \in Procs
      PROVE  /\ thread'[q] \in ThreadType /\ thread'[q].pc = thread[q].pc
             /\ thread'[q].back = thread[q].back /\ thread'[q].kid = thread[q].kid
             /\ thread'[q].intena = thread[q].intena
  <2> DEFINE n == IF thread[q].left = 0 THEN 0 ELSE thread[q].left - 1
             t == [thread[q] EXCEPT !.left = n]
  <2>1. thread[q] \in ThreadType
    BY <1>2, Zenon DEF TypeOK
  <2>2. n \in Nat
    BY <2>1 DEF ThreadType
  <2>3. thread'[q] = t
    BY <1>1, Zenon
  <2> HIDE DEF n
  <2>4. t \in ThreadType
    BY <2>1, <2>2, Zenon DEF ThreadType
  <2>5. t.pc = thread[q].pc /\ t.back = thread[q].back /\ t.kid = thread[q].kid
    BY <2>1 DEF ThreadType
  <2>6. t.intena = thread[q].intena
    BY <2>1 DEF ThreadType
  <2> QED  BY <2>3, <2>4, <2>5, <2>6, Zenon
<1>8. thread' \in [Procs -> ThreadType]
  BY <1>1, <1>7, Zenon
<1>9. ASSUME NEW q \in Procs
      PROVE  /\ proc'[q] \in ProcType /\ proc'[q].parent = proc[q].parent
             /\ proc'[q].chan = proc[q].chan /\ proc'[q].role = proc[q].role
             /\ proc'[q].killed = proc[q].killed /\ OnlyWoken(q)
  <2> DEFINE w == wakeup(proc, cpu[c].proc, {ticks})[q]
  <2>1. /\ w \in ProcType /\ w.parent = proc[q].parent /\ w.chan = proc[q].chan
        /\ w.role = proc[q].role /\ w.killed = proc[q].killed
        /\ \/ w.state = proc[q].state
           \/ proc[q].state = "SLEEPING" /\ w.state = "RUNNABLE"
    BY <1>2, Wakes, SMTT(40)
  <2>2. proc'[q] = w
    BY <1>1, Zenon
  <2> HIDE DEF w
  <2> QED  BY <1>7, <2>1, <2>2, Zenon DEF OnlyWoken
<1>10. proc' \in [Procs -> ProcType]
  <2>1. proc' = [q \in Procs |-> proc'[q]]
    BY <1>1, Zenon DEF wakeup
  <2> QED  BY <1>9, <2>1, Zenon
<1>11. ~proc'[initproc].killed
  BY <1>9, Names, Zenon DEF PInv, InitprocOK
<1>12. WakesOnly(c)
  BY <1>1, <1>3, <1>5, <1>6, <1>7, <1>8, <1>9, <1>10, <1>11, Zenon DEF WakesOnly
<1> QED
  BY <1>12, WakesOnlyInv, Zenon

\* kill() wakes the process that it kills.
LEMMA killInv ==
  ASSUME PInv, NEW c \in CPUs, NEW p \in Procs, NEW q \in Procs, kill(c, p, q)
  PROVE  PInv'
<1> DEFINE n == IF proc[q].state = "SLEEPING" THEN "RUNNABLE" ELSE proc[q].state
           s == [proc[q] EXCEPT !.killed = TRUE, !.state = n]
<1>1. /\ cpu[c].proc = p /\ thread[p].pc = "user" /\ cpu' = cpu /\ lock' = lock /\ thread' = thread
      /\ proc[q].role # "init"
  BY DEF kill, On, Through
<1>2. /\ TypeOK /\ CpuOK(c) /\ cpu \in [CPUs -> CpuType] /\ thread \in [Procs -> ThreadType]
      /\ proc \in [Procs -> ProcType] /\ proc[q] \in ProcType
  BY Zenon DEF PInv, TypeOK
<1>3. proc' = [proc EXCEPT ![q] = s]
  BY <1>2, Zenon DEF kill
<1>4. Holds(c) = {} /\ SameButInterrupts(cpu[c], cpu'[c])
  <2>1. thread[p].pc \in Open
    BY <1>1 DEF Open
  <2> QED  BY <1>1, <1>2, <2>1, OpenFacts, Zenon DEF CpuOK, SameButInterrupts
<1>5. /\ n \in {"UNUSED", "USED", "RUNNABLE", "RUNNING", "SLEEPING", "ZOMBIE"}
      /\ n = proc[q].state \/ (proc[q].state = "SLEEPING" /\ n = "RUNNABLE")
  BY <1>2 DEF ProcType
<1> HIDE DEF n
<1>6. s \in ProcType
  <2>1. TRUE \in BOOLEAN
    OBVIOUS
  <2> QED  BY <1>2, <1>5, <2>1, Zenon DEF ProcType
<1>7. s.state = n /\ s.parent = proc[q].parent /\ s.chan = proc[q].chan /\ s.role = proc[q].role
  BY <1>2 DEF ProcType
<1> HIDE DEF s
<1>8. proc' \in [Procs -> ProcType] /\ proc'[q] = s /\ \A r \in Procs \ {q} : proc'[r] = proc[r]
  BY <1>2, <1>3, <1>6, Zenon
<1>9. \A r \in Procs : /\ OnlyWoken(r) /\ thread'[r].kid = thread[r].kid
                       /\ proc'[r].parent = proc[r].parent /\ proc'[r].chan = proc[r].chan
                       /\ proc'[r].role = proc[r].role
  BY <1>1, <1>5, <1>7, <1>8, Zenon DEF OnlyWoken
<1>10. ~proc'[initproc].killed
  <2>1. q # initproc
    BY <1>1, NotInit, Zenon
  <2> QED  BY <1>8, <2>1, Names, Zenon DEF PInv, InitprocOK
<1>11. WakesOnly(c)
  BY <1>1, <1>2, <1>4, <1>8, <1>9, <1>10, Zenon DEF WakesOnly
<1> QED
  BY <1>11, WakesOnlyInv, Zenon

-----------------------------------------------------------------------------
(***************************************************************************)
(* Steps that change a family.                                             *)
(***************************************************************************)

\* The thread of p goes on, on c; processes of X, which are on no CPU, are changed
\* by hand, the others at most woken.
LEMMA FamilyStep ==
  ASSUME PInv, NEW c \in CPUs, NEW p \in Procs, NEW X, cpu[c].proc = p, cpu'[c].proc = p,
         \A d \in CPUs \ {c} : cpu'[d] = cpu[d],
         OwnLocks(c), CpuOK(c)', RunOK(c)', StateOK(p)',
         \A q \in X : StateOK(q)' /\ \A d \in CPUs : cpu[d].proc # q,
         \A q \in Procs \ {p} : q \in X \/ OnlyWoken(q)
  PROVE  (\A d \in CPUs : CpuOK(d)' /\ RunOK(d)') /\ \A q \in Procs : StateOK(q)'
<1>1. \A d \in CPUs \ {c} : cpu[d].proc # p
  BY OnCpu, Zenon
<1>2. \A d \in CPUs : cpu[d].proc # 0 => cpu[d].proc \in Procs
  BY DEF PInv, TypeOK, CpuType
<1>3. \A d \in CPUs \ {c} : cpu[d].proc # 0 => OnlyWoken(cpu[d].proc) /\ cpu[d].proc # cpu'[c].proc
  BY <1>1, <1>2, Zenon
<1>4. \A d \in CPUs : CpuOK(d)' /\ RunOK(d)'
  BY <1>3, CpusKept, Zenon
<1>5. ASSUME NEW q \in Procs \ {p}, q \notin X
      PROVE  StateOK(q)'
  BY <1>5, StateKept, Zenon
<1> QED
  BY <1>4, <1>5, Zenon

\* A CPU and a process at a place where no lock is held, before and after.
LEMMA OpenStep ==
  ASSUME PInv, NEW c \in CPUs, NEW p \in Procs, cpu[c].proc = p, cpu'[c].proc = p, lock' = lock,
         thread[p].pc \in Open, thread'[p].pc \in Open, cpu'[c].noff = cpu[c].noff,
         cpu'[c].trap # "none" => ~cpu'[c].ie, \A d \in CPUs \ {c} : cpu'[d] = cpu[d],
         proc'[p].state = proc[p].state, thread'[p].back = "none", ~thread'[p].intena
  PROVE  OwnLocks(c) /\ CpuOK(c)' /\ RunOK(c)' /\ StateOK(p)'
<1>1. Holds(c) = {} /\ cpu[c].noff = 0 /\ proc[p].state = "RUNNING"
  BY OpenFacts, Zenon
<1>2. \A d \in CPUs : cpu'[d].proc = p => d = c
  <2>1. \A d \in CPUs \ {c} : cpu[d].proc # p
    BY OnCpu, Zenon
  <2> QED  BY <2>1, Zenon
<1>3. Holds(c)' = {}
  <2>1. thread'[p].pc \in Pcs
    BY DEF Pcs
  <2> QED  BY <2>1, HeldNone, Zenon DEF Holds
<1>4. CpuOK(c)'
  <2>1. \A l \in Locks : lock[l] # c
    BY <1>1, Zenon DEF PInv, CpuOK
  <2> QED  BY <1>1, <1>3, <2>1, Zenon DEF CpuOK
<1>5. thread'[p].pc # "sched"
  BY DEF Open
<1>6. RunOK(c)'
  BY <1>1, <1>2, <1>5, Zenon DEF RunOK
<1>7. StateOK(p)'
  BY <1>1, <1>5 DEF StateOK
<1> QED
  BY <1>4, <1>6, <1>7, Zenon DEF OwnLocks

\* Families, in a step with wait_lock free: nobody is where wait_lock is held.
LEMMA NobodyWaits ==
  ASSUME PInv, Free(wait_lock), NEW p \in Procs,
         \A q \in Procs \ {p} : thread'[q].pc = thread[q].pc \/ thread'[q].pc = "user",
         thread'[p].pc \in Open
  PROVE  \A q \in Procs : thread'[q].pc \notin {"zombie", "waitsleep"}
<1>1. \A q \in Procs : thread[q].pc \notin {"zombie", "waitsleep"}
  BY WaitLockOnce, Zenon
<1>2. thread'[p].pc \notin {"zombie", "waitsleep"}
  BY DEF Open
<1>3. "user" \notin {"zombie", "waitsleep"}
  OBVIOUS
<1> QED
  BY <1>1, <1>2, <1>3, Zenon

\* The child that wait() collects.
LEMMA Reaped ==
  ASSUME NEW p \in Procs, Zombies(p) # {}
  PROVE  /\ Min(Zombies(p)) \in Procs /\ proc[Min(Zombies(p))].state = "ZOMBIE"
         /\ proc[Min(Zombies(p))].parent = p
<1> DEFINE R == OpToRel(<, Nat)
<1>1. Zombies(p) \subseteq Nat
  BY NamesAssumption DEF Zombies, Kids, Procs
<1>2. \A x, y \in Nat : x < y => <<x, y>> \in R
  BY Zenon DEF OpToRel
<1>3. IsWellFoundedOn(R, Nat)
  BY NatLessThanWellFounded, Zenon
<1> HIDE DEF R
<1>4. PICK m \in Zombies(p) : \A y \in Zombies(p) : ~(<<y, m>> \in R)
  BY <1>1, <1>3, WFMin, Zenon
<1>5. \A y \in Zombies(p) : m =< y
  <2> TAKE y \in Zombies(p)
  <2>1. ~(y < m) /\ y \in Nat /\ m \in Nat
    BY <1>1, <1>2, <1>4, Zenon
  <2> QED  BY <2>1
<1>6. Min(Zombies(p)) \in Zombies(p)
  BY <1>5, Zenon DEF Min
<1> QED
  BY <1>6, Zenon DEF Zombies, Kids

\* wait() collects a child.
LEMMA waitReapInv ==
  ASSUME PInv, NEW c \in CPUs, NEW p \in Procs, waitReap(c, p)
  PROVE  PInv'
<1>0. PICK q \in Procs : q = Min(Zombies(p)) /\ proc[q].state = "ZOMBIE" /\ proc[q].parent = p
  BY Reaped, Zenon DEF waitReap
<1>1. /\ cpu[c].proc = p /\ cpu[c].trap = "none" /\ thread[p].pc = "wait" /\ lock' = lock /\ cpu' = cpu
      /\ Free(wait_lock) /\ Free(q) /\ proc' = [proc EXCEPT ![q] = Unused] /\ Goto(p, AfterCall(p))
  BY <1>0, Zenon DEF waitReap, On, Through, Reapable
<1>2. proc[q].state = "ZOMBIE" /\ proc[q].parent = p
  BY <1>0, Zenon
<1>3. thread[p].pc \in Open /\ AfterCall(p) \in Open \cap Pcs
  BY <1>1, NotInit DEF Open, Pcs
<1>4. /\ TypeOK /\ proc[p].state = "RUNNING" /\ thread[p].back = "none" /\ ~thread[p].intena
      /\ proc \in [Procs -> ProcType]
  <2>1. cpu[c].proc = p
    BY <1>1, Zenon
  <2>2. proc[p].state = "RUNNING" /\ thread[p].back = "none" /\ ~thread[p].intena
    BY <1>3, <2>1, OpenFacts, Zenon
  <2> QED  BY <2>2, Zenon DEF PInv, TypeOK
<1>5. /\ Unused \in ProcType /\ Unused.state = "UNUSED" /\ Unused.parent = 0 /\ Unused.role = "none"
  BY DEF Unused, ProcType
<1>6. /\ proc' \in [Procs -> ProcType] /\ proc'[q] = Unused /\ \A r \in Procs \ {q} : proc'[r] = proc[r]
  BY <1>1, <1>2, <1>4, <1>5, Zenon
<1>7. /\ thread' \in [Procs -> ThreadType] /\ thread'[p].pc = AfterCall(p)
      /\ \A r \in Procs \ {p} : thread'[r] = thread[r]
      /\ thread'[p].back = "none" /\ ~thread'[p].intena
  BY <1>1, <1>3, <1>4, SetPc, Zenon
<1>8. q # p /\ q # initproc
  BY <1>2, <1>4 DEF PInv, InitprocOK
<1>9. thread[q].pc = "sched" /\ thread[q].back = "none"
  <2>1. StateOK(q)
    BY <1>2, Zenon DEF PInv
  <2> QED  BY <1>2, <2>1 DEF StateOK
<1>10. (\A d \in CPUs : CpuOK(d)' /\ RunOK(d)') /\ \A r \in Procs : StateOK(r)'
  <2>1. OwnLocks(c) /\ CpuOK(c)' /\ RunOK(c)' /\ StateOK(p)'
    <3>1. cpu[c].proc = p /\ cpu'[c].proc = p /\ cpu'[c].trap = "none"
      BY <1>1, Zenon
    <3>2. proc'[p].state = proc[p].state
      BY <1>6, <1>8, Zenon
    <3> QED  BY <1>1, <1>3, <1>7, <3>1, <3>2, OpenStep, Zenon
  <2>2. StateOK(q)'
    BY <1>2, <1>5, <1>6, <1>7, <1>8, <1>9 DEF StateOK
  <2>3. \A d \in CPUs : cpu[d].proc # q
    <3>1. proc[q].state # "RUNNING"
      BY <1>2
    <3> QED  BY <1>1, <1>2, <3>1, OffCpu, Zenon
  <2>4. \A r \in Procs \ {p} : r \in {q} \/ OnlyWoken(r)
    BY <1>6, <1>7 DEF OnlyWoken
  <2>5. \A r \in {q} : StateOK(r)' /\ \A d \in CPUs : cpu[d].proc # r
    BY <2>2, <2>3, Zenon
  <2> QED  BY <1>1, <2>1, <2>4, <2>5, FamilyStep, Zenon
<1>11. \A r \in Procs : thread'[r].pc \notin {"zombie", "waitsleep"}
  BY <1>1, <1>3, <1>7, NobodyWaits, Zenon
<1>12. ASSUME NEW r \in Procs
       PROVE  FamilyOK(r)'
  <2>1. FamilyOK(r) /\ proc[r].parent \in Procs \cup {0}
    BY DEF PInv, TypeOK, ProcType
  <2>2. ASSUME InWait(r)'
        PROVE  MaySleep(r)'
    <3>1. r # q /\ proc'[r] = proc[r]
      BY <1>5, <1>6, <2>2 DEF InWait
    <3>2. MaySleep(r)
      BY <2>1, <2>2, <3>1, Zenon DEF InWait, FamilyOK
    <3>3. q \notin Kids(r)
      BY <1>2, <3>2, Zenon DEF MaySleep
    <3>4. Kids(r)' = Kids(r)
      BY <1>5, <1>6, <3>3, Names DEF Kids
    <3>5. \A s \in Kids(r) : proc'[s] = proc[s]
      BY <1>6, <3>3, Zenon DEF Kids
    <3> QED  BY <3>2, <3>4, <3>5, Zenon DEF MaySleep
  <2>3. ASSUME proc'[r].parent # 0
        PROVE  proc'[r].state # "UNUSED" /\ proc'[proc'[r].parent].state \notin {"UNUSED", "ZOMBIE"}
    <3>1. r # q /\ proc'[r] = proc[r]
      BY <1>5, <1>6, <2>3, Zenon
    <3>2. /\ proc[r].parent \in Procs /\ proc[proc[r].parent].state \notin {"UNUSED", "ZOMBIE"}
          /\ proc[r].state # "UNUSED"
      BY <2>1, <2>3, <3>1, Zenon DEF FamilyOK
    <3>3. proc[r].parent # q
      BY <1>2, <3>2
    <3> QED  BY <1>6, <3>1, <3>2, <3>3, Zenon
  <2> QED  BY <1>11, <2>2, <2>3 DEF FamilyOK
<1>13. \A r \in Procs : KidOK(r)'
  <2>1. ~InFork(p)'
    BY <1>7, NotInit DEF InFork
  <2>2. \A r \in Procs : InFork(r)' => InFork(r) /\ thread'[r].kid = thread[r].kid
    BY <1>7, <2>1, Zenon DEF InFork
  <2>3. proc'[q].state # "USED" /\ proc[q].state # "USED" /\ proc'[q].parent = 0
    BY <1>2, <1>5, <1>6
  <2>4. \A r \in Procs : /\ proc'[r].state = "USED" <=> proc[r].state = "USED"
                         /\ proc[r].parent = 0 => proc'[r].parent = 0
    BY <1>6, <2>3, Zenon
  <2> QED  BY <2>2, <2>4, KidsKept, Zenon
<1>14. InitprocOK'
  <2>1. InitprocOK
    BY Zenon DEF PInv
  <2>2. {thread'[initproc].pc, thread'[initproc].back} \cap {"exit", "zombie"} = {}
    <3>1. CASE p = initproc
      BY <1>7, <3>1, NotInit
    <3>2. CASE p # initproc
      BY <1>7, <2>1, <3>2, Names, Zenon DEF InitprocOK
    <3> QED  BY <3>1, <3>2, Zenon
  <2>3. proc'[initproc] = proc[initproc]
    BY <1>6, <1>8, Names, Zenon
  <2>4. \A r \in Procs : proc'[r].role = "init" <=> proc[r].role = "init"
    <3>1. proc'[q].role # "init" /\ proc[q].role # "init"
      BY <1>2, <1>5, <1>6, <1>8, <2>1 DEF InitprocOK
    <3> QED  BY <1>6, <3>1, Zenon
  <2>5. proc[initproc].state \notin {"UNUSED", "USED", "ZOMBIE"}
    BY <2>1, Zenon DEF InitprocOK
  <2> QED  BY <2>2, <2>3, <2>4, <2>5, InitprocKept, Zenon
<1>15. TypeOK'
  BY <1>1, <1>4, <1>6, <1>7, Zenon DEF TypeOK
<1> QED
  BY <1>10, <1>12, <1>13, <1>14, <1>15, Zenon DEF PInv

\* fork() makes its child ready to run.
LEMMA forkRestInv ==
  ASSUME PInv, NEW c \in CPUs, NEW p \in Procs, forkRest(c, p)
  PROVE  PInv'
<1>1. /\ cpu[c].proc = p /\ cpu[c].trap = "none" /\ thread[p].pc = "fork" /\ lock' = lock /\ cpu' = cpu
      /\ Free(wait_lock) /\ Free(thread[p].kid)
  BY Zenon DEF forkRest, On, Through
<1>2. thread[p].pc \in Open /\ AfterCall(p) \in Open \cap Pcs
  BY <1>1, NotInit DEF Open, Pcs
<1>3. /\ TypeOK /\ proc[p].state = "RUNNING" /\ thread[p].back = "none" /\ ~thread[p].intena
      /\ proc \in [Procs -> ProcType] /\ thread \in [Procs -> ThreadType] /\ thread[p] \in ThreadType
  <2>1. cpu[c].proc = p
    BY <1>1, Zenon
  <2>2. proc[p].state = "RUNNING" /\ thread[p].back = "none" /\ ~thread[p].intena
    BY <1>2, <2>1, OpenFacts, Zenon
  <2> QED  BY <2>2, Zenon DEF PInv, TypeOK
<1>4. InFork(p)
  BY <1>1 DEF InFork
<1>5. PICK k \in Procs : /\ k = thread[p].kid /\ proc[k].state = "USED"
                         /\ \A r \in Procs : InFork(r) /\ thread[r].kid = k => r = p
  BY <1>4, Zenon DEF PInv, KidOK
<1> DEFINE t == [thread[p] EXCEPT !.pc = AfterCall(p), !.kid = 0]
           s == [proc[k] EXCEPT !.parent = p, !.state = "RUNNABLE"]
<1>6. thread' = [thread EXCEPT ![p] = t] /\ proc' = [proc EXCEPT ![k] = s]
  BY <1>3, <1>5, Zenon DEF forkRest
<1>7. t \in ThreadType /\ t.pc = AfterCall(p) /\ t.back = "none" /\ ~t.intena
  <2>1. 0 \in Procs \cup {0} /\ AfterCall(p) \in Pcs
    BY <1>2
  <2>2. t \in ThreadType
    BY <1>3, <2>1, Zenon DEF ThreadType
  <2>3. t.pc = AfterCall(p) /\ t.back = thread[p].back
    BY <1>3 DEF ThreadType
  <2>4. t.intena = thread[p].intena
    BY <1>3 DEF ThreadType
  <2> QED  BY <1>3, <2>2, <2>3, <2>4, Zenon
<1>8. /\ s \in ProcType /\ s.state = "RUNNABLE" /\ s.parent = p /\ s.role = proc[k].role
      /\ s.killed = proc[k].killed
  <2>1. proc[k] \in ProcType /\ p \in Procs \cup {0}
    BY <1>3, Zenon
  <2>2. s \in ProcType
    BY <2>1, Zenon DEF ProcType
  <2>3. s.state = "RUNNABLE" /\ s.parent = p /\ s.role = proc[k].role
    BY <2>1 DEF ProcType
  <2>4. s.killed = proc[k].killed
    BY <2>1 DEF ProcType
  <2> QED  BY <2>2, <2>3, <2>4, Zenon
<1> HIDE DEF t, s
<1>9. /\ thread' \in [Procs -> ThreadType] /\ thread'[p] = t
      /\ \A r \in Procs \ {p} : thread'[r] = thread[r]
  BY <1>3, <1>6, <1>7, SetThread, Zenon
<1>10. /\ proc' \in [Procs -> ProcType] /\ proc'[k] = s /\ \A r \in Procs \ {k} : proc'[r] = proc[r]
  BY <1>3, <1>6, <1>8, Zenon
<1>11. k # p /\ k # initproc /\ proc[k].parent = 0 /\ thread[k].pc = "user" /\ thread[k].back = "none"
  <2>1. StateOK(k) /\ KidOK(k) /\ InitprocOK
    BY Zenon DEF PInv
  <2>2. k # p /\ k # initproc
    BY <1>3, <1>5, <2>1 DEF InitprocOK
  <2>3. proc[k].parent = 0 /\ thread[k].pc = "user"
    BY <1>5, <2>1, Zenon DEF KidOK, StateOK
  <2>4. thread[k].back = "none"
    BY <2>1, <2>3 DEF StateOK
  <2> QED  BY <2>2, <2>3, <2>4, Zenon
<1>12. (\A d \in CPUs : CpuOK(d)' /\ RunOK(d)') /\ \A r \in Procs : StateOK(r)'
  <2>1. OwnLocks(c) /\ CpuOK(c)' /\ RunOK(c)' /\ StateOK(p)'
    <3>1. cpu[c].proc = p /\ cpu'[c].proc = p /\ cpu'[c].trap = "none"
      BY <1>1, Zenon
    <3>2. proc'[p].state = proc[p].state /\ thread'[p].pc \in Open
      BY <1>2, <1>7, <1>9, <1>10, <1>11, Zenon
    <3> QED  BY <1>1, <1>2, <1>7, <1>9, <3>1, <3>2, OpenStep, Zenon
  <2>2. StateOK(k)'
    BY <1>8, <1>9, <1>10, <1>11 DEF StateOK
  <2>3. \A d \in CPUs : cpu[d].proc # k
    <3>1. proc[k].state \in {"UNUSED", "USED"}
      BY <1>5
    <3> QED  BY <3>1, UnusedOff, Zenon
  <2>4. \A r \in Procs \ {p} : r \in {k} \/ OnlyWoken(r)
    BY <1>9, <1>10 DEF OnlyWoken
  <2>5. \A r \in {k} : StateOK(r)' /\ \A d \in CPUs : cpu[d].proc # r
    BY <2>2, <2>3, Zenon
  <2> QED  BY <1>1, <2>1, <2>4, <2>5, FamilyStep, Zenon
<1>13. \A r \in Procs : thread'[r].pc \notin {"zombie", "waitsleep"}
  BY <1>1, <1>2, <1>7, <1>9, NobodyWaits, Zenon
<1>14. ASSUME NEW r \in Procs
       PROVE  FamilyOK(r)'
  <2>1. FamilyOK(r) /\ proc[r].parent \in Procs \cup {0}
    BY DEF PInv, TypeOK, ProcType
  <2>2. ASSUME InWait(r)'
        PROVE  MaySleep(r)'
    <3>1. r # k /\ proc'[r] = proc[r]
      BY <1>8, <1>10, <2>2 DEF InWait
    <3>2. r # p /\ MaySleep(r)
      BY <1>3, <2>1, <2>2, <3>1 DEF InWait, FamilyOK
    <3>3. Kids(r)' = Kids(r) /\ k \notin Kids(r)
      BY <1>8, <1>10, <1>11, <3>2, Names DEF Kids
    <3>4. \A m \in Kids(r) : proc'[m] = proc[m]
      BY <1>10, <3>3, Zenon DEF Kids
    <3> QED  BY <3>2, <3>3, <3>4, Zenon DEF MaySleep
  <2>3. ASSUME proc'[r].parent # 0
        PROVE  proc'[r].state # "UNUSED" /\ proc'[proc'[r].parent].state \notin {"UNUSED", "ZOMBIE"}
    <3>1. CASE r = k
      BY <1>3, <1>8, <1>10, <1>11, <3>1
    <3>2. CASE r # k
      <4>1. /\ proc'[r] = proc[r] /\ proc[r].parent \in Procs /\ proc[r].state # "UNUSED"
            /\ proc[proc[r].parent].state \notin {"UNUSED", "ZOMBIE"}
        BY <1>10, <2>1, <2>3, <3>2, Zenon DEF FamilyOK
      <4>2. proc'[k].state \notin {"UNUSED", "ZOMBIE"}
        BY <1>8, <1>10
      <4> QED  BY <1>10, <4>1, <4>2, Zenon
    <3> QED  BY <3>1, <3>2, Zenon
  <2> QED  BY <1>13, <2>2, <2>3 DEF FamilyOK
<1>15. ASSUME NEW r \in Procs
       PROVE  KidOK(r)'
  <2>1. proc'[r].state = "USED" => proc'[r].parent = 0
    BY <1>8, <1>10 DEF PInv, KidOK
  <2>2. ~InFork(p)' /\ \A m \in Procs \ {p} : /\ InFork(m)' <=> InFork(m)
                                              /\ thread'[m].kid = thread[m].kid
    <3>1. ~InFork(p)'
      BY <1>7, <1>9, NotInit DEF InFork
    <3> QED  BY <1>9, <3>1, Zenon DEF InFork
  <2>3. ASSUME InFork(r)'
        PROVE  /\ thread'[r].kid \in Procs /\ proc'[thread'[r].kid].state = "USED"
               /\ \A m \in Procs : InFork(m)' /\ thread'[m].kid = thread'[r].kid => m = r
    <3>1. r # p /\ InFork(r) /\ thread'[r].kid = thread[r].kid
      BY <2>2, <2>3, Zenon
    <3>2. /\ thread[r].kid \in Procs /\ proc[thread[r].kid].state = "USED"
          /\ \A m \in Procs : InFork(m) /\ thread[m].kid = thread[r].kid => m = r
      BY <3>1, Zenon DEF PInv, KidOK
    <3>3. thread[r].kid # k
      BY <1>5, <3>1, Zenon
    <3> QED  BY <1>10, <2>2, <3>1, <3>2, <3>3, Zenon
  <2> QED  BY <2>1, <2>3, Zenon DEF KidOK
<1>16. InitprocOK'
  <2>1. InitprocOK
    BY Zenon DEF PInv
  <2>2. {thread'[initproc].pc, thread'[initproc].back} \cap {"exit", "zombie"} = {}
    <3>1. CASE p = initproc
      BY <1>7, <1>9, <3>1, NotInit
    <3>2. CASE p # initproc
      BY <1>9, <2>1, <3>2, Names, Zenon DEF InitprocOK
    <3> QED  BY <3>1, <3>2, Zenon
  <2>3. proc'[initproc] = proc[initproc] /\ \A r \in Procs : proc'[r].role = proc[r].role
    BY <1>8, <1>10, <1>11, Names, Zenon
  <2>4. proc[initproc].state \notin {"UNUSED", "USED", "ZOMBIE"}
    BY <2>1, Zenon DEF InitprocOK
  <2> QED  BY <2>2, <2>3, <2>4, InitprocKept, Zenon
<1>17. TypeOK'
  BY <1>1, <1>3, <1>9, <1>10, Zenon DEF TypeOK
<1> QED
  BY <1>12, <1>14, <1>15, <1>16, <1>17, Zenon DEF PInv

\* fork() takes an entry of the table.
LEMMA forkInv ==
  ASSUME PInv, NEW c \in CPUs, NEW p \in Procs, fork(c, p)
  PROVE  PInv'
<1>1. /\ cpu[c].proc = p /\ cpu[c].trap = "none" /\ thread[p].pc = "user" /\ lock' = lock
  BY Zenon DEF fork, On, Through
<1>2. PICK q \in Procs :
         /\ proc[q].state = "UNUSED" /\ cpu' = [cpu EXCEPT ![c].ie = TRUE]
         /\ proc' = [proc EXCEPT ![q] = [Unused EXCEPT !.state = "USED",
                       !.role = IF proc[p].role = "init" THEN "sh" ELSE "child"]]
         /\ thread' = [thread EXCEPT ![p].pc = "fork", ![p].kid = q, ![q] = Idle]
  BY Zenon DEF fork
<1>3. thread[p].pc \in Open /\ "fork" \in Open \cap Pcs
  BY <1>1 DEF Open, Pcs
<1>4. /\ TypeOK /\ proc[p].state = "RUNNING" /\ thread[p].back = "none" /\ ~thread[p].intena
      /\ cpu[c] \in CpuType /\ cpu \in [CPUs -> CpuType]
      /\ proc \in [Procs -> ProcType] /\ thread \in [Procs -> ThreadType] /\ thread[p] \in ThreadType
  <2>1. cpu[c].proc = p
    BY <1>1, Zenon
  <2>2. proc[p].state = "RUNNING" /\ thread[p].back = "none" /\ ~thread[p].intena
    BY <1>3, <2>1, OpenFacts, Zenon
  <2> QED  BY <2>2, Zenon DEF PInv, TypeOK
<1> DEFINE x == IF proc[p].role = "init" THEN "sh" ELSE "child"
           u == [cpu[c] EXCEPT !.ie = TRUE]
           t == [thread[p] EXCEPT !.pc = "fork", !.kid = q]
           s == [Unused EXCEPT !.state = "USED", !.role = x]
<1>5. q # p /\ q # initproc
  BY <1>2, <1>4 DEF PInv, InitprocOK
<1>6. /\ cpu' = [cpu EXCEPT ![c] = u] /\ proc' = [proc EXCEPT ![q] = s]
      /\ thread' = [thread EXCEPT ![p] = t, ![q] = Idle]
  BY <1>2, <1>4, Zenon
<1>7. u \in CpuType /\ u.proc = p /\ u.trap = "none" /\ u.noff = cpu[c].noff
  <2>1. u \in CpuType
    BY <1>4, Zenon DEF CpuType
  <2> QED  BY <1>1, <1>4, <2>1 DEF CpuType
<1>8. t \in ThreadType /\ t.pc = "fork" /\ t.back = "none" /\ ~t.intena /\ t.kid = q
  <2>1. t \in ThreadType
    BY <1>3, <1>4, Zenon DEF ThreadType
  <2>2. t.pc = "fork" /\ t.back = thread[p].back /\ t.kid = q
    BY <1>4 DEF ThreadType
  <2>3. t.intena = thread[p].intena
    BY <1>4 DEF ThreadType
  <2> QED  BY <1>4, <2>1, <2>2, <2>3, Zenon
<1>9. s \in ProcType /\ s.state = "USED" /\ s.parent = 0 /\ s.role # "init"
  <2>1. x \in {"sh", "child"}
    OBVIOUS
  <2> HIDE DEF x
  <2>2. Unused \in ProcType
    BY DEF Unused, ProcType
  <2>3. x \in {"none", "init", "sh", "child"}
    BY <2>1
  <2>4. s \in ProcType
    BY <2>2, <2>3, Zenon DEF ProcType
  <2> QED  BY <2>1, <2>4 DEF Unused, ProcType
<1>10. Idle \in ThreadType /\ Idle.pc = "user" /\ Idle.back = "none"
  BY DEF Idle, ThreadType, Pcs, Open
<1> HIDE DEF x, u, t, s
<1>11. /\ thread' \in [Procs -> ThreadType] /\ thread'[p] = t /\ thread'[q] = Idle
       /\ \A r \in Procs \ {p, q} : thread'[r] = thread[r]
  <2> DEFINE m == [thread EXCEPT ![p] = t]
  <2>1. m \in [Procs -> ThreadType] /\ m[p] = t /\ \A r \in Procs \ {p} : m[r] = thread[r]
    BY <1>4, <1>8, Zenon
  <2>2. thread' = [m EXCEPT ![q] = Idle]
    BY <1>6, Zenon
  <2> HIDE DEF m
  <2> QED  BY <1>5, <1>10, <2>1, <2>2
<1>12. /\ proc' \in [Procs -> ProcType] /\ proc'[q] = s /\ \A r \in Procs \ {q} : proc'[r] = proc[r]
  BY <1>4, <1>6, <1>9, Zenon
<1>13. cpu' \in [CPUs -> CpuType] /\ cpu'[c] = u /\ \A d \in CPUs \ {c} : cpu'[d] = cpu[d]
  BY <1>4, <1>6, <1>7, SetCpu, Zenon
<1>14. (\A d \in CPUs : CpuOK(d)' /\ RunOK(d)') /\ \A r \in Procs : StateOK(r)'
  <2>1. cpu[c].proc = p /\ cpu'[c].proc = p /\ cpu'[c].trap = "none" /\ cpu'[c].noff = cpu[c].noff
    BY <1>1, <1>7, <1>13, Zenon
  <2>2. OwnLocks(c) /\ CpuOK(c)' /\ RunOK(c)' /\ StateOK(p)'
    <3>1. /\ proc'[p].state = proc[p].state /\ thread'[p].pc \in Open
          /\ thread'[p].back = "none" /\ ~thread'[p].intena
      BY <1>3, <1>5, <1>8, <1>11, <1>12
    <3> QED  BY <1>1, <1>3, <1>13, <2>1, <3>1, OpenStep, Zenon
  <2>3. StateOK(q)'
    BY <1>9, <1>10, <1>11, <1>12 DEF StateOK
  <2>4. \A d \in CPUs : cpu[d].proc # q
    <3>1. proc[q].state \in {"UNUSED", "USED"}
      BY <1>2
    <3> QED  BY <3>1, UnusedOff, Zenon
  <2>5. \A r \in Procs \ {p} : r \in {q} \/ OnlyWoken(r)
    BY <1>11, <1>12 DEF OnlyWoken
  <2>6. \A r \in {q} : StateOK(r)' /\ \A d \in CPUs : cpu[d].proc # r
    BY <2>3, <2>4, Zenon
  <2>7. \A d \in CPUs \ {c} : cpu'[d] = cpu[d]
    BY <1>13, Zenon
  <2> QED  BY <2>1, <2>2, <2>5, <2>6, <2>7, FamilyStep, Zenon
<1>15. ASSUME NEW r \in Procs
       PROVE  FamilyOK(r)'
  <2>1. /\ FamilyOK(r) /\ proc[r].parent \in Procs \cup {0}
        /\ \A m \in Procs : proc[m].parent # 0 => proc[m].state # "UNUSED"
    BY DEF PInv, TypeOK, ProcType, FamilyOK
  <2>2. proc[q].parent = 0
    BY <1>2, <2>1, Zenon
  <2>3. Kids(r)' = Kids(r) /\ q \notin Kids(r)
    BY <1>9, <1>12, <2>2, Names DEF Kids
  <2>4. MaySleep(r) => MaySleep(r)'
    <3>1. \A m \in Kids(r) : proc'[m] = proc[m]
      BY <1>12, <2>3, Zenon DEF Kids
    <3> QED  BY <2>3, <3>1, Zenon DEF MaySleep
  <2>5. InWait(r)' => InWait(r)
    <3>1. proc'[q].state # "SLEEPING"
      BY <1>9, <1>12
    <3> QED  BY <1>12, <3>1, Zenon DEF InWait
  <2>6. /\ thread'[r].pc = "waitsleep" => thread[r].pc = "waitsleep"
        /\ thread'[r].pc = "zombie" => thread[r].pc = "zombie"
    BY <1>8, <1>10, <1>11
  <2>7. InWait(r)' \/ thread'[r].pc = "waitsleep" => MaySleep(r)'
    BY <2>1, <2>4, <2>5, <2>6, Zenon DEF FamilyOK
  <2>8. ASSUME thread'[r].pc = "zombie", NEW m \in Procs
        PROVE  proc'[m].parent # r /\ (proc'[r].parent = m => ~InWait(m)')
    <3>1. proc[m].parent # r /\ (proc[r].parent = m => ~InWait(m))
      BY <2>1, <2>6, <2>8, Zenon DEF FamilyOK
    <3>2. proc'[m].parent = proc[m].parent /\ proc'[r].parent = proc[r].parent
      BY <1>9, <1>12, <2>2, Zenon
    <3>3. InWait(m)' => InWait(m)
      <4>1. proc'[q].state # "SLEEPING"
        BY <1>9, <1>12
      <4> QED  BY <1>12, <4>1, Zenon DEF InWait
    <3> QED  BY <3>1, <3>2, <3>3, Zenon
  <2>9. ASSUME proc'[r].parent # 0
        PROVE  proc'[r].state # "UNUSED" /\ proc'[proc'[r].parent].state \notin {"UNUSED", "ZOMBIE"}
    <3>1. proc'[r] = proc[r] /\ r # q
      BY <1>9, <1>12, <2>9, Zenon
    <3>2. /\ proc[r].parent \in Procs /\ proc[r].state # "UNUSED"
          /\ proc[proc[r].parent].state \notin {"UNUSED", "ZOMBIE"}
      BY <2>1, <2>9, <3>1, Zenon DEF FamilyOK
    <3>3. proc'[q].state \notin {"UNUSED", "ZOMBIE"}
      BY <1>9, <1>12
    <3> QED  BY <1>12, <3>1, <3>2, <3>3, Zenon
  <2> QED  BY <2>7, <2>8, <2>9, Zenon DEF FamilyOK
<1>16. ASSUME NEW r \in Procs
       PROVE  KidOK(r)'
  <2>1. proc'[r].state = "USED" => proc'[r].parent = 0
    BY <1>9, <1>12 DEF PInv, KidOK
  <2>2. InFork(p)' /\ thread'[p].kid = q
    BY <1>8, <1>11 DEF InFork
  <2>3. ASSUME NEW m \in Procs \ {p}, InFork(m)'
        PROVE  /\ InFork(m) /\ thread'[m].kid = thread[m].kid /\ thread[m].kid \in Procs \ {q}
               /\ proc'[thread[m].kid].state = "USED"
               /\ \A n \in Procs : InFork(n) /\ thread[n].kid = thread[m].kid => n = m
    <3>1. m # q
      BY <1>10, <1>11, <2>3 DEF InFork
    <3>2. thread'[m] = thread[m] /\ InFork(m)
      BY <1>11, <2>3, <3>1 DEF InFork
    <3>3. /\ thread[m].kid \in Procs /\ proc[thread[m].kid].state = "USED"
          /\ \A n \in Procs : InFork(n) /\ thread[n].kid = thread[m].kid => n = m
      BY <3>2, Zenon DEF PInv, KidOK
    <3>4. thread[m].kid # q
      BY <1>2, <3>3
    <3> QED  BY <1>12, <3>2, <3>3, <3>4, Zenon
  <2>4. ASSUME InFork(r)'
        PROVE  /\ thread'[r].kid \in Procs /\ proc'[thread'[r].kid].state = "USED"
               /\ \A m \in Procs : InFork(m)' /\ thread'[m].kid = thread'[r].kid => m = r
    <3>1. CASE r = p
      <4>1. thread'[r].kid \in Procs /\ proc'[thread'[r].kid].state = "USED"
        BY <1>9, <1>12, <2>2, <3>1, Zenon
      <4> QED  BY <2>2, <2>3, <3>1, <4>1
    <3>2. CASE r # p
      <4>1. /\ InFork(r) /\ thread'[r].kid = thread[r].kid /\ thread[r].kid \in Procs \ {q}
            /\ proc'[thread[r].kid].state = "USED"
            /\ \A n \in Procs : InFork(n) /\ thread[n].kid = thread[r].kid => n = r
        BY <2>3, <2>4, <3>2, Zenon
      <4>2. ASSUME NEW m \in Procs, InFork(m)', thread'[m].kid = thread'[r].kid
            PROVE  m = r
        <5>1. m # p
          BY <2>2, <4>1, <4>2
        <5> QED  BY <2>3, <4>1, <4>2, <5>1, Zenon
      <4> QED  BY <4>1, <4>2, Zenon
    <3> QED  BY <3>1, <3>2, Zenon
  <2> QED  BY <2>1, <2>4, Zenon DEF KidOK
<1>17. InitprocOK'
  <2>1. InitprocOK
    BY Zenon DEF PInv
  <2>2. {thread'[initproc].pc, thread'[initproc].back} \cap {"exit", "zombie"} = {}
    <3>1. CASE p = initproc
      BY <1>8, <1>11, <3>1
    <3>2. CASE p # initproc
      BY <1>5, <1>11, <2>1, <3>2, Names DEF InitprocOK
    <3> QED  BY <3>1, <3>2, Zenon
  <2>3. proc'[initproc] = proc[initproc]
    BY <1>5, <1>12, Names, Zenon
  <2>4. \A r \in Procs : proc'[r].role = "init" <=> proc[r].role = "init"
    <3>1. proc[q].role # "init"
      BY <1>5, <2>1, Zenon DEF InitprocOK
    <3> QED  BY <1>9, <1>12, <3>1, Zenon
  <2>5. proc[initproc].state \notin {"UNUSED", "USED", "ZOMBIE"}
    BY <2>1, Zenon DEF InitprocOK
  <2> QED  BY <2>2, <2>3, <2>4, <2>5, InitprocKept, Zenon
<1>18. TypeOK'
  BY <1>1, <1>4, <1>11, <1>12, <1>13, Zenon DEF TypeOK
<1> QED
  BY <1>14, <1>15, <1>16, <1>17, <1>18, Zenon DEF PInv

\* exit() makes a zombie, with p->lock held and wait_lock released.
LEMMA exitZombieInv ==
  ASSUME PInv, NEW c \in CPUs, NEW p \in Procs, exitZombie(c, p)
  PROVE  PInv'
<1>1. /\ cpu[c].proc = p /\ cpu[c].trap = "none" /\ thread[p].pc = "zombie" /\ Free(p)
      /\ lock' = [lock EXCEPT ![p] = c, ![wait_lock] = 0]
      /\ cpu' = [cpu EXCEPT ![c] = pop_off(push_off(cpu[c]))]
      /\ proc' = [proc EXCEPT ![p].state = "ZOMBIE"] /\ Goto(p, "sched")
  BY Zenon DEF exitZombie, On
<1>2. /\ TypeOK /\ CpuOK(c) /\ cpu[c] \in CpuType /\ lock \in [Locks -> CPUs \cup {0}]
      /\ FamilyOK(p)
  BY Zenon DEF PInv, TypeOK
<1>3. /\ Holds(c) = {wait_lock} /\ \A d \in CPUs \ {c} : cpu[d].proc # p
      /\ proc[p].state = "RUNNING" /\ thread[p].back = "none" /\ ~thread[p].intena
  <2>1. cpu[c].proc = p /\ thread[p].pc # "sched"
    BY <1>1
  <2>2. /\ Holds(c) = HeldAt(thread[p].pc, p) /\ \A d \in CPUs \ {c} : cpu[d].proc # p
        /\ proc[p].state = "RUNNING" /\ thread[p].back = "none" /\ ~thread[p].intena
    BY <2>1, OnCpu, Zenon
  <2> QED  BY <1>1, <2>2 DEF HeldAt
<1>4. cpu[c].noff = 1 /\ ~cpu[c].ie /\ \A m \in Locks : lock[m] = c <=> m = wait_lock
  BY <1>2, <1>3 DEF CpuOK
<1>5. LET r == pop_off(push_off(cpu[c])) IN
      /\ r \in CpuType /\ r.proc = p /\ r.trap = "none" /\ r.noff = 1 /\ ~r.ie
  BY <1>1, <1>2, <1>4, PushPop, Zenon
<1>6. /\ cpu' \in [CPUs -> CpuType] /\ \A d \in CPUs \ {c} : cpu'[d] = cpu[d]
      /\ cpu'[c].proc = p /\ cpu'[c].trap = "none" /\ cpu'[c].noff = 1 /\ ~cpu'[c].ie
  BY <1>1, <1>2, <1>5, SetCpu, Zenon
<1>7. /\ thread' \in [Procs -> ThreadType] /\ thread'[p].pc = "sched"
      /\ \A q \in Procs \ {p} : thread'[q] = thread[q]
      /\ thread'[p].back = "none" /\ ~thread'[p].intena
  <2>1. "sched" \in Pcs
    BY DEF Pcs
  <2> QED  BY <1>1, <1>2, <1>3, <2>1, SetPc, Zenon
<1>8. /\ proc' \in [Procs -> ProcType] /\ proc'[p].state = "ZOMBIE"
      /\ \A q \in Procs \ {p} : proc'[q] = proc[q]
      /\ proc'[p].parent = proc[p].parent
      /\ proc'[p].role = proc[p].role /\ proc'[p].killed = proc[p].killed
  <2>1. "ZOMBIE" \in {"UNUSED", "USED", "RUNNABLE", "RUNNING", "SLEEPING", "ZOMBIE"}
    OBVIOUS
  <2> QED  BY <1>1, <1>2, <2>1, SetState, Zenon
<1>9. /\ lock' \in [Locks -> CPUs \cup {0}] /\ lock'[p] = c /\ lock'[wait_lock] = 0
      /\ \A m \in Locks \ {p, wait_lock} : lock'[m] = lock[m]
  BY <1>1, <1>2, Names
<1>10. OwnLocks(c) /\ CpuOK(c)'
  <2>1. OwnLocks(c)
    BY <1>1, <1>4, <1>9, Names DEF OwnLocks, Free
  <2>2. \A m \in Locks : lock'[m] = c <=> m \in {p}
    BY <1>4, <1>9, Names, NamesAssumption
  <2>3. {p} # {} /\ Holds(c)' = {p}
    BY <1>6, <1>7, Names DEF Holds, HeldAt
  <2> QED  BY <1>6, <2>1, <2>2, <2>3, Zenon DEF CpuOK
<1>11. RunOK(c)'
  <2>1. \A d \in CPUs : cpu'[d].proc = p => d = c
    BY <1>3, <1>6, Zenon
  <2> QED  BY <1>6, <1>7, <1>8, <2>1 DEF RunOK
<1>12. StateOK(p)'
  BY <1>7, <1>8 DEF StateOK
<1>13. (\A d \in CPUs : CpuOK(d)' /\ RunOK(d)') /\ \A r \in Procs : StateOK(r)'
  <2>0. PICK X : X = {}
    BY Zenon
  <2>1. \A r \in Procs \ {p} : r \in X \/ OnlyWoken(r)
    BY <1>7, <1>8, Zenon DEF OnlyWoken
  <2>2. \A r \in X : StateOK(r)' /\ \A d \in CPUs : cpu[d].proc # r
    BY <2>0
  <2>3. cpu[c].proc = p /\ cpu'[c].proc = p /\ \A d \in CPUs \ {c} : cpu'[d] = cpu[d]
    BY <1>1, <1>6, Zenon
  <2> QED  BY <1>10, <1>11, <1>12, <2>1, <2>2, <2>3, FamilyStep, Zenon
<1>14. \A r \in Procs : thread'[r].pc \notin {"zombie", "waitsleep"}
  <2>1. \A r \in Procs : thread[r].pc \in {"zombie", "waitsleep"} => r = p
    <3>1. thread[p].pc \in {"zombie", "waitsleep"}
      BY <1>1
    <3> QED  BY <3>1, WaitLockOnce, Zenon
  <2> QED  BY <1>7, <2>1
<1>15. \A r \in Procs : proc[r].parent # p /\ (proc[p].parent = r => ~InWait(r))
  BY <1>1, <1>2, Zenon DEF FamilyOK
<1>16. ASSUME NEW r \in Procs
       PROVE  FamilyOK(r)'
  <2>1. FamilyOK(r) /\ proc[r].parent \in Procs \cup {0}
    BY DEF PInv, TypeOK, ProcType
  <2>2. Kids(r)' = Kids(r)
    BY <1>8, Zenon DEF Kids
  <2>3. ASSUME InWait(r)'
        PROVE  MaySleep(r)'
    <3>1. r # p
      BY <1>8, <2>3 DEF InWait
    <3>2. InWait(r)
      BY <1>8, <2>3, <3>1, Zenon DEF InWait
    <3>3. MaySleep(r) /\ p \notin Kids(r)
      BY <1>15, <2>1, <3>2, Zenon DEF FamilyOK, Kids
    <3>4. \A s \in Kids(r) : proc'[s] = proc[s]
      BY <1>8, <3>3, Zenon DEF Kids
    <3> QED  BY <2>2, <3>3, <3>4, Zenon DEF MaySleep
  <2>4. ASSUME proc'[r].parent # 0
        PROVE  proc'[r].state # "UNUSED" /\ proc'[proc'[r].parent].state \notin {"UNUSED", "ZOMBIE"}
    <3>1. proc'[r].parent = proc[r].parent
      BY <1>8, Zenon
    <3>2. /\ proc[r].parent \in Procs /\ proc[r].state # "UNUSED"
          /\ proc[proc[r].parent].state \notin {"UNUSED", "ZOMBIE"}
      BY <2>1, <2>4, <3>1, Zenon DEF FamilyOK
    <3>3. proc[r].parent # p
      BY <1>15, Zenon
    <3>4. proc'[r].state # "UNUSED"
      BY <1>8, <3>2
    <3> QED  BY <1>8, <3>1, <3>2, <3>3, <3>4, Zenon
  <2> QED  BY <1>14, <2>3, <2>4 DEF FamilyOK
<1>17. \A r \in Procs : KidOK(r)'
  <2>1. ~InFork(p)'
    BY <1>7 DEF InFork
  <2>2. \A r \in Procs : InFork(r)' => InFork(r) /\ thread'[r].kid = thread[r].kid
    BY <1>7, <2>1, Zenon DEF InFork
  <2>3. proc'[p].state # "USED" /\ proc[p].state # "USED"
    BY <1>3, <1>8
  <2>4. \A r \in Procs : /\ proc'[r].state = "USED" <=> proc[r].state = "USED"
                         /\ proc[r].parent = 0 => proc'[r].parent = 0
    BY <1>8, <2>3, Zenon
  <2> QED  BY <2>2, <2>4, KidsKept, Zenon
<1>18. InitprocOK'
  <2>1. InitprocOK
    BY Zenon DEF PInv
  <2>2. p # initproc
    <3>1. {thread[initproc].pc, thread[initproc].back} \cap {"exit", "zombie"} = {}
      BY <2>1, Zenon DEF InitprocOK
    <3>2. "zombie" \notin {thread[initproc].pc, thread[initproc].back}
      BY <3>1, Zenon
    <3> QED  BY <1>1, <3>2, Zenon
  <2>3. proc'[initproc] = proc[initproc] /\ thread'[initproc] = thread[initproc]
    BY <1>7, <1>8, <2>2, Names, Zenon
  <2>4. \A r \in Procs : proc'[r].role = "init" <=> proc[r].role = "init"
    BY <1>8, Zenon
  <2> QED  BY <2>1, <2>3, <2>4, Zenon DEF InitprocOK
<1>19. TypeOK'
  BY <1>6, <1>7, <1>8, <1>9, Zenon DEF TypeOK
<1> QED
  BY <1>13, <1>16, <1>17, <1>18, <1>19, Zenon DEF PInv

\* exit() gives the children of p to init, and wakes init and the parent.
LEMMA exitReparentInv ==
  ASSUME PInv, NEW c \in CPUs, NEW p \in Procs, exitReparent(c, p)
  PROVE  PInv'
<1>1. /\ cpu[c].proc = p /\ cpu[c].trap = "none" /\ thread[p].pc = "exit"
      /\ acquire(c, wait_lock) /\ Goto(p, "zombie")
  BY Zenon DEF exitReparent, On
<1>2. "exit" \in Open /\ "zombie" \in Pcs
  BY DEF Open, Pcs
<1>3. /\ TypeOK /\ Holds(c) = {} /\ proc[p].state = "RUNNING" /\ thread[p].back = "none"
      /\ ~thread[p].intena /\ \A d \in CPUs \ {c} : cpu[d].proc # p
  <2>1. cpu[c].proc = p /\ thread[p].pc \in Open
    BY <1>1, <1>2, Zenon
  <2>2. /\ TypeOK /\ Holds(c) = {} /\ proc[p].state = "RUNNING" /\ thread[p].back = "none"
        /\ ~thread[p].intena
    BY <2>1, OpenFacts, Zenon
  <2>3. cpu[c].proc = p
    BY <2>1, Zenon
  <2>4. \A d \in CPUs \ {c} : cpu[d].proc # p
    BY <2>3, OnCpu
  <2> QED  BY <2>2, <2>4, Zenon
<1>4. /\ Free(wait_lock) /\ lock' \in [Locks -> CPUs \cup {0}] /\ lock'[wait_lock] = c
      /\ \A m \in Locks \ {wait_lock} : lock'[m] = lock[m]
      /\ cpu' \in [CPUs -> CpuType] /\ \A d \in CPUs \ {c} : cpu'[d] = cpu[d]
      /\ cpu'[c].proc = p /\ cpu'[c].trap = "none" /\ cpu'[c].noff = 1 /\ ~cpu'[c].ie
  <2>1. wait_lock \in Locks /\ acquire(c, wait_lock)
    BY <1>1, Names, Zenon
  <2> QED  BY <1>1, <1>3, <2>1, Acquired, Zenon
<1>5. /\ thread' \in [Procs -> ThreadType] /\ thread'[p].pc = "zombie"
      /\ \A q \in Procs \ {p} : thread'[q] = thread[q]
      /\ thread'[p].back = "none" /\ ~thread'[p].intena
  BY <1>1, <1>2, <1>3, SetPc, Zenon
<1> DEFINE woken == {proc[p].parent} \cup (IF Kids(p) = {} THEN {} ELSE {initproc})
           w(q) == wakeup(proc, p, woken)[q]
           x(q) == IF proc[q].parent = p THEN initproc ELSE proc[q].parent
<1>0. proc' = [q \in Procs |-> [w(q) EXCEPT !.parent = IF @ = p THEN Heir(p) ELSE @]]
  BY Zenon DEF exitReparent
<1>6. ASSUME NEW q \in Procs
      PROVE  /\ proc'[q] \in ProcType /\ proc'[q].parent = x(q) /\ proc'[q].chan = proc[q].chan
             /\ proc'[q].role = proc[q].role /\ proc'[q].killed = proc[q].killed
             /\ proc'[q].state = IF q # p /\ \E chan \in woken : Woken(q, chan)
                                 THEN "RUNNABLE" ELSE proc[q].state
             /\ \/ proc'[q].state = proc[q].state
                \/ proc[q].state = "SLEEPING" /\ proc'[q].state = "RUNNABLE"
  <2> DEFINE v == w(q)
             s == [v EXCEPT !.parent = x(q)]
             A == \E chan \in woken : Woken(q, chan)
  <2>1. /\ v \in ProcType /\ v.parent = proc[q].parent /\ v.chan = proc[q].chan
        /\ v.role = proc[q].role /\ v.killed = proc[q].killed
        /\ v.state = IF q # p /\ A THEN "RUNNABLE" ELSE proc[q].state
        /\ \/ v.state = proc[q].state
           \/ proc[q].state = "SLEEPING" /\ v.state = "RUNNABLE"
    <3> HIDE DEF woken
    <3> QED  BY <1>3, Wakes, SMTT(40)
  <2>2. proc'[q] = s
    BY <1>0, <2>1, Zenon DEF Heir
  <2>3. x(q) \in Procs \cup {0}
    BY <1>3, Names DEF TypeOK, ProcType
  <2> HIDE DEF v, A, x
  <2>4. s \in ProcType
    BY <2>1, <2>3, Zenon DEF ProcType
  <2>5. s.parent = x(q) /\ s.chan = v.chan /\ s.role = v.role /\ s.state = v.state
    BY <2>1 DEF ProcType
  <2>6. s.killed = v.killed
    BY <2>1 DEF ProcType
  <2> QED  BY <2>1, <2>2, <2>4, <2>5, <2>6, Zenon DEF A
<1>7. proc' \in [Procs -> ProcType] /\ proc'[p].state = "RUNNING"
  <2>1. proc' = [q \in Procs |-> proc'[q]]
    BY <1>0, Zenon
  <2>2. proc'[p].state = "RUNNING"
    BY <1>3, <1>6, Zenon
  <2> QED  BY <1>6, <2>1, <2>2, Zenon

<1> HIDE DEF w
<1>8. p # initproc
  <2>1. {thread[initproc].pc, thread[initproc].back} \cap {"exit", "zombie"} = {}
    BY Zenon DEF PInv, InitprocOK
  <2>2. "exit" \notin {thread[initproc].pc, thread[initproc].back}
    BY <2>1, Zenon
  <2> QED  BY <1>1, <2>2, Zenon
<1>9. OwnLocks(c) /\ CpuOK(c)' /\ RunOK(c)' /\ StateOK(p)'
  <2>1. \A l \in Locks : lock[l] # c
    BY <1>3, Zenon DEF PInv, CpuOK
  <2>2. Holds(c)' = {wait_lock}
    BY <1>4, <1>5, Names DEF Holds, HeldAt
  <2>3. CpuOK(c)'
    <3>1. \A l \in Locks : lock'[l] = c <=> l \in {wait_lock}
      BY <1>4, <2>1
    <3>2. {wait_lock} # {}
      OBVIOUS
    <3> QED  BY <1>4, <2>2, <3>1, <3>2, Zenon DEF CpuOK
  <2>4. OwnLocks(c)
    BY <1>4 DEF OwnLocks, Free
  <2>5. RunOK(c)'
    <3>1. \A d \in CPUs \ {c} : cpu[d].proc # p /\ cpu'[d] = cpu[d]
      BY <1>3, <1>4, Zenon
    <3>2. \A d \in CPUs : cpu'[d].proc = p => d = c
      BY <3>1, Zenon
    <3> QED  BY <1>4, <1>5, <1>7, <3>2 DEF RunOK
  <2>6. StateOK(p)'
    <3>1. \E d \in CPUs : cpu'[d].proc = p
      BY <1>4, Zenon
    <3> QED  BY <1>5, <1>7, <3>1 DEF StateOK
  <2> QED  BY <2>3, <2>4, <2>5, <2>6, Zenon
<1>10. (\A d \in CPUs : CpuOK(d)' /\ RunOK(d)') /\ \A r \in Procs : StateOK(r)'
  <2>0. PICK X : X = {}
    BY Zenon
  <2>1. \A r \in Procs \ {p} : r \in X \/ OnlyWoken(r)
    BY <1>5, <1>6, Zenon DEF OnlyWoken
  <2>2. \A r \in X : StateOK(r)' /\ \A d \in CPUs : cpu[d].proc # r
    BY <2>0
  <2>3. cpu[c].proc = p /\ cpu'[c].proc = p /\ \A d \in CPUs \ {c} : cpu'[d] = cpu[d]
    BY <1>1, <1>4, Zenon
  <2> QED  BY <1>9, <2>1, <2>2, <2>3, FamilyStep, Zenon
<1>11. \A r \in Procs : thread'[r].pc \in {"zombie", "waitsleep"} => r = p
  <2>1. \A r \in Procs : thread[r].pc \notin {"zombie", "waitsleep"}
    BY <1>4, WaitLockOnce, Zenon
  <2> QED  BY <1>5, <2>1, Zenon
\* Whoever is still asleep in wait() is neither the parent nor, if p had children, init.
<1>12. ASSUME NEW r \in Procs, InWait(r)'
       PROVE  InWait(r) /\ r # p /\ r # proc[p].parent /\ (Kids(p) # {} => r # initproc)
  <2>1. proc'[r].state = "SLEEPING" /\ proc'[r].chan = r
    BY <1>12, Zenon DEF InWait
  <2>2. proc[r].state = "SLEEPING" /\ proc[r].chan = r /\ ~(r # p /\ \E chan \in woken : Woken(r, chan))
    <3> HIDE DEF woken
    <3> QED  BY <1>6, <2>1
  <2>3. r # p
    BY <1>3, <2>2
  <2>4. r \notin woken
    BY <2>2, <2>3, Zenon DEF Woken
  <2> QED  BY <2>2, <2>3, <2>4 DEF InWait
<1> HIDE DEF woken
<1>13. ASSUME NEW r \in Procs, InWait(r)'
       PROVE  MaySleep(r)'
  <2>1. InWait(r) /\ r # p /\ (Kids(p) # {} => r # initproc)
    BY <1>12, <1>13, Zenon
  <2>2. MaySleep(r)
    BY <2>1, Zenon DEF PInv, FamilyOK
  <2>3. \A q \in Procs : proc'[q].parent = r <=> proc[q].parent = r
    <3> TAKE q \in Procs
    <3>1. proc[q].parent = p => r # initproc
      BY <2>1, Zenon DEF Kids
    <3>2. proc'[q].parent = IF proc[q].parent = p THEN initproc ELSE proc[q].parent
      BY <1>6, Zenon
    <3> QED  BY <2>1, <3>1, <3>2, Zenon
  <2>4. Kids(r)' = Kids(r)
    BY <2>3, Zenon DEF Kids
  <2>5. \A q \in Kids(r) : proc[q].state # "ZOMBIE" => proc'[q].state # "ZOMBIE"
    <3> SUFFICES ASSUME NEW q \in Procs, proc[q].state # "ZOMBIE"
                 PROVE  proc'[q].state # "ZOMBIE"
      BY Zenon DEF Kids
    <3>1. proc'[q].state = proc[q].state \/ proc'[q].state = "RUNNABLE"
      BY <1>6, Zenon
    <3> QED  BY <3>1
  <2> QED  BY <2>2, <2>4, <2>5, Zenon DEF MaySleep
<1>14. ASSUME NEW r \in Procs
       PROVE  proc'[r].parent # p /\ (proc'[p].parent = r => ~InWait(r)')
  <2>1. /\ proc'[r].parent = IF proc[r].parent = p THEN initproc ELSE proc[r].parent
        /\ proc'[p].parent = IF proc[p].parent = p THEN initproc ELSE proc[p].parent
    BY <1>6, Zenon
  <2>2. proc[p].parent = p => Kids(p) # {}
    BY DEF Kids
  <2>3. InWait(r)' => r # proc[p].parent /\ (Kids(p) # {} => r # initproc)
    BY <1>12, Zenon
  <2> QED  BY <1>8, <2>1, <2>2, <2>3, Zenon
<1>15. ASSUME NEW r \in Procs, proc'[r].parent # 0
       PROVE  proc'[r].state # "UNUSED" /\ proc'[proc'[r].parent].state \notin {"UNUSED", "ZOMBIE"}
  <2>1. /\ FamilyOK(r) /\ proc[r].parent \in Procs \cup {0} /\ InitprocOK
    BY DEF PInv, TypeOK, ProcType
  <2>2. proc'[r].parent = IF proc[r].parent = p THEN initproc ELSE proc[r].parent
    BY <1>6, Zenon
  <2>3. proc[r].parent # 0
    BY <1>15, <2>2, Names, Zenon
  <2>4. \A q \in Procs : /\ proc[q].state \notin {"UNUSED", "ZOMBIE"} => proc'[q].state \notin {"UNUSED", "ZOMBIE"}
                         /\ proc[q].state # "UNUSED" => proc'[q].state # "UNUSED"
    <3> TAKE q \in Procs
    <3>1. proc'[q].state = proc[q].state \/ proc'[q].state = "RUNNABLE"
      BY <1>6, Zenon
    <3> QED  BY <3>1
  <2>5. /\ proc[r].parent \in Procs /\ proc[r].state # "UNUSED"
        /\ proc[proc[r].parent].state \notin {"UNUSED", "ZOMBIE"}
    BY <2>1, <2>3, Zenon DEF FamilyOK
  <2>6. proc[initproc].state \notin {"UNUSED", "ZOMBIE"}
    BY <2>1 DEF InitprocOK
  <2> QED  BY <2>2, <2>4, <2>5, <2>6, Names, Zenon
<1>16. \A r \in Procs : FamilyOK(r)'
  <2>1. \A r \in Procs : InWait(r)' \/ thread'[r].pc = "waitsleep" => MaySleep(r)'
    <3>1. thread'[p].pc # "waitsleep"
      BY <1>5
    <3> QED  BY <1>11, <1>13, <3>1
  <2>2. \A r \in Procs : thread'[r].pc = "zombie" => r = p
    BY <1>11
  <2> QED  BY <1>14, <1>15, <2>1, <2>2, Zenon DEF FamilyOK
<1>17. \A r \in Procs : KidOK(r)'
  <2>1. ~InFork(p)'
    BY <1>5 DEF InFork
  <2>2. \A r \in Procs : InFork(r)' => InFork(r) /\ thread'[r].kid = thread[r].kid
    BY <1>5, <2>1, Zenon DEF InFork
  <2>3. ASSUME NEW r \in Procs
        PROVE  /\ proc'[r].state = "USED" <=> proc[r].state = "USED"
               /\ proc[r].parent = 0 => proc'[r].parent = 0
    <3>1. \/ proc'[r].state = proc[r].state
          \/ proc[r].state = "SLEEPING" /\ proc'[r].state = "RUNNABLE"
      BY <1>6, Zenon
    <3>2. proc[r].parent = 0 => proc'[r].parent = 0
      BY <1>6, Names, ZenonT(40)
    <3>3. proc'[r].state = "USED" <=> proc[r].state = "USED"
      BY <3>1
    <3> QED  BY <3>2, <3>3, Zenon
  <2> QED  BY <2>2, <2>3, KidsKept, Zenon
<1>18. InitprocOK'
  <2>1. InitprocOK
    BY Zenon DEF PInv
  <2>2. /\ \A r \in Procs : proc'[r].role = "init" <=> proc[r].role = "init"
        /\ proc'[initproc].killed = proc[initproc].killed
    BY <1>6, Names, Zenon
  <2>3. {thread'[initproc].pc, thread'[initproc].back} \cap {"exit", "zombie"} = {}
    BY <1>5, <1>8, <2>1, Names, Zenon DEF InitprocOK
  <2>4. proc'[initproc].state \notin {"UNUSED", "USED", "ZOMBIE"}
    <3>1. proc'[initproc].state = proc[initproc].state \/ proc'[initproc].state = "RUNNABLE"
      BY <1>6, Names, Zenon
    <3>2. proc[initproc].state \notin {"UNUSED", "USED", "ZOMBIE"}
      BY <2>1, Zenon DEF InitprocOK
    <3> QED  BY <3>1, <3>2
  <2> QED  BY <2>2, <2>3, <2>4, InitprocKept, Zenon
<1>19. TypeOK'
  BY <1>4, <1>5, <1>7, Zenon DEF TypeOK
<1> QED
  BY <1>10, <1>16, <1>17, <1>18, <1>19, Zenon DEF PInv

-----------------------------------------------------------------------------
(***************************************************************************)
(* The invariant holds.                                                    *)
(***************************************************************************)

\* At boot: init is ready to run, on no CPU, and no lock is held.
LEMMA InitPInv ==
  ASSUME Init
  PROVE  PInv
<1> DEFINE first == [Unused EXCEPT !.state = "RUNNABLE", !.role = "init"]
           off == [proc |-> 0, noff |-> 0, intena |-> FALSE, ie |-> FALSE, trap |-> "none"]
<1>1. /\ first \in ProcType /\ first.state = "RUNNABLE" /\ first.role = "init"
      /\ first.parent = 0
  <2>1. Unused \in ProcType
    BY DEF Unused, ProcType
  <2>2. first \in ProcType
    BY <2>1, Zenon DEF ProcType
  <2>3. Unused.parent = 0
    BY DEF Unused
  <2> QED  BY <2>1, <2>2, <2>3 DEF ProcType
<1>2. ~first.killed
  BY DEF Unused, ProcType
<1>3. /\ Unused \in ProcType /\ Unused.state = "UNUSED" /\ Unused.role = "none" /\ Unused.parent = 0
  BY DEF Unused, ProcType
<1>4. /\ Idle \in ThreadType /\ Idle.pc = "user" /\ Idle.back = "none"
  BY DEF Idle, ThreadType, Pcs, Open
<1>5. off \in CpuType /\ off.proc = 0 /\ off.noff = 0 /\ off.trap = "none"
  BY DEF CpuType
<1> HIDE DEF first, off
<1>6. /\ proc = [p \in Procs |-> IF p = initproc THEN first ELSE Unused]
      /\ thread = [p \in Procs |-> Idle] /\ cpu = [c \in CPUs |-> off]
      /\ lock = [l \in Locks |-> 0]
  BY Zenon DEF Init, first, off
<1>7. TypeOK
  <2>1. proc \in [Procs -> ProcType] /\ thread \in [Procs -> ThreadType] /\ cpu \in [CPUs -> CpuType]
    BY <1>1, <1>3, <1>4, <1>5, <1>6, Zenon
  <2>2. lock \in [Locks -> CPUs \cup {0}]
    BY <1>6
  <2> QED  BY <2>1, <2>2, Zenon DEF TypeOK
<1>8. /\ \A p \in Procs : \/ proc[p] = first /\ p = initproc
                          \/ proc[p] = Unused /\ p # initproc
      /\ \A p \in Procs : thread[p] = Idle
      /\ \A c \in CPUs : cpu[c] = off
      /\ \A l \in Locks : lock[l] = 0
  BY <1>6, Zenon
<1>9. \A c \in CPUs : CpuOK(c) /\ RunOK(c)
  <2> TAKE c \in CPUs
  <2>1. Holds(c) = {} /\ cpu[c].proc = 0 /\ cpu[c].noff = 0 /\ cpu[c].trap = "none"
    BY <1>5, <1>8, Zenon DEF Holds
  <2>2. \A l \in Locks : lock[l] # c
    BY <1>8, NamesAssumption, Zenon
  <2> QED  BY <2>1, <2>2, Zenon DEF CpuOK, RunOK
<1>10. \A p \in Procs : StateOK(p) /\ FamilyOK(p) /\ KidOK(p)
  <2> TAKE p \in Procs
  <2>1. /\ proc[p].state \in {"RUNNABLE", "UNUSED"} /\ proc[p].parent = 0
        /\ thread[p].pc = "user" /\ thread[p].back = "none"
    BY <1>1, <1>3, <1>4, <1>8
  <2>2. StateOK(p)
    BY <2>1 DEF StateOK
  <2>3. FamilyOK(p)
    BY <2>1 DEF FamilyOK, InWait
  <2>4. KidOK(p)
    BY <2>1 DEF KidOK, InFork
  <2> QED  BY <2>2, <2>3, <2>4, Zenon
<1>11. InitprocOK
  <2>1. proc[initproc] = first /\ thread[initproc] = Idle
    BY <1>8, Names, Zenon
  <2>2. {thread[initproc].pc, thread[initproc].back} \cap {"exit", "zombie"} = {}
    BY <1>4, <2>1
  <2>3. proc[initproc].state \notin {"UNUSED", "USED", "ZOMBIE"}
    BY <1>1, <2>1
  <2>4. \A p \in Procs : proc[p].role = "init" => p = initproc
    BY <1>3, <1>8
  <2> QED  BY <1>1, <1>2, <2>1, <2>2, <2>3, <2>4, Zenon DEF InitprocOK
<1> QED
  BY <1>7, <1>9, <1>10, <1>11, Zenon DEF PInv

\* Every step keeps it.
LEMMA NextPInv ==
  ASSUME PInv, [Next]_vars
  PROVE  PInv'
<1>1. ASSUME UNCHANGED vars
      PROVE  PInv'
  <2>1. cpu' = cpu /\ lock' = lock /\ proc' = proc /\ thread' = thread
    BY <1>1, Zenon DEF vars
  <2>2. TypeOK' /\ InitprocOK'
    BY <2>1, Zenon DEF PInv, TypeOK, InitprocOK
  <2>3. ASSUME NEW c \in CPUs
        PROVE  CpuOK(c)' /\ RunOK(c)'
    <3>1. CpuOK(c) /\ RunOK(c)
      BY Zenon DEF PInv
    <3>2. CpuOK(c)'
      BY <2>1, <3>1, Zenon DEF CpuOK, Holds
    <3>3. RunOK(c)'
      BY <2>1, <3>1, Zenon DEF RunOK
    <3> QED  BY <3>2, <3>3, Zenon
  <2>4. ASSUME NEW p \in Procs
        PROVE  StateOK(p)' /\ KidOK(p)'
    <3>1. StateOK(p) /\ KidOK(p)
      BY Zenon DEF PInv
    <3>2. StateOK(p)'
      BY <2>1, <3>1, Zenon DEF StateOK
    <3>3. KidOK(p)'
      BY <2>1, <3>1, Zenon DEF KidOK, InFork
    <3> QED  BY <3>2, <3>3, Zenon
  <2>5. ASSUME NEW p \in Procs
        PROVE  FamilyOK(p)'
    <3>1. FamilyOK(p)
      BY Zenon DEF PInv
    <3> QED  BY <2>1, <3>1, Zenon DEF FamilyOK, MaySleep, InWait, Kids
  <2> QED  BY <2>2, <2>3, <2>4, <2>5, Zenon DEF PInv
<1>2. ASSUME NEW c \in CPUs, timer(c) \/ HandlerStep(c)
      PROVE  PInv'
  <2>1. CASE timer(c) \/ TrapScheduler(c) \/ TrapReturn(c) \/ intr_on(c)
    BY <2>1, timerInv, Zenon
  <2>2. CASE clockintr(c)
    BY <2>2, clockintrInv, Zenon
  <2>3. ASSUME NEW p \in Procs, sched(c, p) \/ yield(c, p) \/ TrapKilled(c, p)
        PROVE  PInv'
    BY <2>3, schedInv, yieldInv, TrapKilledInv, Zenon
  <2> QED  BY <1>2, <2>1, <2>2, <2>3, Zenon DEF HandlerStep
<1>3. ASSUME NEW c \in CPUs, NEW p \in Procs, scheduler(c, p)
      PROVE  PInv'
  BY <1>3, schedulerInv, Zenon
<1>4. ASSUME NEW c \in CPUs, NEW p \in Procs, KernelStep(c, p)
      PROVE  PInv'
  <2>1. CASE forkRest(c, p)
    BY <2>1, forkRestInv, Zenon
  <2>2. CASE exitReparent(c, p)
    BY <2>2, exitReparentInv, Zenon
  <2>3. CASE exitZombie(c, p)
    BY <2>3, exitZombieInv, Zenon
  <2>4. CASE waitReap(c, p)
    BY <2>4, waitReapInv, Zenon
  <2>5. CASE waitFails(c, p) \/ sleepReturns(c, p)
    BY <2>5, ReturnInv, Zenon
  <2>6. CASE waitScan(c, p) \/ sleepTicks(c, p)
    BY <2>6, ScanInv, Zenon
  <2>7. CASE waitSleep(c, p) \/ ticksSleep(c, p)
    BY <2>7, SleepInv, Zenon
  <2> QED  BY <1>4, <2>1, <2>2, <2>3, <2>4, <2>5, <2>6, <2>7, Zenon DEF KernelStep
<1>5. ASSUME NEW c \in CPUs, NEW p \in Procs, UserStep(c, p)
      PROVE  PInv'
  <2>1. CASE fork(c, p)
    BY <2>1, forkInv, Zenon
  <2>2. CASE exit(c, p) \/ wait(c, p)
    BY <2>2, EcallInv, Zenon
  <2>3. CASE sys_sleep(c, p)
    BY <2>3, ReturnInv, Zenon
  <2>4. ASSUME NEW q \in Procs, kill(c, p, q)
        PROVE  PInv'
    BY <2>4, killInv, Zenon
  <2> QED  BY <1>5, <2>1, <2>2, <2>3, <2>4, Zenon DEF UserStep
<1> QED
  BY <1>1, <1>2, <1>3, <1>4, <1>5, Zenon DEF Next

\* The inductive invariant: the locks, the CPUs, the states of the processes and
\* their families agree in every state.
THEOREM ProcInvariant == Spec => []PInv
<1>1. Init => PInv
  BY InitPInv
<1>2. PInv /\ [Next]_vars => PInv'
  BY NextPInv
<1> QED
  BY <1>1, <1>2, PTL DEF Spec

-----------------------------------------------------------------------------
(***************************************************************************)
(* What follows.                                                           *)
(***************************************************************************)

\* The number of locks that a CPU holds.
LEMMA HeldCount ==
  ASSUME PInv, NEW c \in CPUs
  PROVE  cpu[c].noff = Cardinality({l \in Locks : lock[l] = c})
<1>1. {l \in Locks : lock[l] = c} = Holds(c) \cap Locks
  BY Zenon DEF PInv, CpuOK
<1>2. cpu[c].noff = IF Holds(c) = {} THEN 0 ELSE 1
  BY Zenon DEF PInv, CpuOK
<1>3. Holds(c) = {} \/ \E l \in Locks : Holds(c) = {l}
  <2>1. cpu[c].proc \in Procs \cup {0}
    BY DEF PInv, TypeOK, CpuType
  <2> QED  BY <2>1, Names DEF Holds, HeldAt
<1>4. CASE Holds(c) = {}
  BY <1>1, <1>2, <1>4, FS_EmptySet
<1>5. ASSUME NEW l \in Locks, Holds(c) = {l}
      PROVE  cpu[c].noff = Cardinality({m \in Locks : lock[m] = c})
  <2>1. {m \in Locks : lock[m] = c} = {l}
    BY <1>1, <1>5
  <2>2. Cardinality({l}) = 1
    BY FS_Singleton, Zenon
  <2>3. {l} # {}
    OBVIOUS
  <2> QED  BY <1>2, <1>5, <2>1, <2>2, <2>3, Zenon
<1> QED
  BY <1>3, <1>4, <1>5, Zenon

\* Spinlocks are balanced: push_off() and pop_off() count the locks that a CPU
\* holds, no interrupt reaches one that holds a lock or is in a trap handler, and
\* sched() is called with p->lock alone, and the state changed.
THEOREM LocksAlwaysCounted == Spec => []LocksCounted
<1>1. PInv => LocksCounted
  <2> SUFFICES ASSUME PInv
               PROVE  LocksCounted
    OBVIOUS
  <2>1. ASSUME NEW c \in CPUs
        PROVE  /\ cpu[c].noff = Cardinality({l \in Locks : lock[l] = c})
               /\ cpu[c].noff > 0 \/ cpu[c].trap # "none" => ~cpu[c].ie
    <3>1. CpuOK(c)
      BY Zenon DEF PInv
    <3>2. cpu[c].noff > 0 => Holds(c) # {}
      BY <3>1 DEF CpuOK
    <3> QED  BY <3>1, <3>2, HeldCount, Zenon DEF CpuOK
  <2>2. ASSUME NEW c \in CPUs, NEW p \in Procs, On(c, p, "sched")
        PROVE  lock[p] = c /\ cpu[c].noff = 1 /\ proc[p].state # "RUNNING"
    <3>1. cpu[c].proc = p
      BY <2>2, Zenon DEF On
    <3>2. thread[p].pc = "sched"
      BY <2>2, Zenon DEF On
    <3>3. Holds(c) = HeldAt(thread[p].pc, p)
      BY <3>1, OnCpu, Zenon
    <3>4. Holds(c) = {p}
      BY <3>2, <3>3 DEF HeldAt
    <3>5. lock[p] = c /\ cpu[c].noff = 1
      BY <3>4, Names DEF PInv, CpuOK
    <3> QED  BY <3>2, <3>5, Zenon DEF PInv, StateOK
  <2> QED  BY <2>1, <2>2, Zenon DEF LocksCounted
<1> QED
  BY <1>1, ProcInvariant, PTL

\* A process runs on one CPU at a time, and freeproc() frees no entry whose kernel
\* stack a CPU still uses.
THEOREM AlwaysOneStackOneCpu == Spec => []OneStackOneCpu
<1>1. PInv => OneStackOneCpu
  <2> SUFFICES ASSUME PInv
               PROVE  OneStackOneCpu
    OBVIOUS
  <2>1. \A c \in CPUs : RunOK(c)
    BY Zenon DEF PInv
  <2>2. \A c, d \in CPUs : cpu[c].proc # 0 /\ cpu[c].proc = cpu[d].proc => c = d
    BY <2>1, Zenon DEF RunOK
  <2>3. \A c \in CPUs : cpu[c].proc # 0 => proc[cpu[c].proc].state # "UNUSED"
    BY <2>1 DEF RunOK
  <2> QED  BY <2>2, <2>3, Zenon DEF OneStackOneCpu
<1> QED
  BY <1>1, ProcInvariant, PTL

\* No wakeup is lost between exit() and wait(): who sleeps in wait() has a child and
\* none to collect, and the parent of a process is there to wait for it.
THEOREM WakeupsNeverLost == Spec => []NoLostWakeup
<1>1. PInv => NoLostWakeup
  <2> SUFFICES ASSUME PInv
               PROVE  NoLostWakeup
    OBVIOUS
  <2>1. \A p \in Procs : FamilyOK(p)
    BY Zenon DEF PInv
  <2>2. \A p \in Procs : proc[p].state = "SLEEPING" /\ proc[p].chan = p =>
          Kids(p) # {} /\ \A q \in Kids(p) : proc[q].state # "ZOMBIE"
    BY <2>1, Zenon DEF FamilyOK, InWait, MaySleep
  <2>3. \A q \in Procs :
          proc[q].parent # 0 => proc[proc[q].parent].state \notin {"UNUSED", "ZOMBIE"}
    BY <2>1, Zenon DEF FamilyOK
  <2> QED  BY <2>2, <2>3, Zenon DEF NoLostWakeup
<1> QED
  BY <1>1, ProcInvariant, PTL
=============================================================================

------------------------------- MODULE Proc -------------------------------
(***************************************************************************)
(* Processes, the scheduler and interrupts: kernel/proc.c, spinlock.c,     *)
(* trap.c and sysproc.c, with the programs user/init.c and a shell that    *)
(* forks children, waits for them, kills them and exits.                   *)
(*                                                                         *)
(* A step ends where the code acquires a spinlock, or where another CPU or *)
(* an interrupt can tell; every spinlock is explicit.  Files and memory    *)
(* are the subject of other modules.                                       *)
(***************************************************************************)
EXTENDS Integers, FiniteSets, FiniteSetsExt

CONSTANTS
  CPUs,      \* 1 is the one that counts the ticks
  NPROC,
  Sleepers,  \* roles of the programs that call sleep(): "sh", "child"
  MaxSleep   \* bound on the argument of sleep()

ASSUME NamesAssumption == NPROC \in Nat \ {0} /\ 0 \notin CPUs

VARIABLES
  cpu,       \* struct cpu, the interrupt enable bit and the handler it is in
  lock,      \* the CPU that holds each spinlock, or 0
  proc,      \* struct proc
  thread     \* where the kernel thread of each process is

vars == <<cpu, lock, proc, thread>>

Procs == 1 .. NPROC
initproc == 1
wait_lock == 0
tickslock == -1
Locks == Procs \cup {wait_lock, tickslock}

\* Channels: the address of a process, and of ticks.
ticks == 0
LockOf(chan) == IF chan = ticks THEN tickslock ELSE wait_lock

Unused == [state |-> "UNUSED", chan |-> ticks, killed |-> FALSE, parent |-> 0, role |-> "none"]
Idle == [pc |-> "user", intena |-> FALSE, back |-> "none", kid |-> 0, left |-> 0]

-----------------------------------------------------------------------------
(***************************************************************************)
(* Spinlocks.                                                              *)
(***************************************************************************)

push_off(r) == [r EXCEPT !.noff = @ + 1, !.intena = IF r.noff = 0 THEN r.ie ELSE @, !.ie = FALSE]

\* intena means nothing once the depth is back to 0.
pop_off(r) == [r EXCEPT !.noff = @ - 1, !.ie = r.ie \/ (r.noff = 1 /\ r.intena),
                     !.intena = r.noff > 1 /\ @]

Free(l) == lock[l] = 0

\* CPU c, left in the state r by what it did before, acquires or releases l.
acquire(c, l) == Free(l) /\ lock' = [lock EXCEPT ![l] = c] /\ cpu' = [cpu EXCEPT ![c] = push_off(@)]
release(c, l) == lock' = [lock EXCEPT ![l] = 0] /\ cpu' = [cpu EXCEPT ![c] = pop_off(@)]

\* Both, for a lock that no other step sees held.
Through(l) == Free(l) /\ UNCHANGED lock

-----------------------------------------------------------------------------
(***************************************************************************)
(* The scheduler.                                                          *)
(***************************************************************************)

\* The thread of p is what CPU c executes.
On(c, p, pc) == cpu[c].proc = p /\ cpu[c].trap = "none" /\ thread[p].pc = pc

Goto(p, pc) == thread' = [thread EXCEPT ![p].pc = pc]

\* sched() restores intena; forkret(), the first time, does not.
IsNew(p) == thread[p].back = "none" /\ thread[p].pc = "user"

\* Variant: sched() does not restore it.
IntenaOfCpu(p, r) == r.intena

Intena(p, r) == IF IsNew(p) THEN r.intena ELSE thread[p].intena

\* Variant: a process is taken without its lock.
RunnableUnlocked(p) == proc[p].state = "RUNNABLE"

Runnable(p) == Free(p) /\ proc[p].state = "RUNNABLE"

\* scheduler() finds p, switches to it, and p releases its lock: at the end of
\* sleep(), whose caller then looks again at what it slept for; at the end of
\* yield() in a trap; or in forkret(), which goes on to user mode.
scheduler(c, p) ==
  /\ cpu[c].proc = 0 /\ cpu[c].trap = "none"
  /\ Runnable(p)
  /\ LET r == push_off(cpu[c]) IN
     cpu' = [cpu EXCEPT ![c] =
               [pop_off([r EXCEPT !.intena = Intena(p, r)])
                  EXCEPT !.proc = p, !.ie = @ \/ IsNew(p),
                         !.trap = IF thread[p].back = "none" THEN "none" ELSE "ret"]]
  /\ proc' = [proc EXCEPT ![p].state = "RUNNING", ![p].chan = ticks]
  /\ thread' = [thread EXCEPT ![p].back = "none", ![p].intena = FALSE,
                              ![p].pc = IF thread[p].back # "none" THEN thread[p].back
                                        ELSE IF @ # "sched" THEN @
                                        ELSE IF proc[p].chan = ticks THEN "ticking" ELSE "wait"]
  /\ UNCHANGED lock

\* Variant: interrupts stay as the process left them.
intr_onNot(c) == FALSE /\ UNCHANGED vars

\* The first statement of the loop of scheduler().
intr_on(c) ==
  /\ cpu[c].proc = 0 /\ cpu[c].trap = "none" /\ ~cpu[c].ie
  /\ cpu' = [cpu EXCEPT ![c].ie = TRUE]
  /\ UNCHANGED <<lock, proc, thread>>

\* sched() leaves p to the scheduler, which releases p->lock.
sched(c, p) ==
  /\ On(c, p, "sched")
  /\ thread' = [thread EXCEPT ![p].intena = cpu[c].intena]
  /\ cpu' = [cpu EXCEPT ![c] = [pop_off(@) EXCEPT !.proc = 0]]
  /\ lock' = [lock EXCEPT ![p] = 0]
  /\ UNCHANGED proc

-----------------------------------------------------------------------------
(***************************************************************************)
(* sleep() and wakeup().                                                   *)
(***************************************************************************)

\* Variant: lk is released before p->lock is taken.
SleepFrom(c, p, chan) ==
  IF lock[LockOf(chan)] = c
  THEN release(c, LockOf(chan)) /\ UNCHANGED <<proc, thread>>
  ELSE /\ acquire(c, p)
       /\ proc' = [proc EXCEPT ![p].chan = chan, ![p].state = "SLEEPING"]
       /\ Goto(p, "sched")

\* sleep(), up to the call of sched().
Sleep(c, p, chan) ==
  /\ Free(p)
  /\ lock' = [lock EXCEPT ![p] = c, ![LockOf(chan)] = 0]
  /\ cpu' = [cpu EXCEPT ![c] = pop_off(push_off(@))]
  /\ proc' = [proc EXCEPT ![p].chan = chan, ![p].state = "SLEEPING"]
  /\ Goto(p, "sched")

\* wakeup(chan), by the process me, with the lock of the channel held.  The lock
\* of a process that does not sleep on it is waited for in vain; its holder is
\* on its way to the scheduler.
Woken(q, chan) == proc[q].state = "SLEEPING" /\ proc[q].chan = chan
wakeup(pr, me, chans) ==
  [q \in Procs |-> IF q # me /\ \E chan \in chans : Woken(q, chan)
                   THEN [pr[q] EXCEPT !.state = "RUNNABLE"] ELSE pr[q]]
CanWake(me, chans) == \A q \in Procs \ {me} : \A chan \in chans : Woken(q, chan) => Free(q)

-----------------------------------------------------------------------------
(***************************************************************************)
(* Interrupts.                                                             *)
(***************************************************************************)

\* A timer interrupt, in user mode or where the kernel allows it.
timer(c) ==
  /\ cpu[c].trap = "none" /\ cpu[c].ie
  /\ cpu' = [cpu EXCEPT ![c].ie = FALSE, ![c].trap = IF c = 1 THEN "tick" ELSE "yield"]
  /\ UNCHANGED <<lock, proc, thread>>

\* clockintr(): one more tick for every sleeper.
clockintr(c) ==
  /\ cpu[c].trap = "tick"
  /\ Through(tickslock) /\ CanWake(cpu[c].proc, {ticks})
  /\ cpu' = [cpu EXCEPT ![c].trap = "yield"]
  /\ thread' = [p \in Procs |-> [thread[p] EXCEPT !.left = IF @ = 0 THEN 0 ELSE @ - 1]]
  /\ proc' = wakeup(proc, cpu[c].proc, {ticks})

\* The end of usertrap() and kerneltrap() for a timer interrupt: the scheduler is
\* resumed; a killed process exits, if it was in user mode; others yield().
TrapScheduler(c) ==
  /\ cpu[c].trap = "yield" /\ cpu[c].proc = 0
  /\ cpu' = [cpu EXCEPT ![c].trap = "none", ![c].ie = TRUE]
  /\ UNCHANGED <<lock, proc, thread>>

TrapKilled(c, p) ==
  /\ cpu[c].trap = "yield" /\ cpu[c].proc = p
  /\ thread[p].pc = "user" /\ proc[p].killed
  /\ cpu' = [cpu EXCEPT ![c].trap = "none"]
  /\ Goto(p, "exit")
  /\ UNCHANGED <<lock, proc>>

yield(c, p) ==
  /\ cpu[c].trap = "yield" /\ cpu[c].proc = p
  /\ ~(thread[p].pc = "user" /\ proc[p].killed)
  /\ Free(p)
  /\ lock' = [lock EXCEPT ![p] = c]
  /\ cpu' = [cpu EXCEPT ![c] = [push_off(@) EXCEPT !.trap = "none"]]
  /\ proc' = [proc EXCEPT ![p].state = "RUNNABLE"]
  /\ thread' = [thread EXCEPT ![p].back = thread[p].pc, ![p].pc = "sched"]

\* The return from the trap, after yield().
TrapReturn(c) ==
  /\ cpu[c].trap = "ret"
  /\ cpu' = [cpu EXCEPT ![c].trap = "none", ![c].ie = TRUE]
  /\ UNCHANGED <<lock, proc, thread>>

-----------------------------------------------------------------------------
(***************************************************************************)
(* System calls.                                                           *)
(***************************************************************************)

\* usertrap() with a system call, and its end: a killed process exits, another
\* returns to user mode, where interrupts are on.
Ecall(c, p, pc) ==
  /\ On(c, p, "user")
  /\ thread' = [thread EXCEPT ![p].pc = IF proc[p].killed THEN "exit" ELSE pc]
  /\ cpu' = [cpu EXCEPT ![c].ie = ~proc[p].killed]

AfterCall(p) == IF proc[p].killed THEN "exit" ELSE "user"

\* fork(): allocproc() takes an entry; the parent and the state are set after the
\* memory and the files have been copied.  With the table full nothing changes.
\* init starts shells, a shell starts children.
CanFork(p) == \/ proc[p].role = "init" /\ \A q \in Procs : proc[q].role # "sh"
              \/ proc[p].role = "sh"
fork(c, p) ==
  /\ CanFork(p) /\ On(c, p, "user") /\ ~proc[p].killed
  /\ \E q \in Procs :
       /\ proc[q].state = "UNUSED"
       /\ Through(q)
       /\ cpu' = [cpu EXCEPT ![c].ie = TRUE]
       /\ proc' = [proc EXCEPT ![q] = [Unused EXCEPT !.state = "USED",
                     !.role = IF proc[p].role = "init" THEN "sh" ELSE "child"]]
       /\ thread' = [thread EXCEPT ![p].pc = "fork", ![p].kid = q, ![q] = Idle]

forkRest(c, p) ==
  /\ On(c, p, "fork")
  /\ Through(wait_lock) /\ Free(thread[p].kid) /\ UNCHANGED cpu
  /\ proc' = [proc EXCEPT ![thread[p].kid].parent = p, ![thread[p].kid].state = "RUNNABLE"]
  /\ thread' = [thread EXCEPT ![p].pc = AfterCall(p), ![p].kid = 0]

\* exit(): reparent(), the wakeups of init and of the parent, the zombie.
exit(c, p) ==
  /\ proc[p].role # "init"
  /\ Ecall(c, p, "exit")
  /\ UNCHANGED <<lock, proc>>

Kids(p) == {q \in Procs : proc[q].parent = p}

Heir(p) == initproc

exitReparent(c, p) ==
  LET woken == {proc[p].parent} \cup (IF Kids(p) = {} THEN {} ELSE {initproc}) IN
  /\ On(c, p, "exit")
  /\ acquire(c, wait_lock) /\ CanWake(p, woken)
  /\ proc' = [q \in Procs |-> [wakeup(proc, p, woken)[q] EXCEPT !.parent = IF @ = p THEN Heir(p) ELSE @]]
  /\ Goto(p, "zombie")

\* Variant: wait_lock is released before the zombie is made.
exitZombieLate(c, p) ==
  /\ On(c, p, "zombie")
  /\ IF lock[wait_lock] = c
     THEN release(c, wait_lock) /\ UNCHANGED <<proc, thread>>
     ELSE acquire(c, p) /\ proc' = [proc EXCEPT ![p].state = "ZOMBIE"] /\ Goto(p, "sched")

exitZombie(c, p) ==
  /\ On(c, p, "zombie")
  /\ Free(p)
  /\ lock' = [lock EXCEPT ![p] = c, ![wait_lock] = 0]
  /\ cpu' = [cpu EXCEPT ![c] = pop_off(push_off(@))]
  /\ proc' = [proc EXCEPT ![p].state = "ZOMBIE"]
  /\ Goto(p, "sched")

\* wait() is called.
wait(c, p) ==
  /\ ~CanFork(p) \/ proc[p].role = "sh"
  /\ Ecall(c, p, "wait")
  /\ UNCHANGED <<lock, proc>>

\* The loop, entered with or without the lock: it reaps, fails or sleeps.
Zombies(p) == {q \in Kids(p) : proc[q].state = "ZOMBIE"}

\* "make sure the child isn't still in exit() or swtch()"
Reapable(q) == Free(q)

waitReap(c, p) ==
  /\ On(c, p, "wait") /\ Through(wait_lock) /\ Zombies(p) # {}
  /\ LET q == Min(Zombies(p)) IN Reapable(q) /\ proc' = [proc EXCEPT ![q] = Unused]
  /\ Goto(p, AfterCall(p))
  /\ UNCHANGED cpu

waitFails(c, p) ==
  /\ On(c, p, "wait") /\ Through(wait_lock)
  /\ Zombies(p) = {} /\ (Kids(p) = {} \/ proc[p].killed)
  /\ Goto(p, AfterCall(p))
  /\ UNCHANGED <<cpu, proc>>

waitScan(c, p) ==
  /\ On(c, p, "wait")
  /\ Zombies(p) = {} /\ Kids(p) # {} /\ ~proc[p].killed
  /\ acquire(c, wait_lock)
  /\ Goto(p, "waitsleep")
  /\ UNCHANGED proc

waitSleep(c, p) == On(c, p, "waitsleep") /\ Sleep(c, p, p)

\* sleep(n)
sys_sleep(c, p) ==
  /\ proc[p].role \in Sleepers /\ On(c, p, "user") /\ ~proc[p].killed
  /\ Through(tickslock)
  /\ cpu' = [cpu EXCEPT ![c].ie = TRUE]
  /\ \E n \in 1 .. MaxSleep : thread' = [thread EXCEPT ![p].pc = "ticking", ![p].left = n]
  /\ UNCHANGED proc

sleepReturns(c, p) ==
  /\ On(c, p, "ticking") /\ Through(tickslock)
  /\ thread[p].left = 0 \/ proc[p].killed
  /\ thread' = [thread EXCEPT ![p].pc = AfterCall(p), ![p].left = 0]
  /\ UNCHANGED <<cpu, proc>>

sleepTicks(c, p) ==
  /\ On(c, p, "ticking")
  /\ thread[p].left > 0 /\ ~proc[p].killed
  /\ acquire(c, tickslock)
  /\ Goto(p, "ticksleep")
  /\ UNCHANGED proc

ticksSleep(c, p) == On(c, p, "ticksleep") /\ Sleep(c, p, ticks)

\* kill(q): init does not kill, and nobody kills init.
kill(c, p, q) ==
  /\ p # initproc /\ proc[q].role \in {"sh", "child"} /\ ~proc[q].killed
  /\ On(c, p, "user") /\ ~proc[p].killed
  /\ Through(q) /\ UNCHANGED cpu
  /\ proc' = [proc EXCEPT ![q].killed = TRUE,
                          ![q].state = IF @ = "SLEEPING" THEN "RUNNABLE" ELSE @]
  /\ UNCHANGED thread

-----------------------------------------------------------------------------
\* Only init is there, about to run for the first time.
Init ==
  /\ cpu = [c \in CPUs |-> [proc |-> 0, noff |-> 0, intena |-> FALSE, ie |-> FALSE, trap |-> "none"]]
  /\ lock = [l \in Locks |-> 0]
  /\ proc = [p \in Procs |-> IF p = initproc THEN [Unused EXCEPT !.state = "RUNNABLE", !.role = "init"]
                             ELSE Unused]
  /\ thread = [p \in Procs |-> Idle]

\* The steps of system calls.
KernelStep(c, p) ==
  \/ forkRest(c, p)
  \/ exitReparent(c, p) \/ exitZombie(c, p)
  \/ waitReap(c, p) \/ waitFails(c, p) \/ waitScan(c, p) \/ waitSleep(c, p)
  \/ sleepReturns(c, p) \/ sleepTicks(c, p) \/ ticksSleep(c, p)

HandlerStep(c) ==
  \/ clockintr(c) \/ TrapScheduler(c) \/ TrapReturn(c) \/ intr_on(c)
  \/ \E p \in Procs : sched(c, p) \/ yield(c, p) \/ TrapKilled(c, p)

\* The calls of user programs.
UserStep(c, p) ==
  \/ fork(c, p) \/ exit(c, p) \/ wait(c, p) \/ sys_sleep(c, p)
  \/ \E q \in Procs : kill(c, p, q)

Next ==
  \E c \in CPUs :
    \/ timer(c) \/ HandlerStep(c)
    \/ \E p \in Procs : scheduler(c, p) \/ KernelStep(c, p) \/ UserStep(c, p)

Spec == Init /\ [][Next]_vars

\* Every CPU goes on with what it executes; a timer interrupt stays pending until
\* it is taken; the round of the scheduler comes to every process; init makes
\* its calls.
FairSpec ==
  /\ Spec
  /\ \A c \in CPUs : /\ WF_vars(HandlerStep(c))
                     /\ SF_vars(timer(c))
  /\ \A p \in Procs : /\ SF_vars(\E c \in CPUs : KernelStep(c, p))
                      /\ SF_vars(\E c \in CPUs : scheduler(c, p))
  /\ SF_vars(\E c \in CPUs : fork(c, initproc) \/ wait(c, initproc))

-----------------------------------------------------------------------------
(***************************************************************************)
(* Properties.                                                             *)
(***************************************************************************)

\* The depth that push_off() and pop_off() count is the number of spinlocks the
\* CPU holds, and while it holds one no interrupt reaches it.  None reaches a trap
\* handler, which has yet to restore sepc and sstatus, also after yield() has come
\* back on another CPU.  sched() meets none of its panics: it is called with
\* p->lock alone held, and the state changed.
LocksCounted ==
  /\ \A c \in CPUs :
       /\ cpu[c].noff = Cardinality({l \in Locks : lock[l] = c})
       /\ cpu[c].noff > 0 \/ cpu[c].trap # "none" => ~cpu[c].ie
  /\ \A c \in CPUs, p \in Procs : On(c, p, "sched") =>
       lock[p] = c /\ cpu[c].noff = 1 /\ proc[p].state # "RUNNING"

\* A process runs on one CPU at a time; its table entry is free only when its
\* kernel stack is no longer in use.
OneStackOneCpu ==
  /\ \A c, d \in CPUs : cpu[c].proc # 0 /\ cpu[c].proc = cpu[d].proc => c = d
  /\ \A c \in CPUs : cpu[c].proc # 0 => proc[cpu[c].proc].state # "UNUSED"

\* No lost wakeup: while nobody holds wait_lock, a process asleep in wait() has
\* a child, and none of its children is a zombie.  And exit() gives children away
\* in time: the parent of a process is there to wait for it.
NoLostWakeup ==
  /\ Free(wait_lock) =>
       \A p \in Procs : proc[p].state = "SLEEPING" /\ proc[p].chan = p =>
         Kids(p) # {} /\ \A q \in Kids(p) : proc[q].state # "ZOMBIE"
  /\ \A q \in Procs :
       proc[q].parent # 0 => proc[proc[q].parent].state \notin {"UNUSED", "ZOMBIE"}

\* When the shell has exited init reaps it and starts another: exit() wakes the
\* parent, and the wakeup is not lost.
ShellRestarted ==
  \A q \in Procs : proc[q].role = "sh" /\ proc[q].state = "ZOMBIE"
    ~> \E r \in Procs : proc[r].role = "sh" /\ proc[r].state \notin {"ZOMBIE", "UNUSED"}

\* sleep(n) returns, as clock interrupts go on.
SleepReturns ==
  \A p \in Procs : thread[p].pc = "ticking" ~> thread[p].pc \in {"user", "exit"}
=============================================================================

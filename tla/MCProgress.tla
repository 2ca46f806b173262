---------------------------- MODULE MCProgress ----------------------------
(***************************************************************************)
(* The parts of the kernel in which somebody sleeps until somebody else    *)
(* comes, side by side: the scheduler with init and the shell (Proc), the  *)
(* callers of begin_op() (Log), writers of the console (Console).  They    *)
(* share no state, so that a behaviour follows one of them, which kind     *)
(* tells; the others stay in their initial state.                          *)
(***************************************************************************)
EXTENDS Integers, Sequences, TLC

VARIABLES
  kind,
  cpu, lock, proc, thread,
  outstanding, committing, lh, cache, pins, disk, dlog, dhead, pc, wrote, io, panic,
  cons, rd, uart_tx_w, uart_tx_r, uart_tx_buf, wr, rx, busy, sent, irq, handler, typed

procvars == <<cpu, lock, proc, thread>>
logvars == <<outstanding, committing, lh, cache, pins, disk, dlog, dhead, pc, wrote, io, panic>>
consvars == <<cons, rd, uart_tx_w, uart_tx_r, uart_tx_buf, wr, rx, busy, sent, irq, handler, typed>>
vars == <<kind, procvars, logvars, consvars>>

\* One CPU; init, the shell, which may sleep, and a program.
P == INSTANCE Proc WITH CPUs <- {1}, NPROC <- 3, Sleepers <- {"sh"}, MaxSleep <- 1

\* A log with room for one reservation.
L == INSTANCE Log WITH
       Procs <- {1, 2}, Blocks <- {1, 2}, Values <- {0}, NoValue <- -1,
       LOGSIZE <- 4, nlog <- 4, MAXOPBLOCKS <- 2, OpBlocks <- 1

\* Two writers; indexes that wrap, and a ring that fills.
Out == INSTANCE Console WITH
        Readers <- {}, Writers <- {1, 2}, INPUT_BUF <- 2, UintRange <- 8,
        StartIndexes <- {7}, UART_TX_BUF_SIZE <- 2, Plain <- {"a"}, NL <- "nl",
        EOF <- "eof", ERASE <- "erase", KILL <- "kill", ReadSizes <- {},
        WriteSize <- 2, MaxTyped <- 1

Init ==
  /\ kind \in {"proc", "log", "output"}
  /\ P!Init /\ L!Init /\ Out!Init

Next ==
  /\ UNCHANGED kind
  /\ \/ kind = "proc" /\ P!Next /\ UNCHANGED <<logvars, consvars>>
     \/ kind = "log" /\ L!Next /\ UNCHANGED <<procvars, consvars>>
     \/ kind = "output" /\ Out!Next /\ UNCHANGED <<procvars, logvars>>

\* The fairness of each part, as its own module states and explains it.
FairSpec ==
  /\ Init /\ [][Next]_vars
  /\ WF_procvars(kind = "proc" /\ P!HandlerStep(1))
  /\ SF_procvars(kind = "proc" /\ P!timer(1))
  /\ \A p \in 1 .. 3 : /\ SF_procvars(kind = "proc" /\ P!KernelStep(1, p))
                       /\ SF_procvars(kind = "proc" /\ P!scheduler(1, p))
  /\ SF_procvars(kind = "proc" /\ (P!fork(1, 1) \/ P!wait(1, 1)))
  /\ WF_logvars(kind = "log" /\ L!CommitStep)
  /\ \A p \in 1 .. 2 : /\ WF_logvars(kind = "log" /\ L!end_op(p))
                       /\ WF_logvars(kind = "log" /\ L!Finish(p))
                       /\ WF_logvars(kind = "log" /\ pc[p] = "begin" /\ L!begin_op(p))
                       /\ WF_consvars(kind = "output" /\ Out!uartputc(p))
  /\ WF_consvars(kind = "output" /\ Out!InterruptStep)
  /\ WF_consvars(kind = "output" /\ Out!transmitted)

-----------------------------------------------------------------------------
\* Every shell that exits is replaced (Proc).
ShellRestarted == kind = "proc" => P!ShellRestarted
\* sleep(n) returns (Proc).
SleepReturns == kind = "proc" => P!SleepReturns

\* A process asleep in begin_op() is woken (Log).
SleeperWakes == kind = "log" => L!SleeperWakes

\* All that is written is sent, in order (Console).
AllSent == kind = "output" => Out!AllSent
=============================================================================

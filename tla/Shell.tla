------------------------------- MODULE Shell -------------------------------
(***************************************************************************)
(* The shell (user/sh.c) running a command: runcmd() with fork(), exit()   *)
(* and wait() as far as descriptors go, over the kernel calls of Files.    *)
(*                                                                         *)
(* A process has a script: the system calls it still has to make.          *)
(* runcmd(cmd) never returns, so it is the script of the process that      *)
(* calls it; the scripts of the children are arguments of fork.            *)
(***************************************************************************)
EXTENDS Files

CONSTANTS
  Commands,    \* parsed commands the user may type
  MaxKills     \* bound on kill()

VARIABLES
  pstate,      \* "UNUSED", "RUNNING" or "ZOMBIE"
  parent,      \* p->parent
  script,      \* system calls still to be made
  pfd,         \* the array p[2] of runcmd()
  kills        \* kill() calls so far

user == <<pstate, parent, script, pfd, kills>>
vars == <<kernel, user>>

init == 1      \* the process that adopts orphans
sh == 2        \* the shell

-----------------------------------------------------------------------------
(***************************************************************************)
(* runcmd().  A command is a record with a type as in sh.c; a program run  *)
(* by EXEC is its script: it reads or writes and exits.                    *)
(***************************************************************************)
p0 == -1   \* p[0] and p[1], whose values are known at run time
p1 == -2
Close(which) == [op |-> "close", fd |-> which]
Dup(which) == [op |-> "dup", fd |-> which]
Fork(child) == [op |-> "fork", child |-> child]
Wait == [op |-> "wait"]
Exit == [op |-> "exit"]
Pipe == [op |-> "pipe"]

RECURSIVE runcmd(_)

\* Variant: the right-hand child keeps the write end of its own pipe.
PipeScriptLeaky(left, right) ==
  <<Pipe,
    Fork(<<Close(1), Dup(p1), Close(p0), Close(p1)>> \o left),
    Fork(<<Close(0), Dup(p0), Close(p0)>> \o right),
    Close(p0), Close(p1), Wait, Wait, Exit>>

\* The case PIPE.
PipeScript(left, right) ==
  <<Pipe,
    Fork(<<Close(1), Dup(p1), Close(p0), Close(p1)>> \o left),
    Fork(<<Close(0), Dup(p0), Close(p0), Close(p1)>> \o right),
    Close(p0), Close(p1), Wait, Wait, Exit>>

runcmd(cmd) ==
  CASE cmd.type = "EXEC" -> cmd.program
    [] cmd.type = "REDIR" -> <<Close(cmd.fd), [op |-> "open"]>> \o runcmd(cmd.cmd)
    [] cmd.type = "LIST" -> <<Fork(runcmd(cmd.left)), Wait>> \o runcmd(cmd.right)
    [] cmd.type = "PIPE" -> PipeScript(runcmd(cmd.left), runcmd(cmd.right))
    [] cmd.type = "BACK" -> <<Fork(runcmd(cmd.cmd)), Exit>>

\* The loop of main() for one line.
Line(cmd) == <<Fork(runcmd(cmd)), Wait>>

-----------------------------------------------------------------------------
(***************************************************************************)
(* Processes.                                                              *)
(***************************************************************************)
console == 1
Unused == {p \in Procs : pstate[p] = "UNUSED"}
Children(p) == {c \in Procs : pstate[c] # "UNUSED" /\ parent[c] = p}
Zombies(p) == {c \in Children(p) : pstate[c] = "ZOMBIE"}

\* p is in user mode and its next system call is op.
Calls(p, op) ==
  /\ pstate[p] = "RUNNING" /\ call[p] = Idle
  /\ script[p] # <<>> /\ script[p][1].op = op
  /\ ~killed[p] \/ op = "exit"
Advance(p) == script' = [script EXCEPT ![p] = Tail(@)]
\* A failure that ends the program: panic() of sh.c.
GiveUp(p) == script' = [script EXCEPT ![p] = <<Exit>>]

\* A descriptor number, or one of p[0] and p[1].
FdOf(p, which) == IF which < 0 THEN pfd[p][-which] ELSE which

DoClose(p) ==
  /\ Calls(p, "close")
  /\ sys_close(p, FdOf(p, script[p][1].fd))
  /\ Advance(p) /\ UNCHANGED <<pstate, parent, pfd, kills>>

DoDup(p) ==
  /\ Calls(p, "dup")
  /\ sys_dup(p, FdOf(p, script[p][1].fd))
  /\ Advance(p) /\ UNCHANGED <<pstate, parent, pfd, kills>>

\* open() of a redirection gets the lowest descriptor and a new file, or fails.
DoOpen(p) ==
  /\ Calls(p, "open")
  /\ IF FreeFiles = {} \/ FreeFds(p) = {}
     THEN GiveUp(p) /\ UNCHANGED <<ftable, ofile>>
     ELSE /\ ofile' = [ofile EXCEPT ![p][Min(FreeFds(p))] = Min(FreeFiles)]
          /\ ftable' = [ftable EXCEPT ![Min(FreeFiles)] =
                          [NewFile EXCEPT !.ref = 1, !.type = "FD_DEVICE"]]
          /\ Advance(p)
  /\ UNCHANGED <<pipe, call, ret, killed, pstate, parent, pfd, kills>>

DoPipe(p) ==
  /\ Calls(p, "pipe")
  /\ sys_pipe(p)
  /\ UNCHANGED user

\* p[] is filled in, or panic("pipe") after pipe() has given back what it took.
PipeMade(p) ==
  /\ pipe_rest(p)
  /\ IF call'[p] # Idle THEN GiveUp(p) /\ UNCHANGED pfd
     ELSE /\ Advance(p)
          /\ pfd' = [pfd EXCEPT ![p] =
                LET fd0 == Min(FreeFds(p)) IN <<fd0, Min(FreeFds(p) \ {fd0})>>]
  /\ UNCHANGED <<pstate, parent, kills>>

\* fork1().
DoFork(p) ==
  /\ Calls(p, "fork")
  /\ IF Unused = {}
     THEN GiveUp(p) /\ UNCHANGED <<ftable, ofile, pstate, parent, pfd>>
     ELSE LET np == Min(Unused) IN
          /\ DupAll(p, np)
          /\ pstate' = [pstate EXCEPT ![np] = "RUNNING"]
          /\ parent' = [parent EXCEPT ![np] = p]
          /\ pfd' = [pfd EXCEPT ![np] = pfd[p]]
          /\ script' = [script EXCEPT ![p] = Tail(@), ![np] = script[p][1].child]
  /\ UNCHANGED <<pipe, call, ret, killed, kills>>

\* wait(): a zombie child goes away; without children it returns at once.
DoWait(p) ==
  /\ Calls(p, "wait")
  /\ \/ /\ Children(p) = {} /\ UNCHANGED <<pstate, killed>>
     \/ \E c \in Zombies(p) : /\ pstate' = [pstate EXCEPT ![c] = "UNUSED"]
                              /\ killed' = [killed EXCEPT ![c] = FALSE]
  /\ Advance(p)
  /\ UNCHANGED <<ftable, ofile, pipe, call, ret, parent, pfd, kills>>

\* init waits for ever, so orphans do not stay zombies.
InitReaps ==
  /\ \E c \in Zombies(init) : /\ pstate' = [pstate EXCEPT ![c] = "UNUSED"]
                              /\ killed' = [killed EXCEPT ![c] = FALSE]
  /\ UNCHANGED <<ftable, ofile, pipe, call, ret, parent, script, pfd, kills>>

\* A program goes on reading until it gets 0 or an error, or only once; it
\* stops when a write fails.
AfterRead(p) ==
  CASE call'[p] # Idle -> UNCHANGED script
    [] call'[p] = Idle /\ ret'[p] = -1 -> GiveUp(p)
    [] call'[p] = Idle /\ ret'[p] > 0 /\ ~script[p][1].once -> UNCHANGED script
    [] OTHER -> Advance(p)
AfterWrite(p) ==
  CASE call'[p] # Idle -> UNCHANGED script
    [] call'[p] = Idle /\ ret'[p] = Len(script[p][1].buf) -> Advance(p)
    [] OTHER -> GiveUp(p)

DoRead(p) ==
  /\ Calls(p, "read")
  /\ sys_rw(p, "read", 0, <<>>, script[p][1].n)
  /\ AfterRead(p) /\ UNCHANGED <<pstate, parent, pfd, kills>>

ReadSome(p) ==
  /\ piperead(p)
  /\ AfterRead(p) /\ UNCHANGED <<pstate, parent, pfd, kills>>

DoWrite(p) ==
  /\ Calls(p, "write")
  /\ sys_rw(p, "write", 1, script[p][1].buf, Len(script[p][1].buf))
  /\ AfterWrite(p) /\ UNCHANGED <<pstate, parent, pfd, kills>>

WriteSome(p) ==
  /\ pipewrite(p)
  /\ AfterWrite(p) /\ UNCHANGED <<pstate, parent, pfd, kills>>

\* exit(), entered by the program or because the process was killed.
DoExit(p) ==
  /\ p # sh /\ pstate[p] = "RUNNING" /\ call[p] = Idle
  /\ killed[p] \/ Calls(p, "exit")
  /\ call' = [call EXCEPT ![p] = [op |-> "exit"]]
  /\ UNCHANGED <<ftable, ofile, pipe, ret, killed, user>>

PipeUndo(p) == pipe_undo(p) /\ UNCHANGED user
ExitClose(p) == exit_close(p) /\ UNCHANGED user
PipeClose(p) == pipeclose(p) /\ UNCHANGED user

\* The end of exit(): children go to init, the process waits to be reaped.
Zombie(p) ==
  /\ pstate[p] = "RUNNING" /\ call[p].op = "exit" /\ FreeFds(p) = Fds
  /\ pstate' = [pstate EXCEPT ![p] = "ZOMBIE"]
  /\ parent' = [c \in Procs |-> IF parent[c] = p THEN init ELSE parent[c]]
  /\ script' = [script EXCEPT ![p] = <<>>]
  /\ call' = [call EXCEPT ![p] = Idle]
  /\ UNCHANGED <<ftable, ofile, pipe, ret, killed, pfd, kills>>

DoKill(p) ==
  /\ kills < MaxKills /\ p \notin {init, sh} /\ pstate[p] = "RUNNING"
  /\ kill(p)
  /\ kills' = kills + 1
  /\ UNCHANGED <<pstate, parent, script, pfd>>

\* The same in the middle of a write.
WriteKilled(p) ==
  /\ kills < MaxKills
  /\ pipewrite_killed(p)
  /\ kills' = kills + 1
  /\ AfterWrite(p) /\ UNCHANGED <<pstate, parent, pfd>>
-----------------------------------------------------------------------------
Init ==
  /\ ftable = [f \in FileSet |-> IF f = console
                 THEN [NewFile EXCEPT !.ref = 6, !.type = "FD_DEVICE"] ELSE NewFile]
  /\ ofile = [p \in Procs |-> [fd \in Fds |-> IF p \in {init, sh} /\ fd < 3 THEN console ELSE 0]]
  /\ pipe = [q \in Pipes |-> NoRing]
  /\ call = [p \in Procs |-> Idle]
  /\ ret = [p \in Procs |-> 0]
  /\ killed = [p \in Procs |-> FALSE]
  /\ pstate = [p \in Procs |-> IF p \in {init, sh} THEN "RUNNING" ELSE "UNUSED"]
  /\ parent = [p \in Procs |-> init]
  /\ \E cmd \in Commands : script = [p \in Procs |-> IF p = sh THEN Line(cmd) ELSE <<>>]
  /\ pfd = [p \in Procs |-> <<>>]
  /\ kills = 0

\* What p does by itself.
Step(p) ==
  \/ DoClose(p) \/ DoDup(p) \/ DoOpen(p) \/ DoPipe(p) \/ PipeMade(p) \/ PipeUndo(p)
  \/ DoFork(p) \/ DoWait(p) \/ DoRead(p) \/ ReadSome(p) \/ DoWrite(p) \/ WriteSome(p)
  \/ DoExit(p) \/ ExitClose(p) \/ PipeClose(p) \/ Zombie(p)

Next == \/ \E p \in Procs : Step(p) \/ DoKill(p) \/ WriteKilled(p)
        \/ InitReaps

Spec == Init /\ [][Next]_vars

\* scheduler() goes round all processes, so each of them goes on.
FairSpec == Spec /\ WF_vars(InitReaps) /\ \A p \in Procs \ {init} : WF_vars(Step(p))
-----------------------------------------------------------------------------
(***************************************************************************)
(* Properties.                                                             *)
(***************************************************************************)

\* The count of an entry of the file table is the number of descriptors that
\* refer to it, plus one while pipe() holds it, before it succeeds or while it
\* gives its files back: no file is closed under a
\* process that has it open, and none is left over.  An end of a pipe is open as
\* long as a file or a pipeclose() on its way stands for it, and the page of the
\* pipe lives as long as an end is open: pipeclose() frees it once, and no read
\* or write sleeps on a freed page.
Ends(q, writable) ==
  Cardinality({f \in FileSet : /\ ftable[f].type = "FD_PIPE" /\ ftable[f].pipe = q
                               /\ ftable[f].writable = writable})
  + Cardinality({p \in Procs : /\ call[p].op = "pipeclose" /\ call[p].pipe = q
                               /\ call[p].writable = writable})
PipeHolds(p) ==
  CASE call[p].op = "pipe" -> {call[p].file}
    [] call[p].op = "pipe_undo" -> ToSet(call[p].files)
    [] call[p].op = "pipeclose" /\ call[p].next.op = "pipe_undo" -> ToSet(call[p].next.files)
    [] OTHER -> {}
FilesCounted ==
  /\ \A f \in FileSet :
       ftable[f].ref = Cardinality({x \in Procs \X Fds : ofile[x[1]][x[2]] = f})
                       + Cardinality({p \in Procs : f \in PipeHolds(p)})
  /\ \A q \in Pipes :
       /\ Ends(q, TRUE) = IF pipe[q].writeopen THEN 1 ELSE 0
       /\ Ends(q, FALSE) = IF pipe[q].readopen THEN 1 ELSE 0
       /\ pipe[q].live = (pipe[q].readopen \/ pipe[q].writeopen)
       /\ \A p \in Procs : call[p].op \in {"read", "write"} /\ call[p].pipe = q => pipe[q].live

\* A reader that takes nothing and sees the end of the data (read() returns 0)
\* does so only when no process can write to the pipe any more.
EofIsFinal ==
  [][\A p \in Procs :
       call[p].op = "read" /\ call'[p] = Idle /\ ret'[p] = 0 /\ pipe' = pipe =>
         \A w \in Procs, fd \in Fds :
           ~ /\ ofile[w][fd] # 0 /\ ftable[ofile[w][fd]].writable
             /\ ftable[ofile[w][fd]].pipe = call[p].pipe]_vars

\* The ring of a pipe implements a queue of bytes: what the writers have in their
\* buffers goes in, and nothing is lost, changed, repeated or reordered between
\* pipewrite() and piperead(), whatever the counters wrap to.
Stream == INSTANCE ByteStream WITH
  queue <- [q \in Pipes |-> Contents(pipe[q])],
  open <- [q \in Pipes |-> (IF pipe[q].readopen THEN {"read"} ELSE {})
                           \cup (IF pipe[q].writeopen THEN {"write"} ELSE {})],
  offered <- [q \in Pipes |-> {call[p].buf : p \in {w \in Procs : call[w].op = "write"
                                                                /\ call[w].pipe = q}}]
PipeIsStream == Stream!Spec

\* Whatever the user types and whoever is killed: the shell prompts again, and
\* in the end no other process, no pipe and no descriptor of the command is left.
BackAtPrompt ==
  <>[](/\ script[sh] = <<>>
       /\ \A p \in Procs \ {init, sh} : pstate[p] = "UNUSED"
       /\ \A q \in Pipes : ~pipe[q].live
       /\ FreeFiles = FileSet \ {console})
=============================================================================

------------------------------- MODULE Files -------------------------------
(***************************************************************************)
(* The file table and the descriptors of processes (kernel/file.c and the  *)
(* descriptor calls of kernel/sysfile.c), with pipes (kernel/pipe.c).      *)
(*                                                                         *)
(* What happens under ftable.lock, or under the lock of a pipe up to a     *)
(* sleep or the release, is one step; sleep() and wakeup() are those of    *)
(* Proc.  Files on disk are in Fs: here a file is a pipe end or a device.  *)
(***************************************************************************)
EXTENDS Integers, Sequences, FiniteSets, FiniteSetsExt, SequencesExt

CONSTANTS
  Procs,       \* process table slots
  NFILE,       \* entries of the file table
  NOFILE,      \* descriptors of a process
  Pipes,       \* pages that kalloc() may return for a pipe
  PIPESIZE,    \* bytes in a pipe
  UintRange    \* values of the counters nread and nwrite, which wrap around

ASSUME FilesAssumption ==
  /\ NFILE \in Nat \ {0} /\ NOFILE \in Nat \ {0} /\ PIPESIZE \in Nat \ {0}
  /\ UintRange \in Nat /\ UintRange > PIPESIZE /\ UintRange % PIPESIZE = 0

VARIABLES
  ftable,      \* ftable.file[]
  ofile,       \* p->ofile[]; 0 is a null pointer
  pipe,        \* the pipes
  call,        \* the system call a process is in
  ret,         \* the result of its last system call
  killed       \* p->killed

kernel == <<ftable, ofile, pipe, call, ret, killed>>

FileSet == 1 .. NFILE
Fds == 0 .. NOFILE - 1
NoPipe == 0
Idle == [op |-> "none"]

NewFile == [ref |-> 0, type |-> "FD_NONE", pipe |-> NoPipe, writable |-> FALSE]
NoRing == [live |-> FALSE, data |-> [i \in 0 .. PIPESIZE - 1 |-> 0], nread |-> 0,
           nwrite |-> 0, readopen |-> FALSE, writeopen |-> FALSE]

\* The end of a system call.
Return(p, value) ==
  /\ call' = [call EXCEPT ![p] = Idle]
  /\ ret' = [ret EXCEPT ![p] = value]

-----------------------------------------------------------------------------
(***************************************************************************)
(* The file table.                                                         *)
(***************************************************************************)
FreeFiles == {f \in FileSet : ftable[f].ref = 0}
FreeFds(p) == {fd \in Fds : ofile[p][fd] = 0}

\* Variant: the count is lowered only when the file goes away.
ClosedKept(f) ==
  IF ftable[f].ref > 1 THEN ftable ELSE [ftable EXCEPT ![f] = NewFile]

\* The table after fileclose().
Closed(f) ==
  IF ftable[f].ref > 1 THEN [ftable EXCEPT ![f].ref = @ - 1]
  ELSE [ftable EXCEPT ![f] = NewFile]

\* fileclose() up to pipeclose(): the last reference takes the pipe end along.  The
\* caller goes on at next, or returns value there.
fileclose(p, f, next, value) ==
  /\ ftable' = Closed(f)
  /\ IF ftable[f].ref = 1 /\ ftable[f].type = "FD_PIPE"
     THEN /\ call' = [call EXCEPT ![p] =
                        [op |-> "pipeclose", pipe |-> ftable[f].pipe,
                         writable |-> ftable[f].writable, next |-> next, value |-> value]]
          /\ UNCHANGED ret
     ELSE /\ call' = [call EXCEPT ![p] = next]
          /\ ret' = [ret EXCEPT ![p] = value]

sys_close(p, fd) ==
  /\ call[p] = Idle
  /\ IF ofile[p][fd] = 0
     THEN Return(p, -1) /\ UNCHANGED <<ftable, ofile>>
     ELSE /\ ofile' = [ofile EXCEPT ![p][fd] = 0]
          /\ fileclose(p, ofile[p][fd], Idle, 0)
  /\ UNCHANGED <<pipe, killed>>

\* filedup().
Duped(f) == [ftable EXCEPT ![f].ref = @ + 1]

sys_dup(p, fd) ==
  /\ call[p] = Idle
  /\ IF ofile[p][fd] = 0 \/ FreeFds(p) = {}
     THEN Return(p, -1) /\ UNCHANGED <<ftable, ofile>>
     ELSE LET new == Min(FreeFds(p)) IN
          /\ ofile' = [ofile EXCEPT ![p][new] = ofile[p][fd]]
          /\ ftable' = Duped(ofile[p][fd])
          /\ Return(p, new)
  /\ UNCHANGED <<pipe, killed>>

\* The descriptors of fork(): every open file of p gains a reference.
DupAll(p, np) ==
  /\ ofile' = [ofile EXCEPT ![np] = ofile[p]]
  /\ ftable' = [f \in FileSet |-> [ftable[f] EXCEPT !.ref =
                  @ + Cardinality({fd \in Fds : ofile[p][fd] = f})]]

\* The loop of exit() over the open files, one file per step.
exit_close(p) ==
  /\ call[p].op = "exit" /\ FreeFds(p) # Fds
  /\ LET fd == Min(Fds \ FreeFds(p)) IN
       /\ ofile' = [ofile EXCEPT ![p][fd] = 0]
       /\ fileclose(p, ofile[p][fd], call[p], 0)
  /\ UNCHANGED <<pipe, killed>>

-----------------------------------------------------------------------------
(***************************************************************************)
(* Pipes.                                                                  *)
(***************************************************************************)

\* pipealloc() up to its second filealloc(): others may take files meanwhile.
sys_pipe(p) ==
  /\ call[p] = Idle
  /\ IF FreeFiles = {}
     THEN Return(p, -1) /\ UNCHANGED ftable
     ELSE /\ ftable' = [ftable EXCEPT ![Min(FreeFiles)].ref = 1]
          /\ call' = [call EXCEPT ![p] = [op |-> "pipe", file |-> Min(FreeFiles)]]
          /\ UNCHANGED ret
  /\ UNCHANGED <<ofile, pipe, killed>>

\* pipe() has failed and has these files to close.
Undo(files) == [op |-> "pipe_undo", files |-> files]

\* The second filealloc() of pipealloc() finds no entry.
pipe_nofile(p) ==
  /\ call[p].op = "pipe" /\ FreeFiles = {}
  /\ call' = [call EXCEPT ![p] = Undo(<<call[p].file>>)]
  /\ UNCHANGED <<ftable, ofile, pipe, ret, killed>>

\* kalloc() finds no page for the pipe: both entries are taken and have no type.
pipe_nomem(p) ==
  /\ call[p].op = "pipe" /\ FreeFiles # {}
  /\ ftable' = [ftable EXCEPT ![Min(FreeFiles)].ref = 1]
  /\ call' = [call EXCEPT ![p] = Undo(<<call[p].file, Min(FreeFiles)>>)]
  /\ UNCHANGED <<ofile, pipe, ret, killed>>

\* pipealloc() succeeds.  sys_pipe() gives both ends a descriptor and copies the two
\* numbers to the user; without two descriptors, or when a copy fails, it clears the
\* descriptors again and has both ends to close.
pipe_made(p) ==
  /\ call[p].op = "pipe" /\ FreeFiles # {}
  /\ \E q \in {x \in Pipes : ~pipe[x].live} :
       LET rf == call[p].file
           wf == Min(FreeFiles)
           fd0 == Min(FreeFds(p))
           fd1 == Min(FreeFds(p) \ {fd0})
       IN /\ pipe' = [pipe EXCEPT ![q] = [NoRing EXCEPT !.live = TRUE, !.readopen = TRUE,
                                                        !.writeopen = TRUE]]
          /\ ftable' = [ftable EXCEPT
               ![rf] = [ref |-> 1, type |-> "FD_PIPE", pipe |-> q, writable |-> FALSE],
               ![wf] = [ref |-> 1, type |-> "FD_PIPE", pipe |-> q, writable |-> TRUE]]
          /\ \/ /\ Cardinality(FreeFds(p)) >= 2
                /\ ofile' = [ofile EXCEPT ![p][fd0] = rf, ![p][fd1] = wf]
                /\ Return(p, 0)
             \/ /\ call' = [call EXCEPT ![p] = Undo(<<rf, wf>>)]
                /\ UNCHANGED <<ofile, ret>>
  /\ UNCHANGED killed

pipe_rest(p) == pipe_nofile(p) \/ pipe_nomem(p) \/ pipe_made(p)

\* The next fileclose() of a pipe() that fails.
pipe_undo(p) ==
  /\ call[p].op = "pipe_undo"
  /\ LET left == Tail(call[p].files)
     IN fileclose(p, Head(call[p].files), IF left = <<>> THEN Idle ELSE Undo(left), -1)
  /\ UNCHANGED <<ofile, pipe, killed>>

\* wakeup(&pi->nread) or wakeup(&pi->nwrite).
Woken(f, q, chan) ==
  [p \in Procs |-> IF f[p].op \in {"read", "write"} /\ f[p].pipe = q /\ f[p].asleep = chan
                   THEN [f[p] EXCEPT !.asleep = "no"] ELSE f[p]]

\* Closing an end wakes those who wait for it.
WokenByClose(f, q, writable) == Woken(f, q, IF writable THEN "nread" ELSE "nwrite")

\* The page is freed with the second end.
ClosedRing(r) == IF r.readopen \/ r.writeopen THEN r ELSE NoRing

pipeclose(p) ==
  /\ call[p].op = "pipeclose"
  /\ LET q == call[p].pipe
         shut == IF call[p].writable THEN [pipe[q] EXCEPT !.writeopen = FALSE]
                 ELSE [pipe[q] EXCEPT !.readopen = FALSE]
     IN /\ pipe' = [pipe EXCEPT ![q] = ClosedRing(shut)]
        /\ call' = WokenByClose([call EXCEPT ![p] = call[p].next], q, call[p].writable)
  /\ ret' = [ret EXCEPT ![p] = call[p].value]
  /\ UNCHANGED <<ftable, ofile, killed>>

Count(r) == (r.nwrite - r.nread) % UintRange
\* The bytes from position i on, oldest first.
Contents(r) == [i \in 1 .. Count(r) |-> r.data[(r.nread + i - 1) % PIPESIZE]]

\* Variant: the pipe takes a byte more than it has room for.
FullLate(r) == r.nwrite = (r.nread + PIPESIZE + 1) % UintRange

\* pi->nwrite == pi->nread + PIPESIZE
Full(r) == r.nwrite = (r.nread + PIPESIZE) % UintRange

\* One byte of pipewrite().
Push(r, ch) == [r EXCEPT !.data[r.nwrite % PIPESIZE] = ch,
                         !.nwrite = (@ + 1) % UintRange]

\* The loop of pipewrite() over bytes, and whether it gets through them all.
PushAll(r, buf) == FoldLeft(Push, r, buf)
Fits(r, buf) == \A k \in 0 .. Len(buf) - 1 : ~Full(PushAll(r, SubSeq(buf, 1, k)))

\* write() on a pipe, from the top or from sleep().  copyin() may fail at any
\* byte; what was written before stays written.
pipewrite(p) ==
  /\ call[p].op = "write" /\ call[p].asleep = "no"
  /\ LET q == call[p].pipe IN
     IF call[p].buf # <<>> /\ (~pipe[q].readopen \/ killed[p])
     THEN Return(p, -1) /\ UNCHANGED pipe
     ELSE \E m \in 0 .. Len(call[p].buf) :
            LET done == SubSeq(call[p].buf, 1, m)
                left == SubSeq(call[p].buf, m + 1, Len(call[p].buf))
            IN /\ Fits(pipe[q], done)
               /\ pipe' = [pipe EXCEPT ![q] = PushAll(@, done)]
               /\ IF left # <<>> /\ Full(PushAll(pipe[q], done))
                  THEN /\ call' = [Woken(call, q, "nread") EXCEPT ![p] =
                                     [call[p] EXCEPT !.buf = left, !.asleep = "nwrite"]]
                       /\ UNCHANGED ret
                  ELSE /\ call' = [Woken(call, q, "nread") EXCEPT ![p] = Idle]
                       /\ ret' = [ret EXCEPT ![p] = call[p].n - Len(left)]
  /\ UNCHANGED <<ftable, ofile, killed>>

\* Variant: a reader takes an empty pipe for the end of the data.
AwaitsDataNot(r) == FALSE

AwaitsData(r) == Count(r) = 0 /\ r.writeopen

\* read() on a pipe.  copyout() may fail at any byte, which is then gone.
piperead(p) ==
  /\ call[p].op = "read" /\ call[p].asleep = "no"
  /\ LET q == call[p].pipe
         most == Min({call[p].n, Count(pipe[q])})
     IN IF AwaitsData(pipe[q])
        THEN /\ IF killed[p] THEN Return(p, -1)
                ELSE call' = [call EXCEPT ![p].asleep = "nread"] /\ UNCHANGED ret
             /\ UNCHANGED pipe
        ELSE \E m \in 0 .. most : \E lost \in {0, 1} :
               /\ (m = most /\ lost = 0) \/ (m < most /\ lost = 1)
               /\ pipe' = [pipe EXCEPT ![q].nread = (@ + m + lost) % UintRange]
               /\ call' = [Woken(call, q, "nwrite") EXCEPT ![p] = Idle]
               /\ ret' = [ret EXCEPT ![p] = m]
  /\ UNCHANGED <<ftable, ofile, killed>>

\* sys_read(), sys_write() up to the pipe; fileread() and filewrite() refuse the
\* wrong end.  Anything but a pipe answers at once here.
sys_rw(p, op, fd, buf, n) ==
  /\ call[p] = Idle
  /\ LET file == ftable[ofile[p][fd]] IN
     IF ofile[p][fd] = 0 \/ (file.type = "FD_PIPE" /\ file.writable # (op = "write"))
     THEN Return(p, -1)
     ELSE IF file.type = "FD_DEVICE" THEN Return(p, IF op = "read" THEN 0 ELSE n)
     ELSE /\ call' = [call EXCEPT ![p] =
                        [op |-> op, pipe |-> file.pipe, buf |-> buf, n |-> n, asleep |-> "no"]]
          /\ UNCHANGED ret
  /\ UNCHANGED <<ftable, ofile, pipe, killed>>

\* kill() may come while the victim is in the loop of pipewrite(): what it has
\* written stays, and it returns without waking the readers.
pipewrite_killed(p) ==
  /\ call[p].op = "write" /\ call[p].asleep = "no" /\ ~killed[p]
  /\ LET q == call[p].pipe IN
     /\ pipe[q].readopen
     /\ \E m \in 1 .. Len(call[p].buf) - 1 :
          /\ Fits(pipe[q], SubSeq(call[p].buf, 1, m))
          /\ pipe' = [pipe EXCEPT ![q] = PushAll(@, SubSeq(call[p].buf, 1, m))]
  /\ killed' = [killed EXCEPT ![p] = TRUE]
  /\ Return(p, -1)
  /\ UNCHANGED <<ftable, ofile>>

\* kill(): the victim is woken, whatever it sleeps on.
kill(p) ==
  /\ ~killed[p]
  /\ killed' = [killed EXCEPT ![p] = TRUE]
  /\ call' = [call EXCEPT ![p] = IF "asleep" \in DOMAIN @ THEN [@ EXCEPT !.asleep = "no"] ELSE @]
  /\ UNCHANGED <<ftable, ofile, pipe, ret>>
=============================================================================

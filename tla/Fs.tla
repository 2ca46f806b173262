--------------------------------- MODULE Fs ---------------------------------
(***************************************************************************)
(* Inodes, directories and path names (kernel/fs.c) and the system calls   *)
(* that use them (kernel/sysfile.c), with the swap files of processes.     *)
(*                                                                         *)
(* A call runs from one ilock() to the next in one step: what it does in   *)
(* between needs the inode locks it holds, or itable.lock for a moment.    *)
(* iput() steps are apart, since an inode may be freed in them.  Contents  *)
(* of files are in FileBlocks, transactions and crashes in Log.            *)
(***************************************************************************)
EXTENDS Integers, Sequences, FiniteSets, FiniteSetsExt, TLC

CONSTANTS
  Procs,
  Inums,       \* inodes of the disk; 1 is the root directory
  Names,       \* names in directories, apart from "." and ".."
  SwapName,    \* the name itoa() makes for the swap file of a process
  DirName, FileName,   \* what the root directory has in it at first
  Calls,       \* system calls that processes may make
  MaxCalls     \* bound on the number of calls

VARIABLES
  dinode,      \* type and nlink of the inodes on disk; type 0 is a free one
  dents,       \* entries of directories: name to inode, 0 for none
  itable,      \* the in-memory inodes
  cwd, ofile, swapFile,   \* of each process; 0 is a null pointer
  call,        \* the system call a process is in
  calls,       \* calls so far
  panicked     \* the message of a panic

vars == <<dinode, dents, itable, cwd, ofile, swapFile, call, calls, panicked>>

Empty == [n \in Names \cup {".."} |-> 0]
Unlocked == 0
NoCall == [sys |-> "none"]

-----------------------------------------------------------------------------
(***************************************************************************)
(* In-memory inodes.  The operators return the new itable.                 *)
(***************************************************************************)
NoInode == [ref |-> 0, valid |-> FALSE, lock |-> Unlocked, type |-> "0", nlink |-> 0]

iget(it, i) ==
  IF it[i].ref > 0 THEN [it EXCEPT ![i].ref = @ + 1]
  ELSE [it EXCEPT ![i] = [NoInode EXCEPT !.ref = 1]]

\* Variant: the reference is not counted.
idupNot(it, i) == it

idup(it, i) == [it EXCEPT ![i].ref = @ + 1]

\* The inode once ilock() has it: read from disk if necessary.
Loaded(i) ==
  IF itable[i].valid THEN itable[i]
  ELSE [itable[i] EXCEPT !.valid = TRUE, !.type = dinode[i].type, !.nlink = dinode[i].nlink]

\* p may lock i, and what the table is then.
CanLock(i) == itable[i].lock = Unlocked
Locked(p, i) == [itable EXCEPT ![i] = [Loaded(i) EXCEPT !.lock = p]]
iunlock(it, i) == [it EXCEPT ![i].lock = Unlocked]

\* iupdate().
Updated(d, it, i) == [d EXCEPT ![i] = [type |-> it[i].type, nlink |-> it[i].nlink]]

Links(it, i, n) == [it EXCEPT ![i].nlink = @ + n]

\* The entry of dirlookup(), and a directory without names.
dirlookup(dp, name) == dents[dp][name]
isdirempty(dp) == \A n \in Names : dents[dp][n] = 0

-----------------------------------------------------------------------------
(***************************************************************************)
(* The course of a call.  stage is what comes next, puts the inodes to be  *)
(* given to iput() before that.                                            *)
(***************************************************************************)
Go(p, fields) == call' = [call EXCEPT ![p] = fields @@ @]

\* p is at this stage and has no iput() to do.
At(p, stage) ==
  /\ call[p] # NoCall /\ call[p].stage = stage /\ call[p].puts = <<>>
  /\ panicked = "none"

Panic(msg) ==
  /\ panicked' = msg
  /\ UNCHANGED <<dinode, dents, itable, cwd, ofile, swapFile, call, calls>>

\* namei() and nameiparent() start from the current directory, or from the root
\* directory in the case of /.swap.
From(p, sys) == IF sys \in {"swapon", "swapoff"} THEN 1 ELSE cwd[p]
Start(p, c, path, parent, next) ==
  [stage |-> "walk", path |-> path, parent |-> parent, next |-> next,
   ip |-> From(p, c.sys), puts |-> <<>>] @@ c

\* A call begins.
Begin(p, c) ==
  /\ panicked = "none" /\ call[p] = NoCall /\ calls < MaxCalls
  /\ calls' = calls + 1
  /\ CASE c.sys \in {"unlink", "create", "mkdir", "mknod"} ->
            /\ call' = [call EXCEPT ![p] = Start(p, c, c.path, TRUE, c.sys)]
            /\ itable' = idup(itable, cwd[p])
       [] c.sys \in {"open", "chdir", "link"} ->
            /\ call' = [call EXCEPT ![p] = Start(p, c, c.path, FALSE, c.sys)]
            /\ itable' = idup(itable, cwd[p])
       [] c.sys = "close" ->
            /\ ofile[p] # 0
            /\ call' = [call EXCEPT ![p] = [stage |-> "return", puts |-> <<ofile[p]>>] @@ c]
            /\ UNCHANGED itable
       [] c.sys = "swapon" ->
            /\ swapFile[p] = 0
            /\ call' = [call EXCEPT ![p] = Start(p, c, <<SwapName[p]>>, TRUE, "create")]
            /\ itable' = iget(itable, 1)
       [] c.sys = "swapoff" ->
            /\ swapFile[p] # 0
            /\ call' = [call EXCEPT ![p] = [stage |-> "closed", puts |-> <<swapFile[p]>>] @@ c]
            /\ UNCHANGED itable
  /\ ofile' = IF c.sys = "close" THEN [ofile EXCEPT ![p] = 0] ELSE ofile
  /\ swapFile' = IF c.sys = "swapoff" THEN [swapFile EXCEPT ![p] = 0] ELSE swapFile
  /\ UNCHANGED <<dinode, dents, cwd, panicked>>

\* removeSwapFile() after fileclose().
SwapUnlink(p) ==
  /\ At(p, "closed")
  /\ Go(p, Start(p, call[p], <<SwapName[p]>>, TRUE, "unlink"))
  /\ itable' = iget(itable, 1)
  /\ UNCHANGED <<dinode, dents, cwd, ofile, swapFile, calls, panicked>>

\* end_op() and the return.
Return(p) ==
  /\ At(p, "return")
  /\ call' = [call EXCEPT ![p] = NoCall]
  /\ UNCHANGED <<dinode, dents, itable, cwd, ofile, swapFile, calls, panicked>>

\* iput() of an inode that others use or that has a name.
ToPut(p) == call[p].puts[1]
Putting(p) == call[p] # NoCall /\ call[p].puts # <<>> /\ panicked = "none"

\* Variant: an inode without a name goes although others have it open.
LastOfUnlinkedEarly(i) == itable[i].valid /\ itable[i].nlink = 0

LastOfUnlinked(i) == itable[i].ref = 1 /\ itable[i].valid /\ itable[i].nlink = 0

Put(p) ==
  /\ Putting(p) /\ call[p].stage # "free"
  /\ ~LastOfUnlinked(ToPut(p))
  /\ itable' = [itable EXCEPT ![ToPut(p)].ref = @ - 1]
  /\ Go(p, [puts |-> Tail(call[p].puts)])
  /\ UNCHANGED <<dinode, dents, cwd, ofile, swapFile, calls, panicked>>

\* The last reference to an inode without a name: it is locked, itable.lock is
\* released, its contents go and it is free on disk.
PutLock(p) ==
  /\ Putting(p) /\ call[p].stage # "free" /\ LastOfUnlinked(ToPut(p))
  /\ CanLock(ToPut(p))
  /\ itable' = [itable EXCEPT ![ToPut(p)].lock = p]
  /\ Go(p, [stage |-> "free", after |-> call[p].stage])
  /\ UNCHANGED <<dinode, dents, cwd, ofile, swapFile, calls, panicked>>

PutFree(p) ==
  /\ Putting(p) /\ call[p].stage = "free" /\ itable[ToPut(p)].lock = p
  /\ dents' = [dents EXCEPT ![ToPut(p)] = Empty]
  /\ dinode' = [dinode EXCEPT ![ToPut(p)] = [type |-> "0", nlink |-> itable[ToPut(p)].nlink]]
  /\ itable' = [itable EXCEPT ![ToPut(p)].type = "0", ![ToPut(p)].valid = FALSE,
                              ![ToPut(p)].lock = Unlocked]
  /\ UNCHANGED <<cwd, ofile, swapFile, call, calls, panicked>>

\* The rest of iput(): somebody may have allocated the inode again.
PutDone(p) ==
  /\ Putting(p) /\ call[p].stage = "free" /\ itable[ToPut(p)].lock # p
  /\ itable' = [itable EXCEPT ![ToPut(p)].ref = @ - 1]
  /\ Go(p, [stage |-> call[p].after, puts |-> Tail(call[p].puts)])
  /\ UNCHANGED <<dinode, dents, cwd, ofile, swapFile, calls, panicked>>

-----------------------------------------------------------------------------
(***************************************************************************)
(* Path names: an iteration of the loop of namex().                        *)
(***************************************************************************)
rest == <<cwd, ofile, swapFile, calls, panicked>>

\* ilock() finds a free inode on disk.
NoType(i) == Loaded(i).type = "0"

Walk(p) ==
  /\ At(p, "walk") /\ CanLock(call[p].ip)
  /\ LET ip == call[p].ip
         name == call[p].path[1]
         it == [itable EXCEPT ![ip] = Loaded(ip)]
         found == dirlookup(ip, name)
     IN IF NoType(ip) THEN Panic("ilock: no type")
        ELSE IF it[ip].type = "T_DIR" /\ call[p].parent /\ Len(call[p].path) = 1
        THEN /\ itable' = it
             /\ Go(p, [stage |-> call[p].next, dp |-> ip, name |-> name])
             /\ UNCHANGED <<dinode, dents, rest>>
        ELSE IF it[ip].type = "T_DIR" /\ found # 0
        THEN /\ itable' = iget(it, found)
             /\ Go(p, [stage |-> IF Len(call[p].path) = 1 THEN call[p].next ELSE "walk",
                       ip |-> found, path |-> Tail(call[p].path), puts |-> <<ip>>])
             /\ UNCHANGED <<dinode, dents, rest>>
        ELSE /\ itable' = it
             /\ Go(p, [stage |-> IF "back" \in DOMAIN call[p] THEN "linkbad" ELSE "return",
                       puts |-> <<ip>>])
             /\ UNCHANGED <<dinode, dents, rest>>

-----------------------------------------------------------------------------
(***************************************************************************)
(* unlink(), and the same code in removeSwapFile().                        *)
(***************************************************************************)
Unlink(p) ==
  /\ At(p, "unlink") /\ CanLock(call[p].dp)
  /\ LET dp == call[p].dp
         found == dirlookup(dp, call[p].name)
     IN IF NoType(dp) THEN Panic("ilock: no type")
        ELSE IF call[p].name = ".." \/ found = 0
        THEN /\ itable' = [itable EXCEPT ![dp] = Loaded(dp)]
             /\ Go(p, [stage |-> "return", puts |-> <<dp>>])
             /\ UNCHANGED <<dinode, dents, rest>>
        ELSE /\ itable' = iget(Locked(p, dp), found)
             /\ Go(p, [stage |-> "unlink2", ip |-> found])
             /\ UNCHANGED <<dinode, dents, rest>>

Removable(ip) == Loaded(ip).type # "T_DIR" \/ isdirempty(ip)

\* dp is locked; the entry is erased and dp unlocked, or the call fails.
Unlink2(p) ==
  /\ At(p, "unlink2") /\ CanLock(call[p].ip)
  /\ LET dp == call[p].dp
         ip == call[p].ip
         it == Locked(p, ip)
         left == IF it[ip].type = "T_DIR" THEN Links(it, dp, -1) ELSE it
     IN IF NoType(ip) THEN Panic("ilock: no type")
        ELSE IF it[ip].nlink < 1 THEN Panic("unlink: nlink < 1")
        ELSE IF ~Removable(ip)
        THEN /\ itable' = [itable EXCEPT ![ip] = Loaded(ip)]
             /\ Go(p, [stage |-> "unlinkbad", puts |-> <<ip>>])
             /\ UNCHANGED <<dinode, dents, rest>>
        ELSE /\ dents' = [dents EXCEPT ![dp][call[p].name] = 0]
             /\ itable' = iunlock(left, dp)
             /\ dinode' = Updated(dinode, left, dp)
             /\ Go(p, [stage |-> "unlink3", puts |-> <<dp>>])
             /\ UNCHANGED rest

Unlink3(p) ==
  /\ At(p, "unlink3")
  /\ LET ip == call[p].ip
         it == Links(itable, ip, -1)
     IN /\ itable' = iunlock(it, ip)
        /\ dinode' = Updated(dinode, it, ip)
        /\ Go(p, [stage |-> "return", puts |-> <<ip>>])
  /\ UNCHANGED <<dents, rest>>

\* Variant: the directory stays locked.
UnlinkBadLocked(p) ==
  /\ At(p, "unlinkbad")
  /\ Go(p, [stage |-> "return", puts |-> <<call[p].dp>>])
  /\ UNCHANGED <<dinode, dents, itable, rest>>

UnlinkBad(p) ==
  /\ At(p, "unlinkbad")
  /\ itable' = iunlock(itable, call[p].dp)
  /\ Go(p, [stage |-> "return", puts |-> <<call[p].dp>>])
  /\ UNCHANGED <<dinode, dents, rest>>

-----------------------------------------------------------------------------
(***************************************************************************)
(* create(), for open(O_CREATE), mkdir(), mknod() and createSwapFile().    *)
(***************************************************************************)
TypeMade(p) == CASE call[p].sys = "mkdir" -> "T_DIR"
                 [] call[p].sys = "mknod" -> "T_DEVICE"
                 [] OTHER -> "T_FILE"
FreeInodes == {i \in Inums : dinode[i].type = "0"}

\* The name exists, or ialloc() takes the first free inode.
Create(p) ==
  /\ \E stage \in {"create", "mkdir", "mknod"} : At(p, stage)
  /\ CanLock(call[p].dp)
  /\ LET dp == call[p].dp
         found == dirlookup(dp, call[p].name)
         inum == Min(FreeInodes)
     IN IF NoType(dp) THEN Panic("ilock: no type")
        ELSE IF found # 0
        THEN /\ itable' = iget([itable EXCEPT ![dp] = Loaded(dp)], found)
             /\ Go(p, [stage |-> "exists", ip |-> found, puts |-> <<dp>>])
             /\ UNCHANGED <<dinode, dents, rest>>
        ELSE IF FreeInodes = {} THEN Panic("ialloc: no inodes")
        ELSE /\ dinode' = [dinode EXCEPT ![inum] = [type |-> TypeMade(p), nlink |-> 0]]
             /\ itable' = iget(Locked(p, dp), inum)
             /\ Go(p, [stage |-> "created", ip |-> inum])
             /\ UNCHANGED <<dents, rest>>

\* create() returns what is there if it is a file.
Exists(p) ==
  /\ At(p, "exists") /\ CanLock(call[p].ip)
  /\ LET ip == call[p].ip
         fits == TypeMade(p) = "T_FILE" /\ Loaded(ip).type \in {"T_FILE", "T_DEVICE"}
     IN IF NoType(ip) THEN Panic("ilock: no type")
        ELSE IF ~fits /\ call[p].sys = "swapon" THEN Panic("iunlock")
        ELSE IF ~fits
        THEN /\ itable' = [itable EXCEPT ![ip] = Loaded(ip)]
             /\ Go(p, [stage |-> "return", puts |-> <<ip>>])
             /\ UNCHANGED <<dinode, dents, rest>>
        ELSE /\ itable' = Locked(p, ip)
             /\ Go(p, [stage |-> "made"])
             /\ UNCHANGED <<dinode, dents, rest>>

\* dp is locked; the new inode gets its name.
Created(p) ==
  /\ At(p, "created") /\ CanLock(call[p].ip)
  /\ LET dp == call[p].dp
         ip == call[p].ip
         it == [Locked(p, ip) EXCEPT ![ip].nlink = 1]
         up == IF TypeMade(p) = "T_DIR" THEN Links(it, dp, 1) ELSE it
         dots == IF TypeMade(p) = "T_DIR" THEN [dents EXCEPT ![ip][".."] = dp] ELSE dents
     IN IF NoType(ip) THEN Panic("ilock: no type")
        ELSE IF dirlookup(dp, call[p].name) # 0 THEN Panic("create: dirlink")
        ELSE /\ itable' = iunlock(up, dp)
             /\ dinode' = Updated(Updated(dinode, up, ip), up, dp)
             /\ dents' = [dots EXCEPT ![dp][call[p].name] = ip]
             /\ Go(p, [stage |-> "made", puts |-> <<dp>>])
             /\ UNCHANGED rest

\* What the callers of create() do with the locked inode.  open() fails when
\* the process has no descriptor left.
Made(p) ==
  /\ At(p, "made")
  /\ LET ip == call[p].ip
         kept == \/ call[p].sys = "swapon"
                 \/ call[p].sys \in {"create", "open"} /\ ofile[p] = 0
     IN /\ itable' = iunlock(itable, ip)
        /\ Go(p, [stage |-> "return", puts |-> IF kept THEN <<>> ELSE <<ip>>])
        /\ ofile' = IF kept /\ call[p].sys # "swapon" THEN [ofile EXCEPT ![p] = ip] ELSE ofile
        /\ swapFile' = IF call[p].sys = "swapon" THEN [swapFile EXCEPT ![p] = ip] ELSE swapFile
  /\ UNCHANGED <<dinode, dents, cwd, calls, panicked>>

-----------------------------------------------------------------------------
(***************************************************************************)
(* open() of something that exists, chdir() and link().                    *)
(***************************************************************************)

\* open() without O_CREATE; a directory can only be read.
Open(p) ==
  /\ At(p, "open") /\ CanLock(call[p].ip)
  /\ LET ip == call[p].ip IN
     IF NoType(ip) THEN Panic("ilock: no type")
     ELSE IF Loaded(ip).type = "T_DIR" /\ call[p].mode # "O_RDONLY"
     THEN /\ itable' = [itable EXCEPT ![ip] = Loaded(ip)]
          /\ Go(p, [stage |-> "return", puts |-> <<ip>>])
          /\ UNCHANGED <<dinode, dents, rest>>
     ELSE /\ itable' = Locked(p, ip)
          /\ Go(p, [stage |-> "made"])
          /\ UNCHANGED <<dinode, dents, rest>>

Chdir(p) ==
  /\ At(p, "chdir") /\ CanLock(call[p].ip)
  /\ LET ip == call[p].ip
         dir == Loaded(ip).type = "T_DIR"
     IN IF NoType(ip) THEN Panic("ilock: no type")
        ELSE /\ itable' = [itable EXCEPT ![ip] = Loaded(ip)]
             /\ Go(p, [stage |-> IF dir THEN "chdir2" ELSE "return",
                       puts |-> <<IF dir THEN cwd[p] ELSE ip>>])
             /\ UNCHANGED <<dinode, dents, rest>>

Chdir2(p) ==
  /\ At(p, "chdir2")
  /\ cwd' = [cwd EXCEPT ![p] = call[p].ip]
  /\ call' = [call EXCEPT ![p] = NoCall]
  /\ UNCHANGED <<dinode, dents, itable, ofile, swapFile, calls, panicked>>

\* Variant: the link is counted when the entry is there.
LinkedLate(it, ip) == it

\* The new name counts before it exists.
LinkedFirst(it, ip) == Links(it, ip, 1)

Link(p) ==
  /\ At(p, "link") /\ CanLock(call[p].ip)
  /\ LET ip == call[p].ip
         it == LinkedFirst([itable EXCEPT ![ip] = Loaded(ip)], ip)
     IN IF NoType(ip) THEN Panic("ilock: no type")
        ELSE IF Loaded(ip).type = "T_DIR"
        THEN /\ itable' = [itable EXCEPT ![ip] = Loaded(ip)]
             /\ Go(p, [stage |-> "return", puts |-> <<ip>>])
             /\ UNCHANGED <<dinode, dents, rest>>
        ELSE /\ itable' = idup(it, cwd[p])
             /\ dinode' = Updated(dinode, it, ip)
             /\ Go(p, [back |-> ip] @@ Start(p, call[p], call[p].new, TRUE, "link2"))
             /\ UNCHANGED <<dents, rest>>

\* dirlink() in the directory of the new name; it gives up what it finds there.
Link2(p) ==
  /\ At(p, "link2") /\ CanLock(call[p].dp)
  /\ LET dp == call[p].dp
         found == dirlookup(dp, call[p].name)
     IN IF NoType(dp) THEN Panic("ilock: no type")
        ELSE IF found # 0
        THEN /\ itable' = iget(Locked(p, dp), found)
             /\ Go(p, [stage |-> "link3", puts |-> <<found>>])
             /\ UNCHANGED <<dinode, dents, rest>>
        ELSE /\ itable' = [itable EXCEPT ![dp] = Loaded(dp)]
             /\ dents' = [dents EXCEPT ![dp][call[p].name] = call[p].back]
             /\ Go(p, [stage |-> "return", puts |-> <<dp, call[p].back>>])
             /\ UNCHANGED <<dinode, rest>>

Link3(p) ==
  /\ At(p, "link3")
  /\ itable' = iunlock(itable, call[p].dp)
  /\ Go(p, [stage |-> "linkbad", puts |-> <<call[p].dp>>])
  /\ UNCHANGED <<dinode, dents, rest>>

\* The label bad: of sys_link().
LinkBad(p) ==
  /\ At(p, "linkbad") /\ CanLock(call[p].back)
  /\ LET ip == call[p].back
         it == Links([itable EXCEPT ![ip] = Loaded(ip)], ip, -1)
     IN IF NoType(ip) THEN Panic("ilock: no type")
        ELSE /\ itable' = it
             /\ dinode' = Updated(dinode, it, ip)
             /\ Go(p, [stage |-> "return", puts |-> <<ip>>])
             /\ UNCHANGED <<dents, rest>>

-----------------------------------------------------------------------------
\* The root directory, a directory 2 in it and a file 3.
Init ==
  /\ dents = [i \in Inums |->
       CASE i = 1 -> [Empty EXCEPT ![DirName] = 2, ![FileName] = 3, ![".."] = 1]
         [] i = 2 -> [Empty EXCEPT ![".."] = 1]
         [] OTHER -> Empty]
  /\ dinode = [i \in Inums |->
       CASE i = 1 -> [type |-> "T_DIR", nlink |-> 2]
         [] i = 2 -> [type |-> "T_DIR", nlink |-> 1]
         [] i = 3 -> [type |-> "T_FILE", nlink |-> 1]
         [] OTHER -> [type |-> "0", nlink |-> 0]]
  /\ itable = [i \in Inums |-> IF i = 1 THEN [NoInode EXCEPT !.ref = Cardinality(Procs)]
                               ELSE NoInode]
  /\ cwd = [p \in Procs |-> 1]
  /\ ofile = [p \in Procs |-> 0]
  /\ swapFile = [p \in Procs |-> 0]
  /\ call = [p \in Procs |-> NoCall]
  /\ calls = 0
  /\ panicked = "none"

\* A step of a call that p is in.
Step(p) ==
  \/ Return(p) \/ SwapUnlink(p) \/ Put(p) \/ PutLock(p) \/ PutFree(p) \/ PutDone(p) \/ Walk(p)
  \/ Unlink(p) \/ Unlink2(p) \/ Unlink3(p) \/ UnlinkBad(p)
  \/ Create(p) \/ Exists(p) \/ Created(p) \/ Made(p)
  \/ Open(p) \/ Chdir(p) \/ Chdir2(p) \/ Link(p) \/ Link2(p) \/ Link3(p) \/ LinkBad(p)

Next == \E p \in Procs : Step(p) \/ \E c \in Calls : Begin(p, c)

Spec == Init /\ [][Next]_vars

\* A process in a call goes on when nobody holds the inode it needs.
FairSpec == Spec /\ \A p \in Procs : WF_vars(Step(p))
-----------------------------------------------------------------------------
(***************************************************************************)
(* Properties.                                                             *)
(***************************************************************************)

\* ip->ref is the number of pointers to the in-memory inode: current
\* directories, open files, swap files, and what the calls hold on to.
Held(p, i) ==
  LET c == call[p]
      busy == c # NoCall
      count(b) == IF b THEN 1 ELSE 0
      pending == IF busy THEN Cardinality({k \in DOMAIN c.puts : c.puts[k] = i}) ELSE 0
      stage == IF ~busy THEN "none" ELSE IF c.stage = "free" THEN c.after ELSE c.stage
  IN pending
     + count(busy /\ stage \in {"walk", "unlink2", "unlink3", "exists", "created", "made", "open",
                                "chdir", "chdir2", "link"} /\ c.ip = i)
     + count(busy /\ stage \in {"unlink", "unlink2", "unlinkbad", "create", "mkdir", "mknod",
                                "created", "link2", "link3"} /\ c.dp = i)
     + count(busy /\ "back" \in DOMAIN c /\ stage # "return" /\ c.back = i)
     + count(cwd[p] = i /\ ~(stage = "chdir2")) + count(ofile[p] = i) + count(swapFile[p] = i)
RefsCounted == \A i \in Inums : itable[i].ref = SumFunction([p \in Procs |-> Held(p, i)])

\* The links of an inode cover the names it has, at every moment of link(),
\* unlink() and create(): no name outlives its inode.  What iput() reads of an
\* inode in memory that nobody has locked is what is on disk.
NamesOf(i) == {x \in Inums \X Names : dinode[x[1]].type = "T_DIR" /\ dents[x[1]][x[2]] = i}
LinksCoverNames ==
  \A i \in Inums :
    /\ Cardinality(NamesOf(i)) <= dinode[i].nlink
    /\ NamesOf(i) # {} => dinode[i].type # "0"
    /\ itable[i].ref > 0 /\ itable[i].valid /\ itable[i].lock = Unlocked =>
         dinode[i] = [type |-> itable[i].type, nlink |-> itable[i].nlink]

\* An inode without a name is free on disk once nobody has it open.
UnlinkedIsFreed ==
  \A i \in Inums : itable[i].ref = 0 /\ dinode[i].type # "0" => dinode[i].nlink > 0

\* No panic is reached: neither "ilock: no type", "unlink: nlink < 1",
\* "create: dirlink" nor "iunlock".  ialloc() panics when the disk has no
\* inodes left, whatever the callers do.
NoPanic == panicked \in {"none", "ialloc: no inodes"}

\* Every call returns: no two calls wait for each other's inodes.
CallsReturn == \A p \in Procs : (call[p] # NoCall) ~> (call[p] = NoCall \/ panicked # "none")
=============================================================================

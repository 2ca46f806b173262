--------------------------- MODULE MCSequential ---------------------------
(***************************************************************************)
(* The parts whose difficulty is in an algorithm: the page ring of a       *)
(* process (PageRing), the blocks of files (FileBlocks), the lines of the  *)
(* console (Console), the shell's parser (ShellParser), grep (Grep) and    *)
(* malloc() (Umalloc), side by side.  They share no state: a behaviour     *)
(* follows one of them, which kind tells, and the others stay in their     *)
(* initial state.                                                          *)
(***************************************************************************)
EXTENDS Integers, Sequences, TLC

VARIABLES
  kind,
  ring, accessed,
  fs, off, call, ops,
  cons, rd, uart_tx_w, uart_tx_r, uart_tx_buf, wr, rx, busy, sent, irq, handler, typed,
  line,
  pattern, rest, buf, out, done, input,
  heap, used, core, failed

ringvars == <<ring, accessed>>
filevars == <<fs, off, call, ops>>
consvars == <<cons, rd, uart_tx_w, uart_tx_r, uart_tx_buf, wr, rx, busy, sent, irq, handler, typed>>
grepvars == <<pattern, rest, buf, out, done, input>>
heapvars == <<heap, used, core, failed>>
vars == <<kind, ringvars, filevars, consvars, line, grepvars, heapvars>>

R == INSTANCE PageRing WITH MAX_TOTAL_PAGES <- 4

\* Two processes; a file that is open twice and one that is open once; files of
\* one direct block and two indirect ones, sizes that overflow.
F == INSTANCE FileBlocks WITH
       Procs <- {1, 2}, Inodes <- {1, 2}, Handles <- {1, 2, 3}, HandleInode <- <<1, 1, 2>>,
       Blocks <- 1 .. 8, BSIZE <- 2, NDIRECT <- 1, NINDIRECT <- 2, MaxChunk <- 3,
       Sizes <- {1, 4, 14}, UintRange <- 16, MaxOps <- 3

\* Two readers; indexes that wrap, and a ring that fills.
C == INSTANCE Console WITH
       Readers <- {1, 2}, Writers <- {}, INPUT_BUF <- 2, UintRange <- 8,
       StartIndexes <- {7}, UART_TX_BUF_SIZE <- 2, Plain <- {"a"}, NL <- "nl",
       EOF <- "eof", ERASE <- "erase", KILL <- "kill", ReadSizes <- {1, 3},
       WriteSize <- 0, MaxTyped <- 3

\* All lines of up to five characters, so that argv may overflow.
S == INSTANCE ShellParser WITH MAXARGS <- 3, MaxLine <- 5

\* All patterns of up to three characters, all inputs of up to four.
G == INSTANCE Grep WITH
       BufSize <- 4, Letters <- {"a", "b"}, NL <- "nl", MaxInput <- 4,
       Patterns <- UNION {[1 .. n -> {"a", ".", "*", "$", "^"}] : n \in 0 .. 3}

M == INSTANCE Umalloc WITH
       HeaderSize <- 2, Requests <- {0, 3}, MinCore <- 3, HeapStart <- 2, MaxBreak <- 9

Init ==
  /\ kind \in {"ring", "blocks", "console", "parser", "grep", "malloc"}
  /\ R!Init /\ F!Init /\ C!Init /\ S!Init /\ M!Init /\ G!Init
  /\ kind = "grep" \/ (pattern = <<>> /\ input = <<>>)

Next ==
  /\ UNCHANGED kind
  /\ \/ kind = "ring" /\ R!Next /\ UNCHANGED <<filevars, consvars, line, grepvars, heapvars>>
     \/ kind = "blocks" /\ F!Next /\ UNCHANGED <<ringvars, consvars, line, grepvars, heapvars>>
     \/ kind = "console" /\ C!Next /\ UNCHANGED <<ringvars, filevars, line, grepvars, heapvars>>
     \/ kind = "parser" /\ S!Next /\ UNCHANGED <<ringvars, filevars, consvars, grepvars, heapvars>>
     \/ kind = "grep" /\ G!Next /\ UNCHANGED <<ringvars, filevars, consvars, line, heapvars>>
     \/ kind = "malloc" /\ M!Next /\ UNCHANGED <<ringvars, filevars, consvars, line, grepvars>>

Spec == Init /\ [][Next]_vars

-----------------------------------------------------------------------------
\* The ring of pages implements a queue (PageRing).
RingImplementsFifo == R!RingImplementsFifo

\* The bitmap marks the blocks of files, each owned once,
\* and every byte of a file has one (FileBlocks).
BlocksOwnedOnce == kind = "blocks" => F!BlocksOwnedOnce
\* A write changes the bytes at its offset and no others (FileBlocks).
WritesLand == F!WritesLand

\* The input ring is a queue of finished lines and an edited one (Console).
LinesEdited == C!LinesEdited
\* A reader sleeps only while there is nothing to read (Console).
SleepsWithoutInput == kind = "console" => C!SleepsWithoutInput

\* parsecmd() accepts and builds what the grammar says, and words stay whole (ShellParser).
ParserMatchesGrammar == kind = "parser" => S!ParserMatchesGrammar

\* grep prints the matching lines (Grep).
PrintsMatchingLines == kind = "grep" => G!PrintsMatchingLines

\* Each unit of the heap has one owner, free neighbours are joined, and malloc()
\* fails only without room (Umalloc).
UnitsOwnedOnce == kind = "malloc" => M!UnitsOwnedOnce
=============================================================================

------------------------------ MODULE Console ------------------------------
(***************************************************************************)
(* The console: kernel/console.c over the serial line of kernel/uart.c,    *)
(* with the interrupt that devintr() of kernel/trap.c claims and completes.*)
(*                                                                         *)
(* A step is a critical section of cons.lock or of uart_tx_lock.           *)
(***************************************************************************)
EXTENDS Integers, Sequences, SequencesExt, FiniteSets

CONSTANTS
  Readers, Writers,
  INPUT_BUF,           \* characters of input that fit
  UintRange,           \* values of r, w and e, a multiple of INPUT_BUF
  StartIndexes,        \* their values when the run begins
  UART_TX_BUF_SIZE,
  Plain, NL, EOF, ERASE, KILL,    \* characters
  ReadSizes,
  WriteSize,           \* characters that a writer writes
  MaxTyped             \* bound on the characters typed

VARIABLES
  cons,       \* buf, r, w, e
  rd,         \* what each reader does
  uart_tx_w, uart_tx_r, uart_tx_buf,
  wr,         \* what each writer does
  rx,         \* characters the UART has received
  busy,       \* its transmit register is not empty
  sent,       \* what writers got through
  irq,        \* an interrupt is pending
  handler,    \* uartintr() runs
  typed

txvars == <<uart_tx_w, uart_tx_r, uart_tx_buf, wr, sent>>
vars == <<cons, rd, txvars, rx, busy, irq, handler, typed>>

NotReading == [n |-> 0, target |-> 0, got |-> <<>>, asleep |-> FALSE]

-----------------------------------------------------------------------------
(***************************************************************************)
(* Input.                                                                  *)
(***************************************************************************)

Minus(a, b) == (a - b + UintRange) % UintRange
Plus(a, b) == (a + b) % UintRange

Room(c) == Minus(c.e, c.r) < INPUT_BUF

LineDone(c, ch) == ch \in {NL, EOF} \/ c.e = Plus(c.r, INPUT_BUF)

\* Variant: what readers may have is erased too.
ErasableAll(c) == c.e # c.r

Erasable(c) == c.e # c.w

\* consoleintr(): the new state, and whether readers are woken.
RECURSIVE KillLine(_)
KillLine(c) ==
  IF Erasable(c) /\ c.buf[Minus(c.e, 1) % INPUT_BUF] # NL
  THEN KillLine([c EXCEPT !.e = Minus(@, 1)])
  ELSE c

Stored(c, ch) == [c EXCEPT !.buf[c.e % INPUT_BUF] = ch, !.e = Plus(@, 1)]

Typed(c, ch) == LET d == Stored(c, ch) IN
                IF LineDone(d, ch) THEN [d EXCEPT !.w = d.e] ELSE d

consoleintr(c, ch) ==
  CASE ch = KILL -> KillLine(c)
    [] ch = ERASE -> IF Erasable(c) THEN [c EXCEPT !.e = Minus(@, 1)] ELSE c
    [] OTHER -> IF Room(c) THEN Typed(c, ch) ELSE c

\* The loop of consoleread(), with the next ok bytes of the destination writable:
\* it goes on until the count, the line, the file or the input ends.  At the end
\* of the file a reader that has bytes leaves the mark for the next call.
RECURSIVE ReadLoop(_, _, _)
ReadLoop(c, r, ok) ==
  LET ch == c.buf[c.r % INPUT_BUF]
      next == [c EXCEPT !.r = Plus(@, 1)]
      more == [r EXCEPT !.n = @ - 1, !.got = Append(@, ch)]
  IN IF r.n = 0 THEN [c |-> c, r |-> r, done |-> TRUE]
     ELSE IF c.r = c.w THEN [c |-> c, r |-> [r EXCEPT !.asleep = TRUE], done |-> FALSE]
     ELSE IF ch = EOF THEN [c |-> IF r.n < r.target THEN c ELSE next, r |-> r, done |-> TRUE]
     ELSE IF ok = 0 THEN [c |-> next, r |-> r, done |-> TRUE]
     ELSE IF ch = NL THEN [c |-> next, r |-> more, done |-> TRUE]
     ELSE ReadLoop(next, more, ok - 1)

\* read() of the console.
readStart(p, n) ==
  /\ rd[p].target = 0
  /\ rd' = [rd EXCEPT ![p] = [NotReading EXCEPT !.n = n, !.target = n]]
  /\ UNCHANGED <<cons, txvars, rx, busy, irq, handler, typed>>

\* The copy to the user may fail at any byte, which is then gone.
consoleread(p) ==
  /\ rd[p].target > 0 /\ ~rd[p].asleep
  /\ \E ok \in 0 .. rd[p].n :
       LET x == ReadLoop(cons, rd[p], ok)
       IN /\ cons' = x.c
          /\ rd' = [rd EXCEPT ![p] = IF x.done THEN NotReading ELSE x.r]
  /\ UNCHANGED <<txvars, rx, busy, irq, handler, typed>>

\* A reader that is killed, asleep or not, gives up when it finds no input.
readKilled(p) ==
  /\ rd[p].target > 0 /\ cons.r = cons.w
  /\ rd' = [rd EXCEPT ![p] = NotReading]
  /\ UNCHANGED <<cons, txvars, rx, busy, irq, handler, typed>>

-----------------------------------------------------------------------------
(***************************************************************************)
(* Output.                                                                 *)
(***************************************************************************)

TxFull == uart_tx_w = uart_tx_r + UART_TX_BUF_SIZE

\* Variant: writers are not woken.
TxWokenNot(s) == s

TxWoken(s) == [p \in Writers |-> [s[p] EXCEPT !.asleep = FALSE]]

\* uartstart(), from the ring with w characters written: it sends one if the
\* register is empty.
uartstart(w, buf, writers) ==
  IF w # uart_tx_r /\ ~busy
  THEN /\ sent' = Append(sent, buf[uart_tx_r % UART_TX_BUF_SIZE])
       /\ uart_tx_r' = uart_tx_r + 1
       /\ wr' = TxWoken(writers)
       /\ busy' = TRUE
  ELSE wr' = writers /\ UNCHANGED <<sent, uart_tx_r, busy>>

\* uartputc(), for the next character of a writer.
uartputc(p) ==
  /\ wr[p].k < WriteSize /\ ~wr[p].asleep
  /\ IF TxFull
     THEN wr' = [wr EXCEPT ![p].asleep = TRUE] /\ UNCHANGED <<uart_tx_w, uart_tx_r, uart_tx_buf, sent, busy>>
     ELSE LET b == [uart_tx_buf EXCEPT ![uart_tx_w % UART_TX_BUF_SIZE] = <<p, wr[p].k + 1>>]
          IN /\ uart_tx_buf' = b
             /\ uart_tx_w' = uart_tx_w + 1
             /\ uartstart(uart_tx_w + 1, b, [wr EXCEPT ![p].k = @ + 1])
  /\ UNCHANGED <<cons, rd, rx, irq, handler, typed>>

-----------------------------------------------------------------------------
(***************************************************************************)
(* The interrupt handler, and the UART.                                    *)
(***************************************************************************)

\* devintr() claims the interrupt and calls uartintr().
claim ==
  /\ irq /\ ~handler
  /\ irq' = FALSE /\ handler' = TRUE
  /\ UNCHANGED <<cons, rd, txvars, rx, busy, typed>>

\* Variant: readers are not woken.
RxWokenNot(w, s) == s

\* A line that is done wakes the readers.
RxWoken(w, s) == [p \in Readers |-> IF w # cons.w THEN [s[p] EXCEPT !.asleep = FALSE] ELSE s[p]]

\* A character goes to consoleintr(), which echoes it when the register is empty.
uartintr_rx ==
  /\ handler /\ rx # <<>> /\ ~busy
  /\ cons' = consoleintr(cons, Head(rx))
  /\ rd' = RxWoken(cons'.w, rd)
  /\ busy' = (cons'.e # cons.e)
  /\ rx' = Tail(rx)
  /\ UNCHANGED <<txvars, irq, handler, typed>>

\* No more input: uartstart(), and plic_complete().
uartintr_tx ==
  /\ handler /\ rx = <<>>
  /\ uartstart(uart_tx_w, uart_tx_buf, wr)
  /\ handler' = FALSE
  /\ UNCHANGED <<cons, rd, uart_tx_w, uart_tx_buf, rx, irq, typed>>

receive(ch) ==
  /\ typed < MaxTyped
  /\ rx' = Append(rx, ch) /\ irq' = TRUE /\ typed' = typed + 1
  /\ UNCHANGED <<cons, rd, txvars, busy, handler>>

transmitted ==
  /\ busy
  /\ busy' = FALSE /\ irq' = TRUE
  /\ UNCHANGED <<cons, rd, txvars, rx, handler, typed>>

-----------------------------------------------------------------------------
Init ==
  /\ \E i \in StartIndexes :
       cons = [buf |-> [k \in 0 .. INPUT_BUF - 1 |-> NL], r |-> i, w |-> i, e |-> i]
  /\ rd = [p \in Readers |-> NotReading]
  /\ uart_tx_w = 0 /\ uart_tx_r = 0
  /\ uart_tx_buf = [k \in 0 .. UART_TX_BUF_SIZE - 1 |-> <<0, 0>>]
  /\ wr = [p \in Writers |-> [k |-> 0, asleep |-> FALSE]]
  /\ rx = <<>> /\ busy = FALSE /\ sent = <<>> /\ irq = FALSE /\ handler = FALSE
  /\ typed = 0

Next ==
  \/ \E p \in Readers : (\E n \in ReadSizes : readStart(p, n)) \/ consoleread(p) \/ readKilled(p)
  \/ \E p \in Writers : uartputc(p)
  \/ claim \/ uartintr_rx \/ uartintr_tx
  \/ (\E ch \in Plain \cup {NL, EOF, ERASE, KILL} : receive(ch)) \/ transmitted

Spec == Init /\ [][Next]_vars

InterruptStep == claim \/ uartintr_rx \/ uartintr_tx

\* Writers that are not asleep run, interrupts are served, the line transmits.
Fairness == /\ \A p \in Writers : WF_vars(uartputc(p))
            /\ WF_vars(InterruptStep) /\ WF_vars(transmitted)

FairSpec == Spec /\ Fairness

-----------------------------------------------------------------------------
(***************************************************************************)
(* Properties.                                                             *)
(***************************************************************************)

\* The ring with its three indexes, which wrap, is an edited line after a queue of
\* finished ones: nothing typed overwrites what is unread, and editing never
\* reaches into finished lines.
Slice(from, to) == [k \in 1 .. Minus(to, from) |-> cons.buf[Plus(from, k - 1) % INPUT_BUF]]
Line == INSTANCE LineBuffer WITH queue <- Slice(cons.r, cons.w), edit <- Slice(cons.w, cons.e)
LinesEdited == Line!Spec

\* A reader sleeps only while no finished line is there, and never on a console
\* that can take no more input.
SleepsWithoutInput ==
  \A p \in Readers : rd[p].asleep => cons.r = cons.w /\ Minus(cons.e, cons.r) < INPUT_BUF

\* Every writer gets through: the interrupt that finds the register empty goes on
\* with the ring and wakes the writers that wait for room; and nothing written is
\* lost, repeated or reordered on its way to the line.
AllSent ==
  <>[]\A p \in Writers :
       SelectSeq(sent, LAMBDA x : x[1] = p) = [k \in 1 .. WriteSize |-> <<p, k>>]
=============================================================================

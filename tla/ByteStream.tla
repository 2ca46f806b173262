----------------------------- MODULE ByteStream -----------------------------
(* What a pipe promises: a queue of bytes with two ends that are closed once. *)
EXTENDS Sequences, SequencesExt

CONSTANT Pipes

VARIABLES
  queue, open,   \* contents and open ends of every pipe
  offered        \* what its writers have yet to write, which is up to them

vars == <<queue, open>>

Init ==
  /\ queue = [q \in Pipes |-> <<>>]
  /\ open = [q \in Pipes |-> {}]

\* A pipe comes into being empty, with both ends open.
Make(q) ==
  /\ open[q] = {}
  /\ open' = [open EXCEPT ![q] = {"read", "write"}]
  /\ queue' = [queue EXCEPT ![q] = <<>>]

\* While both ends are open the bytes of a writer are added, as many as it
\* likes; they are taken in order.
Put(q) ==
  /\ open[q] = {"read", "write"}
  /\ \E buf \in offered[q] : \E n \in 1 .. Len(buf) :
       queue' = [queue EXCEPT ![q] = @ \o SubSeq(buf, 1, n)]
  /\ UNCHANGED open

Get(q) ==
  /\ "read" \in open[q]
  /\ IsSuffix(queue'[q], queue[q])
  /\ queue' = [queue EXCEPT ![q] = queue'[q]]
  /\ UNCHANGED open

\* With the last end goes what nobody has read.
Close(q, end) ==
  /\ end \in open[q]
  /\ open' = [open EXCEPT ![q] = @ \ {end}]
  /\ queue' = IF open[q] = {end} THEN [queue EXCEPT ![q] = <<>>] ELSE queue

Next ==
  \E q \in Pipes : Make(q) \/ Put(q) \/ Get(q) \/ \E end \in {"read", "write"} : Close(q, end)

Spec == Init /\ [][Next]_vars
=============================================================================

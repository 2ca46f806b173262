-------------------------------- MODULE Grep --------------------------------
(***************************************************************************)
(* user/grep.c: the buffer that cuts what read() returns into lines, and   *)
(* the matcher.                                                            *)
(***************************************************************************)
EXTENDS Integers, Sequences, FiniteSets, SequencesExt, FiniteSetsExt

CONSTANTS
  BufSize,        \* size of buf
  Letters, NL,
  Patterns,       \* patterns grep is called with
  MaxInput        \* bound on the length of the input

VARIABLES
  pattern, rest,  \* rest: what is still to be read
  buf,            \* the m characters that are kept
  out, done,
  input           \* history: the whole input

vars == <<pattern, rest, buf, out, done, input>>

-----------------------------------------------------------------------------
(***************************************************************************)
(* The matcher.                                                            *)
(***************************************************************************)
RECURSIVE matchhere(_, _)

RECURSIVE matchstar(_, _, _)
matchstar(c, re, text) ==
  \/ matchhere(re, text)
  \/ text # <<>> /\ (text[1] = c \/ c = ".") /\ matchstar(c, re, Tail(text))

matchhere(re, text) ==
  IF re = <<>> THEN TRUE
  ELSE IF Len(re) > 1 /\ re[2] = "*" THEN matchstar(re[1], SubSeq(re, 3, Len(re)), text)
  ELSE IF re = <<"$">> THEN text = <<>>
  ELSE text # <<>> /\ re[1] \in {".", text[1]} /\ matchhere(Tail(re), Tail(text))

match(re, text) ==
  IF re # <<>> /\ re[1] = "^" THEN matchhere(Tail(re), text)
  ELSE \E k \in 1 .. Len(text) + 1 : matchhere(re, SubSeq(text, k, Len(text)))

-----------------------------------------------------------------------------
(***************************************************************************)
(* The loop of grep().                                                     *)
(***************************************************************************)

\* Variant: what follows the last newline is dropped.
KeptNone(b) == <<>>

\* What memmove() keeps: the characters after the last newline.
Kept(b) == SubSeq(b, Max({0} \cup {k \in 1 .. Len(b) : b[k] = NL}) + 1, Len(b))

\* The lines of the buffer, each up to its newline, and those that match.
RECURSIVE Printed(_)
Printed(b) ==
  LET q == {k \in 1 .. Len(b) : b[k] = NL}
      e == Min(q)
      l == SubSeq(b, 1, e - 1)
  IN IF q = {} THEN <<>>
     ELSE (IF match(pattern, l) THEN SubSeq(b, 1, e) ELSE <<>>) \o Printed(SubSeq(b, e + 1, Len(b)))

\* The size that grep() asks read() for.
Asked == BufSize - Len(buf) - 1

\* read() returns some of what it was asked for, a pipe whatever there is, and 0
\* at the end of the input or if it is asked for nothing.
grep(n) ==
  /\ ~done
  /\ LET b == buf \o SubSeq(rest, 1, n)
     IN /\ n <= Asked /\ n <= Len(rest) /\ (n = 0 <=> Asked = 0 \/ rest = <<>>)
        /\ rest' = SubSeq(rest, n + 1, Len(rest))
        /\ done' = (n = 0)
        /\ IF n = 0 THEN UNCHANGED <<buf, out>>
           ELSE out' = out \o Printed(b) /\ buf' = Kept(b)
  /\ UNCHANGED <<pattern, input>>

Inputs == UNION {[1 .. n -> Letters \cup {NL}] : n \in 0 .. MaxInput}

Init ==
  /\ pattern \in Patterns /\ input \in Inputs
  /\ rest = input /\ buf = <<>> /\ out = <<>> /\ done = FALSE

Next == \E n \in 0 .. BufSize : grep(n)

Spec == Init /\ [][Next]_vars

-----------------------------------------------------------------------------
(***************************************************************************)
(* Reference: a pattern is a sequence of items, each one a character or    *)
(* any number of it.                                                       *)
(***************************************************************************)
RECURSIVE Items(_)
Items(re) ==
  IF re = <<>> THEN <<>>
  ELSE IF Len(re) > 1 /\ re[2] = "*" THEN <<[c |-> re[1], star |-> TRUE]>> \o Items(SubSeq(re, 3, Len(re)))
  ELSE <<[c |-> IF re = <<"$">> THEN "end" ELSE re[1], star |-> FALSE]>> \o Items(Tail(re))

\* The text from a cut on falls into pieces, one for each item; a pattern that does
\* not begin with ^ may begin anywhere.
Piece(item, text, from, to) ==
  /\ from <= to /\ (item.star \/ to = from + IF item.c = "end" THEN 0 ELSE 1)
  /\ item.c = "end" => from = Len(text)
  /\ \A k \in from + 1 .. to : item.c \in {".", text[k]}
Matches(re, text) ==
  LET anchored == re # <<>> /\ re[1] = "^"
      items == Items(IF anchored THEN Tail(re) ELSE re)
  IN \E cut \in [0 .. Len(items) -> 0 .. Len(text)] :
       /\ anchored => cut[0] = 0
       /\ \A j \in 1 .. Len(items) : Piece(items[j], text, cut[j - 1], cut[j])

\* The lines of a text, without what follows the last newline.
LinesOf(text) ==
  LET nl == SetToSortSeq({k \in 1 .. Len(text) : text[k] = NL}, <)
  IN [j \in 1 .. Len(nl) |-> SubSeq(text, IF j = 1 THEN 1 ELSE nl[j - 1] + 1, nl[j] - 1)]

Consumed == SubSeq(input, 1, Len(input) - Len(rest))

\* However read() cuts the input, grep prints the lines that match, each one
\* once; it stops early only at a line that does not fit the buffer.
PrintsMatchingLines ==
  /\ out = FlattenSeq([j \in 1 .. Len(LinesOf(Consumed)) |->
             IF Matches(pattern, LinesOf(Consumed)[j]) THEN Append(LinesOf(Consumed)[j], NL) ELSE <<>>])
  /\ done => rest = <<>> \/ \E k \in 1 .. Len(input) - BufSize + 2 :
                              NL \notin {input[j] : j \in k .. k + BufSize - 2}
=============================================================================

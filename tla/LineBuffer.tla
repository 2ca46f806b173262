----------------------------- MODULE LineBuffer -----------------------------
(***************************************************************************)
(* What the console promises for its input: characters are edited in a     *)
(* line, finished lines queue up for readers, and both together are        *)
(* bounded.                                                                *)
(***************************************************************************)
EXTENDS Integers, Sequences

CONSTANTS
  INPUT_BUF,   \* characters that fit
  Plain,       \* ordinary characters
  NL, EOF      \* characters that end a line

VARIABLES queue, edit

Init == queue = <<>> /\ edit = <<>>

Type(c) ==
  /\ Len(queue) + Len(edit) < INPUT_BUF
  /\ IF c \in {NL, EOF} \/ Len(queue) + Len(edit) + 1 = INPUT_BUF
     THEN queue' = queue \o Append(edit, c) /\ edit' = <<>>
     ELSE edit' = Append(edit, c) /\ UNCHANGED queue

Erase ==
  /\ edit # <<>>
  /\ edit' = SubSeq(edit, 1, Len(edit) - 1)
  /\ UNCHANGED queue

Kill == edit' = <<>> /\ UNCHANGED queue

Take ==
  /\ \E k \in 1 .. Len(queue) : queue' = SubSeq(queue, k + 1, Len(queue))
  /\ UNCHANGED edit

Next == (\E c \in Plain \cup {NL, EOF} : Type(c)) \/ Erase \/ Kill \/ Take

Spec == Init /\ [][Next]_<<queue, edit>>
=============================================================================

------------------------------ MODULE MCShell ------------------------------
(* Shell with a few commands, as the parser of sh.c returns them. *)
EXTENDS Shell

Program(body) == [type |-> "EXEC", program |-> body \o <<Exit>>]
Write(buf) == [op |-> "write", buf |-> buf]
Read(n, once) == [op |-> "read", n |-> n, once |-> once]

w == Program(<<Write(<<1, 2, 3>>)>>)
s == Program(<<Write(<<2>>)>>)
true == Program(<<>>)
r == Program(<<Read(2, FALSE)>>)
head == Program(<<Read(1, TRUE)>>)

PipeCmd(left, right) == [type |-> "PIPE", left |-> left, right |-> right]
ListCmd(left, right) == [type |-> "LIST", left |-> left, right |-> right]
Redirect(cmd, fd) == [type |-> "REDIR", cmd |-> cmd, fd |-> fd]
Background(cmd) == [type |-> "BACK", cmd |-> cmd]

MCCommands == {PipeCmd(w, r), PipeCmd(w, head), PipeCmd(ListCmd(true, s), head),
               Background(Redirect(w, 1)), PipeCmd(true, PipeCmd(true, true))}
=============================================================================

---------------------------- MODULE ShellParser ----------------------------
(***************************************************************************)
(* The parser of user/sh.c, a recursive descent over the characters of a   *)
(* line, against the grammar that it accepts.                              *)
(*                                                                         *)
(* Positions in the line stand for the pointers of the code.  A word is the*)
(* pair of positions <<q, eq>> that gettoken() returns.  A command is a    *)
(* tuple: <<"exec", words>>, <<"redir", cmd, mode, word>>, <<"pipe", left,  *)
(* right>>, <<"list", left, right>> or <<"back", cmd>>.                    *)
(***************************************************************************)
EXTENDS Integers, Sequences, FiniteSets, SequencesExt

CONSTANTS
  MAXARGS,     \* size of argv
  MaxLine      \* bound on the length of a line

VARIABLE line

whitespace == {" "}
symbols == {"<", "|", ">", "&", ";", "(", ")"}
NUL == "nul"

At(s) == IF s <= Len(line) THEN line[s] ELSE NUL

\* The first position from s on whose character is not in C.
Skip(s, C) == CHOOSE e \in s .. Len(line) + 1 :
                At(e) \notin C /\ \A k \in s .. e - 1 : At(k) \in C

Letters == {"a"}

TokenEnd(q) == Skip(q, Letters)

\* gettoken(): the kind of the next token, where it is, and where the line goes on.
Kind(q) ==
  CASE At(q) = ">" /\ At(q + 1) = ">" -> "+"
    [] At(q) \in Letters -> "a"
    [] OTHER -> At(q)

EndOf(kind, q) ==
  CASE kind = NUL -> q
    [] kind = "+" -> q + 2
    [] kind \in symbols -> q + 1
    [] kind = "a" -> TokenEnd(q)

Token(kind, q, eq) == [kind |-> kind, word |-> <<q, eq>>, ps |-> Skip(eq, whitespace)]
TokenAt(q) == Token(Kind(q), q, EndOf(Kind(q), q))
gettoken(ps) == TokenAt(Skip(ps, whitespace))

peek(ps, toks) == At(Skip(ps, whitespace)) \in toks

\* panic() in the parser ends the child that parses.
Panic == [ok |-> FALSE, ps |-> 0, cmd |-> <<>>]
Parsed(ps, cmd) == [ok |-> TRUE, ps |-> ps, cmd |-> cmd]

TooMany(args) == Len(args) >= MAXARGS

\* parseredirs(): a redirection encloses the command before it.
RECURSIVE parseredirs(_, _)
Redirected(cmd, kind, file) ==
  IF file.kind # "a" THEN Panic
  ELSE parseredirs(<<"redir", cmd, kind, file.word>>, file.ps)
RedirectedBy(cmd, tok) == Redirected(cmd, tok.kind, gettoken(tok.ps))

parseredirs(cmd, ps) ==
  IF peek(ps, {"<", ">"}) THEN RedirectedBy(cmd, gettoken(ps)) ELSE Parsed(ps, cmd)

\* The arguments of the command that redirections enclose.
RECURSIVE WithArgs(_, _)
WithArgs(cmd, args) ==
  IF cmd[1] = "exec" THEN <<"exec", args>>
  ELSE [cmd EXCEPT ![2] = WithArgs(cmd[2], args)]

\* The loop of parseexec(), after a first parseredirs().
RECURSIVE ExecLoop(_, _)
ExecNext(x, args, tok) ==
  IF tok.kind = NUL THEN Parsed(tok.ps, WithArgs(x.cmd, args))
  ELSE IF tok.kind # "a" \/ TooMany(Append(args, tok.word)) THEN Panic
  ELSE ExecLoop(parseredirs(x.cmd, tok.ps), Append(args, tok.word))

ExecLoop(x, args) ==
  IF ~x.ok THEN Panic
  ELSE IF peek(x.ps, {"|", ")", "&", ";"}) THEN Parsed(x.ps, WithArgs(x.cmd, args))
  ELSE ExecNext(x, args, gettoken(x.ps))

RECURSIVE parseline(_)

BlockEnd(body) ==
  IF ~body.ok \/ ~peek(body.ps, {")"}) THEN Panic
  ELSE parseredirs(body.cmd, gettoken(body.ps).ps)

parseblock(ps) == BlockEnd(parseline(gettoken(ps).ps))

parseexec(ps) ==
  IF peek(ps, {"("}) THEN parseblock(ps)
  ELSE ExecLoop(parseredirs(<<"exec", <<>>>>, ps), <<>>)

\* What pipecmd() and listcmd() make of two commands.
Joined(op, left, right) ==
  IF right.ok THEN Parsed(right.ps, <<op, left.cmd, right.cmd>>) ELSE Panic

\* Whether the parser meets the symbol c after x.
Meets(x, c) == x.ok /\ peek(x.ps, {c})

\* Variant: pipes group to the left.
RECURSIVE PipeLeft(_)
PipeLeft(x) ==
  IF ~Meets(x, "|") THEN x ELSE PipeLeft(Joined("pipe", x, parseexec(gettoken(x.ps).ps)))
parsepipeLeft(ps) == PipeLeft(parseexec(ps))

RECURSIVE PipeRest(_)
PipeRest(left) ==
  IF ~Meets(left, "|") THEN left
  ELSE Joined("pipe", left, PipeRest(parseexec(gettoken(left.ps).ps)))

parsepipe(ps) == PipeRest(parseexec(ps))

RECURSIVE Backs(_)
Backs(x) == IF ~Meets(x, "&") THEN x
            ELSE Backs(Parsed(gettoken(x.ps).ps, <<"back", x.cmd>>))

ListRest(left) ==
  IF ~Meets(left, ";") THEN left
  ELSE Joined("list", left, parseline(gettoken(left.ps).ps))

parseline(ps) == ListRest(Backs(parsepipe(ps)))

\* The words of a command, whose ends nulterminate() sets to NUL.
RECURSIVE Words(_)
Words(cmd) ==
  CASE cmd[1] = "exec" -> ToSet(cmd[2])
    [] cmd[1] = "redir" -> Words(cmd[2]) \cup {cmd[4]}
    [] cmd[1] \in {"pipe", "list"} -> Words(cmd[2]) \cup Words(cmd[3])
    [] cmd[1] = "back" -> Words(cmd[2])

nulterminate(cmd) ==
  [k \in 1 .. Len(line) + 1 |-> IF \E w \in Words(cmd) : w[2] = k THEN NUL ELSE At(k)]

\* parsecmd(), without nulterminate(): leftovers are an error.
Whole(x) == IF x.ok /\ Skip(x.ps, whitespace) = Len(line) + 1 THEN x ELSE Panic
parsecmd == Whole(parseline(1))

-----------------------------------------------------------------------------
Chars == Letters \cup whitespace \cup symbols

Init == line = <<>>

\* The user goes on typing.
Next == Len(line) < MaxLine /\ \E c \in Chars : line' = Append(line, c)

Spec == Init /\ [][Next]_line

-----------------------------------------------------------------------------
(***************************************************************************)
(* The grammar: a list of tokens stands for a set of commands.             *)
(***************************************************************************)

RECURSIVE TokensFrom(_)
TokensFrom(t) == IF t.kind = NUL THEN <<>> ELSE <<t>> \o TokensFrom(gettoken(t.ps))
Tokens == TokensFrom(gettoken(1))

Kinds(t, K) == {k \in 1 .. Len(t) : t[k].kind \in K}
From(t, k) == SubSeq(t, k, Len(t))
Upto(t, k) == SubSeq(t, 1, k)

Redirs == {"<", ">", "+"}

RECURSIVE Wrapped(_, _)
Wrapped(cmd, t) ==
  IF t = <<>> THEN cmd
  ELSE IF t[1].kind \in Redirs THEN Wrapped(<<"redir", cmd, t[1].kind, t[2].word>>, From(t, 3))
  ELSE Wrapped(cmd, From(t, 2))

\* Words and redirections, every redirection with its file.
IsSimple(t) == \A k \in 1 .. Len(t) :
  \/ t[k].kind = "a"
  \/ t[k].kind \in Redirs /\ k < Len(t) /\ t[k + 1].kind = "a"
Args(t) == {k \in Kinds(t, {"a"}) : k = 1 \/ t[k - 1].kind \notin Redirs}
Simple(t) ==
  IF IsSimple(t) /\ Cardinality(Args(t)) < MAXARGS
  THEN {Wrapped(<<"exec", [j \in 1 .. Cardinality(Args(t)) |->
                   t[SetToSortSeq(Args(t), <)[j]].word]>>, t)}
  ELSE {}

RECURSIVE LineTrees(_)
BlockTrees(t) ==
  IF t = <<>> \/ t[1].kind # "(" THEN {}
  ELSE UNION {{Wrapped(c, From(t, k + 1)) : c \in LineTrees(SubSeq(t, 2, k - 1))} :
              k \in {j \in Kinds(t, {")"}) : /\ IsSimple(From(t, j + 1))
                                             /\ Args(From(t, j + 1)) = {}}}

RECURSIVE PipeTrees(_)
PipeTrees(t) ==
  Simple(t) \cup BlockTrees(t) \cup
    UNION {{<<"pipe", l, r>> : l \in Simple(Upto(t, k - 1)) \cup BlockTrees(Upto(t, k - 1)),
                               r \in PipeTrees(From(t, k + 1))} : k \in Kinds(t, {"|"})}

RECURSIVE BackTrees(_)
BackTrees(t) ==
  PipeTrees(t) \cup IF t # <<>> /\ Last(t).kind = "&"
                    THEN {<<"back", c>> : c \in BackTrees(Front(t))} ELSE {}

LineTrees(t) ==
  BackTrees(t) \cup
    UNION {{<<"list", l, r>> : l \in BackTrees(Upto(t, k - 1)), r \in LineTrees(From(t, k + 1))} :
           k \in Kinds(t, {";"})}

\* Every word of the command ends with a NUL, and none is inside it.
WordEnds(z, w) ==
  \E e \in w[1] + 1 .. Len(line) + 1 :
    /\ z[e] = NUL /\ line[e - 1] \in Letters
    /\ \A k \in w[1] .. e - 1 : z[k] = line[k] /\ z[k] # NUL
    /\ e <= Len(line) => line[e] \notin Letters
Derived(x) ==
  /\ LineTrees(Tokens) = IF x.ok THEN {x.cmd} ELSE {}
  /\ x.ok => \A w \in Words(x.cmd) : WordEnds(nulterminate(x.cmd), w)

\* parsecmd() accepts a line exactly if the grammar gives it a command, and builds
\* that one: precedence, grouping and nesting of lists, pipes, background
\* commands, blocks and redirections.  nulterminate() ends every argument and file
\* name where its word ends: no NUL falls into a word, also when symbols touch it.
ParserMatchesGrammar == Derived(parsecmd)
=============================================================================

------------------------------ MODULE ShParse ------------------------------
(***************************************************************************)
(* The shell's parser (user/sh.c): from the characters of a line to a      *)
(* command tree whose words are pairs <<q, eq>> of positions in the line,  *)
(* then nulterminate(), which ends each word in place.  A position past    *)
(* the end holds the NUL of the string.  The printer Show is the reference:*)
(* it writes a tree down with the parentheses that the grammar needs.      *)
(***************************************************************************)
EXTENDS Integers, Sequences, FiniteSets, FiniteSetsExt

CONSTANTS Depth,     \* of the trees that are typed
          MAXARGS,
          Nil

VARIABLES tree, blank,   \* what is typed, with or without blanks
          parsed         \* the tree parsecmd() returns; Nil before

vars == <<tree, blank, parsed>>

NUL == "0"
Symbols == {"<", "|", ">", "&", ";", "(", ")"}

At(s, i) == IF i > Len(s) THEN NUL ELSE s[i]

\* The loops over whitespace and over the characters of a word.
SkipBlanks(s, i) == Min({j \in i..Len(s)+1 : At(s, j) # " "})
WordEnd(s, i) == Min({j \in i..Len(s)+1 : At(s, j) \in Symbols \cup {" ", NUL}})

\* The token at q: what gettoken() returns, *q and *eq, and where *ps moves.
TokenEnd(s, q) ==
  CASE At(s, q) = NUL -> q
    [] At(s, q) = ">" /\ At(s, q + 1) = ">" -> q + 2
    [] At(s, q) \in Symbols -> q + 1
    [] OTHER -> WordEnd(s, q)
Token(s, q, eq) ==
  [tok |-> CASE eq = q + 2 /\ At(s, q) = ">" -> "+"
             [] At(s, q) \in Symbols \cup {NUL} -> At(s, q)
             [] OTHER -> "a",
   word |-> <<q, eq>>, at |-> SkipBlanks(s, eq)]
TokenAt(s, q) == Token(s, q, TokenEnd(s, q))
Gettoken(s, i) == TokenAt(s, SkipBlanks(s, i))
Past(s, i) == Gettoken(s, i).at

Peek(s, i, toks) == At(s, SkipBlanks(s, i)) \in toks

Exec(argv) == [type |-> "EXEC", argv |-> argv]
Redir(op, file, cmd) == [type |-> "REDIR", op |-> op, file |-> file, cmd |-> cmd]
Pipe(l, r) == [type |-> "PIPE", left |-> l, right |-> r]
List(l, r) == [type |-> "LIST", left |-> l, right |-> r]
Back(c) == [type |-> "BACK", cmd |-> c]

(* A parser returns a tree and where it stopped; the shell's panic() ends  *)
(* the process that parses.                                                *)
Ok(cmd, i) == [cmd |-> cmd, at |-> i]
Panic == [cmd |-> Nil, at |-> 0]

Then(r, Rest(_)) == IF r = Panic THEN Panic ELSE Rest(r)

RECURSIVE Parseredirs(_, _, _)
Redirected(cmd, s, op, file) ==
  IF file.tok # "a" THEN Panic
  ELSE Parseredirs(Redir(op.tok, file.word, cmd), s, file.at)
Parseredirs(cmd, s, i) ==
  IF ~Peek(s, i, {"<", ">"}) THEN Ok(cmd, i)
  ELSE Redirected(cmd, s, Gettoken(s, i), Gettoken(s, Past(s, i)))

(* P stands for the calls of parseline() and parsepipe(), by position.     *)
Parseblock(P, s, i) ==
  Then(P["line", Past(s, i)], LAMBDA body :
    IF ~Peek(s, body.at, {")"}) THEN Panic
    ELSE Parseredirs(body.cmd, s, Past(s, body.at)))

(* The loop of parseexec(): cmd->argv grows inside the tree of redirections*)
(* that has been wrapped around it.                                        *)
RECURSIVE SetArgv(_, _)
SetArgv(cmd, argv) == IF cmd.type = "EXEC" THEN Exec(argv)
                      ELSE [cmd EXCEPT !.cmd = SetArgv(@, argv)]

RECURSIVE Args(_, _, _)
Argument(r, argv, s, t) ==
  IF t.tok # "a" \/ Len(argv) + 1 >= MAXARGS THEN Panic
  ELSE Args(Parseredirs(r.cmd, s, t.at), Append(argv, t.word), s)
Args(res, argv, s) ==
  Then(res, LAMBDA r :
    IF Peek(s, r.at, {"|", ")", "&", ";"} \cup {NUL}) THEN Ok(SetArgv(r.cmd, argv), SkipBlanks(s, r.at))
    ELSE Argument(r, argv, s, Gettoken(s, r.at)))

Parseexec(P, s, i) ==
  IF Peek(s, i, {"("}) THEN Parseblock(P, s, i)
  ELSE Args(Parseredirs(Exec(<<>>), s, i), <<>>, s)

(* Mutant: a pipe has two sides and no more. *)
RightOfPipe(P, s, i) == Parseexec(P, s, i)

(* What follows a `|'. *)
AfterPipe(P, s, i) == P["pipe", i]

Parsepipe(P, s, i) ==
  Then(Parseexec(P, s, i), LAMBDA l :
    IF ~Peek(s, l.at, {"|"}) THEN l
    ELSE Then(AfterPipe(P, s, Past(s, l.at)), LAMBDA r : Ok(Pipe(l.cmd, r.cmd), r.at)))

RECURSIVE Backs(_, _)
Backs(r, s) == IF Peek(s, r.at, {"&"}) THEN Backs(Ok(Back(r.cmd), Past(s, r.at)), s) ELSE r

Listed(P, s, l) ==
  IF ~Peek(s, l.at, {";"}) THEN l
  ELSE Then(P["line", Past(s, l.at)], LAMBDA r : Ok(List(l.cmd, r.cmd), r.at))
Parseline(P, s, i) == Then(P["pipe", i], LAMBDA p : Listed(P, s, Backs(p, s)))

Parser(s) ==
  LET P[x \in {"line", "pipe"}, i \in 1..Len(s)+1] ==
        IF x = "line" THEN Parseline(P, s, i) ELSE Parsepipe(P, s, i)
  IN P

(* nulterminate(): the positions that become NUL, and the text that a word *)
(* has then, up to the first of them.                                      *)
RECURSIVE Ends(_)
Ends(cmd) ==
  CASE cmd.type = "EXEC" -> {cmd.argv[k][2] : k \in DOMAIN cmd.argv}
    [] cmd.type = "REDIR" -> Ends(cmd.cmd) \cup {cmd.file[2]}
    [] cmd.type = "BACK" -> Ends(cmd.cmd)
    [] OTHER -> Ends(cmd.left) \cup Ends(cmd.right)

TextOf(s, ends, w) == SubSeq(s, w[1], Min({j \in w[1]..Len(s)+1 : j \in ends \/ j > Len(s)}) - 1)

RECURSIVE Texts(_, _, _)
Texts(cmd, s, ends) ==
  CASE cmd.type = "EXEC" -> Exec([k \in DOMAIN cmd.argv |-> TextOf(s, ends, cmd.argv[k])])
    [] cmd.type = "REDIR" -> Redir(cmd.op, TextOf(s, ends, cmd.file), Texts(cmd.cmd, s, ends))
    [] cmd.type = "BACK" -> Back(Texts(cmd.cmd, s, ends))
    [] OTHER -> [cmd EXCEPT !.left = Texts(@, s, ends), !.right = Texts(@, s, ends)]

Nulterminate(cmd, s) == Texts(cmd, s, Ends(cmd))

Finish(s, p) == IF p = Panic \/ SkipBlanks(s, p.at) # Len(s) + 1 THEN [type |-> "syntax"]
                ELSE Nulterminate(p.cmd, s)
Parsecmd(s) == Finish(s, Parser(s)["line", 1])
-----------------------------------------------------------------------------
RECURSIVE Trees(_)
Trees(d) ==
  LET leaf == {Exec(<<>>), Exec(<<<<"x">>>>), Exec(<<<<"y", "y">>, <<"x">>>>)} IN
  IF d = 0 THEN leaf
  ELSE LET T == Trees(d - 1) IN
       T \cup {Redir(op, f, c) : op \in {"<", "+"}, f \in {<<"y", "y">>}, c \in T}
         \cup {Back(c) : c \in T}
         \cup {Pipe(l, r) : l \in T, r \in T} \cup {List(l, r) : l \in T, r \in T}

RECURSIVE Words(_)
Words(argv) == IF argv = <<>> THEN <<>> ELSE Head(argv) \o <<" ">> \o Words(Tail(argv))

\* How tightly a command binds; b is what separates the words.
Level(c) == CASE c.type = "LIST" -> 0 [] c.type = "BACK" -> 1 [] c.type = "PIPE" -> 2
              [] OTHER -> 3

RECURSIVE Show(_, _, _)
Show(c, level, b) ==
  IF Level(c) < level THEN <<"(">> \o Show(c, 0, b) \o <<")">>
  ELSE CASE c.type = "EXEC" -> Words(c.argv)
         [] c.type = "REDIR" -> Show(c.cmd, 3, b)
              \o (IF c.op = "+" THEN <<">", ">">> ELSE <<c.op>>) \o b \o c.file
         [] c.type = "PIPE" -> Show(c.left, 3, b) \o b \o <<"|">> \o Show(c.right, 2, b)
         [] c.type = "BACK" -> Show(c.cmd, 1, b) \o <<"&">> \o b
         [] c.type = "LIST" -> Show(c.left, 1, b) \o <<";">> \o b \o Show(c.right, 0, b)

Init ==
  /\ tree \in Trees(Depth)
  /\ blank \in {<<>>, <<" ">>}
  /\ parsed = Nil

Parse ==
  /\ parsed = Nil
  /\ parsed' = Parsecmd(Show(tree, 0, blank))
  /\ UNCHANGED <<tree, blank>>

Exit == parsed # Nil /\ UNCHANGED vars

Next == Parse \/ Exit

Spec == Init /\ [][Next]_vars
-----------------------------------------------------------------------------
(* The parser inverts the printer: every command tree can be typed, is     *)
(* read back as it was meant, whatever nests in whatever, and each word    *)
(* that exec() and open() see is the word that was typed.                  *)
ParsesBack == parsed # Nil => parsed = tree
=============================================================================

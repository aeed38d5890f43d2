---------------------------- MODULE ShellParser -----------------------------
(***************************************************************************)
(* The parser of the shell (sh.c), on tokens: what gettoken cuts out of    *)
(* the line.  A word is a token of kind "a", and w is its place in the     *)
(* line.  A function of the parser returns what it has built, the tokens   *)
(* that are left, and the message of panic if it gave up.                  *)
(***************************************************************************)
EXTENDS Naturals, SequencesExt

CONSTANTS MaxTokens,   \* bound: the longest line
          MAXARGS

Kind == {"a", "|", "(", ")", ";", "&", "<", ">", ">>"}
Redirection == {"<", ">", ">>"}

VARIABLES line,    \* the kinds of the tokens of the line
          parsed   \* what parsecmd makes of it

vars == <<line, parsed>>

Tokens(l) == [k \in DOMAIN l |-> [kind |-> l[k], w |-> k]]
-----------------------------------------------------------------------------
execcmd(args) == [type |-> "EXEC", argv |-> args]
\* Input, or output to a file that is created: O_RDONLY, or O_WRONLY|O_CREATE.
redircmd(cmd, redir) ==
  [type |-> "REDIR", cmd |-> cmd, file |-> redir.file, fd |-> redir.fd]
pipecmd(left, right) == [type |-> "PIPE", left |-> left, right |-> right]
listcmd(left, right) == [type |-> "LIST", left |-> left, right |-> right]
backcmd(cmd) == [type |-> "BACK", cmd |-> cmd]

\* The kind of the next token, and whether it is one of those given.
gettoken(ts) == IF ts = <<>> THEN "end" ELSE Head(ts).kind
peek(ts, kinds) == gettoken(ts) \in kinds

Result(cmd, rest) == [cmd |-> cmd, rest |-> rest, err |-> "no"]
Panic(msg) == [cmd |-> <<>>, rest |-> <<>>, err |-> msg]

\* parseredirs, with the redirections so far; parseexec and parseblock apply
\* them.  Here >> does what > does.
RECURSIVE parseredirs(_, _)
parseredirs(redirs, ts) ==
  IF ~peek(ts, Redirection) THEN Result(redirs, ts)
  ELSE IF gettoken(Tail(ts)) # "a" THEN Panic("missing file for redirection")
  ELSE parseredirs(Append(redirs, [file |-> ts[2].w,
                                   fd |-> IF Head(ts).kind = "<" THEN 0 ELSE 1]),
                   SubSeq(ts, 3, Len(ts)))
redirect(cmd, redirs) == FoldLeft(redircmd, cmd, redirs)

\* The loop of parseexec: the arguments, and the redirections among them.
RECURSIVE arguments(_, _, _)
arguments(args, redirs, ts) ==
  IF peek(ts, {"|", ")", "&", ";", "end"})
  THEN Result(redirect(execcmd(args), redirs), ts)
  ELSE IF ~peek(ts, {"a"}) THEN Panic("syntax")
  ELSE IF Len(args) + 1 >= MAXARGS THEN Panic("too many args")
  ELSE LET r == parseredirs(redirs, Tail(ts))
       IN IF r.err # "no" THEN r
          ELSE arguments(Append(args, Head(ts).w), r.cmd, r.rest)

\* The loop of parseline.
RECURSIVE background(_, _)
background(cmd, ts) ==
  IF peek(ts, {"&"}) THEN background(backcmd(cmd), Tail(ts)) ELSE Result(cmd, ts)

RECURSIVE parseline(_)
RECURSIVE parsepipe(_)
parseblock(ts) ==
  LET l == parseline(Tail(ts))
      r == parseredirs(<<>>, Tail(l.rest))
  IN IF l.err # "no" THEN l
     ELSE IF ~peek(l.rest, {")"}) THEN Panic("syntax - missing )")
     ELSE IF r.err # "no" THEN r
     ELSE Result(redirect(l.cmd, r.cmd), r.rest)

parseexec(ts) ==
  IF peek(ts, {"("}) THEN parseblock(ts)
  ELSE LET r == parseredirs(<<>>, ts)
       IN IF r.err # "no" THEN r ELSE arguments(<<>>, r.cmd, r.rest)

parsepipe(ts) ==
  LET l == parseexec(ts)
      r == parsepipe(Tail(l.rest))
  IN IF l.err # "no" \/ ~peek(l.rest, {"|"}) THEN l
     ELSE IF r.err # "no" THEN r
     ELSE Result(pipecmd(l.cmd, r.cmd), r.rest)

parseline(ts) ==
  LET p == parsepipe(ts)
      l == background(p.cmd, p.rest)
      r == parseline(Tail(l.rest))
  IN IF p.err # "no" THEN p
     ELSE IF ~peek(l.rest, {";"}) THEN l
     ELSE IF r.err # "no" THEN r
     ELSE Result(listcmd(l.cmd, r.cmd), r.rest)

\* Faulty variant: what is left over is not noticed.
parsecmdShort(l) == parseline(Tokens(l))

parsecmd(l) ==
  LET r == parseline(Tokens(l))
  IN IF r.err = "no" /\ r.rest # <<>> THEN Panic("syntax") ELSE r
-----------------------------------------------------------------------------
NotYet == [cmd |-> <<>>, rest |-> <<>>, err |-> "not parsed"]
Init == line \in UNION {[1..n -> Kind] : n \in 0..MaxTokens} /\ parsed = NotYet
parse == parsed = NotYet /\ parsed' = parsecmd(line) /\ UNCHANGED line
Next == parse
Spec == Init /\ [][Next]_vars
-----------------------------------------------------------------------------
\* The reference: which lines are commands, said of neighbours and of depth.
Depth(k) == Cardinality({j \in 1..k : line[j] = "("}) -
            Cardinality({j \in 1..k : line[j] = ")"})
At(k) == IF k \in DOMAIN line THEN line[k] ELSE "end"
IsFile(k) == At(k) = "a" /\ At(k - 1) \in Redirection
\* After a block come its redirections, and no word of a command.
InBlockTail(k) ==
  \E j \in 1..(k - 1) : /\ line[j] = ")"
                        /\ \A i \in (j + 1)..(k - 1) : line[i] \in Redirection \/ IsFile(i)
Follows(k) ==
  CASE line[k] \in Redirection -> At(k + 1) = "a"
    [] line[k] = "&" -> At(k + 1) \in {"&", ";", ")", "end"}
    [] line[k] = "(" -> At(k - 1) \in {"end", "(", "|", ";"}
    [] line[k] = "a" -> IsFile(k) \/ ~InBlockTail(k)
    [] OTHER -> TRUE
Sentence ==
  /\ \A k \in DOMAIN line : Follows(k) /\ Depth(k) >= 0
  /\ Depth(Len(line)) = 0

\* The words of a command in the order of the line: arguments and files.
RECURSIVE Words(_)
Words(cmd) ==
  CASE cmd.type = "EXEC" -> ToSet(cmd.argv)
    [] cmd.type = "REDIR" -> Words(cmd.cmd) \cup {cmd.file}
    [] cmd.type = "BACK" -> Words(cmd.cmd)
    [] OTHER -> Words(cmd.left) \cup Words(cmd.right)
\* Every operator has its operands on its two sides.
RECURSIVE Ordered(_)
Ordered(cmd) ==
  CASE cmd.type = "EXEC" ->
         \A j, k \in DOMAIN cmd.argv : j < k => cmd.argv[j] < cmd.argv[k]
    [] cmd.type \in {"REDIR", "BACK"} -> Ordered(cmd.cmd)
    [] OTHER ->
         /\ Ordered(cmd.left) /\ Ordered(cmd.right)
         /\ \A j \in Words(cmd.left), k \in Words(cmd.right) :
              \E i \in (j + 1)..(k - 1) :
                line[i] = (IF cmd.type = "PIPE" THEN "|" ELSE ";")

\* The parser accepts exactly the lines that the grammar allows, except for those
\* with too many arguments; and the command it builds has every word of the line,
\* in its place.
ParsesTheGrammar ==
  parsed # NotYet /\ parsed.err # "too many args" =>
    /\ (parsed.err = "no") <=> Sentence
    /\ parsed.err = "no" =>
         /\ Words(parsed.cmd) = {k \in DOMAIN line : line[k] = "a"}
         /\ Ordered(parsed.cmd)
=============================================================================

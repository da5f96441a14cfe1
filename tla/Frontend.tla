------------------------------ MODULE Frontend ------------------------------
(***************************************************************************)
(* The front end as main.c runs it on one file: tokenize, parse, check     *)
(* (which rewrites the tree), generate.  The program that is generated     *)
(* then runs.  Each stage refuses the file with an error, or hands its     *)
(* result to the next.                                                     *)
(*                                                                         *)
(* A task is a text with what it was printed from: a tree (Printed), the   *)
(* indents of its lines, a number.  It says what the stages must have made *)
(* of it.                                                                  *)
(* The compiler is a function of the text, so it is one step, and the      *)
(* properties speak of that step.                                          *)
(***************************************************************************)
EXTENDS Meaning, Printed

CONSTANTS Tasks,    \* [kind, file, how]: the tree a text stands for and how it is laid out,
          TextOf(_),\* and the text itself
          Lists,    \* the lists at the start of a run,
          Vars      \* and the variables that hold them

VARIABLES task,     \* the file that is read
          compiled
vars == <<task, compiled>>

\* How far a file gets: the stage that refused it or was the last to run, the
\* tokens and the tree it left, the error, and what the program did.
Got(stage, toks, tree, error, result) ==
  [stage |-> stage, toks |-> toks, tree |-> tree, error |-> error, result |-> result]
Nothing == [sig |-> "", out |-> <<>>]

Running(toks, tree) == Got("run", toks, tree, "", Run(tree, Lists, Vars))

Checking(toks, tree) ==
  LET f == Check(tree) IN
  IF f.s.err # "" THEN Got("check", toks, f.n, f.s.err, Nothing) ELSE Running(toks, f.n)

\* Only programs are checked here: the other tasks name what nobody declares.
Tree(toks) ==
  LET f == Parse(toks) IN
  IF f.p.err # "" \/ task.kind # "program" THEN Got("parse", toks, f.n, f.p.err, Nothing)
  ELSE Checking(toks, f.n)

Outcome ==
  LET lx == Tokenize(TextOf(task)) IN
  IF lx.err # "" THEN Got("tokenize", lx.toks, Nil, lx.err, Nothing) ELSE Tree(lx.toks)

Init == task \in Tasks /\ compiled = FALSE
Compile == ~compiled /\ compiled' = TRUE /\ UNCHANGED task
Next == Compile
Spec == Init /\ [][Next]_vars

-----------------------------------------------------------------------------
(* Properties *)

\* The parser reads every tree back as it was written, in every layout:
\* precedence and associativity, statements, definitions and types
\* (language-spec.md 4.1 and the grammar; parser.c as a whole).
ReadsBack ==
  [][Compile /\ task.kind = "tree" => LET o == Outcome IN o.error = "" /\ o.tree = Plain(task.file)]_vars

\* A program does what it says: the loops, augmented assignments, swaps,
\* asserts, comprehensions, guards, patterns, keyword arguments and old values
\* that the front end rewrites end the same way and print the same, in the same
\* order, as the language describes them (language-spec.md 5.2, 5.3.6, 5.5, 4.5.1).
\* A match may be refused for the cases it leaves out.
Uncovered == {"guard without a way out", "missing branch", "no case _", "never chosen", "case _ is never chosen"}
RunsAsWritten ==
  [][Compile /\ task.kind = "program" =>
       LET o == Outcome IN
       \/ o.error \in Uncovered
       \/ o.error = "" /\ o.result.sig # "unmatched" /\ o.result = Run(task.file, Lists, Vars)]_vars

\* The blocks are those the indents show: a line above keeps its block open until
\* a line is indented less.  A line that is indented less than the one above and
\* stands at the indent of no open block is refused (lexer.c, emit_indent_tokens).
Indent(i) == task.file[i]
\* The indents of the blocks that are open in line i.
Blocks(i) == {Indent(j) : j \in {j \in 1 .. i : \A k \in j .. i : Indent(k) >= Indent(j)}} \ {0}
Fitting(i) == i = 1 \/ Indent(i) > Indent(i - 1) \/ Indent(i) \in Blocks(i - 1) \cup {0}
\* The blocks the tokens up to the end of line i open and do not close.
OpenAt(toks, i) ==
  LET ends == {p \in DOMAIN toks : toks[p].k = "NEWLINE"}
      end  == CHOOSE p \in ends : Cardinality({q \in ends : q <= p}) = i
      n(k) == Cardinality({p \in 1 .. end : toks[p].k = k})
  IN n("INDENT") - n("DEDENT")
BlocksByIndent(o) ==
  CASE \E i \in DOMAIN task.file : ~Fitting(i) \/ Cardinality(Blocks(i)) >= MaxDepth ->
         o.error \in {"no such block", "too deep"}
    [] OTHER -> /\ o.error \notin {"no such block", "too deep"}
                /\ \A i \in DOMAIN task.file : OpenAt(o.toks, i) = Cardinality(Blocks(i))

\* A number is read as the value it has in its base, or refused when no int has
\* it (lexer.c, read_int).
LiteralExact(o) ==
  IF task.file <= MaxInt THEN o.error # "out of range" /\ o.toks[1].k = "INT" /\ o.toks[1].v = task.file
  ELSE o.error = "out of range"

\* The lexer says what is there: blocks and numbers.
LexedRight ==
  [][Compile => LET o == Outcome IN
       /\ task.kind = "layout" => BlocksByIndent(o)
       /\ task.kind = "literal" => LiteralExact(o)]_vars

\* What the program takes for impossible never happens: an UNREACHABLE() that
\* is reached, an array that is read before it is filled (program() in parser.c,
\* lower_match_refine in sema.c).
NothingImpossible == [][Compile => Outcome.error \notin {"UNREACHABLE", "UNDEFINED"}]_vars
=============================================================================

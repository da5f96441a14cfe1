------------------------------- MODULE Lexer -------------------------------
(***************************************************************************)
(* The lexer (lexer.c): a text becomes a sequence of tokens in which the   *)
(* layout is made of INDENT, DEDENT and NEWLINE tokens.                    *)
(*                                                                         *)
(* A text is a sequence of pieces: a blank, a line break "nl", a "tab",    *)
(* "#", a digit, a character of an operator, a quote, a backslash, or a    *)
(* word.  A word stands for an identifier or a keyword; the words x, o, b, *)
(* and a to f are also the letters that may follow a digit.  Behind the    *)
(* text stands "end", as the NUL does in the program.                      *)
(***************************************************************************)
EXTENDS Integers, Sequences, SequencesExt, FiniteSets

CONSTANTS Keyword,   \* the reserved words
          Word,      \* the words that are identifiers
          Buffer,    \* the digits read_int keeps (63 in the program)
          MaxInt,    \* the largest int (2^63 - 1 in the program)
          MaxDepth   \* MAX_INDENT_DEPTH

ASSUME LexerAssumption ==
  /\ Buffer \in Nat \ {0} /\ MaxInt \in Nat /\ MaxDepth \in Nat \ {0, 1}
  /\ Keyword \cap Word = {}

At(src, i) == IF i <= Len(src) THEN src[i] ELSE "end"

\* A token: its kind, its text, its number (INT) or its content (STR, FSTRING).
Tok(k, t) == [k |-> k, t |-> t, v |-> 0, s |-> <<>>]

\* What tokenize() keeps while it reads.  "err" is the message it stopped at.
Start == [p |-> 1, bol |-> TRUE, depth |-> 0, indents |-> <<0>>, out |-> <<>>, err |-> ""]

Push(lx, tok, n) == [lx EXCEPT !.out = Append(@, tok), !.p = @ + n]
Stop(lx, code) == [lx EXCEPT !.err = code]

RECURSIVE Skip(_, _, _)
\* The first place from p on that holds nothing of S.
Skip(src, p, S) == IF At(src, p) \in S THEN Skip(src, p + 1, S) ELSE p

RECURSIVE LineEnd(_, _)
LineEnd(src, p) == IF At(src, p) \in {"nl", "end"} THEN p ELSE LineEnd(src, p + 1)

-----------------------------------------------------------------------------
(* Layout *)

RECURSIVE ScanIndent(_, _)
\* Passes empty lines and lines with only a comment.  The place of the first
\* piece of the next line that has any, and the width of its indent; -1 when
\* the text ends before, -2 at a tab.
ScanIndent(src, p) ==
  LET q == Skip(src, p, {" "}) IN
  CASE At(src, q) = "tab" -> <<q, -2>>
    [] At(src, q) = "nl" -> ScanIndent(src, q + 1)
    [] At(src, q) = "#" /\ At(src, LineEnd(src, q)) = "nl" ->
         ScanIndent(src, LineEnd(src, q) + 1)
    [] At(src, q) = "#" /\ At(src, LineEnd(src, q)) = "end" -> <<LineEnd(src, q), -1>>
    [] At(src, q) = "end" -> <<q, -1>>
    [] OTHER -> <<q, q - p>>

\* Mutant of Dedent: one DEDENT at most.
DedentOnce(lx, width) ==
  IF Len(lx.indents) > 1 /\ Last(lx.indents) > width
  THEN Push([lx EXCEPT !.indents = SelectSeq(@, LAMBDA w : w <= width)], Tok("DEDENT", ""), 0) ELSE lx

RECURSIVE Dedent(_, _)
\* Leaves the blocks that are wider than the line.
Dedent(lx, width) ==
  IF Len(lx.indents) > 1 /\ Last(lx.indents) > width
  THEN Dedent(Push([lx EXCEPT !.indents = Front(@)], Tok("DEDENT", ""), 0), width)
  ELSE lx

EmitIndent(lx, width) ==
  LET top  == Last(lx.indents)
      left == Dedent(lx, width)
  IN CASE width > top /\ Len(lx.indents) >= MaxDepth -> Stop(lx, "too deep")
       [] width > top /\ Len(lx.indents) < MaxDepth ->
            Push([lx EXCEPT !.indents = Append(@, width)], Tok("INDENT", ""), 0)
       [] width <= top /\ Last(left.indents) # width -> Stop(left, "no such block")
       [] width <= top /\ Last(left.indents) = width -> left

LineStart(src, lx) ==
  LET line == ScanIndent(src, lx.p)
      at   == [lx EXCEPT !.p = line[1], !.bol = FALSE]
  IN CASE line[2] = -2 -> Stop(at, "tab")
       [] line[2] = -1 -> [at EXCEPT !.p = Len(src) + 1]
       [] OTHER -> EmitIndent(at, line[2])

-----------------------------------------------------------------------------
(* Numbers, strings and operators *)

Digit == [c \in {"0", "1", "2", "3", "4", "5", "6", "7", "8", "9", "a", "b", "c", "d", "e", "f"} |->
            CASE c = "0" -> 0 [] c = "1" -> 1 [] c = "2" -> 2 [] c = "3" -> 3 [] c = "4" -> 4
              [] c = "5" -> 5 [] c = "6" -> 6 [] c = "7" -> 7 [] c = "8" -> 8 [] c = "9" -> 9
              [] c = "a" -> 10 [] c = "b" -> 11 [] c = "c" -> 12 [] c = "d" -> 13 [] c = "e" -> 14
              [] c = "f" -> 15]
Digits(base) == {c \in DOMAIN Digit : Digit[c] < base}
Valued(ds, base) == FoldLeft(LAMBDA n, c : n * base + Digit[c], 0, ds)
Bare(cs) == SelectSeq(cs, LAMBDA c : c # "_")
Letters == Word \cup Keyword \cup {"_"}

\* Mutant of Kept: the buffer has a place for the end.
KeptButOne(ds) == SubSeq(ds, 1, IF Len(ds) < Buffer THEN Len(ds) ELSE Buffer - 1)

\* The digits the buffer has room for; what follows is read and forgotten.
Kept(ds) == SubSeq(ds, 1, IF Len(ds) <= Buffer THEN Len(ds) ELSE Buffer)

Base(src, p) ==
  CASE At(src, p) = "0" /\ At(src, p + 1) = "x" -> 16
    [] At(src, p) = "0" /\ At(src, p + 1) = "o" -> 8
    [] At(src, p) = "0" /\ At(src, p + 1) = "b" -> 2
    [] OTHER -> 10

ReadInt(src, lx) ==
  LET base  == Base(src, lx.p)
      from  == IF base = 10 THEN lx.p ELSE lx.p + 2
      int   == Skip(src, from, Digits(base) \cup {"_"})
      ds    == Kept(Bare(SubSeq(src, from, int - 1)))
      dot   == base = 10 /\ At(src, int) = "." /\ At(src, int + 1) \in Digits(10)
      frac  == IF dot THEN Skip(src, int + 1, Digits(10) \cup {"_"}) ELSE int
      sign  == IF At(src, frac + 1) \in {"+", "-"} THEN 1 ELSE 0
      power == base = 10 /\ At(src, frac) = "e" /\ At(src, frac + 1 + sign) \in Digits(10)
      to    == IF power THEN Skip(src, frac + 1 + sign, Digits(10) \cup {"_"}) ELSE frac
  IN CASE ds = <<>> -> Stop(lx, "no digits")
       [] ds # <<>> /\ At(src, to) \in Letters -> Stop(lx, "letter after a number")
       [] ds # <<>> /\ At(src, to) \notin Letters /\ (dot \/ power) ->
            Push(lx, [Tok("FLOAT", "") EXCEPT !.s = Bare(SubSeq(src, lx.p, to - 1))], to - lx.p)
       [] ds # <<>> /\ At(src, to) \notin Letters /\ ~(dot \/ power) ->
            IF Valued(ds, base) > MaxInt THEN Stop(lx, "out of range")
            ELSE Push(lx, [Tok("INT", "") EXCEPT !.v = Valued(ds, base)], to - lx.p)

Escape == [c \in {"n", "t", "r", "0", "\\", "\"", "'"} |->
             CASE c = "n" -> "nl" [] c = "t" -> "tab" [] c = "r" -> "cr" [] c = "0" -> "NUL"
               [] OTHER -> c]

RECURSIVE StringBody(_, _, _, _)
\* The content up to the closing quote and the place behind it; 0 when the line
\* ends before, -1 at an unknown escape.
StringBody(src, p, quote, s) ==
  CASE At(src, p) \in {"nl", "end"} -> <<s, 0>>
    [] At(src, p) = quote -> <<s, p + 1>>
    [] At(src, p) = "\\" /\ quote # "\\" ->
         IF At(src, p + 1) \in DOMAIN Escape
         THEN StringBody(src, p + 2, quote, Append(s, Escape[At(src, p + 1)]))
         ELSE <<s, -1>>
    [] OTHER -> StringBody(src, p + 1, quote, Append(s, At(src, p)))

ReadString(src, lx, kind, from) ==
  LET b == StringBody(src, from + 1, At(src, from), <<>>) IN
  CASE b[2] = 0 -> Stop(lx, "open string")
    [] b[2] = -1 -> Stop(lx, "unknown escape")
    [] OTHER -> Push(lx, [Tok(kind, "") EXCEPT !.s = b[1]], b[2] - lx.p)

\* PUNCTS: tried in this order, so the longer ones stand before their starts.
Puncts == << <<"/", "/", "=">>, <<"/", "/">>, <<"*", "*">>, <<"<", "<">>, <<">", ">">>,
             <<"+", "=">>, <<"-", "=">>, <<"*", "=">>, <<"%", "=">>, <<"=", "=">>,
             <<"!", "=">>, <<"<", "=">>, <<">", "=">>, <<"-", ">">>, <<"+">>, <<"-">>,
             <<"*">>, <<"/">>, <<"%">>, <<"&">>, <<"|">>, <<"^">>, <<"~">>, <<"(">>,
             <<")">>, <<":">>, <<"=">>, <<"<">>, <<">">>, <<",">>, <<"[">>, <<"]">>, <<".">> >>

\* The text of an operator, for the parser to compare with.
Spelled(cs) == FoldLeft(LAMBDA a, c : a \o c, "", cs)

Matches(src, p, cs) == \A i \in 1 .. Len(cs) : At(src, p + i - 1) = cs[i]

ReadPunct(src, lx) ==
  LET hits == {i \in DOMAIN Puncts : Matches(src, lx.p, Puncts[i])} IN
  IF hits = {} THEN Stop(lx, "unknown character")
  ELSE LET cs == Puncts[CHOOSE i \in hits : \A j \in hits : i <= j]
           d  == CASE cs \in {<<"(">>, <<"[">>} -> lx.depth + 1
                   [] cs \in {<<")">>, <<"]">>} /\ lx.depth > 0 -> lx.depth - 1
                   [] OTHER -> lx.depth
       IN Push([lx EXCEPT !.depth = d], Tok("PUNCT", Spelled(cs)), Len(cs))

-----------------------------------------------------------------------------
(* The loop of tokenize() *)

Quote == {"\"", "'"}

ReadOne(src, lx) ==
  LET c == At(src, lx.p) IN
  CASE lx.bol /\ lx.depth = 0 -> LineStart(src, lx)
    [] OTHER ->
       LET in == [lx EXCEPT !.bol = FALSE] IN
       CASE c = "nl" /\ lx.depth = 0 -> Push([in EXCEPT !.bol = TRUE], Tok("NEWLINE", ""), 1)
         [] c = "nl" /\ lx.depth > 0 -> [in EXCEPT !.p = @ + 1]
         [] c = " " -> [in EXCEPT !.p = @ + 1]
         [] c = "tab" -> Stop(in, "tab")
         [] c = "#" -> [in EXCEPT !.p = LineEnd(src, @)]
         [] c \in Digits(10) -> ReadInt(src, in)
         [] c = "f" /\ At(src, lx.p + 1) \in Quote -> ReadString(src, in, "FSTRING", lx.p + 1)
         [] c \in Keyword -> Push(in, Tok("KEYWORD", c), 1)
         [] c \in Word /\ ~(c = "f" /\ At(src, lx.p + 1) \in Quote) -> Push(in, Tok("IDENT", c), 1)
         [] c \in Quote -> ReadString(src, in, "STR", lx.p)
         [] OTHER -> ReadPunct(src, in)

RECURSIVE Reading(_, _)
Reading(src, lx) ==
  IF lx.err # "" \/ lx.p > Len(src) THEN lx ELSE Reading(src, ReadOne(src, lx))

\* The tokens of a text, or the message it is refused with.
Tokenize(src) ==
  LET lx == Reading(src, Start) IN
  [toks |-> lx.out \o [i \in 1 .. Len(lx.indents) - 1 |-> Tok("DEDENT", "")] \o <<Tok("EOF", "")>>,
   err  |-> lx.err]
=============================================================================

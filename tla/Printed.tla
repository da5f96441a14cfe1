------------------------------ MODULE Printed ------------------------------
(***************************************************************************)
(* How a programmer writes a tree: a reference for the lexer and the       *)
(* parser, made from docs/ja/spec/language-spec.md (4.1 for the operators).*)
(* An expression has no more parentheses than its table of precedences     *)
(* demands, and every line stands at the indent of its block.              *)
(***************************************************************************)
EXTENDS Parser

-----------------------------------------------------------------------------
(* Expressions: sequences of tokens, each a sequence of pieces *)

Word1(x) == << <<x>> >>
Op(t) == << CHOOSE cs \in ToSet(Puncts) : Spelled(cs) = t >>

\* 4.1, the weakest first: how strong what a node is made of holds together.
Strength(e) ==
  CASE e.k = "cond" -> 0
    [] e.k = "bin" /\ e.t = "or" -> 1
    [] e.k = "bin" /\ e.t = "and" -> 2
    [] e.k = "un" /\ e.t = "not" -> 3
    [] e.k = "bin" /\ e.t \in {"==", "!=", "<", "<=", ">", ">=", "in", "not in", "is", "is not"} -> 3
    [] e.k = "bin" /\ e.t = "|" -> 4
    [] e.k = "bin" /\ e.t = "^" -> 5
    [] e.k = "bin" /\ e.t = "&" -> 6
    [] e.k = "bin" /\ e.t \in {"<<", ">>"} -> 7
    [] e.k = "bin" /\ e.t \in {"+", "-"} -> 8
    [] e.k = "bin" /\ e.t \in {"*", "/", "//", "%"} -> 9
    [] e.k = "un" /\ e.t # "not" -> 10
    [] e.k = "bin" /\ e.t = "**" -> 11
    [] OTHER -> 12

Decimal == [n \in 0 .. 999 |->
  LET d(i) == CHOOSE c \in Digits(10) : Digit[c] = i IN
  CASE n < 10 -> <<d(n)>>
    [] n >= 10 /\ n < 100 -> <<d(n \div 10), d(n % 10)>>
    [] n >= 100 -> <<d(n \div 100), d((n \div 10) % 10), d(n % 10)>>]

\* The pieces of a text between double quotes.
Quoted(s) == FoldLeft(LAMBDA a, c :
               a \o (CASE c = "\"" -> <<"\\", "\"">> [] c = "nl" -> <<"\\", "n">>
                       [] c = "tab" -> <<"\\", "t">> [] c = "\\" -> <<"\\", "\\">>
                       [] OTHER -> <<c>>), <<>>, s)

\* Two tokens that would become one, or a number and a letter behind it.
Clash(a, b) == Last(a) \in Letters \cup Digits(16) /\ b[1] \in Letters \cup Digits(16) \cup {"\""}

\* wide: a blank between all tokens, and breaks of line inside brackets.
Row(toks, wide) ==
  LET open(i) == Cardinality({j \in 1 .. i : toks[j] \in {<<"(">>, <<"[">>}})
                 > Cardinality({j \in 1 .. i : toks[j] \in {<<")">>, <<"]">>}})
      gap(i)  == CASE wide /\ open(i - 1) -> <<"nl", " ">>
                   [] wide /\ ~open(i - 1) -> <<" ">>
                   [] ~wide -> IF Clash(toks[i - 1], toks[i]) THEN <<" ">> ELSE <<>>
  IN FoldLeft(LAMBDA a, i : a \o gap(i) \o toks[i], toks[1], [i \in 1 .. Len(toks) - 1 |-> i + 1])

OpWords(t) ==
  CASE t \in {"or", "and", "in", "is"} -> Word1(t)
    [] t = "is not" -> Word1("is") \o Word1("not")
    [] t = "not in" -> Word1("not") \o Word1("in")
    [] OTHER -> Op(t)

RECURSIVE Show(_), Listed(_)
Paren(e, least) == IF Strength(e) < least THEN Op("(") \o Show(e) \o Op(")") ELSE Show(e)

\* Separated by commas.
Listed(es) == IF es = <<>> THEN <<>>
              ELSE FoldLeft(LAMBDA a, e : a \o Op(",") \o Show(e), Show(es[1]), Tail(es))

RECURSIVE Names(_, _)
\* a, (b, c)
Names(ts, inner) ==
  LET one(t) == IF t.k = "var" THEN Word1(t.t) ELSE Op("(") \o Names(t.c, TRUE) \o Op(")") IN
  FoldLeft(LAMBDA a, t : a \o Op(",") \o one(t), one(ts[1]), Tail(ts))
TargetText(t) == IF t.k = "var" THEN Word1(t.t) ELSE Names(t.c, FALSE)

\* A comprehension, or all(...) and any(...).
ShowComp(e) ==
  LET for == Show(e.c[1]) \o Word1("for") \o TargetText(e.c[2]) \o Word1("in") \o Paren(e.c[3], 1)
             \o (IF e.c[4] = Nil THEN <<>> ELSE Word1("if") \o Paren(e.c[4], 1))
  IN IF e.t = "" THEN Op("[") \o for \o Op("]") ELSE Word1(e.t) \o Op("(") \o for \o Op(")")

\* The content of an f-string: texts, and holes {e:format}.
FBody(parts) ==
  FoldLeft(LAMBDA a, p :
             a \o (IF p.k = "str"
                   THEN IF p.t \in {"{", "}"} THEN <<p.t, p.t>> ELSE Quoted(<<p.t>>)
                   ELSE <<"{">> \o Quoted(Row(Show(p.c[1]), FALSE))
                        \o (IF p.t = "" THEN <<>> ELSE <<":">> \o (CHOOSE f \in {<<"5">>, <<"0", ">", "5">>} :
                                                              Spelled(f) = p.t)) \o <<"}">>),
           <<>>, parts)

Show(e) ==
  LET s == Strength(e) IN
  CASE e.k = "int" -> <<Decimal[e.v]>>
    [] e.k \in {"var", "const"} -> Word1(e.t)
    [] e.k = "str" -> << <<"\"">> \o (IF e.t = "" THEN <<>> ELSE Quoted(<<e.t>>)) \o <<"\"">> >>
    [] e.k = "fstr" -> << <<"f", "\"">> \o FBody(e.c) \o <<"\"">> >>
    [] e.k = "cond" -> Paren(e.c[2], 1) \o Word1("if") \o Paren(e.c[1], 1) \o Word1("else") \o Show(e.c[3])
    [] e.k = "bin" /\ s = 3 -> Paren(e.c[1], 4) \o OpWords(e.t) \o Paren(e.c[2], 4)
    [] e.k = "bin" /\ s = 11 -> Paren(e.c[1], 12) \o Op("**") \o Paren(e.c[2], 10)
    [] e.k = "bin" /\ s \notin {3, 11} -> Paren(e.c[1], s) \o OpWords(e.t) \o Paren(e.c[2], s + 1)
    [] e.k = "un" -> (IF e.t = "not" THEN Word1("not") ELSE Op(e.t)) \o Paren(e.c[1], s)
    [] e.k = "call" -> Word1(e.t) \o Op("(") \o Listed(e.c) \o Op(")")
    [] e.k = "named" -> Word1(e.t) \o Op("=") \o Show(e.c[1])
    [] e.k = "method" -> Paren(e.c[1], 12) \o Op(".") \o Word1(e.t) \o Op("(") \o Listed(Tail(e.c)) \o Op(")")
    [] e.k = "field" -> Paren(e.c[1], 12) \o Op(".") \o Word1(e.t)
    [] e.k = "index" -> Paren(e.c[1], 12) \o Op("[") \o Listed(Tail(e.c)) \o Op("]")
    [] e.k = "slice" -> Paren(e.c[1], 12) \o Op("[") \o (IF e.c[2] = Nil THEN <<>> ELSE Show(e.c[2]))
                        \o Op(":") \o (IF e.c[3] = Nil THEN <<>> ELSE Show(e.c[3])) \o Op("]")
    [] e.k = "tuple" -> Op("(") \o Listed(e.c) \o Op(")")
    [] e.k = "list" -> Op("[") \o Listed(e.c) \o Op("]")
    [] e.k = "comp" -> ShowComp(e)

-----------------------------------------------------------------------------
(* Types *)

RECURSIVE ShowType(_)
Types(ts) == FoldLeft(LAMBDA a, t : a \o Op(",") \o ShowType(t), ShowType(ts[1]), Tail(ts))
Errors(es) == IF es = <<>> THEN <<>>
              ELSE FoldLeft(LAMBDA a, e : a \o Op("|") \o Word1(e.t), Word1("raises") \o Word1(es[1].t), Tail(es))
ShowType(t) ==
  CASE t.k = "type" -> Word1(t.t) \o (IF t.c = <<>> THEN <<>> ELSE Op("[") \o Types(t.c) \o Op("]"))
    [] t.k = "tuple" -> Op("(") \o Types(t.c) \o Op(")")
    [] t.k = "or None" -> ShowType(t.c[1]) \o Op("|") \o Word1("None")
    [] t.k \in {"fn", "closure"} ->
         Word1(t.k) \o Op("(") \o (IF t.c[1].c = <<>> THEN <<>> ELSE Types(t.c[1].c)) \o Op(")")
         \o Op("->") \o ShowType(t.c[2]) \o Errors(t.c[3].c)

-----------------------------------------------------------------------------
(* Statements and definitions: lines, each with the depth of its block *)

L(d, toks) == << [d |-> d, toks |-> toks] >>
Colon == Op(":")

RECURSIVE Lines(_, _)
All(sts, d) == FoldLeft(LAMBDA a, st : a \o Lines(st, d), <<>>, sts)
Under(head, body, d) == L(d, head \o Colon) \o All(body.c, d + 1)

RECURSIVE IfLines(_, _, _)
IfLines(n, word, d) ==
  Under(Word1(word) \o Show(n.c[1]), n.c[2], d)
  \o (CASE n.c[3] = Nil -> <<>>
        [] n.c[3].k = "if" -> IfLines(n.c[3], "elif", d)
        [] n.c[3].k = "block" -> Under(Word1("else"), n.c[3], d))

CaseHead(c) ==
  Word1("case") \o (IF c.c[1] = Nil THEN Word1("_") ELSE Paren(c.c[1], 1))
  \o (IF c.c[2] = Nil THEN <<>> ELSE Word1("if") \o Show(c.c[2]))

ParamText(p) ==
  Word1(p.t) \o (IF p.c[2] = Nil THEN <<>>
                 ELSE Colon \o (IF p.c[1].t = "" THEN <<>> ELSE Word1(p.c[1].t)) \o ShowType(p.c[2])
                      \o (IF p.c[3] = Nil THEN <<>> ELSE Op("=") \o Show(p.c[3])))
ParamsText(ps) == IF ps = <<>> THEN <<>>
                  ELSE FoldLeft(LAMBDA a, p : a \o Op(",") \o ParamText(p), ParamText(ps[1]), Tail(ps))
WordsText(ws) == FoldLeft(LAMBDA a, w : a \o Op(",") \o Word1(w.t), Word1(ws[1].t), Tail(ws))
InBrackets(ws, open, close) == IF ws = <<>> THEN <<>> ELSE Op(open) \o WordsText(ws) \o Op(close)

DefHead(n) ==
  Word1("def") \o Word1(n.t) \o InBrackets(n.c[4].c, "[", "]") \o Op("(") \o ParamsText(n.c[1].c) \o Op(")")
  \o Op("->") \o ShowType(n.c[2]) \o Errors(n.c[5].c)

Lines(n, d) ==
  CASE n.k = "if" -> IfLines(n, "if", d)
    [] n.k = "while" -> Under(Word1("while") \o Show(n.c[1]), n.c[2], d)
    [] n.k = "for" -> Under(Word1("for") \o TargetText(n.c[1]) \o Word1("in") \o Show(n.c[2]), n.c[3], d)
    [] n.k = "match" -> L(d, Word1("match") \o Show(n.c[1]) \o Colon)
                        \o FoldLeft(LAMBDA a, c : a \o Under(CaseHead(c), c.c[3], d + 1), <<>>, Tail(n.c))
    [] n.k = "try" -> Under(Word1("try"), n.c[1], d)
                      \o FoldLeft(LAMBDA a, x :
                           a \o Under(Word1("except") \o ShowType(x.c[1])
                                      \o (IF x.t = "" THEN <<>> ELSE Word1("as") \o Word1(x.t)), x.c[2], d),
                           <<>>, Tail(n.c))
    [] n.k \in {"scope", "unsafe"} -> Under(Word1(n.k), n.c[1], d)
    [] n.k \in {"break", "continue", "pass"} -> L(d, Word1(n.k))
    [] n.k = "return" -> L(d, Word1("return") \o (IF n.c[1] = Nil THEN <<>> ELSE Show(n.c[1])))
    [] n.k \in {"raise", "requires", "ensures"} -> L(d, Word1(n.k) \o Show(n.c[1]))
    [] n.k = "assert" -> L(d, Word1("assert") \o Show(n.c[1]))
    [] n.k = "decl" -> L(d, Word1(n.t) \o Colon \o ShowType(n.c[2]) \o Op("=") \o Show(n.c[1]))
    [] n.k = "assign" -> L(d, Show(n.c[1]) \o Op("=") \o Show(n.c[2]))
    [] n.k = "aug" -> L(d, Show(n.c[1]) \o Op(n.t \o "=") \o Show(n.c[2]))
    [] n.k = "swap" -> L(d, Listed(SubSeq(n.c, 1, n.v)) \o Op("=") \o Listed(SubSeq(n.c, n.v + 1, Len(n.c))))
    [] n.k = "unpack" -> L(d, Listed(Tail(n.c)) \o Op("=") \o Show(n.c[1]))
    [] n.k = "nested" -> L(d, TargetText(n.c[2]) \o Op("=") \o Show(n.c[1]))
    [] n.k = "func" /\ n.c[3] # Nil -> Under(DefHead(n), n.c[3], d)
    [] n.k = "func" /\ n.c[3] = Nil -> L(d, DefHead(n))
    [] n.k = "export" -> <<[Under(DefHead(n), n.c[3], d)[1] EXCEPT !.toks = Word1("extern") \o @]>>
                         \o Tail(Under(DefHead(n), n.c[3], d))
    [] n.k = "extern" -> L(d, Word1("extern") \o Word1("def") \o Word1(n.t) \o Op("(") \o ParamsText(n.c[1].c)
                              \o Op(")") \o Op("->") \o ShowType(n.c[2]))
    [] n.k \in {"class", "interface"} ->
         Under(Word1(n.k) \o Word1(n.t) \o InBrackets(n.c[1].c, "[", "]") \o InBrackets(n.c[2].c, "(", ")"),
               n.c[3], d)
    [] n.k = "fielddecl" -> L(d, Word1(n.t) \o Colon \o ShowType(n.c[1]))
    [] n.k = "enum" -> L(d, Word1("enum") \o Word1(n.t) \o Colon)
                       \o FoldLeft(LAMBDA a, b :
                            a \o L(d + 1, Word1(b.t) \o (IF b.c = <<>> THEN <<>>
                                                        ELSE Op("(") \o ParamsText(b.c) \o Op(")"))),
                            <<>>, n.c)
    [] n.k = "import" -> L(d, Word1("import") \o Word1(n.t)
                              \o (IF n.c[1].t = "" THEN <<>> ELSE Word1("as") \o Word1(n.c[1].t)))
    [] n.k = "rangedecl" ->
         LET num(i) == IF n.c[i].v < 0 THEN Op("-") \o <<Decimal[-n.c[i].v]>> ELSE <<Decimal[n.c[i].v]>> IN
         L(d, Word1("type") \o Word1(n.t) \o Op("=") \o Word1("int") \o Word1("range") \o Op("(") \o num(1)
              \o Op(",") \o num(2) \o Op(")"))
    [] OTHER -> L(d, Show(n))

-----------------------------------------------------------------------------
(* The text of a file in a layout *)

Blanks(n) == [i \in 1 .. n |-> " "]

\* layout: the width of a block's indent, whether rows are wide, and what stands
\* between the lines.
Text(file, layout) ==
  LET lines == All(file.c, 0)
      line(l) == layout.between \o Blanks(l.d * layout.width) \o Row(l.toks, layout.wide)
  IN FoldLeft(LAMBDA a, l : a \o line(l) \o <<"nl">>, <<>>, lines)

\* What the parser makes of an f-string: the parts in a row of "+".
RECURSIVE Plain(_)
Plain(e) ==
  LET part(p) == CASE p.k = "str" -> p
                   [] p.k # "str" /\ p.t = "" -> Call("str", <<Plain(p.c[1])>>)
                   [] p.k # "str" /\ p.t # "" ->
                        Call("fmt.pad", <<Call("str", <<Plain(p.c[1])>>), Num(5),
                                          Node("str", IF p.t = "5" THEN "<" ELSE ">", <<>>),
                                          Node("str", IF p.t = "5" THEN " " ELSE "0", <<>>)>>)
  IN IF e.k = "fstr"
     THEN IF e.c = <<>> THEN Node("str", "", <<>>)
          ELSE FoldLeft(LAMBDA a, p : Bin("+", a, part(p)), part(e.c[1]), Tail(e.c))
     ELSE [e EXCEPT !.c = [i \in DOMAIN @ |-> Plain(@[i])]]
=============================================================================

---------------------------- MODULE MCFrontend ----------------------------
(***************************************************************************)
(* The texts the front end is run on: printed expressions, statements and  *)
(* definitions, programs with everything that is rewritten, layouts of     *)
(* short lines, and numbers in every base.                                 *)
(***************************************************************************)
EXTENDS Frontend

MCKeyword == {"def", "if", "elif", "else", "while", "for", "in", "not", "and", "or", "is", "match",
              "return", "break", "continue", "pass", "lambda", "import", "as", "class", "interface",
              "raise", "raises", "try", "except", "unsafe", "extern", "mut", "own", "None", "True",
              "False", "assert"}
MCWord == {"x", "y", "z", "w", "r", "s", "i", "j", "f", "g", "a", "b", "e", "o", "n", "t", "T", "U", "_",
           "main", "print", "tick", "len", "append", "range", "enumerate", "all", "any", "old", "case",
           "requires", "ensures", "scope", "enum", "type", "int", "list", "fn", "self", "result", "c",
           "Circle", "Pair", "Dot", "Shape", "Box", "Full", "Hollow", "xs", "ys", "ps", "sh", "bx", "panic", "grow"}
MCEnums == [Shape |-> <<[t |-> "Circle", c |-> <<"r">>], [t |-> "Pair", c |-> <<"a", "b">>],
                        [t |-> "Dot", c |-> <<>>]>>,
            Box   |-> <<[t |-> "Full", c |-> <<"s">>], [t |-> "Hollow", c |-> <<>>]>>]
MCCursored == {"c"}
MCLists == << <<I(2), I(0), I(5)>>,
              <<Val("tuple", 0, "", <<I(1), I(4)>>), Val("tuple", 0, "", <<I(3), I(2)>>)>>,
              <<I(7), I(8)>> >>
MCVars == [v \in {"xs", "ps", "c"} |-> CASE v = "xs" -> List(1) [] v = "ps" -> List(2) [] v = "c" -> List(3)]

-----------------------------------------------------------------------------
(* Trees that are read back *)

X == Var("x")
Y == Var("y")
Un(op, e) == Node("un", op, <<e>>)
Cond(c, a, b) == Node("cond", "", <<c, a, b>>)

\* Every form an expression has, with e in one of its places.
Around(e) ==
  {Bin(op, e, Y) : op \in {"or", "and", "==", "not in", "is not", "|", "^", "&", "<<", "-", "//", "**"}}
  \cup {Bin(op, X, e) : op \in {"or", "and", "<", "in", "|", "^", "&", ">>", "+", "%", "**"}}
  \cup {Un(op, e) : op \in {"not", "-", "~"}}
  \cup {Cond(e, X, Y), Cond(X, e, Y), Cond(X, Y, e),
        Call("f", <<e, Y>>), Call("f", <<X, Node("named", "y", <<e>>)>>),
        Node("method", "g", <<e, X>>), Node("field", "b", <<e>>), Index(e, Num(1)), Node("index", "", <<X, e, Y>>),
        Node("slice", "", <<X, e, Nil>>), Node("slice", "", <<e, Nil, Y>>),
        Node("tuple", "", <<X, e>>), Node("list", "", <<e, Y>>),
        Node("fstr", "", <<Node("str", "a", <<>>), Node("hole", "", <<e>>), Node("str", "{", <<>>),
                           Node("hole", "5", <<Y>>)>>)}

\* An f-string in a hole of an f-string is left out: it is no tree of its own.
Expressions ==
  {e \in UNION {Around(e) : e \in Around(Num(42)) \cup {Node("str", "\"", <<>>), Node("list", "", <<>>)}} :
     ~(e.k = "fstr" /\ e.c[2].c[1].k = "fstr")}

\* A main with one statement in it, and a file with one definition.
IntType == Node("type", "int", <<>>)
Func(name, params, body) ==
  Node("func", name, <<Block(params), IntType, Block(body), Block(<<>>), Block(<<>>)>>)
Main(stmts) == Block(<<Func("main", <<>>, stmts)>>)
Pass == Node("pass", "", <<>>)
Out(e) == Call("print", <<e>>)
If(c, a, b) == Node("if", "", <<c, Block(a), b>>)
P1(x, mode, type, def) == Node("param", x, <<Var(mode), type, def>>)

Bodies ==
  LET call == Call("f", <<X>>) inner == {<<Pass>>, <<call, If(X, <<Pass>>, Nil)>>} IN
  {<<If(X, b, e)>> : b \in inner, e \in {Nil, Block(<<call>>), If(Y, <<call>>, Block(<<Pass>>))}}
  \cup {<<While(X, Block(b), Nil), call>> : b \in inner}
  \cup {<<Node("match", "", <<X, Node("case", "", <<p, g, Block(b)>>), Node("case", "", <<Nil, Nil, Block(b)>>)>>)>> :
          p \in {Num(3), Node("method", "Pair", <<Var("Shape"), X, Node("field", "Dot", <<Var("Shape")>>)>>)},
          g \in {Nil, Cond(X, Y, X)}, b \in inner}
  \cup {<<Node("try", "", <<Block(b), Node("except", "e", <<Node("type", "T", <<>>), Block(b)>>),
                            Node("except", "", <<Node("type", "U", <<>>), Block(<<Pass>>)>>)>>)>> : b \in inner}
  \cup {<<Node(k, "", <<Block(b)>>), call>> : k \in {"scope", "unsafe"}, b \in inner}
  \cup {<<Node("requires", "", <<X>>), Node("ensures", "", <<Y>>), Node("return", "", <<e>>)>> :
          e \in {Nil, X, Node("tuple", "", <<X, Y>>)}}
  \cup {<<Node("decl", "x", <<Num(1), t>>), Assign(p, Y), Node("unpack", "", <<call, X, Y>>), Node("raise", "", <<X>>)>> :
          t \in {IntType, Node("tuple", "", <<IntType, Node("type", "list", <<IntType>>)>>),
                 Node("or None", "", <<Node("type", "T", <<>>)>>),
                 Node("fn", "", <<Block(<<IntType>>), Node("or None", "", <<Node("type", "T", <<>>)>>),
                                  Block(<<Var("U"), Var("e")>>)>>)},
          p \in {X, Index(X, Num(1)), Node("field", "b", <<X>>)}}

Definitions ==
  LET sig(ps, ts, es) == <<Block(ps), IntType, Block(<<Pass>>), Block(ts), Block(es)>>
      self == P1("self", "", Nil, Nil)
      method == Node("func", "f", sig(<<self, P1("x", "own", IntType, Nil)>>, <<>>, <<>>))
      field == Node("fielddecl", "b", <<IntType>>)
  IN {Node("func", "f", sig(<<P1("x", "mut", IntType, Nil), P1("y", "", IntType, d)>>, <<Var("T")>>, <<Var("e"), Var("U")>>)) :
        d \in {Nil, Num(5), Un("-", Num(5)), Node("const", "None", <<>>), Node("field", "Dot", <<Var("Shape")>>)}}
     \cup {Node("class", "T", <<Block(ts), Block(is), Block(ms)>>) :
             ts \in {<<>>, <<Var("U")>>}, is \in {<<>>, <<Var("a"), Var("b")>>}, ms \in {<<field>>, <<field, method>>}}
     \cup {Node("interface", "T", <<Block(<<>>), Block(<<>>), Block(<<[method EXCEPT !.c[3] = Nil]>>)>>)}
     \cup {Node("enum", "T", <<Node("enumval", "a", <<>>), [Node("enumval", "b", <<>>) EXCEPT !.v = 1]>>)}
     \cup {Node("import", "a", <<Var(as)>>) : as \in {"", "b"}}
     \cup {Node("rangedecl", "T", <<Num(lo), Num(12)>>) : lo \in {-3, 0, 12}}
     \cup {Node("extern", "f", <<Block(<<P1("x", "", IntType, Nil)>>), IntType>>), Node("export", "f", sig(<<>>, <<>>, <<>>))}
     \cup {Node("decl", "x", <<Num(1), IntType>>)}

Files == {Main(<<Assign(X, e)>>) : e \in Expressions} \cup {Main(b) : b \in Bodies}
         \cup {Block(<<d, Func("main", <<>>, <<Pass>>)>>) : d \in Definitions}

Layouts == {[width |-> 1, wide |-> FALSE, between |-> <<>>],
            [width |-> 2, wide |-> TRUE, between |-> <<"nl", " ", "#", "x", "nl", " ", " ", " ", "nl">>]}

-----------------------------------------------------------------------------
(* Programs *)

V(x) == Var(x)
Neg(n) == Un("-", Num(n))
Ranged(args) == Call("range", args)
Tick(e) == Call("tick", <<e>>)
Meth(m, e, args) == Node("method", m, <<e>> \o args)
Targets2(a, b) == Node("targets", "", <<a, b>>)
ForIn(t, e, body) == Node("for", "", <<t, e, Block(body)>>)
Brk == Node("break", "", <<>>)
Cont == Node("continue", "", <<>>)
Ret == Node("return", "", <<Num(0)>>)
AugSt(op, t, e) == Node("aug", op, <<t, e>>)

\* What is walked, with the target that fits.
I2 == V("i")
Walks ==
  {<<I2, Ranged(args)>> : args \in {<<Num(3)>>, <<V("n"), Tick(V("r"))>>, <<Num(3), Neg(1), Neg(2)>>,
                                  <<Num(0), V("r"), V("s")>>, <<Tick(V("r")), V("n"), Un("-", V("s"))>>,
                                  <<V("n"), Num(3), V("z")>>, <<Num(120), Num(127), Num(4)>>}}
  \cup {<<I2, V("xs")>>, <<I2, V("c")>>,
        <<Targets2(I2, V("b")), V("ps")>>, <<Targets2(V("b"), I2), Call("enumerate", <<V("xs")>>)>>,
        <<Targets2(I2, Targets2(V("a"), V("b"))), Call("enumerate", <<V("ps")>>)>>}
Rows ==
  LET seen == Out(I2) two == Bin("==", I2, Num(2)) IN
  {<<seen>>, <<If(Bin("==", I2, Num(0)), <<Cont>>, Nil), seen>>, <<If(two, <<Brk>>, Nil), seen>>, <<seen, If(two, <<Ret>>, Nil)>>,
   <<AugSt("-", V("r"), Num(1)), seen>>, <<Assign(I2, Num(1)), seen>>,
   <<If(two, <<Meth("append", V("xs"), <<Num(9)>>)>>, Nil), seen>>,
   <<ForIn(V("j"), Ranged(<<Num(2)>>), <<If(two, <<Cont>>, Nil), Out(Bin("+", I2, V("j"))), Brk>>), seen>>}
Start2 == <<Assign(V("n"), Num(1)), Assign(V("r"), Num(4)), Assign(V("s"), Num(2)), Assign(V("z"), Num(0))>>
Loops == {Main(Start2 \o <<ForIn(w[1], w[2], row), Out(V("r")), Out(V("xs"))>>) : w \in Walks, row \in Rows}

\* One statement that is rewritten, and everything it can have changed.
At2(e) == Index(V("xs"), e)
Updates ==
  {AugSt(op, t, e) : op \in {"+", "-", "//"}, t \in {V("n"), At2(Num(1)), At2(Tick(V("n"))), At2(Neg(1)), At2(Num(3))},
                     e \in {V("s"), V("z"), Tick(At2(V("n"))), Num(127), Call("grow", <<V("xs")>>)}}
  \cup {[Node("swap", "", a \o b) EXCEPT !.v = Len(a)] :
           a \in {<<V("n"), V("s")>>},
           b \in {<<V("s"), V("n")>>, <<Num(7), Bin("+", V("n"), V("r"))>>, <<Tick(V("n")), Bin("//", V("n"), V("z"))>>}}
  \cup {[Node("swap", "", <<V("n"), V("s"), V("r"), V("s"), V("r"), Bin("+", V("n"), V("s"))>>) EXCEPT !.v = 3]}
  \cup {Node("nested", "", <<Node("tuple", "", <<V("r"), Node("tuple", "", <<V("s"), V("n")>>)>>),
                            Targets2(V("n"), Targets2(V("r"), V("s")))>>)}
  \cup {Node("assert", "", <<c>>) : c \in {Bin("<", V("n"), V("r")), Bin("<", V("r"), V("n")),
                                         Bin("or", Bin("==", V("z"), Num(1)), Bin("==", Num(0), V("n")))}}
Grow == Func("grow", <<P1("ys", "mut", Node("type", "list", <<IntType>>), Nil)>>,
             <<Meth("append", V("ys"), <<Num(6)>>), Assign(Index(V("ys"), Num(1)), Num(3)),
               Node("return", "", <<Num(2)>>)>>)
Changes == {Block(<<Grow, Func("main", <<>>, Start2 \o <<u>> \o <<Out(V("n")), Out(V("s")), Out(V("r")), Out(V("xs"))>>)>>) :
              u \in Updates}

\* Comprehensions; what they have printed and made.
CompOf(kind, e, t, src, cond) == Node("comp", kind, <<e, t, src, cond>>)
Comps ==
  LET srcs == {<<w[1], w[2]>> : w \in {w \in Walks : w[2].t \notin {"c", "enumerate"} /\ w[2].c # <<Num(120), Num(127), Num(4)>>}}
      cond == {Nil, Bin("<", I2, Num(3)), Bin("==", Tick(I2), Num(2))}
  IN {CompOf("", e, w[1], w[2], c) : w \in srcs, c \in cond, e \in {I2, Tick(Bin("*", I2, Num(2))), Call("len", <<V("xs")>>)}}
     \cup {CompOf(k, e, w[1], w[2], c) : w \in srcs, c \in cond, k \in {"all", "any"},
                                         e \in {Bin("<", Num(1), Tick(I2)), Bin("<", I2, Num(9))}}
     \cup {CompOf("", CompOf("", Bin("+", I2, V("j")), V("j"), Ranged(<<I2>>), Nil), I2, Ranged(<<Num(3)>>), Nil)}
Comprehensions == {Main(Start2 \o <<IF c.t = "" THEN Assign(V("ys"), c) ELSE Assign(V("y"), c)>>
                        \o (IF c.t = "" THEN <<Out(Call("len", <<V("ys")>>)), IF c.c[1].k = "comp" THEN Out(Index(V("ys"), Num(2))) ELSE Out(V("ys"))>>
                           ELSE <<Out(V("y"))>>) \o <<Out(V("n"))>>) : c \in Comps}

\* Functions with defaults and contracts, called with every mix of arguments.
Ints == Node("type", "list", <<IntType>>)
Contracted(pre, post, body) ==
  Func("f", <<P1("ys", "mut", Ints, Nil), P1("x", "", IntType, Nil), P1("y", "", IntType, Num(2))>>,
       [i \in DOMAIN pre |-> Node("requires", "", <<pre[i]>>)] \o [i \in DOMAIN post |-> Node("ensures", "", <<post[i]>>)]
       \o body)
Old(e) == Call("old", <<e>>)
Size(xs) == Call("len", <<xs>>)
Named(x, e) == Node("named", x, <<e>>)
Calls ==
  LET ys == V("ys") y0 == Index(V("ys"), Num(0))
      grow == Meth("append", ys, <<V("x")>>)
      ret(e) == Node("return", "", <<e>>)
  IN {Block(<<Contracted(pre, post, body), Func("main", <<>>, Start2 \o <<Out(Call("f", <<V("xs")>> \o args)), Out(V("xs"))>>)>>) :
        pre \in {<<>>, <<Bin("<", V("x"), V("y"))>>},
        post \in {<<Bin(">", V("result"), Old(Size(ys)))>>,
                 <<Bin("==", Old(y0), y0), Bin("==", Size(ys), Bin("+", Old(Size(ys)), Old(V("y"))))>>},
        body \in {<<grow, ret(Size(ys))>>, <<If(Bin(">", V("y"), Num(3)), <<ret(V("x"))>>, Nil), Assign(y0, V("x")), grow, grow, ret(V("y"))>>},
        args \in {<<Num(1)>>, <<Num(1), Num(4)>>, <<Named("y", Tick(Num(1))), Named("x", Tick(Num(0)))>>,
                 <<Tick(Num(3)), Named("y", Tick(V("r")))>>, <<Named("x", V("n"))>>}}

\* match: three cases and perhaps case _, run for every kind of value.
Pattern(enum, b, args) == IF args = <<>> THEN Node("field", b, <<V(enum)>>) ELSE Meth(b, V(enum), args)
CaseOf(p, g, body) == Node("case", "", <<p, g, Block(body)>>)
ShapeCases ==
  LET r == V("r") a == V("a") b == V("b") s == V("s") circle(x) == Pattern("Shape", "Circle", <<x>>)
      pair(x, y) == Pattern("Shape", "Pair", <<x, y>>)
  IN {CaseOf(circle(r), Bin(">", Tick(r), Num(2)), <<Out(r)>>), CaseOf(circle(r), Nil, <<Out(Bin("+", r, Num(10)))>>),
      CaseOf(circle(Num(3)), Nil, <<Out(Num(33))>>),
      CaseOf(pair(Pattern("Box", "Full", <<s>>), b), Bin("<", b, s), <<Out(s)>>), CaseOf(pair(Pattern("Box", "Hollow", <<>>), b), Nil, <<Out(b)>>),
      CaseOf(pair(Pattern("Box", "Full", <<Num(1)>>), Num(1)), Nil, <<Out(Num(44))>>),
      CaseOf(pair(a, b), Nil, <<Out(Bin("+", b, Num(50)))>>), CaseOf(Pattern("Shape", "Dot", <<>>), Nil, <<Out(Num(60))>>)}
NumCases == {CaseOf(Num(i), g, <<Out(Num(i + 20))>>) : i \in {1, 3}, g \in {Nil, Bin("<", Tick(V("w")), Num(2))}}
Shapes == {Pattern("Shape", "Circle", <<Num(1)>>), Pattern("Shape", "Circle", <<Num(3)>>), Pattern("Shape", "Dot", <<>>),
           Pattern("Shape", "Pair", <<Pattern("Box", "Full", <<Num(1)>>), Num(1)>>),
           Pattern("Shape", "Pair", <<Pattern("Box", "Full", <<Num(4)>>), Num(1)>>),
           Pattern("Shape", "Pair", <<Pattern("Box", "Hollow", <<>>), Num(2)>>)}
Picks(cs, end, values, type) ==
  LET try == Func("f", <<P1("x", "", Node("type", type, <<>>), Nil), P1("w", "", IntType, Nil)>>,
                  <<Node("match", "", <<V("x")>> \o cs \o end), Ret>>) IN
  Block(<<try, Func("main", <<>>, [i \in DOMAIN values |-> Call("f", <<values[i], Num(i)>>)])>>)
Ends == {<<>>, <<CaseOf(Nil, Nil, <<Out(Num(99))>>)>>}
Matchings ==
  {Picks(t, e, SetToSeq(Shapes), "Shape") : t \in {t \in ShapeCases \X ShapeCases \X ShapeCases : Cardinality({t[1], t[2], t[3]}) = 3}, e \in Ends}
  \cup {Picks(t, e, <<Num(1), Num(3), Num(4), Num(1)>>, "int") : t \in NumCases \X NumCases, e \in Ends}

-----------------------------------------------------------------------------
(* Layouts and numbers *)

\* Short files by the indents of their lines.  A line is a word, or a pair of
\* brackets over two lines of which the second has no say in the layout.
Indents == UNION {[1 .. n -> 0 .. 3] : n \in 1 .. 4}
           \cup {<<0, 1, 2, 3, 4>>, <<0, 1, 2, 3, 4, 2, 4, 6>>, <<0, 1, 2, 3, 4, 5>>, <<0, 1, 2, 3, 4, 4, 5, 0>>}
InRows(indents, row, between) ==
  FoldLeft(LAMBDA a, d : a \o between \o Blanks(d) \o row \o <<"nl">>, <<>>, indents)
Plainly == [row |-> <<"x">>, between |-> <<>>]
Oddly == [row |-> <<"(", "nl", " ", "x", ")">>, between |-> <<" ", " ", "nl", " ", "#", "x", "nl">>]

\* The digits of n in a base, the last of them behind an underscore if asked.
RECURSIVE InBase(_, _)
InBase(n, base) ==
  LET d == CHOOSE c \in Digits(base) : Digit[c] = n % base IN
  (IF n < base THEN <<>> ELSE InBase(n \div base, base)) \o <<d>>
Prefix == [b \in {2, 8, 10, 16} |-> CASE b = 2 -> <<"0", "b">> [] b = 8 -> <<"0", "o">> [] b = 10 -> <<>> [] b = 16 -> <<"0", "x">>]
Number(n, base, under) ==
  LET ds == InBase(n, base) IN
  Prefix[base] \o (IF under /\ Len(ds) > 1 THEN Front(ds) \o <<"_", Last(ds)>> ELSE ds) \o <<"nl">>
\* In base 2 no more digits than the buffer holds.
Literals == {<<n, base, under>> \in ({0, 1, 7, 8, 9, 10, 15, 16, 63, 64, 99, 100} \cup 125 .. 131 \cup {255, 256}) \X {2, 8, 10, 16} \X BOOLEAN :
               base = 2 => n < 128}

Programs == Loops \cup Changes \cup Comprehensions \cup Calls \cup Matchings
Close == [width |-> 1, wide |-> FALSE, between |-> <<>>]
Task(kind, file, how) == [kind |-> kind, file |-> file, how |-> how]
MCTasks == {Task("tree", f, l) : f \in Files, l \in Layouts}
           \cup {Task("program", f, Close) : f \in Programs}
           \cup {Task("layout", i, l) : i \in Indents, l \in {Plainly, Oddly}}
           \cup {Task("literal", l[1], [base |-> l[2], under |-> l[3]]) : l \in Literals}
MCTextOf(t) ==
  CASE t.kind = "layout" -> InRows(t.file, t.how.row, t.how.between)
    [] t.kind = "literal" -> Number(t.file, t.how.base, t.how.under)
    [] OTHER -> Text(t.file, t.how)
=============================================================================

------------------------------- MODULE Parser -------------------------------
(***************************************************************************)
(* The recursive-descent parser (parser.c): expressions, types, statements *)
(* and functions.  It rewrites as it reads: for, augmented and tuple       *)
(* assignments, assert, f-strings and lambdas become simpler nodes that    *)
(* use variables with names no program can write (hidden_name).            *)
(*                                                                         *)
(* Every rule takes a parser state and gives the node it read and the      *)
(* state behind it.  A refused program leaves its message in "err"; from   *)
(* then on every token is an error token, so that no rule reads on.        *)
(***************************************************************************)
EXTENDS Lexer, TLC

Node(k, t, c) == [k |-> k, t |-> t, v |-> 0, c |-> c]
Nil == Node("", "", <<>>)
Num(n) == [Nil EXCEPT !.k = "int", !.v = n]
Var(x) == Node("var", x, <<>>)
Str(s) == Node("str", Spelled(s), <<>>)
Bin(op, a, b) == Node("bin", op, <<a, b>>)
Call(f, args) == Node("call", f, args)
Block(stmts) == Node("block", "", stmts)
Assign(target, e) == Node("assign", "", <<target, e>>)
Index(xs, i) == Node("index", "", <<xs, i>>)

Parsing(toks, hid) == [toks |-> toks, pos |-> 1, hid |-> hid, lam |-> <<>>, err |-> ""]
R(n, p) == [n |-> n, p |-> p]

PeekAt(p, i) == IF p.err # "" THEN Tok("ERR", "")
                ELSE IF p.pos + i <= Len(p.toks) THEN p.toks[p.pos + i] ELSE Last(p.toks)
Peek(p) == PeekAt(p, 0)
Adv(p) == IF Peek(p).k \in {"EOF", "ERR"} THEN p ELSE [p EXCEPT !.pos = @ + 1]
Fail(p, code) == IF p.err = "" THEN [p EXCEPT !.err = code] ELSE p

IsTok(tok, k, texts) == tok.k = k /\ tok.t \in texts
IsP(p, t) == IsTok(Peek(p), "PUNCT", {t})
IsKw(p, t) == IsTok(Peek(p), "KEYWORD", {t})
Soft(p, t) == IsTok(Peek(p), "IDENT", {t})
NextP(p, t) == IsTok(PeekAt(p, 1), "PUNCT", {t})
IsId(p) == Peek(p).k = "IDENT"

Expect(p, t) == IF IsP(p, t) THEN Adv(p) ELSE Fail(p, "expected " \o t)
ExpectKw(p, t) == IF IsKw(p, t) THEN Adv(p) ELSE Fail(p, "expected " \o t)
ExpectKind(p, k) == IF Peek(p).k = k THEN Adv(p) ELSE Fail(p, "expected " \o k)

\* A name the program cannot write: the lexer reads no "." inside a name.
Hidden(p, tag) == tag \o "." \o ToString(p.hid)
Hide(p) == [p EXCEPT !.hid = @ + 1]
HiddenDecl(x, e) == Node("decl", x, <<e>>)

RECURSIVE Expr(_), OrExpr(_), NotExpr(_), Unary(_), Postfix(_), Trailers(_), Items(_, _),
          Binary(_, _), Chain(_, _), Lambda(_), ListComp(_, _, _), FString(_, _), Holes(_, _), TypeRef(_),
          Targets(_)

-----------------------------------------------------------------------------
(* Expressions, the loosest first *)

\* What binds left to right, by how tightly it binds.  3 is comparison and not.
Ops == << {"or"}, {"and"}, {}, {"|"}, {"^"}, {"&"}, {"<<", ">>"}, {"+", "-"},
          {"//", "*", "/", "%"} >>
OpKind(l) == IF l <= 2 THEN "KEYWORD" ELSE "PUNCT"
Comparing == {"==", "!=", "<=", ">=", "<", ">"}

\* a if condition else b; the value before "if" and the condition are without
\* a conditional of their own.
Expr(p) ==
  LET a == OrExpr(p) IN
  IF ~IsKw(a.p, "if") THEN a
  ELSE LET cond == OrExpr(Adv(a.p))
           b    == Expr(ExpectKw(cond.p, "else"))
       IN R(Node("cond", "", <<cond.n, a.n, b.n>>), b.p)

OrExpr(p) == Binary(p, 1)

\* The functions of the levels call one another down to the tightest; each reads
\* l op l op ... from the left.  Here: an operator of level k, l or tighter,
\* takes what is read so far and an operand of level k + 1.
Level(tok) == LET ls == {l \in DOMAIN Ops : IsTok(tok, OpKind(l), Ops[l])} IN
              IF ls = {} THEN 0 ELSE CHOOSE l \in ls : TRUE
Operand(p, l) == IF l <= 3 THEN NotExpr(p) ELSE Unary(p)
Binary(p, l) == Chain(Operand(p, l), l)

\* Mutant of Chain: the operand to the right is of the same level.
ChainRight(a, l) ==
  LET t == Peek(a.p) k == Level(t) IN
  IF k < l THEN a
  ELSE LET b == Binary(Adv(a.p), k) IN Chain(R(Bin(t.t, a.n, b.n), b.p), l)

Chain(a, l) ==
  LET t == Peek(a.p) k == Level(t) IN
  IF k < l THEN a
  ELSE LET b == Binary(Adv(a.p), k + 1) IN Chain(R(Bin(t.t, a.n, b.n), b.p), l)

\* At most one comparison, is, is not, in or not in.
Comparison(p) ==
  LET a   == Binary(p, 4)
      neg == IsKw(a.p, "not") /\ IsTok(PeekAt(a.p, 1), "KEYWORD", {"in"})
      op  == CASE IsKw(a.p, "is") /\ IsKw(Adv(a.p), "not") -> <<"is not", 2>>
               [] IsKw(a.p, "is") /\ ~IsKw(Adv(a.p), "not") -> <<"is", 1>>
               [] IsKw(a.p, "in") -> <<"in", 1>>
               [] neg -> <<"not in", 2>>
               [] IsTok(Peek(a.p), "PUNCT", Comparing) -> <<Peek(a.p).t, 1>>
               [] OTHER -> <<"", 0>>
      b   == Binary(IF op[2] = 2 THEN Adv(Adv(a.p)) ELSE Adv(a.p), 4)
  IN CASE op[2] = 0 -> a
       [] op[1] \in Comparing /\ IsTok(Peek(b.p), "PUNCT", Comparing) -> R(b.n, Fail(b.p, "chained"))
       [] OTHER -> R(Bin(op[1], a.n, b.n), b.p)

NotExpr(p) ==
  IF IsKw(p, "not") THEN LET e == NotExpr(Adv(p)) IN R(Node("un", "not", <<e.n>>), e.p)
  ELSE Comparison(p)

\* The right side of ** is a unary expression: 2 ** -1, and a ** b ** c from
\* the right.
Power(p) ==
  LET base == Postfix(p) IN
  IF IsP(base.p, "**")
  THEN LET e == Unary(Adv(base.p)) IN R(Bin("**", base.n, e.n), e.p)
  ELSE base

Unary(p) ==
  IF IsTok(Peek(p), "PUNCT", {"-", "+", "~"})
  THEN LET e == Unary(Adv(p)) IN R(Node("un", Peek(p).t, <<e.n>>), e.p)
  ELSE Power(p)

\* f(name = e) or f(e)
CallArg(p) ==
  IF IsId(p) /\ NextP(p, "=")
  THEN LET e == Expr(Adv(Adv(p))) IN R(Node("named", Peek(p).t, <<e.n>>), e.p)
  ELSE Expr(p)

\* One or more of something, with commas; a list and a tuple may end in one.
Items(p, what) ==
  LET one  == CASE what \in {"expr", "elem"} -> Expr(p)
                [] what = "arg" -> CallArg(p)
                [] what = "type" -> TypeRef(p)
      more == IsP(one.p, ",") /\ ~(what = "elem" /\ Adv(one.p).pos # one.p.pos
                                   /\ IsTok(PeekAt(one.p, 1), "PUNCT", {")", "]"}))
      rest == Items(Adv(one.p), what)
  IN IF more THEN R(<<one.n>> \o rest.n, rest.p) ELSE R(<<one.n>>, one.p)

\* A bracketed list that may be empty.
Bracketed(p, what, close) ==
  IF IsP(p, close) THEN R(<<>>, Adv(p))
  ELSE LET es == Items(p, what) IN
       R(es.n, Expect(IF what = "elem" /\ IsP(es.p, ",") THEN Adv(es.p) ELSE es.p, close))

Primary(p) ==
  LET t == Peek(p) q == Adv(p) IN
  CASE IsKw(p, "lambda") -> Lambda(p)
    [] IsP(p, "(") ->
         LET e == Expr(q) es == Bracketed(q, "elem", ")") IN
         IF IsP(e.p, ",") THEN R(Node("tuple", "", es.n), es.p) ELSE R(e.n, Expect(e.p, ")"))
    [] t.k = "INT" -> R(Num(t.v), q)
    [] t.k = "FLOAT" -> R(Node("float", Spelled(t.s), <<>>), q)
    [] t.k = "IDENT" -> R(Var(t.t), q)
    [] t.k = "STR" -> R(Str(t.s), q)
    [] t.k = "FSTRING" -> FString(q, t.s)
    [] t.k = "KEYWORD" /\ t.t \in {"None", "True", "False"} -> R(Node("const", t.t, <<>>), q)
    [] IsP(p, "[") ->
         LET e == Expr(q) es == Bracketed(q, "elem", "]") IN
         IF ~IsP(q, "]") /\ IsKw(e.p, "for") THEN ListComp(e.p, e.n, "]")
         ELSE R(Node("list", "", es.n), es.p)
    [] OTHER -> R(Nil, Fail(p, "expected an expression"))

\* Calls, indices, slices, fields and methods, from the left.
Postfix(p) == Trailers(Primary(p))

Trailers(a) ==
  LET p == a.p q == Adv(a.p) IN
  CASE IsP(p, "[") /\ IsP(q, ":") -> 
         LET hi == IF IsP(Adv(q), "]") THEN R(Nil, Adv(q)) ELSE Expr(Adv(q)) IN
         Trailers(R(Node("slice", "", <<a.n, Nil, hi.n>>), Expect(hi.p, "]")))
    [] IsP(p, "[") /\ ~IsP(q, ":") ->
         LET lo == Expr(q)
             hi == IF IsP(Adv(lo.p), "]") THEN R(Nil, Adv(lo.p)) ELSE Expr(Adv(lo.p))
             ix == Items(q, "expr")
         IN IF IsP(lo.p, ":")
            THEN Trailers(R(Node("slice", "", <<a.n, lo.n, hi.n>>), Expect(hi.p, "]")))
            ELSE Trailers(R(Node("index", "", <<a.n>> \o ix.n), Expect(ix.p, "]")))
    [] IsP(p, ".") /\ ~IsId(q) -> R(a.n, Fail(q, "expected a name"))
    [] IsP(p, ".") /\ IsId(q) /\ ~NextP(q, "(") ->
         Trailers(R(Node("field", Peek(q).t, <<a.n>>), Adv(q)))
    [] IsP(p, ".") /\ IsId(q) /\ NextP(q, "(") ->
         LET args == Bracketed(Adv(Adv(q)), "arg", ")") IN
         Trailers(R(Node("method", Peek(q).t, <<a.n>> \o args.n), args.p))
    [] IsP(p, "(") /\ a.n.k # "var" -> R(a.n, Fail(p, "not callable"))
    [] IsP(p, "(") /\ a.n.k = "var" ->
         LET first == CallArg(q) args == Bracketed(q, "arg", ")") IN
         IF /\ a.n.t \in {"all", "any"} /\ ~IsP(q, ")")
            /\ first.n.k # "named" /\ IsKw(first.p, "for")
         THEN LET c == ListComp(first.p, first.n, ")") IN
              Trailers(R([c.n EXCEPT !.t = a.n.t], c.p))
         ELSE Trailers(R(Call(a.n.t, args.n), args.p))
    [] OTHER -> a

RECURSIVE Params(_)
Params(p) ==
  LET more == IsP(Adv(p), ",") rest == Params(Adv(Adv(p))) IN
  CASE ~IsId(p) -> R(<<>>, Fail(p, "expected a name"))
    [] IsId(p) /\ more -> R(<<Var(Peek(p).t)>> \o rest.n, rest.p)
    [] IsId(p) /\ ~more -> R(<<Var(Peek(p).t)>>, Adv(p))

\* The body of a lambda becomes a function of its own; its name is the value.
Lambda(p) ==
  LET name == Hidden(p, "lambda")
      q    == Hide(Adv(p))
      ps   == IF IsP(q, ":") THEN R(<<>>, q) ELSE Params(q)
      e    == Expr(Expect(ps.p, ":"))
      fn   == Node("func", name, <<Block(ps.n), Nil, Block(<<Node("return", "", <<e.n>>)>>)>>)
  IN R(Var(name), [e.p EXCEPT !.lam = Append(@, fn)])

-----------------------------------------------------------------------------
(* Names to unpack into *)

\* q, (r, s): the variables, and the unpackings of the hidden ones that stand
\* for a parenthesis, the outer before the inner.
Target(p) ==
  IF IsP(p, "(")
  THEN LET h  == Hidden(p, "unp")
           ts == Targets(Hide(Adv(p)))
       IN R([vars |-> <<Var(h)>>,
             pend |-> <<Node("unpack", "", <<Var(h)>> \o ts.n.vars)>> \o ts.n.pend],
            IF Len(ts.n.vars) < 2 THEN Fail(ts.p, "one name in parentheses") ELSE Expect(ts.p, ")"))
  ELSE R([vars |-> <<Var(Peek(p).t)>>, pend |-> <<>>],
         IF IsId(p) THEN Adv(p) ELSE Fail(p, "expected a name"))

Targets(p) ==
  LET one == Target(p) rest == Targets(Adv(one.p)) IN
  IF IsP(one.p, ",")
  THEN R([vars |-> one.n.vars \o rest.n.vars, pend |-> one.n.pend \o rest.n.pend], rest.p)
  ELSE one

\* The targets of a for or a comprehension: one name, or a hidden one (tag)
\* and the statements that unpack it.
LoopTargets(p, tag) ==
  IF IsP(p, "(") \/ (IsId(p) /\ NextP(p, ","))
  THEN LET ts == Targets(p) h == Hidden(ts.p, tag) IN
       R([var |-> h, vars |-> ts.n.vars, pend |-> ts.n.pend,
          pre |-> <<Node("unpack", "", <<Var(h)>> \o ts.n.vars)>> \o ts.n.pend], Hide(ts.p))
  ELSE R([var |-> Peek(p).t, vars |-> <<>>, pend |-> <<>>, pre |-> <<>>],
         IF IsId(p) THEN Adv(p) ELSE Fail(p, "expected a name"))

\* A literal step, as a number; otherwise the expression is kept (v = 0).
StepOf(e) ==
  CASE e.k = "int" -> [v |-> e.v, e |-> Nil, ok |-> e.v # 0]
    [] e.k = "un" /\ e.t = "-" /\ e.c[1].k = "int" -> [v |-> -e.c[1].v, e |-> Nil, ok |-> e.c[1].v # 0]
    [] OTHER -> [v |-> 0, e |-> e, ok |-> TRUE]

\* The start, stop and step of range(...).
Range3(args) ==
  LET step == IF Len(args) = 3 THEN StepOf(args[3]) ELSE [v |-> 1, e |-> Nil, ok |-> TRUE] IN
  [start |-> IF Len(args) = 1 THEN Num(0) ELSE args[1],
   stop  |-> IF Len(args) = 1 THEN args[1] ELSE args[2],
   v |-> step.v, e |-> step.e, ok |-> step.ok /\ Len(args) \in 1 .. 3]

\* [e for x in xs if c], all(...) and any(...): one node, with its three
\* hidden variables; sema turns it into a loop.
ListComp(p, elem, close) ==
  LET ts   == LoopTargets(Adv(p), "comp.tp")
      it   == OrExpr(ExpectKw(ts.p, "in"))
      rng  == Range3(it.n.c)
      src  == IF it.n.k = "call" /\ it.n.t = "range"
              THEN [Node("range", "", <<rng.start, rng.stop, rng.e>>) EXCEPT !.v = rng.v]
              ELSE it.n
      q    == IF src.k = "range" /\ ~rng.ok THEN Fail(it.p, "range") ELSE it.p
      cond == IF IsKw(q, "if") THEN OrExpr(Adv(q)) ELSE R(Nil, q)
      end  == IF IsKw(cond.p, "for") THEN Fail(cond.p, "second for") ELSE Expect(cond.p, close)
      res  == Hidden(end, "comp.res")
      ix   == Hidden(Hide(end), "comp.ix")
  IN R(Node("listcomp", "", <<elem, src, cond.n, Block(ts.n.pre), Var(ts.n.var), Var(res), Var(ix)>>),
       Hide(Hide(end)))

-----------------------------------------------------------------------------
(* f-strings *)

Joined(a, b) == IF a = Nil THEN b ELSE Bin("+", a, b)

RECURSIVE Closing(_, _, _)
\* The place of the "}" that closes the "{" before i, or behind the end.
Closing(s, i, depth) ==
  CASE At(s, i) = "end" -> i
    [] At(s, i) = "{" -> Closing(s, i + 1, depth + 1)
    [] At(s, i) = "}" -> IF depth = 1 THEN i ELSE Closing(s, i + 1, depth - 1)
    [] OTHER -> Closing(s, i + 1, depth)

\* The format of {e:format} starts at the first ":" outside of brackets.
Depth(s, i) == Cardinality({j \in 1 .. i - 1 : s[j] \in {"(", "[", "{"}})
               - Cardinality({j \in 1 .. i - 1 : s[j] \in {")", "]", "}"}})
Colons(s) == {i \in DOMAIN s : s[i] = ":" /\ Depth(s, i) = 0}
FirstColon(s) == IF Colons(s) = {} THEN Len(s) + 1
                 ELSE CHOOSE i \in Colons(s) : \A j \in Colons(s) : i <= j

\* [fill][<>^][width][.digits][f]
Format(f) ==
  LET aligned(i) == At(f, i) \in {"<", ">", "^"}
      a     == IF aligned(2) THEN 2 ELSE IF aligned(1) THEN 1 ELSE 0
      w     == Skip(f, a + 1, Digits(10))
      dot   == At(f, w) = "."
      d     == IF dot THEN Skip(f, w + 1, Digits(10)) ELSE w
      fixed == At(f, d) = "f"
  IN [align |-> IF a = 0 THEN "<" ELSE f[a], fill |-> IF a = 2 THEN f[1] ELSE " ",
      width |-> Valued(SubSeq(f, a + 1, w - 1), 10), fixed |-> fixed,
      digits |-> IF dot THEN Valued(SubSeq(f, w + 1, d - 1), 10) ELSE 6,
      ok |-> (dot => fixed) /\ Len(f) = IF fixed THEN d ELSE d - 1]

Formatted(e, f) ==
  LET text == IF f.fixed THEN Call("fmt.f64", <<e, Num(f.digits)>>) ELSE Call("str", <<e>>) IN
  IF f.width > 0
  THEN Call("fmt.pad", <<text, Num(f.width), Node("str", f.align, <<>>), Node("str", f.fill, <<>>)>>)
  ELSE text

\* One {...}: its text is read by a lexer and a parser of its own, which go on
\* with the numbers of the hidden names and hand back their lambdas.
Hole(p, s) ==
  LET colon == FirstColon(s)
      f     == Format(SubSeq(s, colon + 1, Len(s)))
      lx    == Tokenize(Append(SubSeq(s, 1, colon - 1), "nl"))
      e     == Expr(Parsing(lx.toks, p.hid))
      q     == [p EXCEPT !.hid = e.p.hid, !.lam = @ \o e.p.lam]
  IN R(Formatted(e.n, f),
       CASE colon = 1 -> Fail(p, "empty hole")
         [] colon > 1 /\ (lx.err # "" \/ e.p.err # "" \/ Peek(e.p).k \notin {"NEWLINE", "EOF"}) ->
              Fail(q, "hole")
         [] colon > 1 /\ lx.err = "" /\ e.p.err = "" /\ Peek(e.p).k \in {"NEWLINE", "EOF"} ->
              IF f.ok THEN q ELSE Fail(q, "format"))

\* The concatenation of the parts.  a: the state, the place, the literal text
\* that is not yet a part, and the parts so far.
Flushed(a) == IF a.lit = <<>> THEN a
              ELSE [a EXCEPT !.lit = <<>>, !.out = Joined(@, Str(a.lit))]

Holes(a, s) ==
  LET c == At(s, a.i) two == <<c, At(s, a.i + 1)>> to == Closing(s, a.i + 1, 1) IN
  CASE a.p.err # "" \/ c \in {"end", "NUL"} -> Flushed(a)
    [] two \in {<<"{", "{">>, <<"}", "}">>} ->
         Holes([a EXCEPT !.i = @ + 2, !.lit = Append(@, c)], s)
    [] c = "}" /\ two # <<"}", "}">> -> [a EXCEPT !.p = Fail(@, "lone }")]
    [] c = "{" /\ two # <<"{", "{">> /\ to > Len(s) -> [a EXCEPT !.p = Fail(@, "open {")]
    [] c = "{" /\ two # <<"{", "{">> /\ to <= Len(s) ->
         LET h == Hole(a.p, SubSeq(s, a.i + 1, to - 1)) f == Flushed(a) IN
         Holes([f EXCEPT !.p = h.p, !.i = to + 1, !.out = Joined(@, h.n)], s)
    [] OTHER -> Holes([a EXCEPT !.i = @ + 1, !.lit = Append(@, c)], s)

FString(p, s) ==
  LET a == Holes([p |-> p, i |-> 1, lit |-> <<>>, out |-> Nil], s) IN
  R(IF a.out = Nil THEN Str(<<>>) ELSE a.out, a.p)

-----------------------------------------------------------------------------
(* Types *)

TypeName(p) == IF IsId(p) \/ IsKw(p, "None") THEN Adv(p) ELSE Fail(p, "expected a type")

RECURSIVE Dotted(_, _)
\* A type may be a name of a module: m.n.T
Dotted(name, p) ==
  IF IsP(p, ".") THEN Dotted(name \o "." \o Peek(Adv(p)).t, TypeName(Adv(p))) ELSE R(name, p)

RECURSIVE NameList(_, _)
\* raises E | m.F, and the interfaces (I, m.J) of a class: at most one dot each.
NameList(p, sep) ==
  LET name(r) == IF sep = "," /\ ~IsId(r) THEN Fail(r, "expected a name") ELSE TypeName(r)
      dot == IsP(name(p), ".")
      q   == IF dot THEN name(Adv(name(p))) ELSE name(p)
      e   == Var(IF dot THEN Peek(p).t \o "." \o PeekAt(p, 2).t ELSE Peek(p).t)
  IN IF IsP(q, sep) THEN LET more == NameList(Adv(q), sep) IN R(<<e>> \o more.n, more.p)
     ELSE R(<<e>>, q)

RaisesClause(p) == IF IsKw(p, "raises") THEN NameList(Adv(p), "|") ELSE R(<<>>, p)

TypeRef(p) ==
  CASE IsP(p, "(") ->
         LET ts == Items(Adv(p), "type") IN
         R(Node("tuple", "", ts.n),
           IF Len(ts.n) < 2 THEN Fail(ts.p, "one type in parentheses") ELSE Expect(ts.p, ")"))
    [] (Soft(p, "fn") \/ Soft(p, "closure")) /\ NextP(p, "(") ->
         LET args == Bracketed(Adv(Adv(p)), "type", ")")
             ret  == TypeRef(Expect(args.p, "->"))
             errs == RaisesClause(ret.p)
         IN R(Node(Peek(p).t, "", <<Block(args.n), ret.n, Block(errs.n)>>), errs.p)
    [] OTHER ->
         LET name == Dotted(Peek(p).t, TypeName(p))
             args == IF IsP(name.p, "[") THEN Items(Adv(name.p), "type") ELSE R(<<>>, name.p)
             q    == IF IsP(name.p, "[") THEN Expect(args.p, "]") ELSE name.p
             t    == Node("type", name.n, args.n)
         IN IF IsP(q, "|") THEN R(Node("or None", "", <<t>>), ExpectKw(Adv(q), "None")) ELSE R(t, q)
=============================================================================

----------------------------- MODULE Statements -----------------------------
(***************************************************************************)
(* The rest of the parser (parser.c): statements and their rewriting,      *)
(* functions, classes, enumerations, and a whole file.                     *)
(***************************************************************************)
EXTENDS Parser

RECURSIVE Stmt(_), Stmts(_), Suite(_), IfStmt(_), Excepts(_), Cases(_)

\* The layout around an indented body.
Opened(p) == ExpectKind(ExpectKind(p, "NEWLINE"), "INDENT")
Ended(p) == Peek(p).k \in {"DEDENT", "EOF", "ERR"}

\* The statements up to the end of the block; one may stand for several.
Stmts(p) ==
  IF Ended(p) THEN R(<<>>, p)
  ELSE LET s == Stmt(p) more == Stmts(s.p) IN R(s.n \o more.n, more.p)

\* ":" and an indented block
Suite(p) ==
  LET ss == Stmts(Opened(Expect(p, ":"))) IN R(Block(ss.n), ExpectKind(ss.p, "DEDENT"))

-----------------------------------------------------------------------------
(* Loops *)

While(cond, body, incr) == Node("while", "", <<cond, body, incr>>)
Plus(x, e) == Assign(Var(x), Bin("+", Var(x), e))
Prepended(pre, body) == Block(pre \o body.c)

\* for x in range(a, b, s): ix counts from a; the direction of the test is that
\* of s, known now or (st) when the loop starts.  The test evaluates b.
RangeLoop(x, rng, body, ix, st) ==
  LET lit  == rng.e = Nil
      lt   == Bin("<", Var(ix), rng.stop)
      gt   == Bin(">", Var(ix), rng.stop)
      test == CASE lit /\ rng.v > 0 -> lt
                [] lit /\ rng.v <= 0 -> gt
                [] ~lit -> Bin("or", Bin("and", Bin(">", Var(st), Num(0)), lt),
                                     Bin("and", Bin("<", Var(st), Num(0)), gt))
      step == IF lit THEN Num(rng.v) ELSE Var(st)
  IN Block(<<HiddenDecl(ix, rng.start)>>
           \o (IF lit THEN <<>> ELSE <<HiddenDecl(st, Call("range.step", <<rng.e>>))>>)
           \o <<While(test, Prepended(<<HiddenDecl(x, Var(ix))>>, body), Plus(ix, step))>>)

\* for i, x in enumerate(xs): the list is evaluated once, its length at every
\* test; "continue" goes on with the increment.
ListLoop(x, i, list, body, ix, it) ==
  LET bind == <<HiddenDecl(i, Var(ix)), HiddenDecl(x, Index(Var(it), Var(ix)))>> IN
  Block(<<HiddenDecl(it, list), HiddenDecl(ix, Num(0)),
          While(Bin("<", Var(ix), Call("len", <<Var(it)>>)), Prepended(bind, body),
                Plus(ix, Num(1)))>>)

ForEnumerate(p, ts) ==
  LET list == Expr(Adv(Adv(p)))
      body == Suite(Expect(list.p, ")"))
      ix   == Hidden(body.p, "for.ix")
      it   == Hidden(Hide(body.p), "for.it")
  IN R(<<ListLoop(ts.vars[2].t, ts.vars[1].t, list.n, Prepended(ts.pend, body.n), ix, it)>>,
       Hide(Hide(body.p)))

ForRange(p, ts) ==
  LET args == Items(Adv(Adv(p)), "expr")
      rng  == Range3(args.n)
      q    == IF rng.ok THEN Expect(args.p, ")") ELSE Fail(args.p, "range")
      body == Suite(q)
      ix   == Hidden(body.p, "for.ix")
      st   == Hidden(Hide(body.p), "for.st")
  IN R(<<RangeLoop(ts.var, rng, Prepended(ts.pre, body.n), ix, st)>>,
       IF rng.e = Nil THEN Hide(body.p) ELSE Hide(Hide(body.p)))

\* Whether the rest is a list or a class with cursors, the type checker finds
\* out (Foreach in Rewrite); the hidden names are taken here.
ForOther(p, ts) ==
  LET iter == Expr(p)
      body == Suite(iter.p)
      ix   == Hidden(body.p, "for.ix")
      it   == Hidden(Hide(body.p), "for.it")
  IN R(<<Node("foreach", ts.var, <<iter.n, Prepended(ts.pre, body.n), Var(ix), Var(it)>>)>>,
       Hide(Hide(body.p)))

ForTargets(p) ==
  IF IsP(p, "(") \/ (IsId(p) /\ NextP(p, ","))
  THEN Targets(p)
  ELSE R([vars |-> <<Var(Peek(p).t)>>, pend |-> <<>>], IF IsId(p) THEN Adv(p) ELSE Fail(p, "name"))

ForStmt(p) ==
  LET ts   == ForTargets(Adv(p))
      q    == ExpectKw(ts.p, "in")
      enum == Soft(q, "enumerate") /\ NextP(q, "(")
      many == ts.p.pos > p.pos + 2
      tp   == Hidden(q, "for.tp")
      one  == [var |-> ts.n.vars[1].t, pre |-> <<>>]
      all  == [var |-> tp, pre |-> <<Node("unpack", "", <<Var(tp)>> \o ts.n.vars)>> \o ts.n.pend]
      t    == IF many THEN all ELSE one
      q2   == IF many THEN Hide(q) ELSE q
      plain == many /\ Len(ts.n.vars) = 2 /\ ~IsTok(PeekAt(p, 1), "PUNCT", {"("})
  IN CASE enum -> IF plain THEN ForEnumerate(q, ts.n) ELSE R(<<>>, Fail(q, "enumerate"))
       [] ~enum /\ Soft(q2, "range") /\ NextP(q2, "(") -> ForRange(q2, t)
       [] OTHER -> ForOther(q2, t)

-----------------------------------------------------------------------------
(* Assignments *)

AugOp == [t \in {"+=", "-=", "*=", "//=", "%="} |->
            CASE t = "+=" -> "+" [] t = "-=" -> "-" [] t = "*=" -> "*" [] t = "//=" -> "//"
              [] t = "%=" -> "%"]

\* Mutant of AugAssign: the place is evaluated twice.
AugAssignTwice(p, op, target, e) == R(<<Assign(target, Bin(op, target, e))>>, p)

\* x += e; for an element or a field, the object and every index are evaluated
\* once, into hidden variables, before the old value is read.
AugAssign(p, op, target, e) ==
  LET obj   == Hidden(p, "aug.obj")
      ix(i) == "aug.idx." \o ToString(p.hid + i)
      n     == IF target.k = "index" THEN Len(target.c) - 1 ELSE 0
      again == [target EXCEPT !.c = <<Var(obj)>> \o [i \in 1 .. n |-> Var(ix(i))]]
  IN IF target.k = "var" THEN R(<<Assign(target, Bin(op, target, e))>>, p)
     ELSE R(<<Block(<<HiddenDecl(obj, target.c[1])>>
                    \o [i \in 1 .. n |-> HiddenDecl(ix(i), target.c[i + 1])]
                    \o <<Assign(again, Bin(op, again, e))>>)>>,
            IF n > 8 THEN Fail(p, "too many indices") ELSE [p EXCEPT !.hid = @ + n + 1])

\* a, b = e, f: every value is evaluated before the first name is assigned.
Swap(p, vars, es) ==
  LET tmp(i) == "swap." \o ToString(p.hid + i - 1) IN
  R(<<Block([i \in 1 .. Len(es) |-> HiddenDecl(tmp(i), es[i])]
            \o [i \in 1 .. Len(es) |-> Assign(vars[i], Var(tmp(i)))])>>,
    IF Len(vars) # Len(es) \/ Len(es) > 8 THEN Fail(p, "numbers differ")
    ELSE [p EXCEPT !.hid = @ + Len(es)])

UnpackStmt(p) ==
  LET ts == Targets(p)
      es == Items(Expect(ts.p, "="), "expr")
  IN CASE Len(es.n) = 1 -> R(<<Node("unpack", "", es.n \o ts.n.vars)>> \o ts.n.pend, es.p)
       [] Len(es.n) > 1 /\ ts.n.pend # <<>> -> R(<<>>, Fail(es.p, "nested"))
       [] Len(es.n) > 1 /\ ts.n.pend = <<>> -> Swap(es.p, ts.n.vars, es.n)

RECURSIVE Ahead(_, _, _, _)
\* Do names and commas in balanced parentheses stand before "="?
Ahead(p, i, depth, comma) ==
  LET t == PeekAt(p, i) IN
  CASE IsTok(t, "PUNCT", {"("}) -> Ahead(p, i + 1, depth + 1, comma)
    [] IsTok(t, "PUNCT", {")"}) -> depth > 0 /\ Ahead(p, i + 1, depth - 1, comma)
    [] IsTok(t, "PUNCT", {","}) -> Ahead(p, i + 1, depth, TRUE)
    [] IsTok(t, "PUNCT", {"="}) -> depth = 0 /\ comma
    [] OTHER -> t.k = "IDENT" /\ Ahead(p, i + 1, depth, comma)

VarDecl(p) ==
  LET type == TypeRef(Adv(Adv(p))) e == Expr(Expect(type.p, "=")) IN
  R(<<Node("decl", Peek(p).t, <<e.n, type.n>>)>>, e.p)

\* assert c, m is: if not c: panic(m)
AssertStmt(p) ==
  LET c == Expr(Adv(p))
      m == IF IsP(c.p, ",") THEN Expr(Adv(c.p)) ELSE R(Node("str", "assertion failed", <<>>), c.p)
  IN R(<<Node("if", "", <<Node("un", "not", <<c.n>>), Block(<<Call("panic", <<m.n>>)>>), Nil>>)>>, m.p)

\* return a, b returns a tuple.
ReturnStmt(p) ==
  LET es == Items(Adv(p), "expr") IN
  CASE Peek(Adv(p)).k = "NEWLINE" -> R(<<Node("return", "", <<Nil>>)>>, Adv(p))
    [] Peek(Adv(p)).k # "NEWLINE" /\ Len(es.n) = 1 -> R(<<Node("return", "", es.n)>>, es.p)
    [] Peek(Adv(p)).k # "NEWLINE" /\ Len(es.n) > 1 ->
         R(<<Node("return", "", <<Node("tuple", "", es.n)>>)>>, es.p)

ExprStmt(p) ==
  LET e   == Expr(p)
      t   == Peek(e.p).t
      set == Peek(e.p).k = "PUNCT" /\ t \in {"="} \cup DOMAIN AugOp
      v   == Expr(Adv(e.p))
  IN CASE ~set -> R(<<e.n>>, IF e.n.k \in {"call", "method"} THEN e.p ELSE Fail(e.p, "no statement"))
       [] set /\ e.n.k \notin {"var", "index", "field"} -> R(<<>>, Fail(e.p, "not assignable"))
       [] set /\ e.n.k \in {"var", "index", "field"} /\ t = "=" -> R(<<Assign(e.n, v.n)>>, v.p)
       [] set /\ e.n.k \in {"var", "index", "field"} /\ t # "=" -> AugAssign(v.p, AugOp[t], e.n, v.n)

SimpleStmt(p) ==
  CASE IsTok(Peek(p), "KEYWORD", {"break", "continue", "pass"}) ->
         R(<<Node(Peek(p).t, "", <<>>)>>, Adv(p))
    [] IsKw(p, "assert") -> AssertStmt(p)
    [] IsKw(p, "raise") -> LET e == Expr(Adv(p)) IN R(<<Node("raise", "", <<e.n>>)>>, e.p)
    [] IsKw(p, "return") -> ReturnStmt(p)
    [] IsId(p) /\ NextP(p, ":") -> VarDecl(p)
    [] (IsId(p) /\ NextP(p, ",")) \/ (IsP(p, "(") /\ Ahead(p, 0, 0, FALSE)) -> UnpackStmt(p)
    [] OTHER -> ExprStmt(p)

-----------------------------------------------------------------------------
(* Branches *)

\* elif is an if in the else part.
IfStmt(p) ==
  LET cond == Expr(Adv(p))
      then == Suite(cond.p)
      else == CASE IsKw(then.p, "elif") -> IfStmt(then.p)
                [] IsKw(then.p, "else") -> Suite(Adv(then.p))
                [] OTHER -> R(Nil, then.p)
  IN R(Node("if", "", <<cond.n, then.n, else.n>>), else.p)

\* case _: , case pattern: or case pattern if guard:
Cases(p) ==
  LET any   == Soft(Adv(p), "_") /\ NextP(Adv(p), ":")
      pat   == IF any THEN R(Nil, Adv(Adv(p))) ELSE OrExpr(Adv(p))
      guard == IF ~any /\ IsKw(pat.p, "if") THEN Expr(Adv(pat.p)) ELSE R(Nil, pat.p)
      body  == Suite(guard.p)
      more  == Cases(body.p)
  IN CASE Ended(p) -> R(<<>>, p)
       [] ~Ended(p) /\ ~Soft(p, "case") -> R(<<>>, Fail(p, "expected case"))
       [] ~Ended(p) /\ Soft(p, "case") ->
            IF Soft(Adv(p), "_") /\ IsTok(PeekAt(Adv(p), 1), "KEYWORD", {"if"})
            THEN R(<<>>, Fail(p, "guard of _"))
            ELSE R(<<Node("case", "", <<pat.n, guard.n, body.n>>)>> \o more.n, more.p)

MatchStmt(p) ==
  LET e == Expr(Adv(p))
      cs == Cases(Opened(Expect(e.p, ":")))
  IN R(Node("match", "", <<e.n>> \o cs.n),
       IF cs.n = <<>> THEN Fail(cs.p, "no case") ELSE ExpectKind(cs.p, "DEDENT"))

Excepts(p) ==
  LET type == TypeRef(Adv(p))
      as   == IsKw(type.p, "as")
      q    == CASE as /\ IsId(Adv(type.p)) -> Adv(Adv(type.p))
                [] as /\ ~IsId(Adv(type.p)) -> Fail(type.p, "expected a name")
                [] OTHER -> type.p
      body == Suite(q)
      more == Excepts(body.p)
  IN IF ~IsKw(p, "except") THEN R(<<>>, p)
     ELSE R(<<Node("except", IF as THEN Peek(Adv(type.p)).t ELSE "", <<type.n, body.n>>)>> \o more.n,
            more.p)

TryStmt(p) ==
  LET body == Suite(Adv(p)) ex == Excepts(body.p) IN
  R(Node("try", "", <<body.n>> \o ex.n), IF ex.n = <<>> THEN Fail(ex.p, "expected except") ELSE ex.p)

\* requires and ensures are words unless what follows makes them names.
Contract(p) ==
  /\ Soft(p, "requires") \/ Soft(p, "ensures")
  /\ ~IsTok(PeekAt(p, 1), "PUNCT", DOMAIN AugOp \cup {"=", ":", ".", "(", "[", ","})
  /\ PeekAt(p, 1).k # "NEWLINE"

Stmt(p) ==
  LET one(r) == R(<<r.n>>, r.p)
      s      == IF Contract(p)
                THEN LET e == Expr(Adv(p)) IN R(<<Node(Peek(p).t, "", <<e.n>>)>>, e.p)
                ELSE SimpleStmt(p)
  IN CASE IsKw(p, "if") -> one(IfStmt(p))
       [] IsKw(p, "while") -> LET c == Expr(Adv(p)) b == Suite(c.p) IN R(<<While(c.n, b.n, Nil)>>, b.p)
       [] IsKw(p, "match") -> one(MatchStmt(p))
       [] IsKw(p, "for") -> ForStmt(p)
       [] IsKw(p, "try") -> one(TryStmt(p))
       [] Soft(p, "scope") /\ NextP(p, ":") /\ PeekAt(p, 2).k = "NEWLINE" ->
            LET b == Suite(Adv(p)) IN R(<<Node("scope", "", <<b.n>>)>>, b.p)
       [] IsKw(p, "unsafe") -> LET b == Suite(Adv(p)) IN R(<<Node("unsafe", "", <<b.n>>)>>, b.p)
       [] IsTok(Peek(p), "KEYWORD", {"elif", "else"}) -> R(<<>>, Fail(p, "no if"))
       [] OTHER -> R(s.n, ExpectKind(s.p, "NEWLINE"))

-----------------------------------------------------------------------------
(* Functions, classes and files *)

\* A default is a literal, with a sign, or a branch of an enumeration.
Default(p) ==
  LET signed == IsTok(Peek(p), "PUNCT", {"-", "+"}) /\ PeekAt(p, 1).k \in {"INT", "FLOAT"}
      lit    == Primary(IF signed THEN Adv(p) ELSE p)
      name   == Postfix(p)
  IN CASE signed -> R(IF IsP(p, "-") THEN Node("un", "-", <<lit.n>>) ELSE lit.n, lit.p)
       [] IsId(p) -> R(name.n, IF name.n.k = "field" THEN name.p ELSE Fail(p, "default"))
       [] Peek(p).k \in {"INT", "FLOAT", "STR"} \/ IsTok(Peek(p), "KEYWORD", {"True", "False", "None"}) ->
            lit
       [] OTHER -> R(Nil, Fail(p, "default"))

\* x: own T = d; self and mut self as the first of a method.
Param(p, self) ==
  LET lead == IF IsTok(Peek(p), "KEYWORD", {"mut", "own"}) THEN Peek(p).t ELSE ""
      q    == IF lead # "" THEN Adv(p) ELSE p
      x    == Peek(q).t
      c    == Expect(Adv(q), ":")
      mode == IF IsTok(Peek(c), "KEYWORD", {"mut", "own"}) THEN Peek(c).t ELSE ""
      type == TypeRef(IF mode # "" THEN Adv(c) ELSE c)
      def  == IF IsP(type.p, "=") THEN Default(Adv(type.p)) ELSE R(Nil, type.p)
  IN CASE ~IsId(q) -> R(Nil, Fail(q, "expected a name"))
       [] IsId(q) /\ self /\ x = "self" /\ ~NextP(q, ":") ->
            R(Node("param", x, <<Var(lead), Nil, Nil>>),
              IF lead = "own" THEN Fail(q, "own self") ELSE Adv(q))
       [] OTHER -> R(Node("param", x, <<Var(mode), type.n, def.n>>),
                     IF lead # "" THEN Fail(q, "mode before the name") ELSE def.p)

RECURSIVE ParamList(_, _)
ParamList(p, self) ==
  LET one == Param(p, self) more == ParamList(Adv(one.p), FALSE) IN
  IF IsP(one.p, ",") THEN R(<<one.n>> \o more.n, more.p) ELSE R(<<one.n>>, one.p)

TypeParams(p) ==
  IF IsP(p, "[") THEN LET ts == Params(Adv(p)) IN R(ts.n, Expect(ts.p, "]")) ELSE R(<<>>, p)

\* def f[T](...) -> R raises E, up to the body
Header(p, method) ==
  LET q    == Adv(Adv(p))
      ts   == TypeParams(q)
      open == Expect(ts.p, "(")
      ps   == IF IsP(open, ")") THEN R(<<>>, open) ELSE ParamList(open, method)
      ret  == TypeRef(Expect(Expect(ps.p, ")"), "->"))
      errs == RaisesClause(ret.p)
      n    == <<Block(ps.n), ret.n, Block(ts.n), Block(errs.n)>>
  IN CASE ~IsId(Adv(p)) -> R(n, Fail(p, "expected a name"))
       [] IsId(Adv(p)) /\ method /\ (ps.n = <<>> \/ ps.n[1].t # "self") -> R(n, Fail(errs.p, "self"))
       [] OTHER -> R(n, errs.p)

FuncDef(p, method) ==
  LET h == Header(p, method) b == Suite(h.p) IN
  R(Node("func", Peek(Adv(p)).t, <<h.n[1], h.n[2], b.n, h.n[3], h.n[4]>>), b.p)

\* A method of an interface has no body.
IfaceMethod(p) ==
  LET h == Header(p, TRUE) IN
  R(Node("func", Peek(Adv(p)).t, <<h.n[1], h.n[2], Nil, h.n[3], h.n[4]>>), ExpectKind(h.p, "NEWLINE"))

FieldDecl(p) ==
  LET t == TypeRef(Adv(Adv(p))) IN
  R(Node("fielddecl", Peek(p).t, <<t.n>>), ExpectKind(t.p, "NEWLINE"))

RECURSIVE Members(_, _, _)
\* The fields of a class, then its methods; an interface has methods only.
Members(p, what, methods) ==
  LET def == IsKw(p, "def")
      one == CASE def /\ what = "class" -> FuncDef(p, TRUE)
               [] def /\ what = "interface" -> IfaceMethod(p)
               [] OTHER -> FieldDecl(p)
      ok  == def \/ (what = "class" /\ ~methods /\ IsId(p) /\ NextP(p, ":"))
      more == Members(one.p, what, methods \/ def)
  IN CASE Ended(p) -> R(<<>>, p)
       [] ~Ended(p) /\ ~ok -> R(<<>>, Fail(p, "no member"))
       [] ~Ended(p) /\ ok -> R(<<one.n>> \o more.n, more.p)

ClassDef(p, what) ==
  LET q    == Adv(Adv(p))
      ts   == IF what = "class" THEN TypeParams(q) ELSE R(<<>>, q)
      list == what = "class" /\ IsP(ts.p, "(")
      is   == IF list THEN NameList(Adv(ts.p), ",") ELSE R(<<>>, ts.p)
      ms   == Members(Opened(Expect(IF list THEN Expect(is.p, ")") ELSE is.p, ":")), what, FALSE)
      n    == Node(what, Peek(Adv(p)).t, <<Block(ts.n), Block(is.n), Block(ms.n)>>)
  IN CASE ~IsId(Adv(p)) -> R(n, Fail(p, "expected a name"))
       [] IsId(Adv(p)) /\ what = "interface" /\ ms.n = <<>> -> R(n, Fail(ms.p, "no method"))
       [] OTHER -> R(n, ExpectKind(ms.p, "DEDENT"))

RECURSIVE Branches(_, _)
\* The branches of an enumeration, numbered from 0, each with its fields.
Branches(p, seen) ==
  LET open == NextP(p, "(")
      fs   == IF open THEN ParamList(Adv(Adv(p)), FALSE) ELSE R(<<>>, Adv(p))
      end  == ExpectKind(IF open THEN Expect(fs.p, ")") ELSE fs.p, "NEWLINE")
      more == Branches(end, Append(seen, Peek(p).t))
  IN CASE Ended(p) -> R(<<>>, p)
       [] ~Ended(p) /\ (~IsId(p) \/ Contains(seen, Peek(p).t)) -> R(<<>>, Fail(p, "branch"))
       [] OTHER -> R(<<[Node("enumval", Peek(p).t, fs.n) EXCEPT !.v = Len(seen)]>> \o more.n, more.p)

\* A branch of an enumeration with fields is also a class: a tag, the fields,
\* and an init that takes and owns them all.
BranchClass(enum, b) ==
  LET int   == Node("type", "int", <<>>)
      tag   == Node("param", "__tag", <<Var(""), int, Nil>>)
      field(f) == Node("fielddecl", f.t, <<f.c[2]>>)
      own(f) == Node("param", f.t, <<Var("own"), f.c[2], Nil>>)
      set(f) == Assign(Node("field", f.t, <<Var("self")>>), Var(f.t))
      all(Op(_)) == [i \in 1 .. Len(b.c) |-> Op(b.c[i])]
      init  == Node("func", "init",
                 <<Block(<<Node("param", "self", <<Var(""), Nil, Nil>>), tag>> \o all(own)),
                   Node("type", "None", <<>>), Block(<<set(tag)>> \o all(set)), Block(<<>>), Block(<<>>)>>)
  IN Node("class", enum \o "$" \o b.t,
          <<Block(<<>>), Block(<<>>), Block(<<field(tag)>> \o all(field) \o <<init>>)>>)

EnumDef(p) ==
  LET name == Peek(Adv(p)).t
      bs   == Branches(Opened(Expect(Adv(Adv(p)), ":")), <<>>)
      q    == IF bs.n = <<>> THEN Fail(bs.p, "no branch") ELSE ExpectKind(bs.p, "DEDENT")
      some == \E i \in DOMAIN bs.n : bs.n[i].c # <<>>
  IN R(Node("enum", name, bs.n),
       IF some THEN [q EXCEPT !.lam = @ \o [i \in DOMAIN bs.n |-> BranchClass(name, bs.n[i])]] ELSE q)

RECURSIVE HasBody(_, _, _, _)
\* extern def with a ":" at the end of the line exports a function of the
\* program; without, it names a function of C.
HasBody(p, i, depth, colon) ==
  LET t == PeekAt(p, i) IN
  CASE t.k \in {"EOF", "ERR"} -> FALSE
    [] depth = 0 /\ t.k = "NEWLINE" -> colon
    [] OTHER -> HasBody(p, i + 1,
                  depth + (CASE IsTok(t, "PUNCT", {"(", "["}) -> 1
                             [] IsTok(t, "PUNCT", {")", "]"}) /\ depth > 0 -> -1
                             [] OTHER -> 0), IsTok(t, "PUNCT", {":"}))

ExternDef(p) ==
  LET q  == Adv(p)
      f  == FuncDef(q, FALSE)
      h  == Header(q, FALSE)
  IN CASE IsKw(q, "def") /\ HasBody(p, 1, 0, FALSE) -> R([f.n EXCEPT !.k = "export"], f.p)
       [] IsKw(q, "def") /\ ~HasBody(p, 1, 0, FALSE) ->
            R(Node("extern", Peek(Adv(q)).t, <<h.n[1], h.n[2]>>),
              IF h.n[3].c # <<>> \/ h.n[4].c # <<>> THEN Fail(h.p, "extern") ELSE ExpectKind(h.p, "NEWLINE"))
       [] OTHER -> R(Nil, Fail(q, "expected def"))

RECURSIVE ModulePath(_, _)
ModulePath(name, p) ==
  CASE ~IsP(p, ".") -> R(name, p)
    [] IsP(p, ".") /\ IsId(Adv(p)) -> ModulePath(name \o "." \o Peek(Adv(p)).t, Adv(Adv(p)))
    [] OTHER -> R(name, Fail(p, "expected a name"))

ImportStmt(p) ==
  LET m  == ModulePath(Peek(Adv(p)).t, IF IsId(Adv(p)) THEN Adv(Adv(p)) ELSE Fail(p, "expected a name"))
      as == IsKw(m.p, "as")
      al == IF as THEN Peek(Adv(m.p)).t ELSE ""
  IN R(Node("import", m.n, <<Var(al)>>),
       CASE ~as -> ExpectKind(m.p, "NEWLINE")
         [] as /\ IsId(Adv(m.p)) -> ExpectKind(Adv(Adv(m.p)), "NEWLINE")
         [] OTHER -> Fail(m.p, "expected a name"))

\* type T = int range(a, b), both ends included
RangeDecl(p) ==
  LET neg(q) == IF IsP(q, "-") THEN -1 ELSE 1
      num(q) == IF IsP(q, "-") THEN Adv(q) ELSE q
      lit(q) == ExpectKind(num(q), "INT")
      range  == Adv(Adv(Adv(p)))
      lo     == Expect(IF Soft(range, "int") /\ Soft(Adv(range), "range") THEN Adv(Adv(range))
                       ELSE Fail(p, "range type"), "(")
      hi     == Expect(lit(lo), ",")
      a      == neg(lo) * Peek(num(lo)).v
      b      == neg(hi) * Peek(num(hi)).v
      end    == Expect(lit(hi), ")")
  IN R(Node("rangedecl", Peek(Adv(p)).t, <<Num(a), Num(b)>>),
       IF a > b THEN Fail(end, "empty range") ELSE ExpectKind(end, "NEWLINE"))

\* One definition of a file.  A DEDENT has no INDENT here: the parser takes it
\* for impossible (UNREACHABLE).
TopLevel(p) ==
  LET v == VarDecl(p) IN
  CASE Peek(p).k = "INDENT" -> R(Nil, Fail(p, "indented"))
    [] Peek(p).k = "DEDENT" -> R(Nil, Fail(p, "UNREACHABLE"))
    [] IsKw(p, "def") -> FuncDef(p, FALSE)
    [] IsKw(p, "class") -> ClassDef(p, "class")
    [] IsKw(p, "interface") -> ClassDef(p, "interface")
    [] IsKw(p, "import") -> ImportStmt(p)
    [] IsKw(p, "extern") -> ExternDef(p)
    [] Soft(p, "enum") /\ PeekAt(p, 1).k = "IDENT" -> EnumDef(p)
    [] Soft(p, "type") /\ PeekAt(p, 1).k = "IDENT" /\ IsTok(PeekAt(p, 2), "PUNCT", {"="}) -> RangeDecl(p)
    [] IsId(p) /\ NextP(p, ":") -> R(v.n[1], ExpectKind(v.p, "NEWLINE"))
    [] OTHER -> R(Nil, Fail(p, "no definition"))

RECURSIVE Program(_)
Program(p) ==
  IF Peek(p).k \in {"EOF", "ERR"} THEN R(<<>>, p)
  ELSE LET d == TopLevel(p) more == Program(d.p) IN R(<<d.n>> \o more.n, more.p)

\* The definitions of a file, those made while reading it behind them.
Parse(toks) == LET f == Program(Parsing(toks, 0)) IN R(Block(f.n \o f.p.lam), f.p)
=============================================================================

-------------------------------- MODULE Lang --------------------------------
(***************************************************************************)
(* Function bodies over integers and lists, and what the compiled code     *)
(* does with them (src/src/codegen.c): every operation that can fail is    *)
(* checked, unless a pass of the compiler found the check superfluous and  *)
(* removed it.  A check that fails stops the program (panic); an operation *)
(* that fails without one is what must not happen ("bad").                 *)
(*                                                                         *)
(* Of a list only its length is kept.  Calls are opaque: they give the     *)
(* lists they can reach any length.                                        *)
(***************************************************************************)
EXTENDS Interval, Sequences, SequencesExt, FiniteSets

CONSTANTS
  IntVar,   \* integer variables; "result" is the value being returned
  ListVar,  \* places that hold lists: locals, fields of objects, globals
  Global,   \* the lists that every function can reach
  ObjectOf, \* ListVar -> the object a field belongs to, or None
  MaxLen,   \* bound: the length of a list
  None      \* no object, no statement, no list

ASSUME LangAssumption ==
  /\ Global \subseteq ListVar
  /\ MaxLen \in Nat
  /\ "result" \in IntVar

-----------------------------------------------------------------------------
\* Expressions.  A "chk" is ND_RANGECHK: the value must lie in an interval.
Num(v)         == [k |-> "num", v |-> v]
Ref(x)         == [k |-> "ref", x |-> x]
LenOf(p)       == [k |-> "len", p |-> p]
Bin(op, l, r)  == [k |-> "bin", op |-> op, l |-> l, r |-> r]
Neg(l)         == [k |-> "neg", l |-> l]
Chk(range, l)  == [k |-> "chk", range |-> range, l |-> l]
At(p, i)       == [k |-> "at", p |-> p, i |-> i]

\* Conditions.  "touch" is a call that returns a bool: it reaches the lists of S.
Cmp(op, l, r)  == [k |-> "cmp", op |-> op, l |-> l, r |-> r]
And(l, r)      == [k |-> "and", l |-> l, r |-> r]
Or(l, r)       == [k |-> "or", l |-> l, r |-> r]
Not(l)         == [k |-> "not", l |-> l]
Touch(S)       == [k |-> "touch", S |-> S]

Always_        == Cmp("le", Num(0), Num(0))

\* Statements: an op, a variable or list, an expression, a condition, two
\* bodies.  A "while" has the increment of a for in els, a "match" and a "try"
\* the second case or the handler.
Stm(op, x, e, c, body, els) ==
  [op |-> op, x |-> x, e |-> e, c |-> c, body |-> body, els |-> els]

Decl(x, e) == Stm("decl", x, e, Always_, <<>>, <<>>)
Let(x, e)  == Stm("let", x, e, Always_, <<>>, <<>>)
Get(p, i)  == Stm("get", p, At(p, i), Always_, <<>>, <<>>)
Put(p, i)  == Stm("put", p, At(p, i), Always_, <<>>, <<>>)
New(p)     == Stm("new", p, Num(0), Always_, <<>>, <<>>)
Call(p)    == Stm("call", p, Num(0), Always_, <<>>, <<>>)
Requires(c)== Stm("requires", None, Num(0), c, <<>>, <<>>)
Return(e)  == Stm("return", None, e, Always_, <<>>, <<>>)
Jump(op)   == Stm(op, None, Num(0), Always_, <<>>, <<>>)
Node(op, c, body, els) == Stm(op, None, Num(0), c, body, els)

\* The lists a call can change that is given p: a list, or an object.
Reached(p) == {q \in ListVar : q = p \/ ObjectOf[q] = p \/ q \in Global}

-----------------------------------------------------------------------------
(***************************************************************************)
(* Evaluation.  U: the nodes of this statement whose check was removed.    *)
(***************************************************************************)
Memory == [int : [IntVar -> Word], len : [ListVar -> 0 .. MaxLen]]

Ok(v) == [st |-> "ok", v |-> v]
Stop  == [st |-> "stop", v |-> 0]
Bad   == [st |-> "bad", v |-> 0]

\* A failing operation: caught by its check, or not.
Fails(e, U) == IF e \in U THEN Bad ELSE Stop

Wrap(v) == ((v - MinInt) % (MaxInt - MinInt + 1)) + MinInt

\* gen_checked_arith, pl_floordiv and pl_mod.  An unchecked division is the
\* machine instruction, which truncates: right only for a >= 0 and b > 0.
Arith(e, a, b, U, checked) ==
  LET exact == CASE e.op = "add" -> a + b
                 [] e.op = "sub" -> a - b
                 [] e.op = "mul" -> a * b
                 [] e.op = "div" -> IF b = 0 THEN 0
                                    ELSE IF b > 0 THEN a \div b ELSE (-a) \div (-b)
                 [] e.op = "mod" -> IF b = 0 THEN 0
                                    ELSE IF b > 0 THEN a % b ELSE -((-a) % (-b))
  IN  IF e.op \in {"div", "mod"}
      THEN IF b = 0 \/ exact \notin Word \/ (e \in U /\ (a < 0 \/ b < 0)) THEN Fails(e, U)
           ELSE Ok(exact)
      ELSE IF exact \in Word THEN Ok(exact)
      ELSE IF checked THEN Fails(e, U) ELSE Ok(Wrap(exact))

\* gen_index_addr.  Reading counts a negative index from the end, writing does
\* not, and without the check neither does.
InBounds(e, i, len, U, reading) ==
  \/ 0 <= i /\ i < len
  \/ reading /\ e \notin U /\ -len <= i /\ i < 0

RECURSIVE Eval(_, _, _, _)
Eval(e, m, U, checked) ==
  CASE e.k = "num" -> Ok(e.v)
    [] e.k = "ref" -> Ok(m.int[e.x])
    [] e.k = "len" -> Ok(m.len[e.p])
    [] e.k = "neg" -> LET a == Eval(e.l, m, U, checked) IN
                      IF a.st # "ok" THEN a
                      ELSE IF -a.v \in Word THEN Ok(-a.v)
                      ELSE IF checked THEN Stop ELSE Ok(Wrap(-a.v))
    [] e.k = "chk" -> LET a == Eval(e.l, m, U, checked) IN
                      IF a.st # "ok" \/ a.v \in Values(e.range) THEN a ELSE Fails(e, U)
    [] e.k = "bin" -> LET a == Eval(e.l, m, U, checked)
                          b == Eval(e.r, m, U, checked)
                      IN  IF a.st # "ok" THEN a ELSE IF b.st # "ok" THEN b
                          ELSE Arith(e, a.v, b.v, U, checked)

\* The nodes of an expression.
RECURSIVE Nodes(_)
Nodes(e) ==
  {e} \cup (CASE e.k = "bin" -> Nodes(e.l) \cup Nodes(e.r)
              [] e.k \in {"neg", "chk"} -> Nodes(e.l)
              [] e.k = "at" -> Nodes(e.i)
              [] OTHER -> {})

\* One element read or written.  The overflow of an index is reported by the
\* check of the index: without it, it is not noticed.
Access(e, m, U, checked, reading) ==
  LET i == Eval(e.i, m, IF e \in U THEN U \cup Nodes(e.i) ELSE U, checked) IN
  IF i.st # "ok" \/ InBounds(e, i.v, m.len[e.p], U, reading) THEN i ELSE Fails(e, U)

Lengths(m, p) == {[m EXCEPT !.len = len] :
                    len \in {l \in [ListVar -> 0 .. MaxLen] :
                               \A q \in ListVar \ Reached(p) : l[q] = m.len[q]}}

\* The outcomes of a condition: the memory it leaves, and the answer.
RECURSIVE Test(_, _, _, _)
Test(c, m, U, checked) ==
  LET Outcome(mm, st, yes) == [m |-> mm, st |-> st, yes |-> yes]
      Then(first, second(_), stops) ==
        UNION {IF o.st # "ok" \/ o.yes = stops THEN {o} ELSE second(o.m) : o \in first}
  IN
  CASE c.k = "cmp" ->
         LET a == Eval(c.l, m, U, checked)
             b == Eval(c.r, m, U, checked)
             st == IF a.st # "ok" THEN a.st ELSE b.st
         IN  {Outcome(m, st, st = "ok" /\ Holds(c.op, a.v, b.v))}
    [] c.k = "not" -> {[o EXCEPT !.yes = ~@] : o \in Test(c.l, m, U, checked)}
    [] c.k = "and" -> Then(Test(c.l, m, U, checked), LAMBDA mm : Test(c.r, mm, U, checked), FALSE)
    [] c.k = "or"  -> Then(Test(c.l, m, U, checked), LAMBDA mm : Test(c.r, mm, U, checked), TRUE)
    [] c.k = "touch" -> {Outcome(mm, "ok", yes) : mm \in Lengths(m, c.S), yes \in BOOLEAN}

-----------------------------------------------------------------------------
(***************************************************************************)
(* Execution, of all states of a set at once: where the paths end, and     *)
(* whether an operation failed without its check.  A path names the place  *)
(* of a statement in the program; removed is a set of <<path, node>>.      *)
(***************************************************************************)
NoPaths == [ok |-> {}, exc |-> {}, brk |-> {}, cont |-> {}, ret |-> {}, bad |-> FALSE]

\* Two results side by side; .ok is given.
Beside(r, t, ok) ==
  [ok   |-> ok, exc |-> r.exc \cup t.exc, brk |-> r.brk \cup t.brk,
   cont |-> r.cont \cup t.cont, ret |-> r.ret \cup t.ret, bad |-> r.bad \/ t.bad]

RemovedAt(removed, path) == {site[2] : site \in {s \in removed : s[1] = path}}

RECURSIVE Run(_, _, _, _, _), RunFrom(_, _, _, _, _, _)

\* A list of statements, numbered from 1 under a path.
RunFrom(body, path, r, removed, checked, i) ==
  IF i > Len(body) \/ r.ok = {} THEN r
  ELSE LET t == Run(body[i], Append(path, i), r.ok, removed, checked)
       IN  RunFrom(body, path, Beside(r, t, t.ok), removed, checked, i + 1)

RunList(body, path, S, removed, checked) ==
  RunFrom(body, path, [NoPaths EXCEPT !.ok = S], removed, checked, 1)

\* The states at the head of a loop.
RECURSIVE LoopHead(_, _, _, _, _)
LoopHead(s, path, S, removed, checked) ==
  LET U    == RemovedAt(removed, path)
      T    == UNION {Test(s.c, m, U, checked) : m \in S}
      r    == RunList(s.body, path \o <<1>>, {o.m : o \in {o \in T : o.st = "ok" /\ o.yes}},
                      removed, checked)
      inc  == RunList(s.els, path \o <<2>>, r.ok \cup r.cont, removed, checked)
      next == S \cup inc.ok
  IN  IF next = S THEN [head |-> S, tests |-> T, body |-> Beside(r, inc, {})]
      ELSE LoopHead(s, path, next, removed, checked)

Passed(T, yes) == {o.m : o \in {o \in T : o.st = "ok" /\ o.yes = yes}}

Run(s, path, S, removed, checked) ==
  LET U == RemovedAt(removed, path)
      \* An expression, and what follows from its value.
      Each(value(_), next(_, _)) ==
        LET R == {<<m, value(m)>> : m \in S} IN
        [NoPaths EXCEPT !.ok  = UNION {next(r[1], r[2].v) : r \in {r \in R : r[2].st = "ok"}},
                        !.bad = \E r \in R : r[2].st = "bad"]
      Same(m, v)  == {m}
      Tests       == UNION {Test(s.c, m, U, checked) : m \in S}
      BadTest(T)  == \E o \in T : o.st = "bad"
  IN
  CASE s.op \in {"let", "decl"} -> Each(LAMBDA m : Eval(s.e, m, U, checked),
                            LAMBDA m, v : {[m EXCEPT !.int = (s.x :> v) @@ @]})
    [] s.op = "get" -> Each(LAMBDA m : Access(s.e, m, U, checked, TRUE), Same)
    [] s.op = "put" -> Each(LAMBDA m : Access(s.e, m, U, checked, FALSE), Same)
    [] s.op = "new" -> [NoPaths EXCEPT !.ok =
                          {[m EXCEPT !.len = (s.x :> n) @@ @] : m \in S, n \in 0 .. MaxLen}]
    [] s.op = "call" -> LET T == UNION {Lengths(m, s.x) : m \in S} IN
                        [NoPaths EXCEPT !.ok = T, !.exc = T]
    [] s.op = "requires" ->
         LET failed == \E o \in Tests : o.st = "ok" /\ ~o.yes /\ s.c \in U
         IN  [NoPaths EXCEPT !.ok = Passed(Tests, TRUE), !.bad = BadTest(Tests) \/ failed]
    [] s.op = "return" ->
         LET r == Each(LAMBDA m : Eval(s.e, m, U, checked),
                       LAMBDA m, v : {[m EXCEPT !.int = ("result" :> v) @@ @]})
         IN  [r EXCEPT !.ok = {}, !.ret = r.ok]
    [] s.op = "raise"    -> [NoPaths EXCEPT !.exc = S]
    [] s.op = "break"    -> [NoPaths EXCEPT !.brk = S]
    [] s.op = "continue" -> [NoPaths EXCEPT !.cont = S]
    [] s.op = "if" ->
         LET T == Tests
             r == RunList(s.body, path \o <<1>>, Passed(T, TRUE), removed, checked)
             t == RunList(s.els, path \o <<2>>, Passed(T, FALSE), removed, checked)
             b == Beside(r, t, r.ok \cup t.ok)
         IN  [b EXCEPT !.bad = @ \/ BadTest(T)]
    [] s.op = "match" ->
         LET r == RunList(s.body, path \o <<1>>, S, removed, checked)
             t == RunList(s.els, path \o <<2>>, S, removed, checked)
         IN  Beside(r, t, r.ok \cup t.ok)
    [] s.op = "while" ->
         LET h == LoopHead(s, path, S, removed, checked)
         IN  [h.body EXCEPT !.ok = Passed(h.tests, FALSE) \cup h.body.brk,
                            !.brk = {}, !.cont = {}, !.bad = @ \/ BadTest(h.tests)]
    [] s.op = "try" ->
         LET r == RunList(s.body, path \o <<1>>, S, removed, checked)
             t == RunList(s.els, path \o <<2>>, r.exc, removed, checked)
         IN  Beside([r EXCEPT !.exc = {}], t, r.ok \cup t.ok)
=============================================================================

------------------------------ MODULE Meaning ------------------------------
(***************************************************************************)
(* What a tree does when it runs.  Exec and Eval follow the code generator *)
(* (gen_stmt, gen_expr) on the nodes it knows.  The nodes a programmer     *)
(* writes and the front end rewrites (for, enumerate, augmented assignment,*)
(* swaps, assert, comprehensions, patterns and guards, keyword arguments,  *)
(* old) have the meaning that docs/ja/spec/language-spec.md gives them, so *)
(* that a program can be compared with what was made of it.                *)
(*                                                                         *)
(* A run m has the variables of the function that runs, the lists, what    *)
(* was printed, the signal that ends a block ("" while it goes on), the    *)
(* value of the last expression, and the rounds that are left to it.       *)
(***************************************************************************)
EXTENDS Rewrite

CONSTANT MaxRounds

Val(k, v, t, c) == [k |-> k, v |-> v, t |-> t, c |-> c]
I(n) == Val("int", n, "", <<>>)
B(b) == Val("bool", IF b THEN 1 ELSE 0, "", <<>>)
S(t) == Val("str", 0, t, <<>>)
None == Val("none", 0, "", <<>>)
List(ref) == Val("list", ref, "", <<>>)

Begin(fns, heap) ==
  [env |-> <<>>, heap |-> heap, out |-> <<>>, sig |-> "", v |-> None, left |-> MaxRounds,
   fns |-> fns, old |-> [env |-> <<>>, heap |-> heap]]

Give(m, v) == [m EXCEPT !.v = v]
Signal(m, s) == IF m.sig = "" THEN [m EXCEPT !.sig = s] ELSE m
Set(m, x, v) == [m EXCEPT !.env = (x :> v) @@ @]
New(m, xs) == [m EXCEPT !.heap = Append(@, xs), !.v = List(Len(m.heap) + 1)]
Elems(m, list) == m.heap[list.v]
Write(m, list, xs) == [m EXCEPT !.heap[list.v] = xs]
True(m) == m.sig = "" /\ m.v = B(TRUE)

MinInt == -MaxInt - 1
Fits(n) == n \in MinInt .. MaxInt
Wrap(n) == ((n - MinInt) % (MaxInt - MinInt + 1)) + MinInt
Checked(m, n) == IF Fits(n) THEN Give(m, I(n)) ELSE Signal(m, "overflow")

RECURSIVE Eval(_, _), Exec(_, _), Rounds(_, _, _, _), CompRounds(_, _, _, _)

\* The values of some expressions, from the left.
EvalAll(m, es) ==
  FoldLeft(LAMBDA a, e : LET b == Eval(a.m, e) IN [m |-> b, vs |-> Append(a.vs, b.v)],
           [m |-> m, vs |-> <<>>], es)
Execs(m, stmts) == FoldLeft(LAMBDA a, st : IF a.sig = "" THEN Exec(a, st) ELSE a, m, stmts)

-----------------------------------------------------------------------------
(* Expressions *)

Arith(m, op, a, b) ==
  CASE op = "+" -> Checked(m, a + b)
    [] op = "-" -> Checked(m, a - b)
    [] op = "*" -> Checked(m, a * b)
    [] op \in {"//", "%"} /\ b = 0 -> Signal(m, "zero")
    [] op = "//" /\ b # 0 -> Checked(m, IF b > 0 THEN a \div b ELSE (-a) \div (-b))
    [] op = "%" /\ b # 0 -> Give(m, I(IF b > 0 THEN a % b ELSE -((-a) % (-b))))
    [] op = "<" -> Give(m, B(a < b))
    [] op = ">" -> Give(m, B(a > b))
    [] op = "<=" -> Give(m, B(a <= b))
    [] op = ">=" -> Give(m, B(a >= b))

EvalBin(m, e) ==
  LET l == Eval(m, e.c[1]) r == Eval(l, e.c[2]) IN
  CASE e.t \in {"and", "or"} ->
         IF l.sig # "" \/ l.v = B(e.t = "or") THEN l ELSE r
    [] e.t \notin {"and", "or"} /\ (l.sig # "" \/ r.sig # "") -> r
    [] e.t \in {"==", "!="} /\ r.sig = "" -> Give(r, B((l.v = r.v) = (e.t = "==")))
    [] OTHER -> Arith(r, e.t, l.v.v, r.v.v)

\* A negative index counts from the end.
Place(n, i) == (IF i < 0 THEN i + n ELSE i) + 1

ElementAt(m, xs, i) ==
  LET p == Place(Len(Elems(m, xs)), i) IN
  IF p \in DOMAIN Elems(m, xs) THEN Give(m, Elems(m, xs)[p]) ELSE Signal(m, "index")

EvalIndex(m, e) ==
  LET xs == Eval(m, e.c[1]) i == Eval(xs, e.c[2]) IN
  CASE i.sig # "" -> i
    [] i.sig = "" /\ xs.v.k = "tuple" -> Give(i, xs.v.c[i.v.v + 1])
    [] i.sig = "" /\ xs.v.k = "list" -> ElementAt(i, xs.v, i.v.v)

\* Enum.branch(e, ...), a method of a list, or a cursor of a class.
EvalMethod(m, e) ==
  LET enum == e.c[1].t
      made == EvalAll(m, Tail(e.c))
      all  == EvalAll(m, e.c)
      obj  == all.vs[1]
      n    == Len(Elems(all.m, obj))
  IN CASE e.c[1].k = "var" /\ enum \in DOMAIN Enums ->
            Give(made.m, Val("enum", BranchAt(enum, e.t) - 1, enum, made.vs))
       [] all.m.sig # "" -> all.m
       [] e.t = "append" -> Write(all.m, obj, Append(Elems(all.m, obj), all.vs[2]))
       [] e.t = "__first__" -> Give([all.m EXCEPT !.out = Append(@, -1)], I(IF n > 0 THEN 0 ELSE -1))
       [] e.t = "__next__" -> Give([all.m EXCEPT !.out = Append(@, -2)],
                                   I(IF all.vs[2].v + 1 < n THEN all.vs[2].v + 1 ELSE -1))
       [] e.t = "__get__" -> ElementAt([all.m EXCEPT !.out = Append(@, -3)], obj, all.vs[2].v)

\* A branch without fields, or a field of a value seen as its branch.
EvalField(m, e) ==
  LET enum == e.c[1].t o == Eval(m, e.c[1]) IN
  IF enum \in DOMAIN Enums THEN Give(m, Val("enum", BranchAt(enum, e.t) - 1, enum, <<>>))
  ELSE Give(o, o.v.c[CHOOSE i \in DOMAIN o.v.c : Enums[o.v.t][o.v.v + 1].c[i] = e.t])

\* A function of the program: its requires hold when it starts, its ensures for
\* every result.
Keeps(m, kind, body) ==
  FoldLeft(LAMBDA a, st :
             LET b == Eval(a, st.c[1]) IN
             IF st.k = kind /\ a.sig = "" /\ b.sig = "" /\ b.v = B(FALSE) THEN Signal(b, kind)
             ELSE IF st.k = kind THEN b ELSE a,
           m, SelectSeq(body.c, IsContract))

CallFn(m, f, vs) ==
  LET ps  == f.c[1].c
      in  == FoldLeft(LAMBDA a, i : Set(a, ps[i].t, vs[i]), [m EXCEPT !.env = <<>>], [i \in DOMAIN ps |-> i])
      req == Keeps(in, "requires", f.c[3])
      run == Exec([req EXCEPT !.old = [env |-> req.env, heap |-> req.heap]], f.c[3])
      res == IF run.sig = "return" THEN run.v ELSE None
      end == IF run.sig \in {"", "return"}
             THEN Keeps(Set([run EXCEPT !.sig = ""], "result", res), "ensures", f.c[3]) ELSE run
  IN [IF req.sig # "" THEN req ELSE end EXCEPT !.env = m.env, !.old = m.old, !.v = res]

\* Arguments by name, as docs/ja/spec/language-spec.md 4.5.1 says: in the order
\* of the definition.
Passed(f, args) ==
  LET ps == f.c[1].c IN
  [i \in DOMAIN ps |->
     CASE i \in DOMAIN args /\ args[i].k # "named" -> args[i]
       [] \E k \in DOMAIN args : args[k].k = "named" /\ args[k].t = ps[i].t ->
            args[CHOOSE k \in DOMAIN args : args[k].k = "named" /\ args[k].t = ps[i].t].c[1]
       [] OTHER -> ps[i].c[3]]

Function(m, name) == SelectSeq(m.fns, LAMBDA f : f.t = name)

EvalCall(m, e) ==
  LET fs  == Function(m, e.t)
      all == EvalAll(m, IF fs = <<>> THEN e.c ELSE Passed(fs[1], e.c))
      a   == all.m
      v   == all.vs[1]
      then == Eval([m EXCEPT !.env = m.old.env, !.heap = m.old.heap], e.c[1])
  IN CASE e.t = "old" -> Give(m, then.v)
       [] e.t # "old" /\ a.sig # "" -> a
       [] e.t # "old" /\ a.sig = "" /\ fs # <<>> -> CallFn(a, fs[1], all.vs)
       [] e.t = "print" /\ v.k = "int" -> [a EXCEPT !.out = Append(@, v.v)]
       [] e.t = "print" /\ v.k = "bool" -> [a EXCEPT !.out = Append(@, 100 + v.v)]
       [] e.t = "print" /\ v.k = "list" ->
            [a EXCEPT !.out = @ \o <<200>> \o [i \in DOMAIN Elems(a, v) |-> Elems(a, v)[i].v]]
       [] e.t = "tick" -> [a EXCEPT !.out = Append(@, v.v), !.v = v]
       [] e.t = "len" -> Give(a, I(Len(Elems(a, v))))
       [] e.t = "range.step" -> IF v.v = 0 THEN Signal(a, "step") ELSE Give(a, v)
       [] e.t = "panic" -> Signal(a, "panic")

-----------------------------------------------------------------------------
(* Comprehensions, all and any, as the code generator runs them *)

\* ends: start, stop and step of a range, or a list.  The step is added
\* without a check.
CompRounds(m, n, ends, i) ==
  LET going == IF ends.list = None
               THEN IF ends.step > 0 THEN i < ends.stop ELSE i > ends.stop
               ELSE i < Len(Elems(m, ends.list))
      x     == IF ends.list = None THEN I(i) ELSE Elems(m, ends.list)[i + 1]
      in    == Execs(Set(m, n.c[5].t, x), n.c[4].c)
      keep  == IF n.c[3] = Nil THEN Give(in, B(TRUE)) ELSE Eval(in, n.c[3])
      val   == Eval(keep, n.c[1])
      res   == Eval(val, n.c[6])
      next(r) == CompRounds(r, n, ends, Wrap(i + ends.step))
  IN CASE m.sig # "" -> m
       [] m.sig = "" /\ m.left = 0 -> Signal(m, "endless")
       [] ~going /\ m.sig = "" /\ m.left > 0 -> Give(m, B(n.t = "all"))
       [] OTHER ->
            LET r == [keep EXCEPT !.left = @ - 1] t == [val EXCEPT !.left = @ - 1] IN
            CASE ~True(keep) -> next(r)
              [] True(keep) /\ n.t = "" /\ val.sig = "" ->
                   next(Write(t, res.v, Append(Elems(t, res.v), val.v)))
              [] True(keep) /\ n.t # "" /\ True(val) # (n.t = "all") /\ val.sig = "" ->
                   Give(t, B(n.t = "any"))
              [] OTHER -> next(t)

GenListComp(m, n) ==
  LET src   == n.c[2]
      rng   == src.k = "range"
      new   == New(m, <<>>)
      m0    == IF n.t = "" THEN Set(new, n.c[6].t, new.v) ELSE m
      start == Eval(m0, IF rng THEN src.c[1] ELSE src)
      stop  == IF rng THEN Eval(start, src.c[2]) ELSE start
      step  == IF rng /\ src.v = 0 THEN Eval(stop, Call("range.step", <<src.c[3]>>)) ELSE stop
      ends  == [list |-> IF rng THEN None ELSE start.v, stop |-> stop.v.v,
                step |-> IF ~rng THEN 1 ELSE IF src.v = 0 THEN step.v.v ELSE src.v]
      end   == CompRounds(step, n, ends, IF rng THEN start.v.v ELSE 0)
      done  == IF n.t = "" THEN Give(end, end.env[n.c[6].t]) ELSE end
  IN IF step.sig # "" THEN step ELSE [done EXCEPT !.env = m.env]

-----------------------------------------------------------------------------
(* Loops as the language describes them *)

RECURSIVE Bind(_, _, _)
\* The variables of a target: a name, or a tuple of targets.
Bind(m, target, v) ==
  IF target.k = "var" THEN Set(m, target.t, v)
  ELSE FoldLeft(LAMBDA a, i : Bind(a, target.c[i], v.c[i]), m, [i \in DOMAIN target.c |-> i])

\* it: what is walked, and where the walk is.
Going(m, it) ==
  CASE it.k = "range" ->
         LET stop == Eval(m, it.stop) IN
         IF stop.sig # "" THEN stop
         ELSE Give(stop, B(IF it.step > 0 THEN it.i < stop.v.v ELSE it.i > stop.v.v))
    [] it.k \in {"list", "enumerate"} -> Give(m, B(it.i < Len(Elems(m, it.list))))
    [] it.k = "cursor" -> Give(m, B(it.i >= 0))

Element(m, it) ==
  CASE it.k = "range" -> Give(m, I(it.i))
    [] it.k = "list" -> Give(m, Elems(m, it.list)[it.i + 1])
    [] it.k = "enumerate" -> Give(m, Val("tuple", 0, "", <<I(it.i), Elems(m, it.list)[it.i + 1]>>))
    [] it.k = "cursor" -> Eval(m, Node("method", "__get__", <<it.stop, Num(it.i)>>))

\* The next step of a for is an addition like any other and may overflow; a
\* comprehension (fixed) ends where its range ends.
After(m, it) ==
  LET next == Eval(m, Node("method", "__next__", <<it.stop, Num(it.i)>>))
      i    == it.i + it.step
  IN CASE it.k = "cursor" -> [m |-> next, it |-> [it EXCEPT !.i = next.v.v]]
       [] OTHER -> [m |-> IF it.fixed \/ Fits(i) THEN m ELSE Signal(m, "overflow"), it |-> [it EXCEPT !.i = i]]

Rounds(m, it, target, body) ==
  LET go == Going(m, it)
      el == Element(go, it)
      b  == Exec(Bind(el, target, el.v), body)
      af == After([b EXCEPT !.sig = "", !.left = @ - 1], it)
  IN CASE go.sig # "" \/ ~True(go) -> go
       [] True(go) /\ go.left = 0 -> Signal(go, "endless")
       [] True(go) /\ go.left > 0 /\ b.sig = "break" -> [b EXCEPT !.sig = ""]
       [] True(go) /\ go.left > 0 /\ b.sig \in {"", "continue"} -> Rounds(af.m, af.it, target, body)
       [] OTHER -> b

\* The start of a walk.  fixed: a comprehension evaluates the end once.
Iter(m, e, fixed) ==
  LET args  == EvalAll(m, SelectSeq(IF Len(e.c) = 1 THEN <<Num(0)>> ELSE <<e.c[1]>>, LAMBDA x : TRUE))
      stop  == IF Len(e.c) = 1 THEN e.c[1] ELSE e.c[2]
      limit == Eval(args.m, stop)
      m1    == IF fixed THEN limit ELSE args.m
      step  == IF Len(e.c) = 3 THEN Eval(m1, e.c[3]) ELSE Give(m1, I(1))
      xs    == Eval(m, IF e.k = "call" /\ e.t = "enumerate" THEN e.c[1] ELSE e)
      first == Eval(m, Node("method", "__first__", <<e>>))
      it(k, i, s, st, l) == [k |-> k, i |-> i, stop |-> s, step |-> st, list |-> l, fixed |-> fixed]
  IN CASE e.k = "call" /\ e.t = "range" ->
            [m  |-> IF step.sig = "" /\ step.v.v = 0 THEN Signal(step, "step") ELSE step,
             it |-> it("range", args.vs[1].v, IF fixed THEN Num(limit.v.v) ELSE stop, step.v.v, None)]
       [] e.k = "call" /\ e.t = "enumerate" -> [m |-> xs, it |-> it("enumerate", 0, Nil, 1, xs.v)]
       [] e.k = "var" /\ e.t \in Cursored -> [m |-> first, it |-> it("cursor", first.v.v, e, 1, None)]
       [] OTHER -> [m |-> xs, it |-> it("list", 0, Nil, 1, xs.v)]

For(m, n) ==
  LET start == Iter(m, n.c[2], FALSE) IN
  IF start.m.sig # "" THEN start.m ELSE Rounds(start.m, start.it, n.c[1], n.c[3])

\* The element goes to the list; all and any end when the answer is known.
Yield(m, n) ==
  LET keep == IF n.c[2] = Nil THEN Give(m, B(TRUE)) ELSE Eval(m, n.c[2])
      val  == Eval(keep, n.c[1])
      list == List(n.v)
      more == Write(val, list, Append(Elems(val, list), val.v))
  IN CASE ~True(keep) -> keep
       [] True(keep) /\ val.sig # "" -> val
       [] True(keep) /\ val.sig = "" /\ n.t = "" -> more
       [] OTHER -> IF True(val) = (n.t = "all") THEN val ELSE Signal(more, "break")

Comp(m, n) ==
  LET new   == New(m, <<>>)
      start == Iter(new, n.c[3], TRUE)
      end   == Rounds(start.m, start.it, n.c[2], [Node("yield", n.t, <<n.c[1], n.c[4]>>) EXCEPT !.v = new.v.v])
      told  == Elems(end, new.v) # <<>>
      v     == CASE n.t = "" -> new.v [] n.t = "all" -> B(~told) [] n.t = "any" -> B(told)
  IN IF start.m.sig # "" THEN start.m ELSE [Give(end, v) EXCEPT !.env = m.env]

-----------------------------------------------------------------------------
(* The whole of expressions and statements *)

Eval(m, e) ==
  LET a == Eval(m, e.c[1]) all == EvalAll(m, e.c) IN
  CASE m.sig # "" -> m
    [] m.sig = "" /\ e.k = "int" -> Give(m, I(e.v))
    [] m.sig = "" /\ e.k = "str" -> Give(m, S(e.t))
    [] m.sig = "" /\ e.k = "const" ->
         Give(m, CASE e.t = "None" -> None [] e.t = "True" -> B(TRUE) [] e.t = "False" -> B(FALSE))
    [] m.sig = "" /\ e.k = "var" -> IF e.t \in DOMAIN m.env THEN Give(m, m.env[e.t]) ELSE Signal(m, "unknown")
    [] m.sig = "" /\ e.k = "bin" -> EvalBin(m, e)
    [] m.sig = "" /\ e.k = "un" ->
         IF a.sig # "" THEN a
         ELSE (CASE e.t = "not" -> Give(a, B(a.v = B(FALSE)))
                 [] e.t = "-" -> Checked(a, -a.v.v)
                 [] e.t = "+" -> a)
    [] m.sig = "" /\ e.k = "cond" ->
         IF a.sig # "" THEN a ELSE Eval(a, IF True(a) THEN e.c[2] ELSE e.c[3])
    [] m.sig = "" /\ e.k = "list" -> IF all.m.sig # "" THEN all.m ELSE New(all.m, all.vs)
    [] m.sig = "" /\ e.k = "tuple" -> Give(all.m, Val("tuple", 0, "", all.vs))
    [] m.sig = "" /\ e.k = "index" -> EvalIndex(m, e)
    [] m.sig = "" /\ e.k = "method" -> EvalMethod(m, e)
    [] m.sig = "" /\ e.k = "field" -> EvalField(m, e)
    [] m.sig = "" /\ e.k = "enumtag" -> Give(a, I(a.v.v))
    [] m.sig = "" /\ e.k = "call" -> EvalCall(m, e)
    [] m.sig = "" /\ e.k = "listcomp" -> GenListComp(m, e)
    [] m.sig = "" /\ e.k = "comp" -> Comp(m, e)

\* The value goes to a variable or to an element.
Store(m, target, v) ==
  LET xs == Eval(m, target.c[1])
      i  == Eval(xs, target.c[2])
      p  == Place(Len(Elems(i, xs.v)), i.v.v)
  IN CASE target.k = "var" -> Set(m, target.t, v)
       [] target.k = "index" /\ i.sig # "" -> i
       [] target.k = "index" /\ i.sig = "" ->
            IF p \in DOMAIN Elems(i, xs.v) THEN [i EXCEPT !.heap = [@ EXCEPT ![xs.v.v] = [@ EXCEPT ![p] = v]]]
            ELSE Signal(i, "index")

\* x op= e: the place is evaluated once, then the old value, then e.
Aug(m, n) ==
  LET target == n.c[1]
      xs  == Eval(m, target.c[1])
      i   == Eval(xs, target.c[2])
      was == ElementAt(i, xs.v, i.v.v)
      e   == Eval(was, n.c[2])
      sum == Arith(e, n.t, was.v.v, e.v.v)
  IN CASE target.k = "var" -> Exec(m, Assign(target, Bin(n.t, target, n.c[2])))
       [] target.k = "index" /\ i.sig # "" -> i
       [] target.k = "index" /\ i.sig = "" /\ (was.sig # "" \/ e.sig # "") -> e
       [] target.k = "index" /\ i.sig = "" /\ was.sig = "" /\ e.sig = "" ->
            IF sum.sig # "" THEN sum
            ELSE Write(sum, xs.v, [Elems(sum, xs.v) EXCEPT ![Place(Len(Elems(sum, xs.v)), i.v.v)] = sum.v])

RECURSIVE HasForm(_, _), Bound(_, _, _)
\* Does the value have the form of the pattern?
HasForm(pat, v) ==
  CASE pat = Nil -> TRUE
    [] pat.k = "var" -> TRUE
    [] pat.k = "int" -> v = I(pat.v)
    [] pat.k = "str" -> v = S(pat.t)
    [] IsBranch(pat) ->
         /\ pat.t = Enums[v.t][v.v + 1].t
         /\ \A i \in DOMAIN Args(pat) : HasForm(Args(pat)[i], v.c[i])

\* The names of the pattern take the parts of the value.
Bound(m, pat, v) ==
  IF pat.k = "var" THEN Set(m, pat.t, v)
  ELSE FoldLeft(LAMBDA a, i : Bound(a, Args(pat)[i], v.c[i]), m, [i \in DOMAIN Args(pat) |-> i])

RECURSIVE Try(_, _, _, _)
\* The first case whose pattern fits and whose guard holds.
Try(m, n, i, v) ==
  LET in == Bound(m, Pat(n.c[i]), v)
      g  == IF Guard(n.c[i]) = Nil THEN Give(in, B(TRUE)) ELSE Eval(in, Guard(n.c[i]))
  IN CASE i > Len(n.c) -> Signal(m, "unmatched")
       [] i <= Len(n.c) /\ ~HasForm(Pat(n.c[i]), v) -> Try(m, n, i + 1, v)
       [] OTHER -> CASE g.sig # "" -> g
                     [] True(g) -> Exec(g, Body(n.c[i]))
                     [] OTHER -> Try([g EXCEPT !.env = m.env], n, i + 1, v)

\* while, with the increment of a for behind the body: continue goes there.
Repeat(m, n) ==
  LET cond == Eval(m, n.c[1])
      body == Exec([cond EXCEPT !.left = @ - 1], n.c[2])
      incr == IF n.c[3] = Nil THEN [body EXCEPT !.sig = ""] ELSE Exec([body EXCEPT !.sig = ""], n.c[3])
  IN CASE cond.sig # "" \/ ~True(cond) -> cond
       [] True(cond) /\ cond.left = 0 -> Signal(cond, "endless")
       [] True(cond) /\ cond.left > 0 /\ body.sig = "break" -> [body EXCEPT !.sig = ""]
       [] True(cond) /\ cond.left > 0 /\ body.sig \in {"", "continue"} -> Exec(incr, n)
       [] OTHER -> body

Exec(m, n) ==
  LET a == Eval(m, n.c[1]) all == EvalAll(m, SubSeq(n.c, n.v + 1, Len(n.c))) IN
  CASE m.sig # "" -> m
    [] m.sig = "" /\ n.k = "decl" -> IF a.sig # "" THEN a ELSE Set(a, n.t, a.v)
    [] m.sig = "" /\ n.k = "assign" ->
         LET v == Eval(m, n.c[2]) IN IF v.sig # "" THEN v ELSE Store(v, n.c[1], v.v)
    [] m.sig = "" /\ n.k = "unpack" ->
         IF a.sig # "" THEN a
         ELSE FoldLeft(LAMBDA b, i : Set(b, n.c[i + 1].t, a.v.c[i]), a, [i \in 1 .. Len(n.c) - 1 |-> i])
    [] m.sig = "" /\ n.k = "block" -> Execs(m, n.c)
    [] m.sig = "" /\ n.k = "if" ->
         (CASE a.sig # "" -> a
            [] True(a) -> Exec(a, n.c[2])
            [] OTHER -> IF n.c[3] = Nil THEN a ELSE Exec(a, n.c[3]))
    [] m.sig = "" /\ n.k = "while" -> Repeat(m, n)
    [] m.sig = "" /\ n.k \in {"break", "continue"} -> Signal(m, n.k)
    [] m.sig = "" /\ n.k = "return" ->
         IF n.c[1] = Nil THEN Signal(Give(m, None), "return") ELSE Signal(a, "return")
    [] m.sig = "" /\ n.k \in {"pass", "requires", "ensures"} -> m
    [] m.sig = "" /\ n.k = "match" -> IF a.sig # "" THEN a ELSE Try(a, n, 2, a.v)
    [] m.sig = "" /\ n.k \in {"call", "method"} -> Eval(m, n)
    [] m.sig = "" /\ n.k = "for" -> For(m, n)
    [] m.sig = "" /\ n.k = "yield" -> Yield(m, n)
    [] m.sig = "" /\ n.k = "aug" -> Aug(m, n)
    [] m.sig = "" /\ n.k = "swap" ->
         IF all.m.sig # "" THEN all.m
         ELSE FoldLeft(LAMBDA b, i : Store(b, n.c[i], all.vs[i]), all.m, [i \in 1 .. n.v |-> i])
    [] m.sig = "" /\ n.k = "nested" -> IF a.sig # "" THEN a ELSE Bind(a, n.c[2], a.v)
    [] m.sig = "" /\ n.k = "assert" -> IF a.sig # "" \/ True(a) THEN a ELSE Signal(a, "panic")

\* What a run of a file shows: how it ends, and what it printed.
Run(file, heap, vars) ==
  LET fns  == SelectSeq(file.c, LAMBDA d : d.k = "func")
      main == SelectSeq(fns, LAMBDA f : f.t = "main")[1]
      end  == Exec([Begin(fns, heap) EXCEPT !.env = vars], main.c[3])
  IN [sig |-> end.sig, out |-> end.out]
=============================================================================

------------------------------- MODULE Prove -------------------------------
(***************************************************************************)
(* The bounds prover (src/src/prove.c): an interval for every local        *)
(* integer and two relations between lists and indices are carried through *)
(* a function body, and a run-time check that can never fail is removed.   *)
(*                                                                         *)
(* A program is grown one statement or one control construct at a time.    *)
(* Analysis is what prove_func concludes of it, Execution what the code    *)
(* without the removed checks does.                                        *)
(***************************************************************************)
EXTENDS Lang

\* The families of programs to look at, by name.  Of each:
\*   menu     the simple statements its programs are made of
\*   shapes   the control constructs they use
\*   conds    the conditions of their if and while
\*   types    the interval of each integer's type
\*   start    the memories a call may begin with
\*   ensures  the postcondition, or None
\*   checked  arithmetic is checked (no --no-overflow-check)
\*   prefix   the statements every program begins with
\*   size     bound: statements and constructs grown
CONSTANT Families

ASSUME FamiliesAssumption ==
  \A name \in DOMAIN Families : LET f == Families[name] IN
    /\ f.size \in Nat /\ f.checked \in BOOLEAN /\ f.types \in [IntVar -> Iv]
    /\ \A m \in f.start : m \in Memory /\ \A x \in IntVar : m.int[x] \in Values(f.types[x])

VARIABLES family, prog, size, compiled
vars == <<family, prog, size, compiled>>

Given == Families  \* evaluated once
F == Given[family]

Places == ListVar \cup {None}

\* Env: the intervals, "this variable is below the length of this list", and
\* the pairs of lists known to be of the same length.
Env == [iv : [IntVar -> Iv], lt : [IntVar -> Places], eq : SUBSET SUBSET ListVar]

\* Nothing is known but what the types say.
KnownOf(types) == [iv |-> [x \in IntVar |-> types[x]], lt |-> [x \in IntVar |-> None], eq |-> {}]

\* A value that changed keeps no relation to a list.
env_set(env, x, v) == [env EXCEPT !.iv = (x :> v) @@ @, !.lt = (x :> None) @@ @]

env_join(dst, src) ==
  [iv |-> [x \in IntVar |-> iv_join(dst.iv[x], src.iv[x])],
   lt |-> [x \in IntVar |-> IF dst.lt[x] = src.lt[x] THEN dst.lt[x] ELSE None],
   eq |-> dst.eq \cap src.eq]

env_widen(env, old) == [env EXCEPT !.iv = [x \in IntVar |-> iv_widen(env.iv[x], old.iv[x])]]

\* Mutant of kill_place: the fields of an object are not forgotten with it.
kill_place_only(env, p) ==
  LET Hit(q) == q = p IN
  [env EXCEPT !.lt = [x \in IntVar |-> IF Hit(env.lt[x]) THEN None ELSE env.lt[x]],
              !.eq = {s \in env.eq : \A q \in s : ~Hit(q)}]

\* What was known of a place, or of the fields below it, is forgotten.
kill_place(env, p) ==
  LET Hit(q) == q # None /\ (q = p \/ ObjectOf[q] = p) IN
  [iv |-> [x \in IntVar |-> IF x = p THEN IV_TOP ELSE env.iv[x]],
   lt |-> [x \in IntVar |-> IF x = p \/ Hit(env.lt[x]) THEN None ELSE env.lt[x]],
   eq |-> {s \in env.eq : \A q \in s : ~Hit(q)}]

kill_global_rels(env) ==
  [env EXCEPT !.lt = [x \in IntVar |-> IF env.lt[x] \in Global THEN None ELSE env.lt[x]],
              !.eq = {s \in env.eq : s \cap Global = {}}]

\* A call forgets what it was given, and every global.
kill_mut_args(env, p) == kill_global_rels(kill_place(env, p))

-----------------------------------------------------------------------------
\* eval: the interval of an expression.
RECURSIVE IvOf(_, _)
IvOf(env, e) ==
  CASE e.k = "num" -> iv_of(e.v)
    [] e.k = "ref" -> iv_meet(env.iv[e.x], F.types[e.x])
    [] e.k = "len" -> Between(0, MaxInt)
    [] e.k = "chk" -> e.range
    [] e.k = "neg" -> iv_neg(IvOf(env, e.l))
    [] e.k = "bin" ->
         LET a == IvOf(env, e.l)
             b == IvOf(env, e.r)
         IN  CASE e.op = "add" -> iv_add(a, b, F.checked).iv
               [] e.op = "sub" -> iv_sub(a, b, F.checked).iv
               [] e.op = "mul" -> iv_mul(a, b, F.checked).iv
               [] e.op = "mod" -> iv_mod(a, b)
               [] e.op = "div" -> iv_floordiv(a, b)

\* narrow_cmp: what a comparison that held says of its two sides.
narrow_cmp(env, c, truth) ==
  LET op  == IF truth THEN c.op ELSE Negate(c.op)
      li  == IvOf(env, c.l)
      ri  == IvOf(env, c.r)
      rel == [env EXCEPT
                !.lt = [x \in IntVar |->
                          IF op = "lt" /\ c.l.k = "ref" /\ c.r.k = "len" /\ c.l.x = x
                          THEN c.r.p ELSE env.lt[x]],
                !.eq = IF op = "eq" /\ c.l.k = "len" /\ c.r.k = "len" /\ c.l.p # c.r.p
                       THEN env.eq \cup {{c.l.p, c.r.p}} ELSE env.eq]
      \* Not taken over when nothing is left.
      Set(d, x, v) == IF v.lo <= v.hi THEN [d EXCEPT !.iv = (x :> v) @@ @] ELSE d
      left == IF c.l.k = "ref" THEN Set(rel, c.l.x, Cut(op, li, ri)) ELSE rel
  IN  IF c.r.k = "ref" THEN Set(left, c.r.x, Cut(Mirror(op), left.iv[c.r.x], li)) ELSE left

RECURSIVE narrow(_, _, _)
narrow(env, c, truth) ==
  CASE c.k = "cmp" -> narrow_cmp(env, c, truth)
    [] c.k = "not" -> narrow(env, c.l, ~truth)
    [] c.k = (IF truth THEN "and" ELSE "or") -> narrow(narrow(env, c.l, truth), c.r, truth)
    [] OTHER -> env

RECURSIVE prove_cond(_, _)
prove_cond(env, c) ==
  CASE c.k = "cmp" -> prove_cmp(c.op, IvOf(env, c.l), IvOf(env, c.r))
    [] c.k = "not" -> LET t == prove_cond(env, c.l) IN
                      IF t = "true" THEN "false" ELSE IF t = "false" THEN "true" ELSE t
    [] c.k \in {"and", "or"} ->
         LET T == {prove_cond(env, c.l), prove_cond(env, c.r)}
             strong == IF c.k = "and" THEN "false" ELSE "true"
         IN  IF strong \in T THEN strong
             ELSE IF "unknown" \in T THEN "unknown" ELSE CHOOSE t \in T : TRUE
    [] OTHER -> "unknown"

-----------------------------------------------------------------------------
(***************************************************************************)
(* walk_expr: the nodes of an expression whose check is superfluous.       *)
(***************************************************************************)
\* Mutant of NoOverflow: an interval that was cut off counts as exact.
NoOverflowCut(env, e) ==
  LET a == IvOf(env, e.l)  b == IvOf(env, e.r) IN a # IV_TOP /\ b # IV_TOP

NoOverflow(env, e) ==
  LET a == IvOf(env, e.l)
      b == IvOf(env, e.r)
  IN  CASE e.op = "add" -> iv_add(a, b, F.checked).exact
        [] e.op = "sub" -> iv_sub(a, b, F.checked).exact
        [] e.op = "mul" -> iv_mul(a, b, F.checked).exact

\* Division becomes one machine instruction by a positive constant.
NoDivision(env, e) ==
  LET b == IvOf(env, e.r) IN IvOf(env, e.l).lo >= 0 /\ b.lo > 0 /\ b.lo = b.hi

\* An index that is not negative and below the length of this list, or of one
\* that is as long.
NoBounds(env, e) ==
  /\ IvOf(env, e.i).lo >= 0
  /\ e.i.k = "ref"
  /\ env.lt[e.i.x] # None
  /\ env.lt[e.i.x] = e.p \/ {env.lt[e.i.x], e.p} \in env.eq

RECURSIVE Removable(_, _)
Removable(env, e) ==
  CASE e.k = "bin" -> Removable(env, e.l) \cup Removable(env, e.r) \cup
                      {n \in {e} : IF e.op \in {"div", "mod"} THEN NoDivision(env, n)
                                   ELSE NoOverflow(env, n)}
    [] e.k = "neg" -> Removable(env, e.l)
    [] e.k = "chk" -> Removable(env, e.l) \cup
                      {n \in {e} : iv_fits(IvOf(env, n.l), n.range.lo, n.range.hi)}
    [] e.k = "at"  -> Removable(env, e.i) \cup {n \in {e} : NoBounds(env, n)}
    [] OTHER -> {}

\* The same for a condition, whose calls change what is known.
RECURSIVE walk_cond(_, _)
walk_cond(env, c) ==
  CASE c.k = "cmp"   -> [env |-> env, nodes |-> Removable(env, c.l) \cup Removable(env, c.r)]
    [] c.k = "touch" -> [env |-> kill_mut_args(env, c.S), nodes |-> {}]
    [] c.k = "not"   -> walk_cond(env, c.l)
    [] c.k \in {"and", "or"} ->
         LET l == walk_cond(env, c.l)
             r == walk_cond(l.env, c.r)
         IN  [env |-> r.env, nodes |-> l.nodes \cup r.nodes]

-----------------------------------------------------------------------------
(***************************************************************************)
(* walk_stmt.  Its state: the Env, whether marks may be set in this pass   *)
(* (not while a fixpoint is sought), the marks, and what the returns said  *)
(* of the postcondition.                                                   *)
(***************************************************************************)
MarkAt(e, path, nodes) ==
  IF e.mark THEN [e EXCEPT !.marks = @ \cup {<<path, n>> : n \in nodes}] ELSE e

\* A break or continue of this loop: inner loops keep theirs.
RECURSIVE has_jump(_)
has_jump(body) == \E i \in DOMAIN body :
  \/ body[i].op \in {"break", "continue"}
  \/ body[i].op # "while" /\ (has_jump(body[i].body) \/ has_jump(body[i].els))

\* Mutant of always_exits: a loop that returns in its body is taken to exit.
RECURSIVE exits_somehow(_)
exits_somehow(body) == \E i \in DOMAIN body :
  \/ body[i].op \in {"return", "raise", "break", "continue"}
  \/ exits_somehow(body[i].body)

RECURSIVE always_exits(_)
always_exits(body) == \E i \in DOMAIN body :
  \/ body[i].op \in {"return", "raise", "break", "continue"}
  \/ body[i].op = "if" /\ body[i].els # <<>> /\ always_exits(body[i].body)
                       /\ always_exits(body[i].els)

\* What a body may write is forgotten.
RECURSIVE kill_assigned(_, _)
kill_assigned(env, body) ==
  FoldLeft(LAMBDA d, s :
             LET d1 == IF s.op \in {"let", "decl", "new"} THEN kill_place(d, s.x)
                       ELSE IF s.op = "call" THEN kill_mut_args(d, s.x) ELSE d
                 d2 == IF s.c.k = "touch" THEN kill_mut_args(d1, s.c.S) ELSE d1
             IN  kill_assigned(kill_assigned(d2, s.body), s.els),
           env, body)

RECURSIVE walk_stmt(_, _, _), walk_from(_, _, _, _)

walk_from(e, body, path, i) ==
  IF i > Len(body) THEN e
  ELSE walk_from(walk_stmt(e, body[i], Append(path, i)), body, path, i + 1)

walk_list(e, body, path) == walk_from(e, body, path, 1)

\* A side that always leaves takes no part in what holds afterwards.
walk_if(e, s, path) ==
  LET c      == walk_cond(e.env, s.c)
      d      == MarkAt([e EXCEPT !.env = c.env], path, c.nodes)
      then_e == walk_list([d EXCEPT !.env = narrow(c.env, s.c, TRUE)], s.body, path \o <<1>>)
      else_e == walk_list([then_e EXCEPT !.env = narrow(c.env, s.c, FALSE)], s.els, path \o <<2>>)
      then_out == always_exits(s.body)
      else_out == always_exits(s.els)
  IN  [else_e EXCEPT !.env = IF then_out /\ ~else_out THEN else_e.env
                             ELSE IF else_out /\ ~then_out THEN then_e.env
                             ELSE env_join(then_e.env, else_e.env)]

\* Each case starts from what held before.
walk_match(e, s, path) ==
  LET c1 == walk_list(e, s.body, path \o <<1>>)
      c2 == walk_list([c1 EXCEPT !.env = e.env], s.els, path \o <<2>>)
      out1 == always_exits(s.body)
      out2 == always_exits(s.els)
  IN  [c2 EXCEPT !.env = IF out1 /\ out2 THEN e.env
                         ELSE IF out1 THEN c2.env
                         ELSE IF out2 THEN c1.env
                         ELSE env_join(c1.env, c2.env)]

\* Once around a loop from the entry in, without setting marks.
Around(e, s, path, in) ==
  LET b == walk_list([e EXCEPT !.env = narrow(in, s.c, TRUE), !.mark = FALSE],
                     s.body, path \o <<1>>)
  IN  walk_list(b, s.els, path \o <<2>>)

\* The entry of a loop: at most 8 rounds, widening from the second one on.
RECURSIVE Entry(_, _, _, _, _)
Entry(e, s, path, in, round) ==
  LET a    == Around(e, s, path, in)
      join == env_join(in, a.env)
      next == IF round >= 1 THEN env_widen(join, in) ELSE join
  IN  IF next = in THEN [found |-> TRUE, env |-> in, e |-> a]
      ELSE IF round = 7 THEN [found |-> FALSE, env |-> in, e |-> a]
      ELSE Entry(a, s, path, next, round + 1)

\* Mutant of LoopEntry: marks and facts of the first round are believed.
FirstEntry(e, s, path) == [found |-> TRUE, env |-> e.env, e |-> Around(e, s, path, e.env)]

LoopEntry(e, s, path) ==
  LET Forgotten == kill_assigned(kill_assigned(e.env, s.body), s.els)
  IN  IF has_jump(s.body) THEN [found |-> FALSE, env |-> Forgotten, e |-> e]
      ELSE LET f == Entry(e, s, path, e.env, 0) IN
           IF f.found THEN f ELSE [f EXCEPT !.env = Forgotten]

walk_while(e, s, path) ==
  LET f    == LoopEntry(e, s, path)
      in   == f.env
      c    == walk_cond(narrow(in, s.c, TRUE), s.c)
      d    == MarkAt([f.e EXCEPT !.env = c.env, !.mark = e.mark], path, c.nodes)
      body == walk_list(d, s.body, path \o <<1>>)
      incr == walk_list(body, s.els, path \o <<2>>)
  IN  [incr EXCEPT !.env = IF has_jump(s.body) THEN in ELSE narrow(in, s.c, FALSE)]

\* The postcondition is looked at with the value of this return.
walk_return(e, s, path) ==
  LET d   == MarkAt(e, path, Removable(e.env, s.e))
      tmp == env_set(e.env, "result", IvOf(e.env, s.e))
  IN  IF F.ensures = None THEN d
      ELSE [d EXCEPT !.seen = TRUE, !.all_ok = @ /\ prove_cond(tmp, F.ensures) = "true"]

walk_requires(e, s, path) ==
  LET c == walk_cond(e.env, s.c)
      d == MarkAt(e, path, c.nodes \cup (IF prove_cond(c.env, s.c) = "true" THEN {s.c} ELSE {}))
  IN  [d EXCEPT !.env = narrow(c.env, s.c, TRUE)]

walk_stmt(e, s, path) ==
  CASE s.op \in {"let", "decl"} -> [MarkAt(e, path, Removable(e.env, s.e)) EXCEPT
                            !.env = env_set(e.env, s.x, IvOf(e.env, s.e))]
    [] s.op \in {"get", "put"} -> MarkAt(e, path, Removable(e.env, s.e))
    [] s.op = "new"   -> e
    [] s.op = "call"  -> [e EXCEPT !.env = kill_mut_args(e.env, s.x)]
    [] s.op = "requires" -> walk_requires(e, s, path)
    [] s.op = "return"   -> walk_return(e, s, path)
    [] s.op \in {"raise", "break", "continue"} -> e
    [] s.op = "if"    -> walk_if(e, s, path)
    [] s.op = "match" -> walk_match(e, s, path)
    [] s.op = "while" -> walk_while(e, s, path)
    [] s.op = "try"   ->
         \* Where the body was left is not known.
         LET b == walk_list(e, s.body, path \o <<1>>)
             h == walk_list(b, s.els, path \o <<2>>)
         IN  [h EXCEPT !.env = KnownOf([x \in IntVar |-> IV_TOP])]

\* prove_func: parameters start from their types.
Analysis ==
  walk_list([env |-> KnownOf(F.types), mark |-> TRUE,
             marks |-> {}, seen |-> FALSE, all_ok |-> TRUE], prog, <<>>)

\* A postcondition goes when every return showed it.
Removed(a) ==
  a.marks \cup (IF a.seen /\ a.all_ok THEN {<<<<>>, F.ensures>>} ELSE {})

Execution(removed) ==
  LET r     == RunList(prog, <<>>, F.start, removed, F.checked)
      wrong == /\ F.ensures # None
               /\ \E m \in r.ret : \E o \in Test(F.ensures, m, {}, F.checked) : ~o.yes
  IN  [r EXCEPT !.bad = @ \/ (<<<<>>, F.ensures>> \in removed /\ wrong)]

-----------------------------------------------------------------------------
Init == family \in DOMAIN Families /\ prog = F.prefix /\ size = 0 /\ compiled = FALSE

Grown == ~compiled /\ size < F.size /\ size' = size + 1 /\ UNCHANGED <<family, compiled>>

\* One more simple statement.
Write(s) == Grown /\ prog' = Append(prog, s)

\* The last statements, from the i-th on, become the bodies of a construct;
\* those from the j-th on are its second body
\* (of a loop, the increment of a for).
Fork(op, c, i, j) ==
  /\ Grown
  /\ op \in F.shapes
  /\ Len(F.prefix) < i /\ i < j
  /\ op = "while" => \/ j > Len(prog)
                     \/ j = Len(prog) /\ prog[j].op = "let"
  /\ prog' = Append(SubSeq(prog, 1, i - 1),
                    Node(op, c, SubSeq(prog, i, j - 1), SubSeq(prog, j, Len(prog))))

\* The body is complete, and is compiled.
Compile == ~compiled /\ compiled' = TRUE /\ UNCHANGED <<family, prog, size>>

Next ==
  \/ Compile
  \/ \E s \in F.menu : Write(s)
  \/ \E op \in {"if", "while"}, c \in F.conds :
       \E i \in DOMAIN prog, j \in 1 .. Len(prog) + 1 : Fork(op, c, i, j)
  \/ \E op \in {"match", "try"} :
       \E i \in DOMAIN prog, j \in 1 .. Len(prog) + 1 : Fork(op, Always_, i, j)

Spec == Init /\ [][Next]_vars

-----------------------------------------------------------------------------
\* A check that was removed could not have failed: at none of the states the
\* code reaches does an operation without its check go wrong.
NoNeededCheckRemoved == [][Compile => LET a == Analysis IN ~Execution(Removed(a)).bad]_vars

\* What is known at the end of the body is true of every execution that gets
\* there: the intervals, the indices below a length, the equal lengths.
Known ==
  LET env == Analysis.env IN
  \A m \in Execution({}).ok :
    /\ \A x \in IntVar \ {"result"} :
         /\ m.int[x] \in Values(env.iv[x])
         /\ env.lt[x] # None => m.int[x] < m.len[env.lt[x]]
    /\ \A s \in env.eq : \A p, q \in s : m.len[p] = m.len[q]
KnowledgeTrue == [][Compile => Known]_vars
=============================================================================

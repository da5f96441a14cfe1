------------------------------ MODULE Rewrite ------------------------------
(***************************************************************************)
(* What the type checker (sema.c) rewrites in the tree of the parser, so   *)
(* that the code generator never sees it: for over lists and over classes  *)
(* with cursors, match with guards, nested patterns and branches with      *)
(* fields, keyword and default arguments, and old(e) in postconditions.    *)
(*                                                                         *)
(* A rewriting takes a node and a state s: the number of the next hidden   *)
(* name, and the message of a refused program.                             *)
(***************************************************************************)
EXTENDS Statements

CONSTANTS Enums,    \* of each enumeration its branches, [t |-> name, c |-> fields]
          Cursored  \* the variables whose class has __first__, __next__, __get__

S0 == [hid |-> 0, err |-> "", used |-> FALSE]
W(n, s) == [n |-> n, s |-> s]
Refuse(s, code) == IF s.err = "" THEN [s EXCEPT !.err = code] ELSE s
SHidden(s, tag) == tag \o "." \o ToString(s.hid)
Hid(s, n) == [s EXCEPT !.hid = @ + n]

-----------------------------------------------------------------------------
(* for over a list, or over a class with cursors *)

Foreach(n) ==
  LET iter == n.c[1] ix == n.c[3] it == n.c[4]
      on(m, args) == Node("method", m, <<it>> \o args)
      loop(first, cond, elem, next) ==
        Block(<<HiddenDecl(it.t, iter), HiddenDecl(ix.t, first),
                While(cond, Prepended(<<HiddenDecl(n.t, elem)>>, n.c[2]), Assign(ix, next))>>)
  IN IF iter.k = "var" /\ iter.t \in Cursored
     THEN loop(on("__first__", <<>>), Bin(">=", ix, Num(0)), on("__get__", <<ix>>),
               on("__next__", <<ix>>))
     ELSE loop(Num(0), Bin("<", ix, Call("len", <<it>>)), Index(it, ix), Bin("+", ix, Num(1)))

-----------------------------------------------------------------------------
(* match: guards and nested patterns *)

Pat(case) == case.c[1]
Guard(case) == case.c[2]
Body(case) == case.c[3]
Case(pat, body) == Node("case", "", <<pat, Nil, body>>)
IsDefault(case) == Pat(case) = Nil
IsBranch(pat) == pat.k \in {"field", "method"}
Args(pat) == IF pat.k = "method" THEN Tail(pat.c) ELSE <<>>

Refutable(case) == Guard(case) # Nil \/ \E i \in DOMAIN Args(Pat(case)) : Args(Pat(case))[i].k # "var"

\* Mutant of SameKey: numbers are forgotten.
SameKeyOfBranches(a, b) ==
  \/ IsBranch(a) /\ IsBranch(b) /\ a.t = b.t
  \/ a.k = "str" /\ b.k = "str" /\ a.t = b.t

SameKey(a, b) ==
  \/ IsBranch(a) /\ IsBranch(b) /\ a.t = b.t
  \/ a.k = "int" /\ b.k = "int" /\ a.v = b.v
  \/ a.k = "str" /\ b.k = "str" /\ a.t = b.t

RECURSIVE RenamePattern(_, _)
\* The names of a nested pattern become hidden ones.  rn: <<name, hidden>> each.
RenamePattern(pat, s) ==
  FoldLeft(LAMBDA a, arg :
             IF arg.k = "var"
             THEN LET h == SHidden(a.s, "match.n") IN
                  [pat |-> [a.pat EXCEPT !.c = Append(@, Var(h))], s |-> Hid(a.s, 1),
                   rn |-> Append(a.rn, <<arg.t, h>>)]
             ELSE LET b == RenamePattern(arg, a.s) IN
                  [pat |-> [a.pat EXCEPT !.c = Append(@, b.pat)], s |-> b.s, rn |-> a.rn \o b.rn],
           [pat |-> [pat EXCEPT !.c = IF pat.k = "method" THEN <<@[1]>> ELSE @],
            s |-> s, rn |-> <<>>],
           Args(pat))

Renamed(x, rn) ==
  LET hits == {i \in DOMAIN rn : rn[i][1] = x} IN
  IF hits = {} THEN x ELSE rn[CHOOSE i \in hits : \A j \in hits : i <= j][2]

RECURSIVE RenameExpr(_, _)
\* Of a comprehension the element, the source and the condition; the names it
\* declares stay.
RenameExpr(e, rn) ==
  CASE e.k = "var" -> Var(Renamed(e.t, rn))
    [] e.k = "listcomp" ->
         [e EXCEPT !.c = [i \in DOMAIN @ |-> IF i <= 3 THEN RenameExpr(@[i], rn) ELSE @[i]]]
    [] OTHER -> [e EXCEPT !.c = [i \in DOMAIN @ |-> RenameExpr(@[i], rn)]]

RECURSIVE RefineChain(_, _, _, _, _)
\* Tries the cases mem[i], mem[i + 1], ... of one branch, whose fields are in
\* the variables hid; then what "case _" does.  Nil: there is nowhere to go.
RefineChain(mem, i, dflt, hid, s) ==
  IF i > Len(mem)
  THEN IF dflt = Nil THEN W(Nil, s) ELSE W(Body(dflt), [s EXCEPT !.used = TRUE])
  ELSE
  LET args == Args(Pat(mem[i]))
      sub  == FoldLeft(LAMBDA a, j :
                IF args[j].k = "var"
                THEN [a EXCEPT !.pats = Append(@, Nil), !.rn = Append(@, <<args[j].t, hid[j]>>)]
                ELSE LET b == RenamePattern(args[j], a.s) IN
                     [pats |-> Append(a.pats, b.pat), rn |-> a.rn \o b.rn, s |-> b.s],
                [pats |-> <<>>, rn |-> <<>>, s |-> s], [j \in DOMAIN args |-> j])
      rest == RefineChain(mem, i + 1, dflt, hid, sub.s)
      hit  == Block([j \in DOMAIN sub.rn |-> HiddenDecl(sub.rn[j][1], Var(sub.rn[j][2]))]
                    \o <<Body(mem[i])>>)
      test == IF Guard(mem[i]) = Nil THEN hit
              ELSE Block(<<Node("if", "", <<RenameExpr(Guard(mem[i]), sub.rn), hit, rest.n>>)>>)
      wrap(inner, j) ==
        IF args[j].k = "var" THEN inner
        ELSE Block(<<Node("match", "", <<Var(hid[j]), Case(sub.pats[j], inner)>>
                     \o (IF rest.n = Nil THEN <<>> ELSE <<[Case(Nil, rest.n) EXCEPT !.v = 1]>>))>>)
      all  == FoldRight(LAMBDA j, inner : wrap(inner, j), [j \in DOMAIN args |-> j], test)
  IN W(all, IF Guard(mem[i]) # Nil /\ rest.n = Nil THEN Refuse(rest.s, "guard without a way out")
            ELSE rest.s)

\* The cases of one branch or one value.  Something else than a branch, a number
\* or a string is not even in its own group, and the program then reads an
\* array it has not filled.
SameBranch(cases, key) == SelectSeq(cases, LAMBDA c : SameKey(Pat(key), Pat(c)))

\* One case for every branch, in the order of their first cases.
Group(cases, key, dflt, s) ==
  LET mem  == SameBranch(cases, key)
      n    == Len(Args(Pat(key)))
      hid  == [j \in 1 .. n |-> "match.h." \o ToString(s.hid + j - 1)]
      pat  == IF Pat(key).k = "method"
              THEN [Pat(key) EXCEPT !.c = <<@[1]>> \o [j \in 1 .. n |-> Var(hid[j])]]
              ELSE Pat(key)
      body == RefineChain(mem, 1, dflt, hid, Hid(s, n))
      dead == \E j \in 1 .. Len(mem) - 1 : ~Refutable(mem[j])
      odd  == \E j \in DOMAIN mem : Len(Args(Pat(mem[j]))) # n
  IN W(Case(pat, body.n), CASE mem = <<>> -> Refuse(s, "UNDEFINED")
                            [] dead -> Refuse(s, "never chosen")
                            [] ~dead /\ odd -> Refuse(s, "numbers of fields differ")
                            [] OTHER -> body.s)

MatchRefine(n, s) ==
  LET cases == SelectSeq(Tail(n.c), LAMBDA c : ~IsDefault(c))
      last  == Last(n.c)
      dflt  == IF IsDefault(last) THEN last ELSE Nil
      late  == \E i \in 2 .. Len(n.c) - 1 : IsDefault(n.c[i])
      first(i) == \A j \in 1 .. i - 1 : ~SameKey(Pat(cases[j]), Pat(cases[i]))
      all   == FoldLeft(LAMBDA a, i :
                 IF ~first(i) THEN a
                 ELSE LET g == Group(cases, cases[i], dflt, a.s) IN W(Append(a.n, g.n), g.s),
                 W(<<>>, [s EXCEPT !.used = FALSE]), [i \in DOMAIN cases |-> i])
      end   == IF dflt = Nil THEN <<>> ELSE <<[dflt EXCEPT !.v = IF all.s.used THEN 1 ELSE @]>>
  IN IF late \/ \A i \in DOMAIN cases : ~Refutable(cases[i]) THEN W(n, s)
     ELSE W([n EXCEPT !.c = <<n.c[1]>> \o all.n \o end], all.s)

-----------------------------------------------------------------------------
(* match: branches with fields become numbers *)

BranchAt(enum, b) == CHOOSE i \in DOMAIN Enums[enum] : Enums[enum][i].t = b
KnownBranch(enum, pat) ==
  /\ IsBranch(pat) /\ pat.c[1] = Var(enum)
  /\ \E i \in DOMAIN Enums[enum] : Enums[enum][i].t = pat.t

\* The statements before the body: the value seen as its branch, its fields.
BindPattern(enum, pat, var, view) ==
  LET fields == Enums[enum][BranchAt(enum, pat.t)].c
      args   == Args(pat)
  IN IF args = <<>> THEN <<>>
     ELSE <<HiddenDecl(view, Var(var))>>
          \o [i \in DOMAIN args |-> HiddenDecl(args[i].t, Node("field", fields[i], <<Var(view)>>))]

PatternOk(enum, pat) ==
  /\ KnownBranch(enum, pat)
  /\ Len(Args(pat)) = Len(Enums[enum][BranchAt(enum, pat.t)].c)
  /\ \A i \in DOMAIN Args(pat) : Args(pat)[i].k = "var"
  /\ \A i, j \in DOMAIN Args(pat) : i # j => Args(pat)[i].t # Args(pat)[j].t

MatchPayload(n, enum, s) ==
  LET var   == SHidden(s, "match.v")
      cases == FoldLeft(LAMBDA a, c :
                 CASE IsDefault(c) -> W(Append(a.n, c), a.s)
                   [] ~IsDefault(c) /\ ~PatternOk(enum, Pat(c)) -> W(a.n, Refuse(a.s, "pattern"))
                   [] ~IsDefault(c) /\ PatternOk(enum, Pat(c)) ->
                        LET pre == BindPattern(enum, Pat(c), var, SHidden(a.s, "match.b"))
                            tag == Num(BranchAt(enum, Pat(c).t) - 1)
                        IN W(Append(a.n, Case(tag, Prepended(pre, Body(c)))),
                             IF pre = <<>> THEN a.s ELSE Hid(a.s, 1)),
                 W(<<>>, Hid(s, 1)), Tail(n.c))
  IN W(Block(<<HiddenDecl(var, n.c[1]),
               Node("match", enum, <<Node("enumtag", "", <<Var(var)>>)>> \o cases.n)>>), cases.s)

\* What the checker demands of the cases when all are numbers or strings.
MatchCheck(n, s) ==
  LET cases == SelectSeq(Tail(n.c), LAMBDA c : ~IsDefault(c))
      dflts == SelectSeq(Tail(n.c), IsDefault)
      tags  == {Pat(cases[i]).v : i \in DOMAIN cases}
  IN CASE Len(dflts) > 1 \/ (dflts # <<>> /\ ~IsDefault(Last(n.c))) -> Refuse(s, "after case _")
       [] \E i \in DOMAIN cases : Pat(cases[i]).k \notin {"int", "str"} -> Refuse(s, "no constant")
       [] \E i, j \in DOMAIN cases : i < j /\ SameKey(Pat(cases[i]), Pat(cases[j])) ->
            Refuse(s, "never chosen")
       [] n.t = "" /\ dflts = <<>> -> Refuse(s, "no case _")
       [] n.t # "" /\ dflts = <<>> /\ tags # 0 .. Len(Enums[n.t]) - 1 -> Refuse(s, "missing branch")
       [] n.t # "" /\ dflts # <<>> /\ dflts[1].v = 0 /\ Len(cases) = Len(Enums[n.t]) ->
            Refuse(s, "case _ is never chosen")
       [] OTHER -> s

-----------------------------------------------------------------------------
(* Arguments by name, and the old value of an expression *)

\* In the order of the definition; what is not passed takes its default.
BindArgs(args, params, s) ==
  LET pos  == SelectSeq(args, LAMBDA a : a.k # "named")
      key(x) == {i \in DOMAIN args : args[i].k = "named" /\ args[i].t = x}
      slot(i) == CASE i <= Len(pos) -> pos[i]
                   [] i > Len(pos) /\ key(params[i].t) # {} ->
                        args[CHOOSE k \in key(params[i].t) : TRUE].c[1]
                   [] OTHER -> params[i].c[3]
      bad  == \/ Len(pos) > Len(params)
              \/ \E i \in 1 .. Len(args) - 1 : args[i].k = "named" /\ args[i + 1].k # "named"
              \/ \E i \in DOMAIN args : args[i].k = "named" /\
                   \A j \in DOMAIN params : args[i].t # params[j].t
              \/ \E i \in DOMAIN params :
                   Cardinality(key(params[i].t)) + (IF i <= Len(pos) THEN 1 ELSE 0) > 1
              \/ \E i \in DOMAIN params : i > Len(pos) /\ key(params[i].t) = {} /\ params[i].c[3] = Nil
  IN IF bad THEN W(args, Refuse(s, "arguments")) ELSE W([i \in DOMAIN params |-> slot(i)], s)

IsContract(st) == st.k \in {"requires", "ensures"}
RECURSIVE Contracts(_)
\* How many contracts stand at the head of a body.
Contracts(stmts) == IF stmts # <<>> /\ IsContract(stmts[1]) THEN 1 + Contracts(Tail(stmts)) ELSE 0

RECURSIVE OldWalk(_, _)
\* Every old(e) becomes a variable; decls are the declarations of these.
OldWalk(e, decls) ==
  IF e.k = "call" /\ e.t = "old"
  THEN LET x == "old." \o ToString(Len(decls)) IN
       [e |-> Var(x), decls |-> Append(decls, HiddenDecl(x, e.c[1]))]
  ELSE FoldLeft(LAMBDA a, i :
         LET b == OldWalk(e.c[i], a.decls) IN [e |-> [a.e EXCEPT !.c[i] = b.e], decls |-> b.decls],
         [e |-> e, decls |-> decls], [i \in DOMAIN e.c |-> i])

\* The contracts of a body: the requires, then the old values, then the ensures.
RewriteOld(body) ==
  LET n    == Contracts(body.c)
      head == SubSeq(body.c, 1, n)
      req  == SelectSeq(head, LAMBDA st : st.k = "requires")
      ens  == FoldLeft(LAMBDA a, st :
                LET b == OldWalk(st.c[1], a.decls) IN
                [sts |-> Append(a.sts, [st EXCEPT !.c = <<b.e>>]), decls |-> b.decls],
                [sts |-> <<>>, decls |-> <<>>], SelectSeq(head, LAMBDA st : st.k = "ensures"))
  IN IF ens.decls = <<>> THEN body
     ELSE Block(req \o ens.decls \o ens.sts \o SubSeq(body.c, n + 1, Len(body.c)))

-----------------------------------------------------------------------------
(* The walk over the tree *)

RECURSIVE Lower(_, _, _)
LowerAll(es, fns, s) ==
  FoldLeft(LAMBDA a, e : LET b == Lower(e, fns, a.s) IN W(Append(a.n, b.n), b.s), W(<<>>, s), es)

\* The enumeration a match is about; "" for numbers and strings.
EnumOf(n) == IF n.t # "" THEN n.t
             ELSE IF Len(n.c) > 1 /\ IsBranch(Pat(n.c[2])) THEN Pat(n.c[2]).c[1].t ELSE ""

Lower(n, fns, s) ==
  LET hits == {i \in DOMAIN fns : fns[i].t = n.t}
      kids(m, s2) == LET all == LowerAll(m.c, fns, s2) IN W([m EXCEPT !.c = all.n], all.s)
  IN CASE s.err # "" -> W(n, s)
       [] n.k = "foreach" -> Lower(Foreach(n), fns, s)
       [] n.k = "match" /\ n.t = "" ->
            LET r == MatchRefine(n, s) IN
            (CASE r.s.err # "" -> r
               [] r.s.err = "" /\ EnumOf(r.n) \in DOMAIN Enums ->
                    LET p == MatchPayload(r.n, EnumOf(r.n), r.s) IN Lower(p.n, fns, p.s)
               [] r.s.err = "" /\ EnumOf(r.n) \notin DOMAIN Enums ->
                    kids(r.n, MatchCheck(r.n, r.s)))
       [] n.k = "match" /\ n.t # "" -> kids(n, MatchCheck(n, s))
       [] n.k = "call" /\ hits # {} ->
            LET b == BindArgs(n.c, fns[CHOOSE i \in hits : TRUE].c[1].c, s) IN
            kids([n EXCEPT !.c = b.n], b.s)
       [] n.k = "func" -> kids([n EXCEPT !.c[3] = RewriteOld(@)], s)
       [] OTHER -> kids(n, s)

\* All definitions of a file.
Check(file) ==
  LET fns == SelectSeq(file.c, LAMBDA d : d.k = "func") IN Lower(file, fns, S0)
=============================================================================

------------------------------ MODULE MCProve ------------------------------
(* Instances of Prove: families of programs over the integers i and n, the
   lists xs and ys (a global one) and the list ts of an object. *)
EXTENDS LoopVersions

Lowest == -8

Objects == [p \in ListVar |-> IF p = "self.ts" THEN "self" ELSE None]

I == Ref("i")
N == Ref("n")
Below(x, p)  == Cmp("lt", Ref(x), LenOf(p))
Plus(l, v)   == Bin("add", l, Num(v))
Minus(l, v)  == Bin("sub", l, Num(v))
NonNeg(x)    == Cmp("ge", Ref(x), Num(0))
Count(bound) == Node("while", Cmp("lt", I, bound), <<>>, <<Let("i", Plus(I, 1))>>)

\* i is an int; n has a range type, and so is only assigned through a check.
Types(range) == [x \in IntVar |-> IF x = "n" THEN range ELSE IV_TOP]

Start(is, range, lists) ==
  {[int |-> [x \in IntVar |-> CASE x = "i" -> i [] x = "n" -> n [] OTHER -> 0], len |-> len] :
     i \in is, n \in Values(range),
     len \in {l \in [ListVar -> 0 .. MaxLen] : \A p \in ListVar \ lists : l[p] = 0}}

\* Over lists: i starts at the ends of what matters, n is always 0.
Ends == {MinInt, -1, 0, 1, MaxInt}

Lists(lists, menu, shapes, conds, bound) ==
  [menu |-> menu, shapes |-> shapes, conds |-> conds, types |-> Types(iv_of(0)),
   start |-> Start(Ends, iv_of(0), lists), ensures |-> None,
   checked |-> TRUE, prefix |-> <<>>, size |-> bound]

\* Over integers: i starts anywhere, n in its range.
Ints(range, menu, shapes, conds, bound) ==
  [menu |-> menu, shapes |-> shapes, conds |-> conds, types |-> Types(range),
   start |-> Start(Word, range, {}), ensures |-> None,
   checked |-> TRUE, prefix |-> <<>>, size |-> bound]

\* Indices and the lists they are below; a call may change the length.
Indexing(bound) == Lists({"xs", "ys"},
  {Get("xs", I), Get("ys", I), Put("xs", I), Let("i", Num(0)), Let("i", Plus(I, 1)), Call("xs")},
  {"if", "while", "match"},
  {Below("i", "xs"), Cmp("ne", LenOf("xs"), LenOf("ys")), NonNeg("i")}, bound)

\* Lists of the same length, one of them global; ways out of a body.
Lengths2(bound) == Lists({"xs", "ys"},
  {Get("xs", I), Get("ys", I), Call("xs"), Jump("raise"), Return(Num(0))},
  {"if", "try"},
  {And(NonNeg("i"), Below("i", "ys")), Cmp("eq", LenOf("xs"), LenOf("ys"))}, bound)

\* The list of an object that is handed on as a whole.
Fields(bound) == Lists({"self.ts"},
  {Get("self.ts", I), Call("self"), Let("i", Minus(I, 1))},
  {"if", "while"}, {And(NonNeg("i"), Below("i", "self.ts")), Touch("xs")}, bound)

\* Loops that are left early: break, continue, return.
Jumps(bound) == Lists({"xs"},
  {Get("xs", I), Let("i", Plus(I, 1)), Jump("break"), Jump("continue"), Return(Num(0))},
  {"if", "while"}, {Below("i", "xs"), NonNeg("i")}, bound)

\* Overflow, range checks, division.
Arithmetic(bound) == Ints(Between(0, 3),
  {Let("i", Plus(I, 1)), Let("i", Bin("mul", I, N)), Let("i", Bin("sub", N, I)),
   Let("i", Bin("mod", I, Plus(N, 1))), Let("n", Chk(Between(0, 3), I)), Let("i", Neg(N))},
  {"if", "while"}, {Cmp("lt", I, Num(3)), Cmp("gt", I, N)}, bound)

Dividing(bound) == Ints(Between(1, 3),
  {Let("i", Bin("mod", I, Num(3))), Let("i", Bin("div", I, Num(2))),
   Let("i", Bin("div", N, I)), Let("i", Bin("mul", I, I)), Let("n", Chk(Between(1, 3), I))},
  {"if"}, {Cmp("le", Num(0), I), Or(Cmp("lt", I, Num(-2)), Cmp("ge", I, N)),
           Not(Cmp("ne", I, N))}, bound)

\* The same with checks off: results wrap.
Wrapping(bound) == [Arithmetic(bound) EXCEPT !.checked = FALSE]

\* What a body does after a for: the increment is part of the loop.
Counting(bound) == [Arithmetic(bound) EXCEPT
  !.menu = @ \cup {Let("i", Num(0)), Count(N), Count(Num(3))}]

\* Contracts.
Contract(bound) == [Arithmetic(bound) EXCEPT
  !.ensures = Cmp("ge", Ref("result"), Num(0)),
  !.prefix  = <<Requires(Cmp("ge", I, Num(-1)))>>,
  !.menu    = {Return(I), Return(Plus(I, 1)), Return(N), Let("i", Plus(I, 1)),
               Let("i", Plus(N, 1)), Requires(Cmp("gt", I, Num(0)))}]

\* Loops of which the compiler makes two versions: over i, or over its alias j.
J == Ref("j")
Next_ == Let("i", Plus(I, 1))

Versioned(menu, bound) == [Lists({"xs"}, menu, {"while", "if"},
    {Cmp("lt", I, N)}, bound) EXCEPT
  !.types = Types(Between(-1, 2)),
  !.start = Start(-2 .. 1 \cup {MinInt}, Between(-1, 2), {"xs"})]

WhileForm(bound) == Versioned(
  {Get("xs", I), Get("xs", Minus(Bin("mul", I, I), 1)), Put("xs", J), Let("j", Plus(J, 1)),
   Next_}, bound)

ForForm(bound) == Versioned(
  {Decl("j", I), Get("xs", Bin("sub", N, J)), Put("xs", Minus(Bin("mul", J, J), 1)),
   Let("j", Num(0)), Next_}, bound)

\* An index in which both the induction variable and its alias occur.
BothForm(bound) == Versioned(
  {Decl("j", I), Get("xs", Bin("mul", Minus(I, 1), Plus(J, 1))), Next_}, bound)

All ==
  [indexing |-> Indexing(4), lengths |-> Lengths2(4), fields |-> Fields(3), jumps |-> Jumps(4),
   arithmetic |-> Arithmetic(3), dividing |-> Dividing(3), wrapping |-> Wrapping(3),
   counting |-> Counting(3), contract |-> Contract(3),
   whiles |-> WhileForm(4), fors |-> ForForm(4)]

\* A list that is given a new value.
Reassigned(bound) == [Indexing(bound) EXCEPT !.menu = {Get("xs", I), New("xs")}]
Reassigning == [reassigned |-> Reassigned(4)]
Twice == [both |-> BothForm(4)]
=============================================================================

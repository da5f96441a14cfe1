---------------------------- MODULE MCOwnCheck ----------------------------
(* Instances of OwnCheck: families of programs over two owners, slots. *)
EXTENDS OwnCheck, TLC

On(op, S)      == {Simple(op, x, None) : x \in S}
On2(op, S, T)  == {Simple(op, x, y) : x \in S, y \in T} \ {Simple(op, x, x) : x \in S \cap T}
Jump(op)       == {Simple(op, None, None)}
QR             == {"q", "r"}

NoAlias == [v \in Slot |-> None]
QofA    == [NoAlias EXCEPT !["q"] = "a"]
AllOfC  == [v \in Slot |-> "c"]

Family(menu, shapes, loans, bound, claims) ==
  [menu |-> menu, shapes |-> shapes, loans |-> loans, size |-> bound, claims |-> claims]

Promises == {"S1", "S2", "S3"}

\* Moves only: every way to move, restore and use a local.
Moves(bound) == Family(
  On("use", QR) \cup On("eat", QR) \cup On("renew", {"q"}) \cup On2("assign", QR, QR)
    \cup Jump("break") \cup Jump("continue") \cup Jump("return"),
  {"if", "while"}, NoAlias, bound, Promises \cup {"fixpoint"})

\* Aliases bound at their declaration: every way to make them stale.
Stale(bound) == Family(
  On("use", QR) \cup On("set", Owner) \cup On("eat", {"a"}) \cup On("renew", {"a"})
    \cup Jump("break") \cup Jump("continue"),
  {"if", "while"}, [AllOfC EXCEPT !["q"] = "a"], bound,
  Promises \cup {"fixpoint"})

\* Every kind of statement, in a straight line.
Straight(bound) == Family(
  On("use", Owner \cup QR) \cup On("eat", Owner \cup QR) \cup On("renew", Owner \cup QR)
    \cup On("set", Owner) \cup On2("borrow", QR, Owner) \cup On2("assign", QR, QR)
    \cup On2("store", Owner, QR),
  {}, QofA, bound, Promises \cup {"exact"})

\* Aliases handed on along the slots of a chain, in a loop.
Shift(chain, bound) == Family(
  {Simple("borrow", chain[1], "a"), Simple("set", "a", None)}
    \cup {Simple("assign", chain[i + 1], chain[i]) : i \in 1 .. Len(chain) - 1},
  {"while"}, AllOfC, bound, {"fixpoint"})

\* What a call that may fail leaves to the except clause.
Failing(bound) == Family(
  On("use", {"q"}) \cup On("eat", {"q"}) \cup On("renew", {"q"}) \cup Jump("call"),
  {"try"}, NoAlias, bound, {"S1"})

\* An alias bound to another owner in one branch.
Rebind(bound) == Family(
  On("use", {"q"}) \cup On("set", {"a"}) \cup On2("borrow", {"q"}, Owner),
  {"if"}, QofA, bound, {"S2"})

\* Every kind of statement in every control construct, and nothing claimed but
\* that what the checker keeps holds.
Mixed(bound) == Family(
  On("use", {"a", "q"}) \cup On("eat", {"a", "q"}) \cup On("renew", {"q"})
    \cup On("set", {"a"}) \cup On2("borrow", {"q"}, Owner) \cup On2("assign", QR, QR)
    \cup On2("store", {"a"}, {"q"}) \cup Jump("break") \cup Jump("continue")
    \cup Jump("call") \cup Jump("return"),
  {"if", "while", "try"}, QofA, bound, {})

Open(f) == [f EXCEPT !.claims = {}]

Sound   == {Moves(5), Stale(5), Straight(4), Shift(<<"q", "r", "s">>, 6),
            Mixed(4), Open(Failing(5)), Open(Rebind(5))}
Chained == {Shift(<<"q", "r", "s", "t">>, 6)}
Tried   == {Failing(4)}
Rebound == {Rebind(4)}
=============================================================================

------------------------------ MODULE MCLower ------------------------------
(* Instances of Lower: families of functions over the variables x, t, the own
   parameter p, and the error classes E1 and E2. *)
EXTENDS Lower

All_ == {"undefined", "twice", "leak", "none", "wrong", "unset"}

Function(kind, raises, menu, shapes, conds, bound) ==
  [kind |-> kind, raises |-> raises, param |-> None, menu |-> menu, shapes |-> shapes,
   conds |-> conds, keys |-> {}, catches |-> {"E1"}, size |-> bound, claims |-> All_]

\* Ways out of a function that returns a value.
Returning(bound) == [Function("value", {},
    {Jump("return"), Jump("break"), Jump("continue"), Call(None)},
    {"if", "while"}, {Opaque, True}, bound) EXCEPT !.claims = @]

\* The same with match, try and unsafe:, where no break stands.
Branching(bound) == [Function("value", {"E1"},
    {Jump("return"), Jump("panic"), Call("E1"), Raise("E2")},
    {"match", "try", "unsafe"}, {True}, bound) EXCEPT
  !.keys = {<<"A", "B", True>>, <<"A", "_", Opaque>>, <<"A", "B", Opaque>>, <<"A", "A", True>>,
            <<"B", "_", True>>}]

\* What may be None, in straight code.
Nullable(bound) == Function("none", {},
    {Find("t"), Use("t"), Refind("t"), Renew("t"), Jump("return")},
    {"if"}, {IsNot("t"), Is("t"), And(IsNot("t"), Reads("t")), Or(Is("t"), Reads("t")),
             Or(IsNot("t"), Opaque)}, bound)

\* In a loop that looks at it every time round.
Looking(bound) == Function("none", {},
    {Find("t"), Use("t"), Refind("t"), Jump("break"), Jump("continue")},
    {"while"}, {IsNot("t"), And(IsNot("t"), Opaque)}, bound)

\* Owned values, in loops and branches.
Owning(bound) == Function("none", {},
    {Declare("x", None), Give("x", None), Renew("x"), Jump("return"), Jump("break"), Jump("continue")},
    {"if", "while"}, {Opaque}, bound)

\* Owned values, calls that fail and tries that catch every error.
Failing(bound) == Function("none", {"E1"},
    {Declare("x", "E1"), Declare("t", None), Give("x", "E1"), Call("E1"), Raise("E1")},
    {"try", "while"}, {Opaque}, bound)

\* Two classes of errors: a value between two tries may leak.
Classes(bound) == [Function("none", {"E1"},
    {Declare("x", None), Call("E1"), Call("E2"), Raise("E2"), Jump("return")},
    {"try"}, {}, bound) EXCEPT !.claims = @ \ {"leak"},
    !.catches = {"E1", "E2"}]

\* Constructors.
Building(bound) == Function("init", {"E1"},
    {SetField, Call("E1"), Raise("E1"), Jump("return")}, {"if", "while", "try"}, {Opaque}, bound)

\* An own parameter and calls that may fail.
Parameter(bound) == [Failing(bound) EXCEPT !.param = "p"]

All ==
  [returning |-> Returning(5), branching |-> Branching(5), nullable |-> Nullable(5),
   looking |-> Looking(5), owning |-> Owning(5), failing |-> Failing(4), classes |-> Classes(5),
   building |-> Building(5)]

OwnParameter == [parameter |-> Parameter(3)]
=============================================================================

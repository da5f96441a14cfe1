-------------------------------- MODULE Flow --------------------------------
(***************************************************************************)
(* What the type checker (src/src/sema.c) makes of the control flow of a   *)
(* function body: which names are in scope and whether they can be None    *)
(* (narrowing), which errors are handled, whether every path returns, and  *)
(* whether a constructor sets its fields.                                  *)
(*                                                                         *)
(* Values are objects of a class T.  A variable is declared T, or T | None *)
(* ("opt"), which has to be narrowed to T before it is used.  A condition  *)
(* is opaque, or asks whether variables are None.                          *)
(***************************************************************************)
EXTENDS Integers, Sequences, SequencesExt, FiniteSets, TLC

CONSTANT None   \* no variable, no error

-----------------------------------------------------------------------------
\* Conditions.  "reads" is one that uses x, as in x.v == 0.
Opaque       == [k |-> "opaque"]
True         == [k |-> "true"]
IsNot(x)     == [k |-> "isnot", x |-> x]
Is(x)        == [k |-> "is", x |-> x]
Reads(x)     == [k |-> "reads", x |-> x]
And(l, r)    == [k |-> "and", l |-> l, r |-> r]
Or(l, r)     == [k |-> "or", l |-> l, r |-> r]

\* Statements: an op, a variable, an error, a condition, two bodies.  Of a
\* "try" els is the handler of y; of a "match" els is the second case, and x and
\* y are the values of the cases, "_" the one that takes what is left.
Stm(op, x, y, c, body, els) ==
  [op |-> op, x |-> x, y |-> y, c |-> c, body |-> body, els |-> els]

Declare(x, y)  == Stm("decl", x, y, Opaque, <<>>, <<>>)   \* x: T = make(), may fail with y
Find(x)        == Stm("find", x, None, Opaque, <<>>, <<>>) \* x: T | None = find()
Renew(x)       == Stm("renew", x, None, Opaque, <<>>, <<>>) \* x = T()
Refind(x)      == Stm("refind", x, None, Opaque, <<>>, <<>>) \* x = find()
Use(x)         == Stm("use", x, None, Opaque, <<>>, <<>>)
Give(x, y)     == Stm("give", x, y, Opaque, <<>>, <<>>)   \* keep(x), may fail with y
Call(y)        == Stm("call", None, y, Opaque, <<>>, <<>>)
Raise(y)       == Stm("raise", None, y, Opaque, <<>>, <<>>)
Jump(op)       == Stm(op, None, None, Opaque, <<>>, <<>>) \* return break continue panic
SetField       == Stm("field", None, None, Opaque, <<>>, <<>>) \* self.f = T()

-----------------------------------------------------------------------------
\* Mutant of has_break: only what stands directly in the loop.
has_break_here(body) == \E i \in DOMAIN body : body[i].op = "break"

\* A break that belongs to a loop inside is not one of this loop.
RECURSIVE has_break(_)
has_break(body) ==
  \E i \in DOMAIN body :
    \/ body[i].op = "break"
    \/ body[i].op = "if" /\ (has_break(body[i].body) \/ has_break(body[i].els))

\* Does a statement of the body always leave the function?
RECURSIVE always_returns(_)
always_returns(body) ==
  \E i \in DOMAIN body :
    LET s    == body[i]
        both == always_returns(s.body) /\ always_returns(s.els)
    IN  CASE s.op \in {"return", "raise", "panic"} -> TRUE
          [] s.op = "if"    -> both
          [] s.op = "while" -> s.c = True /\ ~has_break(s.body)
          [] s.op = "match" -> both
          [] s.op = "try"   -> both
          [] OTHER -> FALSE

-----------------------------------------------------------------------------
(***************************************************************************)
(* Narrowing.  vars: the names in scope, each with the type it was         *)
(* declared with and the one it has now.                                   *)
(***************************************************************************)
RECURSIVE Narrowed(_, _)
Narrowed(c, positive) ==
  CASE c.k = "isnot" /\ positive  -> {c.x}
    [] c.k = "is" /\ ~positive    -> {c.x}
    [] c.k = "and" /\ positive    -> Narrowed(c.l, TRUE) \cup Narrowed(c.r, TRUE)
    [] c.k = "or" /\ ~positive    -> Narrowed(c.l, FALSE) \cup Narrowed(c.r, FALSE)
    [] OTHER -> {}

narrow_apply(vars, c, positive) ==
  [x \in DOMAIN vars |-> IF x \in Narrowed(c, positive) /\ vars[x].now = "opt"
                         THEN [vars[x] EXCEPT !.now = "T"] ELSE vars[x]]

NarrowSet(vars, c, positive) ==
  {x \in Narrowed(c, positive) : x \in DOMAIN vars /\ vars[x].now = "opt"}

narrow_restore(vars, ns) ==
  [x \in DOMAIN vars |-> IF x \in ns THEN [vars[x] EXCEPT !.now = "opt"] ELSE vars[x]]

RECURSIVE check_cond(_, _)

\* check_is: only a value that can be None is compared with it.
check_is(vars, x) == x \in DOMAIN vars /\ vars[x].now = "opt"

\* reject_opt_access: what may be None is not used.
Usable(vars, x) == x \in DOMAIN vars /\ vars[x].now = "T"

\* check_logical: the right side is looked at knowing how the left side came out.
check_logical(vars, c) ==
  check_cond(vars, c.l) /\ check_cond(narrow_apply(vars, c.l, c.k = "and"), c.r)

check_cond(vars, c) ==
  CASE c.k \in {"opaque", "true"} -> TRUE
    [] c.k \in {"is", "isnot"}    -> check_is(vars, c.x)
    [] c.k = "reads"              -> Usable(vars, c.x)
    [] c.k \in {"and", "or"}      -> check_logical(vars, c)

-----------------------------------------------------------------------------
(***************************************************************************)
(* The walk.  e: the names, the errors that the enclosing tries catch, how *)
(* deep in loops, the errors the function declares, and whether an error   *)
(* was reported.                                                           *)
(***************************************************************************)
Report(e, bad) == [e EXCEPT !.err = @ \/ bad]

\* check_vardecl: neither declared before nor hiding another one; known after
\* its value was looked at.
check_vardecl(e, x, type) ==
  IF x \in DOMAIN e.vars THEN Report(e, TRUE)
  ELSE [e EXCEPT !.vars = (x :> [decl |-> type, now |-> type]) @@ @]

\* Mutant of check_assign: what was known of x is kept.
assign_keep(e, x, type) ==
  IF x \notin DOMAIN e.vars THEN Report(e, TRUE)
  ELSE Report(e, type = "opt" /\ e.vars[x].decl = "T")

\* check_assign: what was known of x is forgotten.
check_assign(e, x, type) ==
  IF x \notin DOMAIN e.vars THEN Report(e, TRUE)
  ELSE LET v == e.vars[x]
       IN  Report([e EXCEPT !.vars = (x :> [v EXCEPT !.now = v.decl]) @@ @],
                  type = "opt" /\ v.decl = "T")

use(e, x) == Report(e, ~Usable(e.vars, x))

try_catches(e, y)   == y \in e.caught
func_declares(e, y) == y \in e.raises

\* Of a call that may fail with y; a raise is checked in the same way.
check_can_fail(e, y) == Report(e, y # None /\ ~try_catches(e, y) /\ ~func_declares(e, y))

\* The case values: each once, "_" last, and all there is one way or the other.
\* s.c is "true" for an enumeration (of "A" and "B"), opaque for an int.
cases_ok(s) ==
  /\ s.x # "_"
  /\ s.x # s.y
  /\ s.c = Opaque => s.y = "_"

Only(vars, names) == [x \in names |-> vars[x]]

RECURSIVE check_stmt(_, _), check_stmt_list(_, _, _)

\* guard: the names narrowed by ifs that leave, for the rest of the list.
check_stmt_list(e, body, guard) ==
  IF body = <<>> THEN [e EXCEPT !.vars = narrow_restore(@, guard)]
  ELSE LET s == body[1]
           f == check_stmt(e, s)
       IN  IF s.op = "if" /\ s.els = <<>> /\ always_returns(s.body)
           THEN check_stmt_list([f EXCEPT !.vars = narrow_apply(@, s.c, FALSE)], Tail(body),
                           guard \cup NarrowSet(f.vars, s.c, FALSE))
           ELSE check_stmt_list(f, Tail(body), guard)

\* A scope of its own: names go, what was forgotten of outer ones stays so.
check_block(e, body) ==
  LET f == check_stmt_list(e, body, {})
  IN  [f EXCEPT !.vars = Only(@, DOMAIN e.vars)]

\* The body under a condition that narrows.
check_under(e, body, c, positive) ==
  LET ns == NarrowSet(e.vars, c, positive)
      f  == check_block([e EXCEPT !.vars = narrow_apply(@, c, positive)], body)
  IN  [f EXCEPT !.vars = narrow_restore(@, ns)]

check_if(e, s) ==
  LET t == check_under(Report(e, ~check_cond(e.vars, s.c)), s.body, s.c, TRUE)
  IN  check_under(t, s.els, s.c, FALSE)

check_while(e, s) ==
  LET c == Report(e, ~check_cond(e.vars, s.c))
      b == check_under([c EXCEPT !.loops = @ + 1], s.body, s.c, TRUE)
  IN  [b EXCEPT !.loops = e.loops]

check_match(e, s) == check_block(check_block(Report(e, ~cases_ok(s)), s.body), s.els)

\* The handler is outside of its own try.
check_try(e, s) ==
  LET b == check_block([e EXCEPT !.caught = @ \cup {s.y}], s.body)
  IN  check_block([b EXCEPT !.caught = e.caught], s.els)

check_stmt(e, s) ==
  CASE s.op = "decl"   -> check_vardecl(check_can_fail(e, s.y), s.x, "T")
    [] s.op = "find"   -> check_vardecl(e, s.x, "opt")
    [] s.op = "renew"  -> check_assign(e, s.x, "T")
    [] s.op = "refind" -> check_assign(e, s.x, "opt")
    [] s.op = "use"    -> use(e, s.x)
    [] s.op = "give"   -> check_can_fail(use(e, s.x), s.y)
    [] s.op \in {"call", "raise"} -> check_can_fail(e, s.y)
    [] s.op \in {"return", "panic", "field"} -> e
    [] s.op \in {"break", "continue"} -> Report(e, e.loops = 0)
    [] s.op = "unsafe" -> check_block(e, s.body)
    [] s.op = "if"     -> check_if(e, s)
    [] s.op = "while"  -> check_while(e, s)
    [] s.op = "match"  -> check_match(e, s)
    [] s.op = "try"    -> check_try(e, s)

-----------------------------------------------------------------------------
\* A constructor sets its field on every path that does not fail.
RECURSIVE contains_return(_)
contains_return(body) ==
  \E i \in DOMAIN body : \/ body[i].op = "return"
                         \/ contains_return(body[i].body) \/ contains_return(body[i].els)

RECURSIVE definitely_assigns(_)

\* Mutant of definitely_assigns: a return on the way is not looked for.
definitely_assigns_late(body) ==
  \E i \in DOMAIN body :
    \/ body[i].op = "field"
    \/ /\ body[i].op \in {"if", "try"}
       /\ definitely_assigns(body[i].body) /\ definitely_assigns(body[i].els)

definitely_assigns(body) ==
  /\ body # <<>>
  /\ LET s == body[1] IN
     \/ s.op = "field"
     \/ s.op \in {"if", "try"} /\ definitely_assigns(s.body) /\ definitely_assigns(s.els)
     \/ ~contains_return(<<s>>) /\ definitely_assigns(Tail(body))

\* check_func, with the kind of function: one that returns a value ("value") or
\* none ("none"), a constructor ("init").  The own parameter is a T.
Accepted(prog, f) ==
  LET start == [vars   |-> IF f.param = None THEN <<>> ELSE f.param :> [decl |-> "T", now |-> "T"],
                caught |-> {}, loops |-> 0, raises |-> f.raises, err |-> FALSE]
  IN  /\ ~check_stmt_list(start, prog, {}).err
      /\ f.kind = "value" => always_returns(prog)
      /\ f.kind = "init" => definitely_assigns(prog)
=============================================================================

------------------------------ MODULE OwnStep ------------------------------
(***************************************************************************)
(* One simple statement: what the ownership checker (src/src/ownck.c)      *)
(* makes of it, and what the compiled code does.                           *)
(*                                                                         *)
(* The checker's state: the flow f, the loans (global to the function, not *)
(* part of the flow), the flows that reached the break and continue of the *)
(* innermost loop, whether a diagnostic was given, and whether check_while *)
(* gave up (internal_error).  What the checker does not keep is in seen:   *)
(* the loans that went with the breaks and continues, what was known at    *)
(* the calls that may raise, and whether it went on with something that    *)
(* does not hold on every path (OwnBlock).                                 *)
(***************************************************************************)
EXTENDS OwnFlow

ASSUME ValuesAssumption == Local \cap {"own", "moved", "freed"} = {}

Seen == [brk : SUBSET LoanTable, cont : SUBSET LoanTable,
         raised : SUBSET [f : Flow, loan : LoanTable], lost : BOOLEAN]

Env == [f : Flow, loan : LoanTable, brk : Flow, cont : Flow, err : BOOLEAN,
        crash : BOOLEAN, seen : Seen]

\* At the beginning of a function whose aliases are those of loan.
Start(loan) ==
  [f |-> [dead |-> FALSE, st |-> [v \in Local |-> "valid"]], loan |-> loan,
   brk |-> DeadFlow, cont |-> DeadFlow, err |-> FALSE, crash |-> FALSE,
   seen |-> [brk |-> {}, cont |-> {}, raised |-> {}, lost |-> FALSE]]

Report(e, bad) == [e EXCEPT !.err = e.err \/ bad]

\* check_use
Use(e, v) == Report(e, e.f.st[v] # "valid")

\* move_expr of a local: whether the target owns the value afterwards.
Owned(e, v) == v \in Owner \/ e.loan[v] = None

\* move_expr of a local that owns its value: x.p goes with x.
Move(e, v) ==
  LET u == Use(e, v) IN
  [u EXCEPT !.f = invalidate_loans(flow_move(u.f, v), e.loan, v)]

\* take(v), v an "own" argument; of a borrowed value: E-BORROW-1.
Eat(e, v) == IF Owned(e, v) THEN Move(e, v) ELSE Report(Use(e, v), TRUE)

\* forget_loan / record_loan and bind_alias, then flow_clear of the target.
Bind(e, v, lender) == [e EXCEPT !.loan[v] = lender, !.f = flow_clear(e.f, v)]

\* Mutant of Renew: a moved local does not become usable again.
RenewStillMoved(e, v) ==
  [e EXCEPT !.loan = [l \in Slot |-> IF l = v THEN None ELSE e.loan[l]],
            !.f = invalidate_loans(e.f, e.loan, v)]

\* v = B(...): the old value of an owner is dropped with its field.
Renew(e, v) ==
  IF v \in Owner
  THEN [e EXCEPT !.f = flow_clear(invalidate_loans(e.f, e.loan, v), v)]
  ELSE Bind(e, v, None)

\* v = x.p
Borrow(e, v, x) == Bind(Use(e, x), v, x)

\* Mutant of Assign: the alias of an alias counts as an owner.
AssignForgetRoot(e, v, w) == IF Owned(e, w) THEN Bind(Move(e, w), v, None)
                             ELSE Bind(Use(e, w), v, None)

\* v = w: an owned w moves, a borrowed one is borrowed once more.
Assign(e, v, w) ==
  IF Owned(e, w) THEN Bind(Move(e, w), v, None)
  ELSE Bind(Use(e, w), v, e.loan[w])

\* x.p = B(...): the aliases of x.p go stale, then assign_to(x.p).
SetField(e, x) ==
  LET i == [e EXCEPT !.f = invalidate_loans(e.f, e.loan, x)]
      u == Use(i, x)
  IN  [u EXCEPT !.f = flow_clear(u.f, x)]

\* x.p = v: storing a borrowed value is E-BORROW-3.
Store(e, x, v) == SetField(Eat(e, v), x)

\* stmt() of a simple statement.
Checked(e, s) ==
  CASE s.op = "use"      -> Use(e, s.x)
    [] s.op = "eat"      -> Eat(e, s.x)
    [] s.op = "renew"    -> Renew(e, s.x)
    [] s.op = "borrow"   -> Borrow(e, s.x, s.y)
    [] s.op = "assign"   -> Assign(e, s.x, s.y)
    [] s.op = "set"      -> SetField(e, s.x)
    [] s.op = "store"    -> Store(e, s.x, s.y)

\* The simple statements.
Typed(s) ==
  \/ s.op \in {"use", "eat", "renew"} /\ s.x \in Local
  \/ s.op = "set" /\ s.x \in Owner
  \/ s.op = "borrow" /\ s.x \in Slot /\ s.y \in Owner
  \/ s.op = "assign" /\ s.x \in Slot /\ s.y \in Slot
  \/ s.op = "store" /\ s.x \in Owner /\ s.y \in Slot

Statement ==
  {s \in [op : {"use", "eat", "renew", "set", "borrow", "assign", "store"},
          x : Local, y : Local \cup {None}] : Typed(s)}

-----------------------------------------------------------------------------
(***************************************************************************)
(* The memory.  The value of an owner is "own" or "moved" (the slot is     *)
(* NULL); the value of a slot may also be the name of the owner whose      *)
(* field it points into, or "freed" when that field was given back.        *)
(***************************************************************************)
Memory == [Local -> {"own", "moved", "freed"} \cup Owner]

\* The aliases among the parameters point into their owners.
Arguments(loan) ==
  [v \in Local |-> IF v \in Slot /\ loan[v] # None THEN loan[v] ELSE "own"]

Dangle(m, x) == [v \in Local |-> IF m[v] = x THEN "freed" ELSE m[v]]

\* What goes wrong when statement s runs in state m.
Fault(s, m) ==
  LET Reads(v) == IF m[v] \in {"moved", "freed"} THEN {m[v]} ELSE {}
      Takes(v) == Reads(v) \cup (IF m[v] \in Owner THEN {"twice"} ELSE {})
  IN  CASE s.op = "use"    -> Reads(s.x)
        [] s.op = "eat"    -> Takes(s.x)
        [] s.op = "borrow" -> Reads(s.y)
        [] s.op = "assign" -> Reads(s.y)
        [] s.op = "set"    -> Reads(s.x)
        [] s.op = "store"  -> Reads(s.x) \cup Takes(s.y)
        [] OTHER -> {}

\* A local that owns its value hands it over, an alias is copied.
After(s, m) ==
  CASE s.op = "eat"    -> [Dangle(m, s.x) EXCEPT ![s.x] = "moved"]
    [] s.op = "renew"  -> [Dangle(m, s.x) EXCEPT ![s.x] = "own"]
    [] s.op = "borrow" -> [m EXCEPT ![s.x] = s.y]
    [] s.op = "assign" -> [m EXCEPT ![s.y] = IF @ = "own" THEN "moved" ELSE @,
                                    ![s.x] = m[s.y]]
    [] s.op = "set"    -> Dangle(m, s.x)
    [] s.op = "store"  -> [Dangle(m, s.x) EXCEPT ![s.y] = "moved"]
    [] OTHER -> m

=============================================================================

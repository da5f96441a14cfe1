------------------------------ MODULE OwnBlock ------------------------------
(***************************************************************************)
(* The statements around those of OwnStep: what the ownership checker      *)
(* makes of a branch, a loop or a try, given what it makes of their        *)
(* bodies, and where the executions of the compiled code go in them.       *)
(*                                                                         *)
(* A body is two functions: from what the checker knows before it to what  *)
(* it knows behind it, and from the memory states before it to where the   *)
(* paths through it end.                                                   *)
(***************************************************************************)
EXTENDS OwnStep

-----------------------------------------------------------------------------
(***************************************************************************)
(* seen.lost: the loan table is not part of the flow, so where paths meet  *)
(* the checker goes on with the table of the path it walked last; and an   *)
(* except clause is walked with the flow before the try.  It is set when   *)
(* that is not what holds on one of the paths.                             *)
(***************************************************************************)

\* What f takes for valid, g does too.
Trusts(f, g) ==
  \/ g.dead
  \/ ~f.dead /\ \A v \in Local : f.st[v] = "valid" => g.st[v] = "valid"

\* The aliases that f takes for valid have in one table the loan of the other.
Keeps(f, loan, old) == \A v \in Slot : f.st[v] = "valid" => loan[v] = old[v]

\* The table at the end of a path, if it gets there.
Loans(e) == IF e.f.dead THEN {} ELSE {e.loan}

-----------------------------------------------------------------------------
(***************************************************************************)
(* The analysis.                                                           *)
(***************************************************************************)
Ended(f) == [f EXCEPT !.dead = TRUE]

Break(e) ==
  [e EXCEPT !.brk = flow_join(e.brk, e.f), !.f = Ended(e.f), !.seen.brk = @ \cup {e.loan}]

Continue(e) ==
  [e EXCEPT !.cont = flow_join(e.cont, e.f), !.f = Ended(e.f), !.seen.cont = @ \cup {e.loan}]

Return(e) == [e EXCEPT !.f = Ended(e.f)]

\* A call that may raise an error.
Call(e) == [e EXCEPT !.seen.raised = @ \cup {[f |-> e.f, loan |-> e.loan]}]

\* What stands behind a return, break or continue is not looked at.
Then(e, next) == IF e.f.dead THEN e ELSE next[e]

\* Both branches start from the same flow, the loans run through them.
If(e, then, else) ==
  LET t    == then[e]
      u    == else[[t EXCEPT !.f = e.f]]
      f    == flow_join(t.f, u.f)
      lost == ~Keeps(e.f, t.loan, e.loan) \/ \E l \in Loans(t) : ~Keeps(f, u.loan, l)
  IN  [u EXCEPT !.f = f, !.seen.lost = @ \/ lost]

\* One round over the body: the back edge in .back, the exit in .exit, and
\* the loans that go with the paths to them.
while_once(e, body) ==
  LET b == body[[e EXCEPT !.brk = DeadFlow, !.cont = DeadFlow,
                          !.seen.brk = {}, !.seen.cont = {}]]
  IN  [env   |-> [b EXCEPT !.brk = e.brk, !.cont = e.cont,
                           !.seen.brk = e.seen.brk, !.seen.cont = e.seen.cont],
       back  |-> flow_join(b.f, b.cont),
       exit  |-> flow_join(e.f, b.brk),
       again |-> Loans(b) \cup b.seen.cont,
       left  |-> {e.loan} \cup b.seen.brk]

\* Back at the head: nothing was reported (quiet), but the loans of a round are
\* those of the next.
Lowered(e, w) ==
  [e EXCEPT !.f = flow_join(e.f, w.back), !.loan = w.env.loan, !.crash = w.env.crash]

\* A round towards the fixpoint.
Round(e, body) == Lowered(e, while_once(e, body))

\* Before the last of the rounds 0 to 3: the one that changes nothing, or round 3.
Entry(e, body) ==
  LET e1 == Round(e, body)
      e2 == Round(e1, body)
      e3 == Round(e2, body)
  IN  IF e1.f = e.f THEN e ELSE IF e2.f = e1.f THEN e1 ELSE IF e3.f = e2.f THEN e2 ELSE e3

\* Mutant of check_while: the body is looked at once.
check_while_once(e, body) ==
  LET w == while_once(e, body) IN [w.env EXCEPT !.f = flow_join(e.f, w.exit)]

\* Mutant of check_while: a round fewer to reach the fixpoint.
check_while_short(e, body) ==
  LET e1 == Round(e, body)
      e2 == Round(e1, body)
      x  == IF e1.f = e.f THEN e1 ELSE Round(e2, body)
      w  == while_once(x, body)
  IN  [w.env EXCEPT !.f = w.exit, !.crash = @ \/ (e1.f # e.f /\ e2.f # e1.f /\ x.f # e2.f)]

\* Of a loop before which e is known: the last round went from y to x, and w is
\* the one with diagnostics.
LoopLost(e, y, x, w) ==
  \/ \E l \in {e.loan} \cup w.again : ~Keeps(x.f, x.loan, l)
  \/ \E l \in w.left : ~Keeps(w.exit, w.env.loan, l)
  \/ x.loan # y.loan /\ ~Trusts(x.f, w.back)

Leave(e, y, x, w) ==
  [w.env EXCEPT !.f = w.exit, !.crash = @ \/ x.f # y.f,
                !.seen.lost = @ \/ LoopLost(e, y, x, w)]

\* The rounds, and one with diagnostics from the entry they found.
check_while(e, body) ==
  LET y == Entry(e, body)
      x == Round(y, body)
  IN  Leave(e, y, x, while_once(x, body))

\* An except clause starts from the flow before the try; an error raised in it,
\* or one of a class that it does not name, leaves the statement.
Try(e, body, except) ==
  LET b    == body[[e EXCEPT !.seen.raised = {}]]
      x    == except[[b EXCEPT !.f = e.f, !.seen.raised = @ \cup e.seen.raised]]
      f    == flow_join(b.f, x.f)
      lost == \/ \E r \in b.seen.raised : ~Trusts(e.f, r.f) \/ ~Keeps(e.f, b.loan, r.loan)
              \/ \E l \in Loans(b) : ~Keeps(f, x.loan, l)
  IN  [x EXCEPT !.f = f, !.seen.lost = @ \/ lost]

-----------------------------------------------------------------------------
(***************************************************************************)
(* The executions: the memory states in which the paths through a body     *)
(* end, by the way it is left, and what goes wrong on them.                *)
(***************************************************************************)
Results ==
  [ok : SUBSET Memory, exc : SUBSET Memory, brk : SUBSET Memory, cont : SUBSET Memory,
   bad : SUBSET {"moved", "freed", "twice"}]

NoStates == [ok |-> {}, exc |-> {}, brk |-> {}, cont |-> {}, bad |-> {}]

\* Two results side by side; .ok is given.
Merge(r, t, ok) ==
  [ok  |-> ok, exc |-> r.exc \cup t.exc, brk |-> r.brk \cup t.brk,
   cont |-> r.cont \cup t.cont, bad |-> r.bad \cup t.bad]

\* A simple statement, in every state of S.
RunStep(s, S) ==
  [NoStates EXCEPT !.ok  = {After(s, m) : m \in {m \in S : Fault(s, m) = {}}},
                   !.bad = UNION {Fault(s, m) : m \in S}]

RunThen(r, next) == LET t == next[r.ok] IN Merge(r, t, t.ok)

RunIf(S, then, else) == Merge(then[S], else[S], then[S].ok \cup else[S].ok)

\* H: the states at the head of the loop.
RunLoop(H, body) ==
  LET r == body[H] IN [r EXCEPT !.ok = H \cup r.brk, !.brk = {}, !.cont = {}]

RunTry(S, body, except) ==
  LET r == body[S]
      t == except[r.exc]
  IN  Merge(r, t, r.ok \cup t.ok)

=============================================================================

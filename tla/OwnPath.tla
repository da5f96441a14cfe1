------------------------------ MODULE OwnPath ------------------------------
(***************************************************************************)
(* One path through the body of a function that ownck accepts: the         *)
(* statements on it, in any order and number, and the points where other   *)
(* paths meet it.  Of the control constructs only that is left: behind an  *)
(* if, at the head of a loop and at its end the checker goes on with a     *)
(* flow that covers the one of this path (OwnLoop is about the head).      *)
(***************************************************************************)
EXTENDS OwnStep

VARIABLES
  env,  \* what the checker knows
  mem   \* what every local holds
pathVars == <<env, mem>>

PathInit ==
  /\ env \in {Start(loan) : loan \in LoanTable}
  /\ mem = Arguments(env.loan)

\* The next statement, of which there is nothing to report.
Runs(s) ==
  /\ env' = Checked(env, s) /\ ~env'.err
  /\ mem' = After(s, mem)

\* Other paths meet this one: f is the merged flow, loan the table the
\* checker goes on with.  An alias it still takes for valid has kept its loan;
\* check_while and the merge of branches take the table of the last path
\* walked and do not see to it.
Meets(f, loan) ==
  /\ ~f.dead /\ ~env.f.dead /\ Covers(f, env.f)
  /\ \A v \in Slot : f.st[v] = "valid" => loan[v] = env.loan[v]
  /\ env' = [env EXCEPT !.f = f, !.loan = loan]
  /\ UNCHANGED mem

PathNext ==
  \/ \E s \in Statement : Runs(s)
  \/ \E f \in Flow, loan \in LoanTable : Meets(f, loan)

PathSpec == PathInit /\ [][PathNext]_pathVars

\* Code without branches.
StraightSpec == PathInit /\ [][\E s \in Statement : Runs(s)]_pathVars

-----------------------------------------------------------------------------
\* A valid local holds what the checker takes it to hold: its own value, or the
\* owner whose field it borrows.
Agrees ==
  \A v \in Local : env.f.st[v] = "valid" =>
    mem[v] = IF v \in Slot /\ env.loan[v] # None THEN env.loan[v] ELSE "own"

\* S1 to S3 on every path: a statement there is nothing to report of reads no
\* value that was moved or freed and gives none away twice (stmt, codegen.c's
\* drops and moves).
PathSafe == \A s \in Statement : ~Checked(env, s).err => Fault(s, mem) = {}

\* Without branches nothing is reported without need: what the checker reports
\* of the next statement goes wrong when it runs.
PathExact == \A s \in Statement : Checked(env, s).err => Fault(s, mem) # {}

=============================================================================

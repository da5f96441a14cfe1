------------------------------ MODULE OwnFlow ------------------------------
(***************************************************************************)
(* The flow states of the ownership checker (src/src/ownck.c, part 3): the *)
(* state of every local at a point of the function, how two of them are    *)
(* merged where paths meet, and the table of what each alias borrows.      *)
(*                                                                         *)
(* Owners are locals of a class type with one field p; slots are locals of *)
(* the type of that field.  So the places of the checker are the locals    *)
(* and x.p for an owner x, and only x and x.p overlap.                     *)
(***************************************************************************)
CONSTANTS
  Owner,  \* locals of the class type
  Slot,   \* locals of the type of its field
  None    \* "no loan"

Local == Owner \cup Slot

ASSUME LocalsAssumption == Owner \cap Slot = {} /\ None \notin Local

OwnState == {"valid", "maybe", "moved"}

st_join(a, b) == IF a = b THEN a ELSE "maybe"

\* A place without an entry in Flow.ents is valid: here every local has one.
Flow == [dead : BOOLEAN, st : [Local -> OwnState]]

DeadFlow == [dead |-> TRUE, st |-> [v \in Local |-> "valid"]]

flow_clear(f, v) == [f EXCEPT !.st[v] = "valid"]
flow_move(f, v)  == [f EXCEPT !.st[v] = "moved"]

\* A path that ended takes no part in the merge.
flow_join(dst, src) ==
  IF src.dead THEN dst
  ELSE IF dst.dead THEN src
  ELSE [dead |-> FALSE, st |-> [v \in Local |-> st_join(dst.st[v], src.st[v])]]

\* f leaves nothing out that g reports: whatever g knows to be moved on some
\* path, f knows too.
Covers(f, g) ==
  \/ g.dead
  \/ ~f.dead /\ \A v \in Local : f.st[v] \in {g.st[v], "maybe"}

-----------------------------------------------------------------------------
(***************************************************************************)
(* Loans: the owner whose field an alias borrows, or None.  An alias with  *)
(* a loan is also a borrow root (BorrowRoot): both tables are changed      *)
(* together by the statements modelled here.                               *)
(***************************************************************************)
LoanTable == [Slot -> Owner \cup {None}]

\* Mutant of invalidate_loans: the aliases stay usable.
keep_loans(f, loan, x) == f

\* x.p, or x with it, is overwritten or given up: its aliases become stale.
invalidate_loans(f, loan, x) ==
  [f EXCEPT !.st = [v \in Local |->
     IF v \in Slot /\ loan[v] = x THEN "moved" ELSE f.st[v]]]

=============================================================================

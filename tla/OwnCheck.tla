------------------------------ MODULE OwnCheck ------------------------------
(***************************************************************************)
(* The ownership checker (src/src/ownck.c) on the bodies of functions, and *)
(* the executions of those bodies it answers for.                          *)
(*                                                                         *)
(* A program is a sequence of statements, grown one statement or one       *)
(* control construct at a time.  Analysis(prog) is what stmt() concludes;  *)
(* Execution(prog) collects the states every path of the compiled code     *)
(* goes through.  The promises S1 to S3 of docs/ja/spec/safety-spec.md     *)
(* relate the two: an accepted program has no bad execution.               *)
(*                                                                         *)
(* Conditions are opaque, so every branch can be taken and every loop run  *)
(* any number of times.  rc[T], lists and comprehensions, mut arguments,   *)
(* lambdas, unsafe: blocks and the depth of scopes are left out.           *)
(***************************************************************************)
EXTENDS OwnBlock, Naturals, Sequences, SequencesExt, FiniteSets

\* The families of programs to look at.  Of each:
\*   menu    the simple statements its programs are made of
\*   shapes  the control constructs they use
\*   loans   the slots declared as aliases, and of what
\*   size    bound: statements and constructs in a program
\*   claims  which of the properties at the end are claimed of it
CONSTANT Families

ASSUME FamiliesAssumption == \A f \in Families : f.loans \in LoanTable /\ f.size \in Nat

Node(op, body, els) == [op |-> op, x |-> None, y |-> None, body |-> body, els |-> els]
Simple(op, x, y)    == [op |-> op, x |-> x, y |-> y, body |-> <<>>, els |-> <<>>]

VARIABLES family, prog, size
vars == <<family, prog, size>>

-----------------------------------------------------------------------------
(***************************************************************************)
(* The analysis: OwnStep and OwnBlock on the statements of a program.      *)
(***************************************************************************)
RECURSIVE StmtList(_, _)

Stmt(e, s) ==
  LET Body(b) == [d \in Env |-> StmtList(d, b)] IN
  CASE s.op \in {"use", "eat", "renew", "borrow", "assign", "set", "store"} -> Checked(e, s)
    [] s.op = "call"     -> Call(e)
    [] s.op = "return"   -> Return(e)
    [] s.op = "break"    -> Break(e)
    [] s.op = "continue" -> Continue(e)
    [] s.op = "if"       -> If(e, Body(s.body), Body(s.els))
    [] s.op = "while"    -> check_while(e, Body(s.body))
    [] s.op = "try"      -> Try(e, Body(s.body), Body(s.els))

StmtList(e, body) == FoldLeft(LAMBDA d, s : IF d.f.dead THEN d ELSE Stmt(d, s), e, body)

Analysis == StmtList(Start(family.loans), prog)

\* No break or continue is left over: they are all inside a loop.
Accepts(a) == ~a.err /\ ~a.crash /\ a.brk.dead /\ a.cont.dead

Accepted == Accepts(Analysis)

-----------------------------------------------------------------------------
(***************************************************************************)
(* The executions of a program, a list of statements run from the states   *)
(* in S.                                                                   *)
(***************************************************************************)
RECURSIVE RunList(_, _)

\* The states at the head of a loop.
RECURSIVE LoopHead(_, _)
LoopHead(body, S) ==
  LET r == RunList(body, S)
      T == S \cup r.ok \cup r.cont
  IN  IF T = S THEN S ELSE LoopHead(body, T)

Run(s, S) ==
  LET Paths(b) == [T \in SUBSET Memory |-> RunList(b, T)] IN
  CASE s.op = "return"   -> NoStates
    [] s.op = "break"    -> [NoStates EXCEPT !.brk = S]
    [] s.op = "continue" -> [NoStates EXCEPT !.cont = S]
    [] s.op = "call"     -> [NoStates EXCEPT !.ok = S, !.exc = S]
    [] s.op = "if"       -> RunIf(S, Paths(s.body), Paths(s.els))
    [] s.op = "while"    -> RunLoop(LoopHead(s.body, S), Paths(s.body))
    [] s.op = "try"      -> RunTry(S, Paths(s.body), Paths(s.els))
    [] OTHER             -> RunStep(s, S)

RunList(body, S) ==
  FoldLeft(LAMBDA r, s : LET t == Run(s, r.ok) IN Merge(r, t, t.ok),
           [NoStates EXCEPT !.ok = S], body)

Execution == RunList(prog, {Arguments(family.loans)})

-----------------------------------------------------------------------------
Init == family \in Families /\ prog = <<>> /\ size = 0

\* One more simple statement.
Write(s) ==
  /\ size < family.size
  /\ prog' = Append(prog, s)
  /\ size' = size + 1
  /\ UNCHANGED family

\* The last statements, from the i-th on, become the body of a loop.
Wrap(op, i) ==
  /\ size < family.size
  /\ op \in family.shapes \cap {"while"}
  /\ prog' = Append(SubSeq(prog, 1, i - 1), Node(op, SubSeq(prog, i, Len(prog)), <<>>))
  /\ size' = size + 1
  /\ UNCHANGED family

\* The same with two bodies: if / else, try / except.
Fork(op, i, j) ==
  /\ size < family.size
  /\ op \in family.shapes \cap {"if", "try"}
  /\ i < j
  /\ prog' = Append(SubSeq(prog, 1, i - 1),
                    Node(op, SubSeq(prog, i, j - 1), SubSeq(prog, j, Len(prog))))
  /\ size' = size + 1
  /\ UNCHANGED family

Next ==
  \/ \E s \in family.menu : Write(s)
  \/ \E op \in family.shapes, i \in DOMAIN prog : Wrap(op, i)
  \/ \E op \in family.shapes, i \in DOMAIN prog, j \in 1 .. Len(prog) + 1 : Fork(op, i, j)

Spec == Init /\ [][Next]_vars

-----------------------------------------------------------------------------
\* What the checker knows at the end holds on every path.
Kept == ~Analysis.seen.lost

\* S1: no execution of an accepted program reads a moved value.
\* S3: nor gives a value away that it does not own.
NoUseAfterMove ==
  Accepted =>
    /\ Kept \/ "S1" \in family.claims => "moved" \notin Execution.bad
    /\ Kept \/ "S3" \in family.claims => "twice" \notin Execution.bad

\* S2: nor does it read a value that was freed.
NoUseAfterFree == Accepted /\ (Kept \/ "S2" \in family.claims) => "freed" \notin Execution.bad

\* On code without branches nothing is rejected without need, and on loops
\* check_while reaches its fixpoint in the rounds it allows itself.
Exact ==
  /\ "exact" \in family.claims /\ Execution.bad = {} => Accepted
  /\ "fixpoint" \in family.claims => ~Analysis.crash

=============================================================================

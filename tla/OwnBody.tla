------------------------------ MODULE OwnBody ------------------------------
(***************************************************************************)
(* All function bodies, of any length and depth, by what they mean: bodies *)
(* are built from the statements outwards, the way OwnBlock puts them      *)
(* together.  What every built body has, every program has.                *)
(***************************************************************************)
EXTENDS OwnBlock

\* chk: what the checker makes of the body.  run: its executions.
Body == [chk : [Env -> Env], run : [SUBSET Memory -> Results]]

VARIABLE bodies  \* built so far

-----------------------------------------------------------------------------
Simple(s) ==
  [chk |-> [e \in Env |-> Checked(e, s)],
   run |-> [S \in SUBSET Memory |-> RunStep(s, S)]]

Pass ==
  [chk |-> [e \in Env |-> e],
   run |-> [S \in SUBSET Memory |-> [NoStates EXCEPT !.ok = S]]]

Breaks ==
  [chk |-> [e \in Env |-> Break(e)],
   run |-> [S \in SUBSET Memory |-> [NoStates EXCEPT !.brk = S]]]

Continues ==
  [chk |-> [e \in Env |-> Continue(e)],
   run |-> [S \in SUBSET Memory |-> [NoStates EXCEPT !.cont = S]]]

Returns ==
  [chk |-> [e \in Env |-> Return(e)], run |-> [S \in SUBSET Memory |-> NoStates]]

Calls ==
  [chk |-> [e \in Env |-> Call(e)],
   run |-> [S \in SUBSET Memory |-> [NoStates EXCEPT !.ok = S, !.exc = S]]]

Sequence(a, b) ==
  [chk |-> [e \in Env |-> Then(a.chk[e], b.chk)],
   run |-> [S \in SUBSET Memory |-> RunThen(a.run[S], b.run)]]

Branch(a, b) ==
  [chk |-> [e \in Env |-> If(e, a.chk, b.chk)],
   run |-> [S \in SUBSET Memory |-> RunIf(S, a.run, b.run)]]

\* The states at the head of a loop: the least set that holds those before it
\* and those that a round sends back.
AtHead(body, S) ==
  {m \in Memory : \A T \in SUBSET Memory :
     S \subseteq T /\ body[T].ok \subseteq T /\ body[T].cont \subseteq T => m \in T}

Loop(a) ==
  [chk |-> [e \in Env |-> check_while(e, a.chk)],
   run |-> [S \in SUBSET Memory |-> RunLoop(AtHead(a.run, S), a.run)]]

Guard(a, b) ==
  [chk |-> [e \in Env |-> Try(e, a.chk, b.chk)],
   run |-> [S \in SUBSET Memory |-> RunTry(S, a.run, b.run)]]

-----------------------------------------------------------------------------
BodyInit == bodies = {Pass, Breaks, Continues, Returns, Calls} \cup {Simple(s) : s \in Statement}

Write(a, b) == bodies' = bodies \cup {Sequence(a, b)}
Fork(a, b)  == bodies' = bodies \cup {Branch(a, b)}
Wrap(a)     == bodies' = bodies \cup {Loop(a)}
Catch(a, b) == bodies' = bodies \cup {Guard(a, b)}

BodyNext == \E a, b \in bodies : Write(a, b) \/ Fork(a, b) \/ Wrap(a) \/ Catch(a, b)

BodySpec == BodyInit /\ [][BodyNext]_bodies

-----------------------------------------------------------------------------
\* S1 to S3 of every program: if the checker accepts it, and what it knows
\* where paths meet holds on each of them, no execution reads a value that was
\* moved or freed or gives one away twice (check_func; codegen.c's drops).
BodySafe ==
  \A b \in bodies, loan \in LoanTable :
    LET d == b.chk[Start(loan)] IN
    ~d.err /\ ~d.crash /\ ~d.seen.lost => b.run[{Arguments(loan)}].bad = {}

=============================================================================
